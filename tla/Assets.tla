------------------------------- MODULE Assets -------------------------------
(***************************************************************************)
(* src/asset_shim.c: an asset is a FILE, found in one of three directories.*)
(* A path is a sequence of names below the game's directory; all files     *)
(* have LENGTH bytes, and a byte is known by its offset.                   *)
(*                                                                         *)
(* stdio is external.  It fills a buffer of BUFSIZ bytes from the kernel's *)
(* offset and keeps its own account of where in the file they come from.   *)
(* A seek to a place inside the buffer, as stdio accounts for it, keeps    *)
(* the buffer and sets the kernel's offset to its end; any other seek      *)
(* fills it anew, from a place up to BUFSIZ before the one sought, or      *)
(* leaves it empty.  A descriptor duplicated from an asset shares the      *)
(* kernel's offset with it, and stdio does not learn when that is moved.   *)
(***************************************************************************)
EXTENDS Callers, Integers, Sequences

CONSTANTS
    Handles,            \* assets open at once
    FileNames,          \* names the game opens
    Installed,          \* paths of the files that are there
    LENGTH, BUFSIZ

ASSUME FileAssumption == LENGTH \in Nat /\ BUFSIZ \in Nat \ {0}

VARIABLES
    files,              \* paths that exist
    assets,             \* the FILE of each handle: its position; base, where stdio thinks
                        \* the buffer starts; data, where it does; held, the bytes in it;
                        \* koff, the kernel's offset
    at,                 \* where AAsset_seek said the asset is, and what was read since
    shared,             \* the game has a duplicate of its descriptor
    adrift,             \* and moved that since stdio last set the kernel's offset
    misfilled           \* the buffer was filled while adrift

assetVars == <<files, assets, at, shared, adrift, misfilled>>

-----------------------------------------------------------------------------

Closed == [open |-> FALSE, pos |-> 0, base |-> 0, data |-> 0, held |-> 0, koff |-> 0]
Offsets == 0 .. LENGTH

AssetTypeOK ==
    /\ assets \in [Handles -> [open : BOOLEAN, pos : Nat, base : Nat, data : Nat,
                               held : 0 .. BUFSIZ, koff : Nat]]
    /\ at \in [Handles -> Nat]
    /\ shared \subseteq Handles /\ adrift \subseteq shared /\ misfilled \subseteq shared

\* asset_shim_init makes the directories.
AssetInit ==
    /\ files = Installed
    /\ assets = [h \in Handles |-> Closed] /\ at = [h \in Handles |-> 0]
    /\ shared = {} /\ adrift = {} /\ misfilled = {}

Least(a, b) == IF a < b THEN a ELSE b

-----------------------------------------------------------------------------

\* What is left of the buffer, and what a read of the kernel gets.
Ahead(f) == f.base + f.held - f.pos
Fill(koff) == IF koff < LENGTH THEN Least(BUFSIZ, LENGTH - koff) ELSE 0

\* The n bytes that fread gets, as offsets.
Bytes(f, n) ==
    LET buffered == Least(n, Ahead(f))
        more == Least(n - buffered, Fill(f.koff))
    IN  [i \in 1 .. buffered + more |->
            IF i <= buffered THEN f.data + (f.pos - f.base) + i - 1
            ELSE f.koff + i - buffered - 1]

\* The rest of the buffer is used and the buffer filled; a whole buffer's worth is read
\* past it, and at the end of the file it is left empty.
AfterRead(f, n) ==
    LET want == n - Ahead(f)
        end == f.pos + Ahead(f)
        fill == Fill(f.koff)
    IN  IF want <= 0 THEN [f EXCEPT !.pos = @ + n]
        ELSE IF want < BUFSIZ /\ want <= fill
        THEN [f EXCEPT !.pos = @ + n, !.base = end, !.data = f.koff, !.held = fill, !.koff = @ + fill]
        ELSE [f EXCEPT !.pos = end + fill, !.base = end + fill, !.data = f.koff + fill, !.held = 0,
                       !.koff = @ + fill]

InBuffer(f, pos) == f.base <= pos /\ pos < f.base + f.held

Filled(b, pos, n) ==
    [open |-> TRUE, pos |-> pos, base |-> b, data |-> b, held |-> n, koff |-> b + n]

\* The FILEs that fseek may make of f.
Sought(f, pos) ==
    IF InBuffer(f, pos) THEN {[f EXCEPT !.pos = pos, !.koff = f.base + f.held]}
    ELSE UNION {{Filled(b, pos, n) : n \in {pos - b, Fill(b)}} :
                    b \in {b \in 0 .. pos : pos - b < BUFSIZ}}

-----------------------------------------------------------------------------

\* assets, savedata, the directory itself, and without a leading assets/.
Candidates(name) ==
    << <<"assets">> \o name, <<"savedata">> \o name, name >>
        \o IF Head(name) = "assets" THEN << <<"assets">> \o Tail(name) >> ELSE <<>>

Exists(name) == \E k \in DOMAIN Candidates(name) : Candidates(name)[k] \in files

\* The length is where a seek to the end leads; then back.
Open(h, name) ==
    /\ ~assets[h].open /\ Exists(name)
    /\ \E f \in Sought(Closed, LENGTH) : \E g \in Sought(f, 0) : assets' = [assets EXCEPT ![h] = g]
    /\ at' = [at EXCEPT ![h] = 0]
    /\ UNCHANGED <<files, shared, adrift, misfilled>>

\* No such file, no memory, or no name; or a method is asked of no asset.
OpenNone == UNCHANGED assetVars

\* An asset adrift can think it is beyond the end: the game reads no further then.
Read(h, n) ==
    LET f == assets[h] IN
    /\ f.open /\ at[h] <= LENGTH
    /\ assets' = [assets EXCEPT ![h] = AfterRead(f, n)]
    /\ at' = [at EXCEPT ![h] = @ + Len(Bytes(f, n))]
    /\ misfilled' = IF n <= Ahead(f) THEN misfilled
                    ELSE IF h \in adrift THEN misfilled \cup {h} ELSE misfilled \ {h}
    /\ UNCHANGED <<files, shared, adrift>>

\* Mutant: it seeks the descriptor, under the FILE.
SeekUnderneath(h, pos) ==
    /\ assets[h].open
    /\ assets' = [assets EXCEPT ![h].koff = pos]
    /\ at' = [at EXCEPT ![h] = pos]
    /\ UNCHANGED <<files, shared, adrift, misfilled>>

\* pos is what it returns, from wherever the game counted.
Seek(h, pos) ==
    /\ assets[h].open
    /\ \E f \in Sought(assets[h], pos) : assets' = [assets EXCEPT ![h] = f]
    /\ at' = [at EXCEPT ![h] = pos]
    /\ adrift' = adrift \ {h}
    /\ misfilled' = IF InBuffer(assets[h], pos) THEN misfilled ELSE misfilled \ {h}
    /\ UNCHANGED <<files, shared>>

OpenFileDescriptor(h) ==
    /\ assets[h].open
    /\ shared' = shared \cup {h}
    /\ UNCHANGED <<files, assets, at, adrift, misfilled>>

\* The game seeks and reads through the descriptor.
UseDescriptor(h, pos) ==
    /\ h \in shared /\ assets[h].open
    /\ assets' = [assets EXCEPT ![h].koff = pos]
    /\ adrift' = adrift \cup {h}
    /\ UNCHANGED <<files, at, shared, misfilled>>

Close(h) ==
    /\ assets[h].open
    /\ assets' = [assets EXCEPT ![h] = Closed]
    /\ at' = [at EXCEPT ![h] = 0]
    /\ shared' = shared \ {h} /\ adrift' = adrift \ {h} /\ misfilled' = misfilled \ {h}
    /\ UNCHANGED files

\* The lengths; a configuration, whose fields nothing changes; the window's geometry.
GetLength == UNCHANGED assetVars
AskConfiguration == UNCHANGED assetVars
SetBuffersGeometry == UNCHANGED assetVars

\* The game writes its saves itself.
SaveFile(name) ==
    /\ files' = files \cup {<<"savedata">> \o name}
    /\ UNCHANGED <<assets, at, shared, adrift, misfilled>>

AssetNext ==
    \/ OpenNone \/ GetLength \/ AskConfiguration \/ SetBuffersGeometry
    \/ \E name \in FileNames : SaveFile(name)
    \/ \E h \in Handles :
          \/ \E name \in FileNames : Open(h, name)
          \/ \E n \in 1 .. BUFSIZ : Read(h, n)
          \/ OpenFileDescriptor(h) \/ Close(h)
          \/ \E pos \in Offsets : Seek(h, pos) \/ UseDescriptor(h, pos)

-----------------------------------------------------------------------------

Expected(from, n) == [i \in 1 .. Least(n, LENGTH - from) |-> from + i - 1]

\* Whatever was read and sought before, AAsset_read gives the bytes at the place where
\* AAsset_seek left the asset, unless the game moves a descriptor of it: both share one
\* offset, and nothing warns of it (asset_shim.c:91-102, 135-141).  Moving it spoils what
\* stdio has still to fetch, not what it has buffered.  A seek makes the former right
\* again; but a buffer filled meanwhile stays wrong until it is used up or a seek leads
\* out of it, and a seek inside it does not help.
ReadsInPlace ==
    \A h \in Handles \ misfilled : assets[h].open =>
        \A n \in 1 .. BUFSIZ :
            h \notin adrift \/ n <= Ahead(assets[h]) => Bytes(assets[h], n) = Expected(at[h], n)
=============================================================================
