---------------------------- MODULE ProgramProofs ----------------------------
(***************************************************************************)
(* What holds of the whole of main for every library, every table of       *)
(* imports, any hooks and any number of events: what runs is executable,   *)
(* visible to the processor and bound to its imports, and the process ends *)
(* only when the player asks for it.                                       *)
(***************************************************************************)
EXTENDS Program, SequenceTheorems, NaturalsInduction, WellFoundedInduction, TLAPS

-----------------------------------------------------------------------------
(***************************************************************************)
(* The loader.                                                             *)
(***************************************************************************)

Booted == {"find", "shim", "create"}

\* Before the patch the text is writable code if the kernel allows that, and writable
\* if not; from the patch on it is code whenever the kernel gave it once.
ProtInv ==
    /\ policy.wx => policy.rx
    /\ stage \in {"relocate", "resolve", "license", "playcore", "bundle", "patch"} /\ policy.wx =>
          prot = "RWX"
    /\ stage \in {"construct", "finalize"} \cup Booted =>
          /\ policy.wx => Executable
          /\ image.aligned /\ policy.rx /\ Patches => Executable

BootInv == ProtInv /\ CodeExecutable

\* Only these stages say anything of the text.
LEMMA EarlyStage ==
    ASSUME policy.wx => policy.rx, UNCHANGED policy,
           stage' \in {"start", "load", "failed"}
    PROVE  BootInv'
BY DEF BootInv, ProtInv, CodeExecutable, Booted

\* One of the three groups of hooks is installed.
LEMMA HookKeeps ==
    ASSUME BootInv, HookLicense \/ HookPlayCore \/ HookBundle
    PROVE  BootInv'
<1>1. policy' = policy /\ (policy.wx => policy.rx)
  BY DEF BootInv, ProtInv, HookLicense, HookPlayCore, HookBundle
<1>2. /\ stage' \in {"playcore", "bundle", "patch"}
      /\ policy.wx => prot' = "RWX"
  BY DEF BootInv, ProtInv, HookLicense, HookPlayCore, HookBundle, Step, Protected
<1> QED BY <1>1, <1>2 DEF BootInv, ProtInv, CodeExecutable, Booted

\* The canary patch ends with the text executable, if the kernel allows it.
LEMMA PatchKeeps ==
    ASSUME BootInv, Patch
    PROVE  BootInv'
<1>1. /\ policy' = policy /\ image' = image /\ (policy.wx => policy.rx)
      /\ stage = "patch" /\ stage' = "construct" /\ stale' = {}
      /\ prot' = IF Protected("RX") = "RX" THEN "RX" ELSE Protected("RWX")
  BY DEF BootInv, ProtInv, Patch, Step
<1>2. policy.wx => prot = "RWX"
  BY <1>1 DEF BootInv, ProtInv
<1>3. image.aligned /\ policy.rx => prot' = "RX"
  BY <1>1 DEF Protected
<1>4. policy.wx => prot' \in {"RX", "RWX"}
  BY <1>1, <1>2 DEF Protected
<1> QED BY <1>1, <1>3, <1>4 DEF BootInv, ProtInv, CodeExecutable, Executable, Booted

\* Without the patch the text stays as it was mapped.
LEMMA NoPatchKeeps ==
    ASSUME BootInv, NoPatch
    PROVE  BootInv'
<1>1. /\ policy' = policy /\ image' = image /\ prot' = prot /\ text' = text
      /\ stage = "patch" /\ stage' = "construct" /\ ~Patches
  BY DEF NoPatch, Step, Patches
<1>2. ~Patches'
  BY <1>1 DEF Patches
<1>3. policy.wx => prot = "RWX"
  BY <1>1 DEF BootInv, ProtInv
<1> QED BY <1>1, <1>2, <1>3 DEF BootInv, ProtInv, CodeExecutable, Executable, Booted

\* Constructors run, or the first one crashes for want of permission.
LEMMA ConstructKeeps ==
    ASSUME BootInv, Construct
    PROVE  BootInv'
<1>1. /\ policy' = policy /\ image' = image /\ prot' = prot /\ text' = text /\ stale' = stale
      /\ stage = "construct" /\ stage' \in {"finalize", "crashed"}
      /\ stage' = "crashed" => ~Executable
  BY DEF Construct, Step
<1>2. /\ Executable' = Executable /\ Patches' = Patches
  BY <1>1 DEF Executable, Patches
<1> QED BY <1>1, <1>2 DEF BootInv, ProtInv, CodeExecutable, Booted

\* The text is made code for the last time, and the cache is cleared.
LEMMA FinalizeKeeps ==
    ASSUME BootInv, Finalize
    PROVE  BootInv'
<1>1. /\ policy' = policy /\ image' = image /\ text' = text /\ stale' = {}
      /\ stage = "finalize" /\ stage' = "find" /\ prot' = Protected("RX")
  BY DEF Finalize, Step
<1>2. Patches' = Patches
  BY <1>1 DEF Patches
<1>3. Executable => Executable'
  BY <1>1 DEF Executable, Protected
<1> QED BY <1>1, <1>2, <1>3 DEF BootInv, ProtInv, CodeExecutable, Booted

\* The entry point is looked for and the shim is started.
LEMMA EntryKeeps ==
    ASSUME BootInv, FindEntry \/ ShimInit
    PROVE  BootInv'
<1>1. /\ policy' = policy /\ image' = image /\ prot' = prot /\ text' = text /\ stale' = stale
      /\ stage \in {"find", "shim"} /\ stage' \in {"failed", "shim", "create", "crashed"}
      /\ stage' = "crashed" => ~Executable
  BY DEF FindEntry, ShimInit, Step
<1>2. Executable' = Executable /\ Patches' = Patches
  BY <1>1 DEF Executable, Patches
<1> QED BY <1>1, <1>2 DEF BootInv, ProtInv, CodeExecutable, Booted

\* Every step of the loader keeps its invariant.
LEMMA BootKeeps ==
    ASSUME BootInv, LoaderNext
    PROVE  BootInv'
<1>1. CASE Find \/ NotFound \/ LoadFails \/ ShimFails
  <2>1. policy' = policy /\ stage' \in {"load", "failed"}
    BY <1>1 DEF Find, NotFound, LoadFails, ShimFails, Fail, Step
  <2> QED BY <2>1, EarlyStage DEF BootInv, ProtInv
<1>2. CASE SoLoad
  <2>1. /\ policy' = policy /\ stage' = "relocate" /\ (policy.wx => prot' = "RWX")
    BY <1>2 DEF SoLoad, Step
  <2> QED BY <2>1 DEF BootInv, ProtInv, CodeExecutable, Booted
<1>3. CASE Relocate \/ Resolve
  <2>1. /\ policy' = policy /\ prot' = prot
        /\ stage \in {"relocate", "resolve"} /\ stage' \in {"resolve", "license"}
    BY <1>3 DEF Relocate, Resolve, Step
  <2> QED BY <2>1 DEF BootInv, ProtInv, CodeExecutable, Booted
<1> QED BY <1>1, <1>2, <1>3, HookKeeps, PatchKeeps, NoPatchKeeps, ConstructKeeps,
           FinalizeKeeps, EntryKeeps DEF LoaderNext

-----------------------------------------------------------------------------
(***************************************************************************)
(* The binding of imports.                                                 *)
(***************************************************************************)

Unique(r) == \A q \in Rela \ {r} : image.rela[q].slot # image.rela[r].slot

\* What ImportsBound says of one relocation.
Bound(r) ==
    LET s == slots[image.rela[r].slot] name == Sym(r).name IN
    IF image.rela[r].type = "RELATIVE" \/ Sym(r).at # None THEN s = InImage(r)
    ELSE IF Provided(name) # {}
      THEN \E k \in Provided(name) :
              /\ \A j \in Provided(name) : k <= j
              /\ s = <<"table", DynLib[k].func, image.rela[r].addend>>
    ELSE IF name \in HostLibs THEN s = <<"dlsym", name, image.rela[r].addend>>
    ELSE s = image.data[image.rela[r].slot]

BindInv ==
    /\ image \in Images /\ DOMAIN slots = DOMAIN image.data
    /\ stage \in {"start", "load", "relocate"} => slots = image.data
    /\ stage = "resolve" =>
          \A r \in Rela : Unique(r) =>
              slots[image.rela[r].slot] =
                  IF Relocates(r) THEN InImage(r) ELSE image.data[image.rela[r].slot]
    /\ stage \notin {"start", "load", "relocate", "resolve", "failed"} =>
          \A r \in Rela : Unique(r) => Bound(r)

\* A slot that one relocation alone writes has its value, or stays.
LEMMA WrittenIs ==
    ASSUME BindInv, NEW r \in Rela, Unique(r), NEW value, DOMAIN value \subseteq Rela
    PROVE  /\ Written(value)[image.rela[r].slot] =
                 IF r \in DOMAIN value THEN value[r] ELSE slots[image.rela[r].slot]
           /\ DOMAIN Written(value) = DOMAIN slots
<1> DEFINE s == image.rela[r].slot
           W == {q \in DOMAIN value : image.rela[q].slot = s}
<1>1. s \in DOMAIN slots /\ r \in Nat
  BY ImagesAssumption DEF BindInv, Rela
<1>2. Written(value)[s] = IF W = {} THEN slots[s]
                          ELSE value[CHOOSE q \in W : \A p \in W : p <= q]
  BY <1>1 DEF Written
<1>3. W = IF r \in DOMAIN value THEN {r} ELSE {}
  BY DEF Unique
<1>4. r \in DOMAIN value => (CHOOSE q \in W : \A p \in W : p <= q) = r
  BY <1>1, <1>3
<1>5. DOMAIN Written(value) = DOMAIN slots
  BY DEF Written
<1> HIDE DEF W
<1>6. CASE r \in DOMAIN value
  <2>1. W # {} /\ value[CHOOSE q \in W : \A p \in W : p <= q] = value[r]
    BY <1>3, <1>4, <1>6
  <2> QED BY <1>2, <1>5, <1>6, <2>1
<1>7. CASE r \notin DOMAIN value
  BY <1>2, <1>3, <1>5, <1>7
<1> QED BY <1>6, <1>7

\* The table has a function for a name if any of its entries for it has one: that of the
\* first is found.
LEMMA ResolvedIs ==
    ASSUME NEW name, name # None
    PROVE  IF Provided(name) # {}
             THEN \E k \in Provided(name) :
                     /\ \A j \in Provided(name) : k <= j
                     /\ Resolved(name) = <<"table", DynLib[k].func>> /\ Resolved(name) # None
             ELSE Resolved(name) = IF name \in HostLibs THEN <<"dlsym", name>> ELSE None
<1> DEFINE K == {k \in DOMAIN DynLib : DynLib[k].symbol = name}
           first == CHOOSE k \in K : \A j \in K : k <= j
<1>1. K # {} => first \in K /\ \A j \in K : first <= j
  <2> SUFFICES ASSUME K # {} PROVE \E k \in K : \A j \in K : k <= j
    OBVIOUS
  <2>1. K \subseteq Nat
    BY TableAssumption
  <2> HIDE DEF K
  <2>2. PICK k \in K : \A j \in K : <<j, k>> \notin OpToRel(<, Nat)
    BY <2>1, NatLessThanWellFounded, WFMin
  <2>3. \A j \in K : ~(j < k)
    BY <2>1, <2>2 DEF OpToRel
  <2> QED BY <2>1, <2>3
<1>2. Resolved(name) =
        IF K # {} /\ DynLib[first].func # None THEN <<"table", DynLib[first].func>>
        ELSE IF name \in HostLibs THEN <<"dlsym", name>> ELSE None
  <2>1. CASE K = {}
    BY <2>1 DEF Resolved
  <2>2. CASE K # {}
    <3> DEFINE f == IF K = {} THEN None ELSE DynLib[first].func
    <3>1. Resolved(name) = IF f # None THEN <<"table", f>>
                           ELSE IF name \in HostLibs THEN <<"dlsym", name>> ELSE None
      BY Zenon DEF Resolved
    <3>2. f = DynLib[first].func
      BY <2>2
    <3> HIDE DEF f, first, K
    <3> QED BY <2>2, <3>1, <3>2
  <2> QED BY <2>1, <2>2
<1>3. CASE Provided(name) # {}
  <2>1. K # {} /\ first \in K /\ \A j \in Provided(name) : first <= j
    BY <1>1, <1>3 DEF Provided
  <2>2. PICK k \in Provided(name) : DynLib[k].symbol = name /\ DynLib[k].func # None
    BY <1>3 DEF Provided
  <2> HIDE DEF first
  <2>3. DynLib[first].func # None /\ <<"table", DynLib[first].func>> # None
    BY <2>1, <2>2, TableAssumption DEF Provided
  <2>4. first \in Provided(name)
    BY <2>1, <2>3 DEF Provided
  <2> QED BY <1>2, <1>3, <2>1, <2>3, <2>4
<1>4. CASE Provided(name) = {}
  <2>1. K # {} => DynLib[first].func = None
    BY <1>1, <1>4 DEF Provided
  <2> QED BY <1>2, <1>4, <2>1
<1> QED BY <1>3, <1>4

\* An address found outside, with its addend.
LEMMA PairAndOne ==
    ASSUME NEW a, NEW b, NEW c
    PROVE  <<a, b>> \o <<c>> = <<a, b, c>>
<1> DEFINE S == {a, b, c}
           s == <<a, b>>
           t == <<c>>
           u == <<a, b, c>>
<1>1. /\ s \in Seq(S) /\ t \in Seq(S) /\ u \in Seq(S)
      /\ Len(s) = 2 /\ Len(t) = 1 /\ Len(u) = 3
      /\ s[1] = a /\ s[2] = b /\ t[1] = c /\ u[1] = a /\ u[2] = b /\ u[3] = c
  OBVIOUS
<1> HIDE DEF S, s, t, u
<1>2. /\ s \o t \in Seq(S) /\ Len(s \o t) = 3
      /\ \A i \in 1 .. 3 : (s \o t)[i] = IF i <= 2 THEN s[i] ELSE t[i - 2]
  <2>1. /\ s \o t \in Seq(S) /\ Len(s \o t) = Len(s) + Len(t)
        /\ \A i \in 1 .. Len(s) + Len(t) :
              (s \o t)[i] = IF i <= Len(s) THEN s[i] ELSE t[i - Len(s)]
    BY <1>1, ConcatProperties
  <2> QED BY <1>1, <2>1
<1>3. \A i \in 1 .. 3 : (s \o t)[i] = u[i]
  BY <1>1, <1>2
<1>4. s \o t = u
  BY <1>1, <1>2, <1>3, SeqEqual
<1> QED BY <1>4 DEF s, t, u

\* so_relocate writes what is the library's own.
LEMMA RelocateBinds ==
    ASSUME BindInv, Relocate
    PROVE  BindInv'
<1> DEFINE value == [r \in {q \in Rela : Relocates(q)} |-> InImage(r)]
<1>1. /\ image' = image /\ slots = image.data /\ stage' = "resolve" /\ slots' = Written(value)
  BY DEF Relocate, Step, BindInv
<1>2. DOMAIN slots' = DOMAIN image.data
  BY <1>1 DEF Written
<1>3. ASSUME NEW r \in Rela, Unique(r)
      PROVE  slots'[image.rela[r].slot] =
                IF Relocates(r) THEN InImage(r) ELSE image.data[image.rela[r].slot]
  BY <1>1, <1>3, WrittenIs
<1>4. /\ Rela' = Rela
      /\ \A r : /\ Unique(r)' = Unique(r) /\ Relocates(r)' = Relocates(r)
               /\ InImage(r)' = InImage(r)
  BY <1>1 DEF Rela, Unique, Relocates, Symbolic, InImage, Sym
<1> QED BY <1>1, <1>2, <1>3, <1>4 DEF BindInv

\* so_resolve writes what is not.
LEMMA ResolveBinds ==
    ASSUME BindInv, Resolve
    PROVE  BindInv'
<1> DEFINE value == [r \in {q \in Rela : Imports(q)} |-> Outside(r)]
<1>1. /\ image' = image /\ stage = "resolve" /\ stage' = "license" /\ slots' = Written(value)
  BY DEF Resolve, Step
<1>2. DOMAIN slots' = DOMAIN image.data
  BY <1>1 DEF Written, BindInv
<1>3. ASSUME NEW r \in Rela, Unique(r) PROVE Bound(r)'
  <2> DEFINE s == image.rela[r].slot
             name == Sym(r).name
             a == image.rela[r].addend
  <2>1. slots'[s] = IF Imports(r) THEN Outside(r)
                    ELSE IF Relocates(r) THEN InImage(r) ELSE image.data[s]
    BY <1>1, <1>3, WrittenIs DEF BindInv
  <2>2. Symbolic(r) <=> image.rela[r].type # "RELATIVE"
    BY ImagesAssumption DEF BindInv, Symbolic, Rela
  <2>3. CASE image.rela[r].type = "RELATIVE" \/ Sym(r).at # None
    <3>1. slots'[s] = InImage(r)
      BY <2>1, <2>2, <2>3 DEF Imports, Relocates
    <3> QED BY <1>1, <2>3, <3>1 DEF Bound, InImage, Sym
  <2>4. CASE ~(image.rela[r].type = "RELATIVE" \/ Sym(r).at # None)
    <3>1. ~Relocates(r) /\ (Imports(r) <=> name # None /\ Resolved(name) # None)
      BY <2>2, <2>4 DEF Imports, Relocates
    <3>2. CASE name = None
      <4>1. slots'[s] = image.data[s] /\ name \notin HostLibs
            /\ Provided(name) = {}
        BY <2>1, <3>1, <3>2, TableAssumption DEF Provided
      <4> QED BY <1>1, <2>4, <4>1 DEF Bound, Sym
    <3>3. CASE name # None /\ Provided(name) # {}
      <4>1. PICK k \in Provided(name) :
               /\ \A j \in Provided(name) : k <= j
               /\ Resolved(name) = <<"table", DynLib[k].func>> /\ Resolved(name) # None
        BY <3>3, ResolvedIs
      <4>2. slots'[s] = <<"table", DynLib[k].func>> \o <<a>>
        BY <2>1, <3>1, <3>3, <4>1 DEF Outside
      <4>3. slots'[s] = <<"table", DynLib[k].func, a>>
        BY <4>2, PairAndOne
      <4> QED BY <1>1, <2>4, <3>3, <4>1, <4>3 DEF Bound, Sym
    <3>4. CASE name # None /\ Provided(name) = {}
      <4>1. Resolved(name) = IF name \in HostLibs THEN <<"dlsym", name>> ELSE None
        BY <3>4, ResolvedIs
      <4>2. name \in HostLibs => slots'[s] = <<"dlsym", name>> \o <<a>>
        BY <2>1, <3>1, <3>4, <4>1, TableAssumption DEF Outside
      <4>3. <<"dlsym", name>> \o <<a>> = <<"dlsym", name, a>>
        BY PairAndOne
      <4>4. name \notin HostLibs => slots'[s] = image.data[s]
        BY <2>1, <3>1, <3>4, <4>1
      <4> QED BY <1>1, <2>4, <3>4, <4>2, <4>3, <4>4 DEF Bound, Sym
    <3> QED BY <3>2, <3>3, <3>4
  <2> QED BY <2>3, <2>4
<1> QED BY <1>1, <1>2, <1>3 DEF BindInv, Rela, Unique

Early == {"start", "load", "relocate", "resolve", "failed"}

\* Nothing else writes a slot.
LEMMA SlotsStay ==
    ASSUME BindInv, UNCHANGED <<image, slots>>,
           \/ stage' = stage \/ stage' = "failed"
           \/ stage \in {"start", "load"} /\ stage' \in {"load", "relocate"}
           \/ stage \notin Early /\ stage' \notin Early
    PROVE  BindInv'
<1>1. \A r : /\ Unique(r)' = Unique(r) /\ Bound(r)' = Bound(r)
             /\ Relocates(r)' = Relocates(r) /\ InImage(r)' = InImage(r)
  BY DEF Unique, Bound, Relocates, InImage, Sym, Rela, Symbolic
<1>2. Rela' = Rela
  BY DEF Rela
<1> QED BY <1>1, <1>2 DEF BindInv, Early

\* Every step of the loader keeps the binding.
LEMMA BindKeeps ==
    ASSUME BindInv, LoaderNext
    PROVE  BindInv'
<1>1. CASE Find \/ SoLoad
  <2>1. UNCHANGED <<image, slots>> /\ stage \in {"start", "load"} /\ stage' \in {"load", "relocate"}
    BY <1>1 DEF Find, SoLoad, Step
  <2> QED BY <2>1, SlotsStay
<1>2. CASE NotFound \/ LoadFails \/ ShimFails
  <2>1. UNCHANGED <<image, slots>> /\ stage' = "failed"
    BY <1>2 DEF NotFound, LoadFails, ShimFails, Fail, Step
  <2> QED BY <2>1, SlotsStay
<1>3. CASE HookLicense \/ HookPlayCore \/ HookBundle \/ Patch \/ NoPatch
  <2>1. /\ UNCHANGED <<image, slots>> /\ stage \in {"license", "playcore", "bundle", "patch"}
        /\ stage' \in {"playcore", "bundle", "patch", "construct"}
    BY <1>3 DEF HookLicense, HookPlayCore, HookBundle, Patch, NoPatch, Step
  <2> QED BY <2>1, SlotsStay DEF Early
<1>4. CASE Construct \/ Finalize \/ FindEntry \/ ShimInit
  <2>1. /\ UNCHANGED <<image, slots>> /\ stage \in {"construct", "finalize", "find", "shim"}
        /\ stage' \in {"finalize", "find", "shim", "create", "crashed", "failed"}
    BY <1>4 DEF Construct, Finalize, FindEntry, ShimInit, Step
  <2> QED BY <2>1, SlotsStay DEF Early
<1> QED BY <1>1, <1>2, <1>3, <1>4, RelocateBinds, ResolveBinds DEF LoaderNext

-----------------------------------------------------------------------------
(***************************************************************************)
(* The life of the activity.                                               *)
(***************************************************************************)

Harmless == Commands \ {"DESTROY"}
Unasked ==
    [window : BOOLEAN, activityState : Commands \cup {"0", "1"}, destroyRequested : {FALSE},
     running : BOOLEAN, destroyed : BOOLEAN]

\* As long as nobody asked, no command asks for the end, no app wants it, and main is
\* before its end.
Calm ==
    /\ pipe \in [Apps -> Seq(Harmless)]
    /\ app \in [Apps -> Unasked]
    /\ onMain.at \notin {"destroy", "freeing"} /\ ~exited

\* main's callbacks are those of the start, in order.
CallInv ==
    /\ instance \in Apps /\ own \in Apps
    /\ onMain = [at |-> onMain.at, call |-> onMain.call]
    /\ onMain.call \in 1 .. 4 /\ (onMain.at = "wait" => onMain.call \in 1 .. 3)

LifeInv == CallInv /\ (~asked.ever => Calm)

\* The commands of the start.
LEMMA StartUpIs ==
    /\ \A k \in 1 .. 4 : StartUp[k] \in Harmless /\ (k = 4 <=> StartUp[k] = "GAINED_FOCUS")
<1>1. /\ StartUp[1] = "START" /\ StartUp[2] = "RESUME" /\ StartUp[3] = "INIT_WINDOW"
      /\ StartUp[4] = "GAINED_FOCUS" /\ DOMAIN StartUp = 1 .. 4
  BY DEF StartUp
<1>2. \A k \in 1 .. 4 : k = 1 \/ k = 2 \/ k = 3 \/ k = 4
  OBVIOUS
<1> QED BY <1>1, <1>2 DEF Harmless, Commands

\* A thread polls SDL: it may find that the player asks for the end.
LEMMA PollEventKeeps ==
    ASSUME LifeInv, UNCHANGED <<instance, own, app>>,
           NEW done, PollEvent(done), CallInv',
           onMain'.at \notin {"destroy", "freeing"} \/ onMain' = onMain
    PROVE  LifeInv'
<1>1. \/ UNCHANGED <<pipe, asked, exited>>
      \/ asked'.ever
  BY DEF PollEvent, Asked
<1> QED BY <1>1 DEF LifeInv, Calm

\* One harmless command more in the pipe of the app.
LEMMA SentKeeps ==
    ASSUME LifeInv, UNCHANGED <<instance, own, app, asked, exited>>, CallInv',
           onMain'.at \notin {"destroy", "freeing"},
           NEW cmd \in Harmless, pipe' = [pipe EXCEPT ![own] = Append(@, cmd)]
    PROVE  LifeInv'
<1>1. CASE asked.ever
  BY <1>1 DEF LifeInv
<1>2. CASE ~asked.ever
  <2>1. pipe \in [Apps -> Seq(Harmless)] /\ own \in Apps
    BY <1>2 DEF LifeInv, Calm, CallInv
  <2>2. Append(pipe[own], cmd) \in Seq(Harmless)
    BY <2>1
  <2>3. pipe' \in [Apps -> Seq(Harmless)]
    BY <2>1, <2>2
  <2> QED BY <1>2, <2>3 DEF LifeInv, Calm
<1> QED BY <1>1, <1>2

\* The engine carries out a command.
LEMMA ProcessKeeps ==
    ASSUME LifeInv, Process
    PROVE  LifeInv'
<1> DEFINE q == pipe[own]
           a == IF onEngine.source = "shim" THEN Processed(app[own], Head(q))
                ELSE GlueProcessed(app[own], Head(q))
<1>1. /\ UNCHANGED <<instance, own, asked, exited, onMain>>
      /\ q # <<>> /\ pipe' = [pipe EXCEPT ![own] = Tail(q)]
      /\ app' = IF a.destroyRequested THEN [app EXCEPT ![own] = [a EXCEPT !.destroyed = TRUE]]
                ELSE [app EXCEPT ![own] = a]
  BY DEF Process
<1>2. own \in Apps
  BY DEF LifeInv, CallInv
<1> HIDE DEF a
<1>3. CallInv'
  BY <1>1, <1>2 DEF LifeInv, CallInv
<1>4. ASSUME ~asked.ever PROVE Calm'
  <2>1. pipe \in [Apps -> Seq(Harmless)] /\ app \in [Apps -> Unasked]
    BY <1>4 DEF LifeInv, Calm
  <2>2. Head(q) \in Harmless /\ Tail(q) \in Seq(Harmless)
    BY <1>1, <1>2, <2>1
  <2>3. a \in Unasked /\ ~a.destroyRequested
    <3> DEFINE c == Head(q)
               b == app[own]
    <3>1. c \in {"START", "RESUME", "INIT_WINDOW", "GAINED_FOCUS"} /\ b \in Unasked
      BY <1>2, <2>1, <2>2 DEF Harmless, Commands, StartUp
    <3>2. c \in Commands
      BY <2>2 DEF Harmless
    <3> HIDE DEF c, b
    <3>3. Processed(b, c) \in Unasked /\ GlueProcessed(b, c) \in Unasked
      BY <3>1, <3>2 DEF Processed, GlueProcessed, Unasked
    <3>4. a \in Unasked
      BY <3>3 DEF a, b, c
    <3> QED BY <3>4 DEF Unasked
  <2>4. pipe' \in [Apps -> Seq(Harmless)]
    BY <1>1, <2>1, <2>2
  <2>5. app' \in [Apps -> Unasked]
    BY <1>1, <1>2, <2>1, <2>3
  <2> QED BY <1>1, <1>4, <2>4, <2>5 DEF LifeInv, Calm
<1> QED BY <1>1, <1>3, <1>4 DEF LifeInv

\* Every step of main keeps it.
LEMMA MainKeeps ==
    ASSUME LifeInv, MainStep
    PROVE  LifeInv'
<1>0. CallInv /\ (~asked.ever => Calm)
  BY DEF LifeInv
<1>1. CASE OnCreate \/ Created
  <2>1. /\ UNCHANGED <<own, app, pipe, asked, exited>> /\ instance' \in Apps
        /\ \E s \in {"created", "call", "loop"} : MainAt(s)
    BY <1>0, <1>1 DEF OnCreate, Created, CallInv
  <2>2. CallInv' /\ onMain'.at \in {"created", "call", "loop"}
    BY <1>0, <2>1 DEF CallInv, MainAt
  <2> QED BY <1>0, <2>1, <2>2 DEF LifeInv, Calm
<1>2. CASE CallBack
  <2>1. StartUp[onMain.call] \in Harmless
    BY <1>0, StartUpIs DEF CallInv
  <2>2. CallInv' /\ onMain'.at \in {"loop", "wait"}
    BY <1>0, <1>2, StartUpIs DEF CallBack, CallInv, MainAt
  <2> QED BY <1>2, <2>1, <2>2, SentKeeps DEF CallBack
<1>3. CASE CallReturns
  <2>1. CallInv' /\ onMain'.at = "call"
    BY <1>0, <1>3 DEF CallReturns, CallInv
  <2> QED BY <1>0, <1>3, <2>1 DEF CallReturns, LifeInv, Calm
<1>4. CASE Loop
  <2>1. /\ UNCHANGED <<instance, own, app, pipe, asked, exited>>
        /\ onMain' = [onMain EXCEPT !.at = IF app[own].destroyRequested THEN "destroy" ELSE "poll"]
    BY <1>4 DEF Loop, MainAt
  <2>2. CallInv' /\ onMain'.at = IF app[own].destroyRequested THEN "destroy" ELSE "poll"
    BY <1>0, <2>1 DEF CallInv
  <2>3. ~asked.ever => ~app[own].destroyRequested
    BY <1>0 DEF CallInv, Calm, Unasked
  <2> QED BY <1>0, <2>1, <2>2, <2>3 DEF LifeInv, Calm
<1>5. CASE MainPoll
  <2>1. UNCHANGED <<instance, own, app>> /\ PollEvent(MainAt("loop"))
    BY <1>5 DEF MainPoll
  <2>2. MainAt("loop") \/ UNCHANGED onMain
    BY <2>1 DEF PollEvent
  <2>3. CallInv' /\ (onMain'.at \notin {"destroy", "freeing"} \/ onMain' = onMain)
    BY <1>0, <2>1, <2>2 DEF CallInv, MainAt
  <2> QED BY <2>1, <2>3, PollEventKeeps
<1>6. CASE OnDestroy \/ Exit
  <2>1. asked.ever
    BY <1>0, <1>6 DEF OnDestroy, Exit, Calm
  <2>2. CallInv'
    BY <1>0, <1>6 DEF OnDestroy, Exit, CallInv, MainAt
  <2>3. asked' = asked
    BY <1>6 DEF OnDestroy, Exit
  <2> QED BY <2>1, <2>2, <2>3 DEF LifeInv
<1> QED BY <1>1, <1>2, <1>3, <1>4, <1>5, <1>6 DEF MainStep

\* And every other step: of the engine, of the player, of the kernel.
LEMMA OthersKeep ==
    ASSUME LifeInv, EngineStep \/ AddOther \/ Finish \/ Player \/ OtherReadable
    PROVE  LifeInv'
<1>0. CallInv /\ (~asked.ever => Calm)
  BY DEF LifeInv
<1>1. ASSUME UNCHANGED <<onMain, instance, own, app, pipe, asked, exited>> PROVE LifeInv'
  BY <1>0, <1>1 DEF LifeInv, CallInv, Calm
<1>2. CASE EngineStart
  <2>1. /\ UNCHANGED <<onMain, instance, own, pipe, asked, exited>>
        /\ app' = [app EXCEPT ![own].running = TRUE]
    BY <1>2 DEF EngineStart
  <2>2. own \in Apps
    BY <1>0 DEF CallInv
  <2>3. app \in [Apps -> Unasked] => app' \in [Apps -> Unasked]
    BY <2>1, <2>2 DEF Unasked
  <2> QED BY <1>0, <2>1, <2>3 DEF LifeInv, CallInv, Calm
<1>3. CASE EnginePoll
  <2>1. UNCHANGED <<onMain, instance, own, app>> /\ PollEvent(EngineAt("input", "none"))
    BY <1>3 DEF EnginePoll
  <2>2. CallInv'
    BY <1>0, <2>1 DEF CallInv
  <2> QED BY <2>1, <2>2, PollEventKeeps
<1>4. CASE Process
  BY <1>4, ProcessKeeps
<1>5. CASE Poll \/ EngineInput \/ ProcessOther \/ AddOther \/ Finish \/ Player \/ OtherReadable
  <2>1. UNCHANGED <<onMain, instance, own, app, pipe, asked, exited>>
    BY <1>5 DEF Poll, EngineInput, ProcessOther, AddOther, Finish, Player, OtherReadable, lifeVars
  <2> QED BY <1>1, <2>1
<1> QED BY <1>2, <1>3, <1>4, <1>5 DEF EngineStep

-----------------------------------------------------------------------------
(***************************************************************************)
(* Both.                                                                   *)
(***************************************************************************)

IInv == BootInv /\ BindInv /\ LifeInv

\* It holds when main is entered.
LEMMA InitHolds == Init => IInv
<1> SUFFICES ASSUME Init PROVE IInv
  OBVIOUS
<1>1. BootInv
  BY DEF Init, LoaderInit, BootInv, ProtInv, CodeExecutable, Booted
<1>4. BindInv
  BY DEF Init, LoaderInit, BindInv
<1>2. CallInv
  BY DEF Init, LifecycleInit, CallInv, Apps
<1>3. Calm
  <2>1. pipe = [a \in Apps |-> <<>>] /\ <<>> \in Seq(Harmless)
    BY DEF Init, LifecycleInit
  <2>2. pipe \in [Apps -> Seq(Harmless)]
    BY <2>1
  <2>3. app \in [Apps -> Unasked]
    BY DEF Init, LifecycleInit, Unasked
  <2> QED BY <2>2, <2>3 DEF Init, LifecycleInit, Calm
<1> QED BY <1>1, <1>2, <1>3, <1>4 DEF IInv, LifeInv

\* The inductive invariant: what the text and the slots may be at each stage, and calm
\* until the player asks.
THEOREM Invariance == Spec => []IInv
<1>1. IInv /\ [Next]_vars => IInv'
  <2> SUFFICES ASSUME IInv, [Next]_vars PROVE IInv'
    OBVIOUS
  <2>1. ASSUME UNCHANGED loaderVars PROVE BootInv' /\ BindInv'
    <3>1. /\ stage' = stage /\ policy' = policy /\ image' = image /\ prot' = prot
          /\ text' = text /\ stale' = stale
      BY <2>1 DEF loaderVars
    <3>2. BindInv'
      BY <2>1, SlotsStay DEF loaderVars, IInv
    <3>3. BootInv'
      BY <3>1 DEF IInv, BootInv, ProtInv, CodeExecutable, Executable, Patches, Booted
    <3> QED BY <3>2, <3>3
  <2>2. ASSUME UNCHANGED lifeVars PROVE LifeInv'
    BY <2>2 DEF lifeVars, IInv, LifeInv, CallInv, Calm
  <2>3. CASE Boot
    BY <2>2, <2>3, BootKeeps, BindKeeps DEF Boot, IInv
  <2>4. CASE Life
    BY <2>1, <2>4, MainKeeps, OthersKeep DEF Life, LifecycleNext, IInv
  <2>5. CASE UNCHANGED vars
    BY <2>1, <2>2, <2>5 DEF vars, IInv
  <2> QED BY <2>3, <2>4, <2>5 DEF Next
<1> QED BY InitHolds, <1>1, PTL DEF Spec

\* Whatever the kernel refuses, the library's code crashes only where it must, and
\* after the canary patch or so_finalize runs as it was written (so_util.c:362-364).
THEOREM CodeRuns == Spec => []CodeExecutable
<1>1. IInv => CodeExecutable
  BY DEF IInv, BootInv
<1> QED BY <1>1, Invariance, PTL

\* Before the first constructor runs, every slot that one relocation writes holds the
\* word that asks for: its own symbol, the function the table has for the name it
\* imports, or the host's, with its addend; for any library and any table
\* (so_util.c:219-311).
THEOREM SlotsAreBound == Spec => []ImportsBound
<1>1. IInv => ImportsBound
  BY DEF IInv, BindInv, ImportsBound, Bound, Unique
<1> QED BY <1>1, Invariance, PTL

\* The process ends only because the player asked (main.c:526-536), whatever the
\* engine does, however many events there are and in whichever order they are polled.
THEOREM EndsWhenAsked == Spec => []EndsOnRequest
<1>1. IInv => EndsOnRequest
  BY DEF IInv, LifeInv, Calm, EndsOnRequest
<1> QED BY <1>1, Invariance, PTL

-----------------------------------------------------------------------------
(***************************************************************************)
(* Types.                                                                  *)
(***************************************************************************)

\* Every step of the loader keeps its types: the words that are stale are words of the
\* text, which has no others than the file's.
LEMMA LoaderTypes ==
    ASSUME LoaderTypeOK, LoaderNext
    PROVE  LoaderTypeOK'
<1>1. CASE Find \/ NotFound \/ LoadFails \/ ShimFails \/ NoPatch \/ FindEntry \/ ShimInit
  <2>1. UNCHANGED <<image, prot, text, stale, slots, ran>> /\ stage' \in Stages
    BY <1>1 DEF Find, NotFound, LoadFails, ShimFails, NoPatch, FindEntry, ShimInit, Fail, Step, Stages
  <2> QED BY <2>1 DEF LoaderTypeOK
<1>2. CASE SoLoad
  <2>1. /\ UNCHANGED <<image, slots, ran>> /\ stage' \in Stages /\ prot' \in {"RW", "RWX"}
        /\ text' = image.text /\ stale' = DOMAIN image.text
    BY <1>2 DEF SoLoad, Step, Stages
  <2>2. \A i \in DOMAIN image.text : image.text[i].op \in Ops
    BY ImagesAssumption DEF LoaderTypeOK, Ops
  <2> QED BY <2>1, <2>2 DEF LoaderTypeOK
<1>3. CASE Relocate \/ Resolve
  <2>1. /\ UNCHANGED <<image, prot, text, stale, ran>> /\ stage' \in Stages
        /\ DOMAIN slots' = DOMAIN slots
    BY <1>3 DEF Relocate, Resolve, Written, Step, Stages
  <2> QED BY <2>1 DEF LoaderTypeOK
<1>4. CASE HookLicense \/ HookPlayCore \/ HookBundle
  <2>1. PICK hooks : text' = Hooked(hooks) /\ stale' = stale \ Cleared(hooks)
    BY <1>4 DEF HookLicense, HookPlayCore, HookBundle
  <2>2. /\ UNCHANGED <<image, slots, ran>> /\ stage' \in Stages
        /\ prot' = prot \/ prot' = Protected("RWX")
    BY <1>4 DEF HookLicense, HookPlayCore, HookBundle, Step, Stages
  <2>3. \A k, f : HookWord(k, f).op \in Ops
    BY DEF HookWord, Ops
  <2>4. DOMAIN text' = DOMAIN text /\ \A i \in DOMAIN text : text'[i].op \in Ops
    BY <2>1, <2>3 DEF Hooked, LoaderTypeOK
  <2> QED BY <2>1, <2>2, <2>4 DEF LoaderTypeOK, Protected
<1>5. CASE Patch
  <2>1. /\ UNCHANGED <<image, slots, ran>> /\ stage' \in Stages /\ stale' = {}
        /\ prot' \in {"RX", Protected("RWX")}
        /\ text' = [i \in DOMAIN text |-> IF JumpsToFail(i) THEN Nop ELSE text[i]]
    BY <1>5 DEF Patch, Step, Stages
  <2>2. Nop.op \in Ops
    BY DEF Nop, Ops
  <2>3. DOMAIN text' = DOMAIN text /\ \A i \in DOMAIN text : text'[i].op \in Ops
    BY <2>1, <2>2 DEF LoaderTypeOK
  <2> QED BY <2>1, <2>3 DEF LoaderTypeOK, Protected
<1>6. CASE Construct
  <2>1. /\ UNCHANGED <<image, prot, text, stale, slots>> /\ stage' \in Stages
        /\ DOMAIN ran' \subseteq DOMAIN image.init
    BY <1>6 DEF Construct, Step, Stages, LoaderTypeOK
  <2> QED BY <2>1 DEF LoaderTypeOK
<1>7. CASE Finalize
  <2>1. /\ UNCHANGED <<image, text, slots, ran>> /\ stage' \in Stages /\ stale' = {}
        /\ prot' = Protected("RX")
    BY <1>7 DEF Finalize, Step, Stages
  <2> QED BY <2>1 DEF LoaderTypeOK, Protected
<1> QED BY <1>1, <1>2, <1>3, <1>4, <1>5, <1>6, <1>7 DEF LoaderNext

Ats == {"create", "created", "call", "wait", "loop", "poll", "destroy", "freeing"}
EngineAts == {"none", "start", "poll", "events", "input", "command", "gone"}
AppRecord ==
    [window : BOOLEAN, activityState : Commands \cup {"0", "1"}, destroyRequested : BOOLEAN,
     running : BOOLEAN, destroyed : BOOLEAN]

\* The threads, and what both of them write.
ThreadTypes ==
    /\ onMain.at \in Ats
    /\ onEngine \in [at : EngineAts, source : Sources]
    /\ inputs \in BOOLEAN /\ exited \in BOOLEAN /\ asked \in [early : BOOLEAN, ever : BOOLEAN]
    /\ pipe \in [Apps -> Seq(Commands)]
AppTypes == app \in [Apps -> AppRecord]
LooperTypes ==
    /\ g_looper_fds \in Seq({"engine", "other"}) /\ Len(g_looper_fds) <= MAX_LOOPER_FDS
    /\ other \in [readable : BOOLEAN, times : 0 .. MaxReady]

LifeTypes == ThreadTypes /\ AppTypes /\ LooperTypes

\* A command more in a pipe.
LEMMA AppendTypes ==
    ASSUME pipe \in [Apps -> Seq(Commands)], NEW a \in Apps, NEW cmd \in Commands,
           pipe' = [pipe EXCEPT ![a] = Append(@, cmd)]
    PROVE  pipe' \in [Apps -> Seq(Commands)]
<1>1. Append(pipe[a], cmd) \in Seq(Commands)
  OBVIOUS
<1> QED BY <1>1

\* Either thread polls the player's events.
LEMMA PollTypes ==
    ASSUME LifeInv, ThreadTypes, NEW done, PollEvent(done),
           onMain'.at \in Ats, onEngine' \in [at : EngineAts, source : Sources]
    PROVE  ThreadTypes'
<1>1. instance \in Apps /\ "DESTROY" \in Commands
  BY DEF LifeInv, CallInv, Commands
<1>2. pipe' \in [Apps -> Seq(Commands)]
  <2>1. pipe' = pipe \/ SendDestroy
    BY DEF PollEvent
  <2> QED BY <1>1, <2>1, AppendTypes DEF SendDestroy, ThreadTypes
<1>3. asked' \in [early : BOOLEAN, ever : BOOLEAN]
  <2>1. asked' = asked \/ Asked
    BY DEF PollEvent
  <2>2. ASSUME NEW early \in BOOLEAN
        PROVE  [early |-> early, ever |-> TRUE] \in [early : BOOLEAN, ever : BOOLEAN]
    OBVIOUS
  <2>3. (asked.early \/ ~Looping) \in BOOLEAN
    OBVIOUS
  <2>4. Asked => asked' \in [early : BOOLEAN, ever : BOOLEAN]
    BY <2>2, <2>3, Zenon DEF Asked
  <2> QED BY <2>1, <2>4 DEF ThreadTypes
<1>4. inputs' \in BOOLEAN /\ exited' \in BOOLEAN
  BY DEF PollEvent, ThreadTypes
<1> QED BY <1>2, <1>3, <1>4 DEF ThreadTypes

\* The table of descriptors takes one more while it has room.
LEMMA AddedTypes ==
    ASSUME LooperTypes, NEW fd \in {"engine", "other"}
    PROVE  Added(fd) \in Seq({"engine", "other"}) /\ Len(Added(fd)) <= MAX_LOOPER_FDS
<1> DEFINE F == {"engine", "other"}
<1>1. g_looper_fds \in Seq(F) /\ Len(g_looper_fds) <= MAX_LOOPER_FDS
  BY DEF LooperTypes
<1>2. Len(g_looper_fds) \in Nat /\ MAX_LOOPER_FDS \in Nat
  BY <1>1, LifecycleAssumption
<1>3. fd \in F
  OBVIOUS
<1> HIDE DEF F
<1>4. Append(g_looper_fds, fd) \in Seq(F) /\ Len(Append(g_looper_fds, fd)) = Len(g_looper_fds) + 1
  BY <1>1, <1>3, AppendProperties
<1>5. Added(fd) = g_looper_fds \/ (Added(fd) = Append(g_looper_fds, fd) /\ Len(g_looper_fds) # MAX_LOOPER_FDS)
  BY DEF Added
<1> QED BY <1>1, <1>2, <1>4, <1>5 DEF F

\* Every step of main keeps the types.
LEMMA MainTypes ==
    ASSUME LifeInv, LifeTypes, MainStep
    PROVE  LifeTypes'
<1>0. /\ ThreadTypes /\ AppTypes /\ LooperTypes
      /\ own \in Apps /\ onMain = [at |-> onMain.at, call |-> onMain.call] /\ onMain.call \in 1 .. 4
  BY DEF LifeTypes, LifeInv, CallInv
<1>1. UNCHANGED <<app, g_looper_fds, other>>
  BY DEF MainStep, OnCreate, Created, CallBack, CallReturns, Loop, MainPoll, OnDestroy, Exit
<1>2. ASSUME NEW at \in Ats, MainAt(at) PROVE onMain'.at \in Ats
  BY <1>0, <1>2 DEF MainAt
<1>3. ThreadTypes'
  <2>1. CASE OnCreate \/ Created \/ CallReturns \/ Loop \/ Exit
    <3>1. UNCHANGED <<pipe, inputs, asked>> /\ (exited' = exited \/ exited' = TRUE)
      BY <2>1 DEF OnCreate, Created, CallReturns, Loop, Exit
    <3>2. onMain'.at \in Ats
      BY <1>0, <2>1 DEF OnCreate, Created, CallReturns, Loop, Exit, MainAt, Ats, ThreadTypes
    <3>3. onEngine' = onEngine \/ EngineAt("start", "none") \/ EngineAt("poll", "none")
      BY <2>1 DEF OnCreate, Created, CallReturns, Loop, Exit
    <3>4. onEngine' \in [at : EngineAts, source : Sources]
      BY <1>0, <3>3 DEF EngineAt, EngineAts, Sources, ThreadTypes
    <3> QED BY <1>0, <3>1, <3>2, <3>4 DEF ThreadTypes
  <2>2. CASE CallBack
    <3>1. StartUp[onMain.call] \in Commands
      BY <1>0, StartUpIs DEF Harmless
    <3>2. pipe' = [pipe EXCEPT ![own] = Append(@, StartUp[onMain.call])]
      BY <2>2 DEF CallBack
    <3>3. pipe' \in [Apps -> Seq(Commands)]
      BY <1>0, <3>1, <3>2, AppendTypes DEF ThreadTypes
    <3>4. UNCHANGED <<onEngine, inputs, asked, exited>> /\ onMain'.at \in Ats
      BY <1>0, <2>2 DEF CallBack, MainAt, Ats
    <3> QED BY <1>0, <3>3, <3>4 DEF ThreadTypes
  <2>3. CASE MainPoll
    <3>1. onEngine' = onEngine /\ PollEvent(MainAt("loop")) /\ (onMain' = onMain \/ MainAt("loop"))
      BY <2>3 DEF MainPoll, PollEvent
    <3>2. onMain'.at \in Ats
      BY <1>0, <3>1 DEF MainAt, Ats, ThreadTypes
    <3> QED BY <1>0, <3>1, <3>2, PollTypes DEF ThreadTypes
  <2>4. CASE OnDestroy
    <3>1. UNCHANGED <<onEngine, inputs, asked>> /\ exited' \in {exited, TRUE} /\ onMain'.at \in Ats
      BY <1>0, <2>4 DEF OnDestroy, MainAt, Ats, ThreadTypes
    <3>2. pipe' = pipe \/ pipe' = [pipe EXCEPT ![own] = Append(@, "DESTROY")]
      BY <2>4 DEF OnDestroy
    <3>3. pipe' \in [Apps -> Seq(Commands)]
      BY <1>0, <3>2, AppendTypes DEF ThreadTypes, Commands
    <3> QED BY <1>0, <3>1, <3>3 DEF ThreadTypes
  <2> QED BY <2>1, <2>2, <2>3, <2>4 DEF MainStep
<1> QED BY <1>0, <1>1, <1>3 DEF LifeTypes, AppTypes, LooperTypes

\* What a handler makes of an app is one.
LEMMA ProcessedTypes ==
    ASSUME NEW a \in AppRecord, NEW cmd \in Commands
    PROVE  Processed(a, cmd) \in AppRecord /\ GlueProcessed(a, cmd) \in AppRecord
<1>1. cmd \in {"START", "RESUME", "INIT_WINDOW", "GAINED_FOCUS", "DESTROY"}
  BY DEF Commands, StartUp
<1> QED BY <1>1 DEF Processed, GlueProcessed, AppRecord

\* Every other step keeps them.
LEMMA OtherTypes ==
    ASSUME LifeInv, LifeTypes, EngineStep \/ AddOther \/ Finish \/ Player \/ OtherReadable
    PROVE  LifeTypes'
<1>0. ThreadTypes /\ AppTypes /\ LooperTypes /\ own \in Apps
  BY DEF LifeTypes, LifeInv, CallInv
<1>1. CASE EngineStart
  <2>1. /\ UNCHANGED <<onMain, pipe, inputs, asked, exited, other>>
        /\ g_looper_fds' = Added("engine") /\ app' = [app EXCEPT ![own].running = TRUE]
        /\ onEngine' = [at |-> "poll", source |-> "none"]
    BY <1>1 DEF EngineStart, EngineAt
  <2>2. AppTypes'
    BY <1>0, <2>1 DEF AppTypes, AppRecord
  <2>3. LooperTypes'
    BY <1>0, <2>1, AddedTypes DEF LooperTypes
  <2> QED BY <1>0, <2>1, <2>2, <2>3 DEF LifeTypes, ThreadTypes, EngineAts, Sources
<1>2. CASE AddOther
  <2>1. /\ UNCHANGED <<onMain, onEngine, pipe, inputs, asked, exited, other, app>>
        /\ g_looper_fds' = Added("other")
    BY <1>2 DEF AddOther
  <2>2. LooperTypes'
    BY <1>0, <2>1, AddedTypes DEF LooperTypes
  <2> QED BY <1>0, <2>1, <2>2 DEF LifeTypes, ThreadTypes, AppTypes
<1>3. CASE Poll
  <2>1. UNCHANGED <<onMain, pipe, inputs, asked, exited, other, app, g_looper_fds>>
    BY <1>3 DEF Poll
  <2>2. \A fd : SourceOf(fd) \in Sources
    BY DEF SourceOf, Sources
  <2>3. PICK source \in Sources : EngineAt("events", "none") \/ EngineAt("command", source)
    BY <1>3, <2>2 DEF Poll, Sources
  <2>4. onEngine' \in [at : EngineAts, source : Sources]
    BY <2>3 DEF EngineAt, EngineAts, Sources
  <2> QED BY <1>0, <2>1, <2>4 DEF LifeTypes, ThreadTypes, AppTypes, LooperTypes
<1>4. CASE EnginePoll
  <2>1. /\ UNCHANGED <<onMain, other, app, g_looper_fds>> /\ PollEvent(EngineAt("input", "none"))
        /\ onEngine' = onEngine \/ EngineAt("input", "none")
    BY <1>4 DEF EnginePoll, PollEvent
  <2>2. onEngine' \in [at : EngineAts, source : Sources]
    BY <1>0, <2>1 DEF EngineAt, EngineAts, Sources, ThreadTypes
  <2>3. ThreadTypes'
    BY <1>0, <2>1, <2>2, PollTypes DEF ThreadTypes
  <2> QED BY <1>0, <2>1, <2>3 DEF LifeTypes, AppTypes, LooperTypes
<1>5. CASE EngineInput
  <2>1. /\ UNCHANGED <<onMain, pipe, asked, exited, other, app, g_looper_fds>> /\ inputs' = FALSE
        /\ onEngine' = [at |-> "poll", source |-> "none"]
    BY <1>5 DEF EngineInput, EngineAt
  <2> QED BY <1>0, <2>1 DEF LifeTypes, ThreadTypes, AppTypes, LooperTypes, EngineAts, Sources
<1>6. CASE Process
  <2> DEFINE q == pipe[own]
             a == IF onEngine.source = "shim" THEN Processed(app[own], Head(q))
                  ELSE GlueProcessed(app[own], Head(q))
  <2>1. /\ UNCHANGED <<onMain, inputs, asked, exited, other, g_looper_fds>> /\ q # <<>>
        /\ pipe' = [pipe EXCEPT ![own] = Tail(q)]
        /\ app' = [app EXCEPT ![own] = [a EXCEPT !.destroyed = TRUE]] \/ app' = [app EXCEPT ![own] = a]
        /\ EngineAt("gone", "none") \/ EngineAt("poll", "none")
    BY <1>6 DEF Process
  <2>2. q \in Seq(Commands) /\ app[own] \in AppRecord
    BY <1>0 DEF ThreadTypes, AppTypes
  <2>3. Head(q) \in Commands /\ Tail(q) \in Seq(Commands)
    BY <2>1, <2>2
  <2>4. a \in AppRecord
    BY <2>2, <2>3, ProcessedTypes
  <2> HIDE DEF a
  <2>5. [a EXCEPT !.destroyed = TRUE] \in AppRecord
    BY <2>4 DEF AppRecord
  <2>6. AppTypes'
    BY <1>0, <2>1, <2>4, <2>5 DEF AppTypes
  <2>7. pipe' \in [Apps -> Seq(Commands)]
    BY <1>0, <2>1, <2>3 DEF ThreadTypes
  <2>8. onEngine' \in [at : EngineAts, source : Sources]
    BY <2>1 DEF EngineAt, EngineAts, Sources
  <2> QED BY <1>0, <2>1, <2>6, <2>7, <2>8 DEF LifeTypes, ThreadTypes, LooperTypes
<1>7. CASE ProcessOther
  <2>1. /\ UNCHANGED <<onMain, pipe, inputs, asked, exited, app, g_looper_fds>>
        /\ other' = [other EXCEPT !.readable = FALSE] /\ onEngine' = [at |-> "poll", source |-> "none"]
    BY <1>7 DEF ProcessOther, EngineAt
  <2>2. other' \in [readable : BOOLEAN, times : 0 .. MaxReady]
    BY <1>0, <2>1 DEF LooperTypes
  <2> QED BY <1>0, <2>1, <2>2 DEF LifeTypes, ThreadTypes, AppTypes, LooperTypes, EngineAts, Sources
<1>8. CASE OtherReadable
  <2>1. /\ UNCHANGED <<onMain, onEngine, pipe, inputs, asked, exited, app, g_looper_fds>>
        /\ other.times < MaxReady /\ other' = [readable |-> TRUE, times |-> other.times + 1]
    BY <1>8 DEF OtherReadable
  <2>2. other.times \in 0 .. MaxReady /\ MaxReady \in Nat
    BY <1>0, LifecycleAssumption DEF LooperTypes
  <2>3. other.times + 1 \in 0 .. MaxReady
    BY <2>1, <2>2
  <2>4. other' \in [readable : BOOLEAN, times : 0 .. MaxReady]
    BY <2>1, <2>3
  <2> QED BY <1>0, <2>1, <2>4 DEF LifeTypes, ThreadTypes, AppTypes, LooperTypes
<1>9. CASE Finish \/ Player
  <2>1. UNCHANGED <<onMain, onEngine, pipe, inputs, asked, exited, app, g_looper_fds, other>>
    BY <1>9 DEF Finish, Player, lifeVars
  <2> QED BY <1>0, <2>1 DEF LifeTypes, ThreadTypes, AppTypes, LooperTypes
<1> QED BY <1>1, <1>2, <1>3, <1>4, <1>5, <1>6, <1>7, <1>8, <1>9 DEF EngineStep

\* Types are kept from the first word of the text to the last command, and the table of
\* descriptors never holds more than it has room for (android_shim.c:405-482).
THEOREM TypeCorrect == Spec => []ProgramTypeOK
<1> DEFINE Types == LoaderTypeOK /\ LifeTypes
<1>1. Init => Types
  <2> SUFFICES ASSUME Init PROVE Types
    OBVIOUS
  <2>1. LoaderTypeOK
    BY DEF Init, LoaderInit, LoaderTypeOK, Stages
  <2>2. pipe \in [Apps -> Seq(Commands)] /\ g_looper_fds \in Seq({"engine", "other"})
        /\ Len(g_looper_fds) = 0
    <3>1. <<>> \in Seq(Commands) /\ <<>> \in Seq({"engine", "other"}) /\ Len(<<>>) = 0
      OBVIOUS
    <3> QED BY <3>1 DEF Init, LifecycleInit
  <2>3. AppTypes
    BY DEF Init, LifecycleInit, AppTypes, AppRecord
  <2>4. ThreadTypes /\ LooperTypes
    <3>1. /\ onMain.at = "create" /\ onEngine = [at |-> "none", source |-> "none"]
          /\ other = [readable |-> FALSE, times |-> 0] /\ inputs = FALSE /\ exited = FALSE
          /\ asked = [early |-> FALSE, ever |-> FALSE]
      BY DEF Init, LifecycleInit
    <3>2. 0 <= MAX_LOOPER_FDS /\ 0 \in 0 .. MaxReady
      BY LifecycleAssumption
    <3> QED BY <2>2, <3>1, <3>2 DEF ThreadTypes, LooperTypes, Ats, EngineAts, Sources
  <2> QED BY <2>1, <2>3, <2>4 DEF LifeTypes
<1>2. IInv /\ Types /\ [Next]_vars => Types'
  <2> SUFFICES ASSUME IInv, Types, [Next]_vars PROVE Types'
    OBVIOUS
  <2>1. UNCHANGED loaderVars => LoaderTypeOK'
    BY DEF loaderVars, LoaderTypeOK
  <2>2. UNCHANGED lifeVars => LifeTypes'
    BY DEF lifeVars, LifeTypes, ThreadTypes, AppTypes, LooperTypes
  <2>3. CASE Boot
    BY <2>2, <2>3, LoaderTypes DEF Boot
  <2>4. CASE Life
    BY <2>1, <2>4, MainTypes, OtherTypes DEF Life, LifecycleNext, IInv
  <2>5. CASE UNCHANGED vars
    BY <2>1, <2>2, <2>5 DEF vars
  <2> QED BY <2>3, <2>4, <2>5 DEF Next
<1>3. IInv /\ Types => ProgramTypeOK
  <2> SUFFICES ASSUME IInv, Types PROVE LifecycleTypeOK
    BY DEF ProgramTypeOK
  <2>1. CallInv /\ ThreadTypes /\ AppTypes /\ LooperTypes
    BY DEF IInv, LifeInv, LifeTypes
  <2>2. DOMAIN StartUp = 1 .. 4
    BY DEF StartUp
  <2>3. onMain \in [at : Ats, call : DOMAIN StartUp]
    BY <2>1, <2>2 DEF CallInv, ThreadTypes
  <2>4. \A a \in Apps : \A k \in DOMAIN pipe[a] : pipe[a][k] \in Commands
    BY <2>1 DEF ThreadTypes
  <2> QED BY <2>1, <2>3, <2>4
          DEF LifecycleTypeOK, CallInv, ThreadTypes, AppTypes, AppRecord, LooperTypes, Ats, EngineAts
<1> QED BY <1>1, <1>2, <1>3, Invariance, PTL DEF Spec
=============================================================================
