------------------------------- MODULE Loader -------------------------------
(***************************************************************************)
(* so_util.c and the first half of main (main.c): the library of the game  *)
(* is loaded, relocated, bound to dynlib_functions (imports.gen.c),        *)
(* patched and its constructors run, until ANativeActivity_onCreate can be *)
(* called.                                                                 *)
(*                                                                         *)
(* An image is what the ELF file says: its text as a sequence of decoded   *)
(* words, its dynamic symbols (None: undefined), its relocations and the   *)
(* slots of .init_array; and, since where the hooks are is up to the host, *)
(* how far the jump goes that the low half of each hook's address happens  *)
(* to decode to (0: it decodes to no jump). An address in the image is     *)
(* <<"image", n>>; the address of a function outside is its name and where *)
(* it was found. The kernel's answers to mmap and mprotect, and whether    *)
(* the canary patch is on and finds memory, are chosen once, in policy.    *)
(***************************************************************************)
EXTENDS Integers, Sequences

CONSTANTS
    Images,
    LicenseHooks, PlayCoreHooks, BundleHooks,   \* sequences of [name, to], in main's order
    DynLib,             \* dynlib_functions: a sequence of [symbol, func]
    HostLibs,           \* symbols dlsym(RTLD_DEFAULT) finds
    None

ASSUME ImagesAssumption ==
    \A im \in Images :
        /\ DOMAIN im.rela \subseteq Nat
        /\ \A r \in DOMAIN im.rela :
              /\ im.rela[r].type \in {"RELATIVE", "ABS64", "GLOB_DAT", "JUMP_SLOT"}
              /\ im.rela[r].slot \in DOMAIN im.data
        /\ \A i \in DOMAIN im.text : im.text[i].op \in {"plain", "nop", "call", "jump"}

ASSUME HooksAssumption ==
    \A hooks \in {LicenseHooks, PlayCoreHooks, BundleHooks} :
        hooks \in Seq([name : STRING, to : STRING])

ASSUME TableAssumption ==   \* entries of one symbol are all 0 or none is
    /\ DOMAIN DynLib \subseteq Nat
    /\ \A j, k \in DOMAIN DynLib :
          DynLib[j].symbol = DynLib[k].symbol => (DynLib[j].func = None <=> DynLib[k].func = None)
    /\ None \notin HostLibs /\ \A n \in HostLibs : <<"dlsym", n>> # None
    /\ \A k \in DOMAIN DynLib : DynLib[k].symbol # None /\ <<"table", DynLib[k].func>> # None

VARIABLES
    stage,              \* what main does next
    policy,             \* what the kernel allows: wx (writable code), rx; patch
    image,
    prot,               \* protection of the text
    text,               \* the words of the text
    stale,              \* the words written since the instruction cache was cleared of them
    slots,              \* the words of the data that relocations write
    ran                 \* constructors called, by their places in .init_array

loaderVars == <<stage, policy, image, prot, text, stale, slots, ran>>

-----------------------------------------------------------------------------

Stages == {"start", "load", "relocate", "resolve", "license", "playcore", "bundle",
           "patch", "construct", "finalize", "find", "shim", "create",
           "failed", "crashed"}
AllHooks == LicenseHooks \o PlayCoreHooks \o BundleHooks

Plain == [op |-> "plain"]
Nop == [op |-> "nop"]
CallFail == [op |-> "call"]             \* BL to the PLT entry of __stack_chk_fail
JumpBy(n) == [op |-> "jump", by |-> n]  \* B.cond, CBZ or CBNZ
HookWord(k, f) ==
    IF k = 0 THEN [op |-> "ldr"] ELSE IF k = 1 THEN [op |-> "br"]
    ELSE [op |-> IF k = 2 THEN "low" ELSE "high", of |-> f]
Ops == {"plain", "nop", "call", "jump", "ldr", "br", "low", "high"}

LoaderTypeOK ==
    /\ stage \in Stages
    /\ image \in Images
    /\ prot \in {"none", "RW", "RWX", "RX"}
    /\ DOMAIN text \subseteq DOMAIN image.text
    /\ \A i \in DOMAIN text : text[i].op \in Ops
    /\ stale \subseteq DOMAIN text
    /\ DOMAIN slots = DOMAIN image.data
    /\ DOMAIN ran \subseteq DOMAIN image.init

LoaderInit ==
    /\ stage = "start"
    /\ policy \in {p \in [wx : BOOLEAN, rx : BOOLEAN, patch : BOOLEAN] : p.wx => p.rx}
    /\ image \in Images
    /\ prot = "none" /\ text = <<>> /\ stale = {} /\ slots = image.data /\ ran = <<>>

Step(from, to) == stage = from /\ stage' = to
Fail(from) == Step(from, "failed") /\ UNCHANGED <<policy, image, prot, text, stale, slots, ran>>

-----------------------------------------------------------------------------
(***************************************************************************)
(* so_load, so_relocate, so_resolve.                                       *)
(***************************************************************************)

\* The shims are told the directory; the library is looked for in three places.
Find ==
    /\ Step("start", "load")
    /\ UNCHANGED <<policy, image, prot, text, stale, slots, ran>>
NotFound == Fail("start")

\* Cannot be opened, too small, no memory, short read, no ELF for AArch64 with an
\* executable segment, or no address space: so_load frees the file and main returns 1.
LoadFails == Fail("load")

\* The image is mapped for writing and execution, or for writing alone.
SoLoad ==
    /\ Step("load", "relocate")
    /\ prot' = IF policy.wx THEN "RWX" ELSE "RW"
    /\ text' = image.text
    /\ stale' = DOMAIN image.text
    /\ UNCHANGED <<policy, image, slots, ran>>

Rela == DOMAIN image.rela
Sym(r) == IF image.rela[r].sym \in DOMAIN image.syms THEN image.syms[image.rela[r].sym]
          ELSE [name |-> None, at |-> None]
Symbolic(r) == image.rela[r].type \in {"ABS64", "GLOB_DAT", "JUMP_SLOT"}

\* The slots after relocations wrote these values in order: the last one wins.
Written(value) ==
    [s \in DOMAIN slots |->
        LET W == {r \in DOMAIN value : image.rela[r].slot = s}
        IN  IF W = {} THEN slots[s] ELSE value[CHOOSE r \in W : \A q \in W : q <= r]]

InImage(r) ==
    IF image.rela[r].type = "RELATIVE" THEN <<"image", image.rela[r].addend>>
    ELSE <<"image", Sym(r).at + image.rela[r].addend>>

Relocates(r) == image.rela[r].type = "RELATIVE" \/ (Symbolic(r) /\ Sym(r).at # None)

Relocate ==
    /\ Step("relocate", "resolve")
    /\ slots' = Written([r \in {q \in Rela : Relocates(q)} |-> InImage(r)])
    /\ UNCHANGED <<policy, image, prot, text, stale, ran>>

\* Mutant: the search goes on after the first entry that matches.
ResolvedLast(name) ==
    LET K == {k \in DOMAIN DynLib : DynLib[k].symbol = name}
        func == IF K = {} THEN None ELSE DynLib[CHOOSE k \in K : \A j \in K : j <= k].func
    IN  IF func # None THEN <<"table", func>>
        ELSE IF name \in HostLibs THEN <<"dlsym", name>> ELSE None

\* The first entry of the table, or what dlsym finds when there is none or it is 0.
Resolved(name) ==
    LET K == {k \in DOMAIN DynLib : DynLib[k].symbol = name}
        func == IF K = {} THEN None ELSE DynLib[CHOOSE k \in K : \A j \in K : k <= j].func
    IN  IF func # None THEN <<"table", func>>
        ELSE IF name \in HostLibs THEN <<"dlsym", name>> ELSE None

Imports(r) == Symbolic(r) /\ Sym(r).name # None /\ Sym(r).at = None
                /\ Resolved(Sym(r).name) # None

Outside(r) == Resolved(Sym(r).name) \o <<image.rela[r].addend>>

Resolve ==
    /\ Step("resolve", "license")
    /\ slots' = Written([r \in {q \in Rela : Imports(q)} |-> Outside(r)])
    /\ UNCHANGED <<policy, image, prot, text, stale, ran>>

-----------------------------------------------------------------------------
(***************************************************************************)
(* Patching the text.                                                      *)
(***************************************************************************)

\* mprotect, whose result nobody reads: it wants a page boundary and a kernel that
\* allows it.
Protected(p) ==
    IF image.aligned /\ (p = "RWX" => policy.wx) /\ (p = "RX" => policy.rx) THEN p ELSE prot

\* so_find_addr: the first symbol of that name the library defines.
Defined(name) == {k \in DOMAIN image.syms : image.syms[k].name = name /\ image.syms[k].at # None}
FindAddr(name) == image.syms[CHOOSE k \in Defined(name) : \A j \in Defined(name) : k <= j].at

\* Mutant: the high half of the hook's address is forgotten.
HookedShort(hooks) ==
    LET At(i) == {h \in DOMAIN hooks : Defined(hooks[h].name) # {}
                                        /\ i - FindAddr(hooks[h].name) \in 0 .. 2}
    IN  [i \in DOMAIN text |->
            IF At(i) = {} THEN text[i]
            ELSE LET h == CHOOSE h \in At(i) : \A g \in At(i) : g <= h
                 IN  HookWord(i - FindAddr(hooks[h].name), hooks[h].to)]

\* hook_arm64 at every function found, in order: four words each, whose cache it clears.
Hooked(hooks) ==
    LET At(i) == {h \in DOMAIN hooks : Defined(hooks[h].name) # {}
                                        /\ i - FindAddr(hooks[h].name) \in 0 .. 3}
    IN  [i \in DOMAIN text |->
            IF At(i) = {} THEN text[i]
            ELSE LET h == CHOOSE h \in At(i) : \A g \in At(i) : g <= h
                 IN  HookWord(i - FindAddr(hooks[h].name), hooks[h].to)]

Cleared(hooks) ==
    {i \in stale : \E h \in DOMAIN hooks : Defined(hooks[h].name) # {}
                                             /\ i - FindAddr(hooks[h].name) \in 0 .. 3}

HookLicense ==
    /\ Step("license", "playcore")
    /\ prot' = Protected("RWX")
    /\ text' = Hooked(LicenseHooks)
    /\ stale' = stale \ Cleared(LicenseHooks)
    /\ UNCHANGED <<policy, image, slots, ran>>

HookPlayCore ==
    /\ Step("playcore", "bundle")
    /\ text' = Hooked(PlayCoreHooks)
    /\ stale' = stale \ Cleared(PlayCoreHooks)
    /\ UNCHANGED <<policy, image, prot, slots, ran>>

HookBundle ==
    /\ Step("bundle", "patch")
    /\ text' = Hooked(BundleHooks)
    /\ stale' = stale \ Cleared(BundleHooks)
    /\ UNCHANGED <<policy, image, prot, slots, ran>>

\* Every word that decodes to a conditional jump counts, a hook's literal too.
Offset(w) ==
    IF w.op = "jump" THEN w.by ELSE IF w.op = "low" THEN image.low[w.of] ELSE 0

\* The word jumps to a call of __stack_chk_fail.
JumpsToFail(i) == Offset(text[i]) # 0 /\ i + Offset(text[i]) \in DOMAIN text
                   /\ text[i + Offset(text[i])] = CallFail

\* Mutant: the text keeps the protection it was mapped with.
PatchUnprotected ==
    /\ Step("patch", "construct")
    /\ policy.patch /\ Len(text) >= 4
    /\ text' = [i \in DOMAIN text |-> IF JumpsToFail(i) THEN Nop ELSE text[i]]
    /\ stale' = {}
    /\ UNCHANGED <<policy, image, prot, slots, ran>>

\* so_patch_stack_canaries.
Patch ==
    /\ Step("patch", "construct")
    /\ policy.patch /\ Len(text) >= 4
    /\ text' = [i \in DOMAIN text |-> IF JumpsToFail(i) THEN Nop ELSE text[i]]
    /\ prot' = IF Protected("RX") = "RX" THEN "RX" ELSE Protected("RWX")
    /\ stale' = {}
    /\ UNCHANGED <<policy, image, slots, ran>>

\* PATCH_CANARY=0, no memory for the bitmap, or a text too short.
NoPatch ==
    /\ Step("patch", "construct")
    /\ ~policy.patch \/ Len(text) < 4
    /\ UNCHANGED <<policy, image, prot, text, stale, slots, ran>>

-----------------------------------------------------------------------------
(***************************************************************************)
(* Running the library.                                                    *)
(***************************************************************************)

Executable == prot \in {"RX", "RWX"}

\* so_execute_init_array, in order, without the entries 0 and -1.
Construct ==
    /\ IF Executable \/ image.init = <<>>
         THEN /\ Step("construct", "finalize")
              /\ ran' = [k \in {j \in DOMAIN image.init :
                                   slots[image.init[j]] \notin {<<"null">>, <<"minus one">>}} |->
                           slots[image.init[k]]]
         ELSE Step("construct", "crashed") /\ UNCHANGED ran
    /\ UNCHANGED <<policy, image, prot, text, stale, slots>>

\* so_finalize and so_flush_caches: after the constructors.
Finalize ==
    /\ Step("finalize", "find")
    /\ prot' = Protected("RX")
    /\ stale' = {}
    /\ UNCHANGED <<policy, image, text, slots, ran>>

FindEntry ==
    /\ Step("find", IF Defined("ANativeActivity_onCreate") = {} THEN "failed" ELSE "shim")
    /\ UNCHANGED <<policy, image, prot, text, stale, slots, ran>>

\* android_shim_init: a pipe, SDL, a window; then onCreate is called.
ShimInit ==
    /\ Step("shim", IF Executable THEN "create" ELSE "crashed")
    /\ UNCHANGED <<policy, image, prot, text, stale, slots, ran>>
ShimFails == Fail("shim")

LoaderNext ==
    \/ Find \/ NotFound \/ SoLoad \/ LoadFails \/ Relocate \/ Resolve
    \/ HookLicense \/ HookPlayCore \/ HookBundle \/ Patch \/ NoPatch
    \/ Construct \/ Finalize \/ FindEntry \/ ShimInit \/ ShimFails

-----------------------------------------------------------------------------

\* The library's code crashes for want of permission only if the kernel refuses
\* writable code, and then only if nothing makes it executable before the first
\* constructor: the canary patch is off, the text starts inside a page, or the kernel
\* refuses to make memory code.  Nobody reads what mprotect returns.  And what runs is
\* what was written, not what the instruction cache still holds: with the canary patch
\* for the constructors too, without it only from onCreate on (so_util.c:42-63,
\* 162-176, 362-364, 431-433, main.c:457-472).
Patches == policy.patch /\ Len(text) >= 4
CodeExecutable ==
    /\ stage = "crashed" => ~policy.wx /\ (~image.aligned \/ ~policy.rx \/ ~Patches)
    /\ stage \in {"construct", "finalize"} /\ Patches => stale = {}
    /\ stage \in {"find", "shim", "create"} => stale = {}

\* When the first constructor runs every slot holds what its relocation asks for, its
\* addend added: the library's own symbol although the table has one of that name; for an
\* import the function of the first entry the table has for that name although the host
\* has one, the host's for a name the table lacks, and the file's word if there is none
\* (so_util.c:219-311, main.c:266-270).
Provided(name) == {k \in DOMAIN DynLib : DynLib[k].symbol = name /\ DynLib[k].func # None}
ImportsBound ==
    stage \in {"construct", "finalize", "find", "shim"} =>
        \A r \in Rela : (\A q \in Rela \ {r} : image.rela[q].slot # image.rela[r].slot) =>
            LET s == slots[image.rela[r].slot] name == Sym(r).name IN
            IF image.rela[r].type = "RELATIVE" \/ Sym(r).at # None THEN s = InImage(r)
            ELSE IF Provided(name) # {}
              THEN \E k \in Provided(name) :
                      /\ \A j \in Provided(name) : k <= j
                      /\ s = <<"table", DynLib[k].func, image.rela[r].addend>>
            ELSE IF name \in HostLibs THEN s = <<"dlsym", name, image.rela[r].addend>>
            ELSE s = image.data[image.rela[r].slot]

\* Functions replaced by hooks, as sets of words.
Body(h) == {i \in DOMAIN text : i - FindAddr(AllHooks[h].name) \in 0 .. 3}
Found == {h \in DOMAIN AllHooks : Defined(AllHooks[h].name) # {}}
Apart == \A g, h \in Found : Body(g) \cap Body(h) = {} \/ FindAddr(AllHooks[g].name) = FindAddr(AllHooks[h].name)
NoLiteralJumps == \A h \in Found : image.low[AllHooks[h].to] = 0

\* The text that runs is the file's except for the functions hooked and the jumps to
\* __stack_chk_fail: every hooked function is left whole, the last hook of an address
\* wins, no other word is touched and with the canary patch, no conditional jump to
\* such a call is left.  It holds if hooked functions are four words
\* apart and no address of a hook decodes to a jump to such a call (so_util.c:42-49,
\* 366-437, main.c:273-463).
TextAsIntended ==
    stage \in {"construct", "finalize", "find", "shim"} /\ Apart /\ NoLiteralJumps =>
        /\ \A h \in Found : \E g \in Found :
              /\ g >= h /\ FindAddr(AllHooks[g].name) = FindAddr(AllHooks[h].name)
              /\ \A i \in Body(h) : text[i] = HookWord(i - FindAddr(AllHooks[h].name), AllHooks[g].to)
        /\ \A i \in DOMAIN text \ UNION {Body(h) : h \in Found} :
              \/ text[i] = image.text[i]
              \/ /\ text[i] = Nop
                 /\ image.text[i].op = "jump"
                 /\ image.text[i + image.text[i].by] = CallFail
        /\ policy.patch /\ Len(text) >= 4 => \A i \in DOMAIN text : ~JumpsToFail(i)
=============================================================================
