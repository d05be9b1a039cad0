----------------------------- MODULE HooksProofs -----------------------------
(***************************************************************************)
(* What the patches make of the text, for every library and any hooks: the *)
(* text that runs is the file's but for the functions hooked and the jumps *)
(* of the canary patch.                                                    *)
(***************************************************************************)
EXTENDS Program, SequenceTheorems, NaturalsInduction, WellFoundedInduction, TLAPS

-----------------------------------------------------------------------------
(***************************************************************************)
(* The last of several hooks.                                              *)
(***************************************************************************)

LastHook(S) == CHOOSE h \in S : \A g \in S : g <= h

\* Some natural numbers that have a bound have a largest.
LEMMA LastIs ==
    ASSUME NEW n \in Nat, NEW S \in SUBSET (1 .. n), S # {}
    PROVE  LastHook(S) \in S /\ \A g \in S : g <= LastHook(S)
<1> DEFINE T == {k \in Nat : n - k \in S}
<1>1. PICK h0 \in S : TRUE
  OBVIOUS
<1>2. n - h0 \in T
  BY <1>1
<1> HIDE DEF T
<1>3. T \subseteq Nat /\ T # {}
  BY <1>2 DEF T
<1>4. PICK t \in T : \A u \in T : <<u, t>> \notin OpToRel(<, Nat)
  BY <1>3, NatLessThanWellFounded, WFMin
<1>5. \A u \in T : ~(u < t)
  BY <1>3, <1>4 DEF OpToRel
<1>6. n - t \in S /\ t \in Nat
  BY DEF T
<1>7. ASSUME NEW g \in S PROVE g <= n - t
  <2>1. g \in 1 .. n /\ n - g \in Nat /\ n - (n - g) = g
    OBVIOUS
  <2>2. n - g \in T
    BY <2>1 DEF T
  <2> QED BY <1>5, <1>6, <2>1, <2>2
<1>8. \E h \in S : \A g \in S : g <= h
  BY <1>6, <1>7
<1> QED BY <1>8, Zenon DEF LastHook

\* It is the only one.
LEMMA LastUnique ==
    ASSUME NEW n \in Nat, NEW S \in SUBSET (1 .. n), NEW h \in S, \A g \in S : g <= h
    PROVE  LastHook(S) = h
<1>1. LastHook(S) \in S /\ \A g \in S : g <= LastHook(S)
  BY LastIs
<1>2. LastHook(S) \in 1 .. n /\ h \in 1 .. n
  BY <1>1
<1>3. h <= LastHook(S) /\ LastHook(S) <= h
  BY <1>1
<1> QED BY <1>2, <1>3

-----------------------------------------------------------------------------
(***************************************************************************)
(* The text while hooks are installed.                                     *)
(***************************************************************************)

\* Hook h replaces word i.
Covers(h, i) ==
    Defined(AllHooks[h].name) # {} /\ i - FindAddr(AllHooks[h].name) \in 0 .. 3
Covering(n, i) == {h \in 1 .. n : Covers(h, i)}
WordOf(h, i) == HookWord(i - FindAddr(AllHooks[h].name), AllHooks[h].to)

\* The word i when the first n hooks are installed.
WordAt(n, i) ==
    IF Covering(n, i) = {} THEN image.text[i] ELSE WordOf(LastHook(Covering(n, i)), i)

TextIs(n) ==
    /\ DOMAIN text = DOMAIN image.text
    /\ \A i \in DOMAIN image.text : text[i] = WordAt(n, i)

\* A group of hooks after the first m.
LEMMA GroupHooks ==
    ASSUME NEW m \in Nat, NEW n \in Nat, NEW hooks, DOMAIN hooks = 1 .. n,
           \A k \in 1 .. n : hooks[k] = AllHooks[m + k], TextIs(m)
    PROVE  /\ DOMAIN Hooked(hooks) = DOMAIN image.text
           /\ \A i \in DOMAIN image.text : Hooked(hooks)[i] = WordAt(m + n, i)
<1>1. DOMAIN Hooked(hooks) = DOMAIN image.text
  BY DEF Hooked, TextIs
<1> SUFFICES ASSUME NEW i \in DOMAIN image.text PROVE Hooked(hooks)[i] = WordAt(m + n, i)
  BY <1>1
<1> DEFINE At == {h \in DOMAIN hooks : Defined(hooks[h].name) # {}
                                         /\ i - FindAddr(hooks[h].name) \in 0 .. 3}
           l == LastHook(At)
<1>2. Hooked(hooks)[i] = IF At = {} THEN text[i]
                         ELSE HookWord(i - FindAddr(hooks[l].name), hooks[l].to)
  BY DEF Hooked, TextIs, LastHook
<1>3. At \subseteq 1 .. n /\ \A k \in 1 .. n : k \in At <=> Covers(m + k, i)
  BY DEF Covers
<1>4. \A h \in Covering(m + n, i) : h \in Covering(m, i) \/ (h - m \in At /\ h > m)
  <2> SUFFICES ASSUME NEW h \in 1 .. m + n, Covers(h, i), h \notin 1 .. m PROVE h - m \in At
    BY DEF Covering
  <2>1. h - m \in 1 .. n /\ m + (h - m) = h
    OBVIOUS
  <2> HIDE DEF At
  <2> QED BY <1>3, <2>1
<1>5. Covering(m, i) \subseteq Covering(m + n, i)
  BY DEF Covering
<1> HIDE DEF At
<1>6. CASE At = {}
  <2>1. Covering(m + n, i) = Covering(m, i)
    BY <1>4, <1>5, <1>6
  <2>2. WordAt(m + n, i) = WordAt(m, i)
    BY <2>1 DEF WordAt
  <2> QED BY <1>2, <1>6, <2>2 DEF TextIs
<1>7. CASE At # {}
  <2>1. l \in At /\ \A k \in At : k <= l
    BY <1>3, <1>7, LastIs
  <2>2. l \in 1 .. n /\ hooks[l] = AllHooks[m + l]
    BY <1>3, <2>1
  <2> HIDE DEF l
  <2>3. m + l \in Covering(m + n, i)
    BY <1>3, <2>1, <2>2 DEF Covering
  <2>4. \A h \in Covering(m + n, i) : h <= m + l
    BY <1>3, <1>4, <2>1, <2>2 DEF Covering
  <2>5. LastHook(Covering(m + n, i)) = m + l
    <3>1. m + n \in Nat /\ Covering(m + n, i) \in SUBSET (1 .. m + n)
      BY DEF Covering
    <3> QED BY <2>3, <2>4, <3>1, LastUnique
  <2>6. WordAt(m + n, i) = WordOf(m + l, i)
    BY <2>3, <2>5 DEF WordAt
  <2> QED BY <1>2, <1>7, <2>2, <2>6 DEF WordOf
<1> QED BY <1>6, <1>7

\* main's groups of hooks follow each other.
LEMMA GroupsAre ==
    LET l == Len(LicenseHooks) p == Len(PlayCoreHooks) b == Len(BundleHooks) IN
    /\ l \in Nat /\ p \in Nat /\ b \in Nat
    /\ DOMAIN LicenseHooks = 1 .. l /\ DOMAIN PlayCoreHooks = 1 .. p /\ DOMAIN BundleHooks = 1 .. b
    /\ DOMAIN AllHooks = 1 .. l + p + b
    /\ \A k \in 1 .. l : LicenseHooks[k] = AllHooks[0 + k]
    /\ \A k \in 1 .. p : PlayCoreHooks[k] = AllHooks[l + k]
    /\ \A k \in 1 .. b : BundleHooks[k] = AllHooks[(l + p) + k]
<1> DEFINE S == [name : STRING, to : STRING]
           l == Len(LicenseHooks)
           p == Len(PlayCoreHooks)
           b == Len(BundleHooks)
<1>1. LicenseHooks \in Seq(S) /\ PlayCoreHooks \in Seq(S) /\ BundleHooks \in Seq(S)
  BY HooksAssumption
<1> HIDE DEF S
<1>2. /\ l \in Nat /\ p \in Nat /\ b \in Nat
      /\ DOMAIN LicenseHooks = 1 .. l /\ DOMAIN PlayCoreHooks = 1 .. p /\ DOMAIN BundleHooks = 1 .. b
  BY <1>1
<1> DEFINE first == LicenseHooks \o PlayCoreHooks
<1>3. /\ first \in Seq(S) /\ Len(first) = l + p
      /\ \A k \in 1 .. l + p : first[k] = IF k <= l THEN LicenseHooks[k] ELSE PlayCoreHooks[k - l]
  BY <1>1, ConcatProperties
<1> HIDE DEF first
<1>4. /\ first \o BundleHooks \in Seq(S) /\ Len(first \o BundleHooks) = l + p + b
      /\ \A k \in 1 .. l + p + b :
            (first \o BundleHooks)[k] = IF k <= l + p THEN first[k] ELSE BundleHooks[k - (l + p)]
  <2>1. /\ first \o BundleHooks \in Seq(S) /\ Len(first \o BundleHooks) = Len(first) + b
        /\ \A k \in 1 .. Len(first) + b :
              (first \o BundleHooks)[k] =
                 IF k <= Len(first) THEN first[k] ELSE BundleHooks[k - Len(first)]
    <3>1. first \in Seq(S) /\ BundleHooks \in Seq(S)
      BY <1>1, <1>3
    <3> HIDE DEF b
    <3> QED BY <3>1, ConcatProperties DEF b
  <2> QED BY <1>3, <2>1
<1>5. AllHooks = first \o BundleHooks
  BY DEF AllHooks, first
<1>6. DOMAIN AllHooks = 1 .. l + p + b
  <2>1. AllHooks \in Seq(S) /\ Len(AllHooks) = l + p + b
    BY <1>4, <1>5
  <2>2. DOMAIN AllHooks = 1 .. Len(AllHooks)
    BY <2>1
  <2> QED BY <2>1, <2>2, Zenon
<1> HIDE DEF l, p, b
<1>7. ASSUME NEW k \in 1 .. l PROVE LicenseHooks[k] = AllHooks[0 + k]
  BY <1>2, <1>3, <1>4, <1>5
<1>8. ASSUME NEW k \in 1 .. p PROVE PlayCoreHooks[k] = AllHooks[l + k]
  <2>1. l + k \in 1 .. l + p + b /\ l + k \in 1 .. l + p /\ ~(l + k <= l) /\ (l + k) - l = k
    BY <1>2
  <2> QED BY <1>2, <1>3, <1>4, <1>5, <2>1
<1>9. ASSUME NEW k \in 1 .. b PROVE BundleHooks[k] = AllHooks[(l + p) + k]
  <2>1. (l + p) + k \in 1 .. l + p + b /\ ~((l + p) + k <= l + p) /\ ((l + p) + k) - (l + p) = k
    BY <1>2
  <2> QED BY <1>2, <1>4, <1>5, <2>1
<1> QED BY <1>2, <1>6, <1>7, <1>8, <1>9 DEF l, p, b

-----------------------------------------------------------------------------
(***************************************************************************)
(* The text stage by stage.                                                *)
(***************************************************************************)

\* A word that the canary patch may have replaced.
Unless(n, i) ==
    LET w == WordAt(n, i) by == Offset(w) IN
    text[i] = Nop /\ by # 0 /\ i + by \in DOMAIN image.text /\ WordAt(n, i + by) = CallFail

PatchedIs(n) ==
    /\ DOMAIN text = DOMAIN image.text
    /\ \A i \in DOMAIN image.text : text[i] = WordAt(n, i) \/ Unless(n, i)

Running == {"construct", "finalize", "find", "shim"}
AfterLicense == Len(LicenseHooks)
AfterPlayCore == Len(LicenseHooks) + Len(PlayCoreHooks)
AfterBundle == Len(LicenseHooks) + Len(PlayCoreHooks) + Len(BundleHooks)

\* After each group the text is the file's with the hooks so far, and at last without
\* the conditional jumps to __stack_chk_fail.
TextInv ==
    /\ image \in Images
    /\ stage \in {"relocate", "resolve", "license"} => TextIs(0)
    /\ stage = "playcore" => TextIs(AfterLicense)
    /\ stage = "bundle" => TextIs(AfterPlayCore)
    /\ stage = "patch" => TextIs(AfterBundle)
    /\ stage \in Running =>
          PatchedIs(AfterBundle) /\ (Patches => \A i \in DOMAIN text : ~JumpsToFail(i))

\* What these operators are told by depends on image and text alone.
LEMMA SameText ==
    ASSUME UNCHANGED image
    PROVE  /\ \A n, i : WordAt(n, i)' = WordAt(n, i)
           /\ \A w : Offset(w)' = Offset(w)
           /\ UNCHANGED text => /\ \A n : TextIs(n)' = TextIs(n) /\ PatchedIs(n)' = PatchedIs(n)
                               /\ \A i : JumpsToFail(i)' = JumpsToFail(i)
<1>1. \A n, i : WordAt(n, i)' = WordAt(n, i)
  BY DEF WordAt, Covering, Covers, WordOf, Defined, FindAddr
<1>2. \A w : Offset(w)' = Offset(w)
  BY DEF Offset
<1>3. ASSUME UNCHANGED text PROVE \A n : TextIs(n)' = TextIs(n)
  BY <1>1, <1>3 DEF TextIs
<1>4. ASSUME UNCHANGED text PROVE \A n : PatchedIs(n)' = PatchedIs(n)
  BY <1>1, <1>2, <1>4 DEF PatchedIs, Unless
<1>5. ASSUME UNCHANGED text PROVE \A i : JumpsToFail(i)' = JumpsToFail(i)
  BY <1>2, <1>5 DEF JumpsToFail
<1> QED BY <1>1, <1>2, <1>3, <1>4, <1>5

\* The image is mapped as the file has it.
LEMMA LoadText ==
    ASSUME TextInv, SoLoad
    PROVE  TextInv'
<1>1. stage' = "relocate" /\ image' = image /\ text' = image.text
  BY DEF SoLoad, Step
<1>2. \A i : Covering(0, i)' = {}
  BY DEF Covering
<1>3. TextIs(0)'
  BY <1>1, <1>2 DEF TextIs, WordAt
<1> QED BY <1>1, <1>3 DEF TextInv, Running

\* Each group of hooks adds its own.
LEMMA HookText ==
    ASSUME TextInv, HookLicense \/ HookPlayCore \/ HookBundle
    PROVE  TextInv'
<1>1. image' = image /\ image \in Images
  BY DEF HookLicense, HookPlayCore, HookBundle, TextInv
<1>2. ASSUME NEW n, DOMAIN text' = DOMAIN image.text,
             \A i \in DOMAIN image.text : text'[i] = WordAt(n, i)
      PROVE  TextIs(n)'
  BY <1>1, <1>2, SameText DEF TextIs
<1>3. CASE HookLicense
  <2>1. stage = "license" /\ stage' = "playcore" /\ text' = Hooked(LicenseHooks)
    BY <1>3 DEF HookLicense, Step
  <2>2. TextIs(0) /\ 0 + AfterLicense = AfterLicense
    BY <2>1, GroupsAre DEF TextInv, AfterLicense
  <2>3. TextIs(AfterLicense)'
    <3> DEFINE n == Len(LicenseHooks)
    <3>1. /\ 0 \in Nat /\ n \in Nat /\ DOMAIN LicenseHooks = 1 .. n
          /\ \A k \in 1 .. n : LicenseHooks[k] = AllHooks[0 + k]
          /\ AfterLicense = 0 + n
      BY GroupsAre DEF AfterLicense
    <3> HIDE DEF n
    <3>2. /\ DOMAIN text' = DOMAIN image.text
          /\ \A i \in DOMAIN image.text : text'[i] = WordAt(AfterLicense, i)
      BY <2>1, <2>2, <3>1, GroupHooks
    <3> QED BY <1>2, <3>2
  <2> QED BY <1>1, <2>1, <2>3 DEF TextInv, Running
<1>4. CASE HookPlayCore
  <2>1. stage = "playcore" /\ stage' = "bundle" /\ text' = Hooked(PlayCoreHooks)
    BY <1>4 DEF HookPlayCore, Step
  <2>2. TextIs(AfterLicense)
    BY <2>1 DEF TextInv
  <2>3. TextIs(AfterPlayCore)'
    <3> DEFINE n == Len(PlayCoreHooks)
    <3>1. /\ AfterLicense \in Nat /\ n \in Nat /\ DOMAIN PlayCoreHooks = 1 .. n
          /\ \A k \in 1 .. n : PlayCoreHooks[k] = AllHooks[AfterLicense + k]
          /\ AfterPlayCore = AfterLicense + n
      BY GroupsAre DEF AfterLicense, AfterPlayCore
    <3> HIDE DEF n
    <3>2. /\ DOMAIN text' = DOMAIN image.text
          /\ \A i \in DOMAIN image.text : text'[i] = WordAt(AfterPlayCore, i)
      BY <2>1, <2>2, <3>1, GroupHooks
    <3> QED BY <1>2, <3>2
  <2> QED BY <1>1, <2>1, <2>3 DEF TextInv, Running
<1>5. CASE HookBundle
  <2>1. stage = "bundle" /\ stage' = "patch" /\ text' = Hooked(BundleHooks)
    BY <1>5 DEF HookBundle, Step
  <2>2. TextIs(AfterPlayCore)
    BY <2>1 DEF TextInv
  <2>3. TextIs(AfterBundle)'
    <3> DEFINE n == Len(BundleHooks)
    <3>1. /\ AfterPlayCore \in Nat /\ n \in Nat /\ DOMAIN BundleHooks = 1 .. n
          /\ \A k \in 1 .. n : BundleHooks[k] = AllHooks[AfterPlayCore + k]
          /\ AfterBundle = AfterPlayCore + n
      BY GroupsAre DEF AfterPlayCore, AfterBundle
    <3> HIDE DEF n
    <3>2. /\ DOMAIN text' = DOMAIN image.text
          /\ \A i \in DOMAIN image.text : text'[i] = WordAt(AfterBundle, i)
      BY <2>1, <2>2, <3>1, GroupHooks
    <3> QED BY <1>2, <3>2
  <2> QED BY <1>1, <2>1, <2>3 DEF TextInv, Running
<1> QED BY <1>3, <1>4, <1>5

\* The canary patch takes the jumps out, and a hook's words only if one decodes to such
\* a jump.
LEMMA PatchText ==
    ASSUME TextInv, Patch
    PROVE  TextInv'
<1>1. /\ stage = "patch" /\ stage' = "construct" /\ image' = image /\ image \in Images
      /\ text' = [i \in DOMAIN text |-> IF JumpsToFail(i) THEN Nop ELSE text[i]]
  BY DEF Patch, Step, TextInv
<1>2. TextIs(AfterBundle) /\ DOMAIN text' = DOMAIN text
  BY <1>1 DEF TextInv
<1>3. PatchedIs(AfterBundle)'
  <2> SUFFICES ASSUME NEW i \in DOMAIN image.text
               PROVE  text'[i] = WordAt(AfterBundle, i) \/ Unless(AfterBundle, i)'
    BY <1>1, <1>2, SameText DEF PatchedIs, TextIs
  <2> DEFINE w == WordAt(AfterBundle, i)
             by == Offset(w)
  <2>1. text[i] = w
    BY <1>2 DEF TextIs
  <2>2. CASE JumpsToFail(i)
    <3>1. by # 0 /\ i + by \in DOMAIN image.text /\ WordAt(AfterBundle, i + by) = CallFail
      BY <1>2, <2>1, <2>2 DEF JumpsToFail, TextIs
    <3>2. text'[i] = Nop
      BY <1>1, <1>2, <2>2 DEF TextIs
    <3> QED BY <1>1, <3>1, <3>2, SameText DEF Unless
  <2>3. CASE ~JumpsToFail(i)
    BY <1>1, <1>2, <2>1, <2>3 DEF TextIs
  <2> QED BY <2>2, <2>3
<1>4. ASSUME NEW i \in DOMAIN text', JumpsToFail(i)' PROVE FALSE
  <2> DEFINE by == Offset(text'[i])
  <2>1. by # 0 /\ i + by \in DOMAIN text /\ text'[i + by] = CallFail
    BY <1>1, <1>2, <1>4, SameText DEF JumpsToFail
  <2>2. Offset(Nop) = 0 /\ Nop # CallFail
    BY DEF Offset, Nop, CallFail
  <2>3. text'[i] = text[i] /\ ~JumpsToFail(i)
    BY <1>1, <1>2, <2>1, <2>2
  <2>4. text[i + by] = CallFail
    BY <1>1, <2>1, <2>2
  <2> QED BY <2>1, <2>3, <2>4 DEF JumpsToFail
<1> QED BY <1>1, <1>3, <1>4 DEF TextInv, Running

\* Without it, or with it done, the text stays.
LEMMA TextStays ==
    ASSUME TextInv, UNCHANGED <<image, text, policy>>,
           \/ stage' = stage
           \/ stage' \in {"load", "failed", "create", "crashed"}
           \/ stage \in {"relocate", "resolve"} /\ stage' \in {"resolve", "license"}
           \/ stage = "patch" /\ ~Patches /\ stage' = "construct"
           \/ stage \in Running /\ stage' \in Running
    PROVE  TextInv'
<1>1. /\ \A n : TextIs(n)' = TextIs(n) /\ PatchedIs(n)' = PatchedIs(n)
      /\ \A i : JumpsToFail(i)' = JumpsToFail(i)
  BY SameText
<1>2. Patches' = Patches
  BY DEF Patches
<1>3. \A n : TextIs(n) => PatchedIs(n)
  BY DEF TextIs, PatchedIs
<1> QED BY <1>1, <1>2, <1>3 DEF TextInv, Running

\* Every step of the loader makes of the text what it should.
LEMMA TextKeeps ==
    ASSUME TextInv, LoaderNext
    PROVE  TextInv'
<1>1. CASE Find \/ NotFound \/ LoadFails \/ ShimFails
  BY <1>1, TextStays DEF Find, NotFound, LoadFails, ShimFails, Fail, Step
<1>2. CASE Relocate \/ Resolve
  BY <1>2, TextStays DEF Relocate, Resolve, Step
<1>3. CASE NoPatch
  BY <1>3, TextStays DEF NoPatch, Step, Patches
<1>4. CASE Construct
  BY <1>4, TextStays DEF Construct, Step, Running
<1>5. CASE Finalize \/ FindEntry \/ ShimInit
  BY <1>5, TextStays DEF Finalize, FindEntry, ShimInit, Step, Running
<1> QED BY <1>1, <1>2, <1>3, <1>4, <1>5, LoadText, HookText, PatchText DEF LoaderNext

\* What the text is at each stage, for any library and any hooks.
THEOREM TextInvariance == Spec => []TextInv
<1>1. Init => TextInv
  BY DEF Init, LoaderInit, TextInv, Running
<1>2. TextInv /\ [Next]_vars => TextInv'
  <2> SUFFICES ASSUME TextInv, [Next]_vars PROVE TextInv'
    OBVIOUS
  <2>1. CASE Boot
    BY <2>1, TextKeeps DEF Boot
  <2>2. CASE Life \/ UNCHANGED vars
    <3>1. UNCHANGED <<stage, policy, image, text>>
      BY <2>2 DEF Life, vars, loaderVars
    <3> QED BY <3>1, TextStays
  <2> QED BY <2>1, <2>2 DEF Next
<1> QED BY <1>1, <1>2, PTL DEF Spec

-----------------------------------------------------------------------------
(***************************************************************************)
(* What that means for the text that runs.                                 *)
(***************************************************************************)

\* The hooks of one address, and the last of them.
Same(h) == {g \in Found : FindAddr(AllHooks[g].name) = FindAddr(AllHooks[h].name)}

LEMMA FoundIs ==
    /\ AfterBundle \in Nat /\ Found \subseteq 1 .. AfterBundle
    /\ \A h, i : h \in Covering(AfterBundle, i) <=> h \in Found /\ Covers(h, i)
    /\ DOMAIN text = DOMAIN image.text =>
          \A h, i : i \in Body(h) /\ h \in Found <=> i \in DOMAIN image.text /\ h \in Covering(AfterBundle, i)
<1>1. AfterBundle \in Nat /\ DOMAIN AllHooks = 1 .. AfterBundle
  BY GroupsAre DEF AfterBundle
<1>2. \A h, i : h \in Covering(AfterBundle, i) <=> h \in Found /\ Covers(h, i)
  BY <1>1 DEF Covering, Found, Covers
<1>3. \A h, i : i \in Body(h) /\ h \in Found <=> i \in DOMAIN text /\ h \in Found /\ Covers(h, i)
  BY DEF Body, Covers, Found
<1> QED BY <1>1, <1>2, <1>3 DEF Found

\* If hooked functions are apart, the hooks that replace a word are those of one address.
LEMMA CoveringIs ==
    ASSUME Apart, DOMAIN text = DOMAIN image.text, NEW h \in Found, NEW i \in Body(h)
    PROVE  Covering(AfterBundle, i) = Same(h)
<1>1. ASSUME NEW g \in Covering(AfterBundle, i) PROVE g \in Same(h)
  <2>1. g \in Found /\ i \in Body(g)
    BY <1>1, FoundIs DEF Body
  <2> QED BY <2>1 DEF Apart, Same
<1>2. ASSUME NEW g \in Same(h) PROVE g \in Covering(AfterBundle, i)
  <2>1. g \in Found /\ i \in Body(g)
    BY <1>2 DEF Same, Body
  <2> QED BY <2>1, FoundIs
<1> QED BY <1>1, <1>2

\* No word of a hook is a call; none is a jump if its literals are not.
LEMMA HookWordIs ==
    ASSUME NEW k, NEW f
    PROVE  /\ HookWord(k, f) # CallFail
           /\ image.low[f] = 0 => Offset(HookWord(k, f)) = 0
<1>1. HookWord(k, f).op \in {"ldr", "br", "high"} \/ HookWord(k, f) = [op |-> "low", of |-> f]
  BY DEF HookWord
<1>2. CallFail.op = "call"
  BY DEF CallFail
<1> QED BY <1>1, <1>2 DEF Offset

\* Between the last hook and the first call the text is as it should be.
LEMMA TextInvImplies == TextInv => TextAsIntended
<1> SUFFICES ASSUME TextInv, stage \in Running, Apart, NoLiteralJumps PROVE
        /\ \A h \in Found : \E g \in Found :
              /\ g >= h /\ FindAddr(AllHooks[g].name) = FindAddr(AllHooks[h].name)
              /\ \A i \in Body(h) : text[i] = HookWord(i - FindAddr(AllHooks[h].name), AllHooks[g].to)
        /\ \A i \in DOMAIN text \ UNION {Body(h) : h \in Found} :
              \/ text[i] = image.text[i]
              \/ /\ text[i] = Nop
                 /\ image.text[i].op = "jump"
                 /\ image.text[i + image.text[i].by] = CallFail
        /\ policy.patch /\ Len(text) >= 4 => \A i \in DOMAIN text : ~JumpsToFail(i)
  BY DEF TextAsIntended, Running
<1> DEFINE n == AfterBundle
<1>1. image \in Images /\ PatchedIs(n) /\ (Patches => \A i \in DOMAIN text : ~JumpsToFail(i))
  BY DEF TextInv
<1>2. DOMAIN text = DOMAIN image.text
  BY <1>1 DEF PatchedIs
<1>3. ASSUME NEW h \in Found
      PROVE  \E g \in Found :
              /\ g >= h /\ FindAddr(AllHooks[g].name) = FindAddr(AllHooks[h].name)
              /\ \A i \in Body(h) : text[i] = HookWord(i - FindAddr(AllHooks[h].name), AllHooks[g].to)
  <2> DEFINE g == LastHook(Same(h))
  <2>1. h \in Same(h) /\ Same(h) \subseteq Found
    BY DEF Same
  <2>2. g \in Same(h) /\ \A k \in Same(h) : k <= g
    <3>1. n \in Nat /\ Same(h) \in SUBSET (1 .. n) /\ Same(h) # {}
      BY <2>1, FoundIs
    <3> QED BY <3>1, LastIs
  <2>3. g \in Found /\ FindAddr(AllHooks[g].name) = FindAddr(AllHooks[h].name)
    BY <2>2 DEF Same
  <2>4. h \in 1 .. n /\ g \in 1 .. n /\ h <= g
    BY <2>1, <2>2, <2>3, FoundIs
  <2>5. g >= h
    BY <2>4, FoundIs
  <2>6. ASSUME NEW i \in Body(h)
        PROVE  text[i] = HookWord(i - FindAddr(AllHooks[h].name), AllHooks[g].to)
    <3>1. WordAt(n, i) = WordOf(g, i)
      BY <1>2, <2>1, CoveringIs DEF WordAt
    <3>2. WordAt(n, i) = HookWord(i - FindAddr(AllHooks[h].name), AllHooks[g].to)
      BY <2>3, <3>1 DEF WordOf
    <3>3. Offset(WordAt(n, i)) = 0
      BY <2>3, <3>2, HookWordIs DEF NoLiteralJumps
    <3>4. i \in DOMAIN image.text
      BY <1>2 DEF Body
    <3> QED BY <1>1, <3>2, <3>3, <3>4 DEF PatchedIs, Unless
  <2> HIDE DEF g
  <2> QED BY <2>3, <2>5, <2>6
<1>4. ASSUME NEW i \in DOMAIN text \ UNION {Body(h) : h \in Found}
      PROVE  \/ text[i] = image.text[i]
             \/ /\ text[i] = Nop
                /\ image.text[i].op = "jump"
                /\ image.text[i + image.text[i].by] = CallFail
  <2> DEFINE w == image.text[i]
  <2>1. Covering(n, i) = {} /\ i \in DOMAIN image.text
    BY <1>2, FoundIs
  <2>2. WordAt(n, i) = w
    BY <2>1 DEF WordAt
  <2>3. text[i] = w \/ Unless(n, i)
    BY <1>1, <2>1, <2>2 DEF PatchedIs
  <2>4. CASE Unless(n, i)
    <3>1. /\ text[i] = Nop /\ Offset(w) # 0 /\ i + Offset(w) \in DOMAIN image.text
          /\ WordAt(n, i + Offset(w)) = CallFail
      BY <2>2, <2>4 DEF Unless
    <3>2. w.op \in {"plain", "nop", "call", "jump"}
      BY <1>1, <2>1, ImagesAssumption
    <3>3. w.op = "jump" /\ Offset(w) = w.by
      BY <3>1, <3>2 DEF Offset
    <3>4. image.text[i + w.by] = CallFail
      BY <3>1, <3>3, HookWordIs DEF WordAt, WordOf
    <3> QED BY <3>1, <3>3, <3>4
  <2> QED BY <2>3, <2>4
<1> QED BY <1>1, <1>3, <1>4 DEF Patches

\* The text that runs is the file's but for what the hooks and the canary patch mean to
\* change, whatever library is loaded and whichever functions are hooked
\* (so_util.c:42-49, 366-437, main.c:273-463).
THEOREM TextIsIntended == Spec => []TextAsIntended
BY TextInvariance, TextInvImplies, PTL
=============================================================================
