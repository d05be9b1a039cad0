----------------------------- MODULE JniStrings -----------------------------
(***************************************************************************)
(* src/jni_shim.c: a Java VM of constants.  All it remembers are strings,  *)
(* in a ring of MAX_JSTRINGS that no lock protects: a jstring names a      *)
(* place in the ring, and so does what GetStringUTFChars returns.          *)
(*                                                                         *)
(* make_jstring is three steps: it loads the counter, stores counter and   *)
(* handle, and copies the characters. A text is what fits in 1023 bytes.   *)
(***************************************************************************)
EXTENDS Callers, Integers

CONSTANTS
    MAX_JSTRINGS,
    Texts,              \* strings the game makes
    MaxStrings          \* bound: strings ever made

ASSUME JniAssumption == MAX_JSTRINGS \in Nat \ {0} /\ MaxStrings \in Nat

VARIABLES
    g_jstrings,         \* the ring: [handle, value]
    g_jstring_count,
    making,             \* where each thread is in make_jstring
    began,              \* strings begun so far
    held                \* the jstrings the game was given: with its place in the
                        \* ring, what the string was, its number, and whether no
                        \* other thread was making one at any time it was made

jniVars == <<g_jstrings, g_jstring_count, making, began, held>>

-----------------------------------------------------------------------------

Places == 0 .. MAX_JSTRINGS - 1
Strings == Texts \cup {"", "package", "gamedir", "torn"}

NotMaking == [at |-> "idle", idx |-> 0, count |-> 0, value |-> "", nth |-> 0, alone |-> TRUE]

JniTypeOK ==
    /\ g_jstrings \in [Places -> [handle : Places \cup {None}, value : Strings]]
    /\ g_jstring_count \in 0 .. MaxStrings
    /\ making \in [Threads -> [at : {"idle", "store", "copy"}, idx : Places, count : Nat,
                               value : Strings, nth : Nat, alone : BOOLEAN]]
    /\ began \in 0 .. MaxStrings
    /\ held \in SUBSET [jstr : Places, value : Strings, nth : 1 .. MaxStrings, alone : BOOLEAN]

JniInit ==
    /\ g_jstrings = [i \in Places |-> [handle |-> None, value |-> ""]]
    /\ g_jstring_count = 0
    /\ making = [t \in Threads |-> NotMaking]
    /\ began = 0 /\ held = {}

-----------------------------------------------------------------------------

\* Mutant: the counter itself is the index.
IndexUnbounded(count) == count

\* Mutant: the ring wraps one place early.
IndexEarly(count) == count % (MAX_JSTRINGS - 1)

Index(count) == count % MAX_JSTRINGS

MakeLoad(t, v) ==
    /\ making[t].at = "idle" /\ began < MaxStrings
    /\ began' = began + 1
    /\ LET others == {u \in Threads \ {t} : making[u].at # "idle"} IN
         making' = [u \in Threads |->
                      IF u = t
                        THEN [at |-> "store", idx |-> Index(g_jstring_count),
                              count |-> g_jstring_count, value |-> v, nth |-> began + 1,
                              alone |-> others = {}]
                      ELSE IF u \in others THEN [making[u] EXCEPT !.alone = FALSE] ELSE making[u]]
    /\ UNCHANGED <<g_jstrings, g_jstring_count, held>>

\* While the characters are copied a reader finds some of each string.
MakeStore(t) ==
    /\ making[t].at = "store"
    /\ g_jstring_count' = making[t].count + 1
    /\ g_jstrings' = [g_jstrings EXCEPT ![making[t].idx] =
                        [handle |-> making[t].idx, value |-> "torn"]]
    /\ making' = [making EXCEPT ![t].at = "copy"]
    /\ UNCHANGED <<began, held>>

MakeCopy(t) ==
    LET m == making[t] IN
    /\ m.at = "copy"
    /\ \E v \in {m.value, "torn"} :
          /\ v = "torn" => \E u \in Threads \ {t} : making[u].at = "copy" /\ making[u].idx = m.idx
          /\ g_jstrings' = [g_jstrings EXCEPT ![m.idx].value = v]
    /\ held' = held \cup {[jstr |-> m.idx, value |-> m.value, nth |-> m.nth, alone |-> m.alone]}
    /\ making' = [making EXCEPT ![t] = NotMaking]
    /\ UNCHANGED <<g_jstring_count, began>>

Resolve(jstr) ==
    IF \E i \in Places : g_jstrings[i].handle = jstr
      THEN g_jstrings[CHOOSE i \in Places : g_jstrings[i].handle = jstr].value
      ELSE ""

-----------------------------------------------------------------------------
(***************************************************************************)
(* The functions of the vtable.                                            *)
(***************************************************************************)

\* The names that stub_method tells apart.
MethodNames ==
    {"getInstance", "getContext", "getSharedPreferences", "edit", "putString", "putInt",
     "putBoolean", "apply", "commit", "getString", "getInt", "getBoolean",
     "getDefaultDisplay", "getMetrics", "getPackageName", "getPackageManager",
     "getPackageInfo", "isLegal", "getAssetPackLocation", "assetsPath",
     "addOnCompleteListener", "addOnSuccessListener", "addOnFailureListener",
     "getClassLoader", "loadClass", "toByteArray"}

\* stub_method: getActivity and unknown names are taken for getInstance.
StubMethod(name) ==
    IF name = "getRealMetrics" THEN "getMetrics"
    ELSE IF name \in MethodNames THEN name ELSE "getInstance"

Names == MethodNames \cup {"getActivity", "getRealMetrics"}

\* The vtable has NewStringUTF for NewString too: of UTF-16 it keeps the first letter.
NewStringUTF(t) == \E v \in Texts : MakeLoad(t, v)

\* Strings are made anew by each call; any other method answers a constant.
StringOf(mid) == IF mid = "getPackageName" THEN "package" ELSE IF mid = "assetsPath" THEN "gamedir" ELSE ""

CallObjectMethod(t, name) ==
    IF StubMethod(name) \in {"getPackageName", "getString", "assetsPath"}
      THEN MakeLoad(t, StringOf(StubMethod(name)))
      ELSE making[t].at = "idle" /\ UNCHANGED jniVars

CallStaticObjectMethod(t, name) ==
    IF StubMethod(name) = "getPackageName"
      THEN MakeLoad(t, "package")
      ELSE making[t].at = "idle" /\ UNCHANGED jniVars

\* Classes, fields and their values, other methods, references, frames and the VM:
\* answered by constants, whatever the object; 0 where the vtable has nothing better.
FindClass(t) == making[t].at = "idle" /\ UNCHANGED jniVars
GetField(t) == making[t].at = "idle" /\ UNCHANGED jniVars
CallMethod(t) == making[t].at = "idle" /\ UNCHANGED jniVars
GetStringUTFChars(t) == making[t].at = "idle" /\ UNCHANGED jniVars
KeepReference(t) == making[t].at = "idle" /\ UNCHANGED jniVars

JniNext ==
    \E t \in Threads :
        \/ MakeStore(t) \/ MakeCopy(t)
        \/ NewStringUTF(t)
        \/ \E name \in Names : CallObjectMethod(t, name) \/ CallStaticObjectMethod(t, name)
        \/ FindClass(t) \/ GetField(t) \/ CallMethod(t) \/ GetStringUTFChars(t)
        \/ KeepReference(t)

-----------------------------------------------------------------------------

\* A jstring reads as the string it was made from as long as fewer than MAX_JSTRINGS
\* were begun since, provided no other thread was making one while it was made: races
\* among other strings, even lost counts, do no harm to it (jni_shim.c:27-45).
HeldStrings ==
    \A h \in held : h.alone /\ began - h.nth < MAX_JSTRINGS => Resolve(h.jstr) = h.value
=============================================================================
