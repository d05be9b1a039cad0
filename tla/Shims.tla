-------------------------------- MODULE Shims --------------------------------
(***************************************************************************)
(* The four small shims side by side.  They share nothing but their        *)
(* callers, so that a behaviour of this module exercises one of them.      *)
(***************************************************************************)
EXTENDS JniStrings, EglContexts, Allocator, Assets

VARIABLE shim

vars == <<shim, jniVars, eglVars, allocVars, assetVars>>

Init ==
    /\ shim \in {"jni", "egl", "bionic", "asset"}
    /\ JniInit /\ EglInit /\ AllocInit /\ AssetInit

Next ==
    /\ UNCHANGED shim
    /\ \/ shim = "jni" /\ JniNext /\ UNCHANGED <<eglVars, allocVars, assetVars>>
       \/ shim = "egl" /\ EglNext /\ UNCHANGED <<jniVars, allocVars, assetVars>>
       \/ shim = "bionic" /\ AllocNext /\ UNCHANGED <<jniVars, eglVars, assetVars>>
       \/ shim = "asset" /\ AssetNext /\ UNCHANGED <<jniVars, eglVars, allocVars>>

Spec == Init /\ [][Next]_vars

ShimsTypeOK == JniTypeOK /\ EglTypeOK /\ AllocTypeOK /\ AssetTypeOK
=============================================================================
