------------------------------- MODULE Program -------------------------------
(***************************************************************************)
(* The whole of main: the loader, and when it reaches onCreate the life of *)
(* the activity.                                                           *)
(***************************************************************************)
EXTENDS Loader, Lifecycle

vars == <<loaderVars, lifeVars>>

Init == LoaderInit /\ LifecycleInit

Boot == LoaderNext /\ UNCHANGED lifeVars

\* onCreate is code of the library; the engine's other threads may run it later still.
Life == stage = "create" /\ LifecycleNext /\ UNCHANGED loaderVars

Next == Boot \/ Life

Spec == Init /\ [][Next]_vars

\* main goes on until it fails, and the kernel runs both threads.
Fairness ==
    /\ WF_vars(Boot)
    /\ WF_vars(stage = "create" /\ ~exited /\ MainStep /\ UNCHANGED loaderVars)
    /\ WF_vars(stage = "create" /\ ~exited /\ EngineStep /\ UNCHANGED loaderVars)
FairSpec == Spec /\ Fairness

-----------------------------------------------------------------------------

ProgramTypeOK == LoaderTypeOK /\ LifecycleTypeOK

Ended == exited \/ stage \in {"failed", "crashed"}

\* Every run reaches the main loop unless booting fails or the player asks to quit
\* before: then the engine may obey while main waits for it, or g_app's handler may
\* answer in place of the glue's, and main waits for ever (main.c:236-521,
\* android_shim.c:98-103, 118-162).
StartsOrQuits == <>(Looping \/ Ended \/ asked.early)
=============================================================================
