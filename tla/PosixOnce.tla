------------------------------ MODULE PosixOnce ------------------------------
(***************************************************************************)
(* What pthread_once promises: the routine of a control runs once, and no  *)
(* call on the control returns before the routine has ended.               *)
(***************************************************************************)
EXTENDS Naturals

CONSTANTS Threads, Onces

VARIABLES
    runs,      \* how often the routine of each control was started
    ended,     \* the controls whose routine has ended
    returned   \* returned[t]: the controls t has a returned call on

onceVars == <<runs, ended, returned>>

Init ==
    /\ runs = [c \in Onces |-> 0]
    /\ ended = {}
    /\ returned = [t \in Threads |-> {}]

Start(c) ==
    /\ runs[c] = 0
    /\ runs' = [runs EXCEPT ![c] = 1]
    /\ UNCHANGED <<ended, returned>>

End(c) ==
    /\ runs[c] = 1 /\ c \notin ended
    /\ ended' = ended \cup {c}
    /\ UNCHANGED <<runs, returned>>

Return(t, c) ==
    /\ c \in ended
    /\ returned' = [returned EXCEPT ![t] = @ \cup {c}]
    /\ UNCHANGED <<runs, ended>>

Next == \E c \in Onces : Start(c) \/ End(c) \/ \E t \in Threads : Return(t, c)

Spec == Init /\ [][Next]_onceVars
=============================================================================
