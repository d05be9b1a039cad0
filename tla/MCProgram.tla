------------------------------ MODULE MCProgram ------------------------------
(***************************************************************************)
(* Small libraries for TLC.  Their text has two functions to hook, the     *)
(* second at word g, a jump to __stack_chk_fail inside the first and one   *)
(* outside; their relocations are of every kind.                           *)
(***************************************************************************)
EXTENDS Program

SomeLicense == <<[name |-> "isLegal", to |-> "ret1"], [name |-> "exit", to |-> "ret0"]>>
SomePlayCore == <<[name |-> "isLegal", to |-> "init"]>>
SomeBundle == <<[name |-> "absent", to |-> "ret1"]>>

Table == <<[symbol |-> "libdl", func |-> None], [symbol |-> "free", func |-> "bionic_free"],
           [symbol |-> "free", func |-> "second"], [symbol |-> "isLegal", func |-> "foreign"]>>
Host == {"free", "libdl", "poll"}

NoJumps == [f \in {"ret0", "ret1", "init"} |-> 0]
LowJump == [NoJumps EXCEPT !["init"] = 7]

R(type, slot, sym, addend) == [type |-> type, slot |-> slot, sym |-> sym, addend |-> addend]

Library(g, aligned, entry, low) ==
    [aligned |-> aligned, low |-> low,
     text |-> [i \in 1 .. 10 |->
                IF i = 2 THEN JumpBy(8) ELSE IF i = 9 THEN JumpBy(1)
                ELSE IF i = 10 THEN CallFail ELSE Plain],
     syms |-> <<[name |-> "isLegal", at |-> 1], [name |-> "exit", at |-> g],
                [name |-> "free", at |-> None], [name |-> "poll", at |-> None],
                [name |-> "libdl", at |-> None], [name |-> "absent", at |-> None],
                [name |-> entry, at |-> 9]>>,
     rela |-> <<R("RELATIVE", 1, 0, 9), R("ABS64", 2, 4, 8), R("GLOB_DAT", 3, 1, 0),
                R("ABS64", 4, 3, 16), R("JUMP_SLOT", 5, 5, 0), R("JUMP_SLOT", 6, 6, 0),
                R("JUMP_SLOT", 7, 1, 0)>>,
     data |-> [s \in 1 .. 8 |-> IF s = 8 THEN <<"minus one">> ELSE <<"null">>],
     init |-> <<1, 8>>]

SomeImages ==
    LET onCreate == "ANativeActivity_onCreate" IN
    {Library(g, TRUE, onCreate, NoJumps) : g \in {1, 3, 5}}
        \cup {Library(5, FALSE, onCreate, NoJumps), Library(5, TRUE, "main", LowJump)}
=============================================================================
