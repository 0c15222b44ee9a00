---------------------------- MODULE PausableClock ----------------------------
(***************************************************************************)
(* What a waiting period promises: a clock of Days units that runs down     *)
(* only while it is not paused, and a period that is over only when the     *)
(* clock has run down.                                                      *)
(***************************************************************************)
EXTENDS Integers

CONSTANT Days

VARIABLES remaining, running, over

clockVars == <<remaining, running, over>>

Init == remaining = Days /\ running = FALSE /\ over = FALSE

Run == ~running /\ ~over /\ running' = TRUE /\ UNCHANGED <<remaining, over>>

Pause == running /\ ~over /\ running' = FALSE /\ UNCHANGED <<remaining, over>>

Elapse ==
    /\ running /\ remaining > 0
    /\ remaining' = remaining - 1
    /\ UNCHANGED <<running, over>>

Finish == running /\ remaining = 0 /\ over' = TRUE /\ UNCHANGED <<remaining, running>>

Next == Run \/ Pause \/ Elapse \/ Finish

Spec == Init /\ [][Next]_clockVars
=============================================================================
