--------------------------- MODULE SstvTxPromise ---------------------------
(***************************************************************************)
(* What an SSTV transmission promises the station, with no event, timer or *)
(* hook left in it.  A session that asked a radio for its PTT is "keyed"   *)
(* and gives the channel back only through "releasing", where it owes an   *)
(* outcome that can get worse and never better, and which is what it is    *)
(* finally said to have been.  A session without a radio is "open" and     *)
(* just ends.                                                              *)
(***************************************************************************)

VARIABLES
    phase,      \* "off", "free", "open", "keyed" or "releasing"
    owed,       \* the outcome behind the barrier, or "None"
    verdict     \* what the last session came to, or "None"

vars == <<phase, owed, verdict>>

Outcomes == {"Completed", "Cancelled", "Error", "Disabled"}

Init == phase = "off" /\ owed = "None" /\ verdict = "None"

\* Where a session that has come to outcome, with no radio to release, ends
Over(outcome) ==
    /\ phase' = IF outcome = "Disabled" THEN "off" ELSE "free"
    /\ verdict' = IF outcome = "Disabled" THEN "None" ELSE outcome
    /\ owed' = "None"

TurnOn ==
    phase = "off" /\ phase' = "free" /\ UNCHANGED <<owed, verdict>>

\* A session begins, and may fail before the call that begins it is over; the
\* same call first lets the clock end an open session whose time is up
Begin ==
    /\ phase \in {"free", "open"}
    /\ \/ phase' \in {"open", "keyed"} /\ owed' = "None" /\ verdict' = "None"
       \/ phase' = "releasing" /\ owed' = "Error" /\ verdict' = "None"
       \/ Over("Error")

Finish == phase = "open" /\ \E outcome \in Outcomes : Over(outcome)

Close ==
    /\ phase = "keyed"
    /\ phase' = "releasing" /\ owed' \in Outcomes
    /\ UNCHANGED verdict

Worsen ==
    /\ phase = "releasing" /\ owed # "Disabled"
    /\ owed' \in {"Error", "Disabled"}
    /\ UNCHANGED <<phase, verdict>>

\* The radio is known to be released
Release == phase = "releasing" /\ Over(owed)

\* A broken clock, or the end of the program, between two sessions
Spoil == phase = "free" /\ \E outcome \in {"Error", "Disabled"} : Over(outcome)

Next == TurnOn \/ Begin \/ Finish \/ Close \/ Worsen \/ Release \/ Spoil

Spec == Init /\ [][Next]_vars
=============================================================================
