------------------------- MODULE MCSstvTxLifecycle -------------------------
EXTENDS SstvTxLifecycle

\* The order of the budgets is the code's: waiting and releasing are the long
\* ones; the values are the shortest that keep a step short of, at and past it.
MCTimeout ==
    [state \in TimedStates |->
        IF state \in {"WaitingForPtt", "ReleasingPtt"} THEN 2 ELSE 1]
=============================================================================
