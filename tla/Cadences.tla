------------------------------ MODULE Cadences ------------------------------
(***************************************************************************)
(* What the program promises of its two cadences, whatever the intervals:  *)
(* it gives up, or it refreshes the configuration once before anything     *)
(* else and then refreshes and polls again and again, one at a time, until *)
(* it is told to stop.  Module Main shows that the start-up and the two    *)
(* timers keep that promise; module Supervisor relies on it as its         *)
(* fairness.                                                               *)
(***************************************************************************)
VARIABLES
    phase,     \* what the loop is doing
    stopping   \* it was told to stop

cadenceVars == <<phase, stopping>>

Activities == {"refresh", "poll"}

CadencesInit == phase = "start" /\ stopping = FALSE

\* A signal may end the start.
Enter ==
    /\ phase = "start"
    /\ phase' \in {"refresh", "over"}
    /\ stopping' \in {stopping, TRUE}

Begin(activity) ==
    /\ phase = "select"
    /\ phase' = activity
    /\ UNCHANGED stopping

End ==
    /\ phase \in Activities
    /\ phase' = "select"
    /\ UNCHANGED stopping

Stop ==
    /\ ~stopping
    /\ stopping' = TRUE
    /\ UNCHANGED phase

Leave ==
    /\ phase = "select"
    /\ stopping
    /\ phase' = "over"
    /\ UNCHANGED stopping

CadencesNext ==
    \/ Enter
    \/ \E activity \in Activities : Begin(activity)
    \/ End \/ Stop \/ Leave

CadencesSpec ==
    /\ CadencesInit /\ [][CadencesNext]_cadenceVars
    /\ WF_cadenceVars(Enter)
    /\ WF_cadenceVars(End)
    /\ SF_cadenceVars(Leave)
    /\ \A activity \in Activities : SF_cadenceVars(Begin(activity))
=============================================================================
