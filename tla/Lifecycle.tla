------------------------------ MODULE Lifecycle ------------------------------
(***************************************************************************)
(* What a service supervisor promises about the one service it looks       *)
(* after: at most one program of the service exists at a time; a run of    *)
(* ./run that ended is followed by one run of ./finish (when there is one  *)
(* that can be started) before the next ./run; and the supervisor leaves   *)
(* only when the service is down.  It is the abstract specification of     *)
(* runsv and of s6-supervise.                                              *)
(***************************************************************************)

CONSTANTS
  FinishFile,    \* outcomes of looking for ./finish, a set of BOOLEANs
  FinishMayFail  \* starting ./finish may fail, and is then given up

VARIABLES
  phase,   \* "down", "run" (./run exists), "ended" (./finish is due), "finish"
  gone     \* the supervisor has exited

vars == <<phase, gone>>

Phases == {"down", "run", "ended", "finish"}

TypeOK == phase \in Phases /\ gone \in BOOLEAN

Init == phase = "down" /\ gone = FALSE

-----------------------------------------------------------------------------

Move(from, to) ==
  /\ ~gone
  /\ phase = from
  /\ phase' = to
  /\ UNCHANGED gone

StartRun == Move("down", "run")

RunEnds == \E f \in FinishFile : Move("run", IF f THEN "ended" ELSE "down")

StartFinish == Move("ended", "finish")

SkipFinish == FinishMayFail /\ Move("ended", "down")

FinishEnds == Move("finish", "down")

Leave ==
  /\ ~gone
  /\ phase = "down"
  /\ gone' = TRUE
  /\ UNCHANGED phase

Next == StartRun \/ RunEnds \/ StartFinish \/ SkipFinish \/ FinishEnds \/ Leave

Spec == Init /\ [][Next]_vars

=============================================================================
