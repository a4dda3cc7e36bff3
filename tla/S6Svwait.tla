------------------------------ MODULE S6Svwait ------------------------------
(***************************************************************************)
(* s6-svwait(1) for one service, together with the s6-supervise it waits   *)
(* for: it subscribes to the events, reads the status file once, and then  *)
(* believes the events.  s6-ftrigrd, which stands between the fifodir and  *)
(* s6-svwait, is taken to pass events on in order; without FTRIGR_REPEAT   *)
(* it ends the subscription with the first.                                *)
(***************************************************************************)
EXTENDS S6Supervise

CONSTANTS
  WantUps,     \* -u or -d: a subset of BOOLEAN
  Repeats      \* FTRIGR_REPEAT: not with -a and -o

ASSUME S6SvwaitAssumption ==
  WantUps \subseteq BOOLEAN /\ Repeats \subseteq BOOLEAN

VARIABLES
  wait,        \* s6-svwait's variables
  seen,        \* history: whether the service was up since the subscription
  misread      \* history: the status read was that of ./finish

wvars == <<wait, seen, misread>>

\* step counts what has been done of WaitOrder; then the loop goes on until the
\* answer is given.  up is the bit of states.
Wait == [step : 0 .. 2, answered : BOOLEAN, up : BOOLEAN, wantup : BOOLEAN,
         repeat : BOOLEAN]

WaitInit ==
  /\ Init
  /\ \E wantup \in WantUps, repeat \in Repeats :
       wait = [step |-> 0, answered |-> FALSE, up |-> FALSE,
               wantup |-> wantup, repeat |-> repeat]
  /\ seen = {} /\ misread = FALSE

-----------------------------------------------------------------------------

\* Slip: the status is read before the subscription.
WaitOrderReadFirst == <<"read", "subscribe">>

WaitOrder == <<"subscribe", "read">>

Todo(what) == wait.step < 2 /\ WaitOrder[wait.step + 1] = what

Subscribe ==
  /\ Todo("subscribe")
  /\ wait' = [wait EXCEPT !.step = @ + 1]
  /\ listening' = TRUE
  /\ UNCHANGED <<events, misread>>

\* Slip: what the service should be is taken for what it is.
ReadStatusWanted ==
  /\ Todo("read")
  /\ wait' = [wait EXCEPT !.step = @ + 1, !.up = sup.shown.want = "up"]
  /\ misread' = FALSE
  /\ UNCHANGED <<listening, events>>

ReadStatus ==
  /\ Todo("read")
  /\ wait' = [wait EXCEPT !.step = @ + 1, !.up = sup.shown.pid # NoPid]
  /\ misread' = (sup.shown.pid # NoPid /\ sup.shown.finishing)
  /\ UNCHANGED <<listening, events>>

\* check(): for one service, whether it is as wanted.
Answer ==
  /\ wait.step = 2 /\ ~wait.answered
  /\ wait.up = wait.wantup
  /\ wait' = [wait EXCEPT !.answered = TRUE]
  /\ listening' = FALSE /\ events' = <<>>
  /\ UNCHANGED misread

\* ftrigr_update() and ftrigr_check(): of the events that have come the last, or
\* the first without FTRIGR_REPEAT.
Heard(es, up) ==
  LET told == {i \in 1 .. Len(es) : es[i] \in {"u", "d"}}
  IN  \/ told = {} /\ up = wait.up
      \/ \E i \in told : /\ \A j \in told : IF wait.repeat THEN j <= i ELSE i <= j
                         /\ up = (es[i] = "u")

Hear ==
  /\ wait.step = 2 /\ ~wait.answered
  /\ wait.up # wait.wantup
  /\ \E n \in 1 .. Len(events), up \in BOOLEAN :
       LET es == SubSeq(events, 1, n)
           over == ~wait.repeat /\ \E i \in 1 .. n : es[i] \in {"u", "d"}
       IN  /\ Heard(es, up)
           /\ wait' = [wait EXCEPT !.up = up]
           /\ listening' = (listening /\ ~over)
           /\ events' = IF over THEN <<>>
                        ELSE SubSeq(events, n + 1, Len(events))
  /\ UNCHANGED misread

Waits ==
  /\ Subscribe \/ ReadStatus \/ Answer \/ Hear
  /\ UNCHANGED <<pc, sup, procs, fifo, pending, sent, faults>>

WaitNext ==
  /\ \/ Next /\ UNCHANGED <<wait, misread>>
     \/ Waits
  /\ seen' = IF wait'.step = 0 \/ wait'.answered THEN seen
             ELSE seen \cup {Running, Running'}

WaitSpec == WaitInit /\ [][WaitNext]_<<vars, wvars>>

\* s6-svwait may be started late or never; once started it goes on.
WaitFairSpec ==
  WaitSpec /\ Fairness /\ WF_<<vars, wait, misread>>(wait.step > 0 /\ Waits)

-----------------------------------------------------------------------------

\* When s6-svwait exits 0 the service was as wanted at some time since it was
\* started, unless it took the pid of ./finish for that of ./run.
WaitTrue == wait.answered /\ ~misread => wait.wantup \in seen

\* s6-svwait exits when the service comes to be and to stay as wanted, unless
\* it took the pid of ./finish for that of ./run.
WaitEnds ==
  <>[](wait.step > 0 /\ Running = wait.wantup) => <>(wait.answered \/ misread)

=============================================================================
