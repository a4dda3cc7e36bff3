---------------------------- MODULE S6Supervise ----------------------------
(***************************************************************************)
(* s6-supervise(8): one process that starts and monitors one service.      *)
(*                                                                         *)
(* The program is a table: the state of the service and what has happened, *)
(* a timeout, a signal or a byte of supervise/control, name the action.    *)
(* The module keeps the table and has one operator per action.  The loop   *)
(* is split where the world can get in between: iopause, each signal taken *)
(* from the self pipe, each byte read, the event sent after the status     *)
(* file has been written, and the fork of ./finish.                        *)
(*                                                                         *)
(* Other programs learn of the service from the status file and from the   *)
(* events sent to the fifodir event/ (module S6Svwait listens to them).    *)
(*                                                                         *)
(* External: the self pipe of skalibs, taken to keep each signal once      *)
(* until it is read, in any order.                                         *)
(***************************************************************************)
EXTENDS Naturals, Sequences, FiniteSets

CONSTANTS
  Pids,        \* the process ids fork() may return
  NoPid,       \* pid 0: no process
  Wstat,       \* a wait status, which main() puts into status.pid
  Cmds,        \* the bytes written to supervise/control
  Signals,     \* the signals sent to s6-supervise
  Faults,      \* what may fail: "fork", and "exec" of ./run
  MaxFaults,   \* bound: how often
  MaxCmds,     \* bound: bytes and signals ever sent to s6-supervise
  MaxEvents,   \* bound: no program ends while so many events are unread
  BootWants    \* want after looking for ./down: a subset of {"up", "down"}

\* "h" stands for a, b, q, h, i, 1 and 2, which only forward a signal; f and F
\* do nothing.
AllCmds == {"h", "k", "t", "p", "c", "o", "d", "u", "x", "O"}

ASSUME S6SuperviseAssumption ==
  /\ NoPid \notin Pids /\ Wstat \notin Pids \cup {NoPid}
  /\ Cmds \subseteq AllCmds
  /\ Signals \subseteq {"TERM", "HUP", "QUIT"}
  /\ Faults \subseteq {"fork", "exec"}
  /\ MaxFaults \in Nat /\ MaxCmds \in Nat /\ MaxEvents \in Nat \ {0}
  /\ BootWants \subseteq {"up", "down"} /\ BootWants # {}

VARIABLES
  pc,          \* where main()'s loop is
  sup,         \* the variables of s6-supervise and its status file
  procs,       \* its children
  fifo,        \* bytes waiting in supervise/control
  pending,     \* signals waiting in the self pipe
  listening,   \* somebody has a fifo in event/
  events,      \* events sent there and not read
  sent, faults \* counters of the bounded events

vars == <<pc, sup, procs, fifo, pending, listening, events, sent, faults>>

Places == {"pause", "signals", "control", "finish", "exited"}

States == {"DOWN", "UP", "FINISH", "LASTUP", "LASTFINISH"}

\* want is flagwant and flagwantup: "none" when flagwant is 0.
Status(pids) ==
  [pid : pids \cup {NoPid}, want : {"up", "down", "none"},
   paused : BOOLEAN, finishing : BOOLEAN]

\* shown is the status file, armed a finite deadline, due an event that the
\* code after an announce() is about to send.
Sup == [cont : BOOLEAN, state : States, status : Status(Pids \cup {Wstat}),
        shown : Status(Pids), armed : BOOLEAN, due : {"none", "u", "d"}]

\* prog "none" is a child whose execve failed; sig holds the TERM and KILL
\* signals the process has been sent.
Proc == [prog : {"none", "run", "finish"},
         st : {"free", "live", "stopped", "zombie"},
         sig : SUBSET {"TERM", "KILL"}]

NoProc == [prog |-> "none", st |-> "free", sig |-> {}]

Zombies == {p \in Pids : procs[p].st = "zombie"}

Alive(p) == procs[p].st \in {"live", "stopped"}

Init ==
  /\ pc = "pause"
  /\ \E want \in BootWants :
       LET status == [pid |-> NoPid, want |-> want, paused |-> FALSE,
                      finishing |-> FALSE]
       IN  sup = [cont |-> TRUE, state |-> "DOWN", status |-> status,
                  shown |-> status, armed |-> TRUE, due |-> "none"]
  /\ procs = [p \in Pids |-> NoProc]
  /\ fifo = <<>> /\ pending = {}
  /\ listening = FALSE /\ events = <<>>
  /\ sent = 0 /\ faults = 0

-----------------------------------------------------------------------------
(* What the actions are made of.                                           *)

\* kill(2): CONT and STOP act at once, TERM and KILL when the process gets to
\* die; a zombie takes no notice.
Signalled(proc, sigs) ==
  IF proc.st \in {"free", "zombie"} THEN proc
  ELSE [proc EXCEPT
          !.sig = @ \cup (sigs \cap {"TERM", "KILL"}),
          !.st = IF "CONT" \in sigs THEN "live"
                 ELSE IF "STOP" \in sigs THEN "stopped" ELSE @]

Announced(s) == [s EXCEPT !.shown = s.status]

\* The struct becomes s and the child of status.pid gets sigs.
Do(s, sigs) ==
  /\ sup' = s
  /\ procs' = [p \in Pids |-> IF p = sup.status.pid
                                THEN Signalled(procs[p], sigs) ELSE procs[p]]
  /\ UNCHANGED faults

Fails(call) == call \in Faults /\ faults < MaxFaults /\ faults' = faults + 1

Fork(p, prog) ==
  /\ procs[p].st = "free"
  /\ procs' = [procs EXCEPT ![p] = [prog |-> prog, st |-> "live", sig |-> {}]]

Started(s, p) ==
  Announced([s EXCEPT !.state = "UP", !.armed = FALSE, !.status.pid = p,
                      !.due = "u"])

\* trystart(), which knows from a pipe whether execve succeeded: a child whose
\* execve fails, or whose pipe cannot be read and which is killed, is not kept.
TryStart(s) ==
  \/ /\ Fails("fork")
     /\ sup' = [s EXCEPT !.armed = TRUE]
     /\ UNCHANGED procs
  \/ /\ Fails("exec")
     /\ \E p \in Pids : Fork(p, "none")
     /\ sup' = [s EXCEPT !.armed = TRUE]
  \/ /\ \E p \in Pids : Fork(p, "run") /\ sup' = Started(s, p)
     /\ UNCHANGED faults

-----------------------------------------------------------------------------
(* The actions.                                                            *)

Wanting(w) == Announced([sup EXCEPT !.status.want = w])

nop == Do(sup, {})

bail == Do([sup EXCEPT !.cont = FALSE], {})

Want(w) == Do(Wanting(w), {})       \* down_O, down_d, up_o, up_u, finish_u

WantNow(w) == TryStart(Wanting(w))  \* down_o, down_u

downtimeout ==
  \/ sup.status.want = "up" /\ TryStart(sup)
  \/ sup.status.want # "up" /\ Do([sup EXCEPT !.armed = FALSE], {})

uptimeout == Do([sup EXCEPT !.armed = FALSE], {})

Forward(sigs) == Do(sup, sigs)      \* killa to kill2

Flagged(flag) == Announced([sup EXCEPT !.status.paused = flag])

killp == Do(Flagged(TRUE), {"STOP"})

killc == Do(Flagged(FALSE), {"CONT"})

\* up_d, and up_term, which is up_x and up_d.
Down(state) ==
  Do(Announced([sup EXCEPT !.status.want = "down", !.status.paused = FALSE,
                           !.state = state]),
     {"TERM", "CONT"})

Last(state) == Do([sup EXCEPT !.state = state], {})  \* up_x, finish_x

\* The deadline, set 3 seconds on, stays finite.
finishtimeout == Do(Flagged(FALSE), {"CONT", "KILL"})

\* actions[state]: the rows of the table, but for V_CHLD.
ActDown(what) ==
  \/ what = "TIMEOUT" /\ downtimeout
  \/ what \in {"TERM", "HUP", "QUIT", "x"} /\ bail
  \/ what \in {"h", "k", "t", "p", "c"} /\ nop
  \/ what = "o" /\ WantNow("none")
  \/ what = "d" /\ Want("down")
  \/ what = "u" /\ WantNow("up")
  \/ what = "O" /\ Want("none")

ActAnyUp(what) ==                   \* what UP and LASTUP have in common
  \/ what = "TIMEOUT" /\ uptimeout
  \/ what = "h" /\ Forward({})
  \/ what = "k" /\ Forward({"KILL"})
  \/ what = "t" /\ Forward({"TERM"})
  \/ what = "p" /\ killp
  \/ what = "c" /\ killc
  \/ what \in {"o", "O"} /\ Want("none")

ActUp(what) ==
  \/ ActAnyUp(what)
  \/ what \in {"TERM", "QUIT"} /\ Down("LASTUP")
  \/ what = "d" /\ Down("UP")
  \/ what \in {"HUP", "x"} /\ Last("LASTUP")
  \/ what = "u" /\ Want("up")

ActLastUp(what) ==
  \/ ActAnyUp(what)
  \/ what \in {"TERM", "QUIT", "d"} /\ Down("LASTUP")
  \/ what \in {"HUP", "x", "u"} /\ nop

ActFinish(what) ==
  \/ what = "TIMEOUT" /\ finishtimeout
  \/ what \in {"TERM", "HUP", "QUIT", "x"} /\ Last("LASTFINISH")
  \/ what \in {"h", "k", "t", "p", "c"} /\ nop
  \/ what \in {"o", "O"} /\ Want("none")
  \/ what = "d" /\ Want("down")
  \/ what = "u" /\ Want("up")

ActLastFinish(what) ==
  \/ what = "TIMEOUT" /\ finishtimeout
  \/ what # "TIMEOUT" /\ nop

Act(what) ==
  \/ sup.state = "DOWN" /\ ActDown(what)
  \/ sup.state = "UP" /\ ActUp(what)
  \/ sup.state = "LASTUP" /\ ActLastUp(what)
  \/ sup.state = "FINISH" /\ ActFinish(what)
  \/ sup.state = "LASTFINISH" /\ ActLastFinish(what)

-----------------------------------------------------------------------------
(* The main loop.                                                          *)

At(place) == pc = place /\ sup.due = "none"

\* ftrigw_notify(): an event goes to whoever is listening.
Tell(e) == events' = IF listening THEN Append(events, e) ELSE events

Notify ==
  /\ sup.due # "none"
  /\ Tell(sup.due)
  /\ sup' = [sup EXCEPT !.due = "none"]
  /\ UNCHANGED <<pc, procs, fifo, pending, listening, sent, faults>>

\* iopause() returns 0 only if there is nothing to read.
Timeout ==
  /\ At("pause") /\ sup.cont
  /\ sup.armed /\ pending = {} /\ fifo = <<>>
  /\ Act("TIMEOUT")
  /\ UNCHANGED <<pc, fifo, pending, listening, events, sent>>

\* Signals go before bytes.
Iopause ==
  /\ At("pause") /\ sup.cont
  /\ \/ pending # {} /\ pc' = "signals"
     \/ pending = {} /\ fifo # <<>> /\ pc' = "control"
  /\ UNCHANGED <<sup, procs, fifo, pending, listening, events, sent, faults>>

\* TERM, HUP or QUIT read from the self pipe.
Signal(sig) ==
  /\ At("signals")
  /\ sig \in pending
  /\ pending' = pending \ {sig}
  /\ Act(sig)
  /\ UNCHANGED <<pc, fifo, listening, events, sent>>

Reaped(ps) == procs' = [p \in Pids |-> IF p \in ps THEN NoProc ELSE procs[p]]

RunDied ==                          \* up_z and lastup_z up to the event
  Announced([sup EXCEPT !.status.pid = NoPid, !.due = "d"])

FinishDied ==                       \* finish_z
  Announced([sup EXCEPT !.state = "DOWN", !.status.pid = NoPid,
                        !.status.finishing = FALSE, !.armed = TRUE])

LastFinishDied == [sup EXCEPT !.cont = FALSE, !.status.pid = Wstat]

\* actions[state][V_CHLD].
ChildDied ==
  \/ sup.state \in {"UP", "LASTUP"} /\ sup' = RunDied /\ pc' = "finish"
  \/ sup.state = "FINISH" /\ sup' = FinishDied /\ UNCHANGED pc
  \/ sup.state = "LASTFINISH" /\ sup' = LastFinishDied /\ UNCHANGED pc

\* Slip: whatever child is reaped counts.
ChldAny ==
  /\ At("signals")
  /\ "CHLD" \in pending
  /\ pending' = pending \ {"CHLD"}
  /\ Reaped(Zombies)
  /\ \/ sup.status.pid \in Pids /\ Zombies # {} /\ ChildDied
     \/ ~(sup.status.pid \in Pids /\ Zombies # {}) /\ UNCHANGED <<pc, sup>>
  /\ UNCHANGED <<fifo, listening, events, sent, faults>>

\* wait_pid_nohang() reaps others on its way, but stops at the child it is
\* asked for; wait_reap() reaps all.
Chld ==
  /\ At("signals")
  /\ "CHLD" \in pending
  /\ pending' = pending \ {"CHLD"}
  /\ \/ /\ sup.status.pid \in Zombies
        /\ \E others \in SUBSET (Zombies \ {sup.status.pid}) :
             Reaped(others \cup {sup.status.pid})
        /\ ChildDied
     \/ /\ sup.status.pid \notin Zombies
        /\ Reaped(Zombies)
        /\ UNCHANGED <<pc, sup>>
  /\ UNCHANGED <<fifo, listening, events, sent, faults>>

SignalsDone ==
  /\ At("signals")
  /\ pending = {}
  /\ pc' = "pause"
  /\ UNCHANGED <<sup, procs, fifo, pending, listening, events, sent, faults>>

\* Slip: when the fork fails, the service is still taken for up.
NotFinishingUp == [sup EXCEPT !.cont = @ /\ sup.state # "LASTUP", !.armed = TRUE]

NotFinishing ==
  [sup EXCEPT !.cont = @ /\ sup.state # "LASTUP", !.state = "DOWN",
              !.armed = TRUE]

\* Slip: the deadline of ./finish is not set.
FinishingUnarmed(p) ==
  [sup EXCEPT !.status.pid = p, !.status.finishing = TRUE,
              !.state = IF @ = "LASTUP" THEN "LASTFINISH" ELSE "FINISH"]

Finishing(p) ==
  [sup EXCEPT !.status.pid = p, !.status.finishing = TRUE, !.armed = TRUE,
              !.state = IF @ = "LASTUP" THEN "LASTFINISH" ELSE "FINISH"]

\* tryfinish(): the status file is not told of ./finish.
TryFinish ==
  /\ At("finish")
  /\ pc' = "signals"
  /\ \/ Fails("fork") /\ sup' = NotFinishing /\ UNCHANGED procs
     \/ /\ \E p \in Pids : Fork(p, "finish") /\ sup' = Finishing(p)
        /\ UNCHANGED faults
  /\ UNCHANGED <<fifo, pending, listening, events, sent>>

\* One byte; the loop ends when there is none, whatever cont says.
Control ==
  /\ At("control")
  /\ fifo # <<>>
  /\ fifo' = Tail(fifo)
  /\ Act(Head(fifo))
  /\ UNCHANGED <<pc, pending, listening, events, sent>>

ControlDone ==
  /\ At("control")
  /\ fifo = <<>>
  /\ pc' = "pause"
  /\ UNCHANGED <<sup, procs, fifo, pending, listening, events, sent, faults>>

Exit ==
  /\ At("pause") /\ ~sup.cont
  /\ pc' = "exited"
  /\ Tell("x")
  /\ UNCHANGED <<sup, procs, fifo, pending, listening, sent, faults>>

Step ==
  \/ Notify \/ Timeout \/ Iopause \/ (\E sig \in Signals : Signal(sig)) \/ Chld
  \/ SignalsDone \/ TryFinish \/ Control \/ ControlDone \/ Exit

-----------------------------------------------------------------------------
(* The world around s6-supervise.                                          *)

Sending == pc # "exited" /\ sent < MaxCmds /\ sent' = sent + 1

SendCmd(c) ==
  /\ Sending
  /\ fifo' = Append(fifo, c)
  /\ UNCHANGED <<pc, sup, procs, pending, listening, events, faults>>

SendSignal(sig) ==
  /\ Sending
  /\ pending' = pending \cup {sig}
  /\ UNCHANGED <<pc, sup, procs, fifo, listening, events, faults>>

\* Any program may end at any time, but a stopped one only by a KILL.
Die(p) ==
  /\ pc # "exited" /\ Len(events) < MaxEvents
  /\ \/ procs[p].st = "live"
     \/ procs[p].st = "stopped" /\ "KILL" \in procs[p].sig
  /\ procs' = [procs EXCEPT ![p].st = "zombie"]
  /\ pending' = pending \cup {"CHLD"}
  /\ UNCHANGED <<pc, sup, fifo, listening, events, sent, faults>>

Next ==
  \/ Step
  \/ \E c \in Cmds : SendCmd(c)
  \/ \E sig \in Signals : SendSignal(sig)
  \/ \E p \in Pids : Die(p)

Spec == Init /\ [][Next]_vars

\* The loop goes on, and those end that must: killed, told to terminate and not
\* stopped, or whose execve failed.  ./finish has no such obligation.
Obliged(p) ==
  \/ Alive(p) /\ "KILL" \in procs[p].sig
  \/ procs[p].st = "live" /\ ("TERM" \in procs[p].sig \/ procs[p].prog = "none")

Fairness == WF_vars(Step) /\ \A p \in Pids : WF_vars(Obliged(p) /\ Die(p))

FairSpec == Spec /\ Fairness

-----------------------------------------------------------------------------
(* Properties.                                                             *)

\* What the variables are.
TypeOK ==
  /\ pc \in Places
  /\ sup \in Sup
  /\ procs \in [Pids -> Proc]
  /\ fifo \in Seq(Cmds)
  /\ pending \subseteq Signals \cup {"CHLD"}
  /\ listening \in BOOLEAN /\ events \in Seq({"u", "d", "x"})
  /\ sent \in 0 .. MaxCmds /\ faults \in 0 .. MaxFaults

Running == sup.state \in {"UP", "LASTUP"} /\ pc # "finish"

FinishRuns == sup.state \in {"FINISH", "LASTFINISH"} /\ sup.cont

\* While ./run or ./finish is supposed to run, status.pid is that child and no
\* other program of the service exists: killp and the others never signal pid
\* 0, which is the whole process group, nor a process that is not theirs.
RightChild ==
  /\ Running => sup.status.pid \in Pids /\ procs[sup.status.pid].prog = "run"
  /\ FinishRuns =>
       sup.status.pid \in Pids /\ procs[sup.status.pid].prog = "finish"
  /\ \A p \in Pids :
       procs[p].st # "free" /\ procs[p].prog # "none" => p = sup.status.pid

\* The status file names a running ./run whenever and only when there is one; a
\* pid it names is that of a child that has not been waited for, at least until
\* the last ./finish is over.
StatusTrue ==
  /\ Running <=> sup.shown.pid # NoPid /\ ~sup.shown.finishing
  /\ sup.cont /\ sup.shown.pid # NoPid => sup.shown.pid = sup.status.pid

\* What s6-supervise takes for its child is it, in memory and in the status file.
ChildTrue == RightChild /\ StatusTrue

\* What Lifecycle sees of s6-supervise: the service process that exists.
Exists(prog) == \E p \in Pids : procs[p].st # "free" /\ procs[p].prog = prog

Phase ==
  IF Exists("run") THEN "run"
  ELSE IF Exists("finish") THEN "finish"
  ELSE IF pc = "finish" THEN "ended" ELSE "down"

L == INSTANCE Lifecycle WITH
       phase <- Phase, gone <- (pc = "exited"),
       FinishFile <- {TRUE}, FinishMayFail <- TRUE

\* s6-supervise implements the life cycle of a service: ./finish after each
\* ./run, unless it cannot be forked, and no exit while something runs.
ImplementsLifecycle == L!Spec

\* A service that is wanted up, by an s6-supervise that is not told to exit, is
\* up again and again: a ./finish that hangs does not keep it down.
UpRuns ==
  <>[](sup.cont /\ sup.status.want = "up"
       /\ sup.state \notin {"LASTUP", "LASTFINISH"})
    => []<>Running

=============================================================================
