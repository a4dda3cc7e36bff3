------------------------------- MODULE Runsv -------------------------------
(***************************************************************************)
(* runit's runsv(8): one process that starts and monitors a service and,   *)
(* if ./log is a directory, the log service its output is piped to.        *)
(*                                                                         *)
(* The state is the struct svdir of each of the two services, the signals  *)
(* that are blocked while runsv works, the control fifos, and the          *)
(* processes runsv has forked and not yet waited for.  Every round of      *)
(* main()'s loop is split where runsv looks at the world again: the two    *)
(* starts, iopause, each wait_nohang, each read of a control fifo, the     *)
(* TERM flag and the exit test.  The supervised programs, the writers of   *)
(* the control fifos and whoever sends TERM to runsv run in between.       *)
(***************************************************************************)
EXTENDS Naturals, Sequences, FiniteSets

CONSTANTS
  Pids,         \* the process ids fork() may return
  NoPid,        \* pid 0: no process
  HasLog,       \* whether ./log is a directory
  MainCmds,     \* the characters written to supervise/control
  LogCmds,      \* the characters written to log/supervise/control
  Refrain,      \* what control/? may make custom() return, a set of BOOLEANs
  FinishFile,   \* outcomes of open_read("finish"), a set of BOOLEANs
  BootWants,    \* want after looking for ./down: a subset of {"up", "down"}
  MaxCmds       \* bound: commands and TERM signals ever sent to runsv

\* "h" stands for all of a, h, i, q, 1 and 2: they only forward a signal.
AllCmds == {"u", "d", "o", "x", "t", "k", "p", "c", "h"}

ASSUME RunsvAssumption ==
  /\ NoPid \notin Pids
  /\ HasLog \in BOOLEAN
  /\ ~HasLog => LogCmds = {}
  /\ MainCmds \subseteq AllCmds
  /\ LogCmds \subseteq AllCmds
  /\ Refrain \subseteq BOOLEAN /\ Refrain # {}
  /\ FinishFile \subseteq BOOLEAN
  /\ BootWants \subseteq {"up", "down"} /\ BootWants # {}
  /\ MaxCmds \in Nat

Dirs == {"main", "log"}          \* svd[0] and svd[1]

VARIABLES
  pc,        \* where main()'s loop is
  svd,       \* struct svdir: pid, state, ctrl and want of each service
  shown,     \* what the status files in supervise/ say
  procs,     \* the children: whose, which program, how it is, signals sent
  fifo,      \* bytes waiting in supervise/control and log/supervise/control
  pending,   \* blocked signals waiting for iopause
  sigterm,   \* the flag s_term sets
  logopen,   \* runsv's own ends of logpipe are open
  sent       \* commands and TERM signals sent so far

vars == <<pc, svd, shown, procs, fifo, pending, sigterm, logopen, sent>>

Places == {"startlog", "startmain", "pause", "reap", "ctrlmain", "ctrllog",
           "term", "check", "exited"}

Svdir == [pid : Pids \cup {NoPid}, state : {"down", "run", "finish"},
          ctrl : SUBSET {"TERM", "PAUSE"}, want : {"up", "down", "exit"}]

\* st "failing" is a child that died in fd_copy before its execve; sig holds
\* the TERM and KILL signals the process has been sent.
Proc == [of : Dirs, prog : {"run", "finish"},
         st : {"free", "live", "stopped", "failing", "zombie"},
         sig : SUBSET {"TERM", "KILL"}]

NoProc == [of |-> "main", prog |-> "run", st |-> "free", sig |-> {}]

Alive(p) == procs[p].st \in {"live", "stopped", "failing"}

Init ==
  /\ pc = "startlog"
  /\ \E wm, wl \in BootWants :
       svd = [d \in Dirs |->
                [pid |-> NoPid, state |-> "down", ctrl |-> {},
                 want |-> IF d = "main" THEN wm
                          ELSE IF HasLog THEN wl ELSE "up"]]
  /\ shown = svd
  /\ procs = [p \in Pids |-> NoProc]
  /\ fifo = [d \in Dirs |-> <<>>]
  /\ pending = {}
  /\ sigterm = FALSE
  /\ logopen = HasLog
  /\ sent = 0

-----------------------------------------------------------------------------
(* Processes and signals.                                                  *)

\* custom(): TRUE when control/<c> exits 0 and runsv must not act itself.
Custom(d) == IF d = "log" THEN {FALSE} ELSE Refrain

\* kill(2).  A zombie takes no notice; CONT and STOP act at once, TERM and
\* KILL when the process gets to die (Die below).
Signalled(proc, sigs) ==
  IF proc.st \in {"free", "zombie"} THEN proc
  ELSE [proc EXCEPT
          !.sig = @ \cup (sigs \cap {"TERM", "KILL"}),
          !.st = IF @ = "stopped" /\ "CONT" \in sigs THEN "live"
                 ELSE IF @ = "live" /\ "STOP" \in sigs THEN "stopped"
                 ELSE @]

Kill(pid, sigs) ==
  [p \in Pids |-> IF p = pid THEN Signalled(procs[p], sigs) ELSE procs[p]]

\* The forked child: with ./log it copies its end of logpipe to 0 or 1 before
\* the execve, and dies if runsv has closed the pipe.
Child(d, prog) ==
  [of |-> d, prog |-> prog, sig |-> {},
   st |-> IF HasLog /\ ~logopen THEN "failing" ELSE "live"]

\* update_status(), when every file can be written and renamed.
Save(d, s) ==
  /\ svd' = [svd EXCEPT ![d] = s]
  /\ shown' = [shown EXCEPT ![d] = s]

\* stopservice(): TERM unless control/t refrains, CONT when the service is to
\* stay down.
StopSignals(s, refrain) ==
  (IF refrain THEN {} ELSE {"TERM"})
    \cup (IF s.want \in {"down", "exit"} THEN {"CONT"} ELSE {})

\* s is the struct now and said what its status file says.
StopService(d, s, said) ==
  \E refrain \in Custom(d) :
    /\ procs' = Kill(s.pid, StopSignals(s, refrain))
    /\ IF refrain
         THEN /\ svd' = [svd EXCEPT ![d] = s]
              /\ shown' = [shown EXCEPT ![d] = said]
         ELSE Save(d, [s EXCEPT !.ctrl = @ \cup {"TERM"}])

\* Slip: the old process is not told to stop.
StartServiceNoStop(d, s) ==
  \E p \in Pids :
    /\ procs[p].st = "free"
    /\ procs' = [procs EXCEPT
                   ![p] = Child(d, IF s.state = "finish" THEN "finish"
                                                         ELSE "run")]
    /\ Save(d, [s EXCEPT !.pid = p, !.ctrl = {},
                         !.state = IF @ = "finish" THEN @ ELSE "run"])

\* startservice().  fork() is retried for ever, so it waits for a free pid.
StartService(d, s) ==
  \E p \in Pids, refrain \in Custom(d) :
    /\ procs[p].st = "free"
    /\ procs' = [Kill(s.pid, StopSignals(s, refrain)) EXCEPT
                   ![p] = Child(d, IF s.state = "finish" THEN "finish"
                                                         ELSE "run")]
    /\ Save(d, [s EXCEPT !.pid = p, !.ctrl = {},
                         !.state = IF @ = "finish" THEN @ ELSE "run"])

-----------------------------------------------------------------------------
(* The top of the loop: start what is wanted and not there.                *)

StartLog ==
  /\ pc = "startlog"
  /\ pc' = "startmain"
  /\ IF HasLog /\ svd["log"].pid = NoPid /\ svd["log"].want = "up"
       THEN StartService("log", svd["log"])
       ELSE UNCHANGED <<svd, shown, procs>>
  /\ UNCHANGED <<fifo, pending, sigterm, logopen, sent>>

MainWanted == svd["main"].want = "up" \/ svd["main"].state = "finish"

StartMain ==
  /\ pc = "startmain"
  /\ pc' = "pause"
  /\ IF svd["main"].pid = NoPid /\ MainWanted
       THEN StartService("main", svd["main"])
       ELSE UNCHANGED <<svd, shown, procs>>
  /\ UNCHANGED <<fifo, pending, sigterm, logopen, sent>>


\* iopause() with the signals unblocked: the handlers of the pending ones run
\* and write to the self pipe, which is drained right after.
Iopause ==
  /\ pc = "pause"
  /\ pending # {} \/ \E d \in Dirs : fifo[d] # <<>>
  /\ pc' = "reap"
  /\ sigterm' = (sigterm \/ "TERM" \in pending)
  /\ pending' = {}
  /\ UNCHANGED <<svd, shown, procs, fifo, logopen, sent>>

\* The hour is over, or a child of custom() or a stopped one sent CHLD.
IopauseTimeout ==
  /\ pc = "pause"
  /\ pending = {}
  /\ pc' = "reap"
  /\ UNCHANGED <<svd, shown, procs, fifo, pending, sigterm, logopen, sent>>

-----------------------------------------------------------------------------
(* The wait_nohang loop: one dead child per step.                          *)

\* Slip: the pid is not reset.
ReapedMainKeepsPid(s, finish) ==
  [s EXCEPT !.ctrl = @ \ {"TERM"},
            !.state = IF @ # "finish" /\ finish THEN "finish" ELSE "down"]

\* Slip: the end of ./finish is followed by ./finish.
ReapedMainAgain(s, finish) ==
  [s EXCEPT !.pid = NoPid, !.ctrl = @ \ {"TERM"},
            !.state = IF finish THEN "finish" ELSE "down"]

ReapedMain(s, finish) ==
  [s EXCEPT !.pid = NoPid, !.ctrl = @ \ {"TERM"},
            !.state = IF @ # "finish" /\ finish THEN "finish" ELSE "down"]

ReapedLog(s) ==
  [s EXCEPT !.pid = NoPid, !.ctrl = @ \ {"TERM"}, !.state = "down"]

Reap(p) ==
  /\ pc = "reap"
  /\ procs[p].st = "zombie"
  /\ procs' = [procs EXCEPT ![p] = NoProc]
  /\ IF p = svd["main"].pid
       THEN \E finish \in FinishFile :
              Save("main", ReapedMain(svd["main"], finish))
     ELSE IF p = svd["log"].pid THEN Save("log", ReapedLog(svd["log"]))
     ELSE UNCHANGED <<svd, shown>>
  /\ UNCHANGED <<pc, fifo, pending, sigterm, logopen, sent>>

\* Slip: wait_nohang() is not called until there are no more dead children.
ReapDoneEarly ==
  /\ pc = "reap"
  /\ pc' = "ctrlmain"
  /\ UNCHANGED <<svd, shown, procs, fifo, pending, sigterm, logopen, sent>>

ReapDone ==
  /\ pc = "reap"
  /\ \A p \in Pids : procs[p].st # "zombie"
  /\ pc' = "ctrlmain"
  /\ UNCHANGED <<svd, shown, procs, fifo, pending, sigterm, logopen, sent>>

-----------------------------------------------------------------------------
(* ctrl(s, c): one disjunct per case of its switch.                        *)

Down(d, want) ==                            \* d and x
  LET s == [svd[d] EXCEPT !.want = want]
  IN  IF s.state = "run" THEN StopService(d, s, s)
      ELSE Save(d, s) /\ UNCHANGED procs

\* Slip: anything but a running ./run counts as down.
UpUnlessRunning(d, want) ==
  LET s == [svd[d] EXCEPT !.want = want]
  IN  IF s.state # "run" THEN StartService(d, s)
      ELSE Save(d, s) /\ UNCHANGED procs

Up(d, want) ==                              \* u and o
  LET s == [svd[d] EXCEPT !.want = want]
  IN  IF s.state = "down" THEN StartService(d, s)
      ELSE Save(d, s) /\ UNCHANGED procs

Term(d) ==                                  \* t
  IF svd[d].state = "run" THEN StopService(d, svd[d], shown[d])
  ELSE UNCHANGED <<svd, shown, procs>>

Forward(d, sig) ==       \* the signal, if the service runs and custom() lets it
  \E refrain \in Custom(d) :
    procs' = IF svd[d].state = "run" /\ ~refrain
               THEN Kill(svd[d].pid, {sig}) ELSE procs

KillCmd(d) ==                               \* k: the status is not updated
  /\ Forward(d, "KILL")
  /\ svd' = [svd EXCEPT ![d].state = "down"]
  /\ UNCHANGED shown

Pause(d) ==                                 \* p
  /\ Forward(d, "STOP")
  /\ Save(d, [svd[d] EXCEPT !.ctrl = @ \cup {"PAUSE"}])

Cont(d) ==                                  \* c
  /\ Forward(d, "CONT")
  /\ Save(d, [svd[d] EXCEPT !.ctrl = @ \ {"PAUSE"}])

Ctrl(d, c) ==
  \/ c = "d" /\ Down(d, "down")
  \/ c = "u" /\ Up(d, "up")
  \/ c = "x" /\ d # "log" /\ Down(d, "exit")
  \/ c = "o" /\ Up(d, "down")
  \/ c = "t" /\ Term(d)
  \/ c = "k" /\ KillCmd(d)
  \/ c = "p" /\ Pause(d)
  \/ c = "c" /\ Cont(d)
  \/ c = "x" /\ d = "log" /\ UNCHANGED <<svd, shown, procs>>
  \/ c = "h" /\ UNCHANGED <<svd, shown, procs>>

\* read(fdcontrol, &ch, 1): at most one byte of each fifo a round.
ReadCtrl(d, from, to) ==
  /\ pc = from
  /\ pc' = to
  /\ IF fifo[d] = <<>> THEN UNCHANGED <<svd, shown, procs, fifo>>
     ELSE /\ Ctrl(d, Head(fifo[d]))
          /\ fifo' = [fifo EXCEPT ![d] = Tail(@)]
  /\ UNCHANGED <<pending, sigterm, logopen, sent>>

\* Slip: the self pipe is drained after the children are reaped.
CtrlMainDrains ==
  /\ pc = "ctrlmain"
  /\ pc' = "ctrllog"
  /\ IF fifo["main"] = <<>> THEN UNCHANGED <<svd, shown, procs, fifo>>
     ELSE /\ Ctrl("main", Head(fifo["main"]))
          /\ fifo' = [fifo EXCEPT !["main"] = Tail(@)]
  /\ pending' = {}
  /\ sigterm' = (sigterm \/ "TERM" \in pending)
  /\ UNCHANGED <<logopen, sent>>

CtrlMain == ReadCtrl("main", "ctrlmain", "ctrllog")

CtrlLog == ReadCtrl("log", "ctrllog", "term")

TermFlag ==
  /\ pc = "term"
  /\ pc' = "check"
  /\ sigterm' = FALSE
  /\ IF sigterm THEN Ctrl("main", "x") ELSE UNCHANGED <<svd, shown, procs>>
  /\ UNCHANGED <<fifo, pending, logopen, sent>>

Leaving == svd["main"].want = "exit" /\ svd["main"].state = "down"

\* Close the pipe once, so that the log service ends.
CloseLog(close) ==
  IF close /\ svd["log"].pid # NoPid /\ svd["log"].want # "exit"
    THEN /\ Save("log", [svd["log"] EXCEPT !.want = "exit"])
         /\ logopen' = FALSE
    ELSE UNCHANGED <<svd, shown, logopen>>

\* Slip: runsv closes the pipe and exits without waiting for the log service.
CheckNoWait ==
  /\ pc = "check"
  /\ pc' = IF Leaving THEN "exited" ELSE "startlog"
  /\ CloseLog(Leaving)
  /\ UNCHANGED <<procs, fifo, pending, sigterm, sent>>

\* Slip: the pipe is closed before the service is down.
CheckClosesEarly ==
  /\ pc = "check"
  /\ pc' = IF Leaving /\ svd["log"].pid = NoPid THEN "exited" ELSE "startlog"
  /\ CloseLog(svd["main"].want = "exit")
  /\ UNCHANGED <<procs, fifo, pending, sigterm, sent>>

\* Slip: the pipe is never closed.
CheckKeepsPipe ==
  /\ pc = "check"
  /\ pc' = IF Leaving /\ svd["log"].pid = NoPid THEN "exited" ELSE "startlog"
  /\ UNCHANGED <<svd, shown, procs, fifo, pending, sigterm, logopen, sent>>

\* The exit test.  With a log service still there, runsv closes the pipe to
\* make it end and goes round the loop again.
Check ==
  /\ pc = "check"
  /\ pc' = IF Leaving /\ svd["log"].pid = NoPid THEN "exited" ELSE "startlog"
  /\ CloseLog(Leaving)
  /\ UNCHANGED <<procs, fifo, pending, sigterm, sent>>

-----------------------------------------------------------------------------
(* The world around runsv.                                                 *)

Sending == pc # "exited" /\ sent < MaxCmds /\ sent' = sent + 1

SendCmd(d, c) ==
  /\ Sending
  /\ fifo' = [fifo EXCEPT ![d] = Append(@, c)]
  /\ UNCHANGED <<pc, svd, shown, procs, pending, sigterm, logopen>>

SendTerm ==
  /\ Sending
  /\ pending' = pending \cup {"TERM"}
  /\ UNCHANGED <<pc, svd, shown, procs, fifo, sigterm, logopen>>

\* Any program may end at any time, but a stopped one only by a KILL.
Die(p) ==
  /\ pc # "exited"
  /\ \/ procs[p].st \in {"live", "failing"}
     \/ procs[p].st = "stopped" /\ "KILL" \in procs[p].sig
  /\ procs' = [procs EXCEPT ![p].st = "zombie"]
  /\ pending' = pending \cup {"CHLD"}
  /\ UNCHANGED <<pc, svd, shown, fifo, sigterm, logopen, sent>>

-----------------------------------------------------------------------------

Step ==
  \/ StartLog \/ StartMain \/ Iopause
  \/ (\E p \in Pids : Reap(p)) \/ ReapDone
  \/ CtrlMain \/ CtrlLog \/ TermFlag \/ Check

Next ==
  \/ Step
  \/ IopauseTimeout
  \/ \E c \in MainCmds : SendCmd("main", c)
  \/ \E c \in LogCmds : SendCmd("log", c)
  \/ SendTerm
  \/ \E p \in Pids : Die(p)

Spec == Init /\ [][Next]_vars

\* The logger has read end of file: no writer of the pipe is left.
AtEof(p) ==
  /\ procs[p].of = "log" /\ procs[p].st = "live"
  /\ ~logopen
  /\ \A q \in Pids :
       procs[q].of = "main" => procs[q].st \notin {"live", "stopped"}

\* The programs that must end by themselves: dead before the execve, killed,
\* told to terminate and not stopped, ./finish, and the logger at end of file.
Obliged(p) ==
  \/ procs[p].st = "failing"
  \/ Alive(p) /\ "KILL" \in procs[p].sig
  \/ procs[p].st = "live" /\ "TERM" \in procs[p].sig
  \/ procs[p].st = "live" /\ procs[p].prog = "finish"
  \/ AtEof(p)

Fairness ==
  /\ WF_vars(Step)
  /\ \A p \in Pids : WF_vars(Obliged(p) /\ Die(p))

FairSpec == Spec /\ Fairness

-----------------------------------------------------------------------------
(* Invariants.                                                             *)

\* Every variable has its type.  Of the fields of a status file only those
\* of its own service ever get there.
TypeOK ==
  /\ pc \in Places
  /\ svd \in [Dirs -> Svdir]
  /\ shown \in [Dirs -> Svdir]
  /\ procs \in [Pids -> Proc]
  /\ fifo \in [Dirs -> Seq(MainCmds \cup LogCmds)]
  /\ pending \subseteq {"TERM", "CHLD"}
  /\ sigterm \in BOOLEAN
  /\ logopen \in BOOLEAN
  /\ sent \in 0 .. MaxCmds

\* A pid that runsv keeps is a child of that very service it has not waited
\* for, running the program the state names, and a service in state run has
\* one: so no kill() in ctrl() or stopservice() can hit pid 0 (runsv's own
\* process group), the other service, or a pid the system has given away.
PidsAreChildren ==
  \A d \in Dirs :
    LET s == svd[d]
    IN  /\ s.state = "run" => s.pid # NoPid
        /\ s.pid # NoPid =>
             /\ procs[s.pid].st # "free"
             /\ procs[s.pid].of = d
             /\ s.state # "down" => procs[s.pid].prog = s.state

\* As long as nobody sends k: every child runsv has not waited for is the one
\* its service's struct names.  There is never a second instance of a service
\* and never a ./run beside a ./finish.
OneInstance ==
  \A p \in Pids : procs[p].st # "free" => svd[procs[p].of].pid = p

\* Even with k, a process runsv loses track of has been told to go away: every
\* running child no struct names was sent TERM or KILL (unless control/t or
\* control/k refrained).
NoSilentOrphan ==
  \A p \in Pids :
    Alive(p) /\ svd[procs[p].of].pid # p => procs[p].sig # {}

\* As long as nobody sends k: when runsv has exited, no program of either
\* service is left behind.
ExitIsClean == pc = "exited" => \A p \in Pids : procs[p].st = "free"

\* The self pipe: runsv never goes to sleep in iopause with a dead child it
\* has not been woken for.
NoLostWakeup ==
  (\E p \in Pids : procs[p].st = "zombie") /\ pc \notin {"reap", "exited"}
    => "CHLD" \in pending

\* The status files say what the structs hold, except that k sets the state to
\* down without telling.
StatusCurrent ==
  \A d \in Dirs :
    \/ shown[d] = svd[d]
    \/ svd[d] = [shown[d] EXCEPT !.state = "down"]

\* As long as nobody sends k: a process that got past its execve writes into a
\* pipe runsv itself keeps open, so a restarting log service loses nothing.
NoBrokenPipe ==
  HasLog => \A p \in Pids :
    procs[p].of = "main" /\ procs[p].st \in {"live", "stopped"} => logopen

-----------------------------------------------------------------------------
(* runsv implements Lifecycle, as long as nobody sends k.                  *)

MainProgs(prog) ==
  {p \in Pids : /\ procs[p].of = "main"
                /\ procs[p].st # "free"
                /\ procs[p].prog = prog}

\* What exists of the service, not what the struct says of it.
Phase ==
  CASE MainProgs("run") # {} /\ MainProgs("finish") = {} -> "run"
    [] MainProgs("finish") # {} /\ MainProgs("run") = {} -> "finish"
    [] MainProgs("run") # {} /\ MainProgs("finish") # {} -> "both"
    [] OTHER -> IF svd["main"].state = "finish" THEN "ended" ELSE "down"

Abstract == INSTANCE Lifecycle WITH phase <- Phase, gone <- pc = "exited",
       FinishMayFail <- FALSE

\* Each step of runsv is a step of Lifecycle or changes nothing it can see:
\* ./finish follows ./run, ./run never overlaps either, exit only when down.
ImplementsLifecycle == Abstract!Spec

-----------------------------------------------------------------------------
(* Liveness, for FairSpec.                                                 *)

Running == \E p \in MainProgs("run") : procs[p].st = "live"

\* A service that is wanted up from some time on is started again and again:
\* no death is missed and no start forgotten, unless x has had the log pipe
\* closed before.
UpRuns ==
  <>[](svd["main"].want = "up" /\ logopen = HasLog) => []<>Running

\* A runsv told to exit does exit, log service included, unless it is told
\* to bring the service up or down meanwhile, or control/t has kept the TERM from
\* a ./run that goes on.
ExitCompletes ==
  svd["main"].want = "exit" ~>
    \/ pc = "exited" \/ svd["main"].want # "exit"
    \/ \E p \in MainProgs("run") : "TERM" \notin procs[p].sig

=============================================================================
