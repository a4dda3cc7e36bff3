---------------------------- MODULE RunitProofs ----------------------------
(***************************************************************************)
(* Proofs about the programs of runit: runsv, for every set of pids, every *)
(* set of commands and every number of them; runsvdir, for every services  *)
(* directory, every size of its table and every choice of failing calls;   *)
(* and runit, process no 1, for every set of runit-inits, of exits of the  *)
(* stages and of signals that others send.                                 *)
(*                                                                         *)
(* The three programs share no state here: each theorem is about one of    *)
(* the three specifications, Spec, DirSpec and StagesSpec.                 *)
(***************************************************************************)
EXTENDS Runsv, Runsvdir, Runit, SequenceTheorems, TLAPS

-----------------------------------------------------------------------------
(* What kill() and fork() do to the table of processes.                    *)

\* Sending signals changes neither whose a process is nor which program it
\* runs, makes none come or go, and forgets no TERM or KILL sent before.
LEMMA SignalledFacts ==
  ASSUME NEW proc \in Proc, NEW sigs
  PROVE  LET new == Signalled(proc, sigs) IN
         /\ new \in Proc
         /\ new.of = proc.of
         /\ new.prog = proc.prog
         /\ \A w \in {"free", "zombie", "failing"} : new.st = w <=> proc.st = w
         /\ proc.sig \subseteq new.sig
         /\ new.st \notin {"free", "zombie"} =>
              sigs \cap {"TERM", "KILL"} \subseteq new.sig
  BY DEF Signalled, Proc

\* The same for the whole table.
LEMMA KillFacts ==
  ASSUME procs \in [Pids -> Proc], NEW pid, NEW sigs
  PROVE  LET new == Kill(pid, sigs) IN
         /\ new \in [Pids -> Proc]
         /\ \A p \in Pids :
              /\ new[p].of = procs[p].of
              /\ new[p].prog = procs[p].prog
              /\ \A w \in {"free", "zombie", "failing"} :
                   new[p].st = w <=> procs[p].st = w
              /\ procs[p].sig \subseteq new[p].sig
         /\ pid \in Pids /\ new[pid].st \notin {"free", "zombie"} =>
              sigs \cap {"TERM", "KILL"} \subseteq new[pid].sig
<1> DEFINE new == Kill(pid, sigs)
<1>1. new \in [Pids -> Proc]
  BY SignalledFacts DEF Kill
<1>2. \A p \in Pids : new[p] = procs[p] \/ new[p] = Signalled(procs[p], sigs)
  BY DEF Kill
<1>3. pid \in Pids => new[pid] = Signalled(procs[pid], sigs)
  BY DEF Kill
<1>4. \A p \in Pids :
        /\ new[p].of = procs[p].of
        /\ new[p].prog = procs[p].prog
        /\ \A w \in {"free", "zombie", "failing"} :
             new[p].st = w <=> procs[p].st = w
        /\ procs[p].sig \subseteq new[p].sig
  BY <1>2, SignalledFacts
<1>5. pid \in Pids /\ new[pid].st \notin {"free", "zombie"} =>
        sigs \cap {"TERM", "KILL"} \subseteq new[pid].sig
  BY <1>3, SignalledFacts
<1> QED
  BY <1>1, <1>4, <1>5

\* A forked child is a live or failing process of its service.
LEMMA ChildFacts ==
  ASSUME NEW d \in Dirs, NEW prog \in {"run", "finish"}
  PROVE  LET new == Child(d, prog) IN
         /\ new \in Proc
         /\ new.of = d /\ new.prog = prog
         /\ new.st = IF HasLog /\ ~logopen THEN "failing" ELSE "live"
  BY DEF Child, Proc

-----------------------------------------------------------------------------
(* The three forms of what runsv does to a service, reaping apart.         *)

\* The struct of d keeps its pid, and its state unless the command is k; the
\* status file gets the struct, or is left alone with the struct (but for the
\* state that k sets); one process may be signalled.
Adjust(d, c) ==
  /\ \E s \in Svdir, said \in Svdir :
       /\ s.pid = svd[d].pid
       /\ s.state = svd[d].state \/ (c = "k" /\ s.state = "down")
       /\ \/ said = s
          \/ /\ said = shown[d]
             /\ s = svd[d] \/ s = [svd[d] EXCEPT !.state = "down"]
       /\ svd' = [svd EXCEPT ![d] = s]
       /\ shown' = [shown EXCEPT ![d] = said]
  /\ \E pid, sigs : procs' = Kill(pid, sigs)

\* A child is forked for d, which has none or is down by k; its old process,
\* if it has one, is told to stop.
Forked(d) ==
  /\ svd[d].pid = NoPid \/ svd[d].state = "down"
  /\ \E s \in Svdir : /\ s.pid = svd[d].pid
                      /\ s.state = svd[d].state
                      /\ StartService(d, s)

Idle == UNCHANGED <<svd, shown, procs>>

\* stopservice() on a struct that keeps its pid and state has the first form.
LEMMA StopForm ==
  ASSUME TypeOK, NEW d \in Dirs, NEW c, NEW s \in Svdir, NEW said \in Svdir,
         s.pid = svd[d].pid, s.state = svd[d].state,
         said = s \/ (said = shown[d] /\ s = svd[d]),
         StopService(d, s, said)
  PROVE  Adjust(d, c)
<1>1. PICK refrain \in Custom(d) :
        /\ procs' = Kill(s.pid, StopSignals(s, refrain))
        /\ IF refrain
             THEN /\ svd' = [svd EXCEPT ![d] = s]
                  /\ shown' = [shown EXCEPT ![d] = said]
             ELSE Save(d, [s EXCEPT !.ctrl = @ \cup {"TERM"}])
  BY DEF StopService
<1> DEFINE told == [s EXCEPT !.ctrl = @ \cup {"TERM"}]
<1>2. told \in Svdir /\ told.pid = s.pid /\ told.state = s.state
  BY DEF Svdir
<1>3. \E pid, sigs : procs' = Kill(pid, sigs)
  BY <1>1
<1>4. CASE refrain
  BY <1>1, <1>3, <1>4 DEF Adjust
<1>5. CASE ~refrain
  <2>1. svd' = [svd EXCEPT ![d] = told] /\ shown' = [shown EXCEPT ![d] = told]
    BY <1>1, <1>5 DEF Save
  <2> HIDE DEF told
  <2> QED
    BY <1>2, <1>3, <2>1 DEF Adjust
<1> QED
  BY <1>4, <1>5

\* Every command has one of the three forms.
LEMMA CtrlForms ==
  ASSUME TypeOK, NEW d \in Dirs, NEW c, Ctrl(d, c)
  PROVE  Adjust(d, c) \/ Forked(d) \/ Idle
<1> USE DEF Dirs
<1>1. svd[d] \in Svdir /\ shown[d] \in Svdir /\ procs \in [Pids -> Proc]
  BY DEF TypeOK
<1>2. procs = Kill(NoPid, {})
  BY <1>1, RunsvAssumption DEF Kill
<1>3. ASSUME NEW want \in {"down", "exit"}, Down(d, want)
      PROVE  Adjust(d, c)
  <2> DEFINE s == [svd[d] EXCEPT !.want = want]
  <2>1. s \in Svdir /\ s.pid = svd[d].pid /\ s.state = svd[d].state
    BY <1>1 DEF Svdir
  <2>2. CASE s.state = "run"
    <3>1. StopService(d, s, s)
      BY <1>3, <2>2 DEF Down
    <3> QED
      BY <2>1, <3>1, StopForm
  <2>3. CASE s.state # "run"
    <3>1. Save(d, s) /\ UNCHANGED procs
      BY <1>3, <2>3 DEF Down
    <3> QED
      BY <1>2, <2>1, <3>1 DEF Adjust, Save
  <2> QED
    BY <2>2, <2>3
<1>4. ASSUME NEW want \in {"up", "down"}, Up(d, want)
      PROVE  Adjust(d, c) \/ Forked(d)
  <2> DEFINE s == [svd[d] EXCEPT !.want = want]
  <2>1. s \in Svdir /\ s.pid = svd[d].pid /\ s.state = svd[d].state
    BY <1>1 DEF Svdir
  <2>2. CASE s.state = "down"
    <3>1. StartService(d, s)
      BY <1>4, <2>2 DEF Up
    <3> QED
      BY <2>1, <2>2, <3>1 DEF Forked
  <2>3. CASE s.state # "down"
    <3>1. Save(d, s) /\ UNCHANGED procs
      BY <1>4, <2>3 DEF Up
    <3> QED
      BY <1>2, <2>1, <3>1 DEF Adjust, Save
  <2> QED
    BY <2>2, <2>3
<1>5. ASSUME Term(d)
      PROVE  Adjust(d, c) \/ Idle
  BY <1>1, <1>5, StopForm DEF Term, Idle
<1>6. ASSUME NEW sig, Forward(d, sig)
      PROVE  \E pid, sigs : procs' = Kill(pid, sigs)
  BY <1>2, <1>6 DEF Forward
<1>7. ASSUME c = "k", KillCmd(d)
      PROVE  Adjust(d, c)
  <2> DEFINE s == [svd[d] EXCEPT !.state = "down"]
  <2>1. s \in Svdir /\ s.pid = svd[d].pid /\ s.state = "down"
    BY <1>1 DEF Svdir
  <2>2. svd' = [svd EXCEPT ![d] = s] /\ shown' = [shown EXCEPT ![d] = shown[d]]
    BY <1>7 DEF KillCmd, TypeOK
  <2>3. \E pid, sigs : procs' = Kill(pid, sigs)
    BY <1>6, <1>7 DEF KillCmd
  <2> QED
    BY <1>1, <1>7, <2>1, <2>2, <2>3 DEF Adjust
<1>8. ASSUME Pause(d)
      PROVE  Adjust(d, c)
  <2> DEFINE s == [svd[d] EXCEPT !.ctrl = @ \cup {"PAUSE"}]
  <2>1. s \in Svdir /\ s.pid = svd[d].pid /\ s.state = svd[d].state
    BY <1>1 DEF Svdir
  <2> QED
    BY <1>6, <1>8, <2>1 DEF Pause, Adjust, Save
<1>9. ASSUME Cont(d)
      PROVE  Adjust(d, c)
  <2> DEFINE s == [svd[d] EXCEPT !.ctrl = @ \ {"PAUSE"}]
  <2>1. s \in Svdir /\ s.pid = svd[d].pid /\ s.state = svd[d].state
    BY <1>1 DEF Svdir
  <2> QED
    BY <1>6, <1>9, <2>1 DEF Cont, Adjust, Save
<1> QED
  BY <1>3, <1>4, <1>5, <1>7, <1>8, <1>9 DEF Ctrl, Idle

\* The commands ctrl() may be called with: from the fifos, and x for a TERM.
Cmds == MainCmds \cup LogCmds \cup {"x"}

\* Every step treats the structs, the status files and the processes in one of
\* the three forms, or reaps a child, or is the death of one.
LEMMA NextForms ==
  ASSUME TypeOK, [Next]_vars
  PROVE  \/ \E d \in Dirs, c \in Cmds : Adjust(d, c)
         \/ \E d \in Dirs : Forked(d)
         \/ \E p \in Pids : Reap(p) \/ Die(p)
         \/ Idle
<1> USE DEF Idle
<1>1. svd \in [Dirs -> Svdir] /\ procs \in [Pids -> Proc]
  BY DEF TypeOK
<1>2. CASE StartLog
  BY <1>1, <1>2 DEF StartLog, Forked, Dirs
<1>3. CASE StartMain
  BY <1>1, <1>3 DEF StartMain, Forked, Dirs
<1>4. CASE CtrlMain \/ CtrlLog
  <2>1. PICK d \in Dirs, from \in Places, to \in Places : ReadCtrl(d, from, to)
    BY <1>4 DEF CtrlMain, CtrlLog, Dirs, Places
  <2>2. CASE fifo[d] = <<>>
    BY <2>1, <2>2 DEF ReadCtrl
  <2>3. CASE fifo[d] # <<>>
    <3>1. Ctrl(d, Head(fifo[d]))
      BY <2>1, <2>3 DEF ReadCtrl
    <3>2. fifo[d] \in Seq(MainCmds \cup LogCmds)
      BY DEF TypeOK
    <3>3. Head(fifo[d]) \in Cmds
      BY <2>3, <3>2 DEF Cmds
    <3> QED
      BY <3>1, <3>3, CtrlForms
  <2> QED
    BY <2>2, <2>3
<1>5. CASE TermFlag
  <2>1. Ctrl("main", "x") \/ Idle
    BY <1>5 DEF TermFlag
  <2> QED
    BY <2>1, CtrlForms DEF Cmds, Dirs
<1>6. CASE Check
  <2>1. Idle \/ (Save("log", [svd["log"] EXCEPT !.want = "exit"]) /\ UNCHANGED procs)
    BY <1>6 DEF Check, CloseLog
  <2>2. /\ [svd["log"] EXCEPT !.want = "exit"] \in Svdir
        /\ [svd["log"] EXCEPT !.want = "exit"].pid = svd["log"].pid
        /\ [svd["log"] EXCEPT !.want = "exit"].state = svd["log"].state
    BY <1>1 DEF Dirs, Svdir
  <2>3. procs = Kill(NoPid, {})
    BY <1>1, RunsvAssumption DEF Kill
  <2>4. "log" \in Dirs /\ "x" \in Cmds
    BY DEF Dirs, Cmds
  <2> QED
    BY <2>1, <2>2, <2>3, <2>4 DEF Save, Adjust
<1>7. CASE UNCHANGED vars
  BY <1>7 DEF vars
<1>8. CASE \/ Iopause \/ ReapDone \/ IopauseTimeout \/ SendTerm
           \/ (\E c \in MainCmds : SendCmd("main", c))
           \/ (\E c \in LogCmds : SendCmd("log", c))
  BY <1>8 DEF Iopause, ReapDone, IopauseTimeout, SendTerm, SendCmd
<1> QED
  BY <1>2, <1>3, <1>4, <1>5, <1>6, <1>7, <1>8 DEF Next, Step

-----------------------------------------------------------------------------
(* Type correctness.                                                       *)

\* What a fork leaves: types kept, the new child named by the struct, and the
\* others only signalled.
LEMMA ForkFacts ==
  ASSUME TypeOK, NEW d \in Dirs, Forked(d)
  PROVE  \E p \in Pids, new \in Svdir, prog \in {"run", "finish"},
            old \in [Pids -> Proc], refrain \in Custom(d) :
           /\ svd[d].pid = NoPid \/ svd[d].state = "down"
           /\ old = Kill(svd[d].pid, StopSignals(new, refrain))
           /\ procs[p].st = "free"
           /\ procs' = [old EXCEPT ![p] = Child(d, prog)]
           /\ svd' = [svd EXCEPT ![d] = new]
           /\ shown' = [shown EXCEPT ![d] = new]
           /\ new.pid = p /\ new.state = prog
           /\ (prog = "finish" <=> svd[d].state = "finish")
<1>1. PICK s \in Svdir : s.pid = svd[d].pid /\ s.state = svd[d].state
                         /\ StartService(d, s)
  BY DEF Forked
<1>2. PICK p \in Pids, refrain \in Custom(d) :
    /\ procs[p].st = "free"
    /\ procs' = [Kill(s.pid, StopSignals(s, refrain)) EXCEPT
                   ![p] = Child(d, IF s.state = "finish" THEN "finish"
                                                         ELSE "run")]
    /\ Save(d, [s EXCEPT !.pid = p, !.ctrl = {},
                         !.state = IF @ = "finish" THEN @ ELSE "run"])
  BY <1>1 DEF StartService
<1> DEFINE new == [s EXCEPT !.pid = p, !.ctrl = {},
                            !.state = IF @ = "finish" THEN @ ELSE "run"]
           prog == IF s.state = "finish" THEN "finish" ELSE "run"
           old == Kill(s.pid, StopSignals(s, refrain))
<1>3. new \in Svdir /\ new.pid = p /\ new.state = prog /\ new.want = s.want
  BY DEF Svdir
<1>4. old \in [Pids -> Proc]
  BY KillFacts DEF TypeOK
<1>5. old = Kill(svd[d].pid, StopSignals(new, refrain))
  BY <1>1, <1>3 DEF StopSignals
<1>6. prog \in {"run", "finish"} /\ (prog = "finish" <=> svd[d].state = "finish")
  BY <1>1
<1>7. svd' = [svd EXCEPT ![d] = new] /\ shown' = [shown EXCEPT ![d] = new]
  BY <1>2 DEF Save
<1>8. procs' = [old EXCEPT ![p] = Child(d, prog)]
  BY <1>2
<1>9. svd[d].pid = NoPid \/ svd[d].state = "down"
  BY DEF Forked
<1> HIDE DEF new, prog, old
<1> USE <1>3, <1>4, <1>6
<1> WITNESS p \in Pids, new \in Svdir, prog \in {"run", "finish"},
           old \in [Pids -> Proc], refrain \in Custom(d)
<1> QED
  BY <1>2, <1>3, <1>4, <1>5, <1>6, <1>7, <1>8, <1>9

\* What an adjustment leaves.
LEMMA AdjustFacts ==
  ASSUME TypeOK, NEW d \in Dirs, NEW c, Adjust(d, c)
  PROVE  \E s \in Svdir, said \in Svdir, ps \in [Pids -> Proc] :
           /\ s.pid = svd[d].pid
           /\ s.state = svd[d].state \/ (c = "k" /\ s.state = "down")
           /\ \/ said = s
              \/ /\ said = shown[d]
                 /\ s = svd[d] \/ s = [svd[d] EXCEPT !.state = "down"]
           /\ svd' = [svd EXCEPT ![d] = s]
           /\ shown' = [shown EXCEPT ![d] = said]
           /\ procs' = ps
           /\ \A p \in Pids :
                /\ ps[p].of = procs[p].of
                /\ ps[p].prog = procs[p].prog
                /\ \A w \in {"free", "zombie", "failing"} :
                     ps[p].st = w <=> procs[p].st = w
                /\ procs[p].sig \subseteq ps[p].sig
<1>1. PICK pid, sigs : procs' = Kill(pid, sigs)
  BY DEF Adjust
<1>2. procs' \in [Pids -> Proc]
  BY <1>1, KillFacts DEF TypeOK
<1>3. \A p \in Pids :
        /\ procs'[p].of = procs[p].of
        /\ procs'[p].prog = procs[p].prog
        /\ \A w \in {"free", "zombie", "failing"} :
             procs'[p].st = w <=> procs[p].st = w
        /\ procs[p].sig \subseteq procs'[p].sig
  BY <1>1, KillFacts DEF TypeOK
<1> QED
  BY <1>2, <1>3 DEF Adjust

\* Reaping takes a zombie out of the table, and out of its struct.
LEMMA ReapFacts ==
  ASSUME TypeOK, NEW p \in Pids, Reap(p)
  PROVE  /\ procs[p].st = "zombie"
         /\ procs' = [procs EXCEPT ![p] = NoProc]
         /\ \/ /\ UNCHANGED <<svd, shown>>
               /\ \A d \in Dirs : svd[d].pid # p
            \/ \E d \in Dirs, s \in Svdir :
                 /\ svd[d].pid = p
                 /\ s.pid = NoPid
                 /\ s.state \in {"down", "finish"}
                 /\ svd' = [svd EXCEPT ![d] = s]
                 /\ shown' = [shown EXCEPT ![d] = s]
<1>1. \A d \in Dirs : svd[d] \in Svdir
  BY DEF TypeOK
<1>2. CASE p = svd["main"].pid
  <2>1. PICK finish \in FinishFile : Save("main", ReapedMain(svd["main"], finish))
    BY <1>2 DEF Reap
  <2> DEFINE s == ReapedMain(svd["main"], finish)
  <2>2. s \in Svdir /\ s.pid = NoPid /\ s.state \in {"down", "finish"}
    BY <1>1 DEF ReapedMain, Svdir, Dirs
  <2>3. svd' = [svd EXCEPT !["main"] = s] /\ shown' = [shown EXCEPT !["main"] = s]
    BY <2>1 DEF Save
  <2> HIDE DEF s
  <2> QED
    BY <1>2, <2>2, <2>3 DEF Reap, Dirs
<1>3. CASE p # svd["main"].pid /\ p = svd["log"].pid
  <2> DEFINE s == ReapedLog(svd["log"])
  <2>1. s \in Svdir /\ s.pid = NoPid /\ s.state \in {"down", "finish"}
    BY <1>1 DEF ReapedLog, Svdir, Dirs
  <2>2. svd' = [svd EXCEPT !["log"] = s] /\ shown' = [shown EXCEPT !["log"] = s]
    BY <1>3 DEF Reap, Save
  <2> HIDE DEF s
  <2> QED
    BY <1>3, <2>1, <2>2 DEF Reap, Dirs
<1>4. CASE p # svd["main"].pid /\ p # svd["log"].pid
  BY <1>4 DEF Reap, Dirs
<1> QED
  BY <1>2, <1>3, <1>4

LEMMA NoProcType == NoProc \in Proc
  BY DEF NoProc, Proc, Dirs

\* The structs, the status files and the processes keep their types.
LEMMA ServiceTypes ==
  ASSUME TypeOK, [Next]_vars
  PROVE  /\ svd' \in [Dirs -> Svdir]
         /\ shown' \in [Dirs -> Svdir]
         /\ procs' \in [Pids -> Proc]
<1>1. /\ svd \in [Dirs -> Svdir]
      /\ shown \in [Dirs -> Svdir]
      /\ procs \in [Pids -> Proc]
  BY DEF TypeOK
<1>2. ASSUME NEW d \in Dirs, NEW c \in Cmds, Adjust(d, c)
      PROVE  /\ svd' \in [Dirs -> Svdir]
             /\ shown' \in [Dirs -> Svdir]
             /\ procs' \in [Pids -> Proc]
  <2>1. PICK s \in Svdir, said \in Svdir, ps \in [Pids -> Proc] :
             /\ svd' = [svd EXCEPT ![d] = s]
             /\ shown' = [shown EXCEPT ![d] = said]
             /\ procs' = ps
    BY <1>2, AdjustFacts
  <2> QED
    BY <1>1, <2>1
<1>3. ASSUME NEW d \in Dirs, Forked(d)
      PROVE  /\ svd' \in [Dirs -> Svdir]
             /\ shown' \in [Dirs -> Svdir]
             /\ procs' \in [Pids -> Proc]
  <2>1. PICK p \in Pids, new \in Svdir, prog \in {"run", "finish"},
             old \in [Pids -> Proc] :
             /\ procs' = [old EXCEPT ![p] = Child(d, prog)]
             /\ svd' = [svd EXCEPT ![d] = new]
             /\ shown' = [shown EXCEPT ![d] = new]
    BY <1>3, ForkFacts
  <2>2. Child(d, prog) \in Proc
    BY ChildFacts
  <2> QED
    BY <1>1, <2>1, <2>2
<1>4. ASSUME NEW p \in Pids, Reap(p)
      PROVE  /\ svd' \in [Dirs -> Svdir]
             /\ shown' \in [Dirs -> Svdir]
             /\ procs' \in [Pids -> Proc]
  BY <1>1, <1>4, ReapFacts, NoProcType
<1>5. ASSUME NEW p \in Pids, Die(p)
      PROVE  /\ svd' \in [Dirs -> Svdir]
             /\ shown' \in [Dirs -> Svdir]
             /\ procs' \in [Pids -> Proc]
  <2>1. [procs[p] EXCEPT !.st = "zombie"] \in Proc
    BY <1>1 DEF Proc
  <2>2. /\ procs' = [procs EXCEPT ![p] = [procs[p] EXCEPT !.st = "zombie"]]
        /\ UNCHANGED <<svd, shown>>
    BY <1>5 DEF Die
  <2> QED
    BY <1>1, <2>1, <2>2
<1> QED
  BY <1>1, <1>2, <1>3, <1>4, <1>5, NextForms DEF Idle

\* The rest of the state keeps its types.
LEMMA LoopTypes ==
  ASSUME TypeOK, [Next]_vars
  PROVE  /\ pc' \in Places
         /\ fifo' \in [Dirs -> Seq(MainCmds \cup LogCmds)]
         /\ pending' \subseteq {"TERM", "CHLD"}
         /\ sigterm' \in BOOLEAN
         /\ logopen' \in BOOLEAN
         /\ sent' \in 0 .. MaxCmds
<1> USE DEF TypeOK, Places
<1>1. CASE StartLog \/ StartMain
  BY <1>1 DEF StartLog, StartMain
<1>2. CASE Iopause \/ IopauseTimeout \/ ReapDone
  BY <1>2 DEF Iopause, IopauseTimeout, ReapDone
<1>3. ASSUME NEW p \in Pids, Reap(p) \/ Die(p)
      PROVE  /\ pc' \in Places
             /\ fifo' \in [Dirs -> Seq(MainCmds \cup LogCmds)]
             /\ pending' \subseteq {"TERM", "CHLD"}
             /\ sigterm' \in BOOLEAN
             /\ logopen' \in BOOLEAN
             /\ sent' \in 0 .. MaxCmds
  BY <1>3 DEF Reap, Die
<1>4. CASE CtrlMain \/ CtrlLog
  <2>1. PICK d \in Dirs, to \in Places : \E from \in Places : ReadCtrl(d, from, to)
    BY <1>4 DEF CtrlMain, CtrlLog, Dirs
  <2>2. pc' = to /\ UNCHANGED <<pending, sigterm, logopen, sent>>
    BY <2>1 DEF ReadCtrl
  <2>3. fifo' = fifo \/ (fifo[d] # <<>> /\ fifo' = [fifo EXCEPT ![d] = Tail(@)])
    BY <2>1 DEF ReadCtrl
  <2>4. fifo' \in [Dirs -> Seq(MainCmds \cup LogCmds)]
    <3>1. fifo[d] # <<>> => Tail(fifo[d]) \in Seq(MainCmds \cup LogCmds)
      <4>1. fifo[d] \in Seq(MainCmds \cup LogCmds)
        OBVIOUS
      <4> QED
        BY <4>1
    <3> QED
      BY <2>3, <3>1
  <2> QED
    BY <2>2, <2>4
<1>5. CASE TermFlag \/ Check
  BY <1>5 DEF TermFlag, Check, CloseLog
<1>6. ASSUME NEW d \in Dirs, NEW c \in MainCmds \cup LogCmds, SendCmd(d, c)
      PROVE  /\ pc' \in Places
             /\ fifo' \in [Dirs -> Seq(MainCmds \cup LogCmds)]
             /\ pending' \subseteq {"TERM", "CHLD"}
             /\ sigterm' \in BOOLEAN
             /\ logopen' \in BOOLEAN
             /\ sent' \in 0 .. MaxCmds
  BY <1>6, RunsvAssumption DEF SendCmd, Sending
<1>7. CASE SendTerm
  BY <1>7, RunsvAssumption DEF SendTerm, Sending
<1>8. CASE UNCHANGED vars
  BY <1>8 DEF vars
<1> QED
  BY <1>1, <1>2, <1>3, <1>4, <1>5, <1>6, <1>7, <1>8 DEF Next, Step, Dirs

\* Every reachable state of runsv is well typed, whatever the pids, the
\* commands and their number.
THEOREM TypeCorrect == Spec => []TypeOK
<1>1. Init => TypeOK
  <2> SUFFICES ASSUME Init PROVE TypeOK
    OBVIOUS
  <2>1. svd \in [Dirs -> Svdir]
    BY RunsvAssumption DEF Init, Svdir
  <2>2. procs \in [Pids -> Proc]
    BY NoProcType DEF Init
  <2>3. fifo \in [Dirs -> Seq(MainCmds \cup LogCmds)]
    <3>1. <<>> \in Seq(MainCmds \cup LogCmds)
      OBVIOUS
    <3> QED
      BY <3>1 DEF Init
  <2>4. shown = svd /\ logopen \in BOOLEAN /\ sent \in 0 .. MaxCmds
    BY RunsvAssumption DEF Init
  <2> QED
    BY <2>1, <2>2, <2>3, <2>4 DEF Init, TypeOK, Places
<1>2. TypeOK /\ [Next]_vars => TypeOK'
  BY ServiceTypes, LoopTypes DEF TypeOK
<1> QED
  BY <1>1, <1>2, PTL DEF Spec

-----------------------------------------------------------------------------
(* The pids in the structs.                                                *)

LEMMA PidsStep ==
  ASSUME TypeOK, PidsAreChildren, [Next]_vars
  PROVE  PidsAreChildren'
<1> USE DEF PidsAreChildren
<1>1. /\ svd \in [Dirs -> Svdir]
      /\ procs \in [Pids -> Proc]
      /\ NoPid \notin Pids
      /\ \A e \in Dirs : svd[e].pid # NoPid => svd[e].pid \in Pids
  BY RunsvAssumption DEF TypeOK, Svdir
<1>2. ASSUME NEW d \in Dirs, NEW c \in Cmds, Adjust(d, c)
      PROVE  PidsAreChildren'
  <2>1. PICK s \in Svdir, ps \in [Pids -> Proc] :
           /\ s.pid = svd[d].pid
           /\ s.state = svd[d].state \/ s.state = "down"
           /\ svd' = [svd EXCEPT ![d] = s]
           /\ procs' = ps
           /\ \A p \in Pids : /\ ps[p].of = procs[p].of
                              /\ ps[p].prog = procs[p].prog
                              /\ ps[p].st = "free" <=> procs[p].st = "free"
    BY <1>2, AdjustFacts
  <2> QED
    BY <1>1, <2>1
<1>3. ASSUME NEW d \in Dirs, Forked(d)
      PROVE  PidsAreChildren'
  <2>1. PICK p \in Pids, new \in Svdir, prog \in {"run", "finish"},
             old \in [Pids -> Proc], refrain \in Custom(d) :
           /\ old = Kill(svd[d].pid, StopSignals(new, refrain))
           /\ procs[p].st = "free"
           /\ procs' = [old EXCEPT ![p] = Child(d, prog)]
           /\ svd' = [svd EXCEPT ![d] = new]
           /\ new.pid = p /\ new.state = prog
    BY <1>3, ForkFacts
  <2>2. \A q \in Pids : /\ old[q].of = procs[q].of
                        /\ old[q].prog = procs[q].prog
                        /\ old[q].st = "free" <=> procs[q].st = "free"
    BY <1>1, <2>1, KillFacts
  <2>3. /\ procs'[p].of = d /\ procs'[p].prog = prog
        /\ procs'[p].st # "free"
    BY <2>1, ChildFacts
  <2>4. \A q \in Pids : q # p => procs'[q] = old[q]
    BY <2>1
  <2>5. \A e \in Dirs : e # d => svd'[e] = svd[e] /\ svd[e].pid # p
    BY <1>1, <2>1
  <2>6. svd'[d] = new
    BY <1>1, <2>1
  <2> QED
    BY <1>1, <2>1, <2>2, <2>3, <2>4, <2>5, <2>6
<1>4. ASSUME NEW p \in Pids, Reap(p)
      PROVE  PidsAreChildren'
  <2>1. procs' = [procs EXCEPT ![p] = NoProc]
    BY <1>4, ReapFacts
  <2>2. CASE UNCHANGED svd /\ \A d \in Dirs : svd[d].pid # p
    BY <1>1, <2>1, <2>2
  <2>3. CASE \E d \in Dirs, s \in Svdir :
               /\ svd[d].pid = p
               /\ s.pid = NoPid
               /\ s.state \in {"down", "finish"}
               /\ svd' = [svd EXCEPT ![d] = s]
    BY <1>1, <2>1, <2>3
  <2> QED
    BY <1>4, <2>2, <2>3, ReapFacts
<1>5. ASSUME NEW p \in Pids, Die(p)
      PROVE  PidsAreChildren'
  <2>1. svd' = svd /\ procs' = [procs EXCEPT ![p].st = "zombie"]
    BY <1>5 DEF Die
  <2>2. \A q \in Pids : /\ procs'[q].of = procs[q].of
                        /\ procs'[q].prog = procs[q].prog
                        /\ procs'[q].st = "free" => procs[q].st = "free"
    BY <1>1, <2>1 DEF Proc
  <2> QED
    BY <1>1, <2>1, <2>2
<1> QED
  BY <1>2, <1>3, <1>4, <1>5, NextForms DEF Idle

\* No signal of runsv can go astray: every pid it keeps is a child of that
\* service that it has not waited for, and a service in state run has one.
THEOREM PidsSafe == Spec => []PidsAreChildren
<1>1. Init => PidsAreChildren
  BY DEF Init, PidsAreChildren
<1>2. TypeOK /\ PidsAreChildren /\ [Next]_vars => PidsAreChildren'
  BY PidsStep
<1> QED
  BY <1>1, <1>2, TypeCorrect, PTL DEF Spec

-----------------------------------------------------------------------------
(* The self pipe.                                                          *)

\* runsv is never asleep with a dead child it will not be woken for.
THEOREM WakeupSafe == Spec => []NoLostWakeup
<1> USE DEF NoLostWakeup
<1>1. Init => NoLostWakeup
  BY DEF Init, NoProc
<1>2. TypeOK /\ NoLostWakeup /\ [Next]_vars => NoLostWakeup'
  <2> SUFFICES ASSUME TypeOK, NoLostWakeup, [Next]_vars
               PROVE  NoLostWakeup'
    OBVIOUS
  <2>1. procs \in [Pids -> Proc]
    BY DEF TypeOK
  \* A zombie was one before, unless it has just died.
  <2>2. \/ \A p \in Pids : procs'[p].st = "zombie" => procs[p].st = "zombie"
        \/ \E p \in Pids : Die(p)
    <3>1. ASSUME NEW d \in Dirs, NEW c \in Cmds, Adjust(d, c)
          PROVE  \A p \in Pids : procs'[p].st = "zombie" => procs[p].st = "zombie"
      BY <3>1, AdjustFacts
    <3>2. ASSUME NEW d \in Dirs, Forked(d)
          PROVE  \A p \in Pids : procs'[p].st = "zombie" => procs[p].st = "zombie"
      <4>1. PICK p \in Pids, new \in Svdir, prog \in {"run", "finish"},
                 old \in [Pids -> Proc], refrain \in Custom(d) :
               /\ old = Kill(svd[d].pid, StopSignals(new, refrain))
               /\ procs' = [old EXCEPT ![p] = Child(d, prog)]
        BY <3>2, ForkFacts
      <4>2. \A q \in Pids : old[q].st = "zombie" <=> procs[q].st = "zombie"
        BY <2>1, <4>1, KillFacts
      <4>3. Child(d, prog).st # "zombie"
        BY ChildFacts
      <4> QED
        BY <4>1, <4>2, <4>3
    <3>3. ASSUME NEW p \in Pids, Reap(p)
          PROVE  \A q \in Pids : procs'[q].st = "zombie" => procs[q].st = "zombie"
      BY <2>1, <3>3, ReapFacts DEF NoProc
    <3> QED
      BY <3>1, <3>2, <3>3, NextForms DEF Idle
  <2>3. CASE \E p \in Pids : Die(p)
    BY <2>3 DEF Die
  <2>4. CASE ~(\E p \in Pids : Die(p))
    <3>1. pending \subseteq pending' \/ Iopause
      BY <2>4 DEF Next, Step, vars, StartLog, StartMain, IopauseTimeout, Reap,
                  ReapDone, CtrlMain, CtrlLog, ReadCtrl, TermFlag, Check,
                  SendCmd, SendTerm
    <3>2. CASE Iopause
      BY <3>2 DEF Iopause
    <3>3. CASE ReapDone
      BY <2>1, <3>3 DEF ReapDone
    <3>4. CASE pending \subseteq pending' /\ ~ReapDone
      <4>1. pc \in {"reap", "exited"} => pc' = pc
        BY <2>4, <3>4 DEF Next, Step, vars, StartLog, StartMain, Iopause,
                  IopauseTimeout, Reap, CtrlMain, CtrlLog, ReadCtrl, TermFlag,
                  Check, SendCmd, SendTerm
      <4> QED
        BY <2>2, <2>4, <3>4, <4>1
    <3> QED
      BY <3>1, <3>2, <3>3, <3>4
  <2> QED
    BY <2>3, <2>4
<1> QED
  BY <1>1, <1>2, TypeCorrect, PTL DEF Spec

-----------------------------------------------------------------------------
(* The status files.                                                       *)

\* The status files are current after every step, k's state excepted.
THEOREM StatusSafe == Spec => []StatusCurrent
<1> USE DEF StatusCurrent
<1>1. Init => StatusCurrent
  BY DEF Init
<1>2. TypeOK /\ StatusCurrent /\ [Next]_vars => StatusCurrent'
  <2> SUFFICES ASSUME TypeOK, StatusCurrent, [Next]_vars
               PROVE  StatusCurrent'
    OBVIOUS
  <2>1. svd \in [Dirs -> Svdir] /\ shown \in [Dirs -> Svdir]
    BY DEF TypeOK
  <2>2. ASSUME NEW d \in Dirs, NEW c \in Cmds, Adjust(d, c)
        PROVE  StatusCurrent'
    <3>1. PICK s \in Svdir, said \in Svdir :
             /\ \/ said = s
                \/ /\ said = shown[d]
                   /\ s = svd[d] \/ s = [svd[d] EXCEPT !.state = "down"]
             /\ svd' = [svd EXCEPT ![d] = s]
             /\ shown' = [shown EXCEPT ![d] = said]
      BY <2>2, AdjustFacts
    <3>2. said = s \/ s = [said EXCEPT !.state = "down"]
      BY <2>1, <3>1 DEF Svdir
    <3> QED
      BY <2>1, <3>1, <3>2
  <2>3. ASSUME NEW d \in Dirs, Forked(d)
        PROVE  StatusCurrent'
    <3>1. PICK new \in Svdir : /\ svd' = [svd EXCEPT ![d] = new]
                               /\ shown' = [shown EXCEPT ![d] = new]
      BY <2>3, ForkFacts
    <3> QED
      BY <2>1, <3>1
  <2>4. ASSUME NEW p \in Pids, Reap(p)
        PROVE  StatusCurrent'
    BY <2>1, <2>4, ReapFacts
  <2>5. ASSUME NEW p \in Pids, Die(p)
        PROVE  StatusCurrent'
    BY <2>5 DEF Die
  <2> QED
    BY <2>2, <2>3, <2>4, <2>5, NextForms DEF Idle
<1> QED
  BY <1>1, <1>2, TypeCorrect, PTL DEF Spec

-----------------------------------------------------------------------------
(* Orphans.                                                                *)

\* Where no control/? refrains, a running process that runsv no longer keeps
\* the pid of has been sent TERM or KILL, whatever commands were given.
THEOREM OrphansSignalled ==
  ASSUME Refrain = {FALSE}
  PROVE  Spec => []NoSilentOrphan
<1> USE DEF NoSilentOrphan, Alive
<1>1. Init => NoSilentOrphan
  BY DEF Init, NoProc
<1>2. TypeOK /\ PidsAreChildren /\ NoSilentOrphan /\ [Next]_vars => NoSilentOrphan'
  <2> SUFFICES ASSUME TypeOK, PidsAreChildren, NoSilentOrphan, [Next]_vars
               PROVE  NoSilentOrphan'
    OBVIOUS
  <2>1. /\ svd \in [Dirs -> Svdir]
        /\ procs \in [Pids -> Proc]
        /\ NoPid \notin Pids
        /\ \A p \in Pids : procs[p].of \in Dirs
        /\ \A d \in Dirs : svd[d].pid # NoPid =>
             svd[d].pid \in Pids /\ procs[svd[d].pid].of = d
    BY RunsvAssumption DEF TypeOK, Svdir, Proc, PidsAreChildren
  <2>2. ASSUME NEW d \in Dirs, NEW c \in Cmds, Adjust(d, c)
        PROVE  NoSilentOrphan'
    <3>1. PICK s \in Svdir, ps \in [Pids -> Proc] :
             /\ s.pid = svd[d].pid
             /\ svd' = [svd EXCEPT ![d] = s]
             /\ procs' = ps
             /\ \A p \in Pids :
                  /\ ps[p].of = procs[p].of
                  /\ \A w \in {"free", "zombie", "failing"} :
                       ps[p].st = w <=> procs[p].st = w
                  /\ procs[p].sig \subseteq ps[p].sig
      BY <2>2, AdjustFacts
    <3>2. \A e \in Dirs : svd'[e].pid = svd[e].pid
      BY <2>1, <3>1
    <3>3. \A p \in Pids : ps[p].st \in {"live", "stopped", "failing"}
                            => procs[p].st \in {"live", "stopped", "failing"}
      BY <2>1, <3>1 DEF Proc
    <3> QED
      BY <2>1, <3>1, <3>2, <3>3
  <2>3. ASSUME NEW d \in Dirs, Forked(d)
        PROVE  NoSilentOrphan'
    <3>1. PICK p \in Pids, new \in Svdir, prog \in {"run", "finish"},
               old \in [Pids -> Proc], refrain \in Custom(d) :
             /\ old = Kill(svd[d].pid, StopSignals(new, refrain))
             /\ procs[p].st = "free"
             /\ procs' = [old EXCEPT ![p] = Child(d, prog)]
             /\ svd' = [svd EXCEPT ![d] = new]
             /\ new.pid = p
      BY <2>3, ForkFacts
    <3>2. "TERM" \in StopSignals(new, refrain)
      BY DEF Custom, StopSignals
    <3>3. \A q \in Pids :
            /\ old[q].of = procs[q].of
            /\ \A w \in {"free", "zombie", "failing"} :
                 old[q].st = w <=> procs[q].st = w
            /\ procs[q].sig \subseteq old[q].sig
      BY <2>1, <3>1, KillFacts
    <3>4. svd[d].pid # NoPid /\ old[svd[d].pid].st \notin {"free", "zombie"}
            => old[svd[d].pid].sig # {}
      BY <2>1, <3>1, <3>2, KillFacts
    <3>5. \A e \in Dirs : svd'[e].pid = IF e = d THEN p ELSE svd[e].pid
      BY <2>1, <3>1
    <3>6. SUFFICES ASSUME NEW q \in Pids,
                          procs'[q].st \in {"live", "stopped", "failing"},
                          svd'[procs'[q].of].pid # q
                   PROVE  procs'[q].sig # {}
      OBVIOUS
    <3>7. CASE q = p
      <4>1. procs'[q].of = d
        BY <3>1, <3>7, ChildFacts
      <4> QED
        BY <3>5, <3>6, <3>7, <4>1
    <3>8. CASE q # p
      <4>1. procs'[q] = old[q] /\ old[q].of = procs[q].of
        BY <3>1, <3>3, <3>8
      <4>2. procs[q].st \in {"live", "stopped", "failing"}
        BY <2>1, <3>3, <3>6, <4>1 DEF Proc
      <4>3. CASE svd[d].pid = q
        BY <2>1, <3>4, <3>6, <4>1, <4>3
      <4>4. CASE svd[d].pid # q
        BY <2>1, <3>3, <3>5, <3>6, <4>1, <4>2, <4>4
      <4> QED
        BY <4>3, <4>4
    <3> QED
      BY <3>7, <3>8
  <2>4. ASSUME NEW p \in Pids, Reap(p)
        PROVE  NoSilentOrphan'
    <3>1. procs' = [procs EXCEPT ![p] = NoProc]
      BY <2>4, ReapFacts
    <3>2. \A q \in Pids : q # p => procs'[q] = procs[q]
      BY <3>1
    <3>3. procs'[p].st = "free"
      BY <2>1, <3>1 DEF NoProc
    <3>4. \A e \in Dirs : svd'[e].pid = svd[e].pid \/ svd[e].pid = p
      BY <2>1, <2>4, ReapFacts
    <3> QED
      BY <2>1, <3>2, <3>3, <3>4
  <2>5. ASSUME NEW p \in Pids, Die(p)
        PROVE  NoSilentOrphan'
    <3>1. svd' = svd /\ procs' = [procs EXCEPT ![p].st = "zombie"]
      BY <2>5 DEF Die
    <3>2. procs'[p].st = "zombie" /\ \A q \in Pids : q # p => procs'[q] = procs[q]
      BY <2>1, <3>1 DEF Proc
    <3> QED
      BY <2>1, <3>1, <3>2
  <2> QED
    BY <2>2, <2>3, <2>4, <2>5, NextForms DEF Idle
<1> QED
  BY <1>1, <1>2, TypeCorrect, PidsSafe, PTL DEF Spec

-----------------------------------------------------------------------------
(* Without k: one instance of each service, and a clean exit.              *)

\* OneInstance is not inductive: a service that is down must have no child for
\* the next start to be the only one, and k is what breaks that.
DownIsGone == \A d \in Dirs : svd[d].state = "down" => svd[d].pid = NoPid

LoneInv == OneInstance /\ DownIsGone

LEMMA LoneStep ==
  ASSUME "k" \notin MainCmds \cup LogCmds,
         TypeOK, PidsAreChildren, LoneInv, [Next]_vars
  PROVE  LoneInv'
<1> USE DEF LoneInv, OneInstance, DownIsGone
<1>1. /\ svd \in [Dirs -> Svdir]
      /\ procs \in [Pids -> Proc]
      /\ NoPid \notin Pids
      /\ \A p \in Pids : procs[p].of \in Dirs
      /\ \A e \in Dirs : svd[e].pid # NoPid =>
             /\ svd[e].pid \in Pids
             /\ procs[svd[e].pid].of = e
             /\ procs[svd[e].pid].st # "free"
  BY RunsvAssumption DEF TypeOK, Svdir, Proc, PidsAreChildren
<1>2. ASSUME NEW d \in Dirs, NEW c \in Cmds, Adjust(d, c)
      PROVE  LoneInv'
  <2>1. c # "k"
    BY DEF Cmds
  <2>2. PICK s \in Svdir, ps \in [Pids -> Proc] :
           /\ s.pid = svd[d].pid
           /\ s.state = svd[d].state
           /\ svd' = [svd EXCEPT ![d] = s]
           /\ procs' = ps
           /\ \A p \in Pids : /\ ps[p].of = procs[p].of
                              /\ ps[p].st = "free" <=> procs[p].st = "free"
    BY <1>2, <2>1, AdjustFacts
  <2> QED
    BY <1>1, <2>2
<1>3. ASSUME NEW d \in Dirs, Forked(d)
      PROVE  LoneInv'
  <2>1. svd[d].pid = NoPid
    BY <1>3 DEF Forked
  <2>2. PICK p \in Pids, new \in Svdir, prog \in {"run", "finish"},
             old \in [Pids -> Proc], refrain \in Custom(d) :
           /\ old = Kill(svd[d].pid, StopSignals(new, refrain))
           /\ procs[p].st = "free"
           /\ procs' = [old EXCEPT ![p] = Child(d, prog)]
           /\ svd' = [svd EXCEPT ![d] = new]
           /\ new.pid = p /\ new.state = prog
    BY <1>3, ForkFacts
  <2>3. \A q \in Pids : /\ old[q].of = procs[q].of
                        /\ old[q].st = "free" <=> procs[q].st = "free"
    BY <1>1, <2>2, KillFacts
  <2>4. procs'[p].of = d /\ \A q \in Pids : q # p => procs'[q] = old[q]
    BY <2>2, ChildFacts
  <2>5. \A e \in Dirs : svd'[e] = IF e = d THEN new ELSE svd[e]
    BY <1>1, <2>2
  \* d had no child, so none of the others is one of d's.
  <2>6. \A q \in Pids : procs[q].st # "free" => procs[q].of # d
    BY <1>1, <2>1
  <2>7. OneInstance'
    BY <1>1, <2>2, <2>3, <2>4, <2>5, <2>6
  <2>8. DownIsGone'
    BY <2>2, <2>5
  <2> QED
    BY <2>7, <2>8
<1>4. ASSUME NEW p \in Pids, Reap(p)
      PROVE  LoneInv'
  <2>1. procs[p].st = "zombie" /\ procs' = [procs EXCEPT ![p] = NoProc]
    BY <1>4, ReapFacts
  <2>2. procs'[p].st = "free" /\ \A q \in Pids : q # p => procs'[q] = procs[q]
    BY <1>1, <2>1 DEF NoProc
  <2>3. PICK d \in Dirs, s \in Svdir :
             /\ svd[d].pid = p
             /\ s.pid = NoPid
             /\ svd' = [svd EXCEPT ![d] = s]
    BY <1>1, <1>4, <2>1, ReapFacts
  <2> QED
    BY <1>1, <2>2, <2>3
<1>5. ASSUME NEW p \in Pids, Die(p)
      PROVE  LoneInv'
  <2>1. /\ svd' = svd /\ procs' = [procs EXCEPT ![p].st = "zombie"]
        /\ procs[p].st # "free"
    BY <1>5 DEF Die
  <2>2. /\ procs'[p].of = procs[p].of
        /\ \A q \in Pids : q # p => procs'[q] = procs[q]
    BY <1>1, <2>1 DEF Proc
  <2> QED
    BY <1>1, <2>1, <2>2
<1> QED
  BY <1>2, <1>3, <1>4, <1>5, NextForms DEF Idle

\* Without k, every child there is belongs to the struct of its service: there
\* are never two instances of a service, nor ./run beside ./finish.
THEOREM LoneInstance ==
  ASSUME "k" \notin MainCmds \cup LogCmds
  PROVE  Spec => []OneInstance
<1>1. Init => LoneInv
  BY DEF Init, LoneInv, OneInstance, DownIsGone, NoProc
<1>2. TypeOK /\ PidsAreChildren /\ LoneInv /\ [Next]_vars => LoneInv'
  BY LoneStep
<1>3. LoneInv => OneInstance
  BY DEF LoneInv
<1> QED
  BY <1>1, <1>2, <1>3, TypeCorrect, PidsSafe, PTL DEF Spec

\* What only the loop's place and the pipe need.
ExitInv == pc = "exited" => \A d \in Dirs : svd[d].pid = NoPid

\* runsv takes no step once it has exited.
LEMMA ExitedStays ==
  ASSUME pc = "exited", [Next]_vars
  PROVE  UNCHANGED <<pc, svd, procs, logopen>>
BY DEF Next, Step, vars, StartLog, StartMain, Iopause, IopauseTimeout, Reap,
       ReapDone, CtrlMain, CtrlLog, ReadCtrl, TermFlag, Check, SendCmd,
       SendTerm, Sending, Die

\* Only Check makes runsv exit or close the pipe.
LEMMA OnlyCheck ==
  ASSUME [Next]_vars, ~Check
  PROVE  /\ pc' = "exited" => pc = "exited"
         /\ logopen' = logopen
BY DEF Next, Step, vars, StartLog, StartMain, Iopause, IopauseTimeout, Reap,
       ReapDone, CtrlMain, CtrlLog, ReadCtrl, TermFlag, SendCmd, SendTerm,
       Sending, Die

\* runsv exits only with no child in either struct.
LEMMA ExitStep ==
  ASSUME LoneInv, ExitInv, [Next]_vars
  PROVE  ExitInv'
<1>1. CASE pc = "exited"
  BY <1>1, ExitedStays DEF ExitInv
<1>2. CASE Check
  BY <1>2 DEF Check, CloseLog, Leaving, ExitInv, LoneInv, DownIsGone, Dirs
<1>3. CASE pc # "exited" /\ ~Check
  BY <1>3, OnlyCheck DEF ExitInv
<1> QED
  BY <1>1, <1>2, <1>3

\* Without k, runsv leaves no process behind when it exits.
THEOREM CleanExit ==
  ASSUME "k" \notin MainCmds \cup LogCmds
  PROVE  Spec => []ExitIsClean
<1>1. Init => ExitInv /\ LoneInv
  BY DEF Init, ExitInv, LoneInv, OneInstance, DownIsGone, NoProc
<1>2. TypeOK /\ PidsAreChildren /\ LoneInv /\ [Next]_vars => LoneInv'
  BY LoneStep
<1>3. LoneInv /\ ExitInv /\ [Next]_vars => ExitInv'
  BY ExitStep
<1>4. TypeOK /\ LoneInv /\ ExitInv => ExitIsClean
  <2> SUFFICES ASSUME TypeOK, LoneInv, ExitInv, pc = "exited", NEW p \in Pids
               PROVE  procs[p].st = "free"
    BY DEF ExitIsClean
  <2>1. procs[p].of \in Dirs
    BY DEF TypeOK, Proc
  <2> QED
    BY <2>1, RunsvAssumption DEF LoneInv, OneInstance, ExitInv
<1> QED
  BY <1>1, <1>2, <1>3, <1>4, TypeCorrect, PidsSafe, PTL DEF Spec

-----------------------------------------------------------------------------
(* Without k: the log pipe.                                                *)

\* Without k, a program of the service that got past its execve always has a
\* pipe to write to that runsv keeps open.
THEOREM PipeKept ==
  ASSUME "k" \notin MainCmds \cup LogCmds
  PROVE  Spec => []NoBrokenPipe
<1> USE DEF NoBrokenPipe
<1>1. Init => NoBrokenPipe /\ LoneInv
  BY DEF Init, LoneInv, OneInstance, DownIsGone, NoProc
<1>2. TypeOK /\ PidsAreChildren /\ LoneInv /\ [Next]_vars => LoneInv'
  BY LoneStep
<1>3. TypeOK /\ LoneInv /\ NoBrokenPipe /\ [Next]_vars => NoBrokenPipe'
  <2> SUFFICES ASSUME TypeOK, LoneInv, NoBrokenPipe, [Next]_vars
               PROVE  NoBrokenPipe'
    OBVIOUS
  <2>1. procs \in [Pids -> Proc]
    BY DEF TypeOK
  <2>2. CASE Check
    <3>1. \/ logopen' = logopen
          \/ svd["main"].state = "down"
      BY <2>2 DEF Check, CloseLog, Leaving
    <3>2. procs' = procs
      BY <2>2 DEF Check, CloseLog, Leaving
    <3>3. svd["main"].state = "down" => \A p \in Pids :
            procs[p].of = "main" => procs[p].st = "free"
      BY RunsvAssumption DEF LoneInv, OneInstance, DownIsGone, Dirs
    <3> QED
      BY <3>1, <3>2, <3>3
  <2>3. CASE ~Check
    <3>1. logopen' = logopen
      BY <2>3, OnlyCheck
    <3>2. ASSUME NEW d \in Dirs, NEW c \in Cmds, Adjust(d, c)
          PROVE  NoBrokenPipe'
      <4>1. \A p \in Pids :
              /\ procs'[p].of = procs[p].of
              /\ procs'[p] \in Proc
              /\ \A w \in {"free", "zombie", "failing"} :
                   procs'[p].st = w <=> procs[p].st = w
        BY <3>2, AdjustFacts
      <4>2. \A p \in Pids : procs'[p].st \in {"live", "stopped"}
                              => procs[p].st \in {"live", "stopped"}
        BY <2>1, <4>1 DEF Proc
      <4> QED
        BY <3>1, <4>1, <4>2
    <3>3. ASSUME NEW d \in Dirs, Forked(d)
          PROVE  NoBrokenPipe'
      <4>1. PICK p \in Pids, new \in Svdir, prog \in {"run", "finish"},
                 old \in [Pids -> Proc], refrain \in Custom(d) :
               /\ old = Kill(svd[d].pid, StopSignals(new, refrain))
               /\ procs' = [old EXCEPT ![p] = Child(d, prog)]
        BY <3>3, ForkFacts
      <4>2. \A q \in Pids :
              /\ old[q].of = procs[q].of
              /\ \A w \in {"free", "zombie", "failing"} :
                   old[q].st = w <=> procs[q].st = w
        BY <2>1, <4>1, KillFacts
      <4>3. \A q \in Pids : old[q].st \in {"live", "stopped"}
                              => procs[q].st \in {"live", "stopped"}
        BY <2>1, <4>2 DEF Proc
      <4>4. HasLog /\ ~logopen => procs'[p].st = "failing"
        BY <4>1, ChildFacts
      <4>5. \A q \in Pids : q # p => procs'[q] = old[q]
        BY <4>1
      <4> QED
        BY <3>1, <4>2, <4>3, <4>4, <4>5
    <3>4. ASSUME NEW p \in Pids, Reap(p) \/ Die(p)
          PROVE  NoBrokenPipe'
      <4>1. procs'[p].st \in {"free", "zombie"}
        BY <2>1, <3>4 DEF Reap, Die, NoProc, Proc
      <4>2. \A q \in Pids : q # p => procs'[q] = procs[q]
        BY <2>1, <3>4 DEF Reap, Die
      <4> QED
        BY <3>1, <4>1, <4>2
    <3> QED
      BY <3>1, <3>2, <3>3, <3>4, NextForms DEF Idle
  <2> QED
    BY <2>2, <2>3
<1> QED
  BY <1>1, <1>2, <1>3, TypeCorrect, PidsSafe, PTL DEF Spec

-----------------------------------------------------------------------------
(* Without k, runsv implements Lifecycle.                                  *)

\* What the struct of the service says of its phase.
Face ==
  IF svd["main"].pid = NoPid
    THEN IF svd["main"].state = "finish" THEN "ended" ELSE "down"
    ELSE svd["main"].state

\* By the invariants it says what is there.
LEMMA PhaseIsFace ==
  TypeOK /\ PidsAreChildren /\ LoneInv => Phase = Face
<1> SUFFICES ASSUME TypeOK, PidsAreChildren, LoneInv
             PROVE  Phase = Face
  OBVIOUS
<1> DEFINE main == svd["main"]
<1>1. /\ main \in Svdir
      /\ "main" \in Dirs
      /\ NoPid \notin Pids
  BY RunsvAssumption DEF TypeOK, Dirs
<1>2. \A p \in Pids : procs[p].of = "main" /\ procs[p].st # "free" => p = main.pid
  BY DEF LoneInv, OneInstance
<1>3. CASE main.pid = NoPid
  <2>1. MainProgs("run") = {} /\ MainProgs("finish") = {}
    BY <1>1, <1>2, <1>3 DEF MainProgs
  <2> QED
    BY <1>3, <2>1 DEF Phase, Face
<1>4. CASE main.pid # NoPid
  <2>1. /\ main.pid \in Pids
        /\ procs[main.pid].of = "main"
        /\ procs[main.pid].st # "free"
        /\ procs[main.pid].prog = main.state
        /\ main.state \in {"run", "finish"}
    BY <1>1, <1>4 DEF PidsAreChildren, LoneInv, DownIsGone, Svdir
  <2>2. MainProgs(main.state) # {}
    BY <2>1 DEF MainProgs
  <2>3. \A prog : prog # main.state => MainProgs(prog) = {}
    BY <1>2, <2>1 DEF MainProgs
  <2> QED
    BY <1>4, <2>1, <2>2, <2>3 DEF Phase, Face
<1> QED
  BY <1>3, <1>4

\* runsv without k implements Lifecycle: what exists of the service goes
\* through ./run, ./finish and nothing in that order, and runsv exits only
\* when nothing does.
THEOREM RefinesLifecycle ==
  ASSUME "k" \notin MainCmds \cup LogCmds
  PROVE  Spec => ImplementsLifecycle
<1> DEFINE Inv == TypeOK /\ PidsAreChildren /\ LoneInv /\ ExitInv
<1>1. Init => LoneInv /\ ExitInv
  BY DEF Init, ExitInv, LoneInv, OneInstance, DownIsGone, NoProc
<1>2. TypeOK /\ PidsAreChildren /\ LoneInv /\ [Next]_vars => LoneInv'
  BY LoneStep
<1>3. LoneInv /\ ExitInv /\ [Next]_vars => ExitInv'
  BY ExitStep
<1>4. Init => Abstract!Init
  <2> SUFFICES ASSUME Init PROVE Abstract!Init
    OBVIOUS
  <2>1. MainProgs("run") = {} /\ MainProgs("finish") = {}
    BY DEF Init, MainProgs, NoProc
  <2>2. svd["main"].state = "down" /\ pc # "exited"
    BY DEF Init, Dirs
  <2> QED
    BY <2>1, <2>2 DEF Abstract!Init, Phase
<1>5. Inv /\ Inv' /\ [Next]_vars => [Abstract!Next]_(Abstract!vars)
  <2> SUFFICES ASSUME Inv, Inv', [Next]_vars
               PROVE  [Abstract!Next]_(Abstract!vars)
    OBVIOUS
  <2>1. Phase = Face
    BY PhaseIsFace
  <2>2. Phase' = Face'
    <3>1. (TypeOK /\ PidsAreChildren /\ LoneInv)' => (Phase = Face)'
      BY PhaseIsFace, PTL
    <3> QED
      BY <3>1
  <2>3. /\ svd \in [Dirs -> Svdir] /\ svd["main"] \in Svdir
        /\ "main" \in Dirs /\ NoPid \notin Pids
    BY RunsvAssumption DEF TypeOK, Dirs
  <2> DEFINE Same == Face' = Face /\ (pc' = "exited" <=> pc = "exited")
  <2>4. Same => [Abstract!Next]_(Abstract!vars)
    BY <2>1, <2>2 DEF Abstract!vars
  <2>5. CASE pc = "exited"
    BY <2>4, <2>5, ExitedStays DEF Face
  <2>6. CASE pc # "exited" /\ Check
    <3>1. svd'["main"] = svd["main"]
      BY <2>3, <2>6 DEF Check, CloseLog, Save
    <3>2. pc' = "exited" => Face = "down"
      BY <2>6 DEF Check, Leaving, Face, LoneInv, DownIsGone, Dirs
    <3>3. Face' = Face
      BY <3>1 DEF Face
    <3>4. CASE pc' = "exited"
      BY <2>1, <2>2, <2>6, <3>2, <3>3, <3>4 DEF Abstract!Next, Abstract!Leave
    <3> QED
      BY <2>4, <2>6, <3>3, <3>4
  <2>7. CASE pc # "exited" /\ ~Check
    <3>1. pc' # "exited"
      BY <2>7, OnlyCheck
    <3>2. ASSUME NEW d \in Dirs, NEW c \in Cmds, Adjust(d, c)
          PROVE  Same
      <4>1. c # "k"
        BY DEF Cmds
      <4>2. PICK s \in Svdir :
               /\ s.pid = svd[d].pid
               /\ s.state = svd[d].state
               /\ svd' = [svd EXCEPT ![d] = s]
        BY <3>2, <4>1, AdjustFacts
      <4> QED
        BY <2>3, <2>7, <3>1, <4>2 DEF Face
    <3>3. ASSUME NEW d \in Dirs, Forked(d)
          PROVE  [Abstract!Next]_(Abstract!vars)
      <4>1. PICK new \in Svdir, prog \in {"run", "finish"} :
               /\ svd' = [svd EXCEPT ![d] = new]
               /\ new.pid \in Pids /\ new.state = prog
               /\ (prog = "finish" <=> svd[d].state = "finish")
        BY <3>3, ForkFacts
      <4>2. svd[d].pid = NoPid
        BY <3>3 DEF Forked, LoneInv, DownIsGone
      <4>3. CASE d # "main"
        BY <2>3, <2>4, <2>7, <3>1, <4>1, <4>3 DEF Face
      <4>4. CASE d = "main"
        <5>1. svd'["main"] = new
          BY <2>3, <4>1, <4>4
        <5>2. Face' = prog /\ Face = IF prog = "finish" THEN "ended" ELSE "down"
          BY <2>3, <4>1, <4>2, <4>4, <5>1 DEF Face
        <5> QED
          BY <2>1, <2>2, <2>7, <3>1, <5>2
             DEF Abstract!Next, Abstract!StartRun, Abstract!StartFinish,
                 Abstract!Move
      <4> QED
        BY <4>3, <4>4
    <3>4. ASSUME NEW p \in Pids, Reap(p)
          PROVE  [Abstract!Next]_(Abstract!vars)
      <4>1. CASE p # svd["main"].pid
        <5>1. svd'["main"] = svd["main"]
          BY <2>3, <3>4, <4>1 DEF Reap, Save
        <5> QED
          BY <2>4, <2>7, <3>1, <5>1 DEF Face
      <4>2. CASE p = svd["main"].pid
        <5>1. PICK finish \in FinishFile :
                svd' = [svd EXCEPT !["main"] = ReapedMain(svd["main"], finish)]
          BY <3>4, <4>2 DEF Reap, Save
        <5>2. /\ svd'["main"].pid = NoPid
              /\ svd'["main"].state = IF svd["main"].state # "finish" /\ finish
                                        THEN "finish" ELSE "down"
          BY <2>3, <5>1 DEF ReapedMain, Svdir
        <5>3. Face = svd["main"].state /\ Face \in {"run", "finish"}
          BY <2>3, <4>2 DEF Face, LoneInv, DownIsGone, Svdir
        <5>4. Face' = IF Face = "run" /\ finish THEN "ended" ELSE "down"
          BY <5>2, <5>3 DEF Face
        <5>5. finish \in BOOLEAN
          BY RunsvAssumption
        <5>6. CASE Face = "run"
          BY <2>1, <2>2, <2>7, <3>1, <5>4, <5>6
             DEF Abstract!Next, Abstract!RunEnds, Abstract!Move
        <5>7. CASE Face = "finish"
          BY <2>1, <2>2, <2>7, <3>1, <5>4, <5>7
             DEF Abstract!Next, Abstract!FinishEnds, Abstract!Move
        <5> QED
          BY <5>3, <5>6, <5>7
      <4> QED
        BY <4>1, <4>2
    <3>5. ASSUME NEW p \in Pids, Die(p)
          PROVE  Same
      BY <2>7, <3>1, <3>5 DEF Die, Face
    <3>6. CASE Idle
      BY <2>4, <2>7, <3>1, <3>6 DEF Idle, Face
    <3> QED
      BY <2>4, <3>2, <3>3, <3>4, <3>5, <3>6, NextForms
  <2> QED
    BY <2>5, <2>6, <2>7
<1> QED
  BY <1>1, <1>2, <1>3, <1>4, <1>5, TypeCorrect, PidsSafe, PTL
     DEF Spec, ImplementsLifecycle, Abstract!Spec

-----------------------------------------------------------------------------
(* runsvdir: the inductive invariant, SlotsAreServices over tables that    *)
(* are tables.                                                             *)

\* A process, or none: nothing is said of the directory of none.
AnyProcess == [st : {"free", "run", "second", "zombie"}, ino : Inodes \cup {NoProcess.ino},
          told : BOOLEAN]

LEMMA RunsvFacts ==
  NoProcess \in AnyProcess /\ NoProcess.st = "free" /\ Process \subseteq AnyProcess
<1> DEFINE i == CHOOSE i \in Inodes : TRUE
<1>1. NoProcess = [st |-> "free", ino |-> i, told |-> FALSE]
  BY DEF NoProcess
<1> HIDE DEF i
<1>2. NoProcess.ino = i /\ NoProcess.st = "free"
  BY <1>1
<1>3. NoProcess \in AnyProcess
  BY <1>1, <1>2 DEF AnyProcess
<1> QED
  BY <1>2, <1>3 DEF Process, AnyProcess

Tables ==
  /\ sv \in Seq(Slot)
  /\ runsvs \in [RunsvPids -> AnyProcess]
  /\ at \in Nat \ {0}
  /\ entry \in [Names -> Kinds]

SlotInv == Tables /\ OneSlot /\ PidsAreServices /\ NoForgotten

LEMMA SlotFacts ==
  ASSUME sv \in Seq(Slot)
  PROVE  /\ DOMAIN sv = 1 .. Len(sv) /\ Len(sv) \in Nat
         /\ \A i \in DOMAIN sv : /\ sv[i] \in Slot
                                 /\ sv[i].ino \in Inodes
                                 /\ sv[i].pid \in RunsvPids \cup {NoRunsv}
<1>1. DOMAIN sv = 1 .. Len(sv) /\ Len(sv) \in Nat
  OBVIOUS
<1>2. \A i \in DOMAIN sv : sv[i] \in Slot
  BY <1>1
<1>3. \A s \in Slot : s.ino \in Inodes /\ s.pid \in RunsvPids \cup {NoRunsv}
  BY DEF Slot
<1> QED
  BY <1>1, <1>2, <1>3

\* Neither slots nor processes come or go; nobody who lives forgets that he was told.
SameSlots ==
  /\ sv' \in Seq(Slot) /\ Len(sv') = Len(sv)
  /\ \A i \in DOMAIN sv : sv'[i].ino = sv[i].ino /\ sv'[i].pid = sv[i].pid

SameProcs ==
  /\ runsvs' \in [RunsvPids -> AnyProcess]
  /\ \A p \in RunsvPids :
       /\ runsvs'[p].st = "free" <=> runsvs[p].st = "free"
       /\ runsvs'[p].ino = runsvs[p].ino
       /\ runsvs'[p].st \in {"run", "second"} =>
            Live(p) /\ (runsvs[p].told => runsvs'[p].told)

LEMMA QuietStep ==
  ASSUME SlotInv, SameSlots, SameProcs, at' \in Nat \ {0}, entry' \in [Names -> Kinds]
  PROVE  SlotInv'
<1>1. DOMAIN sv' = DOMAIN sv
  BY SlotFacts DEF SlotInv, Tables, SameSlots
<1>2. \A i \in DOMAIN sv : sv[i].pid # NoRunsv => sv[i].pid \in RunsvPids
  BY SlotFacts DEF SlotInv, Tables
<1>3. OneSlot'
  BY <1>1 DEF SlotInv, OneSlot, SameSlots
<1>4. PidsAreServices'
  <2> SUFFICES ASSUME NEW i \in DOMAIN sv, sv'[i].pid # NoRunsv
               PROVE  /\ runsvs'[sv'[i].pid].st # "free"
                      /\ runsvs'[sv'[i].pid].ino = sv'[i].ino
    BY <1>1 DEF PidsAreServices
  <2> QED
    BY <1>2 DEF SlotInv, PidsAreServices, SameSlots, SameProcs
<1>5. NoForgotten'
  <2> SUFFICES ASSUME NEW p \in RunsvPids, runsvs'[p].st \in {"run", "second"}
               PROVE  runsvs'[p].told \/ \E i \in DOMAIN sv : sv'[i].pid = p
    BY <1>1 DEF NoForgotten, Live
  <2>1. runsvs[p].told \/ \E i \in DOMAIN sv : sv[i].pid = p
    BY DEF SlotInv, NoForgotten, SameProcs
  <2> QED
    BY <2>1 DEF SameSlots, SameProcs
<1> QED
  BY <1>3, <1>4, <1>5 DEF SlotInv, Tables, SameSlots, SameProcs

LEMMA UnchangedSlots == SlotInv /\ UNCHANGED sv => SameSlots
BY DEF SlotInv, Tables, SameSlots

LEMMA UnchangedProcs == SlotInv /\ UNCHANGED runsvs => SameProcs
BY DEF SlotInv, Tables, SameProcs, Live

\* kill(pid, SIGTERM) tells those that live and nobody else.
LEMMA TerminateFacts ==
  ASSUME SlotInv, NEW pids, Terminate(pids)
  PROVE  /\ SameProcs
         /\ \A p \in RunsvPids : runsvs'[p].st = runsvs[p].st
                            /\ (p \in pids /\ Live(p) => runsvs'[p].told)
<1>1. \A p \in RunsvPids :
        runsvs'[p] = [runsvs[p] EXCEPT !.told = runsvs[p].told \/ (p \in pids /\ Live(p))]
  BY DEF Terminate
<1>2. ASSUME NEW p \in RunsvPids
      PROVE  /\ runsvs'[p] \in AnyProcess
             /\ runsvs'[p].st = runsvs[p].st /\ runsvs'[p].ino = runsvs[p].ino
             /\ runsvs'[p].told = (runsvs[p].told \/ (p \in pids /\ Live(p)))
  <2>1. runsvs[p] \in AnyProcess
    BY DEF SlotInv, Tables
  <2>2. PICK told \in BOOLEAN : told = (runsvs[p].told \/ (p \in pids /\ Live(p)))
    OBVIOUS
  <2>3. runsvs'[p] = [runsvs[p] EXCEPT !.told = told]
    BY <1>1, <2>2
  <2> QED
    BY <2>1, <2>2, <2>3 DEF AnyProcess
<1>3. runsvs' = [p \in RunsvPids |-> runsvs'[p]]
  BY DEF Terminate
<1> QED
  BY <1>2, <1>3 DEF SameProcs, Live

-----------------------------------------------------------------------------
(* runsvdir: the steps that change the table.                              *)

LEMMA CollectStep ==
  ASSUME SlotInv, NEW p \in RunsvPids, Collect(p)
  PROVE  SlotInv'
<1> DEFINE slot(i) == IF sv[i].pid = p THEN [sv[i] EXCEPT !.pid = NoRunsv] ELSE sv[i]
<1>1. /\ runsvs[p].st = "zombie" /\ runsvs' = [runsvs EXCEPT ![p] = NoProcess]
      /\ sv' = [i \in DOMAIN sv |-> slot(i)]
      /\ at' = at /\ entry' = entry
  BY DEF Collect, scanvars, dirvars
<1>2. \A i \in DOMAIN sv :
        /\ slot(i) \in Slot /\ slot(i).ino = sv[i].ino
        /\ slot(i).pid = IF sv[i].pid = p THEN NoRunsv ELSE sv[i].pid
  <2>1. \A i \in DOMAIN sv : sv[i] \in Slot
    BY SlotFacts DEF SlotInv, Tables
  <2> QED
    BY <2>1 DEF Slot
<1> HIDE DEF slot
<1>3. sv' \in Seq(Slot) /\ DOMAIN sv' = DOMAIN sv
  <2>1. DOMAIN sv = 1 .. Len(sv) /\ Len(sv) \in Nat
    BY SlotFacts DEF SlotInv, Tables
  <2>2. sv' \in [1 .. Len(sv) -> Slot]
    BY <1>1, <1>2, <2>1
  <2> QED
    BY <1>1, <2>1, <2>2
<1>4. /\ runsvs' \in [RunsvPids -> AnyProcess]
      /\ runsvs'[p] = NoProcess
      /\ \A q \in RunsvPids \ {p} : runsvs'[q] = runsvs[q]
  BY <1>1, RunsvFacts DEF SlotInv, Tables
<1>5. OneSlot'
  BY <1>1, <1>2, <1>3 DEF SlotInv, OneSlot
<1>6. PidsAreServices'
  <2> SUFFICES ASSUME NEW i \in DOMAIN sv, sv'[i].pid # NoRunsv
               PROVE  /\ runsvs'[sv'[i].pid].st # "free"
                      /\ runsvs'[sv'[i].pid].ino = sv'[i].ino
    BY <1>3 DEF PidsAreServices
  <2>1. sv'[i].pid = sv[i].pid /\ sv[i].pid # p /\ sv'[i].ino = sv[i].ino
    BY <1>1, <1>2
  <2>2. sv[i].pid \in RunsvPids
    BY <2>1, SlotFacts DEF SlotInv, Tables
  <2> QED
    BY <1>4, <2>1, <2>2 DEF SlotInv, PidsAreServices
<1>7. NoForgotten'
  <2> SUFFICES ASSUME NEW q \in RunsvPids, runsvs'[q].st \in {"run", "second"}
               PROVE  runsvs'[q].told \/ \E i \in DOMAIN sv : sv'[i].pid = q
    BY <1>3 DEF NoForgotten, Live
  <2>1. q # p /\ runsvs'[q] = runsvs[q]
    BY <1>4, RunsvFacts
  <2>2. runsvs[q].told \/ \E i \in DOMAIN sv : sv[i].pid = q
    BY <2>1 DEF SlotInv, NoForgotten, Live
  <2> QED
    BY <1>1, <1>2, <2>1, <2>2
<1> QED
  BY <1>1, <1>3, <1>4, <1>5, <1>6, <1>7 DEF SlotInv, Tables

\* runsv(): slot i of slots, which had no process, may get one; slots is the table,
\* with a new slot perhaps.
LEMMA RunsvStep ==
  ASSUME SlotInv, NEW slots \in Seq(Slot), NEW i \in DOMAIN slots,
         Len(slots) >= Len(sv), slots[i].pid = NoRunsv,
         \A j \in DOMAIN slots, k \in DOMAIN slots :
            slots[j].ino = slots[k].ino => j = k,
         \A j \in DOMAIN sv : slots[j].ino = sv[j].ino /\ slots[j].pid = sv[j].pid,
         \A j \in DOMAIN slots : j \notin DOMAIN sv => slots[j].pid = NoRunsv,
         Runsv(i, slots), at' = at, entry' = entry
  PROVE  SlotInv'
<1>0. /\ DOMAIN slots = 1 .. Len(slots) /\ Len(slots) \in Nat
      /\ DOMAIN sv = 1 .. Len(sv) /\ Len(sv) \in Nat
      /\ DOMAIN sv \subseteq DOMAIN slots
      /\ \A j \in DOMAIN slots : slots[j] \in Slot
  BY SlotFacts DEF SlotInv, Tables
<1>1. \A j \in DOMAIN slots : slots[j].pid # NoRunsv =>
        /\ slots[j].pid \in RunsvPids
        /\ runsvs[slots[j].pid].st # "free"
        /\ runsvs[slots[j].pid].ino = slots[j].ino
  BY SlotFacts DEF SlotInv, Tables, PidsAreServices
<1>2. \A p \in RunsvPids : Live(p) =>
        runsvs[p].told \/ \E j \in DOMAIN slots : slots[j].pid = p
  BY <1>0 DEF SlotInv, NoForgotten
<1>3. CASE sv' = slots /\ runsvs' = runsvs
  <2>1. OneSlot'
    BY <1>3 DEF OneSlot
  <2>2. PidsAreServices'
    BY <1>1, <1>3 DEF PidsAreServices
  <2>3. NoForgotten'
    BY <1>2, <1>3 DEF NoForgotten, Live
  <2> QED
    BY <1>3, <2>1, <2>2, <2>3 DEF SlotInv, Tables
<1>4. ASSUME NEW p \in Free, NEW x \in Process,
             x.st \in {"run", "second"}, x.ino = slots[i].ino,
             sv' = [slots EXCEPT ![i].pid = p],
             runsvs' = [runsvs EXCEPT ![p] = x]
      PROVE  SlotInv'
  <2>1. p \in RunsvPids /\ runsvs[p].st = "free" /\ p # NoRunsv
    BY RunsvdirAssumption DEF Free
  <2> DEFINE w == [slots[i] EXCEPT !.pid = p]
  <2>2. w \in Slot /\ w.ino = slots[i].ino /\ w.pid = p
    BY <1>0, <2>1 DEF Slot
  <2>3. sv' = [slots EXCEPT ![i] = w]
    BY <1>4
  <2> HIDE DEF w
  <2>4. /\ sv' \in Seq(Slot) /\ DOMAIN sv' = DOMAIN slots
        /\ sv'[i] = w /\ \A j \in DOMAIN slots : j # i => sv'[j] = slots[j]
    BY <1>0, <2>2, <2>3
  <2>5. /\ runsvs' \in [RunsvPids -> AnyProcess]
        /\ runsvs'[p] = x
        /\ \A q \in RunsvPids \ {p} : runsvs'[q] = runsvs[q]
    BY <1>4, <2>1, RunsvFacts DEF SlotInv, Tables
  <2>6. \A j \in DOMAIN slots : sv'[j].ino = slots[j].ino
    BY <2>2, <2>4
  <2>7. OneSlot'
    BY <2>4, <2>6 DEF OneSlot
  <2>8. PidsAreServices'
    <3> SUFFICES ASSUME NEW j \in DOMAIN slots, sv'[j].pid # NoRunsv
                 PROVE  /\ runsvs'[sv'[j].pid].st # "free"
                        /\ runsvs'[sv'[j].pid].ino = sv'[j].ino
      BY <2>4 DEF PidsAreServices
    <3>1. CASE j = i
      BY <1>4, <2>2, <2>4, <2>5, <3>1
    <3>2. CASE j # i
      BY <1>1, <2>1, <2>4, <2>5, <3>2
    <3> QED
      BY <3>1, <3>2
  <2>9. NoForgotten'
    <3> SUFFICES ASSUME NEW q \in RunsvPids, runsvs'[q].st \in {"run", "second"}
                 PROVE  runsvs'[q].told \/ \E j \in DOMAIN slots : sv'[j].pid = q
      BY <2>4 DEF NoForgotten, Live
    <3>1. CASE q = p
      BY <2>2, <2>4, <3>1
    <3>2. CASE q # p
      <4>1. runsvs'[q] = runsvs[q] /\ Live(q)
        BY <2>5, <3>2 DEF Live
      <4>2. CASE runsvs[q].told
        BY <4>1, <4>2
      <4>3. CASE \E j \in DOMAIN slots : slots[j].pid = q
        <5>1. PICK j \in DOMAIN slots : slots[j].pid = q
          BY <4>3
        <5>2. j # i
          BY <5>1, RunsvdirAssumption
        <5> QED
          BY <2>4, <5>1, <5>2
      <4> QED
        BY <1>2, <4>1, <4>2, <4>3
    <3> QED
      BY <3>1, <3>2
  <2> QED
    BY <2>4, <2>5, <2>7, <2>8, <2>9 DEF SlotInv, Tables
<1>5. CASE \E p \in Free :
             /\ sv' = [slots EXCEPT ![i].pid = p]
             /\ runsvs' = [runsvs EXCEPT ![p] =
                            [st |-> IF Holds(slots[i].ino) THEN "second" ELSE "run",
                             ino |-> slots[i].ino, told |-> FALSE]]
  <2>1. PICK p \in Free :
          /\ sv' = [slots EXCEPT ![i].pid = p]
          /\ runsvs' = [runsvs EXCEPT ![p] =
                         [st |-> IF Holds(slots[i].ino) THEN "second" ELSE "run",
                          ino |-> slots[i].ino, told |-> FALSE]]
    BY <1>5
  <2> DEFINE x == [st |-> IF Holds(slots[i].ino) THEN "second" ELSE "run",
                   ino |-> slots[i].ino, told |-> FALSE]
  <2>2. slots[i].ino \in Inodes
    BY <1>0 DEF Slot
  <2>3. x \in Process /\ x.st \in {"run", "second"} /\ x.ino = slots[i].ino
    BY <2>2 DEF Process
  <2>4. runsvs' = [runsvs EXCEPT ![p] = x]
    BY <2>1
  <2> HIDE DEF x
  <2> QED
    BY <1>4, <2>1, <2>3, <2>4
<1> QED
  BY <1>3, <1>5 DEF Runsv

\* One entry: the slot of its directory, or a new one, may get a runsv.
LEMMA EntryStep ==
  ASSUME SlotInv, NEW name \in Names, Entry(name)
  PROVE  SlotInv'
<1>0. /\ DOMAIN sv = 1 .. Len(sv) /\ Len(sv) \in Nat
      /\ \A j \in DOMAIN sv : sv[j] \in Slot
  BY SlotFacts DEF SlotInv, Tables
<1>1. at' = at /\ entry' = entry
  BY DEF Entry, dirvars
<1>2. CASE UNCHANGED <<sv, runsvs>>
  BY <1>1, <1>2, UnchangedSlots, UnchangedProcs, QuietStep DEF SlotInv, Tables
<1> DEFINE ino == entry[name]
<1>3. ASSUME ino \in Inodes, Service(ino)
      PROVE  SlotInv'
  <2>1. ASSUME NEW i \in DOMAIN sv, sv[i].ino = ino,
               IF sv[i].pid = NoRunsv THEN Runsv(i, [sv EXCEPT ![i].isgone = FALSE])
               ELSE sv' = [sv EXCEPT ![i].isgone = FALSE] /\ UNCHANGED runsvs
        PROVE  SlotInv'
    <3> DEFINE w == [sv[i] EXCEPT !.isgone = FALSE]
               seen == [sv EXCEPT ![i] = w]
    <3>1. w \in Slot /\ w.ino = sv[i].ino /\ w.pid = sv[i].pid
      BY <1>0 DEF Slot
    <3>2. seen = [sv EXCEPT ![i].isgone = FALSE]
      OBVIOUS
    <3> HIDE DEF w
    <3>3. /\ seen \in Seq(Slot) /\ Len(seen) = Len(sv) /\ DOMAIN seen = DOMAIN sv
          /\ \A j \in DOMAIN sv : seen[j].ino = sv[j].ino /\ seen[j].pid = sv[j].pid
      <4>1. /\ DOMAIN seen = DOMAIN sv
            /\ \A j \in DOMAIN sv : seen[j] = IF j = i THEN w ELSE sv[j]
        OBVIOUS
      <4>2. seen \in Seq(Slot) /\ Len(seen) = Len(sv)
        BY <1>0, <3>1 DEF SlotInv, Tables
      <4> QED
        BY <3>1, <4>1, <4>2
    <3> HIDE DEF seen
    <3>4. CASE sv[i].pid = NoRunsv
      <4>1. Runsv(i, seen)
        BY <2>1, <3>2, <3>4
      <4>2. \A j \in DOMAIN seen, k \in DOMAIN seen :
              seen[j].ino = seen[k].ino => j = k
        BY <3>3 DEF SlotInv, OneSlot
      <4>3. Len(seen) >= Len(sv) /\ seen[i].pid = NoRunsv
        BY <1>0, <3>3, <3>4
      <4> QED
        BY <1>1, <3>3, <4>1, <4>2, <4>3, RunsvStep
    <3>5. CASE sv' = seen /\ UNCHANGED runsvs
      <4>1. SameSlots
        BY <3>3, <3>5 DEF SameSlots
      <4> QED
        BY <1>1, <3>5, <4>1, UnchangedProcs, QuietStep DEF SlotInv, Tables
    <3> QED
      BY <2>1, <3>2, <3>4, <3>5
  <2>2. ASSUME \A i \in DOMAIN sv : sv[i].ino # ino,
               Runsv(Len(sv) + 1, Append(sv, [ino |-> ino, pid |-> NoRunsv, isgone |-> FALSE]))
        PROVE  SlotInv'
    <3> DEFINE w == [ino |-> ino, pid |-> NoRunsv, isgone |-> FALSE]
               slots == Append(sv, w)
               i == Len(sv) + 1
    <3>1. w \in Slot /\ w.ino = ino /\ w.pid = NoRunsv
      BY <1>3 DEF Slot
    <3>2. Runsv(i, slots)
      BY <2>2
    <3> HIDE DEF w
    <3>3. /\ slots \in Seq(Slot) /\ Len(slots) = Len(sv) + 1
          /\ DOMAIN slots = 1 .. Len(sv) + 1
          /\ slots[i] = w
          /\ \A j \in DOMAIN sv : slots[j] = sv[j]
      BY <1>0, <3>1 DEF SlotInv, Tables
    <3> HIDE DEF slots
    <3>4. /\ i \in DOMAIN slots /\ Len(slots) >= Len(sv) /\ slots[i].pid = NoRunsv
          /\ \A j \in DOMAIN slots : j \notin DOMAIN sv => j = i
      BY <1>0, <3>1, <3>3
    <3> HIDE DEF i
    <3>5. \A j \in DOMAIN slots, k \in DOMAIN slots :
            slots[j].ino = slots[k].ino => j = k
      BY <2>2, <3>1, <3>3, <3>4 DEF SlotInv, OneSlot
    <3>6. \A j \in DOMAIN slots : j \notin DOMAIN sv => slots[j].pid = NoRunsv
      BY <3>4
    <3> QED
      BY <1>1, <3>2, <3>3, <3>4, <3>5, <3>6, RunsvStep
  <2> QED
    BY <1>2, <1>3, <2>1, <2>2 DEF Service
<1>4. entry[name] \in Inodes \/ entry[name] = Absent \/ entry[name] = Dangling
  BY RunsvdirAssumption DEF SlotInv, Tables
<1> QED
  BY <1>2, <1>3, <1>4 DEF Entry

\* sv[i] = sv[--svnum], after its runsv was told to end.
LEMMA EndRemovedStep ==
  ASSUME SlotInv, EndRemoved
  PROVE  SlotInv'
<1> DEFINE n == Len(sv)
           Old(j) == IF j = at THEN n ELSE j
<1>0. /\ DOMAIN sv = 1 .. n /\ n \in Nat /\ at \in 1 .. n
      /\ \A j \in DOMAIN sv : sv[j] \in Slot
  BY SlotFacts DEF SlotInv, Tables, EndRemoved
<1>1. at' \in Nat \ {0} /\ entry' = entry
  BY <1>0 DEF EndRemoved, dirvars
<1>2. CASE UNCHANGED <<sv, runsvs>>
  BY <1>1, <1>2, UnchangedSlots, UnchangedProcs, QuietStep DEF SlotInv, Tables
<1>3. CASE Terminate({sv[at].pid}) /\ sv' = Remove(at)
  <2>1. /\ SameProcs
        /\ \A p \in RunsvPids : runsvs'[p].st = runsvs[p].st
                           /\ (p = sv[at].pid /\ Live(p) => runsvs'[p].told)
    BY <1>3, TerminateFacts
  <2>2. /\ sv' \in Seq(Slot) /\ DOMAIN sv' = 1 .. n - 1
        /\ \A j \in 1 .. n - 1 : sv'[j] = sv[Old(j)]
    <3>1. sv' = [j \in 1 .. n - 1 |-> sv[Old(j)]]
      BY <1>0, <1>3 DEF Remove
    <3>2. \A j \in 1 .. n - 1 : Old(j) \in 1 .. n
      BY <1>0
    <3>3. sv' \in [1 .. n - 1 -> Slot] /\ n - 1 \in Nat
      BY <1>0, <3>1, <3>2
    <3> QED
      BY <1>0, <3>1, <3>3
  <2>3. /\ \A j \in 1 .. n - 1 : Old(j) \in DOMAIN sv /\ Old(j) # at
        /\ \A j, k \in 1 .. n - 1 : Old(j) = Old(k) => j = k
    <3> HIDE DEF n
    <3> QED
      BY <1>0
  <2>4. \A k \in DOMAIN sv : k # at => \E j \in 1 .. n - 1 : Old(j) = k
    <3> SUFFICES ASSUME NEW k \in DOMAIN sv, k # at
                 PROVE  \E j \in 1 .. n - 1 : Old(j) = k
      OBVIOUS
    <3> HIDE DEF n
    <3>1. CASE k = n
      <4>1. at \in 1 .. n - 1 /\ Old(at) = k
        BY <1>0, <3>1
      <4> HIDE DEF Old
      <4> QED
        BY <4>1
    <3>2. CASE k # n
      <4>1. k \in 1 .. n - 1 /\ Old(k) = k
        BY <1>0, <3>2
      <4> HIDE DEF Old
      <4> QED
        BY <4>1
    <3> QED
      BY <3>1, <3>2
  <2> HIDE DEF Old
  <2>5. OneSlot'
    <3> SUFFICES ASSUME NEW j \in 1 .. n - 1, NEW k \in 1 .. n - 1,
                        sv'[j].ino = sv'[k].ino
                 PROVE  j = k
      BY <2>2 DEF OneSlot
    <3>1. Old(j) = Old(k)
      BY <2>2, <2>3 DEF SlotInv, OneSlot
    <3> QED
      BY <2>3, <3>1
  <2>6. PidsAreServices'
    <3> SUFFICES ASSUME NEW j \in 1 .. n - 1, sv'[j].pid # NoRunsv
                 PROVE  /\ runsvs'[sv'[j].pid].st # "free"
                        /\ runsvs'[sv'[j].pid].ino = sv'[j].ino
      BY <2>2 DEF PidsAreServices
    <3>1. PICK k \in DOMAIN sv : sv'[j] = sv[k]
      BY <2>2, <2>3
    <3>2. sv[k].pid \in RunsvPids
      BY <3>1, SlotFacts DEF SlotInv, Tables
    <3> QED
      BY <2>1, <3>1, <3>2 DEF SlotInv, PidsAreServices, SameProcs
  <2>7. NoForgotten'
    <3> SUFFICES ASSUME NEW p \in RunsvPids, runsvs'[p].st \in {"run", "second"}
                 PROVE  runsvs'[p].told \/ \E j \in 1 .. n - 1 : sv'[j].pid = p
      BY <2>2 DEF NoForgotten, Live
    <3>1. Live(p)
      BY <2>1 DEF Live
    <3>2. CASE runsvs[p].told \/ sv[at].pid = p
      BY <2>1, <3>1, <3>2 DEF SameProcs
    <3>3. CASE \E k \in DOMAIN sv : k # at /\ sv[k].pid = p
      BY <2>2, <2>4, <3>3
    <3> QED
      BY <3>1, <3>2, <3>3 DEF SlotInv, NoForgotten
  <2> QED
    BY <1>1, <2>1, <2>2, <2>5, <2>6, <2>7 DEF SlotInv, Tables, SameProcs
<1> QED
  BY <1>2, <1>3 DEF EndRemoved

-----------------------------------------------------------------------------
(* runsvdir: the other steps.                                              *)

LEMMA OpendirStep ==
  ASSUME SlotInv, Opendir
  PROVE  SlotInv'
<1>0. /\ DOMAIN sv = 1 .. Len(sv) /\ Len(sv) \in Nat
      /\ \A j \in DOMAIN sv : sv[j] \in Slot
  BY SlotFacts DEF SlotInv, Tables
<1>1. at' = at /\ entry' = entry /\ runsvs' = runsvs
  BY DEF Opendir, dirvars, scanvars
<1>2. CASE sv' = [i \in DOMAIN sv |-> [sv[i] EXCEPT !.isgone = TRUE]]
  <2>1. \A i \in DOMAIN sv :
          /\ sv'[i] \in Slot /\ sv'[i].ino = sv[i].ino /\ sv'[i].pid = sv[i].pid
    BY <1>0, <1>2 DEF Slot
  <2>2. DOMAIN sv' = 1 .. Len(sv)
    BY <1>0, <1>2
  <2>3. sv' = [i \in 1 .. Len(sv) |-> sv'[i]]
    BY <1>0, <1>2
  <2>4. sv' \in [1 .. Len(sv) -> Slot]
    BY <1>0, <2>1, <2>3
  <2>5. SameSlots
    BY <1>0, <2>1, <2>2, <2>4 DEF SameSlots
  <2> QED
    BY <1>1, <2>5, UnchangedProcs, QuietStep DEF SlotInv, Tables
<1>3. CASE UNCHANGED sv
  BY <1>1, <1>3, UnchangedSlots, UnchangedProcs, QuietStep DEF SlotInv, Tables
<1> QED
  BY <1>2, <1>3 DEF Opendir

LEMMA RunsvEndsStep ==
  ASSUME SlotInv, NEW p \in RunsvPids, RunsvEnds(p)
  PROVE  SlotInv'
<1>1. /\ Live(p) /\ at' = at /\ entry' = entry /\ sv' = sv
      /\ runsvs' = [runsvs EXCEPT ![p].st = "zombie", ![p].told = FALSE]
  BY DEF RunsvEnds, dirvars, scanvars
<1>2. runsvs[p] \in AnyProcess
  BY DEF SlotInv, Tables
<1> DEFINE x == [runsvs[p] EXCEPT !.st = "zombie", !.told = FALSE]
<1>3. x \in AnyProcess /\ x.st = "zombie" /\ x.ino = runsvs[p].ino
  BY <1>2 DEF AnyProcess
<1>4. runsvs' = [runsvs EXCEPT ![p] = x]
  BY <1>1 DEF SlotInv, Tables
<1> HIDE DEF x
<1>5. SameProcs
  BY <1>1, <1>3, <1>4 DEF SameProcs, SlotInv, Tables, Live
<1> QED
  BY <1>1, <1>5, UnchangedSlots, QuietStep DEF SlotInv, Tables

LEMMA SlotStep ==
  ASSUME SlotInv, [DirNext]_runsvdirvars
  PROVE  SlotInv'
<1>1. ASSUME NEW p \in RunsvPids, Collect(p) PROVE SlotInv'
  BY <1>1, CollectStep
<1>2. ASSUME NEW name \in Names, Entry(name) PROVE SlotInv'
  BY <1>2, EntryStep
<1>3. CASE EndRemoved
  BY <1>3, EndRemovedStep
<1>4. CASE Opendir
  BY <1>4, OpendirStep
<1>5. ASSUME NEW p \in RunsvPids, RunsvEnds(p) PROVE SlotInv'
  BY <1>5, RunsvEndsStep
<1>6. CASE DirPause
  <2>1. at' = at /\ entry' = entry /\ sv' = sv
    BY <1>6 DEF DirPause, dirvars, scanvars
  <2>2. SameProcs
    BY <1>6, TerminateFacts, UnchangedProcs DEF DirPause
  <2> QED
    BY <2>1, <2>2, UnchangedSlots, QuietStep DEF SlotInv, Tables
<1>7. ASSUME NEW name \in Names, NEW what \in Kinds, Change(name, what) PROVE SlotInv'
  <2>1. entry' \in [Names -> Kinds]
    BY <1>7 DEF Change, SlotInv, Tables
  <2> QED
    BY <1>7, <2>1, UnchangedSlots, UnchangedProcs, QuietStep
       DEF Change, scanvars, SlotInv, Tables
<1>8. CASE \/ Collected \/ Stat \/ Sleep \/ Scanned \/ RemovedDone \/ Tick
           \/ (\E sig \in Ends : Signal(sig)) \/ UNCHANGED runsvdirvars
  <2>1. at' \in Nat \ {0} /\ entry' \in [Names -> Kinds] /\ UNCHANGED <<sv, runsvs>>
    BY <1>8 DEF Collected, Stat, Sleep, Scanned, RemovedDone, Tick, Signal,
                runsvdirvars, dirvars, scanvars, SlotInv, Tables
  <2> QED
    BY <2>1, UnchangedSlots, UnchangedProcs, QuietStep
<1> QED
  BY <1>1, <1>2, <1>3, <1>4, <1>5, <1>6, <1>7, <1>8 DEF DirNext, DirStep

\* Only HUP tells everyone, and nobody starts a runsv when runsvdir has exited.
LEMMA HupStep ==
  ASSUME SlotInv, SlotInv', HupTellsAll, [DirNext]_runsvdirvars
  PROVE  HupTellsAll'
<1> SUFFICES ASSUME dirpc' = "exited", exitsoon' = "HUP",
                    NEW p \in RunsvPids, runsvs'[p].st \in {"run", "second"}
             PROVE  runsvs'[p].told
  BY DEF HupTellsAll, Live
<1>1. CASE DirPause
  <2>1. Terminate({sv[i].pid : i \in DOMAIN sv})
    BY <1>1 DEF DirPause
  <2>2. Live(p)
    BY <2>1, TerminateFacts DEF Live
  <2>3. CASE runsvs[p].told
    BY <2>1, <2>3, TerminateFacts DEF SameProcs
  <2>4. CASE \E i \in DOMAIN sv : sv[i].pid = p
    BY <2>1, <2>2, <2>4, TerminateFacts
  <2> QED
    BY <2>2, <2>3, <2>4 DEF SlotInv, NoForgotten
<1>2. CASE ~DirPause
  <2>1. dirpc = "exited" /\ exitsoon = "HUP" /\ runsvs' = runsvs
    BY <1>2 DEF DirNext, DirStep, Collect, Collected, Stat, Sleep, Opendir, Entry,
                Scanned, EndRemoved, RemovedDone, Change, Tick, RunsvEnds,
                Signal, runsvdirvars
  <2> QED
    BY <2>1 DEF HupTellsAll, Live
<1> QED
  BY <1>1, <1>2

-----------------------------------------------------------------------------
(* runsvdir: the theorem.                                                  *)

\* Slots, processes and directories stay in step, however directories change,
\* calls fail and slots move: no directory has two slots, no TERM reaches another
\* service, no runsv that runs is forgotten, and a HUP reaches them all.
THEOREM SlotsSafe == DirSpec => []SlotsAreServices
<1>1. DirInit => SlotInv /\ HupTellsAll
  <2> SUFFICES ASSUME DirInit PROVE SlotInv /\ HupTellsAll
    OBVIOUS
  <2>1. /\ sv = <<>> /\ runsvs = [p \in RunsvPids |-> NoProcess] /\ at = 1
        /\ entry \in [Names -> Kinds] /\ dirpc # "exited"
    BY DEF DirInit
  <2>2. Tables /\ \A p \in RunsvPids : ~Live(p)
    BY <2>1, RunsvFacts DEF Tables, Live
  <2> QED
    BY <2>1, <2>2 DEF SlotInv, OneSlot, PidsAreServices, NoForgotten, HupTellsAll
<1>2. SlotInv /\ HupTellsAll /\ [DirNext]_runsvdirvars => SlotInv' /\ HupTellsAll'
  BY SlotStep, HupStep
<1>3. SlotInv /\ HupTellsAll => SlotsAreServices
  BY DEF SlotInv, SlotsAreServices
<1> QED
  BY <1>1, <1>2, <1>3, PTL DEF DirSpec

-----------------------------------------------------------------------------
(* runit: one stage at a time.                                             *)

\* The program of a stage is forked only when that of the stage before is dead
\* and waited for, and runit never waits for one that is not there: wait_nohang()
\* in the loop, wait_nohang() in the countdown and wait_pid() take turns.
THEOREM StagesInTurn == StagesSpec => []OneStage
<1>1. StagesInit => OneStage
  BY DEF StagesInit, OneStage
<1>2. OneStage /\ [StagesNext]_stagesvars => OneStage'
  <2> SUFFICES ASSUME OneStage, [StagesNext]_stagesvars PROVE OneStage'
    OBVIOUS
  <2> USE DEF OneStage
  <2>1. CASE Fork
    BY <2>1 DEF Fork
  <2>2. CASE Poll
    BY <2>2 DEF Poll, Goto
  <2>3. CASE WaitNohang
    BY <2>3 DEF WaitNohang
  <2>4. CASE Ended
    BY <2>4 DEF Ended, Goto
  <2>5. CASE Signals
    BY <2>5 DEF Signals
  <2>6. CASE Cad
    BY <2>6 DEF Cad, Goto
  <2>7. CASE Request
    BY <2>7 DEF Request
  <2>8. CASE Stopping
    BY <2>8 DEF Stopping
  <2>9. CASE Killing
    BY <2>9 DEF Killing, Goto
  <2>10. CASE Leave
    BY <2>10 DEF Leave, Goto
  <2>11. CASE Final
    BY <2>11 DEF Final
  <2>12. CASE StageEnds
    BY <2>12 DEF StageEnds, runitvars
  <2>13. CASE \/ \E i \in Inits : RunitInit(i)
              \/ \E sig \in Strays : Stray(sig)
              \/ OrphanDies
              \/ UNCHANGED stagesvars
    BY <2>13 DEF RunitInit, Stray, OrphanDies, runitvars, stagesvars
  <2> QED
    BY <2>1, <2>2, <2>3, <2>4, <2>5, <2>6, <2>7, <2>8, <2>9, <2>10, <2>11, <2>12,
       <2>13 DEF StagesNext, StagesStep
<1> QED
  BY <1>1, <1>2, PTL DEF StagesSpec

-----------------------------------------------------------------------------
(* runit: a shutdown goes as somebody asked for.                           *)

LEMMA OrderFacts ==
  /\ Len(Order) = 3
  /\ Order[1] = "stopit" /\ Order[2] = "reboot" /\ Order[3] = "CONT"
BY DEF Order

RequestType == request \in [Inits -> 0 .. 3]

\* A runit-init past the file reboot, and one past its CONT.
Wants(i) == request[i] >= 2
Sent == \E i \in Inits : request[i] = 3

\* Nobody but a runit-init is behind what runit has heard, and such a one is past its
\* CONT.
HeardTrue ==
  ~strayed =>
    /\ "INT" \notin unhandled /\ ~sigi /\ runitpc # "cad"
    /\ "CONT" \in unhandled \/ sigc \/ asked => Sent

\* The file is as one of those left it who got past it.
FileTrue ==
  (\E i \in Inits : Wants(i)) =>
    \E i \in Inits : Wants(i) /\ (reboot <=> i \in Reboots)

\* What was decided is what the file says, which nobody changes any more.
OutcomeTrue ==
  outcome # "none" => runitpc = "final" /\ (outcome = "reboot" <=> reboot)

RequestInv == RequestType /\ HeardTrue /\ FileTrue /\ OutcomeTrue

\* Steps of runit itself leave the requests and the file reboot alone, and hear only
\* what is pending.
LEMMA RunitStep ==
  ASSUME RequestInv, StagesStep
  PROVE  RequestInv'
<1>1. request' = request /\ reboot' = reboot /\ strayed' = strayed
  BY DEF StagesStep, Fork, Poll, WaitNohang, Ended, Signals, Cad, Request,
         Stopping, Killing, Leave, Final
<1>2. RequestType' /\ FileTrue'
  BY <1>1 DEF RequestInv, RequestType, FileTrue, Wants
<1>3. OutcomeTrue'
  <2>1. CASE Final
    BY <1>1, <2>1 DEF Final, OutcomeTrue
  <2>2. CASE ~Final
    <3>1. runitpc # "final" /\ outcome' = outcome
      BY <2>2 DEF StagesStep, Fork, Poll, WaitNohang, Ended, Signals, Cad, Request,
                  Stopping, Killing, Leave, Goto
    <3> QED
      BY <3>1 DEF RequestInv, OutcomeTrue
  <2> QED
    BY <2>1, <2>2
<1>4. HeardTrue'
  <2> SUFFICES ASSUME ~strayed
               PROVE  /\ "INT" \notin unhandled' /\ ~sigi' /\ runitpc' # "cad"
                      /\ "CONT" \in unhandled' \/ sigc' \/ asked' => Sent'
    BY <1>1 DEF HeardTrue
  <2>1. /\ "INT" \notin unhandled /\ ~sigi /\ runitpc # "cad"
        /\ "CONT" \in unhandled \/ sigc \/ asked => Sent
        /\ Sent' = Sent
    BY <1>1 DEF RequestInv, HeardTrue, Sent
  <2>2. CASE Poll
    BY <2>1, <2>2 DEF Poll, Goto
  <2>3. CASE Signals
    BY <2>1, <2>3 DEF Signals
  <2>4. CASE Request
    BY <2>1, <2>4 DEF Request
  <2>5. CASE Leave
    BY <2>1, <2>5 DEF Leave, Goto
  <2>6. CASE Fork \/ WaitNohang \/ Ended \/ Stopping \/ Killing \/ Final
    <3>1. UNCHANGED <<unhandled, sigc, sigi, asked>>
      BY <2>6 DEF Fork, WaitNohang, Ended, Stopping, Killing, Final
    <3>2. runitpc' # "cad"
      BY <2>1, <2>6 DEF Fork, WaitNohang, Ended, Stopping, Killing, Final, Goto
    <3> QED
      BY <2>1, <3>1, <3>2
  <2>7. ~Cad
    BY <2>1 DEF Cad, Goto
  <2> QED
    BY <2>2, <2>3, <2>4, <2>5, <2>6, <2>7 DEF StagesStep
<1> QED
  BY <1>2, <1>3, <1>4 DEF RequestInv

LEMMA InitStep ==
  ASSUME RequestInv, NEW i \in Inits, RunitInit(i)
  PROVE  RequestInv'
<1> USE DEF RequestInv
<1> DEFINE step == Order[request[i] + 1]
<1>1. /\ runitpc # "final" /\ request[i] \in 0 .. 2
      /\ request' = [request EXCEPT ![i] = request[i] + 1]
      /\ reboot' = IF step = "reboot" THEN i \in Reboots ELSE reboot
      /\ unhandled' = IF step = "CONT" THEN unhandled \cup {"CONT"} ELSE unhandled
      /\ runitpc' = runitpc /\ sigc' = sigc /\ sigi' = sigi /\ asked' = asked
      /\ outcome' = outcome /\ strayed' = strayed
  BY OrderFacts DEF RunitInit, RequestType, runitvars
<1>2. /\ request[i] = 0 => step = "stopit" /\ request'[i] = 1
      /\ request[i] = 1 => step = "reboot" /\ request'[i] = 2
      /\ request[i] = 2 => step = "CONT" /\ request'[i] = 3
      /\ \A k \in Inits \ {i} : request'[k] = request[k]
  BY <1>1, OrderFacts DEF RequestType
<1> HIDE DEF step
<1>3. RequestType'
  BY <1>1 DEF RequestType
<1>4. Sent => Sent'
  BY <1>1, <1>2 DEF Sent
<1>5. HeardTrue'
  <2>1. "CONT" \in unhandled' => "CONT" \in unhandled \/ Sent'
    BY <1>1, <1>2 DEF Sent
  <2>2. "INT" \in unhandled' => "INT" \in unhandled
    BY <1>1
  <2> QED
    BY <1>1, <1>4, <2>1, <2>2 DEF HeardTrue
<1>6. FileTrue'
  <2>1. CASE request[i] = 1
    <3>1. reboot' = (i \in Reboots) /\ request'[i] = 2
      BY <1>1, <1>2, <2>1
    <3>2. reboot' <=> i \in Reboots
      <4>1. CASE i \in Reboots
        BY <3>1, <4>1, Zenon
      <4>2. CASE i \notin Reboots
        BY <3>1, <4>2, Zenon
      <4> QED
        BY <4>1, <4>2
    <3>3. request'[i] >= 2
      BY <3>1
    <3> QED
      BY <3>2, <3>3 DEF FileTrue, Wants
  <2>2. CASE request[i] # 1
    <3>1. reboot' = reboot
      BY <1>1, <1>2, <2>2
    <3>2. \A k \in Inits : Wants(k)' <=> Wants(k)
      BY <1>1, <1>2, <2>2 DEF Wants
    <3> QED
      BY <3>1, <3>2 DEF FileTrue
  <2> QED
    BY <2>1, <2>2
<1>7. OutcomeTrue'
  BY <1>1 DEF OutcomeTrue
<1> QED
  BY <1>3, <1>5, <1>6, <1>7

\* Behind what runit has heard is a runit-init that is past its CONT, and the file
\* reboot is as one of those left it who got past it (runit-init's chmod, chmod and
\* kill; runit's stat).
THEOREM RequestInvariant == StagesSpec => []RequestInv
<1>1. StagesInit => RequestInv
  BY DEF StagesInit, RequestInv, RequestType, HeardTrue, FileTrue, OutcomeTrue, Wants, Sent
<1>2. RequestInv /\ [StagesNext]_stagesvars => RequestInv'
  <2> SUFFICES ASSUME RequestInv, [StagesNext]_stagesvars PROVE RequestInv'
    OBVIOUS
  <2>1. CASE StagesStep
    BY <2>1, RunitStep
  <2>2. ASSUME NEW i \in Inits, RunitInit(i) PROVE RequestInv'
    BY <2>2, InitStep
  <2>3. ASSUME NEW sig \in Strays, Stray(sig) PROVE RequestInv'
    BY <2>3 DEF Stray, runitvars, files, initvars, RequestInv, RequestType,
                HeardTrue, FileTrue, OutcomeTrue, Wants
  <2>4. CASE StageEnds \/ OrphanDies \/ UNCHANGED stagesvars
    BY <2>4 DEF StageEnds, OrphanDies, runitvars, files, initvars, stagesvars, RequestInv,
                RequestType, HeardTrue, FileTrue, OutcomeTrue, Wants, Sent
  <2> QED
    BY <2>1, <2>2, <2>3, <2>4 DEF StagesNext
<1> QED
  BY <1>1, <1>2, PTL DEF StagesSpec

\* When only runit-inits have signalled runit, a shutdown is a halt or a reboot
\* because one of those wanted it who got past the file: no file left from before
\* decides, however their steps and those of runit mix.
THEOREM AsAsked == StagesSpec => []RebootAsAsked
<1>1. RequestInv => RebootAsAsked
  <2> SUFFICES ASSUME RequestInv, ~strayed, asked, outcome # "none"
               PROVE  \E i \in Inits : /\ request[i] >= 2
                                       /\ outcome = "reboot" <=> i \in Reboots
    BY DEF RebootAsAsked
  <2>1. \E i \in Inits : Wants(i)
    BY DEF RequestInv, HeardTrue, Sent, Wants
  <2> QED
    BY <2>1 DEF RequestInv, FileTrue, OutcomeTrue, Wants
<1> QED
  BY <1>1, RequestInvariant, PTL

=============================================================================
