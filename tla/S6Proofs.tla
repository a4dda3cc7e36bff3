------------------------------ MODULE S6Proofs ------------------------------
(***************************************************************************)
(* Proofs about s6-supervise and s6-svwait, for every set of pids and      *)
(* every number of bytes, signals, faults and events.                      *)
(***************************************************************************)
EXTENDS S6Svwait, SequenceTheorems, TLAPS

-----------------------------------------------------------------------------
(* The inductive invariant.                                                *)

\* A process that is gone runs no program.
FreeIsNoProg == \A p \in Pids : procs[p].st = "free" => procs[p].prog = "none"

\* main() has left the loop, or will: nothing runs, the last ./finish has been
\* waited for, or a byte x came with others.
Leaving ==
  ~sup.cont =>
    \/ sup.state \in {"DOWN", "LASTFINISH"}
    \/ sup.state \in {"UP", "LASTUP"} /\ pc \notin {"signals", "finish"}

\* Which pid each state goes with.
PidOfState ==
  /\ sup.state = "DOWN" => sup.status.pid = NoPid
  /\ pc = "finish" => sup.cont /\ sup.status.pid = NoPid
                      /\ sup.state \in {"UP", "LASTUP"}
  /\ sup.status.pid = Wstat <=> sup.state = "LASTFINISH" /\ ~sup.cont

FinishingTrue ==
  sup.status.finishing <=> sup.state \in {"FINISH", "LASTFINISH"}

\* Inductive: ChildTrue alone is not, for it does not say in which states there is
\* a pid at all, nor what the flag that the file is written from means.
SupInv ==
  /\ sup \in Sup /\ procs \in [Pids -> Proc]
  /\ FreeIsNoProg /\ Leaving /\ PidOfState /\ FinishingTrue /\ ChildTrue

-----------------------------------------------------------------------------
(* What the actions of the table come to.                                  *)

\* A signal changes neither what a process runs nor whether it exists.
LEMMA SignalledFacts ==
  ASSUME NEW proc \in Proc, NEW sigs
  PROVE  LET new == Signalled(proc, sigs) IN
         /\ new \in Proc
         /\ new.prog = proc.prog
         /\ new.st = "free" <=> proc.st = "free"
  BY DEF Signalled, Proc

\* The struct that an action leaves: the pid and what it is the pid of are as they
\* were, the state at most turns into the last of its kind, cont is only cleared
\* with nothing running, and what the status file shows is the status.
Kept(s) ==
  /\ s \in Sup /\ s.due \in {sup.due, "none"}
  /\ s.status.pid = sup.status.pid
  /\ s.status.finishing = sup.status.finishing
  /\ \/ s.state = sup.state
     \/ sup.state = "UP" /\ s.state = "LASTUP"
     \/ sup.state = "FINISH" /\ s.state = "LASTFINISH"
  /\ s.cont = sup.cont \/ (sup.state = "DOWN" /\ ~s.cont)
  /\ s.shown = sup.shown \/ s.shown = s.status

LEMMA AnnouncedKept ==
  ASSUME sup \in Sup, sup.status.pid # Wstat, NEW s \in Sup,
         s.cont = sup.cont, s.due = sup.due,
         s.status.pid = sup.status.pid,
         s.status.finishing = sup.status.finishing,
         \/ s.state = sup.state
         \/ sup.state = "UP" /\ s.state = "LASTUP"
  PROVE  Kept(Announced(s))
<1>1. s.status \in Status(Pids)
  BY DEF Sup, Status
<1>2. Announced(s) = [s EXCEPT !.shown = s.status]
  BY DEF Announced
<1>3. Announced(s) \in Sup
  BY <1>1, <1>2 DEF Sup
<1> QED
  BY <1>2, <1>3 DEF Kept, Sup

LEMMA ActForms ==
  ASSUME sup \in Sup, PidOfState, NEW what,
         what = "TIMEOUT" => sup.cont, Act(what)
  PROVE  \/ \E s, sigs : /\ Kept(s) /\ Do(s, sigs)
                         /\ s.cont = sup.cont \/ what \in {"TERM", "HUP", "QUIT", "x"}
         \/ /\ what \in {"TIMEOUT", "o", "u"} /\ sup.state = "DOWN"
            /\ \E s : s.cont = sup.cont /\ Kept(s) /\ TryStart(s)
<1> DEFINE Keeping(s, sigs) ==
             /\ Kept(s) /\ Do(s, sigs)
             /\ s.cont = sup.cont \/ what \in {"TERM", "HUP", "QUIT", "x"}
           Forms == \/ \E s, sigs : Keeping(s, sigs)
                    \/ /\ what \in {"TIMEOUT", "o", "u"} /\ sup.state = "DOWN"
                       /\ \E s : s.cont = sup.cont /\ Kept(s) /\ TryStart(s)
<1>1. sup \in Sup
  OBVIOUS
<1>2. Kept(sup)
  BY <1>1 DEF Kept
<1>3. /\ Kept([sup EXCEPT !.armed = FALSE])
      /\ [sup EXCEPT !.armed = FALSE].cont = sup.cont
  BY <1>1 DEF Kept, Sup
<1>13. ASSUME sup.state # "DOWN", NEW s, NEW sigs, Kept(s), Do(s, sigs)
       PROVE  Forms
  BY <1>13 DEF Kept
<1>4. ASSUME sup.status.pid # Wstat, NEW w \in {"up", "down", "none"}
      PROVE  /\ Kept(Wanting(w))
             /\ Wanting(w).cont = sup.cont
  <2>1. [sup EXCEPT !.status.want = w] \in Sup
    BY <1>1 DEF Sup, Status
  <2>2. Kept(Announced([sup EXCEPT !.status.want = w]))
    BY <1>1, <1>4, <2>1, AnnouncedKept DEF Sup, Status
  <2>3. Announced([sup EXCEPT !.status.want = w]).cont = sup.cont
    BY <1>1 DEF Announced, Sup
  <2> QED
    BY <2>2, <2>3 DEF Wanting
<1>5. ASSUME sup.status.pid # Wstat, NEW flag \in BOOLEAN
      PROVE  Kept(Flagged(flag))
  <2>1. [sup EXCEPT !.status.paused = flag] \in Sup
    BY <1>1 DEF Sup, Status
  <2> QED
    BY <1>1, <1>5, <2>1, AnnouncedKept DEF Flagged, Sup, Status
<1>6. ASSUME Down(sup.state) \/ (sup.state = "UP" /\ Down("LASTUP")),
             sup.state \in {"UP", "LASTUP"}
      PROVE  Forms
  <2>1. PICK state \in {sup.state, "LASTUP"} : Down(state)
    BY <1>6
  <2> DEFINE s == [sup EXCEPT !.status.want = "down", !.status.paused = FALSE,
                              !.state = state]
  <2>2. s \in Sup
    BY <1>1 DEF Sup, Status, States
  <2>3. sup.status.pid # Wstat
    BY <1>6 DEF PidOfState
  <2>4. /\ s.due = sup.due /\ s.cont = sup.cont /\ s.state = state
        /\ s.status.pid = sup.status.pid
        /\ s.status.finishing = sup.status.finishing
    BY <1>1 DEF Sup, Status
  <2>5. Kept(Announced(s))
    <3> HIDE DEF s
    <3> QED
      BY <1>1, <1>6, <2>1, <2>2, <2>3, <2>4, AnnouncedKept
  <2> QED
    BY <1>6, <1>13, <2>1, <2>5 DEF Down
<1>7. CASE ActDown(what) /\ sup.state = "DOWN"
  <2>1. sup.status.pid # Wstat
    BY <1>7, S6SuperviseAssumption DEF PidOfState
  <2>2. Kept([sup EXCEPT !.cont = FALSE])
    BY <1>1, <1>7 DEF Kept, Sup
  <2> QED
    BY <1>2, <1>3, <1>4, <1>7, <2>1, <2>2
       DEF ActDown, downtimeout, bail, nop, WantNow, Want
<1>8. ASSUME ActAnyUp(what), sup.state \in {"UP", "LASTUP"}
      PROVE  Forms
  <2>1. sup.status.pid # Wstat
    BY <1>8 DEF PidOfState
  <2> QED
    BY <1>2, <1>3, <1>4, <1>5, <1>13, <1>8, <2>1
       DEF ActAnyUp, uptimeout, Forward, killp, killc, Want
<1>9. CASE ActUp(what) /\ sup.state = "UP"
  <2>1. sup.status.pid # Wstat
    BY <1>9 DEF PidOfState
  <2>2. Kept([sup EXCEPT !.state = "LASTUP"])
    BY <1>1, <1>9 DEF Kept, Sup, States
  <2> QED
    BY <1>4, <1>6, <1>8, <1>9, <2>1, <2>2 DEF ActUp, Last, Want
<1>10. CASE ActLastUp(what) /\ sup.state = "LASTUP"
  BY <1>2, <1>6, <1>8, <1>10 DEF ActLastUp, nop
<1>11. CASE ActFinish(what) /\ sup.state = "FINISH"
  <2>1. sup.status.pid # Wstat
    BY <1>11 DEF PidOfState
  <2>2. Kept([sup EXCEPT !.state = "LASTFINISH"])
    BY <1>1, <1>11 DEF Kept, Sup, States
  <2> QED
    BY <1>2, <1>4, <1>5, <1>13, <1>11, <2>1, <2>2
       DEF ActFinish, finishtimeout, Last, nop, Want
<1>12. CASE ActLastFinish(what) /\ sup.state = "LASTFINISH"
  <2>1. what = "TIMEOUT" => sup.status.pid # Wstat
    BY DEF PidOfState
  <2> QED
    BY <1>2, <1>5, <1>12, <1>13, <2>1 DEF ActLastFinish, finishtimeout, nop
<1> QED
  BY <1>7, <1>9, <1>10, <1>11, <1>12 DEF Act

-----------------------------------------------------------------------------
(* The invariant is inductive.                                             *)

\* The processes are signalled at most, or die.
SameShape ==
  /\ procs' \in [Pids -> Proc]
  /\ \A p \in Pids : /\ procs'[p].prog = procs[p].prog
                     /\ procs'[p].st = "free" <=> procs[p].st = "free"

\* main() stays where it is, or goes on without a ./finish to be started.
SamePlace ==
  \/ pc' = pc
  \/ pc # "finish" /\ pc' # "finish" /\ (pc' = "signals" => sup.cont)

LEMMA KeptStep ==
  ASSUME SupInv, Kept(sup'), SameShape, SamePlace
  PROVE  SupInv'
<1> USE DEF SupInv
<1>1. /\ sup' \in Sup /\ procs' \in [Pids -> Proc] /\ FreeIsNoProg'
  BY DEF SameShape, FreeIsNoProg, Kept
<1>2. Leaving'
  BY DEF Kept, SamePlace, Leaving, PidOfState
<1>3. PidOfState'
  BY S6SuperviseAssumption DEF Kept, SamePlace, Leaving, PidOfState
<1>4. FinishingTrue'
  BY DEF Kept, FinishingTrue
<1>5. RightChild'
  <2>1. /\ Running' <=> Running
        /\ FinishRuns' <=> FinishRuns
        /\ sup'.status.pid = sup.status.pid
    BY DEF Kept, SamePlace, Running, FinishRuns
  <2> QED
    BY <2>1 DEF ChildTrue, RightChild, SameShape
<1>6. StatusTrue'
  <2>1. CASE sup'.shown = sup.shown
    BY <2>1 DEF Kept, SamePlace, Running, ChildTrue, StatusTrue, Leaving
  <2>2. CASE sup'.shown = sup'.status
    <3>1. Running' <=> Running
      BY DEF Kept, SamePlace, Running
    <3>2. Running => sup.status.pid \in Pids /\ ~sup.status.finishing
      BY DEF ChildTrue, RightChild, FinishingTrue, Running
    <3>3. ~Running => sup.status.pid = NoPid \/ sup.status.finishing
      BY DEF Running, PidOfState, FinishingTrue, Sup, States
    <3> QED
      BY <2>2, <3>1, <3>2, <3>3, S6SuperviseAssumption DEF StatusTrue, Kept
  <2> QED
    BY <2>1, <2>2 DEF Kept
<1> QED
  BY <1>1, <1>2, <1>3, <1>4, <1>5, <1>6 DEF ChildTrue

\* A fork in a process table without a program.
LEMMA ForkFacts ==
  ASSUME procs \in [Pids -> Proc], NEW p \in Pids,
         NEW prog \in {"none", "run", "finish"}, Fork(p, prog)
  PROVE  /\ procs' \in [Pids -> Proc]
         /\ procs[p].st = "free"
         /\ procs'[p].prog = prog /\ procs'[p].st = "live"
         /\ \A q \in Pids \ {p} : procs'[q] = procs[q]
  BY DEF Fork, Proc

\* Nothing of the service runs when ./run or ./finish is started.
LEMMA NothingRuns ==
  ASSUME SupInv, sup.status.pid = NoPid
  PROVE  \A p \in Pids : procs[p].prog = "none"
  BY S6SuperviseAssumption DEF SupInv, ChildTrue, RightChild, FreeIsNoProg

LEMMA StartStep ==
  ASSUME SupInv, sup.state = "DOWN", NEW s, Kept(s), s.cont = sup.cont,
         TryStart(s), pc' = pc, pc = "signals" => sup.cont
  PROVE  SupInv'
<1> USE DEF SupInv
<1>0. /\ s \in Sup /\ s.state = "DOWN" /\ s.status.pid = NoPid
      /\ sup.status.pid = NoPid /\ pc # "finish"
      /\ \A p \in Pids : procs[p].prog = "none"
  BY NothingRuns DEF Kept, PidOfState
<1>1. CASE sup' = [s EXCEPT !.armed = TRUE] /\ SameShape
  <2>1. Kept([s EXCEPT !.armed = TRUE])
    BY DEF Kept, Sup
  <2> QED
    BY <1>1, <2>1, KeptStep DEF SamePlace
<1>2. CASE Fails("fork") /\ sup' = [s EXCEPT !.armed = TRUE] /\ UNCHANGED procs
  BY <1>1, <1>2 DEF SameShape
<1>3. CASE (\E p \in Pids : Fork(p, "none")) /\ sup' = [s EXCEPT !.armed = TRUE]
  <2>1. PICK p \in Pids : Fork(p, "none")
    BY <1>3
  <2>2. /\ procs' \in [Pids -> Proc]
        /\ \A q \in Pids : procs'[q].prog = "none"
    BY <1>0, <2>1, ForkFacts
  <2>3. Kept(sup')
    BY <1>3 DEF Kept, Sup
  <2>4. FreeIsNoProg' /\ RightChild'
    BY <1>0, <2>2, <2>3 DEF FreeIsNoProg, RightChild, Kept, Running, FinishRuns
  <2>5. Leaving' /\ PidOfState' /\ FinishingTrue'
    BY <1>0, <2>3 DEF Leaving, PidOfState, FinishingTrue, Kept
  <2>6. StatusTrue'
    BY <1>0, <2>3 DEF StatusTrue, ChildTrue, Kept, Running
  <2> QED
    BY <2>2, <2>3, <2>4, <2>5, <2>6 DEF Kept, ChildTrue
<1>4. CASE \E p \in Pids : Fork(p, "run") /\ sup' = Started(s, p)
  <2>1. PICK p \in Pids : Fork(p, "run") /\ sup' = Started(s, p)
    BY <1>4
  <2>2. /\ procs' \in [Pids -> Proc]
        /\ procs'[p].prog = "run" /\ procs'[p].st = "live"
        /\ \A q \in Pids \ {p} : procs'[q].prog = "none"
    BY <1>0, <2>1, ForkFacts
  <2>3. /\ sup' \in Sup
        /\ sup'.state = "UP" /\ sup'.cont = sup.cont /\ sup'.status.pid = p
        /\ sup'.shown = sup'.status /\ ~sup'.status.finishing
    BY <1>0, <2>1 DEF Started, Announced, Sup, Status, States, Kept, FinishingTrue
  <2>4. FreeIsNoProg' /\ RightChild'
    BY <1>0, <2>2, <2>3 DEF FreeIsNoProg, RightChild, Running, FinishRuns
  <2>5. Leaving' /\ PidOfState' /\ FinishingTrue'
    BY <1>0, <2>3, S6SuperviseAssumption DEF Leaving, PidOfState, FinishingTrue
  <2>6. StatusTrue'
    BY <1>0, <2>3, S6SuperviseAssumption DEF StatusTrue, Running
  <2> QED
    BY <2>2, <2>3, <2>4, <2>5, <2>6 DEF ChildTrue
<1> QED
  BY <1>2, <1>3, <1>4 DEF TryStart

\* wait_reap() or the wait for the child: only what is dead is waited for, and the
\* child only when it is noticed.
LEMMA ChldStep ==
  ASSUME SupInv, Chld
  PROVE  SupInv'
<1> USE DEF SupInv
<1>1. PICK ps \in SUBSET Zombies :
        /\ Reaped(ps)
        /\ \/ sup.status.pid \in ps /\ ChildDied
           \/ sup.status.pid \notin ps /\ UNCHANGED <<pc, sup>>
  <2>1. CASE /\ sup.status.pid \in Zombies
             /\ \E others \in SUBSET (Zombies \ {sup.status.pid}) :
                  Reaped(others \cup {sup.status.pid})
             /\ ChildDied
    <3>1. PICK others \in SUBSET (Zombies \ {sup.status.pid}) :
            Reaped(others \cup {sup.status.pid})
      BY <2>1
    <3>2. others \cup {sup.status.pid} \in SUBSET Zombies
      BY <2>1
    <3> QED
      BY <2>1, <3>1, <3>2
  <2>2. CASE /\ sup.status.pid \notin Zombies
             /\ Reaped(Zombies)
             /\ UNCHANGED <<pc, sup>>
    BY <2>2
  <2> QED
    BY <2>1, <2>2 DEF Chld
<1>2. /\ procs' \in [Pids -> Proc]
      /\ \A p \in ps : procs'[p].prog = "none"
      /\ \A p \in Pids \ ps : procs'[p] = procs[p]
      /\ FreeIsNoProg'
  <2>1. NoProc \in Proc /\ NoProc.prog = "none"
    BY DEF NoProc, Proc
  <2>2. ps \subseteq Pids
    BY DEF Zombies
  <2> QED
    BY <1>1, <2>1, <2>2 DEF Reaped, FreeIsNoProg
<1>3. CASE sup.status.pid \notin ps /\ UNCHANGED <<pc, sup>>
  <2>1. \A p \in ps : procs[p].prog = "none"
    BY <1>3 DEF ChildTrue, RightChild, Zombies
  <2>2. \A p \in Pids : procs'[p].prog = procs[p].prog
    BY <1>2, <2>1
  <2>3. \A p \in Pids : procs'[p].st = "free" /\ procs[p].st # "free" =>
                          procs[p].prog = "none"
    BY <1>2, <2>1
  <2>4. RightChild'
    BY <1>2, <1>3, <2>2, <2>3
       DEF ChildTrue, RightChild, FreeIsNoProg, Running, FinishRuns
  <2>5. Leaving' /\ PidOfState' /\ FinishingTrue' /\ StatusTrue'
    BY <1>3 DEF Leaving, PidOfState, FinishingTrue, ChildTrue, StatusTrue, Running
  <2> QED
    BY <1>2, <1>3, <2>4, <2>5 DEF ChildTrue
<1>4. CASE sup.status.pid \in ps /\ ChildDied
  <2>1. sup.status.pid \in Pids /\ pc = "signals" /\ sup.cont
    <3>1. sup.status.pid \in Pids /\ pc = "signals"
      BY <1>4 DEF Zombies, Chld, At
    <3> QED
      BY <3>1, S6SuperviseAssumption DEF Leaving, PidOfState, Sup
  <2>2. \A p \in Pids : procs'[p].prog = "none"
    BY <1>2, <1>4 DEF ChildTrue, RightChild, FreeIsNoProg
  <2>3. CASE /\ sup.state \in {"UP", "LASTUP"}
             /\ sup' = RunDied /\ pc' = "finish"
    <3>1. /\ sup' \in Sup
          /\ sup'.state = sup.state /\ sup'.cont /\ sup'.status.pid = NoPid
          /\ sup'.status.finishing = sup.status.finishing
          /\ sup'.shown = sup'.status
      BY <2>1, <2>3 DEF RunDied, Announced, Sup, Status
    <3>2. Leaving' /\ PidOfState' /\ FinishingTrue'
      BY <2>3, <3>1, S6SuperviseAssumption DEF Leaving, PidOfState, FinishingTrue
    <3>3. RightChild' /\ StatusTrue'
      BY <1>2, <2>2, <2>3, <3>1
         DEF RightChild, StatusTrue, Running, FinishRuns, FreeIsNoProg
    <3> QED
      BY <1>2, <3>1, <3>2, <3>3 DEF ChildTrue
  <2>4. CASE sup.state = "FINISH" /\ sup' = FinishDied /\ UNCHANGED pc
    <3>1. /\ sup' \in Sup
          /\ sup'.state = "DOWN" /\ sup'.cont /\ sup'.status.pid = NoPid
          /\ ~sup'.status.finishing
          /\ sup'.shown = sup'.status
      BY <2>1, <2>4 DEF FinishDied, Announced, Sup, Status, States
    <3>2. Leaving' /\ PidOfState' /\ FinishingTrue'
      BY <2>1, <2>4, <3>1, S6SuperviseAssumption
         DEF Leaving, PidOfState, FinishingTrue
    <3>3. RightChild' /\ StatusTrue'
      BY <1>2, <2>2, <2>4, <3>1
         DEF RightChild, StatusTrue, Running, FinishRuns, FreeIsNoProg
    <3> QED
      BY <1>2, <3>1, <3>2, <3>3 DEF ChildTrue
  <2>5. CASE sup.state = "LASTFINISH" /\ sup' = LastFinishDied /\ UNCHANGED pc
    <3>1. /\ sup' \in Sup
          /\ sup'.state = "LASTFINISH" /\ ~sup'.cont /\ sup'.status.pid = Wstat
          /\ sup'.status.finishing = sup.status.finishing
          /\ sup'.shown = sup.shown
      BY <2>1, <2>5 DEF LastFinishDied, Sup, Status
    <3>2. Leaving' /\ PidOfState' /\ FinishingTrue'
      BY <2>1, <2>5, <3>1, S6SuperviseAssumption
         DEF Leaving, PidOfState, FinishingTrue
    <3>3. RightChild' /\ StatusTrue'
      BY <1>2, <2>2, <2>5, <3>1
         DEF RightChild, StatusTrue, ChildTrue, Running, FinishRuns, FreeIsNoProg
    <3> QED
      BY <1>2, <3>1, <3>2, <3>3 DEF ChildTrue
  <2> QED
    BY <1>4, <2>3, <2>4, <2>5 DEF ChildDied
<1> QED
  BY <1>1, <1>3, <1>4

\* tryfinish(), with the fork that fails and the one that does not.
LEMMA TryFinishStep ==
  ASSUME SupInv, TryFinish
  PROVE  SupInv'
<1> USE DEF SupInv
<1>1. /\ sup.state \in {"UP", "LASTUP"} /\ sup.cont /\ sup.status.pid = NoPid
      /\ pc = "finish" /\ pc' = "signals"
      /\ sup.shown.pid = NoPid \/ sup.shown.finishing
  BY DEF TryFinish, At, PidOfState, ChildTrue, StatusTrue, Running
<1>2. \A p \in Pids : procs[p].prog = "none"
  BY <1>1, NothingRuns
<1>3. sup.shown.pid = NoPid
  BY <1>1 DEF ChildTrue, StatusTrue
<1>4. CASE sup' = NotFinishing /\ UNCHANGED procs
  <2>1. /\ sup' \in Sup
        /\ sup'.state = "DOWN" /\ sup'.status = sup.status /\ sup'.shown = sup.shown
    BY <1>1, <1>4 DEF NotFinishing, Sup, States
  <2>2. FreeIsNoProg' /\ Leaving' /\ PidOfState' /\ FinishingTrue'
    BY <1>1, <1>4, <2>1, S6SuperviseAssumption
       DEF FreeIsNoProg, Leaving, PidOfState, FinishingTrue
  <2>3. RightChild' /\ StatusTrue'
    BY <1>1, <1>2, <1>3, <1>4, <2>1
       DEF RightChild, StatusTrue, ChildTrue, Running, FinishRuns, FreeIsNoProg
  <2> QED
    BY <1>4, <2>1, <2>2, <2>3 DEF ChildTrue
<1>5. CASE \E p \in Pids : Fork(p, "finish") /\ sup' = Finishing(p)
  <2>1. PICK p \in Pids : Fork(p, "finish") /\ sup' = Finishing(p)
    BY <1>5
  <2>2. /\ procs' \in [Pids -> Proc]
        /\ procs'[p].prog = "finish" /\ procs'[p].st = "live"
        /\ \A q \in Pids \ {p} : procs'[q] = procs[q]
    BY <2>1, ForkFacts
  <2>3. /\ sup' \in Sup
        /\ sup'.state \in {"FINISH", "LASTFINISH"} /\ sup'.cont
        /\ sup'.status.pid = p /\ sup'.status.finishing
        /\ sup'.shown = sup.shown
    BY <1>1, <2>1 DEF Finishing, Sup, Status, States
  <2>4. FreeIsNoProg' /\ Leaving' /\ PidOfState' /\ FinishingTrue'
    BY <1>1, <2>2, <2>3, S6SuperviseAssumption
       DEF FreeIsNoProg, Leaving, PidOfState, FinishingTrue
  <2>5. RightChild' /\ StatusTrue'
    BY <1>1, <1>2, <1>3, <2>2, <2>3
       DEF RightChild, StatusTrue, Running, FinishRuns
  <2> QED
    BY <2>2, <2>3, <2>4, <2>5 DEF ChildTrue
<1> QED
  BY <1>4, <1>5 DEF TryFinish

\* A step of s6-supervise or of its world starts a program, waits for some, or
\* leaves them and what is known of them as they were.
Starts ==
  /\ sup.state = "DOWN" /\ UNCHANGED pc
  /\ pc = "control" \/ (pc = "pause" /\ sup.cont)
  /\ \E s : s.cont = sup.cont /\ Kept(s) /\ TryStart(s)

Keeps ==
  /\ Kept(sup') /\ SameShape /\ SamePlace
  /\ sup'.cont # sup.cont => UNCHANGED pc /\ (pc = "signals" \/ "x" \in Cmds)
  /\ pc' = "control" => pc = "control" \/ sup.cont
  /\ pc' = "exited" => pc = "exited" \/ ~sup.cont
  /\ pc = "exited" => pc' = "exited"

LEMMA StepForms ==
  ASSUME SupInv, fifo \in Seq(Cmds),
         [Next]_<<pc, sup, procs, fifo, pending, sent, faults>>
  PROVE  Keeps \/ Starts \/ Chld \/ TryFinish
<1> USE DEF SupInv
<1>1. Kept(sup) /\ Kept([sup EXCEPT !.due = "none"])
  BY DEF Kept, Sup
<1>2. UNCHANGED procs => SameShape
  BY DEF SameShape
<1>3. ASSUME NEW s, NEW sigs, Do(s, sigs)
      PROVE  SameShape
  BY <1>3, SignalledFacts DEF Do, SameShape
<1>4. ASSUME NEW what, Act(what), UNCHANGED pc,
             \/ pc = "pause" /\ what = "TIMEOUT" /\ sup.cont
             \/ pc = "signals" /\ what \in {"TERM", "HUP", "QUIT"}
             \/ pc = "control" /\ what \in Cmds
      PROVE  Keeps \/ Starts
  <2>0. what = "TIMEOUT" => sup.cont
    BY <1>4, S6SuperviseAssumption DEF AllCmds
  <2>1. CASE \E s, sigs :
               /\ Kept(s) /\ Do(s, sigs)
               /\ s.cont = sup.cont \/ what \in {"TERM", "HUP", "QUIT", "x"}
    <3>1. /\ Kept(sup') /\ SameShape
          /\ sup'.cont = sup.cont \/ what \in {"TERM", "HUP", "QUIT", "x"}
      BY <1>3, <2>1 DEF Do
    <3>2. what \in Cmds /\ what \in {"TERM", "HUP", "QUIT", "x"} => "x" \in Cmds
      BY S6SuperviseAssumption DEF AllCmds
    <3> QED
      BY <1>4, <3>1, <3>2 DEF Keeps, SamePlace
  <2>2. CASE /\ what \in {"TIMEOUT", "o", "u"} /\ sup.state = "DOWN"
             /\ \E s : s.cont = sup.cont /\ Kept(s) /\ TryStart(s)
    BY <1>4, <2>2 DEF Starts
  <2> QED
    BY <1>4, <2>0, <2>1, <2>2, ActForms
<1>5. CASE Notify
  BY <1>1, <1>2, <1>5 DEF Notify, Keeps, SamePlace
<1>6. CASE Timeout
  BY <1>4, <1>6 DEF Timeout, At
<1>7. CASE Iopause \/ SignalsDone \/ ControlDone \/ Exit
  BY <1>1, <1>2, <1>7 DEF Iopause, SignalsDone, ControlDone, Exit, At, Keeps, SamePlace
<1>8. ASSUME NEW sig \in Signals, Signal(sig)
      PROVE  Keeps \/ Starts
  <2>1. sig \in {"TERM", "HUP", "QUIT"} /\ Act(sig) /\ UNCHANGED pc /\ pc = "signals"
    BY <1>8, S6SuperviseAssumption DEF Signal, At
  <2> QED
    BY <1>4, <2>1
<1>9. CASE Control
  <2>1. /\ Act(Head(fifo)) /\ UNCHANGED pc /\ pc = "control"
    BY <1>9 DEF Control, At
  <2>2. Head(fifo) \in Cmds
    BY <1>9 DEF Control
  <2> QED
    BY <1>4, <2>1, <2>2
<1>10. ASSUME NEW p \in Pids, Die(p)
       PROVE  Keeps
  <2>1. SameShape
    BY <1>10 DEF Die, SameShape, Proc
  <2> QED
    BY <1>1, <1>10, <2>1 DEF Die, Keeps, SamePlace
<1>11. CASE \/ \E c \in Cmds : SendCmd(c)
            \/ \E sig \in Signals : SendSignal(sig)
            \/ UNCHANGED <<pc, sup, procs, fifo, pending, sent, faults>>
  BY <1>1, <1>2, <1>11 DEF SendCmd, SendSignal, Keeps, SamePlace
<1> QED
  BY <1>5, <1>6, <1>7, <1>8, <1>9, <1>10, <1>11 DEF Next, Step

LEMMA SupStep ==
  ASSUME SupInv, fifo \in Seq(Cmds),
         [Next]_<<pc, sup, procs, fifo, pending, sent, faults>>
  PROVE  SupInv'
  BY StepForms, KeptStep, StartStep, ChldStep, TryFinishStep DEF Keeps, Starts

LEMMA SupInit == Init => SupInv
<1> SUFFICES ASSUME Init
             PROVE  SupInv
  OBVIOUS
<1>1. PICK want \in BootWants :
        LET status == [pid |-> NoPid, want |-> want, paused |-> FALSE,
                       finishing |-> FALSE]
        IN  sup = [cont |-> TRUE, state |-> "DOWN", status |-> status,
                   shown |-> status, armed |-> TRUE, due |-> "none"]
  BY DEF Init
<1>2. sup \in Sup /\ procs \in [Pids -> Proc] /\ pc = "pause"
  BY <1>1, S6SuperviseAssumption DEF Init, Sup, States, Status, NoProc, Proc
<1>3. \A p \in Pids : procs[p].st = "free" /\ procs[p].prog = "none"
  BY DEF Init, NoProc
<1>4. FreeIsNoProg /\ Leaving /\ PidOfState /\ FinishingTrue
  BY <1>1, <1>2, <1>3, S6SuperviseAssumption
     DEF FreeIsNoProg, Leaving, PidOfState, FinishingTrue
<1>5. ChildTrue
  BY <1>1, <1>2, <1>3 DEF ChildTrue, RightChild, StatusTrue, Running, FinishRuns
<1> QED
  BY <1>2, <1>4, <1>5 DEF SupInv

\* The loop, the fifo, the self pipe and the counters.
LoopOK ==
  /\ pc \in Places
  /\ fifo \in Seq(Cmds)
  /\ pending \subseteq Signals \cup {"CHLD"}
  /\ sent \in 0 .. MaxCmds /\ faults \in 0 .. MaxFaults

LEMMA LoopStep ==
  ASSUME SupInv, LoopOK, [Next]_<<pc, sup, procs, fifo, pending, sent, faults>>
  PROVE  LoopOK'
<1> USE DEF LoopOK, Places
<1>1. faults' \in 0 .. MaxFaults
  <2>1. ASSUME NEW what, what = "TIMEOUT" => sup.cont, Act(what)
        PROVE  faults' \in 0 .. MaxFaults
    BY <2>1, ActForms, S6SuperviseAssumption DEF SupInv, Do, TryStart, Fails
  <2>2. CASE Control
    <3>1. Head(fifo) \in Cmds
      BY <2>2 DEF Control
    <3> QED
      BY <2>1, <2>2, <3>1, S6SuperviseAssumption DEF Control, AllCmds
  <2>3. CASE \E sig \in Signals : Signal(sig)
    BY <2>1, <2>3, S6SuperviseAssumption DEF Signal
  <2>4. CASE Timeout
    BY <2>1, <2>4 DEF Timeout
  <2>5. CASE TryFinish
    BY <2>5, S6SuperviseAssumption DEF TryFinish, Fails
  <2> QED
    BY <2>2, <2>3, <2>4, <2>5
       DEF Next, Step, Notify, Iopause, Chld, SignalsDone, ControlDone, Exit,
           SendCmd, SendSignal, Die
<1>2. fifo' \in Seq(Cmds)
  <2>1. CASE Control
    <3>1. fifo # <<>> /\ fifo' = Tail(fifo)
      BY <2>1 DEF Control
    <3> QED
      BY <3>1
  <2>2. ASSUME NEW c \in Cmds, SendCmd(c)
        PROVE  fifo' \in Seq(Cmds)
    BY <2>2 DEF SendCmd
  <2> QED
    BY <2>1, <2>2
       DEF Next, Step, Notify, Timeout, Iopause, Signal, Chld, SignalsDone,
           TryFinish, ControlDone, Exit, SendSignal, Die
<1>3. pc' \in Places /\ pending' \subseteq Signals \cup {"CHLD"}
  BY DEF Next, Step, Notify, Timeout, Iopause, Signal, Chld, ChildDied, SignalsDone,
         TryFinish, Control, ControlDone, Exit, SendCmd, SendSignal, Die
<1>4. sent' \in 0 .. MaxCmds
  BY S6SuperviseAssumption
     DEF Next, Step, Notify, Timeout, Iopause, Signal, Chld, SignalsDone,
         TryFinish, Control, ControlDone, Exit, SendCmd, SendSignal, Die, Sending
<1> QED
  BY <1>1, <1>2, <1>3, <1>4

LEMMA LoopInit == Init => LoopOK
<1>1. <<>> \in Seq(Cmds)
  OBVIOUS
<1> QED
  BY <1>1, S6SuperviseAssumption DEF Init, LoopOK, Places

\* s6-svwait only subscribes, reads the status file and takes events.
LEMMA WaitSteps ==
  [WaitNext]_<<vars, wvars>>
    => [Next]_<<pc, sup, procs, fifo, pending, sent, faults>>
  BY DEF WaitNext, Waits, vars

LEMMA Invariant == WaitSpec => [](SupInv /\ LoopOK)
<1>1. WaitInit => SupInv /\ LoopOK
  BY SupInit, LoopInit DEF WaitInit
<1>2. SupInv /\ LoopOK /\ [WaitNext]_<<vars, wvars>> => SupInv' /\ LoopOK'
  BY WaitSteps, SupStep, LoopStep DEF LoopOK
<1> QED
  BY <1>1, <1>2, PTL DEF WaitSpec

-----------------------------------------------------------------------------
(* The theorems.                                                           *)

\* What s6-supervise takes for its child is it, in its struct and in the status
\* file, whatever is sent, x and k included, and whatever fails: it never signals
\* its own process group, nor a stranger.
THEOREM ChildSafe == WaitSpec => []ChildTrue
<1>1. SupInv => ChildTrue
  BY DEF SupInv
<1> QED
  BY <1>1, Invariant, PTL

\* Without the byte x s6-supervise only stops its loop when nothing runs, and reads
\* no byte after that.
QuitsIdle ==
  /\ ~sup.cont => sup.state \in {"DOWN", "LASTFINISH"} /\ pc # "control"
  /\ pc = "exited" => ~sup.cont

LEMMA QuitsStep ==
  ASSUME "x" \notin Cmds, SupInv, fifo \in Seq(Cmds), QuitsIdle,
         [Next]_<<pc, sup, procs, fifo, pending, sent, faults>>
  PROVE  QuitsIdle'
<1> USE DEF SupInv, QuitsIdle
<1>1. CASE Keeps
  BY <1>1 DEF Keeps, Kept, SamePlace
<1>2. CASE Starts
  <2>1. sup.cont /\ pc # "exited" /\ UNCHANGED pc
    BY <1>2 DEF Starts
  <2>2. sup'.cont
    BY <1>2, <2>1 DEF Starts, TryStart, Started, Announced, Kept, Sup
  <2> QED
    BY <2>1, <2>2
<1>3. CASE Chld
  <2>1. pc = "signals" /\ pc' \in {"signals", "finish"}
    BY <1>3 DEF Chld, ChildDied, At
  <2>2. sup' = sup \/ sup'.cont = sup.cont \/ sup'.state = "LASTFINISH"
    BY <1>3 DEF Chld, ChildDied, RunDied, FinishDied, LastFinishDied, Announced, Sup
  <2>3. CASE ChildDied
    BY <1>3, <2>1, <2>3
       DEF ChildDied, RunDied, FinishDied, LastFinishDied, Announced, Sup, PidOfState,
           Leaving
  <2> QED
    BY <1>3, <2>1, <2>3 DEF Chld
<1>4. CASE TryFinish
  <2>1. pc = "finish" /\ pc' = "signals" /\ sup.cont
    BY <1>4 DEF TryFinish, At, PidOfState
  <2>2. sup' = NotFinishing \/ \E p \in Pids : sup' = Finishing(p)
    BY <1>4 DEF TryFinish
  <2>3. ~sup'.cont => sup'.state = "DOWN"
    BY <2>1, <2>2 DEF NotFinishing, Finishing, Sup
  <2> QED
    BY <2>1, <2>3
<1> QED
  BY <1>1, <1>2, <1>3, <1>4, StepForms

\* The phase in terms of the struct.
Face ==
  IF Running THEN "run" ELSE IF FinishRuns THEN "finish"
  ELSE IF pc = "finish" THEN "ended" ELSE "down"

LEMMA PhaseIsFace ==
  ASSUME SupInv
  PROVE  Phase = Face
<1> USE DEF SupInv, ChildTrue, RightChild
<1>1. Running => Exists("run")
  BY DEF FreeIsNoProg, Exists
<1>2. FinishRuns => Exists("finish") /\ ~Running
  BY DEF FreeIsNoProg, Exists, FinishRuns, Running
<1>3. ASSUME NEW prog \in {"run", "finish"}, Exists(prog)
      PROVE  /\ prog = "run" => Running
             /\ prog = "finish" => FinishRuns
  <2>1. /\ sup.status.pid \in Pids
        /\ procs[sup.status.pid].prog = prog
    BY <1>3 DEF Exists
  <2>2. sup.state # "DOWN" /\ pc # "finish" /\ sup.status.pid # Wstat
    BY <2>1, S6SuperviseAssumption DEF PidOfState
  <2>3. Running \/ FinishRuns
    BY <2>2 DEF Running, FinishRuns, PidOfState, Leaving, Sup, States
  <2> QED
    BY <2>1, <2>3
<1> QED
  BY <1>1, <1>2, <1>3 DEF Phase, Face

\* s6-supervise implements Lifecycle when nobody writes an x: a ./finish after each
\* ./run, one program at a time, and no exit while something runs. TERM, HUP and QUIT
\* are allowed.
THEOREM SuperviseRefinesLifecycle ==
  ASSUME "x" \notin Cmds
  PROVE  WaitSpec => ImplementsLifecycle
<1> DEFINE Inv == SupInv /\ LoopOK /\ QuitsIdle
<1>1. WaitInit => QuitsIdle /\ L!Init
  <2> SUFFICES ASSUME WaitInit
               PROVE  QuitsIdle /\ L!Init
    OBVIOUS
  <2>1. sup.cont /\ pc = "pause" /\ sup.state = "DOWN"
    BY DEF WaitInit, Init
  <2>2. Face = "down"
    BY <2>1 DEF Face, Running, FinishRuns
  <2>3. Phase = "down"
    BY <2>2, SupInit, PhaseIsFace DEF WaitInit
  <2> QED
    BY <2>1, <2>3 DEF QuitsIdle, L!Init
<1>2. SupInv /\ LoopOK /\ QuitsIdle /\ [WaitNext]_<<vars, wvars>> => QuitsIdle'
  BY WaitSteps, QuitsStep DEF LoopOK
<1>3. Inv /\ Inv' /\ [WaitNext]_<<vars, wvars>> => [L!Next]_(L!vars)
  <2> SUFFICES ASSUME Inv, Inv', [WaitNext]_<<vars, wvars>>
               PROVE  [L!Next]_(L!vars)
    OBVIOUS
  <2>1. Phase = Face
    BY PhaseIsFace
  <2>2. Phase' = Face'
    <3>1. SupInv' => (Phase = Face)'
      BY PhaseIsFace, PTL
    <3> QED
      BY <3>1
  <2>3. fifo \in Seq(Cmds)
    BY DEF LoopOK
  <2>4. CASE Keeps
    <3>1. (pc' = "exited" /\ pc # "exited") => Face = "down"
      BY <2>4 DEF Keeps, SamePlace, QuitsIdle, Face, Running, FinishRuns
    <3>2. Face' = Face
      BY <2>4 DEF Keeps, Kept, SamePlace, Face, Running, FinishRuns, Leaving, SupInv
    <3>3. CASE pc' = "exited" /\ pc # "exited"
      BY <2>1, <2>2, <3>1, <3>2, <3>3 DEF L!Next, L!Leave
    <3>4. CASE pc' = "exited" <=> pc = "exited"
      BY <2>1, <2>2, <3>2, <3>4 DEF L!vars
    <3> QED
      BY <2>4, <3>3, <3>4 DEF Keeps
  <2>5. CASE Starts
    <3>1. UNCHANGED pc /\ pc \in {"control", "pause"} /\ Face = "down"
      BY <2>5 DEF Starts, Face, Running, FinishRuns
    <3>2. sup'.state \in {"DOWN", "UP"}
      BY <2>5 DEF Starts, TryStart, Started, Announced, Kept, Sup
    <3>3. Face' \in {"down", "run"}
      BY <3>1, <3>2 DEF Face, Running, FinishRuns
    <3>4. Face' = "down" => Phase' = Phase
      BY <2>1, <2>2, <3>1
    <3> QED
      BY <2>1, <2>2, <3>1, <3>3, <3>4
         DEF L!vars, L!Next, L!StartRun, L!Move
  <2>6. CASE Chld
    <3>1. pc = "signals" /\ pc' \in {"signals", "finish"}
      BY <2>6 DEF Chld, ChildDied, At
    <3>2. CASE UNCHANGED <<pc, sup>>
      BY <2>1, <2>2, <3>2 DEF Face, Running, FinishRuns, L!vars
    <3>3. CASE sup.state \in {"UP", "LASTUP"} /\ sup' = RunDied /\ pc' = "finish"
      <4>1. Face = "run"
        BY <3>1, <3>3 DEF Face, Running
      <4>2. Face' = "ended"
        BY <3>3 DEF Face, Running, FinishRuns, RunDied, Announced, SupInv, Sup
      <4> QED
        BY <2>1, <2>2, <3>1, <4>1, <4>2
           DEF L!Next, L!RunEnds, L!Move
    <3>4. CASE /\ sup.state \in {"FINISH", "LASTFINISH"} /\ sup.cont
               /\ sup' \in {FinishDied, LastFinishDied} /\ UNCHANGED pc
      <4>1. Face = "finish"
        BY <3>1, <3>4 DEF Face, Running, FinishRuns
      <4>2. sup' = FinishDied => sup'.state = "DOWN"
        BY DEF FinishDied, Announced, SupInv, Sup
      <4>3. sup' = LastFinishDied => sup'.state = sup.state /\ ~sup'.cont
        BY DEF LastFinishDied, SupInv, Sup
      <4>4. Face' = "down"
        BY <3>1, <3>4, <4>2, <4>3 DEF Face, Running, FinishRuns
      <4> QED
        BY <2>1, <2>2, <3>1, <3>4, <4>1, <4>4
           DEF L!Next, L!FinishEnds, L!Move
    <3>5. ChildDied /\ sup.status.pid \in Zombies => sup.cont
      BY S6SuperviseAssumption DEF SupInv, Leaving, PidOfState, Zombies, QuitsIdle,
                                   ChildDied
    <3> QED
      BY <2>6, <3>2, <3>3, <3>4, <3>5 DEF Chld, ChildDied
  <2>7. CASE TryFinish
    <3>1. /\ pc = "finish" /\ pc' = "signals" /\ sup.cont
          /\ sup.state \in {"UP", "LASTUP"}
      BY <2>7 DEF TryFinish, At, SupInv, PidOfState
    <3>2. Face = "ended"
      BY <3>1 DEF Face, Running, FinishRuns
    <3>3. CASE sup' = NotFinishing
      <4>1. Face' = "down"
        BY <3>1, <3>3 DEF Face, Running, FinishRuns, NotFinishing, SupInv, Sup
      <4> QED
        BY <2>1, <2>2, <3>1, <3>2, <4>1 DEF L!Next, L!SkipFinish, L!Move
    <3>4. CASE \E p \in Pids : sup' = Finishing(p)
      <4>1. Face' = "finish"
        BY <3>1, <3>4 DEF Face, Running, FinishRuns, Finishing, SupInv, Sup
      <4> QED
        BY <2>1, <2>2, <3>1, <3>2, <4>1 DEF L!Next, L!StartFinish, L!Move
    <3> QED
      BY <2>7, <3>3, <3>4 DEF TryFinish
  <2> QED
    BY <2>3, <2>4, <2>5, <2>6, <2>7, StepForms, WaitSteps
<1> QED
  BY <1>1, <1>2, <1>3, Invariant, PTL
     DEF WaitSpec, ImplementsLifecycle, L!Spec

-----------------------------------------------------------------------------
(* s6-svwait.                                                              *)

\* The event that is about to be sent tells what is.
DueTrue == /\ sup.due = "u" => Running
           /\ sup.due = "d" => ~Running

LEMMA DueStep ==
  ASSUME SupInv, fifo \in Seq(Cmds), DueTrue,
         [Next]_<<pc, sup, procs, fifo, pending, sent, faults>>
  PROVE  DueTrue'
<1> USE DEF SupInv, DueTrue
<1>1. CASE Keeps
  BY <1>1 DEF Keeps, Kept, SamePlace, Running
<1>2. CASE Starts
  <2>1. PICK s : Kept(s) /\ TryStart(s) /\ sup.state = "DOWN"
    BY <1>2 DEF Starts
  <2>2. sup.due # "u" /\ s.due # "u"
    BY <2>1 DEF Running, Kept
  <2>3. CASE sup' = [s EXCEPT !.armed = TRUE]
    BY <1>2, <2>1, <2>2, <2>3 DEF Starts, Kept, Running, Sup
  <2>4. CASE \E p \in Pids : sup' = Started(s, p)
    BY <1>2, <2>1, <2>4 DEF Starts, Kept, Running, Sup, Started, Announced
  <2> QED
    BY <2>1, <2>3, <2>4 DEF TryStart
<1>3. CASE Chld
  <2>1. sup.due = "none" /\ pc = "signals"
    BY <1>3 DEF Chld, At
  <2>2. CASE sup' = RunDied /\ pc' = "finish"
    BY <2>2 DEF RunDied, Announced, Running, Sup
  <2>3. CASE sup' \in {sup, FinishDied, LastFinishDied}
    BY <2>1, <2>3 DEF FinishDied, LastFinishDied, Announced, Sup
  <2> QED
    BY <1>3, <2>2, <2>3 DEF Chld, ChildDied
<1>4. CASE TryFinish
  <2>1. sup.due = "none" /\ sup'.due = sup.due
    BY <1>4 DEF TryFinish, At, NotFinishing, Finishing, Sup
  <2> QED
    BY <2>1
<1> QED
  BY <1>1, <1>2, <1>3, <1>4, StepForms

\* What an event tells was so at some time since s6-svwait subscribed.
Told(e) == /\ e = "u" => TRUE \in seen
           /\ e = "d" => FALSE \in seen

WaitInv ==
  /\ wait \in Wait /\ misread \in BOOLEAN
  /\ events \in Seq({"u", "d", "x"}) /\ listening \in BOOLEAN
  /\ wait.step = 0 => events = <<>> /\ ~listening
  /\ ~wait.answered => \A i \in 1 .. Len(events) : Told(events[i])
  /\ wait.step = 2 /\ ~misread => wait.up \in seen
  /\ wait.answered => wait.step = 2 /\ wait.up = wait.wantup

\* seen only grows, and has the present while s6-svwait waits.
LEMMA SeenFacts ==
  ASSUME WaitNext
  PROVE  /\ seen \subseteq seen'
         /\ wait'.step # 0 /\ ~wait'.answered =>
              /\ Running => TRUE \in seen'
              /\ ~Running => FALSE \in seen'
<1>1. Running = TRUE \/ Running = FALSE
  BY DEF Running
<1> QED
  BY <1>1 DEF WaitNext

\* An event of s6-supervise is true when it is sent.
LEMMA NotifyTold ==
  ASSUME SupInv, DueTrue, WaitInv, Next, WaitNext, UNCHANGED <<wait, misread>>
  PROVE  WaitInv'
<1> USE DEF WaitInv
<1>1. CASE UNCHANGED <<events, listening>>
  BY <1>1, SeenFacts DEF Told
<1>2. ASSUME NEW e \in {"u", "d", "x"}, Tell(e), UNCHANGED listening,
             e = "u" => Running, e = "d" => ~Running
      PROVE  WaitInv'
  <2>1. CASE ~listening
    BY <1>1, <1>2, <2>1 DEF Tell
  <2>2. CASE listening
    <3>1. wait.step # 0 /\ events' = Append(events, e)
      BY <1>2, <2>2 DEF Tell
    <3>2. events' \in Seq({"u", "d", "x"}) /\ Len(events') = Len(events) + 1
      BY <3>1
    <3>3. ASSUME ~wait.answered, NEW i \in 1 .. Len(events')
          PROVE  Told(events[i])'
      <4>1. /\ Running => TRUE \in seen'
            /\ ~Running => FALSE \in seen'
        BY <1>2, <3>1, <3>3, SeenFacts
      <4>2. CASE i = Len(events) + 1
        <5>1. events'[i] = e
          BY <3>1, <4>2
        <5> QED
          BY <1>2, <4>1, <5>1 DEF Told
      <4>3. CASE i # Len(events) + 1
        <5>1. i \in 1 .. Len(events) /\ events'[i] = events[i]
          BY <3>1, <3>2, <4>3
        <5> QED
          BY <3>3, <5>1, SeenFacts DEF Told
      <4> QED
        BY <4>2, <4>3
    <3> QED
      BY <1>2, <3>1, <3>2, <3>3, SeenFacts
  <2> QED
    BY <2>1, <2>2
<1>3. CASE Notify
  <2>1. sup.due \in {"u", "d", "x"} /\ Tell(sup.due) /\ UNCHANGED listening
    BY <1>3 DEF Notify, SupInv, Sup
  <2> QED
    BY <1>2, <2>1 DEF DueTrue
<1>4. CASE Exit
  BY <1>2, <1>4 DEF Exit
<1> QED
  BY <1>1, <1>3, <1>4
     DEF Next, Step, Timeout, Iopause, Signal, Chld, SignalsDone, TryFinish, Control,
         ControlDone, SendCmd, SendSignal, Die

\* s6-svwait's own steps. The status file is true when it is read, and so are the
\* events that are taken.
LEMMA WaitsTold ==
  ASSUME SupInv, WaitInv, Waits, WaitNext
  PROVE  WaitInv'
<1> USE DEF WaitInv
<1>1. CASE Subscribe
  <2>1. wait.step = 0 /\ wait' = [wait EXCEPT !.step = 1]
    BY <1>1 DEF Subscribe, Todo, WaitOrder, Wait
  <2> QED
    BY <1>1, <2>1 DEF Subscribe, Waits, Wait
<1>2. CASE ReadStatus
  <2>1. wait.step = 1 /\ ~wait.answered
    BY <1>2 DEF ReadStatus, Todo, WaitOrder, Wait
  <2>2. PICK up \in BOOLEAN : up = (sup.shown.pid # NoPid)
    OBVIOUS
  <2>3. wait' \in Wait /\ wait'.step = 2 /\ ~wait'.answered /\ wait'.up = up
    <3>1. wait' = [wait EXCEPT !.step = 2, !.up = up]
      BY <1>2, <2>1, <2>2 DEF ReadStatus
    <3>2. wait' = [step |-> 2, answered |-> wait.answered, up |-> up,
                   wantup |-> wait.wantup, repeat |-> wait.repeat]
      BY <3>1 DEF Wait
    <3> QED
      BY <2>1, <3>2 DEF Wait
  <2>4. ~misread' => (Running <=> sup.shown.pid # NoPid)
    BY <1>2 DEF ReadStatus, SupInv, ChildTrue, StatusTrue
  <2>5. ~misread' => up \in seen'
    <3>1. /\ Running => TRUE \in seen'
          /\ ~Running => FALSE \in seen'
      <4>1. wait'.step # 0 /\ ~wait'.answered
        BY <2>3
      <4> QED
        BY <4>1, SeenFacts
    <3>2. CASE sup.shown.pid # NoPid
      BY <2>2, <2>3, <2>4, <3>1, <3>2
    <3>3. CASE sup.shown.pid = NoPid
      BY <2>2, <2>3, <2>4, <3>1, <3>3
    <3> QED
      BY <3>2, <3>3
  <2>6. misread' \in BOOLEAN
    BY <1>2 DEF ReadStatus, SupInv, Sup, Status
  <2>7. \A i \in 1 .. Len(events') : Told(events[i])'
    BY <1>2, <2>1, SeenFacts DEF ReadStatus, Told
  <2> QED
    BY <1>2, <2>3, <2>5, <2>6, <2>7 DEF ReadStatus
<1>3. CASE Answer
  <2>1. wait' = [wait EXCEPT !.answered = TRUE] /\ wait.step = 2 /\ wait.up = wait.wantup
    BY <1>3 DEF Answer
  <2>2. wait' \in Wait /\ wait'.answered /\ wait'.step = 2
        /\ wait'.up = wait.up /\ wait'.wantup = wait.wantup
    BY <2>1 DEF Wait
  <2>3. misread' = misread /\ events' = <<>> /\ listening' = FALSE
    BY <1>3 DEF Answer
  <2>4. <<>> \in Seq({"u", "d", "x"})
    OBVIOUS
  <2>5. ~misread' => wait'.up \in seen'
    BY <2>1, <2>2, <2>3, SeenFacts
  <2> QED
    BY <2>1, <2>2, <2>3, <2>4, <2>5
<1>4. CASE Hear
  <2>1. PICK n \in 1 .. Len(events), up \in BOOLEAN :
          /\ Heard(SubSeq(events, 1, n), up)
          /\ wait' = [wait EXCEPT !.up = up]
          /\ events' \in {<<>>, SubSeq(events, n + 1, Len(events))}
          /\ listening' \in BOOLEAN
    BY <1>4 DEF Hear
  <2>2. wait' \in Wait /\ wait'.step = wait.step /\ wait'.answered = wait.answered
        /\ wait'.up = up /\ wait'.wantup = wait.wantup
        /\ wait.step = 2 /\ ~wait.answered /\ UNCHANGED misread
    BY <1>4, <2>1 DEF Hear, Wait
  <2>3. /\ Len(SubSeq(events, 1, n)) = n
        /\ \A i \in 1 .. n : SubSeq(events, 1, n)[i] = events[i]
    BY SubSeqProperties
  <2>4. up = wait.up \/ \E i \in 1 .. Len(events) :
                          /\ events[i] \in {"u", "d"}
                          /\ up = (events[i] = "u")
    BY <2>1, <2>3 DEF Heard
  <2>5. up = wait.up \/ up \in seen
    BY <2>2, <2>4 DEF Told
  <2>6. /\ events' \in Seq({"u", "d", "x"})
        /\ \A j \in 1 .. Len(events') :
             \E i \in 1 .. Len(events) : events'[j] = events[i]
    <3>1. CASE events' = <<>>
      BY <3>1
    <3>2. CASE events' = SubSeq(events, n + 1, Len(events))
      BY <3>2, SubSeqProperties
    <3> QED
      BY <2>1, <3>1, <3>2
  <2>7. \A j \in 1 .. Len(events') : Told(events[j])'
    BY <2>2, <2>6, SeenFacts DEF Told
  <2> QED
    BY <2>1, <2>2, <2>5, <2>6, <2>7, SeenFacts
<1> QED
  BY <1>1, <1>2, <1>3, <1>4 DEF Waits

LEMMA WaitInvariant == WaitSpec => [](DueTrue /\ WaitInv)
<1>1. WaitInit => DueTrue /\ WaitInv
  <2>1. ASSUME WaitInit
        PROVE  DueTrue /\ WaitInv
    <3>1. sup.due = "none" /\ events = <<>> /\ listening = FALSE /\ misread = FALSE
      BY <2>1 DEF WaitInit, Init
    <3>2. wait \in Wait /\ wait.step = 0 /\ ~wait.answered
      BY <2>1, S6SvwaitAssumption DEF WaitInit, Wait
    <3>3. listening \in BOOLEAN /\ misread \in BOOLEAN
      BY <3>1
    <3>4. /\ ~(wait.step = 2 /\ ~misread)
          /\ wait.step = 0 => events = <<>> /\ ~listening
      BY <3>1, <3>2
    <3>5. <<>> \in Seq({"u", "d", "x"}) /\ Len(<<>>) = 0
      OBVIOUS
    <3>6. events \in Seq({"u", "d", "x"}) /\ \A i \in 1 .. Len(events) : Told(events[i])
      BY <3>1, <3>5
    <3> QED
      BY <3>1, <3>2, <3>3, <3>4, <3>6 DEF DueTrue, WaitInv
  <2> QED
    BY <2>1
<1>2. SupInv /\ LoopOK /\ DueTrue /\ WaitInv /\ [WaitNext]_<<vars, wvars>>
        => DueTrue' /\ WaitInv'
  <2> SUFFICES ASSUME SupInv, LoopOK, DueTrue, WaitInv, [WaitNext]_<<vars, wvars>>
               PROVE  DueTrue' /\ WaitInv'
    OBVIOUS
  <2>1. DueTrue'
    BY WaitSteps, DueStep DEF LoopOK
  <2>2. CASE WaitNext
    BY <2>1, <2>2, NotifyTold, WaitsTold DEF WaitNext
  <2>3. CASE UNCHANGED <<vars, wvars>>
    BY <2>1, <2>3 DEF vars, wvars, WaitInv, Told
  <2> QED
    BY <2>1, <2>2, <2>3
<1> QED
  BY <1>1, <1>2, Invariant, PTL DEF WaitSpec

\* When s6-svwait has answered, the service was as wanted at some time since the
\* subscription: the status read after it and each event are the truth of some
\* moment. It may have taken ./finish for ./run (misread).
THEOREM WaitSafe == WaitSpec => []WaitTrue
<1>1. WaitInv => WaitTrue
  BY DEF WaitInv, WaitTrue
<1> QED
  BY <1>1, WaitInvariant, PTL

\* Every variable of s6-supervise keeps its type, next to an s6-svwait: only pids and
\* 0 are shown in the status file, never the wait status that status.pid ends with.
THEOREM SuperviseTypes == WaitSpec => []TypeOK
<1>1. SupInv /\ LoopOK /\ WaitInv => TypeOK
  BY DEF SupInv, LoopOK, WaitInv, TypeOK
<1> QED
  BY <1>1, Invariant, WaitInvariant, PTL

=============================================================================
