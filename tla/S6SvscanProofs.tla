--------------------------- MODULE S6SvscanProofs ---------------------------
(***************************************************************************)
(* Proofs about s6-svscan, for every set of directories, pids and pipes,   *)
(* every size of its table and every number of deaths, changes, failing    *)
(* calls, bytes and signals.                                               *)
(***************************************************************************)
EXTENDS S6Svscan, FiniteSetTheorems, SequenceTheorems, TLAPS

-----------------------------------------------------------------------------
(* The inductive invariant.                                                *)

Tables ==
  /\ services \in Seq(Svinfo)
  /\ procs \in [Pids -> Proc \cup {NoProc}]

\* A directory has one slot.
OneSlot == \A i, j \in Slots : services[i].dir = services[j].dir => i = j

\* A pid in the table is that of a child which has not been waited for, of that
\* directory and that role.
PidsTrue ==
  \A i \in Slots, role \in Roles :
    LET p == services[i].pid[role] IN
    p # 0 => /\ procs[p].st # "free"
             /\ procs[p].dir = services[i].dir /\ procs[p].role = role

\* Every child which has not been waited for is in the table.
Remembered ==
  \A p \in Pids : procs[p].st # "free" =>
    \E i \in Slots : services[i].pid[procs[p].role] = p

\* The children of a slot with a log hold its pipe, and when it is closed they are
\* not two.
PipesTrue ==
  \A i \in Slots :
    /\ services[i].flaglog <=> services[i].dir \in Logged
    /\ services[i].flaglog =>
         IF services[i].pipe < 0 THEN \E role \in Roles : services[i].pid[role] = 0
         ELSE \A role \in Roles : services[i].pid[role] # 0 =>
                procs[services[i].pid[role]].pipe = services[i].pipe

TableInv == Tables /\ OneSlot /\ PidsTrue /\ Remembered /\ PipesTrue

\* Only a byte or a signal that ends the loop lets killthem() signal the active.
SparesOnly == cont => ACTIVE \notin killmode

-----------------------------------------------------------------------------
(* What the operations on the table do.                                    *)

\* services[i] = services[--n]: the last slot takes the place of slot i.
LEMMA RemovedFacts ==
  ASSUME NEW S, NEW s \in Seq(S), NEW i \in 1 .. Len(s)
  PROVE  /\ Removed(s, i) \in Seq(S)
         /\ Len(Removed(s, i)) = Len(s) - 1
         /\ \A j \in 1 .. Len(s) - 1 :
              Removed(s, i)[j] = s[IF j = i THEN Len(s) ELSE j]
<1> DEFINE t == [s EXCEPT ![i] = s[Len(s)]]
<1>1. t \in Seq(S) /\ Len(t) = Len(s) /\ Len(s) \in Nat \ {0}
  OBVIOUS
<1>2. \A j \in 1 .. Len(s) : t[j] = s[IF j = i THEN Len(s) ELSE j]
  OBVIOUS
<1> HIDE DEF t
<1>3. /\ SubSeq(t, 1, Len(s) - 1) \in Seq(S)
      /\ Len(SubSeq(t, 1, Len(s) - 1)) = Len(s) - 1
      /\ \A j \in 1 .. Len(s) - 1 : SubSeq(t, 1, Len(s) - 1)[j] = t[j]
  BY <1>1, SubSeqProperties
<1>4. Removed(s, i) = SubSeq(t, 1, Len(s) - 1)
  BY DEF Removed, t
<1> QED
  BY <1>1, <1>2, <1>3, <1>4

LEMMA SlotFacts ==
  ASSUME services \in Seq(Svinfo)
  PROVE  /\ Slots = 1 .. Len(services) /\ Len(services) \in Nat
         /\ \A i \in Slots :
              /\ services[i] \in Svinfo
              /\ services[i].pid \in [Roles -> Pids \cup {0}]
              /\ services[i].dir \in Dirs
              /\ services[i].pipe \in Pipes \cup {-1, -2}
              /\ services[i].flaglog \in BOOLEAN
<1>1. Slots = 1 .. Len(services) /\ Len(services) \in Nat
  BY DEF Slots
<1>2. \A i \in Slots : services[i] \in Svinfo
  BY <1>1
<1>3. \A v \in Svinfo : /\ v.pid \in [Roles -> Pids \cup {0}]
                        /\ v.dir \in Dirs
                        /\ v.pipe \in Pipes \cup {-1, -2}
                        /\ v.flaglog \in BOOLEAN
  BY DEF Svinfo
<1> QED
  BY <1>1, <1>2, <1>3

LEMMA NoProcFree == NoProc.st = "free"
  BY DEF NoProc

\* What nobody's pid, directory, role or pipe changes in: flags and times, and what a
\* closed pipe is marked with.
Touched ==
  /\ services' \in Seq(Svinfo) /\ Len(services') = Len(services)
  /\ \A i \in Slots :
       /\ services'[i].dir = services[i].dir
       /\ services'[i].pid = services[i].pid
       /\ services'[i].flaglog = services[i].flaglog
       /\ \/ services'[i].pipe = services[i].pipe
          \/ services'[i].pipe < 0 /\ services[i].pipe < 0

SameShape ==
  /\ procs' \in [Pids -> Proc \cup {NoProc}]
  /\ \A p \in Pids :
       /\ procs'[p].st = "free" <=> procs[p].st = "free"
       /\ procs'[p].dir = procs[p].dir /\ procs'[p].role = procs[p].role
       /\ procs'[p].pipe = procs[p].pipe

LEMMA TouchedStep ==
  ASSUME TableInv, Touched, SameShape
  PROVE  TableInv'
<1> USE DEF TableInv, Tables
<1>1. Slots' = Slots
  BY SlotFacts DEF Touched, Slots
<1>2. \A i \in Slots, role \in Roles :
        services'[i].pid[role] # 0 => services[i].pid[role] \in Pids
  BY SlotFacts DEF Touched
<1>3. OneSlot'
  BY <1>1 DEF OneSlot, Touched
<1>4. PidsTrue'
  BY <1>1, <1>2 DEF PidsTrue, Touched, SameShape
<1>5. Remembered'
  BY <1>1 DEF Remembered, Touched, SameShape
<1>6. PipesTrue'
  <2> SUFFICES ASSUME NEW i \in Slots
               PROVE  /\ services'[i].flaglog <=> services'[i].dir \in Logged
                      /\ services'[i].flaglog =>
                           IF services'[i].pipe < 0
                           THEN \E role \in Roles : services'[i].pid[role] = 0
                           ELSE \A role \in Roles : services'[i].pid[role] # 0 =>
                                  procs'[services'[i].pid[role]].pipe = services'[i].pipe
    BY <1>1 DEF PipesTrue
  <2> QED
    BY <1>2 DEF PipesTrue, Touched, SameShape
<1> QED
  BY <1>3, <1>4, <1>5, <1>6 DEF Touched, SameShape

\* A pid is in one place of the table.
LEMMA PidOnce ==
  ASSUME TableInv, NEW i \in Slots, NEW j \in Slots, NEW r \in Roles, NEW q \in Roles,
         services[i].pid[r] # 0, services[i].pid[r] = services[j].pid[q]
  PROVE  i = j /\ r = q
  BY DEF TableInv, PidsTrue, OneSlot

\* One of the two has been waited for, and the slot stays.
LEMMA EndedStays ==
  ASSUME TableInv, NEW i \in Slots, NEW role \in Roles, NEW p \in Pids,
         services[i].pid[role] = p, procs' = [procs EXCEPT ![p] = NoProc],
         NEW w \in Svinfo,
         w.dir = services[i].dir, w.flaglog = services[i].flaglog,
         w.pid = [services[i].pid EXCEPT ![role] = 0],
         w.pipe = services[i].pipe \/ w.pipe < 0,
         services' = [services EXCEPT ![i] = w]
  PROVE  TableInv'
<1> USE DEF TableInv, Tables
<1>1. /\ services' \in Seq(Svinfo) /\ Slots' = Slots
      /\ services'[i] = w
      /\ \A j \in Slots \ {i} : services'[j] = services[j]
  BY SlotFacts DEF Slots
<1>2. /\ procs' \in [Pids -> Proc \cup {NoProc}]
      /\ procs'[p].st = "free"
      /\ \A q \in Pids \ {p} : procs'[q] = procs[q]
  BY NoProcFree
<1>3. /\ 0 \notin Pids
      /\ \A j \in Slots, r \in Roles : services[j].pid[r] \in Pids \cup {0}
  BY S6SvscanAssumption, SlotFacts
<1>4. w.pid[role] = 0 /\ \A r \in Roles \ {role} : w.pid[r] = services[i].pid[r]
  BY SlotFacts
<1>5. \A j \in Slots, r \in Roles :
        /\ j # i \/ r # role => services'[j].pid[r] = services[j].pid[r]
                                /\ services[j].pid[r] # p
        /\ services'[j].dir = services[j].dir
        /\ services'[j].flaglog = services[j].flaglog
  <2>1. \A j \in Slots, r \in Roles :
          j # i \/ r # role => services[j].pid[r] # p
    BY <1>3, PidOnce
  <2> QED
    BY <1>1, <1>4, <2>1
<1>6. OneSlot'
  BY <1>1, <1>5 DEF OneSlot, Roles
<1>7. PidsTrue'
  BY <1>1, <1>2, <1>3, <1>4, <1>5 DEF PidsTrue
<1>8. Remembered'
  <2> SUFFICES ASSUME NEW q \in Pids, procs'[q].st # "free"
               PROVE  \E j \in Slots : services'[j].pid[procs'[q].role] = q
    BY <1>1 DEF Remembered
  <2>1. q # p /\ procs'[q] = procs[q]
    BY <1>2
  <2>2. PICK j \in Slots : services[j].pid[procs[q].role] = q
    BY <2>1 DEF Remembered
  <2>3. procs[q].role \in Roles
    BY <1>2, <2>1, NoProcFree DEF Proc
  <2> QED
    BY <1>5, <2>1, <2>2, <2>3
<1>9. PipesTrue'
  <2> SUFFICES ASSUME NEW j \in Slots
               PROVE  /\ services'[j].flaglog <=> services'[j].dir \in Logged
                      /\ services'[j].flaglog =>
                           IF services'[j].pipe < 0
                           THEN \E r \in Roles : services'[j].pid[r] = 0
                           ELSE \A r \in Roles : services'[j].pid[r] # 0 =>
                                  procs'[services'[j].pid[r]].pipe = services'[j].pipe
    BY <1>1 DEF PipesTrue
  <2>1. CASE j = i
    BY <1>1, <1>2, <1>3, <1>4, <1>5, <2>1 DEF PipesTrue
  <2>2. CASE j # i
    BY <1>1, <1>2, <1>3, <1>5, <2>2 DEF PipesTrue
  <2> QED
    BY <2>1, <2>2
<1> QED
  BY <1>1, <1>2, <1>6, <1>7, <1>8, <1>9

\* Both have been waited for, and the slot goes.
LEMMA EndedGoes ==
  ASSUME TableInv, NEW i \in Slots, NEW role \in Roles, NEW p \in Pids,
         services[i].pid[role] = p, procs' = [procs EXCEPT ![p] = NoProc],
         \A r \in Roles \ {role} : services[i].pid[r] = 0,
         services' = Removed(services, i)
  PROVE  TableInv'
<1> USE DEF TableInv, Tables
<1> DEFINE n == Len(services)
           Old(j) == IF j = i THEN n ELSE j
<1>1. /\ services' \in Seq(Svinfo) /\ Slots = 1 .. n /\ Slots' = 1 .. n - 1
      /\ n \in Nat
      /\ \A j \in 1 .. n - 1 : services'[j] = services[Old(j)]
  BY RemovedFacts, SlotFacts DEF Slots
<1>2. /\ \A j \in 1 .. n - 1 : Old(j) \in Slots /\ Old(j) # i
      /\ \A j, k \in 1 .. n - 1 : Old(j) = Old(k) => j = k
      /\ \A k \in Slots : k # i => \E j \in 1 .. n - 1 : Old(j) = k
  <2>1. \A k \in Slots : k # i => \E j \in 1 .. n - 1 : Old(j) = k
    <3> SUFFICES ASSUME NEW k \in Slots, k # i
                 PROVE  \E j \in 1 .. n - 1 : Old(j) = k
      OBVIOUS
    <3>1. CASE k = n
      BY <1>1, <3>1, Old(i) = k, i \in 1 .. n - 1
    <3>2. CASE k # n
      BY <1>1, <3>2, Old(k) = k, k \in 1 .. n - 1
    <3> QED
      BY <3>1, <3>2
  <2> QED
    BY <1>1, <2>1
<1> HIDE DEF Old
<1>3. /\ procs' \in [Pids -> Proc \cup {NoProc}]
      /\ procs'[p].st = "free"
      /\ \A q \in Pids \ {p} : procs'[q] = procs[q]
  BY NoProcFree
<1>4. /\ 0 \notin Pids
      /\ \A j \in Slots, r \in Roles : services[j].pid[r] \in Pids \cup {0}
  BY S6SvscanAssumption, SlotFacts
<1>5. \A j \in Slots, r \in Roles : j # i => services[j].pid[r] # p
  BY <1>4, PidOnce
<1>6. OneSlot'
  <2> SUFFICES ASSUME NEW j \in 1 .. n - 1, NEW k \in 1 .. n - 1,
                      services'[j].dir = services'[k].dir
               PROVE  j = k
    BY <1>1 DEF OneSlot
  <2>1. /\ Old(j) \in Slots /\ Old(k) \in Slots
        /\ services[Old(j)].dir = services[Old(k)].dir
    BY <1>1, <1>2
  <2>2. Old(j) = Old(k)
    BY <2>1 DEF OneSlot
  <2> QED
    BY <1>2, <2>2
<1>7. PidsTrue'
  <2> SUFFICES ASSUME NEW j \in 1 .. n - 1, NEW r \in Roles,
                      services'[j].pid[r] # 0
               PROVE  LET q == services'[j].pid[r] IN
                      /\ procs'[q].st # "free"
                      /\ procs'[q].dir = services'[j].dir /\ procs'[q].role = r
    BY <1>1 DEF PidsTrue
  <2>1. PICK k \in Slots : k # i /\ services'[j] = services[k]
    BY <1>1, <1>2
  <2>2. services[k].pid[r] \in Pids \ {p}
    BY <1>4, <1>5, <2>1
  <2> QED
    BY <1>3, <2>1, <2>2 DEF PidsTrue
<1>8. Remembered'
  <2> SUFFICES ASSUME NEW q \in Pids, procs'[q].st # "free"
               PROVE  \E j \in Slots' : services'[j].pid[procs'[q].role] = q
    BY DEF Remembered
  <2>1. q # p /\ procs'[q] = procs[q]
    BY <1>3
  <2>2. PICK k \in Slots : services[k].pid[procs[q].role] = q
    BY <2>1 DEF Remembered
  <2>3. procs[q].role \in Roles
    BY <1>3, <2>1, NoProcFree DEF Proc
  <2>4. k # i
    BY <1>4, <2>1, <2>2, <2>3
  <2> QED
    BY <1>1, <1>2, <2>1, <2>2, <2>4
<1>9. PipesTrue'
  <2> SUFFICES ASSUME NEW j \in 1 .. n - 1
               PROVE  /\ services'[j].flaglog <=> services'[j].dir \in Logged
                      /\ services'[j].flaglog =>
                           IF services'[j].pipe < 0
                           THEN \E r \in Roles : services'[j].pid[r] = 0
                           ELSE \A r \in Roles : services'[j].pid[r] # 0 =>
                                  procs'[services'[j].pid[r]].pipe = services'[j].pipe
    BY <1>1 DEF PipesTrue
  <2>1. PICK k \in Slots : k # i /\ services'[j] = services[k]
    BY <1>1, <1>2
  <2> QED
    BY <1>3, <1>4, <1>5, <2>1 DEF PipesTrue
<1> QED
  BY <1>1, <1>3, <1>6, <1>7, <1>8, <1>9

LEMMA ReapStep ==
  ASSUME TableInv, Reap
  PROVE  TableInv'
<1> USE DEF TableInv, Tables
<1>1. PICK p \in Zombies :
        /\ procs' = [procs EXCEPT ![p] = NoProc]
        /\ LET slot == {i \in Slots : \E role \in Roles : services[i].pid[role] = p}
           IN  IF slot = {} THEN UNCHANGED <<services, wantscan, nearer>>
               ELSE \E i \in slot, role \in Roles :
                      services[i].pid[role] = p /\ Ended(i, role)
  BY DEF Reap
<1>2. p \in Pids /\ procs[p].st = "zombie"
  BY DEF Zombies
<1>3. PICK i \in Slots, role \in Roles : services[i].pid[role] = p /\ Ended(i, role)
  <2>1. procs[p].role \in Roles
    BY <1>2, NoProcFree DEF Proc
  <2>2. \E i \in Slots : services[i].pid[procs[p].role] = p
    BY <1>2 DEF Remembered
  <2> QED
    BY <1>1, <2>1, <2>2
<1> DEFINE v == [services[i] EXCEPT !.pid[role] = 0, !.future[role] = TRUE]
<1>4. services[i] \in Svinfo
  BY SlotFacts
<1>5. /\ v \in Svinfo /\ v.dir = services[i].dir /\ v.flaglog = services[i].flaglog
      /\ v.pid = [services[i].pid EXCEPT ![role] = 0]
      /\ v.pipe = services[i].pipe
  BY <1>4 DEF Svinfo
<1>6. CASE services' = [services EXCEPT ![i] = v]
  BY <1>1, <1>2, <1>3, <1>5, <1>6, EndedStays
<1>7. CASE services' = Removed(services, i) /\ Over(v)
  <2>1. \A r \in Roles : v.pid[r] = 0
    BY <1>7 DEF Over
  <2>2. \A r \in Roles \ {role} : services[i].pid[r] = 0
    BY <1>4, <1>5, <2>1, SlotFacts
  <2> QED
    BY <1>1, <1>2, <1>3, <1>7, <2>2, EndedGoes
<1>8. CASE services' = [services EXCEPT ![i] = Closed(v)]
  <2> DEFINE w == Closed(v)
  <2>1. /\ w \in Svinfo /\ w.dir = v.dir /\ w.flaglog = v.flaglog /\ w.pid = v.pid
        /\ w.pipe = v.pipe \/ w.pipe < 0
    <3> HIDE DEF v
    <3> QED
      BY <1>5 DEF Closed, Svinfo
  <2>2. services' = [services EXCEPT ![i] = w]
    BY <1>8
  <2> HIDE DEF w
  <2>3. /\ w.dir = services[i].dir /\ w.flaglog = services[i].flaglog
        /\ w.pid = [services[i].pid EXCEPT ![role] = 0]
        /\ w.pipe = services[i].pipe \/ w.pipe < 0
    <3> HIDE DEF v
    <3> QED
      BY <1>5, <2>1
  <2> QED
    BY <1>1, <1>2, <1>3, <2>1, <2>2, <2>3, EndedStays
<1> QED
  BY <1>3, <1>6, <1>7, <1>8 DEF Ended

\* A process or two are started, in roles that had none, for slot i, which may be a
\* new one: w is what the slot is then, and the rest of the table is as it was.
Started(i, w, started, pid) ==
  /\ \A r \in started : pid[r] \in Pids /\ procs[pid[r]].st = "free"
  /\ \A r \in started, q \in started : pid[r] = pid[q] => r = q
  /\ \A j \in Slots : services[j].dir = w.dir => j = i
  /\ w.flaglog <=> w.dir \in Logged
  /\ w.flaglog => ~(w.pipe < 0)
  /\ \A r \in started : w.pid[r] = pid[r]
  /\ \A r \in Roles \ started :
       w.pid[r] # 0 => i \in Slots /\ services[i].pid[r] = w.pid[r]
  /\ i \in Slots => /\ services[i].dir = w.dir /\ services[i].pipe = w.pipe
                    /\ \A r \in Roles : services[i].pid[r] # 0 =>
                                          w.pid[r] = services[i].pid[r]
  /\ services' \in Seq(Svinfo)
  /\ i \in Slots' /\ services'[i] = w
  /\ \A j \in Slots : j \in Slots' /\ (j # i => services'[j] = services[j])
  /\ \A j \in Slots' : j # i => j \in Slots
  /\ procs' \in [Pids -> Proc \cup {NoProc}]
  /\ \A r \in started :
       /\ procs'[pid[r]].st # "free"
       /\ procs'[pid[r]].dir = w.dir /\ procs'[pid[r]].role = r
       /\ w.flaglog => procs'[pid[r]].pipe = w.pipe
  /\ \A q \in Pids : (\A r \in started : pid[r] # q) => procs'[q] = procs[q]

LEMMA StartStep ==
  ASSUME TableInv, NEW i, NEW w \in Svinfo, NEW started \in SUBSET Roles, NEW pid,
         Started(i, w, started, pid)
  PROVE  TableInv'
<1> USE DEF Started
<1>1. 0 \notin Pids
  BY S6SvscanAssumption
<1>2. \A j \in Slots, r \in Roles : services[j].pid[r] \in Pids \cup {0}
  BY SlotFacts DEF TableInv, Tables
<1>3. PidsTrue /\ OneSlot /\ Remembered /\ PipesTrue
  BY DEF TableInv
<1>4. \A j \in Slots, r \in Roles :
        services[j].pid[r] # 0 =>
          /\ services[j].pid[r] \in Pids
          /\ procs[services[j].pid[r]].st # "free"
          /\ procs[services[j].pid[r]].dir = services[j].dir
          /\ procs[services[j].pid[r]].role = r
          /\ procs'[services[j].pid[r]] = procs[services[j].pid[r]]
  BY <1>2, <1>3 DEF PidsTrue
<1>5. \A j \in Slots, r \in Roles :
        services[j].pid[r] # 0 => services'[j].pid[r] = services[j].pid[r]
  OBVIOUS
<1>6. OneSlot'
  <2> SUFFICES ASSUME NEW j \in Slots', NEW k \in Slots',
                      services'[j].dir = services'[k].dir
               PROVE  j = k
    BY DEF OneSlot
  <2>1. CASE j = i
    BY <2>1
  <2>2. CASE k = i
    BY <2>2
  <2>3. CASE j # i /\ k # i
    BY <1>3, <2>3 DEF OneSlot
  <2> QED
    BY <2>1, <2>2, <2>3
<1>7. PidsTrue'
  <2> SUFFICES ASSUME NEW j \in Slots', NEW r \in Roles,
                      services'[j].pid[r] # 0
               PROVE  LET q == services'[j].pid[r] IN
                      /\ procs'[q].st # "free"
                      /\ procs'[q].dir = services'[j].dir /\ procs'[q].role = r
    BY DEF PidsTrue
  <2>1. CASE j = i /\ r \in started
    BY <2>1
  <2>2. CASE j = i /\ r \notin started
    <3>1. /\ j \in Slots /\ services'[j].pid[r] = services[j].pid[r]
          /\ services'[j].dir = services[j].dir /\ services[j].pid[r] # 0
      BY <2>2
    <3> QED
      BY <1>4, <3>1
  <2>3. CASE j # i
    <3>1. j \in Slots /\ services'[j] = services[j] /\ services[j].pid[r] # 0
      BY <2>3
    <3> QED
      BY <1>4, <3>1
  <2> QED
    BY <2>1, <2>2, <2>3
<1>8. Remembered'
  <2> SUFFICES ASSUME NEW q \in Pids, procs'[q].st # "free"
               PROVE  \E j \in Slots' : services'[j].pid[procs'[q].role] = q
    BY DEF Remembered
  <2>1. CASE \E r \in started : pid[r] = q
    BY <2>1
  <2>2. CASE \A r \in started : pid[r] # q
    <3>1. procs'[q] = procs[q]
      BY <2>2
    <3>2. PICK j \in Slots : services[j].pid[procs[q].role] = q
      BY <1>3, <3>1 DEF Remembered
    <3>3. procs[q].role \in Roles
      BY <3>1, NoProcFree DEF Proc, TableInv, Tables
    <3>4. services'[j].pid[procs[q].role] = q /\ j \in Slots'
      BY <1>1, <1>5, <3>2, <3>3
    <3> QED
      BY <3>1, <3>4
  <2> QED
    BY <2>1, <2>2
<1>9. PipesTrue'
  <2> SUFFICES ASSUME NEW j \in Slots'
               PROVE  /\ services'[j].flaglog <=> services'[j].dir \in Logged
                      /\ services'[j].flaglog =>
                           IF services'[j].pipe < 0
                           THEN \E r \in Roles : services'[j].pid[r] = 0
                           ELSE \A r \in Roles : services'[j].pid[r] # 0 =>
                                  procs'[services'[j].pid[r]].pipe = services'[j].pipe
    BY DEF PipesTrue
  <2>1. CASE j = i
    <3>1. ASSUME w.flaglog, NEW r \in Roles, w.pid[r] # 0
          PROVE  procs'[w.pid[r]].pipe = w.pipe
      <4>1. CASE r \in started
        BY <3>1, <4>1
      <4>2. CASE r \notin started
        <5>1. i \in Slots /\ services[i].pid[r] = w.pid[r]
          BY <3>1, <4>2
        <5>2. services[i].flaglog /\ services[i].pipe = w.pipe
          BY <1>3, <3>1, <5>1 DEF PipesTrue
        <5>3. procs[w.pid[r]].pipe = w.pipe
          BY <1>3, <3>1, <5>1, <5>2 DEF PipesTrue
        <5> QED
          BY <1>4, <3>1, <5>1, <5>3
      <4> QED
        BY <4>1, <4>2
    <3> QED
      BY <2>1, <3>1
  <2>2. CASE j # i
    <3>1. j \in Slots /\ services'[j] = services[j]
      BY <2>2
    <3> QED
      BY <1>3, <1>4, <3>1 DEF PipesTrue
  <2> QED
    BY <2>1, <2>2
<1> QED
  BY <1>6, <1>7, <1>8, <1>9 DEF TableInv, Tables

\* Two processes that are started have two pids.
LEMMA NewPidsFacts ==
  ASSUME NEW started \in SUBSET Roles, NEW pid \in NewPids(started)
  PROVE  /\ \A r \in started : pid[r] \in Pids /\ procs[pid[r]].st = "free"
         /\ \A r \in started, q \in started : pid[r] = pid[q] => r = q
<1>1. /\ pid \in [started -> Free]
      /\ \A r, q \in started : r > q => pid[r] < pid[q]
  BY DEF NewPids
<1>2. \A r \in started : pid[r] \in Pids /\ procs[pid[r]].st = "free"
  BY <1>1 DEF Free
<1>3. \A r \in started, q \in started : pid[r] = pid[q] => r = q
  <2> SUFFICES ASSUME NEW r \in started, NEW q \in started, pid[r] = pid[q], r # q
               PROVE  FALSE
    OBVIOUS
  <2>1. pid[r] \in Nat /\ pid[q] \in Nat
    BY <1>2, S6SvscanAssumption
  <2>2. r > q \/ q > r
    BY DEF Roles, MAIN, LOG
  <2> QED
    BY <1>1, <2>1, <2>2
<1> QED
  BY <1>2, <1>3

\* What trystart() leaves of a slot.
LEMMA TryStartFacts ==
  ASSUME NEW v \in Svinfo, NEW started \in SUBSET Roles, NEW pid,
         \A r \in started : pid[r] \in Pids
  PROVE  LET w == TryStart(v, started, pid) IN
         /\ w \in Svinfo
         /\ w.dir = v.dir /\ w.pipe = v.pipe /\ w.flaglog = v.flaglog
         /\ \A r \in started : w.pid[r] = pid[r]
         /\ \A r \in Roles \ started : w.pid[r] = v.pid[r]
<1> DEFINE pids == [r \in Roles |-> IF r \in started THEN pid[r] ELSE v.pid[r]]
           future == [r \in Roles |-> v.future[r] \/ r \in Tries(v) \ started]
           w == [v EXCEPT !.pid = pids, !.future = future]
<1>1. TryStart(v, started, pid) = w
  BY DEF TryStart
<1>2. v.pid \in [Roles -> Pids \cup {0}] /\ v.future \in [Roles -> BOOLEAN]
  BY DEF Svinfo
<1>3. pids \in [Roles -> Pids \cup {0}] /\ future \in [Roles -> BOOLEAN]
  BY <1>2
<1>4. /\ \A r \in started : pids[r] = pid[r]
      /\ \A r \in Roles \ started : pids[r] = v.pid[r]
  OBVIOUS
<1> HIDE DEF pids, future
<1>5. /\ w \in Svinfo /\ w.pid = pids
      /\ w.dir = v.dir /\ w.pipe = v.pipe /\ w.flaglog = v.flaglog
  BY <1>3 DEF Svinfo
<1> QED
  BY <1>1, <1>4, <1>5

\* The process that is started.
LEMMA SuperviseFacts ==
  ASSUME NEW v \in Svinfo, NEW r \in Roles
  PROVE  LET x == Supervise(v, r) IN
         /\ x \in Proc /\ x.st = "live" /\ x.dir = v.dir /\ x.role = r
         /\ x.told = {}
         /\ v.flaglog => x.pipe = v.pipe
  BY DEF Supervise, Svinfo, Proc

LEMMA CheckSlotStep ==
  ASSUME TableInv, NEW v \in Svinfo, NEW i \in 1 .. Len(services) + 1,
         \A j \in Slots : services[j].dir = v.dir => j = i,
         v.flaglog <=> v.dir \in Logged,
         v.flaglog => ~(v.pipe < 0),
         i \in Slots => /\ services[i].dir = v.dir /\ services[i].pipe = v.pipe
                        /\ services[i].pid = v.pid,
         i \notin Slots => \A r \in Roles : v.pid[r] = 0,
         CheckSlot(v, i)
  PROVE  TableInv'
<1>0. PICK started \in SUBSET Tries(v) :
        \E pid \in NewPids(started) :
          /\ services' = IF i \in Slots THEN [services EXCEPT ![i] = TryStart(v, started, pid)]
                         ELSE Append(services, TryStart(v, started, pid))
          /\ procs' = [p \in Pids |-> IF \E r \in started : pid[r] = p
                                      THEN Supervise(v, CHOOSE r \in started : pid[r] = p)
                                      ELSE procs[p]]
  BY DEF CheckSlot
<1>1. PICK pid \in NewPids(started) :
        /\ services' = IF i \in Slots THEN [services EXCEPT ![i] = TryStart(v, started, pid)]
                       ELSE Append(services, TryStart(v, started, pid))
        /\ procs' = [p \in Pids |-> IF \E r \in started : pid[r] = p
                                    THEN Supervise(v, CHOOSE r \in started : pid[r] = p)
                                    ELSE procs[p]]
  BY <1>0
<1>2. started \in SUBSET Roles /\ \A r \in started : v.pid[r] = 0
  BY DEF Tries, Missing
<1>3. /\ \A r \in started : pid[r] \in Pids /\ procs[pid[r]].st = "free"
      /\ \A r \in started, q \in started : pid[r] = pid[q] => r = q
  BY <1>2, NewPidsFacts
<1> DEFINE w == TryStart(v, started, pid)
<1>4. /\ w \in Svinfo
      /\ w.dir = v.dir /\ w.pipe = v.pipe /\ w.flaglog = v.flaglog
      /\ \A r \in started : w.pid[r] = pid[r]
      /\ \A r \in Roles \ started : w.pid[r] = v.pid[r]
  BY <1>2, <1>3, TryStartFacts
<1>5. services' = IF i \in Slots THEN [services EXCEPT ![i] = w] ELSE Append(services, w)
  BY <1>1
<1> HIDE DEF w
<1>6. /\ services' \in Seq(Svinfo)
      /\ i \in Slots' /\ services'[i] = w
      /\ \A j \in Slots : j \in Slots' /\ (j # i => services'[j] = services[j])
      /\ \A j \in Slots' : j # i => j \in Slots
  <2>0. services \in Seq(Svinfo) /\ Slots = 1 .. Len(services) /\ Len(services) \in Nat
    BY SlotFacts DEF TableInv, Tables
  <2>1. CASE i \in Slots
    <3>1. services' = [services EXCEPT ![i] = w]
      BY <1>5, <2>1
    <3>2. services' \in Seq(Svinfo) /\ Len(services') = Len(services)
      BY <1>4, <2>0, <2>1, <3>1
    <3>3. Slots' = 1 .. Len(services')
      BY <3>2 DEF Slots
    <3> QED
      BY <2>0, <2>1, <3>1, <3>2, <3>3
  <2>2. CASE i \notin Slots
    <3>1. services' = Append(services, w) /\ i = Len(services) + 1
      BY <1>5, <2>0, <2>2
    <3>2. /\ services' \in Seq(Svinfo) /\ Len(services') = Len(services) + 1
          /\ services'[i] = w
          /\ \A j \in 1 .. Len(services) : services'[j] = services[j]
      BY <1>4, <2>0, <3>1
    <3>3. Slots' = 1 .. Len(services')
      BY <3>2 DEF Slots
    <3> QED
      BY <2>0, <3>1, <3>2, <3>3
  <2> QED
    BY <2>1, <2>2
<1>7. \A r \in started : procs'[pid[r]] = Supervise(v, r)
  <2> SUFFICES ASSUME NEW r \in started PROVE procs'[pid[r]] = Supervise(v, r)
    OBVIOUS
  <2>1. (CHOOSE q \in started : pid[q] = pid[r]) = r
    BY <1>3
  <2> QED
    BY <1>1, <1>3, <2>1
<1>8. \A q \in Pids : (\A r \in started : pid[r] # q) => procs'[q] = procs[q]
  BY <1>1
<1>9. procs' \in [Pids -> Proc \cup {NoProc}]
  <2>1. DOMAIN procs' = Pids /\ procs' = [p \in Pids |-> procs'[p]]
    BY <1>1
  <2>2. ASSUME NEW q \in Pids PROVE procs'[q] \in Proc \cup {NoProc}
    <3>1. CASE \E r \in started : pid[r] = q
      BY <1>2, <1>7, <3>1, SuperviseFacts
    <3>2. CASE \A r \in started : pid[r] # q
      BY <1>8, <3>2 DEF TableInv, Tables
    <3> QED
      BY <3>1, <3>2
  <2> QED
    BY <2>1, <2>2
<1>10. \A r \in started :
         /\ procs'[pid[r]].st # "free"
         /\ procs'[pid[r]].dir = w.dir /\ procs'[pid[r]].role = r
         /\ w.flaglog => procs'[pid[r]].pipe = w.pipe
  BY <1>2, <1>4, <1>7, SuperviseFacts
<1>11. \A j \in Slots : services[j].dir = w.dir => j = i
  BY <1>4
<1>12. /\ w.flaglog <=> w.dir \in Logged
       /\ w.flaglog => ~(w.pipe < 0)
  BY <1>4
<1>13. \A r \in Roles \ started :
         w.pid[r] # 0 => i \in Slots /\ services[i].pid[r] = w.pid[r]
  BY <1>4
<1>14. i \in Slots => /\ services[i].dir = w.dir /\ services[i].pipe = w.pipe
                      /\ \A r \in Roles : services[i].pid[r] # 0 =>
                                            w.pid[r] = services[i].pid[r]
  BY <1>2, <1>4
<1>15. Started(i, w, started, pid)
  BY <1>3, <1>4, <1>6, <1>8, <1>9, <1>10, <1>11, <1>12, <1>13, <1>14 DEF Started
<1> QED
  BY <1>2, <1>4, <1>15, StartStep

LEMMA CheckStep ==
  ASSUME TableInv, entries \subseteq Dirs, Check
  PROVE  TableInv'
<1>0. services \in Seq(Svinfo) /\ Slots = 1 .. Len(services) /\ Len(services) \in Nat
  BY SlotFacts DEF TableInv, Tables
<1>1. PICK d \in entries :
        \/ /\ d \in present
           /\ LET slot == {i \in Slots : services[i].dir = d}
              IN  IF slot = {} THEN CheckNew(d) ELSE \E i \in slot : CheckKnown(i)
        \/ CheckFails(d)
  BY DEF Check
<1>2. CASE UNCHANGED <<services, procs>>
  BY <1>2 DEF TableInv, Tables, OneSlot, PidsTrue, Remembered, PipesTrue, Slots
<1>3. ASSUME NEW i \in Slots, CheckKnown(i) PROVE TableInv'
  <2>1. CASE Dying(services[i])
    <3>1. services' = [services EXCEPT ![i].pipe = -2] /\ procs' = procs
      BY <1>3, <2>1 DEF CheckKnown
    <3>2. Touched
      <4> DEFINE v == services[i]
                 w == [v EXCEPT !.pipe = -2]
      <4>1. v \in Svinfo /\ v.pipe < 0 /\ services' = [services EXCEPT ![i] = w]
        BY <1>0, <2>1, <3>1, SlotFacts DEF Dying
      <4> HIDE DEF v
      <4>2. /\ w \in Svinfo /\ w.dir = v.dir /\ w.pid = v.pid /\ w.flaglog = v.flaglog
            /\ w.pipe = -2 /\ -2 < 0
        BY <4>1 DEF Svinfo
      <4> HIDE DEF w
      <4>3. /\ services' \in Seq(Svinfo) /\ Len(services') = Len(services)
            /\ \A j \in Slots : services'[j] = IF j = i THEN w ELSE services[j]
        BY <1>0, <4>1, <4>2
      <4> QED
        BY <4>1, <4>2, <4>3 DEF Touched, v
    <3>3. SameShape
      BY <3>1 DEF SameShape, TableInv, Tables
    <3> QED
      BY <3>2, <3>3, TouchedStep
  <2>2. CASE ~Dying(services[i])
    <3> DEFINE v == [services[i] EXCEPT !.flagactive = TRUE]
    <3>1. /\ v \in Svinfo /\ v.dir = services[i].dir /\ v.pipe = services[i].pipe
          /\ v.flaglog = services[i].flaglog /\ v.pid = services[i].pid
      BY <1>0, SlotFacts DEF Svinfo
    <3>2. CheckSlot(v, i)
      BY <1>3, <2>2 DEF CheckKnown
    <3> HIDE DEF v
    <3>3. /\ v.flaglog <=> v.dir \in Logged
          /\ v.flaglog => ~(v.pipe < 0)
      BY <2>2, <3>1 DEF TableInv, PipesTrue, Dying
    <3>4. \A j \in Slots : services[j].dir = v.dir => j = i
      BY <3>1 DEF TableInv, OneSlot
    <3>5. i \in 1 .. Len(services) + 1
      BY <1>0
    <3> QED
      BY <3>1, <3>2, <3>3, <3>4, <3>5, CheckSlotStep
  <2> QED
    BY <2>1, <2>2
<1>4. ASSUME CheckNew(d), \A i \in Slots : services[i].dir # d
      PROVE  TableInv'
  <2>1. CASE Len(services) >= MaxServices
    BY <1>2, <1>4, <2>1 DEF CheckNew
  <2>2. CASE ~(Len(services) >= MaxServices)
    <3>1. PICK pipe \in IF d \in Logged THEN {q \in Pipes : Unused(q)} ELSE {-1} :
            CheckSlot(NewSlot(d, pipe), Len(services) + 1)
      BY <1>4, <2>2 DEF CheckNew
    <3> DEFINE v == NewSlot(d, pipe)
    <3>2. d \in Logged => ~(pipe < 0)
      <4> SUFFICES ASSUME d \in Logged PROVE ~(pipe < 0)
        OBVIOUS
      <4>1. pipe \in Nat
        BY <3>1, S6SvscanAssumption
      <4> QED
        BY <4>1
    <3>3. pipe \in Pipes \cup {-1, -2}
      BY <3>1
    <3>4. /\ v \in Svinfo /\ v.dir = d /\ v.pipe = pipe
          /\ v.flaglog = (d \in Logged)
          /\ \A r \in Roles : v.pid[r] = 0
      <4>1. v = [dir |-> d, pid |-> [r \in Roles |-> 0], future |-> [r \in Roles |-> FALSE],
                 pipe |-> pipe, flagactive |-> TRUE, flaglog |-> d \in Logged]
        BY DEF NewSlot
      <4>2. /\ [r \in Roles |-> 0] \in [Roles -> Pids \cup {0}]
            /\ [r \in Roles |-> FALSE] \in [Roles -> BOOLEAN]
            /\ d \in Dirs
        OBVIOUS
      <4> HIDE DEF v
      <4>3. v \in Svinfo
        BY <3>3, <4>1, <4>2 DEF Svinfo
      <4> QED
        BY <4>1, <4>3
    <3>5. CheckSlot(v, Len(services) + 1)
      BY <3>1
    <3> HIDE DEF v
    <3>6. \A j \in Slots : services[j].dir = v.dir => j = Len(services) + 1
      BY <1>4, <3>4
    <3>7. Len(services) + 1 \in 1 .. Len(services) + 1 /\ Len(services) + 1 \notin Slots
      BY <1>0
    <3>8. /\ v.flaglog <=> v.dir \in Logged
          /\ v.flaglog => ~(v.pipe < 0)
      BY <3>2, <3>4
    <3> QED
      BY <3>4, <3>5, <3>6, <3>7, <3>8, CheckSlotStep
  <2> QED
    BY <2>1, <2>2
<1> QED
  BY <1>1, <1>2, <1>3, <1>4 DEF CheckFails

-----------------------------------------------------------------------------
(* The other steps.                                                        *)

LEMMA TouchAll ==
  ASSUME TableInv, services' = [i \in Slots |-> services'[i]],
         \A i \in Slots :
            /\ services'[i] \in Svinfo
            /\ services'[i].dir = services[i].dir
            /\ services'[i].pid = services[i].pid
            /\ services'[i].flaglog = services[i].flaglog
            /\ services'[i].pipe = services[i].pipe
  PROVE  Touched
<1>1. Slots = 1 .. Len(services) /\ Len(services) \in Nat
  BY SlotFacts DEF TableInv, Tables
<1>2. DOMAIN services' = 1 .. Len(services)
  BY <1>1
<1>3. services' \in [1 .. Len(services) -> Svinfo]
  BY <1>1
<1>4. services' \in Seq(Svinfo) /\ Len(services') = Len(services)
  BY <1>1, <1>2, <1>3
<1> QED
  BY <1>4 DEF Touched

LEMMA SameTable ==
  ASSUME TableInv, UNCHANGED <<services, procs>>
  PROVE  TableInv'
BY DEF TableInv, Tables, OneSlot, PidsTrue, Remembered, PipesTrue, Slots

LEMMA SameProcs ==
  ASSUME TableInv, UNCHANGED procs
  PROVE  SameShape
BY DEF TableInv, Tables, SameShape

LEMMA SameServices ==
  ASSUME TableInv, UNCHANGED services
  PROVE  Touched
BY DEF TableInv, Tables, Touched, Slots

LEMMA ScanStep ==
  ASSUME TableInv, Scan
  PROVE  TableInv'
<1>1. procs' = procs
  BY DEF Scan
<1>2. CASE services' = [i \in Slots |-> [services[i] EXCEPT !.flagactive = FALSE]]
  <2>1. \A i \in Slots : services[i] \in Svinfo
    BY SlotFacts DEF TableInv, Tables
  <2>2. \A i \in Slots :
            /\ services'[i] \in Svinfo
            /\ services'[i].dir = services[i].dir
            /\ services'[i].pid = services[i].pid
            /\ services'[i].flaglog = services[i].flaglog
            /\ services'[i].pipe = services[i].pipe
    BY <1>2, <2>1 DEF Svinfo
  <2>3. services' = [i \in Slots |-> services'[i]]
    BY <1>2
  <2> QED
    BY <1>1, <2>2, <2>3, TouchAll, SameProcs, TouchedStep
<1> QED
  BY <1>1, <1>2, SameTable DEF Scan

LEMMA ComeStep ==
  ASSUME TableInv, NEW due, services' = Come(due), procs' = procs
  PROVE  TableInv'
<1>1. \A i \in Slots : services[i] \in Svinfo
  BY SlotFacts DEF TableInv, Tables
<1>2. \A i \in Slots :
         services'[i] = [services[i] EXCEPT !.future =
                           [r \in Roles |-> services[i].future[r] /\ <<i, r>> \notin due]]
  BY DEF Come
<1>3. ASSUME NEW i \in Slots
      PROVE  /\ services'[i] \in Svinfo
             /\ services'[i].dir = services[i].dir
             /\ services'[i].pid = services[i].pid
             /\ services'[i].flaglog = services[i].flaglog
             /\ services'[i].pipe = services[i].pipe
  <2> DEFINE future == [r \in Roles |-> services[i].future[r] /\ <<i, r>> \notin due]
  <2>1. future \in [Roles -> BOOLEAN]
    OBVIOUS
  <2>2. services'[i] = [services[i] EXCEPT !.future = future]
    BY <1>2
  <2> HIDE DEF future
  <2> QED
    BY <1>1, <2>1, <2>2 DEF Svinfo
<1>4. services' = [i \in Slots |-> services'[i]]
  BY DEF Come
<1> QED
  BY <1>3, <1>4, TouchAll, SameProcs, TouchedStep

\* Only what a child has been told changes.
LEMMA KilledFacts ==
  ASSUME TableInv, NEW p \in Pids
  PROVE  /\ Killed[p] \in Proc \cup {NoProc}
         /\ Killed[p].st = procs[p].st /\ Killed[p].dir = procs[p].dir
         /\ Killed[p].role = procs[p].role /\ Killed[p].pipe = procs[p].pipe
         /\ Killed[p].told # procs[p].told =>
              \E i \in Slots : Meant(i) /\ \E role \in Roles : services[i].pid[role] = p
<1>0. procs[p] \in Proc \cup {NoProc}
  BY DEF TableInv, Tables
<1>1. CASE \E i \in Slots : Meant(i) /\ \E role \in Roles : services[i].pid[role] = p
  <2>1. PICK sig \in {"TERM", "HUP"} :
          Killed[p] = [procs[p] EXCEPT !.told = @ \cup {sig}]
    BY <1>1 DEF Killed, SignalFor
  <2>2. procs[p].st # "free"
    BY <1>1, S6SvscanAssumption DEF TableInv, PidsTrue
  <2>3. procs[p] \in Proc
    BY <1>0, <2>2, NoProcFree
  <2> QED
    BY <1>1, <2>1, <2>3 DEF Proc
<1>2. CASE ~\E i \in Slots : Meant(i) /\ \E role \in Roles : services[i].pid[role] = p
  <2>1. Killed[p] = procs[p]
    BY <1>2 DEF Killed
  <2> QED
    BY <1>0, <2>1
<1> QED
  BY <1>1, <1>2

LEMMA KillStep ==
  ASSUME TableInv, KillThem
  PROVE  TableInv'
<1>1. services' = services /\ procs' = IF wantkill THEN Killed ELSE procs
  BY DEF KillThem
<1>2. CASE procs' = procs
  BY <1>1, <1>2, SameTable
<1>3. CASE procs' = Killed
  <2>1. procs' = [p \in Pids |-> Killed[p]]
    BY <1>3 DEF Killed
  <2>2. SameShape
    BY <1>3, <2>1, KilledFacts DEF SameShape
  <2> QED
    BY <1>1, <2>2, SameServices, TouchedStep
<1> QED
  BY <1>1, <1>2, <1>3

LEMMA DieStep ==
  ASSUME TableInv, NEW p \in Pids, Die(p)
  PROVE  TableInv'
<1>1. /\ procs[p].st = "live" /\ services' = services
      /\ procs' = [procs EXCEPT ![p].st = "zombie"]
  BY DEF Die
<1>2. procs[p] \in Proc
  BY <1>1, NoProcFree DEF TableInv, Tables
<1>3. /\ [procs[p] EXCEPT !.st = "zombie"] \in Proc
      /\ [procs[p] EXCEPT !.st = "zombie"].dir = procs[p].dir
      /\ [procs[p] EXCEPT !.st = "zombie"].role = procs[p].role
      /\ [procs[p] EXCEPT !.st = "zombie"].pipe = procs[p].pipe
      /\ [procs[p] EXCEPT !.st = "zombie"].st = "zombie"
  BY <1>2 DEF Proc
<1>4. procs' = [procs EXCEPT ![p] = [procs[p] EXCEPT !.st = "zombie"]]
  BY <1>1
<1>5. SameShape
  BY <1>1, <1>3, <1>4 DEF SameShape, TableInv, Tables
<1> QED
  BY <1>1, <1>5, SameServices, TouchedStep

SvscanInv == /\ TableInv /\ SparesOnly
             /\ present \subseteq Dirs /\ entries \subseteq Dirs

LEMMA TableStep ==
  ASSUME TableInv, entries \subseteq Dirs, [Next]_vars
  PROVE  TableInv'
<1>1. CASE Reap
  BY <1>1, ReapStep
<1>2. CASE Scan
  BY <1>2, ScanStep
<1>3. CASE Check
  BY <1>3, CheckStep
<1>4. CASE KillThem
  BY <1>4, KillStep
<1>5. CASE Timeout
  BY <1>5, ComeStep DEF Timeout
<1>6. CASE Time
  BY <1>6, ComeStep DEF Time
<1>7. ASSUME NEW p \in Pids, Die(p) PROVE TableInv'
  BY <1>7, DieStep
<1>8. CASE \/ ReapDone \/ NoScan \/ ScanDone \/ Iopause \/ Signals \/ Control
           \/ Finish \/ Send \/ Change \/ UNCHANGED vars
  BY <1>8, SameTable
     DEF ReapDone, NoScan, ScanDone, Iopause, Signals, Control, Finish, Send,
         Change, vars
<1> QED
  BY <1>1, <1>2, <1>3, <1>4, <1>5, <1>6, <1>7, <1>8 DEF Next, Loop

LEMMA ByteFacts ==
  ASSUME NEW c, HandleByte(c)
  PROVE  \/ cont' = FALSE
         \/ cont' = cont /\ killmode' \in {killmode, {SERVICES}, {SERVICES, LOGGERS}}
<1> USE DEF HandleByte, modes, Leave
<1>1. CASE c \in {"p", "r", "s"}
  BY <1>1
<1>2. CASE c \in {"a", "z"}
  <2>1. CASE c = "a"
    BY <2>1
  <2>2. CASE c = "z"
    BY <2>2
  <2> QED
    BY <1>2, <2>1, <2>2
<1>3. CASE c \in {"n", "N"}
  <2>1. CASE c = "n"
    BY <2>1
  <2>2. CASE c = "N"
    BY <2>2
  <2> QED
    BY <1>3, <2>1, <2>2
<1>4. CASE c \in {"b", "h", "t", "q"}
  <2>1. CASE c = "b"
    BY <2>1
  <2>2. CASE c = "h"
    BY <2>2
  <2>3. CASE c = "t"
    BY <2>3
  <2>4. CASE c = "q"
    BY <2>4
  <2> QED
    BY <1>4, <2>1, <2>2, <2>3, <2>4
<1>5. CASE c \in {"i", "6", "0", "7", "8"}
  <2>1. CASE c \in {"i", "6"}
    BY <2>1
  <2>2. CASE c = "0"
    BY <2>2
  <2>3. CASE c = "7"
    BY <2>3
  <2>4. CASE c = "8"
    BY <2>4
  <2> QED
    BY <1>5, <2>1, <2>2, <2>3, <2>4
<1>6. CASE c \notin {"p", "r", "s", "a", "z", "n", "N", "b", "h", "t", "q",
                     "i", "6", "0", "7", "8"}
  BY <1>6
<1> QED
  BY <1>1, <1>2, <1>3, <1>4, <1>5, <1>6

\* Only bytes and signals set cont and killmode, and those that leave cont as it is
\* do not ask for the active ones.
LEMMA SparesStep ==
  ASSUME SparesOnly, [Next]_vars
  PROVE  SparesOnly'
<1> USE DEF SparesOnly
<1>1. CASE Signals
  <2>1. CASE UNCHANGED modes
    BY <2>1 DEF modes
  <2>2. CASE HandleSignal(Head(selfpipe))
    BY <2>2 DEF HandleSignal, Leave, modes, wants
  <2> QED
    BY <1>1, <2>1, <2>2 DEF Signals
<1>2. CASE Control
  <2>1. CASE UNCHANGED modes
    BY <2>1 DEF modes
  <2>2. CASE HandleByte(Head(control))
    <3>1. \/ cont' = FALSE
          \/ cont' = cont /\ killmode' \in {killmode, {SERVICES}, {SERVICES, LOGGERS}}
      BY <2>2, ByteFacts
    <3>2. ACTIVE \notin {SERVICES} /\ ACTIVE \notin {SERVICES, LOGGERS}
      BY DEF ACTIVE, SERVICES, LOGGERS
    <3> QED
      BY <3>1, <3>2
  <2> QED
    BY <1>2, <2>1, <2>2 DEF Control
<1>3. CASE UNCHANGED modes
  BY <1>3 DEF modes
<1>4. \/ Signals \/ Control \/ UNCHANGED modes
  BY DEF Next, Loop, vars, Reap, ReapDone, Scan, NoScan, Check, ScanDone, KillThem,
         Timeout, Iopause, Finish, Time, Send, Change, Die
<1> QED
  BY <1>1, <1>2, <1>3, <1>4

LEMMA EntriesStep ==
  ASSUME present \subseteq Dirs, entries \subseteq Dirs, [Next]_vars
  PROVE  present' \subseteq Dirs /\ entries' \subseteq Dirs
<1>1. CASE Change
  BY <1>1 DEF Change
<1>2. CASE Scan \/ Check \/ ScanDone
  BY <1>2 DEF Scan, Check, ScanDone
<1>3. CASE UNCHANGED <<present, entries>>
  BY <1>3
<1> QED
  BY <1>1, <1>2, <1>3
     DEF Next, Loop, vars, Reap, ReapDone, NoScan, KillThem, Timeout, Iopause,
         Signals, Control, Finish, Time, Send, Die

\* The table of s6-svscan is true of its children at every step of a scan, and only
\* what ends the loop lets killthem() signal the active (scan, check, reap, killthem).
THEOREM SvscanInvariant == Spec => []SvscanInv
<1>1. Init => SvscanInv
  <2> SUFFICES ASSUME Init PROVE SvscanInv
    OBVIOUS
  <2>1. /\ services = <<>> /\ procs = [p \in Pids |-> NoProc]
        /\ Slots = {}
    BY DEF Init, Slots
  <2>2. TableInv
    BY <2>1, NoProcFree
       DEF TableInv, Tables, OneSlot, PidsTrue, Remembered, PipesTrue
  <2> QED
    BY <2>2 DEF Init, SvscanInv, SparesOnly
<1>2. SvscanInv /\ [Next]_vars => SvscanInv'
  BY TableStep, SparesStep, EntriesStep DEF SvscanInv
<1> QED
  BY <1>1, <1>2, PTL DEF Spec

-----------------------------------------------------------------------------
(* The theorems.                                                           *)

\* A live process of directory d is the one in d's slot.
LEMMA LiveInSlot ==
  ASSUME TableInv, NEW d \in Dirs, NEW role \in Roles, NEW p \in Live(d, role)
  PROVE  /\ p \in Pids /\ p # 0 /\ procs[p].st = "live"
         /\ \E i \in Slots : services[i].pid[role] = p /\ services[i].dir = d
<1>1. p \in Pids /\ procs[p].st = "live" /\ procs[p].dir = d /\ procs[p].role = role
  BY DEF Live
<1>2. p # 0
  BY <1>1, S6SvscanAssumption
<1>3. PICK i \in Slots : services[i].pid[role] = p
  BY <1>1 DEF TableInv, Remembered
<1> QED
  BY <1>1, <1>2, <1>3 DEF TableInv, PidsTrue

\* A directory never has two supervisors for the service, nor two for the log, and
\* every supervisor that runs is in its directory's slot.
THEOREM Supervised == Spec => []OnePerDirectory
<1>1. TableInv => OnePerDirectory
  <2> SUFFICES ASSUME TableInv, NEW d \in Dirs, NEW role \in Roles
               PROVE  /\ Cardinality(Live(d, role)) <= 1
                      /\ \A p \in Live(d, role) :
                           \E i \in Slots : services[i].pid[role] = p /\ services[i].dir = d
    BY DEF OnePerDirectory
  <2>1. \A p, q \in Live(d, role) : p = q
    BY LiveInSlot DEF TableInv, OneSlot
  <2>2. CASE Live(d, role) = {}
    BY <2>2, FS_EmptySet
  <2>3. ASSUME NEW p \in Live(d, role) PROVE Cardinality(Live(d, role)) <= 1
    <3>1. Live(d, role) = {p}
      BY <2>1
    <3> QED
      BY <3>1, FS_Singleton
  <2> QED
    BY <2>2, <2>3, LiveInSlot
<1> QED
  BY <1>1, SvscanInvariant, PTL DEF SvscanInv

\* A supervised service and its logger hold the ends of one pipe, whatever ended,
\* went away or came back before.
THEOREM Piped == Spec => []SamePipe
<1>1. TableInv => SamePipe
  <2> SUFFICES ASSUME TableInv, NEW d \in Logged,
                      NEW m \in Live(d, MAIN), NEW l \in Live(d, LOG)
               PROVE  procs[m].pipe = procs[l].pipe /\ procs[m].pipe >= 0
    BY DEF SamePipe
  <2>0. d \in Dirs /\ MAIN \in Roles /\ LOG \in Roles
    BY S6SvscanAssumption DEF Roles
  <2>1. PICK i \in Slots : services[i].pid[MAIN] = m /\ services[i].dir = d
    BY <2>0, LiveInSlot
  <2>2. PICK j \in Slots : services[j].pid[LOG] = l /\ services[j].dir = d
    BY <2>0, LiveInSlot
  <2>3. i = j /\ m # 0 /\ l # 0
    BY <2>0, <2>1, <2>2, LiveInSlot DEF TableInv, OneSlot
  <2>4. services[i].flaglog
    BY <2>1 DEF TableInv, PipesTrue
  <2>5. \A role \in Roles : services[i].pid[role] # 0
    BY <2>1, <2>2, <2>3 DEF Roles
  <2>6. /\ ~(services[i].pipe < 0)
        /\ procs[m].pipe = services[i].pipe /\ procs[l].pipe = services[i].pipe
    BY <2>0, <2>1, <2>2, <2>3, <2>4, <2>5 DEF TableInv, PipesTrue
  <2>7. services[i].pipe \in Pipes \cup {-1, -2}
    BY SlotFacts DEF TableInv, Tables
  <2>8. \A x \in Pipes \cup {-1, -2} : ~(x < 0) => x >= 0
    BY S6SvscanAssumption
  <2> QED
    BY <2>6, <2>7, <2>8
<1> QED
  BY <1>1, SvscanInvariant, PTL DEF SvscanInv

\* As long as s6-svscan is not told to leave, only a supervisor whose directory the
\* last scan did not find is signalled.
THEOREM OnlySpares == Spec => NukeSpares
<1> DEFINE Spare(p) == ~cont \/ \E i \in Slots : ~services[i].flagactive
                                 /\ \E role \in Roles : services[i].pid[role] = p
           A == \A p \in Pids : procs[p].st = "live" /\ procs'[p].told # procs[p].told
                                  => Spare(p)
<1>1. SvscanInv /\ [Next]_vars => [A]_vars
  <2> SUFFICES ASSUME TableInv, SparesOnly, Next, NEW p \in Pids,
                      procs[p].st = "live", procs'[p].told # procs[p].told
               PROVE  Spare(p)
    BY DEF SvscanInv
  <2>1. CASE KillThem
    <3>1. Killed[p].told # procs[p].told
      BY <2>1 DEF KillThem
    <3> QED
      BY <3>1, KilledFacts DEF Meant, SparesOnly
  <2>2. CASE Reap
    <3>1. PICK z \in Zombies : procs' = [procs EXCEPT ![z] = NoProc]
      BY <2>2 DEF Reap
    <3>2. procs'[p] = procs[p]
      BY <3>1 DEF Zombies
    <3> QED
      BY <3>2
  <2>3. CASE Check
    <3>1. CASE UNCHANGED procs
      BY <3>1
    <3>2. ASSUME NEW v, NEW i, CheckSlot(v, i) PROVE procs'[p] = procs[p]
      <4>1. PICK started \in SUBSET Tries(v) :
              \E pid \in NewPids(started) :
                procs' = [q \in Pids |-> IF \E r \in started : pid[r] = q
                                         THEN Supervise(v, CHOOSE r \in started : pid[r] = q)
                                         ELSE procs[q]]
        BY <3>2 DEF CheckSlot
      <4>2. PICK pid \in NewPids(started) :
              procs' = [q \in Pids |-> IF \E r \in started : pid[r] = q
                                       THEN Supervise(v, CHOOSE r \in started : pid[r] = q)
                                       ELSE procs[q]]
        BY <4>1
      <4>3. \A r \in started : pid[r] # p
        BY NewPidsFacts DEF Tries, Missing
      <4> QED
        BY <4>2, <4>3
    <3> QED
      BY <2>3, <3>1, <3>2 DEF Check, CheckKnown, CheckNew, CheckFails
  <2>4. ASSUME NEW q \in Pids, Die(q) PROVE procs'[p].told = procs[p].told
    BY <2>4 DEF Die, TableInv, Tables
  <2>5. CASE UNCHANGED procs
    BY <2>5
  <2> QED
    BY <2>1, <2>2, <2>3, <2>4, <2>5
       DEF Next, Loop, ReapDone, Scan, NoScan, ScanDone, Timeout, Iopause, Signals,
           Control, Finish, Time, Send, Change
<1> QED
  BY <1>1, SvscanInvariant, PTL DEF Spec, NukeSpares

=============================================================================
