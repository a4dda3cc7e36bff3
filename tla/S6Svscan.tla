------------------------------ MODULE S6Svscan ------------------------------
(***************************************************************************)
(* s6-svscan, which keeps an s6-supervise on every directory of its scan   *)
(* directory, and one on the directory's log with a pipe between the two.  *)
(*                                                                         *)
(* Time is what restartafter and deadline are compared for: a start is put *)
(* off until its time has come (future), and iopause() ends at a deadline  *)
(* that may be nearer than the next regular scan (nearer).                 *)
(***************************************************************************)
EXTENDS Integers, Sequences, FiniteSets, SequencesExt

CONSTANTS
  Dirs,          \* the service directories there may be, by device and inode
  Logged,        \* those with a log directory
  Pids,          \* numbers, from 1 on
  Pipes,         \* numbers, from 0 on
  MaxServices,   \* MAXSERVICES
  Rescans,       \* whether there are regular scans: the option -t is not 0
  Ctl, Sigs,     \* the control bytes and the signals that are sent
  MaxSent,       \* bound: how many of them are sent
  MaxDeaths,     \* bound: s6-supervise processes that end unasked
  MaxChanges,    \* bound: directories that are made or removed
  MaxFails       \* bound: calls that fail

ASSUME S6SvscanAssumption ==
  /\ Logged \subseteq Dirs /\ Rescans \in BOOLEAN
  /\ Pids \subseteq Nat \ {0} /\ Pipes \subseteq Nat
  /\ Cardinality(Pids) >= 2 * MaxServices
  /\ {MaxServices, MaxSent, MaxDeaths, MaxChanges, MaxFails} \subseteq Nat

VARIABLES
  present,       \* what the scan directory holds
  services,      \* services[0 .. n-1]
  wantreap, wantscan, wantkill, cont, killmode, finish_arg,
  nearer,        \* deadline is nearer than the regular one
  entries,       \* what readdir() has still to give
  pc,
  selfpipe, control,   \* the signals and the control bytes not yet read
  procs,         \* the children
  sent, deaths, changes, fails

wants == <<wantreap, wantscan, wantkill>>
modes == <<cont, killmode, finish_arg>>
bounds == <<sent, deaths, changes, fails>>
vars == <<present, services, wants, modes, nearer, entries, pc, selfpipe,
          control, procs, bounds>>

MAIN == 0
LOG == 1
Roles == {MAIN, LOG}

\* struct svinfo. pipe is p[0]: -1 once the pipe is closed, -2 once the
\* directory has come back after that.
Svinfo == [dir : Dirs, pid : [Roles -> Pids \cup {0}],
           future : [Roles -> BOOLEAN],     \* restartafter is to come
           pipe : Pipes \cup {-1, -2}, flagactive : BOOLEAN, flaglog : BOOLEAN]

Proc == [st : {"free", "live", "zombie"}, dir : Dirs, role : Roles,
         pipe : Pipes \cup {-1, -2}, told : SUBSET {"TERM", "HUP"}]
NoProc == [st |-> "free", dir |-> CHOOSE d \in Dirs : TRUE, role |-> MAIN,
           pipe |-> -1, told |-> {}]

ACTIVE == "ACTIVE"
SERVICES == "SERVICES"
LOGGERS == "LOGGERS"

Init ==
  /\ present \in SUBSET Dirs
  /\ services = <<>>
  /\ wantreap = TRUE /\ wantscan = TRUE /\ wantkill = FALSE
  /\ cont = TRUE /\ killmode = {} /\ finish_arg = "reboot"
  /\ nearer = FALSE /\ entries = {} /\ pc = "reap"
  /\ selfpipe = <<>> /\ control = <<>>
  /\ procs = [p \in Pids |-> NoProc]
  /\ sent = 0 /\ deaths = 0 /\ changes = 0 /\ fails = 0

Slots == DOMAIN services
Free == {p \in Pids : procs[p].st = "free"}

-----------------------------------------------------------------------------
(* reap()                                                                  *)

Zombies == {p \in Pids : procs[p].st = "zombie"}

\* Slip: services[--n] is dropped instead of being moved.
RemovedLast(s, i) == SubSeq(s, 1, Len(s) - 1)

\* services[i] = services[--n]
Removed(s, i) == SubSeq([s EXCEPT ![i] = s[Len(s)]], 1, Len(s) - 1)

\* The pipe is closed when the first of the two ends.
Closed(v) == IF v.flaglog /\ v.pipe >= 0 THEN [v EXCEPT !.pipe = -1] ELSE v

Over(v) == v.pid = [r \in Roles |-> 0]

Ended(i, role) ==
  LET v == [services[i] EXCEPT !.pid[role] = 0, !.future[role] = TRUE]
  IN  IF v.flagactive
      THEN /\ services' = [services EXCEPT ![i] = v]
           /\ nearer' = TRUE /\ UNCHANGED wantscan
      ELSE /\ services' = IF Over(v) THEN Removed(services, i)
                          ELSE [services EXCEPT ![i] = Closed(v)]
           /\ wantscan' = (wantscan \/ (v.flaglog /\ v.pipe = -2))
           /\ UNCHANGED nearer

\* One round of the loop. A child that is in no slot is only waited for.
Reap ==
  /\ pc = "reap" /\ wantreap
  /\ \E p \in Zombies :
       /\ procs' = [procs EXCEPT ![p] = NoProc]
       /\ LET slot == {i \in Slots : \E role \in Roles : services[i].pid[role] = p}
          IN  IF slot = {} THEN UNCHANGED <<services, wantscan, nearer>>
              ELSE \E i \in slot, role \in Roles :
                     services[i].pid[role] = p /\ Ended(i, role)
  /\ UNCHANGED <<present, wantreap, wantkill, modes, entries, pc, selfpipe,
                 control, bounds>>

ReapDone ==
  /\ pc = "reap" /\ (wantreap => Zombies = {})
  /\ wantreap' = FALSE
  /\ pc' = IF cont THEN "scan" ELSE "finish"
  /\ UNCHANGED <<present, services, wantscan, wantkill, modes, nearer, entries,
                 selfpipe, control, procs, bounds>>

-----------------------------------------------------------------------------
(* scan()                                                                  *)

\* opendir() and the flags; a failure is tried again in 3 seconds.
Scan ==
  /\ pc = "scan" /\ wantscan
  /\ wantscan' = FALSE
  /\ \/ /\ services' = [i \in Slots |-> [services[i] EXCEPT !.flagactive = FALSE]]
        /\ entries' = present /\ pc' = "check"
        /\ UNCHANGED <<nearer, fails>>
     \/ /\ fails < MaxFails /\ fails' = fails + 1
        /\ nearer' = TRUE /\ pc' = "kill"
        /\ UNCHANGED <<services, entries>>
  /\ UNCHANGED <<present, wantreap, wantkill, modes, selfpipe, control, procs,
                 sent, deaths, changes>>

NoScan ==
  /\ pc = "scan" /\ ~wantscan /\ pc' = "kill"
  /\ UNCHANGED <<present, services, wants, modes, nearer, entries, selfpipe,
                 control, procs, bounds>>

\* Slip: the logger's half of check() is left out.
MissingMain(v) == {r \in {MAIN} : v.pid[r] = 0}

\* The s6-supervise processes whose start is tried, the logger's first, and whether
\* one that is missing waits for its time.
Missing(v) == {r \in Roles : v.pid[r] = 0 /\ (r = LOG => v.flaglog)}
Tries(v) == {r \in Missing(v) : ~v.future[r]}
PutOff(v) == Tries(v) # Missing(v)

\* The pids of processes that are started: the lowest free ones stand for any.
NewPids(started) ==
  {pid \in [started -> Free] :
     /\ \A r, q \in started : r > q => pid[r] < pid[q]
     /\ \A r \in started, p \in Free : p < pid[r] => \E q \in started : pid[q] = p}

\* trystart(): a fork that fails is put off by 4 seconds, which deadline does not
\* heed.
TryStart(v, started, pid) ==
  [v EXCEPT !.pid = [r \in Roles |-> IF r \in started THEN pid[r] ELSE @[r]],
            !.future = [r \in Roles |-> @[r] \/ r \in Tries(v) \ started]]

Supervise(v, role) == [st |-> "live", dir |-> v.dir, role |-> role, told |-> {},
                       pipe |-> IF v.flaglog THEN v.pipe ELSE -1]

\* A slot for a directory that has none.
NewSlot(d, pipe) ==
  [dir |-> d, pid |-> [r \in Roles |-> 0], future |-> [r \in Roles |-> FALSE],
   pipe |-> pipe, flagactive |-> TRUE, flaglog |-> d \in Logged]

\* Slip: whether the pipe is closed is not looked at.
DyingNever(v) == FALSE

\* One of the two has ended since the directory was gone, and the pipe with it.
Dying(v) == v.flaglog /\ v.pipe < 0

Unused(pipe) == /\ \A i \in Slots : services[i].pipe # pipe
                /\ \A p \in Pids : procs[p].st # "live" \/ procs[p].pipe # pipe

\* check() once there is a slot v, which is services[i] or a new one.
CheckSlot(v, i) ==
  \E started \in SUBSET Tries(v) : \E pid \in NewPids(started) :
    /\ services' = IF i \in Slots THEN [services EXCEPT ![i] = TryStart(v, started, pid)]
                   ELSE Append(services, TryStart(v, started, pid))
    /\ procs' = [p \in Pids |-> IF \E r \in started : pid[r] = p
                                THEN Supervise(v, CHOOSE r \in started : pid[r] = p)
                                ELSE procs[p]]
    /\ fails' = fails + Cardinality(Tries(v) \ started) /\ fails' <= MaxFails
    /\ nearer' = (nearer \/ PutOff(v))

CheckKnown(i) ==
  IF Dying(services[i])
  THEN /\ services' = [services EXCEPT ![i].pipe = -2]
       /\ UNCHANGED <<procs, fails, nearer>>
  ELSE CheckSlot([services[i] EXCEPT !.flagactive = TRUE], i)

CheckNew(d) ==
  IF Len(services) >= MaxServices THEN UNCHANGED <<services, procs, fails, nearer>>
  ELSE \E pipe \in IF d \in Logged THEN {q \in Pipes : Unused(q)} ELSE {-1} :
         /\ d \in Logged => \A q \in Pipes : Unused(q) => pipe <= q
         /\ CheckSlot(NewSlot(d, pipe), Len(services) + 1)

\* stat(), of the directory or its log, or pipe() fails.
CheckFails(d) ==
  /\ IF d \in present THEN fails < MaxFails /\ fails' = fails + 1
     ELSE UNCHANGED fails
  /\ nearer' = TRUE
  /\ UNCHANGED <<services, procs>>

Check ==
  /\ pc = "check"
  /\ \E d \in entries :
       /\ entries' = entries \ {d}
       /\ \/ /\ d \in present
             /\ LET slot == {i \in Slots : services[i].dir = d}
                IN  IF slot = {} THEN CheckNew(d)
                    ELSE \E i \in slot : CheckKnown(i)
          \/ CheckFails(d)
  /\ UNCHANGED <<present, wants, modes, pc, selfpipe, control, sent, deaths, changes>>

\* The end of the directory, or an error of readdir().
ScanDone ==
  /\ pc = "check" /\ pc' = "kill" /\ entries' = {}
  /\ \/ entries = {} /\ UNCHANGED <<fails, nearer>>
     \/ fails < MaxFails /\ fails' = fails + 1 /\ nearer' = TRUE
  /\ UNCHANGED <<present, services, wants, modes, selfpipe, control, procs,
                 sent, deaths, changes>>

-----------------------------------------------------------------------------
(* killthem()                                                              *)

\* Slip: whether a service is active is not looked at.
MeantAll(i) == TRUE

Meant(i) == ACTIVE \in killmode \/ ~services[i].flagactive

SignalFor(role) ==
  IF (IF role = MAIN THEN SERVICES ELSE LOGGERS) \in killmode THEN "TERM" ELSE "HUP"

Killed ==
  [p \in Pids |->
    IF \E i \in Slots : Meant(i) /\ \E role \in Roles : services[i].pid[role] = p
    THEN LET role == IF \E i \in Slots : services[i].pid[MAIN] = p THEN MAIN ELSE LOG
         IN  [procs[p] EXCEPT !.told = @ \cup {SignalFor(role)}]
    ELSE procs[p]]

\* In the loop and, once cont is not set, at the end.
KillThem ==
  /\ pc \in {"kill", "finishkill"}
  /\ procs' = IF wantkill THEN Killed ELSE procs
  /\ wantkill' = FALSE
  /\ pc' = IF pc = "kill" THEN "iopause" ELSE "reap"
  /\ UNCHANGED <<present, services, wantreap, wantscan, modes, nearer, entries,
                 selfpipe, control, bounds>>

-----------------------------------------------------------------------------
(* iopause(), handle_signals() and handle_control()                        *)

Future == {w \in Slots \X Roles : services[w[1]].future[w[2]]}
Come(due) == [i \in Slots |-> [services[i] EXCEPT
                !.future = [r \in Roles |-> @[r] /\ <<i, r>> \notin due]]]

\* The deadline: the nearest of the times has come, and others may have.
Timeout ==
  /\ pc = "iopause" /\ selfpipe = <<>> /\ control = <<>>
  /\ nearer \/ Rescans
  /\ \E due \in SUBSET Future :
       /\ (due = {}) => (Future = {})
       /\ services' = Come(due)
  /\ wantscan' = TRUE /\ nearer' = FALSE /\ pc' = "reap"
  /\ UNCHANGED <<present, wantreap, wantkill, modes, entries, selfpipe, control,
                 procs, bounds>>

\* The modes of the bytes and the signals that end the loop with a kill.
TermMode == {ACTIVE, SERVICES}
QuitMode == {ACTIVE, SERVICES, LOGGERS}

Leave(kill, mode, arg) ==
  /\ cont' = FALSE /\ wantkill' = (wantkill \/ kill)
  /\ killmode' = mode /\ finish_arg' = arg

HandleSignal(s) ==
  CASE s = "CHLD" -> wantreap' = TRUE /\ UNCHANGED <<wantscan, wantkill, modes>>
    [] s = "ALRM" -> wantscan' = TRUE /\ UNCHANGED <<wantreap, wantkill, modes>>
    [] s = "TERM" -> Leave(TRUE, TermMode, finish_arg) /\ UNCHANGED <<wantreap, wantscan>>
    [] s = "HUP" -> Leave(TRUE, {ACTIVE}, finish_arg) /\ UNCHANGED <<wantreap, wantscan>>
    [] s = "QUIT" -> Leave(TRUE, QuitMode, finish_arg) /\ UNCHANGED <<wantreap, wantscan>>
    [] s = "ABRT" -> cont' = FALSE /\ UNCHANGED <<wants, killmode, finish_arg>>
    [] s = "INT" -> Leave(TRUE, TermMode, "reboot") /\ UNCHANGED <<wantreap, wantscan>>
    [] OTHER -> UNCHANGED <<wants, modes>>

\* The bytes after which the rest of the fifo is not read.
Returns == {"h", "t", "b", "i", "q", "0", "6", "7", "8"}

HandleByte(c) ==
  CASE c \in {"p", "r", "s"} ->
         /\ finish_arg' = CHOOSE arg \in {"poweroff", "reboot", "halt"} :
                            <<c, arg>> \in {<<"p", "poweroff">>, <<"r", "reboot">>, <<"s", "halt">>}
         /\ UNCHANGED <<wants, cont, killmode>>
    [] c = "a" -> wantscan' = TRUE /\ UNCHANGED <<wantreap, wantkill, modes>>
    [] c = "z" -> wantreap' = TRUE /\ UNCHANGED <<wantscan, wantkill, modes>>
    [] c = "n" -> /\ wantkill' = TRUE /\ killmode' = {SERVICES}
                  /\ UNCHANGED <<wantreap, wantscan, cont, finish_arg>>
    [] c = "N" -> /\ wantkill' = TRUE /\ killmode' = {SERVICES, LOGGERS}
                  /\ UNCHANGED <<wantreap, wantscan, cont, finish_arg>>
    [] c = "b" -> cont' = FALSE /\ UNCHANGED <<wants, killmode, finish_arg>>
    [] c = "h" -> Leave(TRUE, {ACTIVE}, finish_arg) /\ UNCHANGED <<wantreap, wantscan>>
    [] c = "t" -> Leave(FALSE, TermMode, finish_arg) /\ UNCHANGED <<wantreap, wantscan>>
    [] c = "q" -> Leave(TRUE, QuitMode, finish_arg) /\ UNCHANGED <<wantreap, wantscan>>
    [] c \in {"i", "6"} -> Leave(TRUE, TermMode, "reboot") /\ UNCHANGED <<wantreap, wantscan>>
    [] c = "0" -> Leave(TRUE, TermMode, "halt") /\ UNCHANGED <<wantreap, wantscan>>
    [] c = "7" -> Leave(TRUE, TermMode, "poweroff") /\ UNCHANGED <<wantreap, wantscan>>
    [] c = "8" -> Leave(TRUE, TermMode, "other") /\ UNCHANGED <<wantreap, wantscan>>
    [] OTHER -> UNCHANGED <<wants, modes>>

Iopause ==
  /\ pc = "iopause" /\ (selfpipe # <<>> \/ control # <<>>)
  /\ pc' = IF selfpipe # <<>> THEN "signals" ELSE "control"
  /\ UNCHANGED <<present, services, wants, modes, nearer, entries, selfpipe,
                 control, procs, bounds>>

\* The top of the loop: deadline is the regular one again.
Top == /\ pc' = IF cont' THEN "reap" ELSE "finishkill"
       /\ nearer' = FALSE

Signals ==
  /\ pc = "signals"
  /\ IF selfpipe = <<>>
     THEN /\ IF control # <<>> THEN pc' = "control" /\ UNCHANGED <<modes, nearer>>
             ELSE UNCHANGED modes /\ Top
          /\ UNCHANGED <<wants, selfpipe>>
     ELSE /\ HandleSignal(Head(selfpipe)) /\ selfpipe' = Tail(selfpipe)
          /\ UNCHANGED <<pc, nearer>>
  /\ UNCHANGED <<present, services, entries, control, procs, bounds>>

Control ==
  /\ pc = "control"
  /\ IF control = <<>> THEN UNCHANGED <<wants, modes, control>> /\ Top
     ELSE /\ HandleByte(Head(control)) /\ control' = Tail(control)
          /\ IF Head(control) \in Returns THEN Top ELSE UNCHANGED <<pc, nearer>>
  /\ UNCHANGED <<present, services, entries, selfpipe, procs, bounds>>

\* exec of the finish or the crash program.
Finish ==
  /\ pc = "finish" /\ pc' = "gone"
  /\ UNCHANGED <<present, services, wants, modes, nearer, entries, selfpipe,
                 control, procs, bounds>>

Loop == \/ Reap \/ ReapDone \/ Scan \/ NoScan \/ Check \/ ScanDone \/ KillThem
        \/ Timeout \/ Iopause \/ Signals \/ Control \/ Finish

-----------------------------------------------------------------------------
(* The others                                                              *)

Running == pc \notin {"finishkill", "finish", "gone"}

Time ==
  /\ Future # {}
  /\ \E w \in Future : services' = Come({w})
  /\ UNCHANGED <<present, wants, modes, nearer, entries, pc, selfpipe, control,
                 procs, bounds>>

\* An s6-supervise ends, because it was told or for another reason.
Die(p) ==
  /\ procs[p].st = "live" /\ pc # "gone"
  /\ IF procs[p].told # {} THEN UNCHANGED deaths
     ELSE deaths < MaxDeaths /\ deaths' = deaths + 1
  /\ procs' = [procs EXCEPT ![p].st = "zombie"]
  /\ selfpipe' = IF "CHLD" \in ToSet(selfpipe) THEN selfpipe
                 ELSE Append(selfpipe, "CHLD")
  /\ UNCHANGED <<present, services, wants, modes, nearer, entries, pc, control,
                 sent, changes, fails>>

Send ==
  /\ Running /\ sent < MaxSent /\ sent' = sent + 1
  /\ \/ \E c \in Ctl : control' = Append(control, c) /\ UNCHANGED selfpipe
     \/ \E s \in Sigs : selfpipe' = Append(selfpipe, s) /\ UNCHANGED control
  /\ UNCHANGED <<present, services, wants, modes, nearer, entries, pc, procs,
                 deaths, changes, fails>>

Change ==
  /\ Running /\ changes < MaxChanges /\ changes' = changes + 1
  /\ \E d \in Dirs : present' = IF d \in present THEN present \ {d} ELSE present \cup {d}
  /\ UNCHANGED <<services, wants, modes, nearer, entries, pc, selfpipe, control,
                 procs, sent, deaths, fails>>

Next == Loop \/ Time \/ Send \/ Change \/ \E p \in Pids : Die(p)

Spec == Init /\ [][Next]_vars

\* The loop goes on; a supervisor that was told to end ends.
Fairness ==
  /\ WF_vars(Loop)
  /\ \A p \in Pids : WF_vars(procs[p].told # {} /\ Die(p))

FairSpec == Spec /\ Fairness

-----------------------------------------------------------------------------

\* What the variables are.
TypeOK ==
  /\ present \subseteq Dirs /\ entries \subseteq Dirs
  /\ services \in Seq(Svinfo) /\ Len(services) <= MaxServices
  /\ {wantreap, wantscan, wantkill, cont, nearer} \subseteq BOOLEAN
  /\ killmode \subseteq {ACTIVE, SERVICES, LOGGERS}
  /\ finish_arg \in {"reboot", "poweroff", "halt", "other"}
  /\ pc \in {"reap", "scan", "check", "kill", "iopause", "signals",
            "control", "finish", "finishkill", "gone"}
  /\ selfpipe \in Seq(Sigs \cup {"CHLD"}) /\ control \in Seq(Ctl)
  /\ procs \in [Pids -> Proc]
  /\ sent \in 0 .. MaxSent /\ deaths \in 0 .. MaxDeaths
  /\ changes \in 0 .. MaxChanges /\ fails \in 0 .. MaxFails

Live(d, role) == {p \in Pids : procs[p].st = "live" /\ procs[p].dir = d
                                                   /\ procs[p].role = role}

\* No directory has two supervisors, and no child that lives is forgotten: as long
\* as it is there a slot holds its pid, through removals of slots, the reuse of
\* pids and directories that come back (check, reap).
OnePerDirectory ==
  \A d \in Dirs, role \in Roles :
    /\ Cardinality(Live(d, role)) <= 1
    /\ \A p \in Live(d, role) : \E i \in Slots : services[i].pid[role] = p
                                                 /\ services[i].dir = d

\* A supervised service and its logger hold the ends of one pipe, also when the
\* directory went and came back while one of them had ended (BLACK MAGIC).
SamePipe ==
  \A d \in Logged : \A m \in Live(d, MAIN), l \in Live(d, LOG) :
    procs[m].pipe = procs[l].pipe /\ procs[m].pipe >= 0

\* s6-svscanctl.html: -n is for the supervisors "that did not match a service
\* directory last time svscandir was scanned". As long as s6-svscan is not told to
\* leave, no supervisor of an active service is signalled.
NukeSpares ==
  [][\A p \in Pids : procs[p].st = "live" /\ procs'[p].told # procs[p].told =>
       ~cont \/ \E i \in Slots : ~services[i].flagactive
                                 /\ \E role \in Roles : services[i].pid[role] = p]_vars

Wanted(d) == Live(d, MAIN) # {} /\ (d \in Logged => Live(d, LOG) # {})

\* s6-svscan.html: a supervisor that was active when it died "is restarted one
\* second later", whatever else happens, as long as its directory is there. A
\* service one of whose two supervisors ended while the directory was gone waits
\* for the other one to end.
Restarted ==
  \A d \in Dirs :
    [](d \in present /\ cont)
      => []<>(Wanted(d) \/ \E i \in Slots, role \in Roles :
                             /\ services[i].dir = d /\ services[i].pid[role] # 0
                             /\ Dying(services[i]))

=============================================================================
