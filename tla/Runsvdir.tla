------------------------------ MODULE Runsvdir ------------------------------
(***************************************************************************)
(* runit's runsvdir(8): one runsv per subdirectory of the services         *)
(* directory, started again when it ends, told to end when the directory   *)
(* is gone.                                                                *)
(*                                                                         *)
(* The scan is one step per directory entry, in any order, since entries   *)
(* come and go meanwhile.  Time is what the modification time of the       *)
(* services directory shows of it: whether it is in the current second,    *)
(* and whether it is the one runsvdir has recorded.  A runsv is a process  *)
(* that holds the lock of its directory, or ends at once when it finds it  *)
(* taken (runsv.c, modelled in module Runsv).                              *)
(*                                                                         *)
(* No name here is one of the modules Runsv and Runit, so that RunitProofs *)
(* can extend the three.                                                   *)
(***************************************************************************)
EXTENDS Naturals, Sequences, FiniteSets

CONSTANTS
  Names,        \* the names there may be in the services directory
  Inodes,       \* the directories they may name
  Absent,       \* no such entry
  Dangling,     \* an entry stat() fails for
  Kinds,        \* what a name may be
  RunsvPids, NoRunsv,
  MaxServices,  \* MAXSERVICES, the length of sv
  Faults,       \* the calls that may fail
  MaxFaults,    \* bound: how many of them do, each once
  MaxChanges,   \* bound: changes of the services directory
  Ends          \* the signals runsvdir may get: a subset of {"TERM", "HUP"}

AllFaults == {"stat", "opendir", "readdir", "fork"}

ASSUME RunsvdirAssumption ==
  /\ NoRunsv \notin RunsvPids
  /\ Absent \notin Inodes /\ Dangling \notin Inodes /\ Absent # Dangling
  /\ Kinds \subseteq Inodes \cup {Absent, Dangling}
  /\ MaxServices \in Nat \ {0}
  /\ Faults \subseteq AllFaults
  /\ MaxFaults \in Nat /\ MaxChanges \in Nat
  /\ Ends \subseteq {"TERM", "HUP"}

VARIABLES
  dirpc,      \* where main()'s loop is
  entry,      \* the services directory: what each name is
  recent,     \* its mtime is in the current second
  changed,    \* its mtime, inode or device is not the one recorded
  check,      \* the flag check
  sv,         \* sv[0 .. svnum - 1]
  todo,       \* the names readdir() has not come to
  errno,      \* errno is not 0 while the directory is read
  at,         \* the index i of the loop that ends the removed
  runsvs,     \* the runsv processes
  exitsoon,   \* "no", "TERM" or "HUP"
  faults,     \* the calls that have failed
  changes     \* counter of the changes of the directory

runsvdirvars == <<dirpc, entry, recent, changed, check, sv, todo, errno, at, runsvs,
                  exitsoon, faults, changes>>

dirvars == <<entry, recent, changes>>
scanvars == <<todo, errno, at>>

DirPlaces == {"collect", "stat", "sleep", "opendir", "scan", "term", "pause",
              "exited"}

Slot == [ino : Inodes, pid : RunsvPids \cup {NoRunsv}, isgone : BOOLEAN]

\* st "second" is a runsv that finds the lock taken and ends.
Process == [st : {"free", "run", "second", "zombie"}, ino : Inodes, told : BOOLEAN]

Free == {p \in RunsvPids : runsvs[p].st = "free"}
Live(p) == runsvs[p].st \in {"run", "second"}
Holds(ino) == \E p \in RunsvPids : runsvs[p].st = "run" /\ runsvs[p].ino = ino

NoProcess == [st |-> "free", ino |-> CHOOSE i \in Inodes : TRUE, told |-> FALSE]

DirInit ==
  /\ dirpc = "collect"
  /\ entry \in [Names -> Kinds]
  /\ recent \in BOOLEAN /\ changed = TRUE
  /\ check = TRUE
  /\ sv = <<>>
  /\ todo = {} /\ errno = FALSE /\ at = 1
  /\ runsvs = [p \in RunsvPids |-> NoProcess]
  /\ exitsoon = "no"
  /\ faults = {} /\ changes = 0

\* A call fails, if the bound allows.
Fails(call) ==
  /\ call \in Faults \ faults /\ Cardinality(faults) < MaxFaults
  /\ faults' = faults \cup {call}

-----------------------------------------------------------------------------
(* runsv(no, name): fork, and execve of the program runsv.                 *)

\* The slots and processes after runsv for slot i of slots; a failed fork
\* leaves the pid 0 and errno set.
Runsv(i, slots) ==
  \/ /\ Fails("fork")
     /\ sv' = slots
     /\ errno' = TRUE
     /\ UNCHANGED runsvs
  \/ \E p \in Free :
       /\ sv' = [slots EXCEPT ![i].pid = p]
       /\ runsvs' = [runsvs EXCEPT ![p] =
                      [st |-> IF Holds(slots[i].ino) THEN "second" ELSE "run",
                       ino |-> slots[i].ino, told |-> FALSE]]
       /\ UNCHANGED <<errno, faults>>

\* kill(pid, SIGTERM) for every pid of a set.
Terminate(pids) ==
  runsvs' = [p \in RunsvPids |-> [runsvs[p] EXCEPT !.told = @ \/ (p \in pids /\ Live(p))]]

-----------------------------------------------------------------------------
(* The loop of main().                                                     *)

\* Slip: the pid of a runsv that ended stays in its slot.
CollectKeepsPid(p) ==
  /\ dirpc = "collect"
  /\ runsvs[p].st = "zombie"
  /\ runsvs' = [runsvs EXCEPT ![p] = NoProcess]
  /\ check' = (check \/ \E i \in DOMAIN sv : sv[i].pid = p)
  /\ UNCHANGED <<dirpc, dirvars, changed, sv, scanvars, exitsoon, faults>>

\* wait_nohang(): a dead runsv, of a slot or not.
Collect(p) ==
  /\ dirpc = "collect"
  /\ runsvs[p].st = "zombie"
  /\ runsvs' = [runsvs EXCEPT ![p] = NoProcess]
  /\ sv' = [i \in DOMAIN sv |-> IF sv[i].pid = p THEN [sv[i] EXCEPT !.pid = NoRunsv]
                                ELSE sv[i]]
  /\ check' = (check \/ \E i \in DOMAIN sv : sv[i].pid = p)
  /\ UNCHANGED <<dirpc, dirvars, changed, scanvars, exitsoon, faults>>

Collected ==
  /\ dirpc = "collect"
  /\ \A p \in RunsvPids : runsvs[p].st # "zombie"
  /\ dirpc' = "stat"
  /\ UNCHANGED <<dirvars, changed, check, sv, scanvars, runsvs, exitsoon, faults>>

\* stat(svdir), and chdir(svdir) if there is something to do; either may fail.
\* The modification time is recorded and check reset before the scan.
Stat ==
  /\ dirpc = "stat"
  /\ \/ /\ Fails("stat")
        /\ dirpc' = "pause"
        /\ UNCHANGED <<changed, check>>
     \/ /\ ~check /\ ~changed
        /\ dirpc' = "pause"
        /\ UNCHANGED <<changed, check, faults>>
     \/ /\ check \/ changed
        /\ dirpc' = IF recent THEN "sleep" ELSE "opendir"
        /\ changed' = FALSE
        /\ check' = FALSE
        /\ UNCHANGED faults
  /\ UNCHANGED <<dirvars, sv, scanvars, runsvs, exitsoon>>

\* Slip: the second in which the directory was changed is not waited for.
SleepNot ==
  /\ dirpc = "sleep"
  /\ dirpc' = "opendir"
  /\ UNCHANGED <<dirvars, changed, check, sv, scanvars, runsvs, exitsoon, faults>>

\* sleep(1): the second of the recorded modification time is over, unless the
\* directory was changed in the next one.
Sleep ==
  /\ dirpc = "sleep"
  /\ dirpc' = "opendir"
  /\ recent' = (recent /\ changed)
  /\ UNCHANGED <<entry, changes, changed, check, sv, scanvars, runsvs, exitsoon,
                 faults>>

Opendir ==
  /\ dirpc = "opendir"
  /\ \/ /\ Fails("opendir")
        /\ dirpc' = "pause"
        /\ UNCHANGED <<sv, scanvars>>
     \/ /\ dirpc' = "scan"
        /\ sv' = [i \in DOMAIN sv |-> [sv[i] EXCEPT !.isgone = TRUE]]
        /\ todo' = Names
        /\ errno' = FALSE
        /\ UNCHANGED <<at, faults>>
  /\ UNCHANGED <<dirvars, changed, check, runsvs, exitsoon>>

\* One entry that is a directory: a service of a slot, a new one, or one too
\* many.
Service(ino) ==
  \/ \E i \in DOMAIN sv :
       /\ sv[i].ino = ino
       /\ LET seen == [sv EXCEPT ![i].isgone = FALSE]
          IN  IF sv[i].pid = NoRunsv THEN Runsv(i, seen)
              ELSE sv' = seen /\ UNCHANGED <<runsvs, errno, faults>>
       /\ UNCHANGED check
  \/ /\ \A i \in DOMAIN sv : sv[i].ino # ino
     /\ Len(sv) < MaxServices
     /\ Runsv(Len(sv) + 1,
              Append(sv, [ino |-> ino, pid |-> NoRunsv, isgone |-> FALSE]))
     /\ check' = TRUE
  \/ /\ \A i \in DOMAIN sv : sv[i].ino # ino
     /\ Len(sv) >= MaxServices
     /\ UNCHANGED <<sv, check, runsvs, errno, faults>>

\* readdir() and stat().  A stat() that fails resets errno.
Entry(name) ==
  /\ dirpc = "scan"
  /\ name \in todo
  /\ todo' = todo \ {name}
  /\ CASE entry[name] = Absent ->
            UNCHANGED <<sv, check, runsvs, errno, faults>>
       [] entry[name] = Dangling ->
            errno' = FALSE /\ UNCHANGED <<sv, check, runsvs, faults>>
       [] OTHER -> Service(entry[name])
  /\ UNCHANGED <<dirpc, dirvars, changed, at, exitsoon>>

\* The end of the directory, or an error: whatever left errno set counts.
Scanned ==
  /\ dirpc = "scan"
  /\ \E failed \in BOOLEAN :
       /\ \/ todo = {} /\ failed = errno /\ UNCHANGED faults
          \/ Fails("readdir") /\ failed
       /\ IF failed THEN dirpc' = "pause" /\ check' = TRUE
          ELSE dirpc' = "term" /\ UNCHANGED check
  /\ todo' = {} /\ errno' = FALSE /\ at' = 1
  /\ UNCHANGED <<dirvars, changed, sv, runsvs, exitsoon>>

\* sv[i] = sv[--svnum]
Remove(i) ==
  [j \in 1 .. Len(sv) - 1 |-> IF j = i THEN sv[Len(sv)] ELSE sv[j]]

\* Slip: nobody looks again at the service moved into the freed slot.
EndRemovedOnce ==
  /\ dirpc = "term"
  /\ at <= Len(sv)
  /\ at' = at + 1
  /\ IF sv[at].isgone THEN Terminate({sv[at].pid}) /\ sv' = Remove(at)
     ELSE UNCHANGED <<runsvs, sv>>
  /\ UNCHANGED <<dirpc, dirvars, changed, check, todo, errno, exitsoon, faults>>

\* The service moved into the freed slot is not looked at in this scan.
EndRemoved ==
  /\ dirpc = "term"
  /\ at <= Len(sv)
  /\ at' = at + 1
  /\ IF sv[at].isgone
       THEN /\ Terminate({sv[at].pid})
            /\ sv' = Remove(at)
            /\ check' = TRUE
       ELSE UNCHANGED <<runsvs, sv, check>>
  /\ UNCHANGED <<dirpc, dirvars, changed, todo, errno, exitsoon, faults>>

RemovedDone ==
  /\ dirpc = "term"
  /\ at > Len(sv)
  /\ dirpc' = "pause" /\ at' = 1
  /\ UNCHANGED <<dirvars, changed, check, sv, todo, errno, runsvs, exitsoon, faults>>

\* iopause() for one or five seconds; then the signals are acted on.
DirPause ==
  /\ dirpc = "pause"
  /\ dirpc' = IF exitsoon = "no" THEN "collect" ELSE "exited"
  /\ IF exitsoon = "HUP" THEN Terminate({sv[i].pid : i \in DOMAIN sv})
     ELSE UNCHANGED runsvs
  /\ UNCHANGED <<dirvars, changed, check, sv, scanvars, exitsoon, faults>>

DirStep ==
  \/ (\E p \in RunsvPids : Collect(p)) \/ Collected \/ Stat \/ Sleep \/ Opendir
  \/ (\E name \in Names : Entry(name)) \/ Scanned
  \/ EndRemoved \/ RemovedDone \/ DirPause

-----------------------------------------------------------------------------
(* The world around runsvdir, until it exits.                              *)

\* An entry is made, removed or replaced.  Within the second of the last
\* change the modification time stays what it is.
Change(name, what) ==
  /\ dirpc # "exited" /\ changes < MaxChanges
  /\ entry[name] # what
  /\ changes' = changes + 1
  /\ entry' = [entry EXCEPT ![name] = what]
  /\ recent' = TRUE
  /\ changed' = (changed \/ ~recent)
  /\ UNCHANGED <<dirpc, check, sv, scanvars, runsvs, exitsoon, faults>>

Tick ==
  /\ dirpc # "exited" /\ recent
  /\ recent' = FALSE
  /\ UNCHANGED <<dirpc, entry, changes, changed, check, sv, scanvars, runsvs,
                 exitsoon, faults>>

\* A runsv ends: told to, finding the lock taken, or killed.
RunsvEnds(p) ==
  /\ dirpc # "exited" /\ Live(p)
  /\ runsvs' = [runsvs EXCEPT ![p].st = "zombie", ![p].told = FALSE]
  /\ UNCHANGED <<dirpc, dirvars, changed, check, sv, scanvars, exitsoon, faults>>

\* s_term() and s_hangup(). The flag is only read where Pause ends, so that a
\* signal that comes earlier is one that comes then.
Signal(sig) ==
  /\ dirpc = "pause"
  /\ exitsoon' = sig
  /\ UNCHANGED <<dirpc, dirvars, changed, check, sv, scanvars, runsvs, faults>>

DirNext ==
  \/ DirStep
  \/ \E name \in Names, what \in Kinds : Change(name, what)
  \/ Tick
  \/ \E p \in RunsvPids : RunsvEnds(p)
  \/ \E sig \in Ends : Signal(sig)

DirSpec == DirInit /\ [][DirNext]_runsvdirvars

\* runsvdir is never blocked for ever; a second passes; a runsv that was told
\* to end, or cannot lock, ends (ExitCompletes of module Runsv).
DirFairness ==
  /\ WF_runsvdirvars(DirStep)
  /\ WF_runsvdirvars(Tick)
  /\ \A p \in RunsvPids :
       WF_runsvdirvars((runsvs[p].told \/ runsvs[p].st = "second") /\ RunsvEnds(p))

DirFairSpec == DirSpec /\ DirFairness

-----------------------------------------------------------------------------
(* Properties.                                                             *)

\* What the variables are.
DirTypeOK ==
  /\ dirpc \in DirPlaces
  /\ entry \in [Names -> Kinds]
  /\ {recent, changed, check, errno} \subseteq BOOLEAN
  /\ sv \in Seq(Slot) /\ Len(sv) <= MaxServices
  /\ todo \subseteq Names
  /\ at \in 1 .. MaxServices + 1
  /\ runsvs \in [RunsvPids -> Process]
  /\ exitsoon \in {"no", "TERM", "HUP"}
  /\ faults \subseteq Faults /\ changes \in 0 .. MaxChanges

\* A directory has one slot at most, whatever order slots are freed, moved and
\* taken in.
OneSlot == \A i, j \in DOMAIN sv : sv[i].ino = sv[j].ino => i = j

\* The pid in a slot is a runsv of that directory, not waited for: no TERM can
\* go to another service or to pid 0.
PidsAreServices ==
  \A i \in DOMAIN sv : sv[i].pid # NoRunsv =>
    /\ runsvs[sv[i].pid].st # "free"
    /\ runsvs[sv[i].pid].ino = sv[i].ino

\* No runsv is forgotten: one that runs is in a slot, or was told to end.
NoForgotten ==
  \A p \in RunsvPids :
    Live(p) => runsvs[p].told \/ \E i \in DOMAIN sv : sv[i].pid = p

\* runsvdir.8, of HUP: every runsv there still is has been told to end.
HupTellsAll ==
  dirpc = "exited" /\ exitsoon = "HUP" => \A p \in RunsvPids : Live(p) => runsvs[p].told

\* Slots, processes and directories stay in step, however directories change
\* and calls fail, until runsvdir exits.
SlotsAreServices == OneSlot /\ PidsAreServices /\ NoForgotten /\ HupTellsAll

Present(ino) == \E name \in Names : entry[name] = ino

Services == Cardinality({ino \in Inodes : Present(ino)})

Dangles == \E name \in Names : entry[name] = Dangling

\* A subdirectory that stays, among no more than MaxServices, has a running
\* runsv again and again: no new entry, no death and no freed slot is missed.
\* Two things are: what a failing opendir() leaves unseen, for the modification
\* time is recorded before it, and a failing fork() whose errno the stat() of a
\* dangling link resets, so that check is not set again.
PresentRuns ==
  \A ino \in Inodes :
    <>[](/\ Present(ino) /\ Services <= MaxServices /\ dirpc # "exited"
         /\ "opendir" \notin faults /\ ~("fork" \in faults /\ Dangles))
      => []<>Holds(ino)

\* A directory that is gone for good keeps no runsv that was not told to end,
\* unless opendir() failed.
RemovedEnds ==
  \A ino \in Inodes :
    <>[](~Present(ino) /\ dirpc # "exited" /\ "opendir" \notin faults)
      => <>[](\A p \in RunsvPids : Live(p) /\ runsvs[p].ino = ino => runsvs[p].told)

=============================================================================
