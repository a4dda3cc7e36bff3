------------------------------- MODULE Runit -------------------------------
(***************************************************************************)
(* runit(8), process no 1, going through its three stages, and             *)
(* runit-init(8), which asks it to halt or to reboot.                      *)
(*                                                                         *)
(* runit forks the program of a stage and then waits in a loop: poll()     *)
(* with the signals unblocked, wait_nohang() for the dead, and, when the   *)
(* stage goes on, a look at the signals.  A request is a file, stopit,     *)
(* and a CONT; between the writes of runit-init, runit and the stage       *)
(* programs run, and several runit-inits may be at it together.            *)
(*                                                                         *)
(* External: the kernel's own processes and what reboot(2) does.           *)
(*                                                                         *)
(* No name here is one of the modules Runsv and Runsvdir, so that          *)
(* RunitProofs can extend the three.                                       *)
(***************************************************************************)
EXTENDS Naturals, Sequences, FiniteSets

CONSTANTS
  Exits,      \* how a stage program may end
  Inits,      \* the runit-init processes that may be started
  Reboots,    \* those of them started as "init 6", the others as "init 0"
  Strays,     \* the signals others may send to runit
  HasCad      \* outcomes of looking for ctrlaltdel, a set of BOOLEANs

\* "1" stands for any exit code runit does not look for.
AllExits == {"0", "1", "100", "111", "crash"}

ASSUME RunitAssumption ==
  /\ Exits \subseteq AllExits
  /\ Reboots \subseteq Inits
  /\ Strays \subseteq {"CONT", "INT"}
  /\ HasCad \subseteq BOOLEAN /\ HasCad # {}

VARIABLES
  runitpc,   \* where runit's loop is
  st,        \* 0, 1, 2: running stage st + 1; 3: past stage 3
  child,     \* the program of the stage: "none", "running", "zombie"
  wstat,     \* how it ended
  killed,    \* it was sent KILL
  orphan,    \* some other child of process no 1 is dead and not waited for
  unhandled, \* signals blocked or not yet handled
  sigc,      \* sigc is not 0
  sigi,      \* sigi is not 0
  tries,     \* the counter i of the wait for stage 2
  stopit,    \* /etc/runit/stopit is executable by its owner
  reboot,    \* /etc/runit/reboot is
  request,   \* how many of its steps each runit-init has done
  sentin,    \* the stage runit was in when a runit-init sent CONT
  asked,     \* stage 2 was told to end
  outcome,   \* "none", "reboot" or "halt"
  strayed    \* somebody else than a runit-init has sent a signal

stagesvars == <<runitpc, st, child, wstat, killed, orphan, unhandled, sigc, sigi, tries,
                stopit, reboot, request, sentin, asked, outcome, strayed>>

runitvars == <<runitpc, st, killed, sigc, sigi, tries, asked, outcome>>
initvars == <<request, sentin>>
files == <<stopit, reboot>>

StagesPlaces == {"fork", "poll", "reap", "ended", "signals", "cad", "request",
                 "stopping", "killing", "leave", "final"}

MaxTries == 5

StagesInit ==
  /\ runitpc = "fork" /\ st = 0
  /\ child = "none" /\ wstat = "0" /\ killed = FALSE
  /\ orphan = FALSE
  /\ unhandled = {} /\ sigc = FALSE /\ sigi = FALSE
  /\ tries = 0
  /\ stopit \in BOOLEAN /\ reboot \in BOOLEAN
  /\ request = [i \in Inits |-> 0]
  /\ sentin = [i \in Inits |-> {}]
  /\ asked = FALSE
  /\ outcome = "none"
  /\ strayed = FALSE

-----------------------------------------------------------------------------
(* The loop of process no 1.                                               *)

Goto(from, to) == runitpc = from /\ runitpc' = to

\* fork() is retried until it succeeds.
Fork ==
  /\ runitpc = "fork"
  /\ IF st < 3 THEN runitpc' = "poll" /\ child' = "running"
     ELSE runitpc' = "final" /\ UNCHANGED child
  /\ killed' = FALSE
  /\ UNCHANGED <<st, wstat, orphan, unhandled, sigc, sigi, tries, stopit, reboot,
                 request, sentin, asked, outcome, strayed>>

\* poll() returns for a signal, or after 14 seconds; the handlers count.
Poll ==
  /\ Goto("poll", "reap")
  /\ sigc' = (sigc \/ "CONT" \in unhandled)
  /\ sigi' = (sigi \/ "INT" \in unhandled)
  /\ unhandled' = {}
  /\ UNCHANGED <<st, child, wstat, killed, orphan, tries, stopit, reboot,
                 request, sentin, asked, outcome, strayed>>

\* Any dead child is waited for until there is none left or the stage program
\* is found, which may come first.
WaitNohang ==
  /\ runitpc = "reap"
  /\ IF child = "zombie"
       THEN runitpc' = "ended" /\ child' = "none" /\ orphan' \in {orphan, FALSE}
       ELSE runitpc' = "signals" /\ orphan' = FALSE /\ UNCHANGED child
  /\ UNCHANGED <<st, wstat, killed, unhandled, sigc, sigi, tries, stopit, reboot,
                 request, sentin, asked, outcome, strayed>>

\* wait_exitcode() is the high byte: 0 for a process that died of a signal.
ExitCode == IF wstat = "crash" THEN "0" ELSE wstat
Crashed == wstat = "crash"

\* Where st is after the stage program ended: 2 for "leave stage 1, skip
\* stage 2", 1 again for "restarting".
NextStage ==
  IF ExitCode # "0" /\ st = 0 /\ (Crashed \/ ExitCode = "100") THEN 2
  ELSE IF ExitCode # "0" /\ st = 1 /\ (Crashed \/ ExitCode = "111") THEN 1
  ELSE st + 1

Ended ==
  /\ Goto("ended", "fork")
  /\ st' = NextStage
  /\ UNCHANGED <<child, wstat, killed, orphan, unhandled, sigc, sigi, tries,
                 stopit, reboot, request, sentin, asked, outcome, strayed>>

\* Slip: the stages are counted from 1.
SignalsOffByOne ==
  /\ runitpc = "signals"
  /\ \E cad \in HasCad :
       runitpc' = IF ~(sigc \/ sigi) \/ st # 2 THEN "poll"
             ELSE IF sigi /\ cad THEN "cad" ELSE "request"
  /\ IF st # 2 THEN sigc' = FALSE /\ sigi' = FALSE ELSE UNCHANGED <<sigc, sigi>>
  /\ UNCHANGED <<st, child, wstat, killed, orphan, unhandled, tries, stopit,
                 reboot, request, sentin, asked, outcome, strayed>>

\* sigc and sigi, when the stage goes on.
Signals ==
  /\ runitpc = "signals"
  /\ \E cad \in HasCad :
       runitpc' = IF ~(sigc \/ sigi) \/ st # 1 THEN "poll"
             ELSE IF sigi /\ cad THEN "cad" ELSE "request"
  /\ IF st # 1 THEN sigc' = FALSE /\ sigi' = FALSE ELSE UNCHANGED <<sigc, sigi>>
  /\ UNCHANGED <<st, child, wstat, killed, orphan, unhandled, tries, stopit,
                 reboot, request, sentin, asked, outcome, strayed>>

\* ctrlaltdel has run and ended; it counts as a CONT.
Cad ==
  /\ Goto("cad", "request")
  /\ sigc' = TRUE
  /\ sigi' = FALSE
  /\ UNCHANGED <<st, child, wstat, killed, orphan, unhandled, tries, stopit,
                 reboot, request, sentin, asked, outcome, strayed>>

\* With a CONT and an executable stopit, stage 2 is told to terminate.
Request ==
  /\ runitpc = "request"
  /\ IF sigc /\ stopit
       THEN /\ runitpc' = "stopping"
            /\ stopit' = FALSE
            /\ asked' = TRUE
            /\ tries' = 0
            /\ UNCHANGED <<sigc, sigi>>
       ELSE /\ runitpc' = "poll"
            /\ sigc' = FALSE /\ sigi' = FALSE
            /\ UNCHANGED <<stopit, asked, tries>>
  /\ UNCHANGED <<st, child, wstat, killed, orphan, unhandled, reboot, request,
                 sentin, outcome, strayed>>

\* Once a second, five times; then KILL.
Stopping ==
  /\ runitpc = "stopping"
  /\ IF tries = MaxTries
       THEN runitpc' = "killing" /\ killed' = TRUE /\ UNCHANGED <<child, orphan, tries>>
     ELSE IF child = "zombie"
       THEN /\ runitpc' = "leave" /\ child' = "none"
            /\ orphan' \in {orphan, FALSE}
            /\ UNCHANGED <<killed, tries>>
     ELSE /\ tries' = tries + 1 /\ orphan' = FALSE
          /\ UNCHANGED <<runitpc, child, killed>>
  /\ UNCHANGED <<st, wstat, unhandled, sigc, sigi, stopit, reboot, request,
                 sentin, asked, outcome, strayed>>

\* Slip: KILL is sent and not waited for.
KillingNoWait ==
  /\ Goto("killing", "leave")
  /\ UNCHANGED <<st, child, wstat, killed, orphan, unhandled, sigc, sigi, tries,
                 stopit, reboot, request, sentin, asked, outcome, strayed>>

Killing ==
  /\ Goto("killing", "leave")
  /\ child = "zombie"
  /\ child' = "none"
  /\ UNCHANGED <<st, wstat, killed, orphan, unhandled, sigc, sigi, tries, stopit,
                 reboot, request, sentin, asked, outcome, strayed>>

Leave ==
  /\ Goto("leave", "fork")
  /\ sigc' = FALSE
  /\ st' = st + 1
  /\ UNCHANGED <<child, wstat, killed, orphan, unhandled, sigi, tries, stopit,
                 reboot, request, sentin, asked, outcome, strayed>>

\* Everything is killed; then the permissions of reboot decide.
Final ==
  /\ runitpc = "final" /\ outcome = "none"
  /\ outcome' = IF reboot THEN "reboot" ELSE "halt"
  /\ UNCHANGED <<runitpc, st, child, wstat, killed, orphan, unhandled, sigc, sigi,
                 tries, stopit, reboot, request, sentin, asked, strayed>>

StagesStep ==
  \/ Fork \/ Poll \/ WaitNohang \/ Ended \/ Signals \/ Cad \/ Request
  \/ Stopping \/ Killing \/ Leave \/ Final

-----------------------------------------------------------------------------
(* The other processes.                                                    *)

\* Slip: runit is signalled before it can know how to go down.
OrderContFirst == <<"stopit", "CONT", "reboot">>

\* What runit_halt() and runit_reboot() do, in this order.
Order == <<"stopit", "reboot", "CONT">>

RunitInit(i) ==
  /\ runitpc # "final"
  /\ request[i] < Len(Order)
  /\ request' = [request EXCEPT ![i] = @ + 1]
  /\ LET step == Order[request[i] + 1]
     IN  /\ stopit' = (stopit \/ step = "stopit")
         /\ reboot' = IF step = "reboot" THEN i \in Reboots ELSE reboot
         /\ IF step = "CONT"
              THEN /\ unhandled' = unhandled \cup {"CONT"}
                   /\ sentin' = [sentin EXCEPT ![i] = {st}]
              ELSE UNCHANGED <<unhandled, sentin>>
  /\ UNCHANGED <<runitvars, child, wstat, orphan, strayed>>

Stray(sig) ==
  /\ runitpc # "final"
  /\ unhandled' = unhandled \cup {sig}
  /\ strayed' = TRUE
  /\ UNCHANGED <<runitvars, child, wstat, orphan, files, initvars>>

\* The program of the stage ends.
StageEnds ==
  /\ child = "running"
  /\ child' = "zombie"
  /\ wstat' \in Exits
  /\ UNCHANGED <<runitvars, orphan, unhandled, files, initvars, strayed>>

\* A process init has inherited dies.
OrphanDies ==
  /\ runitpc # "final"
  /\ orphan' = TRUE
  /\ UNCHANGED <<runitvars, child, wstat, unhandled, files, initvars, strayed>>

StagesNext ==
  \/ StagesStep
  \/ \E i \in Inits : RunitInit(i)
  \/ \E sig \in Strays : Stray(sig)
  \/ StageEnds
  \/ OrphanDies

StagesSpec == StagesInit /\ [][StagesNext]_stagesvars

\* poll() times out, the sleeps end, ctrlaltdel ends; a killed program dies.
StagesFairness == WF_stagesvars(StagesStep) /\ WF_stagesvars(killed /\ StageEnds)

StagesFairSpec == StagesSpec /\ StagesFairness

-----------------------------------------------------------------------------
(* Properties.                                                             *)

\* What the variables are.
StagesTypeOK ==
  /\ runitpc \in StagesPlaces
  /\ st \in 0 .. 3
  /\ child \in {"none", "running", "zombie"}
  /\ wstat \in AllExits
  /\ killed \in BOOLEAN /\ orphan \in BOOLEAN
  /\ unhandled \subseteq {"CONT", "INT"}
  /\ sigc \in BOOLEAN /\ sigi \in BOOLEAN
  /\ tries \in 0 .. MaxTries
  /\ stopit \in BOOLEAN /\ reboot \in BOOLEAN
  /\ request \in [Inits -> 0 .. Len(Order)]
  /\ sentin \in [Inits -> SUBSET (0 .. 3)]
  /\ asked \in BOOLEAN
  /\ outcome \in {"none", "reboot", "halt"}
  /\ strayed \in BOOLEAN

\* The program of a stage is forked only when that of the stage before is dead
\* and waited for, whichever of wait_nohang and wait_pid found it, and runit
\* never waits for one that is not there.
OneStage ==
  /\ runitpc \in {"fork", "ended", "leave", "final"} => child = "none"
  /\ runitpc \in {"poll", "reap", "signals", "cad", "request", "stopping", "killing"}
       => child # "none"

\* When only runit-init has signalled runit, a shutdown it asked for ends as one of
\* those who got past the file reboot wants it, and not as that file was left
\* before: whatever runit does in between, the order of the three steps sees
\* to it.
RebootAsAsked ==
  ~strayed /\ asked /\ outcome # "none" =>
    \E i \in Inits : /\ request[i] >= 2
                     /\ outcome = "reboot" <=> i \in Reboots

Asked(i) == sentin[i] = {1}

Restarting == st = 1 /\ child = "zombie" /\ wstat = "111"

\* A runit-init that has sent its CONT in stage 2 brings stage 3 about, however
\* the CONT meets the end of a stage 2, unless stage 2 is restarted for ever.
RequestHonoured ==
  <>[]~Restarting => \A i \in Inits : Asked(i) ~> st >= 2

=============================================================================
