# Service supervisors in TLA+

The repository collects the programs that keep a Unix system's services
running: runit (Debian's tree of 2.1.1, with the upstream and the Finnix tree
beside it), s6 1.1.1, cinit 0.3, an archive of perp, and the shell packages of
`safe-boot`. This directory is a formal model of them, written from the C
sources: TLA+ modules, TLC configurations that check them on small instances,
and theorems that TLAPS proves for instances of every size.

The modules cover runit's own core (`runsv`, `runsvdir`, `runit`, `runit-init`)
and its logger `svlogd`; of s6 the supervisor `s6-supervise` with its client
`s6-svwait`, the scanner `s6-svscan`, the logger `s6-log`, and the two daemons
with their libraries, `libftrig` and `libs6lock`; and of cinit the service tree,
the main loop and the message queues. What there is besides, and why it is left
out, is in *Inventory* and *Not modelled*.

`$R` below is `src/runit/runit-2.1.1/runit-2.1.1/src`, `$S` is
`src/s6_and_deps/s6-1.1.1/src`, `$C` is `src/cinit/src`.

## Inventory

### runit

| part | state | operations | correct when |
|---|---|---|---|
| `runsv` (`$R/runsv.c`) | a `struct svdir` (pid, state, ctrl, want) for the service and one for its log service; the flag `sigterm`; the log pipe; the files of `supervise/`; its children | start, reap, one byte of each control fifo a round, TERM, exit | one program of a service at a time; `./finish` after each `./run`; no death missed; every signal goes to the right process; nothing left behind at the exit |
| `runsvdir` (`$R/runsvdir.c`) | the table `sv` of device, inode, pid, isgone; the recorded modification time, `check`, `exitsoon` | collect, scan, end the removed, TERM, HUP | every subdirectory has a runsv, nothing else has one that was not told to end |
| `runit` (`$R/runit.c`) | the stage, the pid of its program, `sigc`, `sigi` | fork a stage, poll, reap, look at signals, stop stage 2, reboot or halt | one stage at a time; requests honoured; children of the whole system waited for |
| `runit-init` (`$R/runit-init.c`) | the files `stopit` and `reboot` | halt, reboot | the system does what was asked |
| `sv` (`$R/sv.c`) | per service: action, start of the wait, status read | control, check, the loop with timeout, force | reports what happened; its command is not lost |
| `svlogd` (`$R/svlogd.c`) | per log directory: current file, size, rotation, processor, state file | read, write, rotate, run the processor, recover, HUP/ALRM/TERM | no line lost or written twice over a rotation and a restart |
| `svwaitup`, `svwaitdown`, `runsvctrl`, `runsvstat`, `runsvchdir`, `chpst`, `utmpset` | none that outlives them | one pass | |

The parts meet in the service directory. `runsvdir` forks a `runsv` per
subdirectory, and knows of it only its pid and its death; `runsv` excludes a
second one by the lock `supervise/lock`. Clients write bytes to the fifo
`supervise/control` and read `supervise/status`; nothing answers them.
`runit-init` talks to `runit` by the modes of two files and a CONT.

### s6

| part | state | operations | correct when |
|---|---|---|---|
| `s6-supervise` (`$S/supervision/s6-supervise.c`) | one of five states, `deadline`, the struct `status`, `cont` | a table of actions: state by (timeout, signal, control byte) | as runsv; and its status file and events agree with what happens |
| `s6-svscan` (`$S/supervision/s6-svscan.c`) | the array `services` (two pids, pipe, flags, restart times), `wantreap`, `wantscan`, `wantkill`, `cont` | scan, reap, kill, control bytes, signals | a supervisor per directory; the pipe of a pair closed as soon as one side ends, and not reused |
| `s6-svc`, `s6-svstat`, `s6-svok`, `s6-svscanctl`, `s6-svwait` | | write a byte, read the status, wait for events | `s6-svwait` misses no transition |
| `libftrig`, `s6-ftrigrd` | fifodirs; the daemon's list of subscriptions with a DFA state each | subscribe, notify, update, unsubscribe | a subscribed client is told of each matching event once |
| `libs6lock`, `s6lockd` | the list of requests with helper pid and deadline | acquire, release, timeout | who believes to hold a lock holds it |
| `s6-log` | scripts, log directories | read, select, rotate, recover | as svlogd |

### cinit

| part | state | operations | correct when |
|---|---|---|---|
| service tree (`$C/svc`) | the list of services with status, pid, needs, wants, needed_by | create, start, status changed, disable, stop dependants, pending | a service starts after its needs, stops before them |
| core (`$C/core`) | `svc_exited`, the pending list | signals, main loop, reboot | no ended child is forgotten |
| communication (`$C/comm`, `$C/ipc`, `$C/libcinit`, `$C/client`) | a queue | one request, one answer | each request is answered by its own answer |

Not C of the repository's own, or without a state machine: perp and the other
s6 packages (archives and installed files), sv-tools and `safe-boot` (shell).

### What is hard here

* Interleaving: each supervisor is a loop against children that die, signals
  and control bytes that come at any time.
* Stale copies: pids kept after a wait, status files read by others, a recorded
  modification time.
* Failure: fork, stat, opendir and readdir that fail once, in code that resets
  its reason to look again.
* Order: bytes in a fifo, the end of a service and of its logger, files that
  must be in place before a signal.
* Liveness: a service wanted up must come up again, a supervisor told to exit
  must exit, whatever came in between.

* Crashes: a logger that is killed between a link and an unlink, a daemon that
  leaves helpers, fifos and locks behind.
* Two answers for one question: a lock that is granted as it times out, an id
  that is given back and used again, an answer addressed to the wrong client.

`PROJECT.json` lists these hazards line by line, with the properties that stand
for each, or why there is none.

## Modules

| module | models | kind |
|---|---|---|
| `Lifecycle` | what a supervisor promises about one service | abstract specification |
| `Runsv`, `RunitProofs` | `runsv.c` | component, its refinement of `Lifecycle` |
| `Runsvdir`, `RunitProofs` | `runsvdir.c`, with runsv processes reduced to the lock they hold | component |
| `Runit`, `RunitProofs` | `runit.c` and `runit-init.c` composed | component |
| `Svlogd`, `SvlogdProofs` | `svlogd.c`, one log directory and its processors | component |
| `S6Supervise` | `s6-supervise.c`, the status file, `ftrigw_notify` | component, its refinement of `Lifecycle` |
| `S6Svwait`, `S6Proofs` | `s6-svwait.c` and `ftrigr_check.c`, composed with `S6Supervise` | composition |
| `S6Svscan`, `S6SvscanProofs` | `s6-svscan.c`, with the supervisors as processes | component |
| `S6Log`, `S6LogProofs` | `s6-log.c`, one logdir and its processor | component |
| `Ftrig`, `FtrigProofs` | writers, `s6-ftrigrd` and its client over one fifodir | composition |
| `S6lock`, `S6lockProofs` | a client of `libs6lock`, `s6lockd`, its helpers and the locks | composition |
| `Cinit` | cinit's service tree, main loop and shutdown | component |
| `CinitCmd`, `CinitProofs` | the message queues and the clients, composed with `Cinit` | composition |
| `MC...` | one for each run's specification: constants and symmetries for TLC | |

Conventions. Each program's loop is cut where the program looks at the world
again (a system call whose answer others influence); between two cuts nothing
another process does can be seen. The variable `pc` says at which cut the loop
is. Operators carry the names of the C functions and fields. A `...Proofs` module has the
theorems about the component of its row: `S6Proofs` and `CinitProofs` about both
modules of the composition, `RunitProofs` about the three programs of runit, for which
names that two of them would have differ (`DirNext`, `StagesNext`, `dirpc`,
`runitpc`, and so on). An operator whose
comment begins with *Slip:* is not the code: it is a mistake somebody could
make in the definition that follows it, kept beside it to show that the
properties notice it.

#### S6Svscan

| code | module |
|---|---|
| `services[0 .. n-1]` | `services`, a sequence of `Svinfo`; `services[i] = services[--n]` is `Removed` |
| `p[0]`, with -1 and -2 | `pipe` |
| `restartafter`, `deadline` | `future`, the time is to come; `nearer`, the deadline is before the next regular scan |
| `reap`, `scan`, `check`, `killthem`, `handle_signals`, `handle_control` | `Reap`, `ReapDone`; `Scan`, `NoScan`, `Check`, `ScanDone`; `KillThem`; `Signals`; `Control` |
| the last part of `main` | `Finish` |

The scan is one step per entry, in any order, and directories come and go between
two of them. Every `opendir`, `readdir`, `stat`, `pipe` and `fork` may fail within
`MaxFails`. A supervisor is a process with its directory, its role and the pipe it
was born with: that is what `SamePipe` compares. Left out: names (a directory is its
device and inode), the panic program, and what the finish program does.

### Ftrig

The pipes between the client and `s6-ftrigrd` are the sequences `req`, `acks` and
`async`, with the daemon's buffers `ackbuf` and `asyncbuf` before them. `a` is its
array; removing an entry moves the last one into its place (`Without`), in the
middle of the walk of `Scan`, which finds pollfds by the index they had when it
slept (`x`). `ftrig1_make` is three steps, for writers see the directory in between:
`MakeFifo`, `MakeOpen`, `MakeRename`. A writer scans the names there were when it
began and may find later ones. A regular expression is the set of words it stands
for. The client's table of ids is the `gensetdyn` of skalibs, which gives the id
that was freed last.

Left out: the deadlines of the calls, several fifodirs, `ftrigr_wait_and` and
`ftrigr_wait_or`, which loop over the functions that are here.

### S6lock

As `Ftrig`: the same pipes and the same kind of table. A helper is `waiting`,
`locked`, `told` or `dead`; `Served` says that `s6lockd` still holds the other end
of its input. `limit` is `none`, `armed` or `over`; `TimedOut` is only reached when
poll finds nothing, as in the code. Another program may lock the same files.
Requests that are not well formed, which the library never sends, are left out.

### Svlogd and S6Log

A byte of input is its number, so that a text is right when it counts upwards: a
lost, doubled or swapped byte shows. Both write, rotate, run a processor and clean
up in the steps the code makes, one system call that changes a file each, and both
may be killed between any two of them and started again on what is there. What was
in memory then is `lost`. `Svlogd` leaves out several directories, UDP, prefixes, time
stamps and the files `state` and `newstate`; `S6Log` the parsing of its script, several
actions, `status` files and alerts.

A processor of `Svlogd` ends in one of three ways: with all of its output and the status
0, with another status, or killed by a signal with any part of its output
(`ProcessorKilled`). The last is a success to `processorstop`, since the exit code of
such a death is 0 (svlogd.c:193, wait.h:12). `cut` has the bytes that such a processor
had not written: they go with its input, and `Kept` allows for them.

`now` of `S6Log` is `STAMP`, which `start` of a rotation takes anew, and `Name` what
`finish` makes of it: the stamp with the suffix `s` or `u`, as a number, since that is
the order of the names. The two calls of `finish` in `logdir_init` have one `STAMP`;
where both are for a `.u`, the second finds the name taken, its `link` fails, and
`finish` returns 0, which is no error to its caller (`FinishLink`, `Taken`). `current`
stays, and its size is taken for 0. That is right, which is not obvious: `previous` and
`current` are there at once only in a rotation, and until that is over nothing is
written to `current`, so that the one that stays is empty. A `link` that fails for
another reason, and an `unlink` that fails, are left out: a rotation goes on as if they
had succeeded. A `write` may be short (`Write(n)` for any part of `WriteLen`), and then
`current` may end within a line, whose rest is still to be written; `cut` has the last
byte of a `current` that SIGALRM has rotated then. `Line` is one line that
`skagetln_nofill` finds in what was read; `Trim` is what `logdir_trim` leaves, the
youngest files that together keep both limits (`Fits`).

### Cinit and CinitCmd

The directories `needs` and `wants` of a service are sets of links in `conf`, each with
a name and the service it leads to. The names can be freely chosen, so several may lead
to one service, which then is in the lists as often; links that cannot be followed,
which `check_add_deps` passes over, are not in the sets. `gen_svc_tree` is a recursion
over them, and `stack` is its stack; `dep` are the four lists of each service, `pending`
the circular list of `svc_tree_exec` from its pointer on. Where the code uses memory it
has freed (`deps_pending` in the main loop, `shutdown_services`), or reads a null
pointer (`svc_stop_deps` of a service without dependents), the module has the outcomes
as a choice, `dead` being a fault in process no 1. `waitpid`, the field
`svc_status_changed` looks at, is never written by the code, so every end is a success
in the module too.

`CinitCmd` adds the two queues: a question carries no sender, so `cinit_ipc_listen`
asks the kernel who wrote last (`lspid`) and addresses its answer there. The end of a
child interrupts cinit's wait for a message, and also that for room for an answer, which
is then lost (`ChildDies`, `dropped`). Left out:
the fifo and socket transports, which the build does not choose, mounts, `argv` and
environment files.

## Runs

Bounds are in the `.cfg` files. Every run has `CHECK_DEADLOCK FALSE`, since the
modelled programs exit, or run out of the bounded events.

| run | question | bounds |
|---|---|---|
| `runsv_log` | with a log service, without `k`, `p` and `c`: one instance, clean exit, no lost wake-up, the pipe open while used; `Runsv` implements `Lifecycle`; `UpRuns`, `ExitCompletes` | 3 pids, 3 commands or TERMs, `./finish` or not, control scripts that refrain or not |
| `runsv_kill` | with every command, no log service: pids are children, lost children were signalled | 4 pids, 4 commands |
| `runit_stages` | one stage at a time; requests honoured, and as they asked | a halt and a reboot at once, CONT and INT from others, every way for a stage to end that the code tells apart |
| `runsvdir` | slots, processes and directories in step; a directory that stays has a runsv again and again; the runsv of one that is gone is told to end | 2 names, 2 directories and a dangling link, 2 slots, 3 pids, any 1 call failing, 2 changes, HUP |
| `svlogd` | what was read is kept, files stay within size and number, the processor is retried | 8 bytes in 4 lines, lines of 2, files of 4, 3 old files, of which a full disk may take all, 1 signal, 1 restart after a kill or an exit, 1 processor that fails or is killed, 1 full disk |
| `s6_wait` | `S6Supervise` with `S6Svwait`: the right child and a true status file, `Lifecycle`, `UpRuns`; true answers and an end of the wait | 2 pids, 2 bytes or signals out of `p o d u`, TERM and HUP, 1 failing fork or exec, `-u` and `-d` |
| `s6_svscan` | one supervisor per directory and role, one pipe per pair, `-n` spares the active, what died is restarted | 2 directories, 1 with a log, 4 pids, 1 byte or signal of `n`, `t` and ALRM, 1 unasked death, 2 changes, 1 failing call |
| `s6_log` | what was read is kept in whole lines and within the number of files; what is to be written is | 6 bytes in 3 lines and one that does not end, 1 line deselected, files of 3, 2 archived, with and without processor, 1 signal, 1 restart, 1 failing processor, 2 failing calls or short writes |
| `ftrig` | listeners listen, events arrive, fifos are removed | 2 ids, 2 expressions, 2 bytes, 2 writers, fifos of 1 byte, 2 subscriptions, 2 notifications or cleanings, 1 failure, 1 kill |
| `s6lock` | client and daemon agree; a request with a limit is answered; all is free at the end | 2 ids, 1 file, shared and exclusive, 2 requests, 1 failure, 1 foreign lock, 1 kill |
| `cinit` | the tree is what the directories say; needs start first; all start; a question gets its own answer | every tree with a root and 2 services (root over both, either over the other, needs, wants, none, or one of them needed by two links; each once or respawned), 1 failure, 1 signal; 2 clients with 2 questions, and room for 1 message in a queue, where there is no dependency |

Why these are enough. In `Runsv` the shortest way to each disagreement below
takes two commands and two or three processes: a second instance needs an old
and a new one, and a third covers the log service or `./finish`. Three or four
commands are every pair in every order with one more around it. In `Runsvdir` two
slots are what the swap of a removed slot needs, and one more pid than slots is
needed for a runsv that finds the lock taken; the table is never too small for the
directories there. `Runit` has no bound but the number of requests. In `S6Supervise`
a child and one whose exec failed are all that can exist at once with one fault. The
bytes left out of `s6_wait` either act as one that is there or only forward a
signal, except `x`: it acts as HUP, but in one read with bytes after it. `MaxEvents`
keeps programs from ending while `s6-svwait` has not read the last event, so that
at most an end, a start and an exit are waiting for it.

In `S6Svscan` a logged and an unlogged directory are every kind of slot, and two
changes are a removal and a return, which the closed pipe is about; the bytes left
out end the program or do what a signal does that is there (with every byte and
every signal the same configuration holds too, and takes five minutes). The input of
the two loggers makes every file full at least once after a rotation that was
interrupted; a second kill adds one more file, which `Bounded` counts. Two calls of
`s6-log` that fail or write a part reach what takes two: a short write and another,
a short write before a kill, a recovery whose archive has its name taken. In `Ftrig` and
`S6lock` two entries are what removing one from the walked array needs, and one byte
of fifo is full with the first event. In `Cinit` three services are a need of a
need, a diamond without its fourth corner, and a cycle; one of two links to a service
is doubled in each place. With room for one message a queue is full with the answer of
one client while cinit has that of the other.

For the properties listed under Proofs the bounds do not matter: the theorems hold for
every value of the constants that the module's `ASSUME` allows.

### Disagreements

`s6lock_bug_stale` checks one sentence of the documentation, and TLC finds a
behaviour of the code that contradicts it: doc/libs6lock/index.html says of
`s6lock_check` "If the lock has been acquired, returns 1". A client that releases
a lock before it has read whether it was granted gives the id back
(s6lock_release.c:26); the next `s6lock_acquire` takes the same id, and
`s6lock_update` gives it the old answer, so that `s6lock_check` returns 1 for a
lock that is not held. Without the second request `s6lock_update` fails with
`EPROTO`. The passing run `s6lock` has a client that only releases what it knows to
hold.

Other disagreements that came up while the modules were written, each found by a
reading or by TLC on a variant of a configuration. Where a property would be
violated by one, its comment says what it leaves out.

* runsv: `k`, then `u` before the killed `./run` is waited for, starts a second
  instance, which runsv.c:282 says should never happen (`OneInstance` with `k`). `k`
  read in the round in which `./run` was waited for skips `./finish`, and with `x`
  makes runsv exit beside a running `./finish` (345). After `x` has made runsv close
  the log pipe, `u` makes it start a `./run` that dies at once, again and again (298,
  601), although runsv.8 says "If the service stops, restart it."
* runit: the test for a crash is behind a test of the exit code, which is 0 for a
  stage killed by a signal (175): a killed stage 1 is followed by stage 2, a killed
  stage 2 by stage 3, against runit.8:20-30. A CONT that comes with the end of
  stage 1 is acted on in stage 2, and one that comes while stage 2 keeps exiting
  111 never is (174).
* runsvdir: after a failing `opendir` a changed directory is not looked at again
  (86, 232), against runsvdir.8:41; a `fork` that fails is forgotten when a dangling
  link follows in the directory (96). `PresentRuns` and `RemovedEnds` leave both out.
* svlogd: `processorstop` looks at the exit code of a processor only (svlogd.c:193),
  which is 0 for one that died of a signal: what it had written replaces its input (206,
  211), and the rest is lost, although svlogd.8 says that the unprocessed file is deleted
  "If the processor finishes successfully", and that otherwise "the processor is started
  again". The run `svlogd` has such processors, and `Kept` leaves out just what they had
  not written; that the saved file is equal to the one deleted is violated as soon as
  one processor is killed. HUP forgets a processor that runs, and a second one works on
  the same file (431); TERM drops what was read and not yet a line (766); the limit of lines
  is unsigned and `buflen` may be as small (362). The `rename` of a processor's output is
  tried until it succeeds (206), which it never does when there is none: with N of 0 or 1
  a full disk takes it while the processor runs (333-348), and a processor killed early
  has not made it. The one of `newstate` (214), which is left out, is such a loop too.
  `Processed` leaves the first out.
* s6-supervise: `x` and `u` read together while the service is down start a
  `./run` that it leaves at once (419-433), although s6-supervise.html says "it
  waits for the service to go down one last time".
* s6-svwait: any pid in the status file is taken for that of `./run`
  (s6-svwait.c:79), and the end of `./finish` is no event: `-d` started then never
  exits. `-a` clears `FTRIGR_REPEAT` (42): after a first `d` the `u` that
  `s6-svwait -u -a` waits for is not heard, although s6-svwait.html calls `-a` the
  default. `WaitEnds` leaves out the first, the run the second.
* s6-svscan: with `-t0` a start that waits for its time is not woken for (239,
  445), so that a failed fork may last; `t` sets `killmode` but not `wantkill` (130);
  a service one of whose supervisors never ends after the other keeps its slot and a
  closed pipe. `Restarted` is checked with regular scans, and says the last.
* s6-log: a processor that fails is retried only when there is more to write
  (s6-log.html says it is retried); `finish` returns 0 when its `link` fails
  (321-335).
* s6lock.h:62-63 name `s6lock_aquire`, which does not exist. `s6lockd` sends TERM to
  helpers that may have been waited for (50, 104).
* cinit: a service that needs one to be started once waits for ever, for nothing looks
  at ended children before the main loop (svc_tree_exec.c:53); every end counts as a
  success (svc_status_changed.c:51); `deps_pending` is used after it was freed
  (cinit.c:101-109); `svc_stop_deps` reads a null pointer where nothing depends on a
  service (46-52), so that a shutdown faults; answers go to whoever wrote last, and one
  for which cinit waits for room is lost when a child ends (cinit_ipc_listen.c:63).
  `AllStarted`, `Answered` and `OwnAnswer` leave these out.

## Properties

Safety. `OneInstance`, `PidsAreChildren`, `NoSilentOrphan` and `ExitIsClean`
relate runsv's structs to the processes that really exist; `NoLostWakeup` is the
invariant of the self pipe; `NoBrokenPipe` relates the pipe to who writes to it.
`ImplementsLifecycle` is the refinement: the abstract phase is computed from the
processes, not from the struct, so that a struct out of step would show.
`OneStage` is the accounting of two places that wait for one child;
`RebootAsAsked` is what the order of runit-init's steps is for.
`SlotsAreServices` ties runsvdir's table to its children, also after a HUP, and
`ChildTrue` does the same for s6-supervise and its status file. `WaitTrue` and
`WaitEnds` are what a caller of s6-svwait relies on: when it exits the service was
as wanted at some time since it began, and if the service stays as wanted it exits.

`OnePerDirectory` and `SamePipe` are s6-svscan's table against its children, through
removals, returns and the reuse of pids; `NukeSpares` says whom `-n` may signal. `Kept`
and `Bounded` of the loggers speak of the directory at every step, so also of what a
kill leaves. In `Svlogd` `Kept` lets the oldest files go; that one only goes when there
are too many, or by a killed processor, is the action property `Excess`, which is
proved. `Kept` of `S6Log` has a file end within a line only where the rest of the line
was lost in memory after a short write, or SIGALRM came after one. `GuaranteedToListen`
is the sentence of libftrig's documentation, `NoEventLost` counts each event from the
writer to the client, and `NoLitter` each fifo. `InStep` is two properties: a lock the
client believes to hold is held (`HeldIsLocked`), and `s6lockd` keeps nothing for an id
that was given back (`NoLeak`). `TreeIsMirrored` and `NeedsFirst` are cinit's tree and
its order: the first counts entries, one on either side for each link. `OwnAnswer` is
the routing of answers to clients whose questions do not meet: where they do the code
sends them wrong, which it leaves out.

The modules' `TypeOK` say what the variables are. They are kept for readers and for
proofs: `Runsv`'s and that of `S6Supervise` with `S6Svwait` are theorems, the other
proofs state the types they need in their inductive invariants.

`OneInstance`, `ExitIsClean`, `NoBrokenPipe` and the refinement hold as long as
nobody sends `k`; `PidsAreChildren`, `NoSilentOrphan` and `StatusCurrent` (what the
status files may lag by) are what is left with it. `UpRuns` leaves out a runsv that has
closed the log pipe.

Liveness is checked under `FairSpec`.

* `Runsv`: the loop is never blocked for ever (`WF` of `Step`: iopause returns
  when there is something to read, and control scripts end), and the programs
  that must end do: those killed, told to terminate and not stopped, dead before
  their `execve`, `./finish`, and a logger at the end of its input. `./run` owes
  nothing. `IopauseTimeout` is not needed.
* `Runit`: the loop (poll has a timeout of 14 seconds), and a killed program
  dies. Stage programs owe nothing. `RequestHonoured` leaves out a stage 2 that
  exits 111 for ever.
* `S6Supervise`: the loop, whose deadlines come, and children that were killed, were
  told to terminate and are not stopped, or could not execute `./run`. `./run` and
  `./finish` owe nothing else. An s6-svwait that has subscribed goes on; it may
  never be started.
* `Runsvdir`: the loop, the clock, and runsvs that were told to end or have no
  lock.
* `S6Svscan`: the loop, whose deadlines come, and supervisors that were told to end.
* `Svlogd`, `S6Log`: the loop, the writer of the input (`Svlogd`), time, and
  processors, which end, well or not.
* `S6lock`: the loop of `s6lockd`, the helpers, limits that pass, a foreign lock that
  is given back. The client reads its answers, and calls `s6lock_update` when there
  is something to read: strongly fair, since its own calls to other functions come
  in between. Nothing says that it ever releases a lock.
* `Cinit`: cinit's own steps, and clients that read their answers.
* `Ftrig` has no liveness property.

## Proofs

The theorems are checked by tlapm to the last step. The constants are constrained by
the `ASSUME` of the component's module only, unless said: no step of a proof uses a
bound on the instance.

| module | theorem | property | further assumption |
|---|---|---|---|
| `S6Proofs` | `ChildSafe` | `ChildTrue` | |
| | `SuperviseTypes` | `TypeOK` | |
| | `SuperviseRefinesLifecycle` | `ImplementsLifecycle` | nobody writes `x` |
| | `WaitSafe` | `WaitTrue` | |
| `S6SvscanProofs` | `SvscanInvariant` | `SvscanInv`, its inductive invariant | |
| | `Supervised` | `OnePerDirectory` | |
| | `Piped` | `SamePipe` | |
| | `OnlySpares` | `NukeSpares` | |
| `RunitProofs` | the theorems about `Runsv` | see below | |
| | `SlotsSafe` | `SlotsAreServices` | |
| | `StagesInTurn` | `OneStage` | |
| | `RequestInvariant` | `RequestInv`, its inductive invariant | |
| | `AsAsked` | `RebootAsAsked` | |
| `FtrigProofs` | `FifosRemoved` | `NoLitter` | |
| | `Guaranteed` | `GuaranteedToListen` | |
| | `EventsArrive` | `NoEventLost` | |
| `S6lockProofs` | `InStepAlways` | `InStep` | the client only releases what it was told it holds |
| `CinitProofs` | `AnswersOwn` | `OwnAnswer` | |
| | `StartInvariant` | `StartInv`, its inductive invariant | |
| | `NeedsBegunFirst` | `NeedsFirst` | |
| | `TreeMirrored` | `TreeIsMirrored` | |
| `SvlogdProofs` | `DirectoryBounded` | `Bounded` | |
| | `LogKept` | `Kept` | |
| | `OnlyExcess` | `Excess` | |
| `S6LogProofs` | `LogdirBounded` | `Bounded`, a part of `Kept` | |
| | `NothingIsLost` | `NothingLost`, a part of `Kept` | the limit of the logdir is 0 or no less than that of a file |
| | `LogdirKept` | `Kept` | that, and no line longer than the tolerance |

The further assumptions are not for the sake of the proofs: without each of them there
are constants for which a behaviour violates the property. The runs that check these
properties have constants for which they hold.

### RunitProofs: runsv

| theorem | property | further assumption |
|---|---|---|
| `TypeCorrect` | `TypeOK` | |
| `PidsSafe` | `PidsAreChildren` | |
| `WakeupSafe` | `NoLostWakeup` | |
| `StatusSafe` | `StatusCurrent` | |
| `OrphansSignalled` | `NoSilentOrphan` | control scripts do not refrain |
| `LoneInstance` | `OneInstance` | nobody sends `k` |
| `CleanExit` | `ExitIsClean` | nobody sends `k` |
| `PipeKept` | `NoBrokenPipe` | nobody sends `k` |
| `RefinesLifecycle` | `ImplementsLifecycle` | nobody sends `k` |

The argument. A step changes processes in three ways only: it signals some
(`Signalled`), forks one (`StartService`), or waits for one (`Reap`); lemmas
state what each leaves alone. `CtrlForms` and `NextForms` bring every action
to one of these forms, so that the later proofs need not open `ctrl()` again.
`PidsAreChildren` is inductive with the types once `ReapFacts` says that the
reaped pid leaves the struct. `OneInstance` is not inductive alone: without `k`
a service in state down has no pid, which together with `PidsAreChildren`
gives that `StartService` never starts over an old process. `ExitIsClean` needs
in addition that a service wanting to exit and down has none of its processes,
and that the log service is waited for; that after the exit nothing changes is
`ExitedStays`. `PipeKept` needs that the pipe is only closed once the main
service is down for good, or has only children that fail before their `execve`.
The refinement maps steps through the set of processes of the main service,
which `OneInstance` makes a singleton at most, so that each fork and each wait
is one abstract step; it also needs that `state` names the program
(`PhaseIsFace`).

### S6Proofs

`ChildTrue` says what `sup.status.pid` is in a state that has a pid, but not which
states do. `SupInv` adds that (`PidOfState`), what the flag `finishing` is written from
(`FinishingTrue`), that a free pid has no program, and what a loop that was left with
`cont = 0` can still have running (`Leaving`: after `x` read with other bytes it is not
nothing). Every byte, signal and end comes to one of six forms (`Starts`, `Keeps`, and
so on), each with a lemma. The refinement reads the abstract phase from the processes;
`PhaseIsFace` says that the state names it. It needs that the loop is only left when
nothing runs (`QuitsIdle`), which is what `x` breaks: a `./run` started by bytes behind
it is left.

`WaitTrue` needs `DueTrue`, that an event still to be sent is true when it is sent, and
`WaitInv`: each event in the pipe was true at a moment since the subscription, so `seen`
has it. That the status file is true (`ChildTrue`) gives the first read.

### S6SvscanProofs

`TableInv` is the table as a table (`Tables`), one slot for a directory (`OneSlot`), the
pids in it (`PidsTrue`), the converse (`Remembered`) and the pipes (`PipesTrue`). The
last is the part that is needed and not said: a closed pipe is with a slot that has not
both of its supervisors, so that the new pipe of the return of a directory is never
beside an old one. The delicate step is `services[i] = services[--n]`, whose lemma says
that the slots keep their contents though not their places.

### RunitProofs: runsvdir

The properties' own parts, over tables that are tables, are inductive: `OneSlot`,
`PidsAreServices` and `NoForgotten` need each other, for a `runsv` that is waited for
is found in a slot by its pid. `HupTellsAll` follows from `NoForgotten` at the step that
leaves the loop.

### RunitProofs: runit and runit-init

`OneStage` is inductive as it stands. For `RebootAsAsked` nothing runit has heard is
believed without a cause: `HeardTrue` says that a CONT pending, read or acted on was
sent by a runit-init past its last step, unless others send signals (`strayed`), and
`FileTrue` that the file `reboot` is as one of those wrote it who are past it. Both are
about runit-inits that run at once and overtake each other.

### FtrigProofs

`NoLitter` needs that a fifo that has a name belongs to the entry that is being made, to
an entry of `a`, or to a `s6-ftrigrd` that was killed. Removing an entry moves the last
one into its place; `FifoInv` is over the entries as a set, so that it does not matter.

`ListenInv` is for `GuaranteedToListen`. Each entry of the array has a fifo of its own,
shown to writers and read (`Served`), also while the entries change places. Between the
client and the daemon there is one request at a time: it waits, or its answer is on its
way, and a good answer to a subscription says that there is an entry (`Asking`). After
that, what takes the entry away leaves a message that says so (`Listeners`).

`EventInv` is for `NoEventLost`. The ids that are free have no listener and are free
once (`Cells`), so nothing is owed to the subscription that takes one over. A fifo that
`poll()` reported has a byte, and an expression that one byte decides has no partial
match (`Reading`): every byte that is read is a message for the client or ends the
subscription. Then the events the client has not heard of are never more than what is on
the way to it: writers that have the fifo open, bytes in the fifo, and messages
(`Carried`). No step makes that less without the client hearing of one: a byte goes from
a writer to the fifo or from the fifo to a message, and `ftrigr_update` shifts the
messages it does not take, which an injection counts.

### S6lockProofs

Here the two sides of a session each have a table, and messages that say how one is
behind the other. `LockInv` says of the ids that the client will have when it has read
the first `n` messages on their way, `d`, that they agree with the entries of `s6lockd`
(`Agree(d, n)`): each entry is of an id for which the client waits, or that it has, and
what it was told of is a helper that had the lock (`EntriesTrue`); of one lock the
messages say that it is had, once, and then that it is lost (`MessagesTrue`); and who
waits or has has an entry, or a message of the end (`Had`). A step of `s6lockd` changes
the entries and adds a message; `s6lock_update` takes the messages one by one, and each
leaves the relation true, up to the first `n` for which that would fail, which there is
none: so the relation holds for all of them. The same `n` serves when `s6lock_update`
stops early. One request at a time (`Asking`), with the free ids free once (`Cells`),
gives that an id is not given to a new lock while a message for an old one may come.
That needs the client not to release a lock before it has been told that it has it:
`s6lock_bug_stale` is what happens otherwise.

### CinitProofs

The answers first. `Addressed` is `OwnAnswer` before the answer is there: as long as no
question overtook a `msgctl` (`mixed`), the last sender of the queue is the one of every
question in it, and the question and the answer that cinit has at hand are the same
client's.

The tree is read by a recursion over a directory that may have cycles. `TreeInv` says
of each frame of the stack which links it has still to enter (`Reads`), that no two
frames are for one service, and that a service without a frame has all of its entries
(`Entered`), counted by `Times` and `Holds`; `Mirrored` is that each is there as often
in both directions. When the
stack is empty, that is `TreeIsMirrored`; that services are all that the root reaches
uses that `Reached` is the least such set. `ExecInv` goes on from there: the list of
services to be started has each once, and all that have begun or failed are not in it
any more (`Begun`), so that what the head of the list looks at is what its needs are.

### SvlogdProofs

`LogInv` is for `Bounded`. A new file is named after the clock, later than all there
are, and a processor's output is saved under the name of its source; so the files that
count exceed the number only for the one that is new and for one that is there twice,
between the rename of the output and the removal of the source. That is where a kill
can leave one more. What is removed for want of space or by number is always the first
by name, and an output sorts before its source: so the source of a processor that runs
is never removed before its output, and what is removed is older than all that is left.

`KeepInv` is for `Kept`. It says where each byte that was read is (`StreamInv`: the
input is taken in order, through the buffer to `current`), that the output of a
processor has what its source has, or begins as it does with the rest in `cut`
(`CopyInv`), that texts rise, lie below each other in the order of their names, and are
equal where two files have one name (`TextInv`); and then that each byte is accounted
for (`KeptInv`): it is there, in memory, lost in a kill, cut by a killed processor,
deselected, or older than all there is. The last of these is kept by a removal only
because what is removed is the oldest, or is there a second time.

### S6LogProofs

A rotation and its recovery take the three files `current`, `previous` and `processed`
through many states, by link, unlink, rename and mode bits. `FilesInv` says which of
them there are in each state of the rotator and of the start, and what they have in
common: a finished `processed` is the text of `previous`; a file that is a link of an
archive is about to be unlinked. So at most two texts count, each as long as no archive
has it: that in rotation (`Mid`) and that of `current` (`Cur`). There is a lemma for each
action that says which files it leaves and what it does to the archive, to `Mid`, `Cur`
and to what is to be written: nothing, a rename, a new archive, a removal, a write, a
line that is taken, or the loss of what is in memory (`Effect`). What follows speaks of
these effects only. `StampInv` says when a name can be taken: the archives are older than
the stamp but for the one that the same rotation or recovery has just made.

`LogdirBounded` is a count over them (`CountInv`): the archive has a file more than it
may only while `finish` is between its `link` and its removal, or where that was
interrupted or failed. `NothingIsLost` needs that the texts rise and lie below each other
in the order of the time stamps, with `Mid` and `Cur` after them and what is to be
written last (`TextInv`), that between two reads no whole line is left in `indata`
(`InLine`), and then that each byte is accounted for (`KeptInv`). A removal keeps with
each file all that are younger, so what goes is older than what stays; that some file
stays, without which "older than all" would say nothing, needs a limit that the youngest
one keeps. `LogdirKept` adds where each text ends (`LinesInv`): at the end of a line, or
in `current` before the next byte that is to be written (`Continued`), which a kill makes
`lost`. A write that is not short ends a line, for there is room for a line of the
tolerance, or for its rest, in a file that is still written to (`RoomInv`).

### Only model-checked

* All liveness (`UpRuns`, `ExitCompletes`, `RequestHonoured`, `PresentRuns`,
  `RemovedEnds`, `WaitEnds`, `Restarted`, `Processed`, `Drained`, `Answered` and the
  like): tlapm has no rules for fairness and `ENABLED`.
* What recursion over data computes: `Reached` of `Cinit`, `handled` of `S6lock` and the
  sum of sizes in `Fits` are used in the proofs through the equations they satisfy, or
  one step of a fold, and never by an induction.

## Not modelled

* `sv`, `svwaitup`, `svwaitdown`, `runsvctrl`, `runsvstat`, `s6-svstat`, `s6-svok`:
  clients that write a byte or read the status file; what matters of them is the byte
  and the file, which the supervisors' modules have. `sv`'s wait would need time.
* runsv's three status files with failing writes, its second of pause, and the life
  after a SIGKILL of runsv.
* `chpst`, `utmpset`, the chain loaders of s6 and `ucspilogd`: straight-line
  programs that change their own process and execute another, or filter lines.
* the djb libraries of runit, and skalibs, of which only an archive is here: wrappers
  of system calls, modelled where they are used.
* the other transports of cinit, its `conf` scripts and `ddoc`.
* the upstream and the Finnix tree of runit, which are copies of the modelled one, and
  sv-tools, perp and `safe-boot`: shell, archives and installed files.

The copies of runit's sources are nearly half of the repository's lines of C, and
most of the rest is the programs above and headers; the modules stand for the
programs that keep state against others.

## Plan

Every safety invariant, every action property and every refinement that a passing run
checks is a theorem too. What is left:

* liveness, which stays with TLC. The steps that the arguments rest on (that what is
  armed stays armed, that a step leads on) could be proved as action properties;
* hazards without a property, with the reason in `PROJECT.json`. Most are
  disagreements of the code with its documentation, listed above;
* `sv` with its wait, and runsv's life after a SIGKILL, which need a model of time and
  of processes that outlive their parent.
