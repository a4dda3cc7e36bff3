------------------------------- MODULE S6Log --------------------------------
(***************************************************************************)
(* s6-log with one logdir. The lines that are read wait in out; a write    *)
(* goes to current, and when that is nearly full the rotator takes it      *)
(* through the states of rotstate_t: current becomes previous, a processor *)
(* may turn that into processed, and what results is archived, by link()   *)
(* and unlink(), under a time stamp. Unlike the wait for a processor, and  *)
(* the wait before a call that failed is tried again, none of this blocks. *)
(*                                                                         *)
(* The bytes of standard input are the numbers 1 .. N. state and newstate, *)
(* which only the processors read, are left out.                           *)
(***************************************************************************)
EXTENDS Naturals, Sequences, FiniteSets, SequencesExt

CONSTANTS
  N,             \* bound: the bytes that come
  NL,            \* those of them that are newlines
  Skip,          \* the lines, by their first byte, that the script deselects
  InSize,        \* BUFFER_INSIZE
  S, L, NArch, MaxDir,    \* s, tolerance, n and maxdirsize of the logdir
  Processors,    \* whether there is a processor: the cases that are looked at
  Block, Protect,         \* the options -b and -p
  Sigs,          \* the signals that are sent
  MaxSent,       \* bound: signals
  MaxStarts,     \* bound: how many times s6-log is started
  MaxFailed,     \* bound: processors that fail
  MaxFails       \* bound: calls that fail, and writes that are short

ASSUME S6LogAssumption ==
  /\ {N, InSize, S, L, NArch, MaxDir} \subseteq Nat /\ InSize > 0
  /\ 2 * L <= S /\ S > 0 /\ NArch >= 2
  /\ {MaxSent, MaxStarts, MaxFailed, MaxFails} \subseteq Nat
  /\ NL \subseteq 1 .. N /\ Skip \subseteq 1 .. N
  /\ Processors \subseteq BOOLEAN /\ {Block, Protect} \subseteq BOOLEAN
  /\ Sigs \subseteq {"TERM", "ALRM"}

VARIABLES
  processor,
  file,          \* current, previous and processed
  old,           \* the archived files
  rd, start,     \* the bytes 1 .. rd are read, those after start are in indata
  out, b, rstate,
  waiting,       \* deadline is to come: until a retry, or for ever
  flagexiting, last,      \* last_stdin is the handler
  pc, todo,      \* what poll() has found
  rok, rfail,    \* where the rotator returns
  fin, fret, ffail,       \* the argument of finish(), and where it returns
  proc,          \* the processor
  sigs, closed,  \* signals not yet read; the writer has closed the pipe
  now,           \* STAMP
  lost,          \* the bytes that were in memory when s6-log ended
  cut,           \* the last byte of current when SIGALRM has it rotated
  sent, starts, failed, fails

input == <<rd, start, out>>
ctl == <<flagexiting, last, todo>>
rets == <<rok, rfail, fin, fret, ffail>>
env == <<sigs, closed, sent>>
vars == <<processor, file, old, input, b, rstate, waiting, ctl, pc, rets, proc, env,
          now, lost, cut, starts, failed, fails>>

Names == {"current", "previous", "processed"}

\* link: the archive that is a second link to the file, or 0.
None == [on |-> FALSE, data |-> <<>>, x |-> FALSE, link |-> 0]
Empty == [on |-> TRUE, data |-> <<>>, x |-> FALSE, link |-> 0]
Archive(t, k, data) == [t |-> t, k |-> k, data |-> data]

Init ==
  /\ processor \in Processors
  /\ file = [n \in Names |-> None] /\ old = {}
  /\ rd = 0 /\ start = 0 /\ out = <<>> /\ b = 0
  /\ rstate = "WRITABLE" /\ waiting = "no"
  /\ flagexiting = FALSE /\ last = FALSE /\ todo = {}
  /\ pc = "init" /\ rok = "flush" /\ rfail = "stdin"
  /\ fin = <<"current", "u">> /\ fret = "open" /\ ffail = "killed"
  /\ proc = "none" /\ sigs = {} /\ closed = FALSE /\ now = 1 /\ lost = {} /\ cut = {}
  /\ sent = 0 /\ starts = 1 /\ failed = 0 /\ fails = 0

Fail == fails < MaxFails /\ fails' = fails + 1

\* What is written to a file is written to the archive it may be linked to.
SetData(name, data) ==
  /\ file' = [file EXCEPT ![name].on = TRUE, ![name].data = data]
  /\ old' = {IF f.t = file[name].link THEN [f EXCEPT !.data = data] ELSE f : f \in old}

-----------------------------------------------------------------------------
(* finish and logdir_trim                                                  *)

Younger(f, fs) == {g \in fs : g.t >= f.t}

Fits(fs) ==
  /\ Cardinality(fs) <= NArch
  /\ MaxDir = 0 \/ FoldSet(LAMBDA g, n : n + Len(g.data), 0, fs) <= MaxDir

\* The oldest go until both limits are kept.
Trim(fs) == {f \in fs : \E g \in fs : g.t <= f.t /\ Fits(Younger(g, fs))}

\* st_nlink is 1
Unlinked(f) == \A g \in old : g.t # f.link

CallFinish(name, k, ret, fail) ==
  fin' = <<name, k>> /\ fret' = ret /\ ffail' = fail /\ pc' = "link"

\* What timestamp_g() makes of STAMP, with the suffix: of two names with one stamp that
\* with .s comes first.
Name(k) == 2 * now + (IF k = "u" THEN 1 ELSE 0)

Taken(t) == \E g \in old : g.t = t

\* link() fails when there is such an archive already, as STAMP is not taken anew from
\* one finish() of logdir_init() to the next: finish() returns 0 then, and its callers
\* take that for success. Other failures of link() and unlink() are left out: with them
\* the next rotation overwrites the file.
FinishLink ==
  /\ pc = "link"
  /\ LET f == file[fin[1]]
         t == Name(fin[2]) IN
     \/ ~f.on /\ pc' = fret /\ UNCHANGED <<old, file>>
     \/ f.on /\ ~Unlinked(f) /\ pc' = "unlink" /\ UNCHANGED <<old, file>>
     \/ f.on /\ Unlinked(f) /\ Taken(t) /\ pc' = fret /\ UNCHANGED <<old, file>>
     \/ /\ f.on /\ Unlinked(f) /\ ~Taken(t) /\ pc' = "unlink"
        /\ old' = old \cup {Archive(t, fin[2], f.data)}
        /\ file' = [file EXCEPT ![fin[1]].link = t]
  /\ UNCHANGED <<processor, input, b, rstate, waiting, ctl, rets, proc, env, now, lost, cut,
                 starts, failed, fails>>

FinishUnlink ==
  /\ pc = "unlink" /\ pc' = "trim" /\ file' = [file EXCEPT ![fin[1]] = None]
  /\ UNCHANGED <<processor, old, input, b, rstate, waiting, ctl, rets, proc, env, now, lost,
                 cut, starts, failed, fails>>

FinishTrim ==
  /\ pc = "trim"
  /\ \/ pc' = fret /\ old' = Trim(old) /\ UNCHANGED fails
     \/ Fail /\ pc' = ffail /\ UNCHANGED old
  /\ UNCHANGED <<processor, file, input, b, rstate, waiting, ctl, rets, proc, env, now,
                 lost, cut, starts, failed>>

-----------------------------------------------------------------------------
(* logdir_init                                                             *)

\* Slip: complete as soon as it is there.
CompleteOn(f) == f.on

\* S_IXUSR
Complete(f) == f.on /\ f.x

\* A logdir that was not finalized: processed is complete if it is executable,
\* otherwise previous is what counts.
LogdirInit ==
  /\ pc = "init"
  /\ IF Complete(file["current"])
     THEN pc' = "opencurrent" /\ UNCHANGED <<file, fin, fret, ffail>>
     ELSE IF Complete(file["processed"])
     THEN /\ file' = [file EXCEPT !["previous"] = None]
          /\ CallFinish("processed", "s", "initcurrent", "killed")
     ELSE /\ file' = [file EXCEPT !["processed"] = None]
          /\ CallFinish("previous", "u", "initcurrent", "killed")
  /\ UNCHANGED <<processor, old, input, b, rstate, waiting, ctl, rok, rfail, proc, env, now,
                 lost, cut, starts, failed, fails>>

InitCurrent ==
  /\ pc = "initcurrent" /\ CallFinish("current", "u", "open", "killed")
  /\ UNCHANGED <<processor, file, old, input, b, rstate, waiting, ctl, rok, rfail, proc,
                 env, now, lost, cut, starts, failed, fails>>

\* A current that was to be archived and could not is taken for empty, as it is: after
\* previous, whose name it would have, there is nothing in it yet.
InitOpen ==
  /\ pc \in {"open", "opencurrent"} /\ pc' = "loop"
  /\ file' = [file EXCEPT !["current"].on = TRUE, !["current"].x = FALSE]
  /\ b' = IF pc = "opencurrent" THEN Len(file["current"].data) ELSE 0
  /\ UNCHANGED <<processor, old, input, rstate, waiting, ctl, rets, proc, env, now, lost,
                 cut, starts, failed, fails>>

-----------------------------------------------------------------------------
(* rotator                                                                 *)

CallRotator(r, ok, fail) ==
  rstate' = r /\ rok' = ok /\ rfail' = fail /\ pc' = "rotator"

Rotator(r) == pc = "rotator" /\ rstate = r
Then(r) == rstate' = r /\ UNCHANGED <<pc, waiting>>

\* fd_sync() of current, of newstate, and taia_now_g(); the rename of newstate.
RotatorQuiet ==
  /\ \/ Rotator("START") /\ Then("RENAME") /\ now' = now + 1
     \/ Rotator("SYNCNEWSTATE") /\ Then("UNLINKPREVIOUS") /\ now' = now + 1
     \/ Rotator("RENAMESTATE") /\ Then("FINISHPROCESSED") /\ UNCHANGED now
  /\ UNCHANGED <<processor, file, old, input, b, ctl, rets, proc, env, lost, cut, starts,
                 failed, fails>>

RotatorRename ==
  /\ Rotator("RENAME") /\ Then("NEWCURRENT")
  /\ file' = [file EXCEPT !["previous"] = file["current"], !["current"] = None]
  /\ UNCHANGED <<processor, old, input, b, ctl, rets, proc, env, now, lost, cut, starts,
                 failed, fails>>

RotatorNewcurrent ==
  /\ Rotator("NEWCURRENT") /\ Then("CHMODPREVIOUS")
  /\ file' = [file EXCEPT !["current"] = Empty] /\ b' = 0
  /\ UNCHANGED <<processor, old, input, ctl, rets, proc, env, now, lost, cut, starts,
                 failed, fails>>

RotatorChmodprevious ==
  /\ Rotator("CHMODPREVIOUS") /\ file["previous"].on
  /\ Then(IF processor THEN "RUNPROCESSOR" ELSE "FINISHPREVIOUS")
  /\ file' = [file EXCEPT !["previous"].x = TRUE]
  /\ UNCHANGED <<processor, old, input, b, ctl, rets, proc, env, now, lost, cut, starts,
                 failed, fails>>

RotatorFinish ==
  /\ \/ Rotator("FINISHPREVIOUS") /\ CallFinish("previous", "s", "finished", "unfinished")
     \/ Rotator("FINISHPROCESSED") /\ CallFinish("processed", "s", "finished", "unfinished")
  /\ UNCHANGED <<processor, file, old, input, b, rstate, waiting, ctl, rok, rfail, proc,
                 env, now, lost, cut, starts, failed, fails>>

\* Slip: the deadline, which the start of the processor took away, stays so.
RotatorFinishedLate ==
  /\ pc \in {"finished", "unfinished"}
  /\ IF pc = "finished" THEN rstate' = "WRITABLE" /\ pc' = rok /\ UNCHANGED waiting
     ELSE waiting' = "retry" /\ pc' = rfail /\ UNCHANGED rstate
  /\ UNCHANGED <<processor, file, old, input, b, ctl, rets, proc, env, now, lost, cut,
                 starts, failed, fails>>

RotatorFinished ==
  /\ pc \in {"finished", "unfinished"}
  /\ IF pc = "finished" THEN rstate' = "WRITABLE" /\ waiting' = "no" /\ pc' = rok
     ELSE waiting' = "retry" /\ pc' = rfail /\ UNCHANGED rstate
  /\ UNCHANGED <<processor, file, old, input, b, ctl, rets, proc, env, now, lost, cut,
                 starts, failed, fails>>

\* fork(); the child has opened its files, processed is emptied.
RotatorRun ==
  /\ Rotator("RUNPROCESSOR") /\ rstate' = "WAITPROCESSOR" /\ waiting' = "inf"
  /\ proc' = "run" /\ pc' = rfail /\ SetData("processed", <<>>)
  /\ UNCHANGED <<processor, input, b, ctl, rets, env, now, lost, cut, starts, failed,
                 fails>>

RotatorWait ==
  /\ Rotator("WAITPROCESSOR") /\ pc' = rfail
  /\ UNCHANGED <<processor, file, old, input, b, rstate, waiting, ctl, rets, proc, env, now,
                 lost, cut, starts, failed, fails>>

RotatorSyncprocessed ==
  /\ Rotator("SYNCPROCESSED") /\ Then("SYNCNEWSTATE")
  /\ file' = [file EXCEPT !["processed"].x = TRUE]
  /\ now' = now + 1
  /\ UNCHANGED <<processor, old, input, b, ctl, rets, proc, env, lost, cut, starts, failed,
                 fails>>

RotatorUnlinkprevious ==
  /\ Rotator("UNLINKPREVIOUS") /\ Then("RENAMESTATE")
  /\ file' = [file EXCEPT !["previous"] = None]
  /\ UNCHANGED <<processor, old, input, b, ctl, rets, proc, env, now, lost, cut, starts,
                 failed, fails>>

\* The call of the state fails, and is tried again when its time has come.
RotatorFail ==
  /\ pc = "rotator" /\ rstate \notin {"FINISHPREVIOUS", "FINISHPROCESSED", "WAITPROCESSOR"}
  /\ Fail
  /\ waiting' = "retry" /\ pc' = rfail
  /\ UNCHANGED <<processor, file, old, input, b, rstate, ctl, rets, proc, env, now, lost,
                 cut, starts, failed>>

Rotating ==
  \/ RotatorQuiet \/ RotatorRename \/ RotatorNewcurrent \/ RotatorChmodprevious
  \/ RotatorFinish \/ RotatorFinished \/ RotatorRun \/ RotatorWait
  \/ RotatorSyncprocessed \/ RotatorUnlinkprevious \/ RotatorFail
  \/ FinishLink \/ FinishUnlink \/ FinishTrim

-----------------------------------------------------------------------------
(* logdir_write                                                            *)

Newline(p) == p \in NL \cup {N + 1}

\* byte_rchr(): up to the last newline.
Cut(n) ==
  LET ends == {i \in 1 .. n : Newline(out[i])} IN
  IF n + b + L >= S /\ ends # {} THEN CHOOSE i \in ends : \A j \in ends : j <= i ELSE n

WriteLen == Cut(IF Len(out) + b >= S THEN S - b ELSE Len(out))

Nearly(n) == n + L >= S

\* fd_write() writes n bytes.
Write(n) ==
  /\ SetData("current", file["current"].data \o SubSeq(out, 1, n))
  /\ out' = SubSeq(out, n + 1, Len(out)) /\ b' = b + n
  /\ IF Nearly(b') /\ Newline(out[n]) THEN CallRotator("START", "flush", "flush")
     ELSE UNCHANGED <<pc, rstate, rok, rfail>>

\* bufalloc_flush(): logdir_write() until out is empty or it fails. When out is
\* empty already the rotator is not called. A write may be short.
Flush ==
  /\ pc = "flush"
  /\ \/ /\ out = <<>> /\ pc' = "stdin"
        /\ UNCHANGED <<file, old, out, b, rstate, waiting, rok, rfail, fails>>
     \/ /\ out # <<>> /\ (rstate # "WRITABLE" \/ b >= S)
        /\ CallRotator(IF rstate = "WRITABLE" THEN "START" ELSE rstate, "flush", "stdin")
        /\ UNCHANGED <<file, old, out, b, waiting, fails>>
     \/ /\ out # <<>> /\ rstate = "WRITABLE" /\ b < S /\ UNCHANGED waiting
        /\ \/ Write(WriteLen) /\ UNCHANGED fails
           \/ Fail /\ \E n \in 1 .. (WriteLen - 1) : Write(n)
     \/ /\ out # <<>> /\ rstate = "WRITABLE" /\ b < S /\ Fail
        /\ waiting' = "retry" /\ pc' = "stdin"
        /\ UNCHANGED <<file, old, out, b, rstate, rok, rfail>>
  /\ UNCHANGED <<processor, rd, start, ctl, fin, fret, ffail, proc, env, now, lost, cut,
                 starts, failed>>

-----------------------------------------------------------------------------
(* handle_signals                                                          *)

Signals ==
  /\ pc = "signals" /\ sigs = {} /\ proc \notin {"ok", "failed"}
  /\ pc' = IF "write" \in todo THEN "flush" ELSE "stdin"
  /\ UNCHANGED <<processor, file, old, input, b, rstate, waiting, ctl, rets, proc, env, now,
                 lost, cut, starts, failed, fails>>

Alarm ==
  /\ pc = "signals" /\ "ALRM" \in sigs /\ sigs' = sigs \ {"ALRM"}
  /\ IF rstate = "WRITABLE" /\ b > 0
     THEN /\ CallRotator("START", "signals", "signals")
          /\ cut' = cut \cup {Last(file["current"].data)}
     ELSE UNCHANGED <<rstate, rok, rfail, pc, cut>>
  /\ UNCHANGED <<processor, file, old, input, b, waiting, ctl, fin, fret, ffail, proc,
                 closed, sent, now, lost, starts, failed, fails>>

Term ==
  /\ pc = "signals" /\ "TERM" \in sigs /\ sigs' = sigs \ {"TERM"}
  /\ last' = (last \/ ~Protect)
  /\ flagexiting' = (flagexiting \/ (~Protect /\ start = rd))
  /\ UNCHANGED <<processor, file, old, input, b, rstate, waiting, todo, pc, rets, proc,
                 closed, sent, now, lost, cut, starts, failed, fails>>

ProcessorDied ==
  /\ pc = "signals" /\ proc \in {"ok", "failed"} /\ proc' = "none"
  /\ IF proc = "ok" THEN CallRotator("SYNCPROCESSED", "signals", "signals") /\ UNCHANGED waiting
     ELSE rstate' = "RUNPROCESSOR" /\ waiting' = "retry" /\ UNCHANGED <<pc, rok, rfail>>
  /\ UNCHANGED <<processor, file, old, input, b, ctl, fin, fret, ffail, env, now, lost, cut,
                 starts, failed, fails>>

HandleSignals == Signals \/ Alarm \/ Term \/ ProcessorDied

-----------------------------------------------------------------------------
(* Standard input                                                          *)

\* doit(), of the line that ends with the byte e
Selected(e) == IF start + 1 \in Skip THEN <<>> ELSE [k \in 1 .. (e - start) |-> start + k]

\* At the end of the input what is in indata stays there.
NormalStdin ==
  /\ pc = "stdin" /\ "read" \in todo /\ ~flagexiting /\ ~last
  /\ \/ \E k \in 1 .. InSize :
          /\ rd + k <= N /\ (closed => k = InSize \/ rd + k = N)
          /\ rd' = rd + k /\ pc' = "lines" /\ UNCHANGED flagexiting
     \/ rd = N /\ closed /\ flagexiting' = TRUE /\ pc' = "loop" /\ UNCHANGED rd
  /\ UNCHANGED <<processor, file, old, start, out, b, rstate, waiting, last, todo, rets,
                 proc, env, now, lost, cut, starts, failed, fails>>

\* skagetln_nofill(): one line after the other
Line ==
  /\ pc = "lines"
  /\ \/ /\ NL \cap (start + 1) .. rd = {} /\ pc' = "loop" /\ UNCHANGED <<start, out>>
     \/ \E e \in NL \cap (start + 1) .. rd :
          /\ NL \cap (start + 1) .. (e - 1) = {}
          /\ out' = out \o Selected(e) /\ start' = e /\ UNCHANGED pc
  /\ UNCHANGED <<processor, file, old, rd, b, rstate, waiting, ctl, rets, proc, env, now,
                 lost, cut, starts, failed, fails>>

\* One byte at a time, to the end of the line.
LastStdin ==
  /\ pc = "stdin" /\ "read" \in todo /\ ~flagexiting /\ last
  /\ \/ /\ rd < N /\ rd' = rd + 1
        /\ IF rd' \in NL
           THEN /\ out' = out \o Selected(rd') /\ start' = rd'
                /\ flagexiting' = TRUE /\ pc' = "loop"
           ELSE UNCHANGED <<start, out, flagexiting, pc>>
     \/ rd < N /\ ~closed /\ pc' = "loop" /\ UNCHANGED <<rd, start, out, flagexiting>>
     \/ /\ rd = N /\ closed /\ flagexiting' = TRUE /\ pc' = "loop" /\ UNCHANGED rd
        /\ out' = out \o IF start = rd THEN <<>> ELSE Selected(rd + 1)
        /\ start' = rd
  /\ UNCHANGED <<processor, file, old, b, rstate, waiting, last, todo, rets, proc, env, now,
                 lost, cut, starts, failed, fails>>

NoStdin ==
  /\ pc = "stdin" /\ ("read" \notin todo \/ flagexiting)
  /\ pc' = "loop"
  /\ UNCHANGED <<processor, file, old, input, b, rstate, waiting, ctl, rets, proc, env, now,
                 lost, cut, starts, failed, fails>>

-----------------------------------------------------------------------------
(* main                                                                    *)

Allflushed == out = <<>> /\ rstate = "WRITABLE"

\* iopause(). With the option -b there is no reading before all is written, unless
\* the writer has closed the pipe: POLLHUP comes unasked.
Ready ==
  {e \in {"signal", "write", "read"} :
     \/ e = "signal" /\ (sigs # {} \/ proc \in {"ok", "failed"})
     \/ e = "write" /\ ~Allflushed /\ waiting = "no"
     \/ e = "read" /\ ~flagexiting /\ (Allflushed \/ ~Block \/ closed)
                   /\ (rd < N \/ closed)}

\* Bytes that are to be read may be still to come.
Loop ==
  /\ pc = "loop"
  /\ IF flagexiting /\ Allflushed THEN pc' = "finalize" /\ UNCHANGED todo
     ELSE /\ \/ todo' = Ready
             \/ ~closed /\ todo' = Ready \ {"read"}
          /\ todo' # {}
          /\ pc' = IF "signal" \in todo' THEN "signals"
                   ELSE IF "write" \in todo' THEN "flush" ELSE "stdin"
  /\ UNCHANGED <<processor, file, old, input, b, rstate, waiting, flagexiting, last, rets,
                 proc, env, now, lost, cut, starts, failed, fails>>

InMemory == ToSet(out) \cup (start + 1) .. rd

Finalize ==
  /\ pc = "finalize"
  /\ \/ /\ pc' = "done" /\ lost' = lost \cup InMemory /\ UNCHANGED fails
        /\ file' = [file EXCEPT !["current"].x = TRUE]
     \/ Fail /\ UNCHANGED <<pc, file, lost>>
  /\ UNCHANGED <<processor, old, input, b, rstate, waiting, ctl, rets, proc, env, now, cut,
                 starts, failed>>

Step == \/ LogdirInit \/ InitCurrent \/ InitOpen \/ Rotating \/ Flush \/ HandleSignals
        \/ NormalStdin \/ Line \/ LastStdin \/ NoStdin \/ Loop \/ Finalize

-----------------------------------------------------------------------------
(* The others                                                              *)

\* The time of the retry comes.
Time ==
  /\ waiting = "retry" /\ waiting' = "no"
  /\ UNCHANGED <<processor, file, old, input, b, rstate, ctl, pc, rets, proc, env, now,
                 lost, cut, starts, failed, fails>>

\* The processor copies its input, or fails after a part of it.
Process ==
  /\ proc = "run"
  /\ \/ proc' = "ok" /\ SetData("processed", file["previous"].data) /\ UNCHANGED failed
     \/ /\ proc' = "failed" /\ failed < MaxFailed /\ failed' = failed + 1
        /\ UNCHANGED <<file, old>>
  /\ UNCHANGED <<processor, input, b, rstate, waiting, ctl, pc, rets, env, now, lost, cut,
                 starts, fails>>

\* A signal that comes at another time waits until then.
Send ==
  /\ pc = "loop" /\ sent < MaxSent /\ sent' = sent + 1
  /\ \E s \in Sigs : sigs' = sigs \cup {s}
  /\ UNCHANGED <<processor, file, old, input, b, rstate, waiting, ctl, pc, rets, proc,
                 closed, now, lost, cut, starts, failed, fails>>

Close ==
  /\ ~closed /\ closed' = TRUE
  /\ UNCHANGED <<processor, file, old, input, b, rstate, waiting, ctl, pc, rets, proc, sigs,
                 sent, now, lost, cut, starts, failed, fails>>

\* SIGKILL, or one of the fatal errors.
Kill ==
  /\ pc \notin {"done", "killed"} /\ starts < MaxStarts
  /\ pc' = "killed" /\ lost' = lost \cup InMemory
  /\ UNCHANGED <<processor, file, old, input, b, rstate, waiting, ctl, rets, proc, env, now,
                 cut, starts, failed, fails>>

\* It is started again on the same pipe and logdir. A processor that is still there
\* writes to files that are removed.
Restart ==
  /\ pc \in {"done", "killed"} /\ starts < MaxStarts /\ starts' = starts + 1
  /\ pc' = "init" /\ start' = rd /\ out' = <<>>
  /\ rstate' = "WRITABLE" /\ waiting' = "no" /\ flagexiting' = FALSE /\ last' = FALSE
  /\ todo' = {} /\ proc' = "none" /\ sigs' = {} /\ now' = now + 1
  /\ UNCHANGED <<processor, file, old, rd, b, rets, closed, lost, sent, cut, failed, fails>>

Next == Step \/ Time \/ Process \/ Send \/ Close \/ Kill \/ Restart

Spec == Init /\ [][Next]_vars

\* s6-log goes on, time too, a processor ends.
Fairness == WF_vars(Step) /\ WF_vars(Time) /\ WF_vars(Process)

FairSpec == Spec /\ Fairness

-----------------------------------------------------------------------------

\* The texts that the logdir holds: the archived files, then the one in rotation,
\* previous until it is removed, and current. One that is archived and not yet
\* removed counts once.
InRotation == IF file["previous"].on THEN file["previous"] ELSE file["processed"]
Texts ==
  old \cup {Archive(2 * now + 2, "rotation",
                    IF Unlinked(InRotation) THEN InRotation.data ELSE <<>>)}
      \cup {Archive(2 * now + 3, "current",
                    IF Unlinked(file["current"]) THEN file["current"].data ELSE <<>>)}
Written == UNION {ToSet(f.data) : f \in Texts}

Deselected(u) == \E s \in Skip : s <= u /\ NL \cap s .. (u - 1) = {}

\* The logdir holds what was read, in order and each byte once, but for what was in
\* memory when s6-log ended, the lines that are deselected, and the oldest files,
\* wherever a rotation was interrupted.
NothingLost ==
  /\ \A f \in Texts : \A i \in 2 .. Len(f.data) : f.data[i - 1] < f.data[i]
  /\ \A f, g \in Texts : f.t < g.t =>
       \A i \in DOMAIN f.data, j \in DOMAIN g.data : f.data[i] < g.data[j]
  /\ \A u \in 1 .. rd :
       \/ u \in Written \cup InMemory \cup lost \/ Deselected(u)
       \/ old # {} /\ \A v \in Written : u < v

\* A file may end within a line where the rest of it was lost in memory after a short
\* write, or where SIGALRM came after one.
Whole(d) ==
  d # <<>> => Newline(Last(d)) \/ Last(d) + 1 \in lost \/ Last(d) \in cut

\* Lines that are not longer than the tolerance are not cut but so, wherever a rotation
\* is interrupted: each file ends with the end of a line, or in current a line is
\* started of which the rest is the next that is written.
WholeLines ==
  /\ \A f \in old \cup {file["previous"]} : Whole(f.data)
  /\ LET d == file["current"].data IN
     Whole(d) \/ (out # <<>> /\ Head(out) = Last(d) + 1)

\* NArch archived files, one more while it is put there, and one for each time that
\* this is interrupted or fails; b is the size of current.
Bounded ==
  /\ Cardinality(old) <= NArch + starts + fails
  /\ pc = "flush" /\ rstate = "WRITABLE" => b = Len(file["current"].data)

\* The logdir is what s6-log.html promises, at every step of a rotation, of its
\* recovery and between a kill and the next start.
Kept == NothingLost /\ WholeLines /\ Bounded

\* What is to be written is written, whatever fails on the way.
Drained == out # <<>> ~> (out = <<>> \/ pc = "killed")

=============================================================================
