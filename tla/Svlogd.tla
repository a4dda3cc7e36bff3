------------------------------- MODULE Svlogd -------------------------------
(***************************************************************************)
(* svlogd with one log directory: it reads lines, appends them to current, *)
(* renames current when it is full, keeps the youngest old files, and has  *)
(* a processor work on each old file in the background.                    *)
(*                                                                         *)
(* The bytes of standard input are the numbers 1 .. N in their order, so   *)
(* that a text is right when it counts upwards. A file is old under the    *)
(* time it was renamed at, and has a kind: s for saved, u for unprocessed, *)
(* t for the output of a processor that has not finished.                  *)
(*                                                                         *)
(* Signals are blocked but for the wait for input, and HUP for the wait    *)
(* for a processor; svlogd may be killed between any two steps.            *)
(***************************************************************************)
EXTENDS Naturals, Sequences, FiniteSets, SequencesExt

CONSTANTS
  N,             \* bound: the bytes that come
  NL,            \* those of them that are newlines
  LineMax, BufLen, SizeMax, NMax, NMin,
  Skip,          \* the lines, by their first byte, that the patterns deselect
  Processor,     \* is there a processor?
  Sigs,          \* the signals that are sent; time is the timeout of current
  MaxSent,       \* bound: how many of them
  MaxStarts,     \* bound: how many times svlogd is started
  MaxFailed,     \* bound: processors that fail or are killed
  MaxFull        \* bound: writes that find the disk full

ASSUME SvlogdAssumption ==
  /\ {N, LineMax, SizeMax, NMax, NMin} \subseteq Nat
  /\ {MaxSent, MaxStarts, MaxFailed, MaxFull} \subseteq Nat
  /\ LineMax > 0 /\ BufLen \in Nat /\ BufLen > LineMax
  /\ NL \subseteq 1 .. N /\ Skip \subseteq 1 .. N
  /\ Processor \in BOOLEAN
  /\ Sigs \subseteq {"TERM", "ALRM", "HUP", "time"}

VARIABLES
  cur, old,      \* the directory: current, and the old files
  rd, linecomplete,  \* read() has returned the bytes 1 .. rd
  len,           \* how many it may return now
  at, start,     \* of which 1 .. at were taken, the line begins after start
  long,          \* the line is longer than LineMax, its beginning is in b
  b,             \* what waits to be written
  size, ppid, fnsave,     \* of struct logdir; ppid is the file processed
  exitasap, rotateasap, reopenasap,
  pc, ret, pret, wret,    \* where rotate, processorstop and the flush return
  sigs,          \* the pending signals
  procs,         \* the processors
  now,           \* the next time stamp
  lost,          \* the bytes that were in memory when svlogd ended
  cut,           \* the bytes that killed processors had not written
  sent, starts, failed, full

files == <<cur, old>>
input == <<rd, linecomplete, len, at, start, long>>
flags == <<exitasap, rotateasap, reopenasap>>
ldir == <<size, ppid, fnsave>>
bounds == <<sent, starts, failed, full>>
vars == <<files, input, b, ldir, flags, pc, ret, pret, wret, sigs, procs, now,
          lost, cut, bounds>>

None == [on |-> FALSE, data |-> <<>>, x |-> FALSE]
Empty == [on |-> TRUE, data |-> <<>>, x |-> FALSE]
Old(t, k, data) == [t |-> t, k |-> k, data |-> data]
Of(t, k) == {f \in old : f.t = t /\ f.k = k}

Init ==
  /\ cur = None /\ old = {}
  /\ rd = 0 /\ linecomplete = TRUE /\ len = BufLen /\ at = 0 /\ start = 0 /\ long = FALSE
  /\ b = <<>> /\ size = 0 /\ ppid = 0 /\ fnsave = 0
  /\ exitasap = FALSE /\ rotateasap = FALSE /\ reopenasap = FALSE
  /\ pc = "open" /\ ret = "getc" /\ pret = "rotate" /\ wret = "getc"
  /\ sigs = {} /\ procs = {} /\ now = 1 /\ lost = {} /\ cut = {}
  /\ sent = 0 /\ starts = 1 /\ failed = 0 /\ full = 0

-----------------------------------------------------------------------------
(* Old files                                                               *)

\* The order of the names.
Before(f, g) ==
  \/ f.t < g.t
  \/ f.t = g.t /\ <<f.k, g.k>> \in {<<"s", "t">>, <<"s", "u">>, <<"t", "u">>}
Oldest(fs) == CHOOSE f \in fs : \A g \in fs \ {f} : Before(f, g)

\* Slip: the youngest goes.
RmYoungest(fs) ==
  LET kept == {f \in fs : f.k # "t"} IN
  IF NMax > 0 /\ Cardinality(kept) > NMax
  THEN kept \ {CHOOSE f \in kept : \A g \in kept \ {f} : Before(g, f)} ELSE kept

RmOldest(fs) ==
  LET kept == {f \in fs : f.k # "t"} IN
  IF NMax > 0 /\ Cardinality(kept) > NMax THEN kept \ {Oldest(kept)} ELSE kept

-----------------------------------------------------------------------------
(* logdir_open                                                             *)

\* A current that was not closed is saved for itself; one that was is continued.
Open ==
  /\ pc = "open" /\ ppid' = 0
  /\ IF cur.data # <<>> /\ ~cur.x
     THEN /\ old' = old \cup {Old(now, "u", cur.data)} /\ cur' = None
          /\ fnsave' = now /\ now' = now + 1 /\ size' = 0 /\ pc' = "openoldest"
     ELSE /\ size' = Len(cur.data) /\ pc' = "opencurrent"
          /\ UNCHANGED <<files, fnsave, now>>
  /\ UNCHANGED <<input, b, flags, ret, pret, wret, sigs, procs, lost, cut, bounds>>

OpenOldest ==
  /\ pc = "openoldest" /\ pc' = "opencurrent"
  /\ old' = RmOldest(old)
  /\ UNCHANGED <<cur, input, b, ldir, flags, ret, pret, wret, sigs, procs, now, lost, cut, bounds>>

OpenCurrent ==
  /\ pc = "opencurrent" /\ pc' = ret
  /\ cur' = [on |-> TRUE, data |-> cur.data, x |-> FALSE]
  /\ UNCHANGED <<old, input, b, ldir, flags, ret, pret, wret, sigs, procs, now, lost, cut, bounds>>

-----------------------------------------------------------------------------
(* The processor                                                           *)

Started(t) == IF Processor THEN {[t |-> t, st |-> "new", kid |-> TRUE, in |-> <<>>]} ELSE {}

\* processorstop: wait_pid(). A processor is ok when wait_exitcode() is 0.
StopWait ==
  /\ pc = "stop"
  /\ \E p \in procs :
       /\ p.kid /\ p.t = ppid /\ p.st \in {"ok", "failed"}
       /\ procs' = procs \ {p} /\ pc' = IF p.st = "ok" THEN "stoprename" ELSE "stopfailed"
  /\ ppid' = 0
  /\ UNCHANGED <<files, input, b, size, fnsave, flags, ret, pret, wret, sigs, now, lost, cut, bounds>>

\* Slip: it is not started again.
StopFailedOnce ==
  /\ pc = "stopfailed" /\ pc' = pret
  /\ old' = old \ Of(fnsave, "t")
  /\ UNCHANGED <<cur, input, b, ldir, flags, ret, pret, wret, sigs, procs, now, lost, cut, bounds>>

StopFailed ==
  /\ pc = "stopfailed" /\ pc' = pret
  /\ old' = old \ Of(fnsave, "t")
  /\ procs' = procs \cup Started(fnsave)
  /\ ppid' = IF Processor THEN fnsave ELSE 0
  /\ UNCHANGED <<cur, input, b, size, fnsave, flags, ret, pret, wret, sigs, now, lost, cut, bounds>>

\* rename() of the output: svlogd tries until it succeeds, which it never does when
\* the processor was killed before it had created its output, or when the output
\* was the oldest file while the disk was full.
StopRename ==
  /\ pc = "stoprename" /\ pc' = "stopunlink"
  /\ \E f \in Of(fnsave, "t") : old' = (old \ {f}) \cup {Old(fnsave, "s", f.data)}
  /\ UNCHANGED <<cur, input, b, ldir, flags, ret, pret, wret, sigs, procs, now, lost, cut, bounds>>

StopUnlink ==
  /\ pc = "stopunlink" /\ pc' = pret
  /\ old' = old \ Of(fnsave, "u")
  /\ UNCHANGED <<cur, input, b, ldir, flags, ret, pret, wret, sigs, procs, now, lost, cut, bounds>>

-----------------------------------------------------------------------------
(* rotate                                                                  *)

Rotate ==
  /\ pc = "rotate"
  /\ IF ppid # 0
     THEN pc' = "stop" /\ pret' = "rotate" /\ UNCHANGED <<fnsave, now>>
     ELSE /\ fnsave' = now /\ now' = now + 1
          /\ pc' = IF size > 0 THEN "chmod" ELSE ret
          /\ UNCHANGED pret
  /\ UNCHANGED <<files, input, b, size, ppid, flags, ret, wret, sigs, procs, lost, cut, bounds>>

RotateChmod ==
  /\ pc = "chmod" /\ pc' = "rename"
  /\ cur' = [cur EXCEPT !.x = TRUE]
  /\ UNCHANGED <<old, input, b, ldir, flags, ret, pret, wret, sigs, procs, now, lost, cut, bounds>>

RotateRename ==
  /\ pc = "rename" /\ pc' = "create"
  /\ old' = old \cup {Old(fnsave, IF Processor THEN "u" ELSE "s", cur.data)}
  /\ cur' = None
  /\ UNCHANGED <<input, b, ldir, flags, ret, pret, wret, sigs, procs, now, lost, cut, bounds>>

RotateCreate ==
  /\ pc = "create" /\ pc' = "oldest"
  /\ cur' = Empty /\ size' = 0
  /\ UNCHANGED <<old, input, b, ppid, fnsave, flags, ret, pret, wret, sigs, procs, now, lost, cut, bounds>>

RotateOldest ==
  /\ pc = "oldest" /\ pc' = "startprocessor"
  /\ old' = RmOldest(old)
  /\ UNCHANGED <<cur, input, b, ldir, flags, ret, pret, wret, sigs, procs, now, lost, cut, bounds>>

RotateStart ==
  /\ pc = "startprocessor" /\ pc' = ret
  /\ procs' = procs \cup Started(fnsave)
  /\ ppid' = IF Processor THEN fnsave ELSE 0
  /\ UNCHANGED <<files, input, b, size, fnsave, flags, ret, pret, wret, sigs, now, lost, cut, bounds>>

Rotating == Rotate \/ RotateChmod \/ RotateRename \/ RotateCreate \/ RotateOldest \/ RotateStart
Stopping == StopWait \/ StopFailed \/ StopRename \/ StopUnlink

-----------------------------------------------------------------------------
(* buffer_pwrite                                                           *)

Upto(i, j) == [k \in 1 .. (j - i) |-> i + k]
Lower(i, j) == IF i < j THEN i ELSE j

\* The byte N+1 is the newline that ends a long last line.
Newline(p) == p \in NL \cup {N + 1}

\* The subtraction is of unsigned numbers.
NearlyFull(s) == SizeMax >= LineMax /\ s >= SizeMax - LineMax

\* Slip: as if SizeMax bytes had been free.
WriteLenAll == IF SizeMax > 0 THEN Lower(Len(b), SizeMax) ELSE Len(b)

WriteLen == IF SizeMax > 0 THEN Lower(Len(b), SizeMax - size) ELSE Len(b)

Write ==
  /\ pc = "write"
  /\ IF b = <<>> THEN pc' = wret /\ UNCHANGED <<cur, size, b, ret>>
     ELSE IF SizeMax > 0 /\ size >= SizeMax
     THEN pc' = "rotate" /\ ret' = "write" /\ UNCHANGED <<cur, size, b>>
     ELSE /\ cur' = [cur EXCEPT !.data = @ \o SubSeq(b, 1, WriteLen)]
          /\ size' = size + WriteLen
          /\ b' = SubSeq(b, WriteLen + 1, Len(b))
          /\ IF SizeMax > 0 /\ Newline(b[WriteLen]) /\ NearlyFull(size')
             THEN pc' = "rotate" /\ ret' = "write" ELSE UNCHANGED <<pc, ret>>
  /\ UNCHANGED <<old, input, ppid, fnsave, flags, pret, wret, sigs, procs, now, lost, cut, bounds>>

\* ENOSPC: more than NMin old files, those of a running processor counted too,
\* and the first of them is removed.
WriteFull ==
  /\ pc = "write" /\ b # <<>> /\ (SizeMax > 0 => size < SizeMax)
  /\ full < MaxFull /\ full' = full + 1
  /\ old' = IF NMin < NMax /\ Cardinality(old) > NMin THEN old \ {Oldest(old)} ELSE old
  /\ UNCHANGED <<cur, input, b, ldir, flags, pc, ret, pret, wret, sigs, procs, now, lost, cut,
                 sent, starts, failed>>

-----------------------------------------------------------------------------
(* main, buffer_pread and the handlers                                     *)

InMemory == ToSet(b) \cup (at + 1) .. rd \cup IF long THEN {} ELSE (start + 1) .. at

Put(bytes) == b' = b \o IF start + 1 \in Skip THEN <<>> ELSE bytes

\* The flush at the end of a line, or before more is read.
Flush(back) == pc' = "write" /\ wret' = back

\* The first loop: up to a newline or LineMax bytes. With exitasap the line that
\* empties the data buffer is not written any more.
Line ==
  /\ pc = "getc"
  /\ LET ends == {p \in (at + 1) .. rd : p \in NL \/ p = start + LineMax}
         e == CHOOSE p \in ends : \A q \in ends : p <= q
     IN IF ends = {}
        THEN at' = rd /\ Flush("pread") /\ UNCHANGED <<start, long, b, lost>>
        ELSE /\ at' = e
             /\ IF exitasap /\ e = rd
                THEN /\ pc' = "exit" /\ lost' = lost \cup (start + 1) .. e
                     /\ start' = e /\ UNCHANGED <<long, b, wret>>
                ELSE /\ Put(Upto(start, e)) /\ UNCHANGED lost
                     /\ IF e \in NL THEN start' = e /\ Flush("getc") /\ UNCHANGED long
                        ELSE long' = TRUE /\ pc' = "rest" /\ UNCHANGED <<start, wret>>
  /\ UNCHANGED <<files, rd, linecomplete, len, ldir, flags, ret, pret, sigs, procs, now, cut, bounds>>

\* The second loop: the rest of a long line.
Rest ==
  /\ pc = "rest"
  /\ LET ends == NL \cap (at + 1) .. rd
         e == CHOOSE p \in ends : \A q \in ends : p <= q
     IN IF ends = {}
        THEN /\ Put(Upto(at, rd)) /\ at' = rd
             /\ Flush("pread") /\ UNCHANGED <<start, long>>
        ELSE /\ Put(Upto(at, e)) /\ at' = e
             /\ start' = e /\ long' = FALSE /\ Flush("getc")
  /\ UNCHANGED <<files, rd, linecomplete, len, ldir, flags, ret, pret, sigs, procs, now, lost, cut, bounds>>

\* buffer_pread returns 0: a short line without its newline is dropped, a long
\* one gets a newline.
Eof ==
  /\ exitasap' = TRUE
  /\ IF long
     THEN /\ Put(<<N + 1>>) /\ start' = at /\ long' = FALSE /\ Flush("getc") /\ UNCHANGED lost
     ELSE /\ pc' = "exit" /\ lost' = lost \cup (start + 1) .. at /\ start' = at
          /\ UNCHANGED <<long, b, wret>>

Pread ==
  /\ pc = "pread" /\ len' = (IF exitasap THEN 1 ELSE BufLen)
  /\ \/ /\ rotateasap /\ rotateasap' = FALSE /\ pc' = "rotate" /\ ret' = "pread"
        /\ UNCHANGED <<cur, start, long, b, exitasap, reopenasap, wret, sigs, lost>>
     \/ /\ ~rotateasap /\ exitasap /\ linecomplete
        /\ Eof /\ UNCHANGED <<cur, rotateasap, reopenasap, ret, sigs>>
     \/ /\ ~rotateasap /\ ~(exitasap /\ linecomplete) /\ reopenasap
        /\ reopenasap' = FALSE /\ pc' = "open" /\ ret' = "pread"
        /\ cur' = [cur EXCEPT !.x = TRUE]
        /\ UNCHANGED <<start, long, b, exitasap, rotateasap, wret, sigs, lost>>
     \/ /\ ~rotateasap /\ ~(exitasap /\ linecomplete) /\ ~reopenasap
        /\ sigs' = sigs \ {"time"}
        /\ IF "time" \in sigs THEN pc' = "rotate" /\ ret' = "pause"
           ELSE pc' = "pause" /\ UNCHANGED ret
        /\ UNCHANGED <<cur, start, long, b, flags, wret, lost>>
  /\ UNCHANGED <<old, rd, linecomplete, at, ldir, pret, procs, now, cut, bounds>>

Zombies == {p \in procs : p.kid /\ p.st \in {"ok", "failed"}}

Raised(s) ==
  /\ sigs' = sigs \ {s}
  /\ exitasap' = (exitasap \/ s = "TERM")
  /\ rotateasap' = (rotateasap \/ s = "ALRM")
  /\ reopenasap' = (reopenasap \/ s = "HUP")

Handle ==
  /\ \E s \in sigs \ {"time"} : Raised(s) /\ (pc = "pause" \/ (pc = "stop" /\ s = "HUP"))
  /\ UNCHANGED <<files, input, b, ldir, pc, ret, pret, wret, procs, now, lost, cut, bounds>>

\* sig_child_handler
HandleChild ==
  /\ pc = "pause"
  /\ \E p \in Zombies :
       /\ procs' = procs \ {p}
       /\ IF p.t = ppid
          THEN /\ ppid' = 0 /\ pret' = "pause"
               /\ pc' = IF p.st = "ok" THEN "stoprename" ELSE "stopfailed"
          ELSE UNCHANGED <<ppid, pret, pc>>
  /\ UNCHANGED <<files, input, b, size, fnsave, flags, ret, wret, sigs, now, lost, cut, bounds>>

\* read() after the wait: some bytes, none yet, or the end of the input.
Read ==
  /\ pc = "pause" /\ sigs \subseteq {"time"} /\ Zombies = {}
  /\ \/ \E k \in 1 .. len :
          /\ rd + k <= N /\ rd' = rd + k /\ linecomplete' = (rd' \in NL)
          /\ pc' = IF long THEN "rest" ELSE "getc"
          /\ UNCHANGED <<start, long, b, exitasap, wret, lost>>
     \/ /\ rotateasap \/ reopenasap \/ "time" \in sigs \/ (exitasap /\ linecomplete)
        /\ pc' = "pread"
        /\ UNCHANGED <<rd, linecomplete, start, long, b, exitasap, wret, lost>>
     \/ rd = N /\ Eof /\ UNCHANGED <<rd, linecomplete>>
  /\ UNCHANGED <<files, len, at, ldir, rotateasap, reopenasap, ret, pret, sigs, procs, now, cut, bounds>>

Exit ==
  /\ pc = "exit"
  /\ IF ppid # 0 THEN pc' = "stop" /\ pret' = "exit" /\ UNCHANGED cur
     ELSE pc' = "done" /\ cur' = [cur EXCEPT !.x = TRUE] /\ UNCHANGED pret
  /\ UNCHANGED <<old, input, b, ldir, flags, ret, wret, sigs, procs, now, lost, cut, bounds>>

Step == \/ Open \/ OpenOldest \/ OpenCurrent \/ Stopping \/ Rotating \/ Write
        \/ Line \/ Rest \/ Pread \/ Handle \/ HandleChild \/ Exit

-----------------------------------------------------------------------------
(* The others                                                              *)

\* The child opens its files; one that cannot open its input fails.
ProcessorOpen(p) ==
  /\ p.st = "new"
  /\ IF Of(p.t, "u") = {}
     THEN procs' = (procs \ {p}) \cup {[p EXCEPT !.st = "failed"]} /\ UNCHANGED old
     ELSE \E f \in Of(p.t, "u") :
            /\ procs' = (procs \ {p}) \cup {[p EXCEPT !.st = "run", !.in = f.data]}
            /\ old' = (old \ Of(p.t, "t")) \cup {Old(p.t, "t", <<>>)}
  /\ UNCHANGED <<cut, failed>>

\* It copies its input, all of it or a part before it fails: it then exits with
\* another status than 0.
ProcessorEnd(p) ==
  /\ p.st = "run" /\ UNCHANGED cut
  /\ \/ /\ procs' = (procs \ {p}) \cup {[p EXCEPT !.st = "ok"]}
        /\ old' = {IF f \in Of(p.t, "t") THEN Old(p.t, "t", p.in) ELSE f : f \in old}
        /\ UNCHANGED failed
     \/ /\ failed < MaxFailed /\ failed' = failed + 1
        /\ procs' = (procs \ {p}) \cup {[p EXCEPT !.st = "failed"]} /\ UNCHANGED old

\* A signal kills it, with a part of its output written: wait_exitcode() is 0 then.
ProcessorKilled(p) ==
  /\ p.st \in {"new", "run"} /\ failed < MaxFailed /\ failed' = failed + 1
  /\ procs' = (procs \ {p}) \cup {[p EXCEPT !.st = "ok"]}
  /\ \E k \in 0 .. Len(p.in) :
       /\ old' = {IF f \in Of(p.t, "t") THEN Old(p.t, "t", SubSeq(p.in, 1, k)) ELSE f : f \in old}
       /\ cut' = cut \cup {p.in[i] : i \in (k + 1) .. Len(p.in)}

Process ==
  /\ \E p \in procs : ProcessorOpen(p) \/ ProcessorEnd(p) \/ ProcessorKilled(p)
  /\ UNCHANGED <<cur, input, b, ldir, flags, pc, ret, pret, wret, sigs, now, lost, sent, starts, full>>

\* A signal that comes at another time waits until then.
Send ==
  /\ pc \in {"pause", "stop"} /\ sent < MaxSent /\ sent' = sent + 1
  /\ \E s \in Sigs : sigs' = sigs \cup {s}
  /\ UNCHANGED <<files, input, b, ldir, flags, pc, ret, pret, wret, procs, now, lost, cut,
                 starts, failed, full>>

\* SIGKILL, or one of the fatal errors.
Kill ==
  /\ pc \notin {"done", "killed"} /\ starts < MaxStarts
  /\ pc' = "killed" /\ lost' = lost \cup InMemory
  /\ UNCHANGED <<files, input, b, ldir, flags, ret, pret, wret, sigs, procs, now, cut, bounds>>

\* runsv starts it again, on the same pipe and directory.
Restart ==
  /\ pc \in {"done", "killed"} /\ starts < MaxStarts /\ starts' = starts + 1
  /\ pc' = "open" /\ ret' = "getc" /\ b' = <<>>
  /\ at' = rd /\ start' = rd /\ linecomplete' = TRUE /\ long' = FALSE
  /\ exitasap' = FALSE /\ rotateasap' = FALSE /\ reopenasap' = FALSE
  /\ sigs' = {} /\ ppid' = 0 /\ procs' = {[p EXCEPT !.kid = FALSE] : p \in procs}
  /\ UNCHANGED <<files, rd, len, size, fnsave, pret, wret, now, lost, cut, sent, failed, full>>

Next == Step \/ Read \/ WriteFull \/ Process \/ Send \/ Kill \/ Restart

Spec == Init /\ [][Next]_vars

\* svlogd goes on, what writes to it ends its lines, and a processor ends.
Fairness == WF_vars(Step) /\ WF_vars(Read) /\ WF_vars(Process)

FairSpec == Spec /\ Fairness

-----------------------------------------------------------------------------

\* The texts that the directory holds, current being the last; a file that is
\* saved and still there unprocessed counts once.
Texts == {f \in old : f.k = "s" \/ (f.k = "u" /\ Of(f.t, "s") = {})}
           \cup {Old(now, "current", cur.data)}
Written == UNION {ToSet(f.data) : f \in Texts}

\* The byte belongs to a line that is not to be written.
Deselected(u) == \E s \in Skip : s <= u /\ NL \cap s .. (u - 1) = {}

\* The log is what was read, in order and each byte once, whenever svlogd is killed,
\* but for what was in memory when svlogd ended, the lines that are deselected, the
\* oldest files, and what a killed processor had not written.
Kept ==
  /\ \A f \in Texts : \A i \in 2 .. Len(f.data) : f.data[i - 1] < f.data[i]
  /\ \A f, g \in Texts : f.t < g.t =>
       \A i \in DOMAIN f.data, j \in DOMAIN g.data : f.data[i] < g.data[j]
  /\ \A u \in 1 .. rd :
       \/ u \in Written \cup InMemory \cup lost \cup cut \/ Deselected(u)
       \/ \A v \in Written : u < v

\* No file is larger than SizeMax, and svlogd knows the size of current; there are
\* NMax old files, one that is new or saved twice, and one for each time svlogd
\* was killed in the middle, which is one less than starts: only one is removed
\* in a rotation.
Bounded ==
  /\ \A f \in old \cup {cur} : SizeMax > 0 => Len(f.data) <= SizeMax
  /\ pc \in {"write", "getc", "pread", "pause"} => size = Len(cur.data)
  /\ NMax > 0 => Cardinality({f \in old : f.k # "t"}) <= NMax + starts

\* svlogd.8: the processor is started again until it finishes successfully, then
\* the file is saved and the unprocessed one deleted: unless svlogd is killed, a HUP
\* makes it forget the processor, a full disk takes the input, so that each processor
\* fails, or there is no output, so that rename() fails for ever.
Processed ==
  ppid # 0 ~> \/ pc \in {"stopunlink", "open", "killed"} \/ Of(fnsave, "u") = {}
              \/ pc = "stoprename" /\ Of(fnsave, "t") = {}

=============================================================================
