---------------------------- MODULE S6LogProofs ----------------------------
(***************************************************************************)
(* The logdir of s6-log keeps its number of files and holds what was read, *)
(* in whole lines, for every size and number of files, every input, every  *)
(* choice of the bounds on signals, starts and failures.                   *)
(*                                                                         *)
(* The files go through many states, but of the three that are not         *)
(* archived at most two count: the text in rotation, Mid, and that of      *)
(* current, Cur, each as long as it has no link in the archive. Once it is *)
(* known which files there are in which state, every step is one of seven  *)
(* things that can happen to the archive, Mid, Cur and what is to be       *)
(* written.                                                                *)
(***************************************************************************)
EXTENDS S6Log, FiniteSetTheorems, SequenceTheorems, WellFoundedInduction, TLAPS

Current == file["current"]
Previous == file["previous"]
Processed == file["processed"]

-----------------------------------------------------------------------------
(* The inductive invariant: which files there are                          *)

Text == Seq(Nat)
AnyFile == [on : BOOLEAN, data : Text, x : BOOLEAN, link : Nat]
AnyArchive == [t : Nat \ {0}, k : {"s", "u"}, data : Text]

Runs == {"loop", "signals", "flush", "stdin", "lines", "rotator", "finished", "unfinished",
         "finalize"}
Calls == {"link", "unlink", "trim"}
Starts == {"init", "initcurrent", "open", "opencurrent"}

Early == {"WRITABLE", "START", "RENAME"}
Copied == {"SYNCPROCESSED", "SYNCNEWSTATE", "UNLINKPREVIOUS"}
Turned == {"RENAMESTATE", "FINISHPROCESSED"}
States == Early \cup Copied \cup Turned \cup
          {"NEWCURRENT", "CHMODPREVIOUS", "FINISHPREVIOUS", "RUNPROCESSOR", "WAITPROCESSOR"}

Types ==
  /\ {rd, start, b, now, starts, fails} \subseteq Nat /\ now > 0 /\ starts > 0
  /\ start <= rd /\ rd <= N /\ out \in Text
  /\ file \in [Names -> AnyFile] /\ old \subseteq AnyArchive /\ IsFiniteSet(old)
  /\ pc \in Runs \cup Calls \cup Starts \cup {"killed", "done"}
  /\ rstate \in States /\ proc \in {"none", "run", "ok", "failed"}
  /\ {rok, rfail} \subseteq {"flush", "stdin", "signals"}

\* s6-log is in its loop, or before it.
Running == pc \in Runs \/ (pc \in Calls /\ ffail = "unfinished")
Starting == pc \in Starts \/ (pc \in Calls /\ ffail = "killed")

Call(name, k, ret, fail) == fin = <<name, k>> /\ fret = ret /\ ffail = fail

Called ==
  \/ Call("previous", "s", "finished", "unfinished") /\ rstate = "FINISHPREVIOUS"
  \/ Call("processed", "s", "finished", "unfinished") /\ rstate = "FINISHPROCESSED"
  \/ Call("processed", "s", "initcurrent", "killed") /\ ~Previous.on
  \/ Call("previous", "u", "initcurrent", "killed") /\ ~Processed.on
  \/ Call("current", "u", "open", "killed") /\ ~Previous.on /\ ~Processed.on

Linked(n) == file[n].link # 0

Control ==
  /\ pc \in Calls => Called
  /\ pc = "unlink" => \A n \in Names : Linked(n) <=> n = fin[1]
  /\ pc = "trim" => ~file[fin[1]].on /\ \A n \in Names : ~Linked(n)
  /\ Starting => rstate = "WRITABLE" /\ out = <<>> /\ start = rd
  /\ proc # "none" => pc = "killed" \/ (Running /\ rstate = "WAITPROCESSOR")

\* Whatever is interrupted.
Shape ==
  /\ \A n \in Names : ~file[n].on => file[n].data = <<>> /\ ~file[n].x /\ ~Linked(n)
  /\ Current.x \/ Linked("current") => ~Previous.on /\ ~Processed.on
  /\ Previous.on \/ Processed.on => Current.data = <<>>
  /\ Current.x => ~Linked("current")
  /\ Linked("previous") => ~Processed.on
  /\ Linked("processed") => ~Previous.on
  /\ Processed.x /\ Previous.on => Processed.data = Previous.data
  /\ Processed.on /\ ~Processed.x => Previous.on
  /\ proc = "run" => Previous.on /\ ~Linked("previous") /\ ~Processed.x

StartShape ==
  /\ pc \in {"open", "initcurrent"} => ~Previous.on /\ ~Processed.on
  /\ pc = "open" => Current.data = <<>> /\ ~Linked("current")
  /\ pc = "opencurrent" => Current.x
  /\ Starting /\ pc \notin {"init", "opencurrent"} => ~Current.x

\* In the loop, for each state of the rotator.
RunShape ==
  /\ ~Current.x
  /\ \A n \in Names : Linked(n) => pc = "unlink"
  /\ rstate = "NEWCURRENT" => ~Current.on
  /\ rstate # "NEWCURRENT" => Current.on /\ b = Len(Current.data)
  /\ rstate \notin Early => Current.data = <<>>
  /\ Previous.on => rstate \notin Early \cup Turned
  /\ rstate \in {"NEWCURRENT", "CHMODPREVIOUS", "RUNPROCESSOR", "WAITPROCESSOR"} \cup Copied
       => Previous.on
  /\ Processed.on => rstate \in {"RUNPROCESSOR", "WAITPROCESSOR"} \cup Copied \cup Turned
  /\ Processed.x => rstate \in Copied \cup Turned
  /\ rstate \in Copied \/ proc = "ok" => Processed.on /\ Processed.data = Previous.data
  /\ rstate \in Copied \ {"SYNCPROCESSED"} => Processed.x
  /\ pc \in {"finished", "unfinished"} => rstate \in {"FINISHPREVIOUS", "FINISHPROCESSED"}
                                          /\ ~Previous.on /\ ~Processed.on
  /\ pc = "finalize" => rstate = "WRITABLE" /\ out = <<>>

FilesInv ==
  /\ Types /\ Control /\ Shape /\ StartShape
  /\ Running => RunShape

\* Each archive has a name of its own, and is what the file is that it is a link of.
LinkInv ==
  /\ \A g \in old : g.t <= 2 * now + 1
  /\ \A f, g \in old : f.t = g.t => f = g
  /\ \A n \in Names : Linked(n) =>
       \E g \in old : g.t = file[n].link /\ g.data = file[n].data

\* The name that previous or processed will have comes after all the archives, but for
\* the one that it is already; that of current may be taken when s6-log starts, but only
\* if current is empty.
StampInv ==
  /\ Running /\ rstate = "RENAME" => \A g \in old : g.t < 2 * now
  /\ Running \/ Starting =>
       \A n \in {"previous", "processed"} : file[n].on =>
         \A g \in old : g.t < 2 * now \/ g.t = file[n].link
  /\ Starting =>
       \/ Current.data = <<>>
       \/ \A g \in old : g.t <= 2 * now \/ g.t = Current.link

\* Between two reads there is no whole line in indata.
InLine == pc \notin {"lines", "killed"} => \A i \in NL : i <= start \/ i > rd

-----------------------------------------------------------------------------
(* The inductive invariant: what the files hold                            *)

Mid == IF InRotation.link # 0 THEN <<>> ELSE InRotation.data
Cur == IF Linked("current") THEN <<>> ELSE Current.data

\* An archive is one too many only where finish() was, or was interrupted.
CountInv ==
  Cardinality(old) + 1 <= NArch + starts + fails
                          + (IF pc \in {"unlink", "trim", "killed"} THEN 1 ELSE 0)

SizeInv ==
  /\ Len(Mid) <= S /\ Len(Cur) <= S
  /\ \A g \in old : Len(g.data) <= S

Rising(d) == \A i, j \in 1 .. Len(d) : i < j => d[i] < d[j]
Below(c, d) == \A i \in 1 .. Len(c), j \in 1 .. Len(d) : c[i] < d[j]
Within(d, n) == \A i \in 1 .. Len(d) : d[i] > 0 /\ d[i] <= n

\* The largest byte there may be: the newline that ends the last line comes after all.
Top == IF start = N THEN N + 1 ELSE start

\* Every byte is once, and in its place.
Ordered(arch, mid, cur, next, top) ==
  /\ \A f, g \in arch : f.t < g.t => Below(f.data, g.data)
  /\ \A f \in arch : /\ Rising(f.data) /\ Within(f.data, top) /\ Below(f.data, mid)
                     /\ Below(f.data, cur) /\ Below(f.data, next)
  /\ Rising(mid) /\ Rising(cur) /\ Rising(next)
  /\ Below(mid, cur) /\ Below(mid, next) /\ Below(cur, next)
  /\ Within(mid, top) /\ Within(cur, top) /\ Within(next, top)

TextInv == Ordered(old, Mid, Cur, out, Top)

In(u, d) == \E i \in 1 .. Len(d) : d[i] = u

Has(u) == In(u, Mid) \/ In(u, Cur) \/ \E f \in old : In(u, f.data)
There(u) == Has(u) \/ In(u, out)

\* The last is for the oldest files, which were removed.
Accounted(u) ==
  There(u) \/ u \in lost \/ Deselected(u) \/ (old # {} /\ \A v : There(v) => u < v)

KeptInv ==
  /\ \A u \in 1 .. start : Accounted(u)
  /\ pc \in {"killed", "done"} => InMemory \subseteq lost

\* Where a file may end when it is no longer written to, if G is lost and C is cut.
EndsBut(d, G, C) == d # <<>> => Newline(Last(d)) \/ Last(d) + 1 \in G \/ Last(d) \in C
Ends(d) == EndsBut(d, lost, cut)

\* out goes on with the line that d ends in.
Continued(d) == d # <<>> /\ out # <<>> /\ out[1] = Last(d) + 1

\* In out, a byte is followed by the next one until the line ends.
Unbroken(d) ==
  \A i \in 1 .. Len(d) : ~Newline(d[i]) => i < Len(d) /\ d[i + 1] = d[i] + 1

LinesInv ==
  /\ \A f \in old : Ends(f.data)
  /\ Ends(Mid) /\ (Ends(Cur) \/ Continued(Cur)) /\ Unbroken(out)
  /\ Running /\ rstate \in {"START", "RENAME"} => Ends(Cur)

\* The first line of out ends within n bytes.
LineWithin(n) == \E i \in 1 .. Len(out) : Newline(out[i]) /\ i <= n

\* There is room for a line of the tolerance, or for the rest of one.
RoomInv ==
  /\ Running /\ rstate = "WRITABLE" => b + L < S \/ (b < S /\ LineWithin(S - b))
  /\ Current.x => Len(Current.data) + L < S

-----------------------------------------------------------------------------
(* Least and greatest elements                                             *)

LEMMA LeastExists ==
  ASSUME NEW T, T \subseteq Nat, T # {}
  PROVE  \E l \in T : \A y \in T : l <= y
<1>1. PICK l \in T : \A y \in T : ~ (<<y, l>> \in OpToRel(<, Nat))
  BY NatLessThanWellFounded, WFMin
<1>2. \A y \in T : ~ (y < l)
  BY <1>1 DEF OpToRel
<1> QED
  BY <1>2, l \in Nat, \A y \in T : y \in Nat

LEMMA GreatestExists ==
  ASSUME NEW n \in Nat, NEW T, T \subseteq 1 .. n, T # {}
  PROVE  \E g \in T : \A y \in T : y <= g
<1> DEFINE R == {n - y : y \in T}
<1>0. \A y \in T : n - y \in Nat
  OBVIOUS
<1>1. R \subseteq Nat /\ R # {}
  BY <1>0
<1>2. PICK l \in R : \A y \in R : l <= y
  BY <1>1, LeastExists
<1>3. PICK g \in T : l = n - g
  OBVIOUS
<1>4. \A y \in T : n - y \in R
  OBVIOUS
<1>5. \A y \in T : n - g <= n - y /\ y \in 1 .. n /\ g \in 1 .. n
  BY <1>2, <1>3, <1>4
<1> QED
  BY <1>5

-----------------------------------------------------------------------------
(* Type correctness                                                        *)

Scalars ==
  /\ {rd, start, b, now, starts, fails} \subseteq Nat /\ now > 0 /\ starts > 0
  /\ start <= rd /\ rd <= N /\ out \in Text
  /\ pc \in Runs \cup Calls \cup Starts \cup {"killed", "done"}
  /\ rstate \in States /\ proc \in {"none", "run", "ok", "failed"}
  /\ {rok, rfail} \subseteq {"flush", "stdin", "signals"}

FileTypes == file \in [Names -> AnyFile] /\ old \subseteq AnyArchive /\ IsFiniteSet(old)

LEMMA TypesParts == Types <=> Scalars /\ FileTypes
BY DEF Types, Scalars, FileTypes

LEMMA Constants ==
  /\ N \in Nat /\ S \in Nat /\ L \in Nat /\ NArch \in Nat /\ MaxDir \in Nat /\ InSize \in Nat
  /\ L < S /\ NArch >= 2
  /\ NL \subseteq 1 .. N
BY S6LogAssumption

\* A write takes something, and no more than there is room for.
LEMMA WriteLenFacts ==
  ASSUME Scalars, out # <<>>, b < S
  PROVE  /\ Len(out) \in Nat /\ WriteLen \in 1 .. Len(out) /\ b + WriteLen <= S
<1> DEFINE n == IF Len(out) + b >= S THEN S - b ELSE Len(out)
           ends == {i \in 1 .. n : Newline(out[i])}
<1>1. Len(out) \in Nat /\ Len(out) > 0
  BY EmptySeq, LenProperties DEF Scalars, Text
<1>2. b \in Nat /\ S \in Nat /\ L \in Nat
  BY Constants DEF Scalars
<1>3. n \in 1 .. Len(out) /\ b + n <= S /\ n \in Nat
  BY <1>1, <1>2
<1> HIDE DEF n
<1>4. CASE n + b + L >= S /\ ends # {}
  <2>1. \E g \in ends : \A y \in ends : y <= g
    BY <1>3, <1>4, GreatestExists
  <2>2. WriteLen = CHOOSE i \in ends : \A j \in ends : j <= i
    BY <1>4 DEF WriteLen, Cut, n
  <2>3. WriteLen \in ends
    BY <2>1, <2>2
  <2>4. WriteLen \in 1 .. n
    BY <2>3
  <2> QED
    BY <1>1, <1>2, <1>3, <2>4
<1>5. CASE ~(n + b + L >= S /\ ends # {})
  <2>1. WriteLen = n
    BY <1>5 DEF WriteLen, Cut, n
  <2> QED
    BY <1>1, <1>2, <1>3, <2>1
<1> QED
  BY <1>4, <1>5

\* A flush that changes something has written.
LEMMA FlushWrites ==
  ASSUME Scalars, Flush, ~UNCHANGED <<file, old, out, b>>
  PROVE  /\ pc = "flush" /\ out # <<>> /\ rstate = "WRITABLE" /\ b < S
         /\ \E n \in 1 .. WriteLen : Write(n)
<1>1. out # <<>> /\ rstate = "WRITABLE" /\ b < S
      /\ (Write(WriteLen) \/ \E n \in 1 .. (WriteLen - 1) : Write(n))
  BY DEF Flush
<1>2. Len(out) \in Nat /\ WriteLen \in 1 .. Len(out)
  BY <1>1, WriteLenFacts
<1>3. WriteLen \in 1 .. WriteLen /\ \A n \in 1 .. (WriteLen - 1) : n \in 1 .. WriteLen
  BY <1>2
<1> QED
  BY <1>1, <1>3 DEF Flush

\* What Selected adds is text.
LEMMA SelectedIsText ==
  ASSUME Scalars, NEW e \in Nat, start < e
  PROVE  Selected(e) \in Text
<1>1. start \in Nat /\ e - start \in Nat /\ \A k \in 1 .. (e - start) : start + k \in Nat
  BY DEF Scalars
<1>2. [k \in 1 .. (e - start) |-> start + k] \in Seq(Nat)
  BY <1>1
<1> QED
  BY <1>2, EmptySeq DEF Selected, Text

\* One case for each action.
LEMMA NextCases ==
  ASSUME Next
  PROVE  \/ LogdirInit \/ InitCurrent \/ InitOpen
         \/ RotatorQuiet \/ RotatorRename \/ RotatorNewcurrent \/ RotatorChmodprevious
         \/ RotatorFinish \/ RotatorFinished \/ RotatorRun \/ RotatorWait
         \/ RotatorSyncprocessed \/ RotatorUnlinkprevious \/ RotatorFail
         \/ FinishLink \/ FinishUnlink \/ FinishTrim
         \/ Flush \/ Signals \/ Alarm \/ Term \/ ProcessorDied
         \/ NormalStdin \/ Line \/ LastStdin \/ NoStdin \/ Loop \/ Finalize
         \/ Time \/ Process \/ Send \/ Close \/ Kill \/ Restart
BY DEF Next, Step, Rotating, HandleSignals

LEMMA ScalarsStep ==
  ASSUME Scalars, Control, Next
  PROVE  Scalars'
<1> USE DEF Scalars, Runs, Calls, Starts, States, Early, Copied, Turned, input, rets, ctl, env
<1>1. CASE LogdirInit
  BY <1>1 DEF LogdirInit, CallFinish
<1>2. CASE InitCurrent
  BY <1>2 DEF InitCurrent, CallFinish
<1>3. CASE InitOpen
  BY <1>3, LenProperties DEF InitOpen
<1>4. CASE RotatorQuiet
  BY <1>4 DEF RotatorQuiet, Rotator, Then
<1>5. CASE RotatorRename
  BY <1>5 DEF RotatorRename, Rotator, Then
<1>6. CASE RotatorNewcurrent
  BY <1>6 DEF RotatorNewcurrent, Rotator, Then
<1>7. CASE RotatorChmodprevious
  BY <1>7 DEF RotatorChmodprevious, Rotator, Then
<1>8. CASE RotatorFinish
  BY <1>8 DEF RotatorFinish, Rotator, CallFinish
<1>9. CASE RotatorFinished
  BY <1>9 DEF RotatorFinished
<1>10. CASE RotatorRun
  BY <1>10 DEF RotatorRun, Rotator, SetData
<1>11. CASE RotatorWait
  BY <1>11 DEF RotatorWait, Rotator
<1>12. CASE RotatorSyncprocessed
  BY <1>12 DEF RotatorSyncprocessed, Rotator, Then
<1>13. CASE RotatorUnlinkprevious
  BY <1>13 DEF RotatorUnlinkprevious, Rotator, Then
<1>14. CASE FinishLink
  BY <1>14 DEF FinishLink, Control, Called, Call
<1>15. CASE FinishUnlink
  BY <1>15 DEF FinishUnlink
<1>16. CASE FinishTrim
  BY <1>16 DEF FinishTrim, Fail, Control, Called, Call
<1>17. CASE Flush
  <2>1. CASE UNCHANGED <<out, b>>
    BY <1>17, <2>1 DEF Flush, Write, CallRotator, Fail
  <2>2. CASE ~UNCHANGED <<out, b>>
    <3>0. PICK n \in 1 .. WriteLen : Write(n)
      BY <1>17, <2>2, FlushWrites
    <3>1. Len(out) \in Nat /\ WriteLen \in 1 .. Len(out) /\ n \in 1 .. Len(out)
      BY <1>17, <2>2, FlushWrites, WriteLenFacts
    <3>2. \A i \in n + 1 .. Len(out) : out[i] \in Nat
      BY <3>1, ElementOfSeq DEF Text
    <3>3. SubSeq(out, n + 1, Len(out)) \in Seq(Nat)
      BY <3>1, <3>2, SubSeqProperties DEF Text
    <3>4. out' = SubSeq(out, n + 1, Len(out)) /\ b' = b + n /\ n \in Nat /\ b \in Nat
      BY <3>0, <3>1 DEF Write
    <3>5. out' \in Text /\ b' \in Nat
      BY <3>3, <3>4 DEF Text
    <3>6. UNCHANGED <<rd, start, now, starts, proc>>
      BY <1>17 DEF Flush
    <3>7. fails' \in Nat
      BY <1>17 DEF Flush, Fail
    <3>8. \/ UNCHANGED <<pc, rstate, rok, rfail>>
          \/ pc' = "rotator" /\ rstate' = "START" /\ rok' = "flush" /\ rfail' = "flush"
      BY <3>0 DEF Write, CallRotator
    <3> QED
      BY <3>5, <3>6, <3>7, <3>8
  <2> QED
    BY <2>1, <2>2
<1>18. CASE Signals
  BY <1>18 DEF Signals
<1>19. CASE Alarm
  BY <1>19 DEF Alarm, CallRotator
<1>20. CASE Term
  BY <1>20 DEF Term
<1>21. CASE ProcessorDied
  BY <1>21 DEF ProcessorDied, CallRotator
<1>22. CASE NormalStdin
  BY <1>22, Constants DEF NormalStdin
<1>23. CASE Line
  <2>1. CASE UNCHANGED <<start, out>>
    BY <1>23, <2>1 DEF Line
  <2>2. ASSUME NEW e \in NL \cap (start + 1) .. rd, out' = out \o Selected(e), start' = e
        PROVE  Scalars'
    <3>1. e \in Nat /\ start < e /\ e <= rd
      OBVIOUS
    <3>2. out' \in Text
      BY <2>2, <3>1, SelectedIsText, ConcatProperties DEF Text
    <3> QED
      BY <1>23, <2>2, <3>1, <3>2 DEF Line
  <2> QED
    BY <1>23, <2>1, <2>2 DEF Line
<1>24. CASE LastStdin
  <2>1. CASE UNCHANGED out
    BY <1>24, <2>1, Constants DEF LastStdin
  <2>2. CASE rd < N /\ rd' = rd + 1 /\ out' = out \o Selected(rd') /\ start' = rd'
    <3>1. rd + 1 \in Nat /\ start < rd + 1 /\ rd + 1 <= N
      BY <2>2, Constants
    <3>2. out' \in Text
      BY <2>2, <3>1, SelectedIsText, ConcatProperties DEF Text
    <3> QED
      BY <1>24, <2>2, <3>1, <3>2 DEF LastStdin
  <2>3. CASE rd' = rd /\ start' = rd /\ out' = out \o (IF start = rd THEN <<>> ELSE Selected(rd + 1))
    <3>1. rd + 1 \in Nat /\ start < rd + 1
      OBVIOUS
    <3>2. out' \in Text
      BY <2>3, <3>1, SelectedIsText, EmptySeq, ConcatProperties DEF Text
    <3> QED
      BY <1>24, <2>3, <3>1, <3>2 DEF LastStdin
  <2> QED
    BY <1>24, <2>1, <2>2, <2>3 DEF LastStdin
<1>25. CASE NoStdin
  BY <1>25 DEF NoStdin
<1>26. CASE Loop
  BY <1>26 DEF Loop
<1>27. CASE Finalize
  BY <1>27 DEF Finalize, Fail
<1>28. CASE Time
  BY <1>28 DEF Time
<1>29. CASE Process
  BY <1>29 DEF Process, SetData
<1>30. CASE Send
  BY <1>30 DEF Send
<1>31. CASE Close
  BY <1>31 DEF Close
<1>32. CASE Kill
  BY <1>32 DEF Kill
<1>33. CASE Restart
  BY <1>33, EmptySeq DEF Restart, Text
<1>34. CASE RotatorFail
  BY <1>34 DEF RotatorFail, Fail
<1> QED
  BY NextCases, <1>1, <1>2, <1>3, <1>4, <1>5, <1>6, <1>7, <1>8, <1>9, <1>10, <1>11, <1>12,
     <1>13, <1>14, <1>15, <1>16, <1>17, <1>18, <1>19, <1>20, <1>21, <1>22, <1>23, <1>24,
     <1>25, <1>26, <1>27, <1>28, <1>29, <1>30, <1>31, <1>32, <1>33, <1>34

-----------------------------------------------------------------------------
(* What an action may do to the three files                                *)

LEMMA ThreeNames ==
  /\ "current" \in Names /\ "previous" \in Names /\ "processed" \in Names
  /\ \A n \in Names : n = "current" \/ n = "previous" \/ n = "processed"
BY DEF Names

LEMMA EmptyFiles ==
  /\ None \in AnyFile /\ ~None.on /\ None.data = <<>> /\ ~None.x /\ None.link = 0
  /\ Empty \in AnyFile /\ Empty.on /\ Empty.data = <<>> /\ ~Empty.x /\ Empty.link = 0
<1>1. <<>> \in Text
  BY EmptySeq DEF Text
<1>2. <<>> \in Text => None \in AnyFile /\ Empty \in AnyFile
  BY DEF None, Empty, AnyFile
<1> QED
  BY <1>1, <1>2 DEF None, Empty

LEMMA FileParts ==
  ASSUME FileTypes, NEW n \in Names
  PROVE  /\ file[n].on \in BOOLEAN /\ file[n].x \in BOOLEAN
         /\ file[n].data \in Text /\ file[n].link \in Nat
BY DEF FileTypes, AnyFile

\* One file is replaced.
LEMMA Replaced ==
  ASSUME FileTypes, NEW n \in Names, NEW r \in AnyFile, file' = [file EXCEPT ![n] = r]
  PROVE  /\ file' \in [Names -> AnyFile] /\ file'[n] = r
         /\ \A m \in Names \ {n} : file'[m] = file[m]
BY DEF FileTypes

\* The permissions of one file are changed.
LEMMA Chmoded ==
  ASSUME FileTypes, NEW n \in Names, NEW v \in BOOLEAN, file' = [file EXCEPT ![n].x = v]
  PROVE  /\ file' \in [Names -> AnyFile]
         /\ file'[n].on = file[n].on /\ file'[n].data = file[n].data
         /\ file'[n].link = file[n].link /\ file'[n].x = v
         /\ \A m \in Names \ {n} : file'[m] = file[m]
<1> DEFINE r == [file[n] EXCEPT !.x = v]
<1>1. file[n] \in AnyFile
  BY DEF FileTypes
<1>2. r \in AnyFile /\ r.on = file[n].on /\ r.data = file[n].data
      /\ r.link = file[n].link /\ r.x = v
  BY <1>1 DEF AnyFile
<1>3. file' = [file EXCEPT ![n] = r]
  OBVIOUS
<1> HIDE DEF r
<1> QED
  BY <1>2, <1>3, Replaced

\* One file, of which no archive is a link, is written to.
LEMMA SetDataFacts ==
  ASSUME FileTypes, NEW n \in Names, ~Linked(n), NEW d \in Text, SetData(n, d)
  PROVE  /\ file' \in [Names -> AnyFile] /\ old' = old
         /\ file'[n].on /\ file'[n].data = d
         /\ file'[n].link = file[n].link /\ file'[n].x = file[n].x
         /\ \A m \in Names \ {n} : file'[m] = file[m]
<1> DEFINE r == [file[n] EXCEPT !.on = TRUE, !.data = d]
<1>1. file[n] \in AnyFile
  BY DEF FileTypes
<1>2. r \in AnyFile /\ r.on /\ r.data = d /\ r.link = file[n].link /\ r.x = file[n].x
  BY <1>1 DEF AnyFile
<1>3. file' = [file EXCEPT ![n] = r]
  BY DEF SetData
<1>4. old' = old
  <2>1. \A f \in old : f.t # file[n].link
    BY DEF FileTypes, AnyArchive, Linked
  <2>2. old' = {IF f.t = file[n].link THEN [f EXCEPT !.data = d] ELSE f : f \in old}
    BY DEF SetData
  <2> QED
    BY <2>1, <2>2
<1> HIDE DEF r
<1> QED
  BY <1>2, <1>3, <1>4, Replaced

\* Where no link is made or written to, the archive is what it was.
LEMMA LinkQuiet ==
  ASSUME FilesInv, LinkInv, old' = old, now' = now \/ now' = now + 1,
         \A n \in Names : Linked(n)' => file'[n].link = file[n].link /\ file'[n].data = file[n].data
  PROVE  LinkInv'
<1>1. now \in Nat /\ \A g \in old : g.t \in Nat
  BY DEF FilesInv, Types, AnyArchive
<1>2. \A g \in old : g.t <= 2 * now' + 1
  BY <1>1 DEF LinkInv
<1> QED
  BY <1>2 DEF LinkInv, Linked

\* A file has no link in the archive if its link count is 1.
LEMMA UnlinkedIs ==
  ASSUME FileTypes, LinkInv, NEW n \in Names
  PROVE  Unlinked(file[n]) <=> ~Linked(n)
BY DEF FileTypes, LinkInv, Unlinked, Linked, AnyArchive

-----------------------------------------------------------------------------
(* The start                                                               *)

FilesNext == /\ FileTypes' /\ Control' /\ Shape' /\ StartShape'
             /\ (Running => RunShape)'
             /\ LinkInv'

\* The files change and what counts of them does not.
Still == old' = old /\ Mid' = Mid /\ Cur' = Cur

LEMMA LogdirInitFiles ==
  ASSUME FilesInv, LinkInv, LogdirInit
  PROVE  FilesNext /\ Still
<1> USE DEF Current, Previous, Processed
<1>1. FileTypes /\ Control /\ Shape
  BY TypesParts DEF FilesInv
<1>2. /\ pc = "init" /\ UNCHANGED <<old, now, out, start, rd, rstate, b, proc>>
  BY DEF LogdirInit, input
<1>3. rstate = "WRITABLE" /\ out = <<>> /\ start = rd /\ proc = "none"
  BY <1>1, <1>2 DEF Control, Starting, Running, Starts, Runs, Calls
<1>4. CASE Complete(Current)
  <2>1. file' = file /\ pc' = "opencurrent" /\ Current.x
    BY <1>4, <1>2 DEF LogdirInit, Complete
  <2>2. ~Running'
    BY <2>1 DEF Running, Runs, Calls
  <2>3. Control'
    BY <1>2, <1>3, <2>1 DEF Control, Calls, Starting
  <2>4. Shape' /\ StartShape' /\ LinkInv' /\ FileTypes' /\ Still
    BY <1>1, <1>2, <2>1
    DEF Shape, StartShape, LinkInv, FileTypes, Linked, Still, Mid, Cur, InRotation
  <2> QED
    BY <2>2, <2>3, <2>4 DEF FilesNext
<1>5. CASE ~Complete(Current) /\ Complete(Processed)
  <2>1. /\ file' = [file EXCEPT !["previous"] = None] /\ pc' = "link"
        /\ fin' = <<"processed", "s">> /\ fret' = "initcurrent" /\ ffail' = "killed"
    BY <1>5, <1>2 DEF LogdirInit, CallFinish
  <2>2. /\ file' \in [Names -> AnyFile] /\ ~Previous'.on /\ ~Previous'.x /\ Previous'.data = <<>>
        /\ Previous'.link = 0
        /\ Current' = Current /\ Processed' = Processed /\ Processed.on /\ Processed.x
    BY <1>1, <1>5, <2>1, Replaced, EmptyFiles, ThreeNames DEF Complete
  <2>3. ~Running'
    BY <2>1 DEF Running, Runs, Calls
  <2>4. Control'
    BY <1>2, <1>3, <2>1, <2>2 DEF Control, Calls, Starting, Called, Call
  <2>5. ~Current.x
    BY <1>1, <1>5, ThreeNames DEF Complete, Shape
  <2>6. Shape' /\ StartShape'
    BY <1>1, <1>2, <1>3, <2>1, <2>2, <2>5, ThreeNames DEF Shape, StartShape, Linked
  <2>7. LinkInv' /\ FileTypes'
    BY <1>1, <1>2, <2>2, LinkQuiet, ThreeNames DEF FileTypes, Linked
  <2>8. Still
    BY <1>1, <1>2, <2>2 DEF Still, Mid, Cur, InRotation, Linked, Shape
  <2> QED
    BY <2>3, <2>4, <2>6, <2>7, <2>8 DEF FilesNext
<1>6. CASE ~Complete(Current) /\ ~Complete(Processed)
  <2>1. /\ file' = [file EXCEPT !["processed"] = None] /\ pc' = "link"
        /\ fin' = <<"previous", "u">> /\ fret' = "initcurrent" /\ ffail' = "killed"
    BY <1>6, <1>2 DEF LogdirInit, CallFinish
  <2>2. /\ file' \in [Names -> AnyFile] /\ ~Processed'.on /\ ~Processed'.x
        /\ Processed'.data = <<>> /\ Processed'.link = 0
        /\ Current' = Current /\ Previous' = Previous /\ (Processed.on => ~Processed.x)
    BY <1>1, <1>6, <2>1, Replaced, EmptyFiles, ThreeNames DEF Complete
  <2>3. ~Running'
    BY <2>1 DEF Running, Runs, Calls
  <2>4. Control'
    BY <1>2, <1>3, <2>1, <2>2 DEF Control, Calls, Starting, Called, Call
  <2>5. ~Current.x
    BY <1>1, <1>6, ThreeNames DEF Complete, Shape
  <2>6. Shape' /\ StartShape'
    BY <1>1, <1>2, <1>3, <2>1, <2>2, <2>5, ThreeNames DEF Shape, StartShape, Linked
  <2>7. LinkInv' /\ FileTypes'
    BY <1>1, <1>2, <2>2, LinkQuiet, ThreeNames DEF FileTypes, Linked
  <2>8. Still
    BY <1>1, <1>2, <2>2, ThreeNames DEF Still, Mid, Cur, InRotation, Linked, Shape
  <2> QED
    BY <2>3, <2>4, <2>6, <2>7, <2>8 DEF FilesNext
<1> QED
  BY <1>4, <1>5, <1>6

LEMMA InitOpenFiles ==
  ASSUME FilesInv, LinkInv, InitOpen
  PROVE  FilesNext /\ Still
<1> USE DEF Current, Previous, Processed
<1>1. FileTypes /\ Control /\ Shape /\ StartShape
  BY TypesParts DEF FilesInv
<1>2. /\ pc \in {"open", "opencurrent"} /\ pc' = "loop"
      /\ UNCHANGED <<old, now, out, start, rd, rstate, proc>>
      /\ file' = [file EXCEPT !["current"].on = TRUE, !["current"].x = FALSE]
      /\ b' = IF pc = "opencurrent" THEN Len(Current.data) ELSE 0
  BY DEF InitOpen, input
<1>3. rstate = "WRITABLE" /\ out = <<>> /\ start = rd /\ proc = "none"
  BY <1>1, <1>2 DEF Control, Starting, Running, Starts, Runs, Calls
<1> DEFINE r == [Current EXCEPT !.on = TRUE, !.x = FALSE]
<1>4. Current \in AnyFile
  BY <1>1, ThreeNames DEF FileTypes
<1>5. r \in AnyFile /\ r.on /\ ~r.x /\ r.data = Current.data /\ r.link = Current.link
  BY <1>4 DEF AnyFile
<1>6. file' = [file EXCEPT !["current"] = r]
  BY <1>2
<1> HIDE DEF r
<1>7. /\ file' \in [Names -> AnyFile] /\ Current'.on /\ ~Current'.x
      /\ Current'.data = Current.data /\ Current'.link = Current.link
      /\ Previous' = Previous /\ Processed' = Processed
  BY <1>1, <1>5, <1>6, Replaced, ThreeNames
<1>8. ~Previous.on /\ ~Processed.on /\ ~Linked("current")
  BY <1>1, <1>2, ThreeNames DEF StartShape, Shape
<1>9. b' = Len(Current.data)
  BY <1>1, <1>2, ThreeNames, EmptySeq DEF StartShape, Shape
<1>10. Control'
  BY <1>2, <1>3 DEF Control, Calls, Starts, Starting
<1>11. Shape' /\ StartShape'
  BY <1>1, <1>2, <1>3, <1>7, <1>8, ThreeNames DEF Shape, StartShape, Linked
<1>12. RunShape'
  BY <1>1, <1>2, <1>3, <1>7, <1>8, <1>9, ThreeNames
  DEF Shape, RunShape, Linked, Early, Copied, Turned
<1>13. LinkInv' /\ FileTypes'
  BY <1>1, <1>2, <1>7, LinkQuiet, ThreeNames DEF FileTypes, Linked
<1>14. Still
  BY <1>2, <1>7 DEF Still, Mid, Cur, InRotation, Linked
<1> QED
  BY <1>10, <1>11, <1>12, <1>13, <1>14 DEF FilesNext

-----------------------------------------------------------------------------
(* The rotator                                                             *)

LEMMA RotatorShape ==
  ASSUME FilesInv, pc = "rotator"
  PROVE  FileTypes /\ Control /\ Shape /\ RunShape /\ \A n \in Names : ~Linked(n)
<1>1. FileTypes /\ Control /\ Shape /\ RunShape
  BY TypesParts DEF FilesInv, Running, Runs
<1> QED
  BY <1>1 DEF RunShape

\* current becomes previous.
Renames == /\ old' = old /\ Mid = <<>> /\ Mid' = Cur /\ Cur' = <<>>
           /\ Running /\ rstate = "RENAME"

LEMMA RotatorRenameFiles ==
  ASSUME FilesInv, LinkInv, RotatorRename
  PROVE  FilesNext /\ Renames /\ UNCHANGED <<out, start>>
<1> USE DEF Current, Previous, Processed
<1>1. /\ pc = "rotator" /\ rstate = "RENAME" /\ rstate' = "NEWCURRENT"
      /\ UNCHANGED <<pc, old, now, out, start, rd, b, proc>>
      /\ file' = [file EXCEPT !["previous"] = Current, !["current"] = None]
  BY DEF RotatorRename, Rotator, Then, input
<1>2. FileTypes /\ Control /\ Shape /\ RunShape /\ \A n \in Names : ~Linked(n)
  BY <1>1, RotatorShape
<1>3. Current.on /\ ~Previous.on /\ ~Processed.on /\ ~Current.x /\ proc # "run" /\ proc # "ok"
  BY <1>1, <1>2 DEF RunShape, Early, Copied, Turned, Shape
<1>4. /\ file' \in [Names -> AnyFile] /\ Previous' = Current /\ Current' = None
      /\ Processed' = Processed
  BY <1>1, <1>2, EmptyFiles, ThreeNames DEF FileTypes
<1>5. Control'
  BY <1>1, <1>2 DEF Control, Calls, Starts, Starting
<1>6. Shape' /\ StartShape'
  BY <1>1, <1>2, <1>3, <1>4, EmptyFiles, ThreeNames DEF Shape, StartShape, Linked
<1>7. RunShape'
  BY <1>1, <1>2, <1>3, <1>4, EmptyFiles, ThreeNames
  DEF Shape, RunShape, Linked, Early, Copied, Turned
<1>8. LinkInv' /\ FileTypes'
  BY <1>1, <1>2, <1>4, EmptyFiles, ThreeNames, LinkQuiet DEF FileTypes, Linked
<1>9. Renames
  BY <1>1, <1>2, <1>3, <1>4, EmptyFiles, ThreeNames
  DEF Renames, Mid, Cur, InRotation, Linked, Shape, Running, Runs
<1> QED
  BY <1>1, <1>5, <1>6, <1>7, <1>8, <1>9 DEF FilesNext

LEMMA RotatorNewcurrentFiles ==
  ASSUME FilesInv, LinkInv, RotatorNewcurrent
  PROVE  FilesNext /\ Still /\ UNCHANGED <<out, start>>
<1> USE DEF Current, Previous, Processed
<1>1. /\ pc = "rotator" /\ rstate = "NEWCURRENT" /\ rstate' = "CHMODPREVIOUS" /\ b' = 0
      /\ UNCHANGED <<pc, old, now, out, start, rd, proc>>
      /\ file' = [file EXCEPT !["current"] = Empty]
  BY DEF RotatorNewcurrent, Rotator, Then, input
<1>2. FileTypes /\ Control /\ Shape /\ RunShape /\ \A n \in Names : ~Linked(n)
  BY <1>1, RotatorShape
<1>3. ~Current.on /\ Previous.on /\ ~Processed.on /\ proc # "ok"
  BY <1>1, <1>2 DEF RunShape, Early, Copied, Turned, Shape, Control
<1>4. /\ file' \in [Names -> AnyFile] /\ Current' = Empty
      /\ Processed' = Processed /\ Previous' = Previous
  BY <1>1, <1>2, EmptyFiles, ThreeNames, Replaced
<1>5. Control'
  BY <1>1, <1>2 DEF Control, Calls, Starts, Starting
<1>6. Shape' /\ StartShape'
  BY <1>1, <1>2, <1>3, <1>4, EmptyFiles, ThreeNames DEF Shape, StartShape, Linked
<1>7. RunShape'
  BY <1>1, <1>2, <1>3, <1>4, EmptyFiles, ThreeNames, EmptySeq
  DEF Shape, RunShape, Linked, Early, Copied, Turned
<1>8. LinkInv' /\ FileTypes'
  BY <1>1, <1>2, <1>4, EmptyFiles, ThreeNames, LinkQuiet DEF FileTypes, Linked
<1>9. Still
  BY <1>1, <1>2, <1>3, <1>4, EmptyFiles, ThreeNames
  DEF Still, Mid, Cur, InRotation, Linked, Shape
<1> QED
  BY <1>1, <1>5, <1>6, <1>7, <1>8, <1>9 DEF FilesNext

LEMMA RotatorChmodpreviousFiles ==
  ASSUME FilesInv, LinkInv, RotatorChmodprevious
  PROVE  FilesNext /\ Still /\ UNCHANGED <<out, start>>
<1> USE DEF Current, Previous, Processed
<1>1. /\ pc = "rotator" /\ rstate = "CHMODPREVIOUS" /\ rstate' \in {"RUNPROCESSOR", "FINISHPREVIOUS"}
      /\ UNCHANGED <<pc, old, now, out, start, rd, b, proc>>
      /\ file' = [file EXCEPT !["previous"].x = TRUE]
  BY DEF RotatorChmodprevious, Rotator, Then, input
<1>2. FileTypes /\ Control /\ Shape /\ RunShape /\ \A n \in Names : ~Linked(n)
  BY <1>1, RotatorShape
<1>3. Previous.on /\ ~Processed.on /\ Current.on /\ b = Len(Current.data) /\ Current.data = <<>>
      /\ proc # "ok" /\ proc # "run"
  BY <1>1, <1>2 DEF RunShape, Early, Copied, Turned, Shape, Control
<1>4. /\ file' \in [Names -> AnyFile] /\ Current' = Current /\ Processed' = Processed
      /\ Previous'.on = Previous.on /\ Previous'.data = Previous.data
      /\ Previous'.link = Previous.link /\ Previous'.x
  BY <1>1, <1>2, ThreeNames, Chmoded
<1>5. Control'
  BY <1>1, <1>2 DEF Control, Calls, Starts, Starting
<1>6. Shape' /\ StartShape'
  BY <1>1, <1>2, <1>3, <1>4, ThreeNames DEF Shape, StartShape, Linked
<1>7. RunShape'
  BY <1>1, <1>2, <1>3, <1>4, ThreeNames DEF Shape, RunShape, Linked, Early, Copied, Turned
<1>8. LinkInv' /\ FileTypes'
  BY <1>1, <1>2, <1>4, ThreeNames, LinkQuiet DEF FileTypes, Linked
<1>9. Still
  BY <1>1, <1>2, <1>3, <1>4, ThreeNames DEF Still, Mid, Cur, InRotation, Linked, Shape
<1> QED
  BY <1>1, <1>5, <1>6, <1>7, <1>8, <1>9 DEF FilesNext

LEMMA RotatorRunFiles ==
  ASSUME FilesInv, LinkInv, RotatorRun
  PROVE  FilesNext /\ Still /\ UNCHANGED <<out, start>>
<1> USE DEF Current, Previous, Processed
<1>1. /\ pc = "rotator" /\ rstate = "RUNPROCESSOR" /\ rstate' = "WAITPROCESSOR"
      /\ pc' = rfail /\ proc' = "run" /\ SetData("processed", <<>>)
      /\ UNCHANGED <<now, out, start, rd, b>>
  BY DEF RotatorRun, Rotator, Then, input
<1>2. FileTypes /\ Control /\ Shape /\ RunShape /\ (\A n \in Names : ~Linked(n))
      /\ rfail \in {"flush", "stdin", "signals"}
  BY <1>1, RotatorShape, TypesParts DEF Scalars, FilesInv
<1>3. Previous.on /\ ~Processed.x /\ Current.on /\ b = Len(Current.data) /\ Current.data = <<>>
      /\ ~Current.x
  BY <1>1, <1>2 DEF RunShape, Early, Copied, Turned, Shape
<1>4. /\ file' \in [Names -> AnyFile] /\ old' = old /\ Current' = Current /\ Previous' = Previous
      /\ Processed'.on /\ Processed'.data = <<>>
      /\ Processed'.link = Processed.link /\ Processed'.x = Processed.x
  BY <1>1, <1>2, ThreeNames, EmptySeq, SetDataFacts DEF Text
<1>5. Control'
  BY <1>1, <1>2 DEF Control, Calls, Starts, Runs, Starting, Running
<1>6. Shape' /\ StartShape'
  BY <1>1, <1>2, <1>3, <1>4, ThreeNames DEF Shape, StartShape, Linked
<1>7. RunShape'
  BY <1>1, <1>2, <1>3, <1>4, ThreeNames DEF Shape, RunShape, Linked, Early, Copied, Turned
<1>8. LinkInv' /\ FileTypes'
  BY <1>1, <1>2, <1>4, ThreeNames, LinkQuiet DEF FileTypes, Linked
<1>9. Still
  BY <1>1, <1>2, <1>3, <1>4, ThreeNames DEF Still, Mid, Cur, InRotation, Linked, Shape
<1> QED
  BY <1>1, <1>5, <1>6, <1>7, <1>8, <1>9 DEF FilesNext

LEMMA RotatorSyncprocessedFiles ==
  ASSUME FilesInv, LinkInv, RotatorSyncprocessed
  PROVE  FilesNext /\ Still /\ UNCHANGED <<out, start>>
<1> USE DEF Current, Previous, Processed
<1>1. /\ pc = "rotator" /\ rstate = "SYNCPROCESSED" /\ rstate' = "SYNCNEWSTATE"
      /\ UNCHANGED <<pc, old, out, start, rd, b, proc>> /\ now' = now + 1
      /\ file' = [file EXCEPT !["processed"].x = TRUE]
  BY DEF RotatorSyncprocessed, Rotator, Then, input
<1>2. FileTypes /\ Control /\ Shape /\ RunShape /\ \A n \in Names : ~Linked(n)
  BY <1>1, RotatorShape
<1>3. Previous.on /\ Processed.on /\ Processed.data = Previous.data /\ Current.on
      /\ b = Len(Current.data) /\ Current.data = <<>> /\ ~Current.x /\ proc # "run"
  BY <1>1, <1>2 DEF RunShape, Early, Copied, Turned, Shape, Control, Running, Runs
<1>4. /\ file' \in [Names -> AnyFile] /\ Current' = Current /\ Previous' = Previous
      /\ Processed'.on = Processed.on /\ Processed'.data = Processed.data
      /\ Processed'.link = Processed.link /\ Processed'.x
  BY <1>1, <1>2, ThreeNames, Chmoded
<1>5. Control'
  BY <1>1, <1>2 DEF Control, Calls, Starts, Starting
<1>6. Shape' /\ StartShape'
  BY <1>1, <1>2, <1>3, <1>4, ThreeNames DEF Shape, StartShape, Linked
<1>7. RunShape'
  BY <1>1, <1>2, <1>3, <1>4, ThreeNames DEF Shape, RunShape, Linked, Early, Copied, Turned
<1>8. LinkInv' /\ FileTypes'
  BY <1>1, <1>2, <1>4, ThreeNames, LinkQuiet DEF FileTypes, Linked
<1>9. Still
  BY <1>1, <1>2, <1>3, <1>4, ThreeNames DEF Still, Mid, Cur, InRotation, Linked, Shape
<1> QED
  BY <1>1, <1>5, <1>6, <1>7, <1>8, <1>9 DEF FilesNext

LEMMA RotatorUnlinkpreviousFiles ==
  ASSUME FilesInv, LinkInv, RotatorUnlinkprevious
  PROVE  FilesNext /\ Still /\ UNCHANGED <<out, start>>
<1> USE DEF Current, Previous, Processed
<1>1. /\ pc = "rotator" /\ rstate = "UNLINKPREVIOUS" /\ rstate' = "RENAMESTATE"
      /\ UNCHANGED <<pc, old, now, out, start, rd, b, proc>>
      /\ file' = [file EXCEPT !["previous"] = None]
  BY DEF RotatorUnlinkprevious, Rotator, Then, input
<1>2. FileTypes /\ Control /\ Shape /\ RunShape /\ \A n \in Names : ~Linked(n)
  BY <1>1, RotatorShape
<1>3. Previous.on /\ Processed.on /\ Processed.x /\ Processed.data = Previous.data /\ Current.on
      /\ b = Len(Current.data) /\ Current.data = <<>> /\ ~Current.x /\ proc = "none"
  BY <1>1, <1>2 DEF RunShape, Early, Copied, Turned, Shape, Control, Running, Runs
<1>4. /\ file' \in [Names -> AnyFile] /\ Previous' = None
      /\ Processed' = Processed /\ Current' = Current
  BY <1>1, <1>2, EmptyFiles, ThreeNames, Replaced
<1>5. Control'
  BY <1>1, <1>2 DEF Control, Calls, Starts, Starting
<1>6. Shape' /\ StartShape'
  BY <1>1, <1>2, <1>3, <1>4, EmptyFiles, ThreeNames DEF Shape, StartShape, Linked
<1>7. RunShape'
  BY <1>1, <1>2, <1>3, <1>4, EmptyFiles, ThreeNames
  DEF Shape, RunShape, Linked, Early, Copied, Turned
<1>8. LinkInv' /\ FileTypes'
  BY <1>1, <1>2, <1>4, EmptyFiles, ThreeNames, LinkQuiet DEF FileTypes, Linked
<1>9. Still
  BY <1>1, <1>2, <1>3, <1>4, EmptyFiles, ThreeNames
  DEF Still, Mid, Cur, InRotation, Linked, Shape
<1> QED
  BY <1>1, <1>5, <1>6, <1>7, <1>8, <1>9 DEF FilesNext

-----------------------------------------------------------------------------
(* finish                                                                  *)

\* The file that finish() is about.
Named(n) == fin[1] = n

LEMMA CalledNames ==
  ASSUME Called
  PROVE  /\ Named("current") \/ Named("previous") \/ Named("processed")
         /\ fin[2] \in {"s", "u"}
         /\ ffail = "unfinished" => fret = "finished"
         /\ ffail # "unfinished" => ffail = "killed"
         /\ Named("current") => fret = "open" /\ ffail = "killed"
                                /\ ~Previous.on /\ ~Processed.on
         /\ ffail = "killed" /\ ~Named("current") => fret = "initcurrent"
         /\ Named("previous") /\ ffail = "killed" => ~Processed.on
         /\ Named("processed") /\ ffail = "killed" => ~Previous.on
         /\ Named("previous") /\ ffail = "unfinished" => rstate = "FINISHPREVIOUS"
         /\ Named("processed") /\ ffail = "unfinished" => rstate = "FINISHPROCESSED"
BY DEF Called, Call, Named

\* finish() is called where of the three files only the one it is about, and current,
\* are there.
LEMMA CallShape ==
  ASSUME FilesInv, pc \in Calls
  PROVE  /\ FileTypes /\ Control /\ Shape /\ Called
         /\ ffail = "unfinished" => RunShape
         /\ Running <=> ffail = "unfinished"
         /\ Named("previous") => ~Processed.on
         /\ Named("processed") => ~Previous.on
         /\ ffail = "killed" => ~Current.x
<1>1. FileTypes /\ Control /\ Shape /\ Called
  BY TypesParts DEF FilesInv, Control
<1>2. Running <=> ffail = "unfinished"
  BY DEF Running, Runs, Calls
<1>3. ffail = "unfinished" => RunShape
  BY <1>2 DEF FilesInv
<1>4. ffail = "killed" => ~Current.x
  BY DEF FilesInv, StartShape, Starting, Calls
<1> QED
  BY <1>1, <1>2, <1>3, <1>4, CalledNames DEF RunShape, Turned, Early, Copied

\* A new archive comes after the others.
Archived(k, d) ==
  old' = old \cup {Archive(Name(k), k, d)} /\ \A f \in old : f.t < Name(k)

\* current is archived at a start; otherwise it is what is in rotation.
Archives ==
  \E k \in {"s", "u"} :
    \/ Archived(k, Mid) /\ Mid' = <<>> /\ Cur' = Cur
    \/ /\ Mid = <<>> /\ out = <<>> /\ Starting
       /\ Archived(k, Cur) /\ Mid' = <<>> /\ Cur' = <<>>

LEMMA NameIs ==
  ASSUME FilesInv
  PROVE  /\ now \in Nat /\ now > 0 /\ Name("s") = 2 * now /\ Name("u") = 2 * now + 1
         /\ \A k \in {"s", "u"} : Name(k) \in Nat \ {0}
BY DEF FilesInv, Types, Name

LEMMA ArchivedFile ==
  ASSUME FileTypes, NEW n \in Names, NEW t \in Nat, file' = [file EXCEPT ![n].link = t]
  PROVE  /\ file' \in [Names -> AnyFile]
         /\ file'[n].on = file[n].on /\ file'[n].data = file[n].data
         /\ file'[n].x = file[n].x /\ file'[n].link = t
         /\ \A m \in Names \ {n} : file'[m] = file[m]
<1> DEFINE r == [file[n] EXCEPT !.link = t]
<1>1. file[n] \in AnyFile
  BY DEF FileTypes
<1>2. r \in AnyFile /\ r.on = file[n].on /\ r.data = file[n].data
      /\ r.x = file[n].x /\ r.link = t
  BY <1>1 DEF AnyFile
<1>3. file' = [file EXCEPT ![n] = r]
  OBVIOUS
<1> HIDE DEF r
<1> QED
  BY <1>2, <1>3, Replaced

LEMMA ArchiveParts ==
  ASSUME NEW t, NEW k, NEW d
  PROVE  Archive(t, k, d).t = t /\ Archive(t, k, d).k = k /\ Archive(t, k, d).data = d
BY DEF Archive

\* A new archive.
LEMMA ArchivedLinks ==
  ASSUME FilesInv, LinkInv, NEW n \in Names, NEW k \in {"s", "u"},
         \A m \in Names : ~Linked(m), Archived(k, file[n].data),
         file' \in [Names -> AnyFile], file'[n].link = Name(k), file'[n].data = file[n].data,
         \A m \in Names \ {n} : file'[m] = file[m], now' = now
  PROVE  LinkInv' /\ FileTypes'
<1> DEFINE a == Archive(Name(k), k, file[n].data)
<1>0. /\ FileTypes /\ now \in Nat /\ Name(k) \in Nat \ {0} /\ Name(k) <= 2 * now + 1
      /\ now' = now
  BY TypesParts, NameIs DEF FilesInv
<1>1. a.t = Name(k) /\ a.data = file[n].data
  BY ArchiveParts
<1>2. a \in AnyArchive
  BY <1>0, FileParts DEF Archive, AnyArchive
<1>3. IsFiniteSet(old')
  BY <1>0, FS_AddElement DEF FileTypes, Archived
<1>4. old' = old \cup {a} /\ \A g \in old : g.t < a.t
  BY <1>1 DEF Archived
<1> HIDE DEF a
<1>5. FileTypes'
  BY <1>0, <1>2, <1>3, <1>4 DEF FileTypes
<1>6. \A g \in old : g.t \in Nat /\ g.t <= 2 * now + 1
  BY <1>0 DEF FileTypes, AnyArchive, LinkInv
<1>7. (\A g \in old : g.t <= 2 * now + 1)'
  BY <1>0, <1>1, <1>4, <1>6
<1>8. (\A f, g \in old : f.t = g.t => f = g)'
  BY <1>0, <1>1, <1>4, <1>6 DEF LinkInv
<1>9. \A m \in Names : Linked(m)' => m = n
  BY DEF Linked
<1>10. (\A m \in Names : Linked(m) => \E g \in old : g.t = file[m].link /\ g.data = file[m].data)'
  BY <1>1, <1>4, <1>9
<1> QED
  BY <1>5, <1>7, <1>8, <1>10 DEF LinkInv

\* The name that a file is to have is taken only where the file is current, and empty;
\* otherwise it comes after all the others.
LEMMA LinkNames ==
  ASSUME FilesInv, LinkInv, StampInv, pc = "link", file[fin[1]].on, Unlinked(file[fin[1]])
  PROVE  IF Taken(Name(fin[2])) THEN Named("current") /\ Current.data = <<>>
         ELSE \A g \in old : g.t < Name(fin[2])
<1>1. /\ FileTypes /\ Control /\ Shape /\ Called
      /\ Running <=> ffail = "unfinished"
      /\ Named("previous") => ~Processed.on
      /\ Named("processed") => ~Previous.on
  BY CallShape DEF Calls
<1>2. /\ Named("current") \/ Named("previous") \/ Named("processed")
      /\ fin[2] \in {"s", "u"} /\ (Named("current") => fin[2] = "u")
      /\ Running \/ Starting
  BY <1>1 DEF Called, Call, Named, Starting, Calls
<1>3. fin[1] \in Names
  BY <1>2, ThreeNames DEF Named
<1>4. file[fin[1]].link = 0
  BY <1>1, <1>3, UnlinkedIs DEF Linked
<1>5. \A g \in old : g.t \in Nat \ {0} /\ g.t <= 2 * now + 1
  BY <1>1 DEF FileTypes, AnyArchive, LinkInv
<1>6. now \in Nat /\ Name("s") = 2 * now /\ Name("u") = 2 * now + 1
  BY NameIs
<1>7. CASE Named("current")
  <2>1. Name(fin[2]) = 2 * now + 1 /\ Starting
    BY <1>1, <1>2, <1>6, <1>7, CalledNames DEF Starting, Calls
  <2>2. CASE Taken(2 * now + 1)
    <3>1. PICK g \in old : g.t = 2 * now + 1
      BY <2>2 DEF Taken
    <3>2. Current.link = 0
      BY <1>4, <1>7 DEF Named, Current
    <3>3. ~(g.t <= 2 * now \/ g.t = Current.link)
      BY <1>6, <3>1, <3>2
    <3> QED
      BY <1>7, <2>1, <2>2, <3>3 DEF StampInv
  <2>3. CASE ~Taken(2 * now + 1)
    BY <1>5, <1>6, <2>1, <2>3 DEF Taken
  <2> QED
    BY <2>1, <2>2, <2>3
<1>8. CASE Named("previous") \/ Named("processed")
  <2>1. \A g \in old : g.t < 2 * now
    BY <1>2, <1>4, <1>5, <1>8 DEF StampInv, Named
  <2>2. \A g \in old : g.t < Name(fin[2])
    BY <1>2, <1>5, <1>6, <2>1
  <2>3. ~Taken(Name(fin[2]))
    BY <1>2, <1>5, <1>6, <2>2 DEF Taken
  <2> QED
    BY <2>2, <2>3
<1> QED
  BY <1>2, <1>7, <1>8

LEMMA FinishLinkFiles ==
  ASSUME FilesInv, LinkInv, StampInv, FinishLink
  PROVE  FilesNext /\ (Still \/ Archives) /\ UNCHANGED <<out, start>>
<1> USE DEF Current, Previous, Processed
<1>1. /\ pc = "link" /\ pc \in Calls
      /\ UNCHANGED <<out, start, rd, b, proc, rstate, fin, fret, ffail, now>>
  BY DEF FinishLink, input, rets, Calls
<1>2. /\ FileTypes /\ Control /\ Shape /\ Called
      /\ ffail = "unfinished" => RunShape
      /\ Running <=> ffail = "unfinished"
      /\ Named("previous") => ~Processed.on
      /\ Named("processed") => ~Previous.on
      /\ ffail = "killed" => ~Current.x
  BY <1>1, CallShape
<1>3. /\ Named("current") \/ Named("previous") \/ Named("processed")
      /\ fin[2] \in {"s", "u"}
      /\ ffail = "unfinished" => fret = "finished"
      /\ ffail # "unfinished" => ffail = "killed"
      /\ Named("current") => fret = "open" /\ ffail = "killed" /\ ~Previous.on /\ ~Processed.on
      /\ ffail = "killed" /\ ~Named("current") => fret = "initcurrent"
      /\ Named("previous") /\ ffail = "unfinished" => rstate = "FINISHPREVIOUS"
      /\ Named("processed") /\ ffail = "unfinished" => rstate = "FINISHPROCESSED"
  BY <1>2, CalledNames
<1>4. ffail = "killed" => Starting /\ out = <<>> /\ start = rd /\ rstate = "WRITABLE"
  BY <1>1, <1>2 DEF Starting, Control
<1>5. Name(fin[2]) \in Nat \ {0}
  BY <1>3, NameIs
<1>6. fin[1] \in Names
  BY <1>3, ThreeNames DEF Named
<1>7. proc = "none"
  BY <1>1, <1>2, <1>3 DEF Control, Runs
<1>11. pc' = fret =>
         ~file[fin[1]].on \/ (Named("current") /\ Current.data = <<>> /\ ~Linked("current"))
  BY <1>1, <1>2, <1>3, <1>6, LinkNames, UnlinkedIs, ThreeNames DEF FinishLink, Named
<1>8. CASE pc' = fret /\ UNCHANGED <<old, file>>
  <2>1. ffail = "unfinished" => Running'
    BY <1>1, <1>3, <1>8 DEF Running, Runs
  <2>2. ffail = "killed" => ~Running' /\ Starting'
    BY <1>1, <1>3, <1>8 DEF Running, Runs, Calls, Starting, Starts
  <2>3. Control'
    BY <1>1, <1>2, <1>3, <1>4, <1>7, <1>8 DEF Control, Runs, Calls, Starts, Starting
  <2>4. Shape'
    BY <1>1, <1>2, <1>8 DEF Shape, Linked
  <2>5. StartShape'
    BY <1>1, <1>2, <1>3, <1>8, <1>11, ThreeNames
    DEF StartShape, Starting, Starts, Calls, Named, Shape, Linked
  <2>6. \A n \in Names : ffail = "unfinished" => ~Linked(n)
    BY <1>1, <1>2 DEF RunShape
  <2>7. ffail = "unfinished" => RunShape'
    BY <1>1, <1>2, <1>3, <1>8, <1>11, <2>6
    DEF RunShape, Named, Linked, Early, Copied, Turned
  <2>8. LinkInv' /\ FileTypes' /\ Still
    BY <1>1, <1>2, <1>8 DEF LinkInv, FileTypes, Linked, Still, Mid, Cur, InRotation
  <2> QED
    BY <1>1, <1>3, <2>2, <2>3, <2>4, <2>5, <2>7, <2>8 DEF FilesNext
<1>9. CASE file[fin[1]].on /\ ~Unlinked(file[fin[1]]) /\ pc' = "unlink" /\ UNCHANGED <<old, file>>
  <2>1. Linked(fin[1])
    BY <1>2, <1>6, <1>9, UnlinkedIs
  <2>2. ffail # "unfinished"
    BY <1>1, <1>2, <1>6, <2>1 DEF RunShape
  <2>3. ~Running' /\ ffail = "killed"
    BY <1>1, <1>3, <1>9, <2>2 DEF Running, Runs, Calls
  <2>4. \A n \in Names : Linked(n) <=> n = fin[1]
    BY <1>2, <1>3, <2>1, ThreeNames DEF Shape, Named, Linked
  <2>5. Control'
    BY <1>1, <1>2, <1>3, <1>4, <1>7, <1>9, <2>3, <2>4
    DEF Control, Runs, Calls, Starts, Starting, Linked, Called, Call
  <2>6. Shape' /\ StartShape'
    BY <1>1, <1>2, <1>9, <2>3 DEF Shape, StartShape, Linked
  <2>7. LinkInv' /\ FileTypes' /\ Still
    BY <1>1, <1>2, <1>9 DEF LinkInv, FileTypes, Linked, Still, Mid, Cur, InRotation
  <2> QED
    BY <1>1, <2>3, <2>5, <2>6, <2>7 DEF FilesNext
<1>10. CASE /\ file[fin[1]].on /\ Unlinked(file[fin[1]]) /\ pc' = "unlink"
            /\ Archived(fin[2], file[fin[1]].data)
            /\ file' = [file EXCEPT ![fin[1]].link = Name(fin[2])]
  <2> DEFINE n == fin[1]
  <2>1. ~Linked(n)
    BY <1>2, <1>6, <1>10, UnlinkedIs
  <2>2. /\ file' \in [Names -> AnyFile]
        /\ file'[n].on = file[n].on /\ file'[n].data = file[n].data
        /\ file'[n].x = file[n].x /\ file'[n].link = Name(fin[2])
        /\ \A m \in Names \ {n} : file'[m] = file[m]
    BY <1>2, <1>5, <1>6, <1>10, ArchivedFile
  <2>3. \A m \in Names : ~Linked(m)
    BY <1>2, <1>3, <1>10, <2>1, ThreeNames DEF Shape, Named, Linked
  <2>4. LinkInv' /\ FileTypes'
    BY <1>1, <1>3, <1>6, <1>10, <2>2, <2>3, ArchivedLinks
  <2>5. \A m \in Names : Linked(m)' <=> m = n
    BY <1>5, <2>2, <2>3 DEF Linked
  <2>6. UNCHANGED fin
    BY <1>1
  <2>7. Control'
    BY <1>1, <1>2, <1>3, <1>4, <1>6, <1>7, <1>10, <2>2, <2>5, ThreeNames
    DEF Control, Runs, Calls, Starts, Starting, Called, Call, Named
  <2>8. Current.x => ~Named("current")
    BY <1>2, <1>3
  <2>9. Shape' /\ StartShape'
    BY <1>1, <1>2, <1>3, <1>6, <1>7, <1>10, <2>2, <2>5, <2>8, ThreeNames
    DEF Shape, StartShape, Named
  <2>10. ffail = "unfinished" => RunShape'
    BY <1>1, <1>2, <1>3, <1>6, <1>7, <1>10, <2>2, <2>5, ThreeNames
    DEF RunShape, Named, Early, Copied, Turned
  <2>11. (Running => RunShape)'
    BY <1>1, <1>10, <2>10 DEF Running, Runs
  <2>12. Archives
    <3>1. CASE Named("current")
      BY <1>2, <1>3, <1>4, <1>5, <1>10, <2>2, <2>3, <2>5, <3>1, ThreeNames
      DEF Archives, Mid, Cur, InRotation, Named, Linked, Shape
    <3>2. CASE Named("previous")
      BY <1>2, <1>3, <1>5, <1>10, <2>2, <2>3, <2>5, <3>2, ThreeNames
      DEF Archives, Mid, Cur, InRotation, Named, Linked, Shape
    <3>3. CASE Named("processed")
      BY <1>2, <1>3, <1>5, <1>10, <2>2, <2>3, <2>5, <3>3, ThreeNames
      DEF Archives, Mid, Cur, InRotation, Named, Linked, Shape
    <3> QED
      BY <1>3, <3>1, <3>2, <3>3
  <2> QED
    BY <1>1, <2>4, <2>7, <2>9, <2>11, <2>12 DEF FilesNext
<1> QED
  BY <1>1, <1>8, <1>9, <1>10, LinkNames DEF FinishLink, Archived

LEMMA FinishUnlinkFiles ==
  ASSUME FilesInv, LinkInv, FinishUnlink
  PROVE  FilesNext /\ Still /\ UNCHANGED <<out, start>>
<1> USE DEF Current, Previous, Processed
<1>1. /\ pc = "unlink" /\ pc \in Calls /\ pc' = "trim" /\ file' = [file EXCEPT ![fin[1]] = None]
      /\ UNCHANGED <<out, start, rd, b, proc, rstate, fin, fret, ffail, old, now>>
  BY DEF FinishUnlink, input, rets, Calls
<1>2. /\ FileTypes /\ Control /\ Shape /\ Called
      /\ ffail = "unfinished" => RunShape
      /\ Running <=> ffail = "unfinished"
      /\ Named("previous") => ~Processed.on
      /\ Named("processed") => ~Previous.on
      /\ ffail = "killed" => ~Current.x
  BY <1>1, CallShape
<1>3. /\ Named("current") \/ Named("previous") \/ Named("processed")
      /\ ffail # "unfinished" => ffail = "killed"
      /\ Named("current") => ffail = "killed" /\ ~Previous.on /\ ~Processed.on
      /\ Named("previous") /\ ffail = "unfinished" => rstate = "FINISHPREVIOUS"
      /\ Named("processed") /\ ffail = "unfinished" => rstate = "FINISHPROCESSED"
  BY <1>2, CalledNames
<1>4. ffail = "killed" => Starting /\ out = <<>> /\ start = rd /\ rstate = "WRITABLE"
  BY <1>1, <1>2 DEF Starting, Control
<1>5. fin[1] \in Names
  BY <1>3, ThreeNames DEF Named
<1>6. proc = "none"
  BY <1>1, <1>2, <1>3 DEF Control, Runs
<1>7. \A n \in Names : Linked(n) <=> n = fin[1]
  BY <1>1, <1>2 DEF Control
<1>8. /\ file' \in [Names -> AnyFile] /\ file'[fin[1]] = None
      /\ \A m \in Names \ {fin[1]} : file'[m] = file[m]
  BY <1>1, <1>2, <1>5, EmptyFiles, Replaced
<1>9. \A n \in Names : ~Linked(n)'
  BY <1>5, <1>7, <1>8, EmptyFiles DEF Linked
<1>10. Control'
  BY <1>1, <1>2, <1>3, <1>4, <1>5, <1>6, <1>8, <1>9, EmptyFiles, ThreeNames
  DEF Control, Runs, Calls, Starts, Starting, Called, Call, Named
<1>11. Shape'
  BY <1>1, <1>2, <1>3, <1>5, <1>6, <1>8, <1>9, EmptyFiles, ThreeNames DEF Shape, Named
<1>16. StartShape'
  BY <1>1, <1>2, <1>3, <1>5, <1>8, EmptyFiles, ThreeNames
  DEF StartShape, Starting, Starts, Calls
<1>12. ffail = "unfinished" => RunShape'
  BY <1>1, <1>2, <1>3, <1>5, <1>6, <1>8, <1>9, EmptyFiles, ThreeNames
  DEF RunShape, Named, Early, Copied, Turned
<1>13. (Running => RunShape)'
  BY <1>1, <1>12 DEF Running, Runs
<1>14. LinkInv' /\ FileTypes'
  BY <1>1, <1>2, <1>8, <1>9, LinkQuiet DEF FileTypes
<1>15. Still
  <2>1. CASE Named("current")
    BY <1>1, <1>2, <1>3, <1>5, <1>7, <1>8, <1>9, <2>1, EmptyFiles, ThreeNames
    DEF Still, Mid, Cur, InRotation, Linked, Shape, Named
  <2>2. CASE Named("previous")
    BY <1>1, <1>2, <1>3, <1>5, <1>7, <1>8, <1>9, <2>2, EmptyFiles, ThreeNames
    DEF Still, Mid, Cur, InRotation, Linked, Shape, Named
  <2>3. CASE Named("processed")
    BY <1>1, <1>2, <1>3, <1>5, <1>7, <1>8, <1>9, <2>3, EmptyFiles, ThreeNames
    DEF Still, Mid, Cur, InRotation, Linked, Shape, Named
  <2> QED
    BY <1>3, <2>1, <2>2, <2>3
<1> QED
  BY <1>1, <1>10, <1>11, <1>16, <1>13, <1>14, <1>15 DEF FilesNext

\* The oldest files are removed.
Trims == old' = Trim(old) /\ Mid' = Mid /\ Cur' = Cur

LEMMA FinishTrimFiles ==
  ASSUME FilesInv, LinkInv, FinishTrim
  PROVE  FilesNext /\ (Still \/ Trims) /\ UNCHANGED <<out, start>>
<1> USE DEF Current, Previous, Processed
<1>1. /\ pc = "trim" /\ pc \in Calls
      /\ UNCHANGED <<out, start, rd, b, proc, rstate, fin, fret, ffail, file, now>>
      /\ \/ pc' = fret /\ old' = Trim(old)
         \/ pc' = ffail /\ UNCHANGED old
  BY DEF FinishTrim, Fail, input, rets, Calls
<1>2. /\ FileTypes /\ Control /\ Shape /\ Called
      /\ ffail = "unfinished" => RunShape
      /\ Running <=> ffail = "unfinished"
      /\ Named("previous") => ~Processed.on
      /\ Named("processed") => ~Previous.on
      /\ ffail = "killed" => ~Current.x
  BY <1>1, CallShape
<1>3. /\ Named("current") \/ Named("previous") \/ Named("processed")
      /\ ffail = "unfinished" => fret = "finished"
      /\ ffail # "unfinished" => ffail = "killed"
      /\ Named("current") => fret = "open" /\ ffail = "killed" /\ ~Previous.on /\ ~Processed.on
      /\ ffail = "killed" /\ ~Named("current") => fret = "initcurrent"
      /\ Named("previous") /\ ffail = "unfinished" => rstate = "FINISHPREVIOUS"
      /\ Named("processed") /\ ffail = "unfinished" => rstate = "FINISHPROCESSED"
  BY <1>2, CalledNames
<1>4. ffail = "killed" => out = <<>> /\ start = rd /\ rstate = "WRITABLE"
  BY <1>1, <1>2 DEF Starting, Control
<1>5. ~file[fin[1]].on /\ \A n \in Names : ~Linked(n)
  BY <1>1, <1>2 DEF Control
<1>6. proc = "none"
  BY <1>1, <1>2, <1>3 DEF Control, Runs
<1>7. old' \subseteq old /\ IsFiniteSet(old')
  BY <1>1, <1>2, FS_Subset DEF Trim, FileTypes
<1>8. Control'
  BY <1>1, <1>2, <1>3, <1>4, <1>6 DEF Control, Runs, Calls, Starts, Starting
<1>9. Shape'
  BY <1>1, <1>2 DEF Shape, Linked
<1>10. StartShape'
  BY <1>1, <1>2, <1>3, <1>5, ThreeNames
  DEF StartShape, Starting, Starts, Calls, Named, Shape, Linked
<1>11. pc' # "unlink" /\ pc' # "finalize" /\ (Running' => ffail = "unfinished")
  BY <1>1, <1>3 DEF Running, Runs, Calls
<1>12. ffail = "unfinished" => RunShape'
  BY <1>1, <1>2, <1>3, <1>5, <1>11 DEF RunShape, Named, Linked, Early, Copied, Turned
<1>13. FileTypes'
  BY <1>1, <1>2, <1>7 DEF FileTypes
<1>14. LinkInv'
  BY <1>1, <1>5, <1>7 DEF LinkInv, Linked
<1>15. Still \/ Trims
  BY <1>1 DEF Still, Trims, Mid, Cur, InRotation, Linked
<1> QED
  BY <1>1, <1>8, <1>9, <1>10, <1>11, <1>12, <1>13, <1>14, <1>15 DEF FilesNext

-----------------------------------------------------------------------------
(* Writing to current, the processor, and the end                          *)

\* The first n bytes that are to be written are written to current.
Writes(n) == /\ old' = old /\ Mid' = Mid /\ n \in 1 .. Len(out)
             /\ Cur' = Cur \o SubSeq(out, 1, n)
             /\ out' = SubSeq(out, n + 1, Len(out))

Wrote(n) ==
  /\ Writes(n) /\ b' = b + n
  /\ IF Nearly(b') /\ Newline(out[n]) THEN rstate' = "START" ELSE rstate' = "WRITABLE"

LEMMA FlushFiles ==
  ASSUME FilesInv, LinkInv, Flush, file' # file \/ old' # old \/ out' # out \/ b' # b
  PROVE  /\ FilesNext /\ start' = start /\ Running /\ rstate = "WRITABLE"
         /\ b < S /\ out # <<>> /\ pc = "flush" /\ b = Len(Current.data) /\ b = Len(Cur)
         /\ \E n \in 1 .. WriteLen : Wrote(n) /\ Write(n)
<1> USE DEF Current, Previous, Processed
<1>0. Scalars
  BY TypesParts DEF FilesInv
<1> PICK n \in 1 .. WriteLen : Write(n)
  BY <1>0, FlushWrites
<1>1. /\ pc = "flush" /\ out # <<>> /\ rstate = "WRITABLE" /\ b < S
      /\ SetData("current", Current.data \o SubSeq(out, 1, n))
      /\ out' = SubSeq(out, n + 1, Len(out)) /\ b' = b + n
      /\ IF Nearly(b') /\ Newline(out[n])
         THEN rstate' = "START" /\ pc' = "rotator"
         ELSE UNCHANGED <<pc, rstate>>
      /\ UNCHANGED <<now, start, rd, proc>>
  BY <1>0, FlushWrites DEF Flush, Write, CallRotator
<1>2. /\ FileTypes /\ Control /\ Shape /\ Scalars
  BY TypesParts DEF FilesInv
<1>3. Running /\ RunShape
  BY <1>1 DEF FilesInv, Running, Runs
<1>4. \A m \in Names : ~Linked(m)
  BY <1>1, <1>3 DEF RunShape
<1>5. n \in 1 .. Len(out) /\ Len(out) \in Nat
  BY <1>1, <1>2, WriteLenFacts
<1> DEFINE d == SubSeq(out, 1, n)
           c == Current.data
<1>6. d \in Text /\ Len(d) = n
  <2>1. \A i \in 1 .. n : out[i] \in Nat
    BY <1>2, <1>5, ElementOfSeq DEF Text, Scalars
  <2> QED
    BY <1>2, <1>5, <2>1, SubSeqProperties DEF Text, Scalars
<1>7. c \in Text
  BY <1>2, FileParts, ThreeNames
<1>8. c \o d \in Text /\ Len(c \o d) = Len(c) + n
  BY <1>6, <1>7, ConcatProperties DEF Text
<1>9. /\ file' \in [Names -> AnyFile] /\ old' = old
      /\ Current'.on /\ Current'.data = c \o d /\ Current'.link = Current.link
      /\ Current'.x = Current.x /\ Previous' = Previous /\ Processed' = Processed
  BY <1>1, <1>2, <1>4, <1>8, SetDataFacts, ThreeNames
<1>10. ~Previous.on /\ ~Processed.on /\ ~Current.x /\ b = Len(c) /\ proc = "none"
  BY <1>1, <1>2, <1>3 DEF RunShape, Early, Copied, Turned, Control
<1> HIDE DEF c, d
<1>11. Control'
  BY <1>1, <1>2, <1>4, <1>10 DEF Control, Calls, Starts, Starting, Runs
<1>12. Shape' /\ StartShape'
  BY <1>1, <1>2, <1>4, <1>9, <1>10, ThreeNames
  DEF Shape, StartShape, Linked, Starting, Starts, Calls
<1>13. RunShape'
  BY <1>1, <1>2, <1>3, <1>4, <1>8, <1>9, <1>10, ThreeNames
  DEF Shape, RunShape, Linked, Early, Copied, Turned
<1>14. LinkInv' /\ FileTypes'
  BY <1>1, <1>2, <1>4, <1>9, ThreeNames, LinkQuiet DEF FileTypes, Linked
<1>15. Wrote(n)
  BY <1>1, <1>4, <1>5, <1>9, ThreeNames
  DEF Wrote, Writes, Mid, Cur, InRotation, Linked, c, d
<1>16. Cur = c
  BY <1>4, ThreeNames DEF Cur, c
<1> QED
  BY <1>1, <1>3, <1>10, <1>11, <1>12, <1>13, <1>14, <1>15, <1>16 DEF FilesNext, c

LEMMA ProcessFiles ==
  ASSUME FilesInv, LinkInv, Process
  PROVE  FilesNext /\ Still /\ UNCHANGED <<out, start>>
<1> USE DEF Current, Previous, Processed
<1>1. /\ proc = "run" /\ proc' \in {"ok", "failed"}
      /\ UNCHANGED <<pc, now, out, start, rd, b, rstate, fin, fret, ffail>>
      /\ \/ proc' = "ok" /\ SetData("processed", Previous.data)
         \/ proc' = "failed" /\ file' = file /\ old' = old
  BY DEF Process, input, rets
<1>2. FileTypes /\ Control /\ Shape /\ StartShape
  BY TypesParts DEF FilesInv
<1>3. Previous.on /\ ~Linked("previous") /\ ~Linked("processed") /\ ~Processed.x
  BY <1>1, <1>2, ThreeNames DEF Shape
<1>4. ~Linked("current") /\ ~Current.x
  BY <1>2, <1>3, ThreeNames DEF Shape
<1>5. /\ file' \in [Names -> AnyFile] /\ old' = old
      /\ Current' = Current /\ Previous' = Previous
      /\ Processed'.link = Processed.link /\ Processed'.x = Processed.x
      /\ \/ file' = file /\ proc' = "failed"
         \/ Processed'.on /\ Processed'.data = Previous.data
  <2>1. Previous.data \in Text
    BY <1>2, FileParts, ThreeNames
  <2> QED
    BY <1>1, <1>2, <1>3, <2>1, ThreeNames, SetDataFacts DEF FileTypes
<1>6. pc = "killed" \/ (Running /\ rstate = "WAITPROCESSOR")
  BY <1>1, <1>2 DEF Control
<1>7. pc \notin Calls /\ pc \notin Starts
  BY <1>2, <1>6 DEF Control, Called, Call, Running, Runs, Calls, Starts
<1>8. Control'
  BY <1>1, <1>2, <1>5, <1>6, <1>7 DEF Control, Calls, Starting, Running
<1>9. Shape'
  BY <1>1, <1>2, <1>3, <1>4, <1>5, ThreeNames DEF Shape, Linked
<1>10. StartShape'
  BY <1>1, <1>7 DEF StartShape, Starts, Starting
<1>11. (Running => RunShape)'
  <2>1. Running' => Running /\ rstate = "WAITPROCESSOR" /\ RunShape
    BY <1>1, <1>6 DEF Running, FilesInv, Runs, Calls
  <2>2. ASSUME Running, rstate = "WAITPROCESSOR", RunShape PROVE RunShape'
    BY <1>1, <1>3, <1>4, <1>5, <2>2, ThreeNames DEF RunShape, Linked, Early, Copied, Turned
  <2> QED
    BY <2>1, <2>2
<1>12. LinkInv' /\ FileTypes'
  BY <1>1, <1>2, <1>3, <1>4, <1>5, ThreeNames, LinkQuiet DEF FileTypes, Linked
<1>13. Still
  BY <1>1, <1>3, <1>5, ThreeNames DEF Still, Mid, Cur, InRotation, Linked
<1> QED
  BY <1>1, <1>8, <1>9, <1>10, <1>11, <1>12, <1>13 DEF FilesNext

LEMMA FinalizeFiles ==
  ASSUME FilesInv, LinkInv, Finalize
  PROVE  FilesNext /\ Still /\ UNCHANGED <<out, start>>
<1> USE DEF Current, Previous, Processed
<1>1. /\ pc = "finalize" /\ UNCHANGED <<old, now, out, start, rd, b, rstate, fin, fret, ffail, proc>>
      /\ \/ pc' = "done" /\ file' = [file EXCEPT !["current"].x = TRUE]
         \/ pc' = pc /\ file' = file
  BY DEF Finalize, Fail, input, rets
<1>2. FileTypes /\ Control /\ Shape /\ StartShape /\ RunShape
  BY <1>1, TypesParts DEF FilesInv, Running, Runs
<1>3. /\ \A n \in Names : ~Linked(n)
      /\ ~Previous.on /\ ~Processed.on /\ Current.on /\ proc = "none"
  BY <1>1, <1>2 DEF RunShape, Early, Copied, Turned, Control
<1>4. CASE pc' = pc /\ file' = file
  <2>1. Control' /\ Shape' /\ StartShape' /\ (Running => RunShape)'
    BY <1>1, <1>2, <1>3, <1>4
    DEF Control, Shape, StartShape, Running, Starting, Starts, Calls, RunShape, Linked
  <2> QED
    BY <1>1, <1>2, <1>4, <2>1
    DEF LinkInv, FileTypes, Linked, Still, Mid, Cur, InRotation, FilesNext
<1>5. CASE pc' = "done" /\ file' = [file EXCEPT !["current"].x = TRUE]
  <2>1. /\ file' \in [Names -> AnyFile] /\ Current'.x /\ Current'.on
        /\ Current'.data = Current.data /\ Current'.link = Current.link
        /\ Previous' = Previous /\ Processed' = Processed
    BY <1>2, <1>3, <1>5, Chmoded, ThreeNames
  <2>2. Control'
    BY <1>1, <1>2, <1>3, <1>5 DEF Control, Calls, Starts, Starting
  <2>3. Shape' /\ StartShape' /\ ~Running'
    BY <1>1, <1>2, <1>3, <1>5, <2>1, ThreeNames
    DEF Shape, StartShape, Starting, Starts, Calls, Linked, Running, Runs
  <2>4. LinkInv' /\ FileTypes'
    BY <1>1, <1>2, <1>3, <2>1, ThreeNames, LinkQuiet DEF FileTypes, Linked
  <2>5. Still
    BY <1>1, <2>1 DEF Still, Mid, Cur, InRotation, Linked
  <2> QED
    BY <1>1, <2>2, <2>3, <2>4, <2>5 DEF FilesNext
<1> QED
  BY <1>1, <1>4, <1>5

-----------------------------------------------------------------------------
(* The actions that change no file                                         *)

\* The place in the program changes within the loop.
Moves ==
  /\ pc \in Runs /\ pc' \in Runs \ {"finished", "unfinished"}
  /\ pc' = "finalize" => rstate' = "WRITABLE" /\ out' = <<>>
  /\ now' = now \/ now' = now + 1
  /\ UNCHANGED <<file, old>>
  /\ b' = b

LEMMA MovesShape ==
  ASSUME FilesInv, LinkInv, Moves
  PROVE  /\ Shape /\ Control /\ RunShape /\ FileTypes
         /\ StartShape' /\ LinkInv' /\ FileTypes' /\ Still /\ Running' /\ ~Starting'
         /\ proc' \in {"none", proc} => Shape'
         /\ proc' \in {"none", proc} /\ rstate' = rstate => RunShape' /\ Control'
         /\ proc' = "none" => Control'
<1> USE DEF Current, Previous, Processed
<1>1. FileTypes /\ Control /\ Shape /\ RunShape
  BY TypesParts DEF FilesInv, Moves, Running
<1>2. pc' \notin Calls /\ pc' \notin Starts /\ Running' /\ ~Starting'
  BY DEF Moves, Runs, Calls, Starts, Running, Starting
<1>3. StartShape'
  BY <1>2 DEF StartShape, Starts
<1>4. LinkInv' /\ FileTypes' /\ Still
  BY <1>1, LinkQuiet DEF Moves, FileTypes, Linked, Still, Mid, Cur, InRotation
<1>5. proc' \in {"none", proc} => Shape'
  BY <1>1 DEF Shape, Moves, Linked
<1>6. ASSUME proc' \in {"none", proc}, rstate' = rstate PROVE RunShape' /\ Control'
  <2>1. /\ pc # "unlink" /\ pc # "trim" /\ pc # "killed"
        /\ pc' # "unlink" /\ pc' # "trim" /\ pc' # "link"
    BY DEF Moves, Runs
  <2>2. RunShape'
    BY <1>1, <1>6, <2>1 DEF RunShape, Moves, Linked, Early, Copied, Turned
  <2>3. Control'
    BY <1>1, <1>2, <1>6, <2>1 DEF Control, Moves
  <2> QED
    BY <2>2, <2>3
<1>7. ASSUME proc' = "none" PROVE Control'
  BY <1>2, <1>7 DEF Control, Moves, Runs
<1> QED
  BY <1>1, <1>2, <1>3, <1>4, <1>5, <1>6, <1>7

LEMMA MovesFiles ==
  ASSUME FilesInv, LinkInv, Moves, rstate' = rstate, proc' = proc
  PROVE  FilesNext /\ Still
BY MovesShape DEF FilesNext

\* So it is for most of the actions of the loop.
LEMMA LoopFiles ==
  ASSUME FilesInv, LinkInv,
         \/ RotatorWait \/ RotatorFail \/ Signals \/ Term \/ NormalStdin \/ Line \/ LastStdin
         \/ NoStdin \/ Loop
  PROVE  FilesNext /\ Still
<1>1. Scalars
  BY TypesParts DEF FilesInv
<1>2. CASE RotatorWait
  BY <1>1, <1>2, MovesFiles DEF RotatorWait, Rotator, Moves, Runs, Scalars
<1>3. CASE Signals
  BY <1>3, MovesFiles DEF Signals, Moves, Runs
<1>4. CASE Term
  BY <1>4, MovesFiles DEF Term, Moves, Runs
<1>5. CASE NormalStdin
  BY <1>5, MovesFiles DEF NormalStdin, Moves, Runs
<1>6. CASE Line
  BY <1>6, MovesFiles DEF Line, Moves, Runs
<1>7. CASE LastStdin
  BY <1>7, MovesFiles DEF LastStdin, Moves, Runs
<1>8. CASE NoStdin
  BY <1>8, MovesFiles DEF NoStdin, Moves, Runs
<1>9. CASE Loop
  BY <1>9, MovesFiles DEF Loop, Moves, Runs, Allflushed, input
<1>10. CASE RotatorFail
  BY <1>1, <1>10, MovesFiles DEF RotatorFail, Moves, Runs, Scalars
<1> QED
  BY <1>2, <1>3, <1>4, <1>5, <1>6, <1>7, <1>8, <1>9, <1>10

\* The rotator goes on, or is started or left.
LEMMA RotatorQuietFiles ==
  ASSUME FilesInv, LinkInv, RotatorQuiet
  PROVE  FilesNext /\ Still
<1>1. /\ pc = "rotator" /\ UNCHANGED <<pc, file, old, b, proc>>
      /\ now' = now \/ now' = now + 1
      /\ \/ rstate = "START" /\ rstate' = "RENAME"
         \/ rstate = "SYNCNEWSTATE" /\ rstate' = "UNLINKPREVIOUS"
         \/ rstate = "RENAMESTATE" /\ rstate' = "FINISHPROCESSED"
  BY DEF RotatorQuiet, Rotator, Then
<1>2. Moves
  BY <1>1 DEF Moves, Runs
<1>3. Control /\ RunShape /\ Shape' /\ proc' = "none"
  BY <1>1, <1>2, MovesShape DEF Control
<1>4. RunShape'
  BY <1>1, <1>3 DEF RunShape, Linked, Early, Copied, Turned, Current, Previous, Processed
<1> QED
  BY <1>2, <1>3, <1>4, MovesShape DEF FilesNext

LEMMA RotatorFinishedFiles ==
  ASSUME FilesInv, LinkInv, RotatorFinished
  PROVE  FilesNext /\ Still
<1>1. /\ pc \in {"finished", "unfinished"} /\ UNCHANGED <<file, old, now, b, proc>>
      /\ pc' \in {rok, rfail} /\ rstate' \in {rstate, "WRITABLE"}
  BY DEF RotatorFinished
<1>2. Moves
  BY <1>1, TypesParts DEF Moves, Runs, FilesInv, Scalars
<1>3. Control /\ RunShape /\ Shape' /\ proc' = "none"
  BY <1>1, <1>2, MovesShape DEF Control, RunShape
<1>4. ~Processed.x
  BY <1>1, <1>2, MovesShape, ThreeNames
  DEF RunShape, Shape, Early, Copied, Turned, Previous, Processed
<1>5. RunShape'
  BY <1>1, <1>2, <1>3, <1>4
  DEF RunShape, Moves, Linked, Early, Copied, Turned, Current, Previous, Processed
<1> QED
  BY <1>2, <1>3, <1>5, MovesShape DEF FilesNext

LEMMA StartsRotator ==
  ASSUME FilesInv, LinkInv, Moves, rstate = "WRITABLE", rstate' = "START", proc' = proc
  PROVE  FilesNext /\ Still
<1>1. Control /\ RunShape /\ Shape' /\ proc' = "none"
  BY MovesShape DEF Control, Moves, Runs
<1>2. RunShape'
  BY <1>1
  DEF RunShape, Moves, Runs, Linked, Early, Copied, Turned, Current, Previous, Processed
<1> QED
  BY <1>1, <1>2, MovesShape DEF FilesNext

LEMMA AlarmFiles ==
  ASSUME FilesInv, LinkInv, Alarm
  PROVE  FilesNext /\ Still
<1>1. Moves /\ proc' = proc
  BY DEF Alarm, CallRotator, Moves, Runs
<1>2. rstate' = rstate \/ (rstate = "WRITABLE" /\ rstate' = "START")
  BY DEF Alarm, CallRotator
<1> QED
  BY <1>1, <1>2, MovesFiles, StartsRotator

LEMMA FlushQuietFiles ==
  ASSUME FilesInv, LinkInv, Flush, UNCHANGED <<file, old, out, b>>
  PROVE  FilesNext /\ Still
<1>1. Scalars
  BY TypesParts DEF FilesInv
<1>2. out # <<>> /\ b < S => ~Write(WriteLen) /\ \A n \in 1 .. (WriteLen - 1) : ~Write(n)
  <2> SUFFICES ASSUME out # <<>>, b < S, NEW n \in 1 .. WriteLen PROVE b + n # b
    BY <1>1, WriteLenFacts DEF Write
  <2> QED
    BY <1>1, WriteLenFacts DEF Scalars
<1>3. Moves /\ proc' = proc
  BY <1>2 DEF Flush, CallRotator, Moves, Runs
<1>4. rstate' = rstate \/ (rstate = "WRITABLE" /\ rstate' = "START")
  BY <1>2 DEF Flush, CallRotator
<1> QED
  BY <1>3, <1>4, MovesFiles, StartsRotator

LEMMA ProcessorDiedFiles ==
  ASSUME FilesInv, LinkInv, ProcessorDied
  PROVE  FilesNext /\ Still
<1>1. /\ pc = "signals" /\ proc \in {"ok", "failed"} /\ proc' = "none"
      /\ pc' \in {"rotator", "signals"} /\ UNCHANGED <<file, old, now, b>>
      /\ rstate' = IF proc = "ok" THEN "SYNCPROCESSED" ELSE "RUNPROCESSOR"
  BY DEF ProcessorDied, CallRotator
<1>2. Moves
  BY <1>1 DEF Moves, Runs
<1>3. Control /\ RunShape /\ Shape'
  BY <1>1, <1>2, MovesShape
<1>4. rstate = "WAITPROCESSOR"
  BY <1>1, <1>3 DEF Control
<1>5. RunShape'
  BY <1>1, <1>3, <1>4 DEF RunShape, Linked, Early, Copied, Turned, Current, Previous, Processed
<1> QED
  BY <1>1, <1>2, <1>3, <1>5, MovesShape DEF FilesNext

\* What happens outside, or nothing.
LEMMA SameFiles ==
  ASSUME FilesInv, LinkInv,
         UNCHANGED <<pc, rstate, file, old, now, b, out, start, rd, fin, fret, ffail, proc>>
  PROVE  FilesNext /\ Still
<1>1. FileTypes /\ Control /\ Shape /\ StartShape /\ (Running => RunShape)
  BY TypesParts DEF FilesInv
<1>2. Control' /\ Shape' /\ StartShape'
  BY <1>1 DEF Control, Shape, StartShape, Running, Starting, Linked, Called, Call,
              Current, Previous, Processed
<1>3. (Running => RunShape)'
  BY <1>1 DEF RunShape, Running, Linked, Current, Previous, Processed
<1>4. LinkInv' /\ FileTypes' /\ Still
  BY <1>1 DEF LinkInv, FileTypes, Linked, Still, Mid, Cur, InRotation, Current
<1> QED
  BY <1>2, <1>3, <1>4 DEF FilesNext

\* finish() is called.
LEMMA CallsFiles ==
  ASSUME FilesInv, LinkInv, InitCurrent \/ RotatorFinish
  PROVE  FilesNext /\ Still
<1>0. FileTypes /\ Control /\ Shape /\ StartShape /\ (Running => RunShape)
  BY TypesParts DEF FilesInv
<1>1. CASE InitCurrent
  <2>1. /\ pc = "initcurrent" /\ fin' = <<"current", "u">> /\ fret' = "open"
        /\ ffail' = "killed" /\ pc' = "link"
        /\ UNCHANGED <<file, old, now, b, out, start, rd, rstate, proc>>
    BY <1>1 DEF InitCurrent, CallFinish, input
  <2>2. ~Running' /\ Starting /\ ~Running
    BY <2>1 DEF Running, Starting, Runs, Calls, Starts
  <2>3. ~Previous.on /\ ~Processed.on /\ ~Current.x /\ proc = "none"
    BY <1>0, <2>1, <2>2 DEF StartShape, Control
  <2>4. Control'
    BY <1>0, <2>1, <2>2, <2>3 DEF Control, Called, Call, Previous, Processed
  <2>5. Shape' /\ StartShape'
    BY <1>0, <2>1, <2>3 DEF Shape, StartShape, Linked, Previous, Processed, Current
  <2>6. LinkInv' /\ FileTypes' /\ Still
    BY <1>0, <2>1 DEF LinkInv, FileTypes, Linked, Still, Mid, Cur, InRotation, Current
  <2> QED
    BY <2>2, <2>4, <2>5, <2>6 DEF FilesNext
<1>2. CASE RotatorFinish
  <2>1. /\ pc = "rotator" /\ fret' = "finished" /\ ffail' = "unfinished" /\ pc' = "link"
        /\ \/ rstate = "FINISHPREVIOUS" /\ fin' = <<"previous", "s">>
           \/ rstate = "FINISHPROCESSED" /\ fin' = <<"processed", "s">>
        /\ UNCHANGED <<file, old, now, b, out, start, rd, rstate, proc>>
    BY <1>2 DEF RotatorFinish, Rotator, CallFinish, input
  <2>2. Running' /\ ~Starting' /\ Running
    BY <2>1 DEF Running, Starting, Runs, Calls, Starts
  <2>3. RunShape /\ proc = "none" /\ \A n \in Names : ~Linked(n)
    BY <1>0, <2>1, <2>2 DEF Control, RunShape
  <2>4. Control'
    BY <1>0, <2>1, <2>2, <2>3 DEF Control, Called, Call
  <2>5. Shape' /\ StartShape'
    BY <1>0, <2>1, <2>2, <2>3 DEF Shape, StartShape, Linked, Previous, Processed, Current
  <2>6. RunShape'
    BY <1>0, <2>1, <2>3 DEF RunShape, Linked, Previous, Processed, Current
  <2>7. LinkInv' /\ FileTypes' /\ Still
    BY <1>0, <2>1 DEF LinkInv, FileTypes, Linked, Still, Mid, Cur, InRotation, Current
  <2> QED
    BY <2>4, <2>5, <2>6, <2>7 DEF FilesNext
<1> QED
  BY <1>1, <1>2

\* s6-log is killed, or starts again.
LEMMA EndFiles ==
  ASSUME FilesInv, LinkInv, Kill \/ Restart
  PROVE  FilesNext /\ Still
<1>0. FileTypes /\ Control /\ Shape /\ StartShape
  BY TypesParts DEF FilesInv
<1>1. CASE Kill
  <2>1. pc' = "killed" /\ UNCHANGED <<file, old, now, b, out, start, rd, rstate, proc>>
    BY <1>1 DEF Kill, input
  <2>2. ~Running' /\ ~Starting'
    BY <2>1 DEF Running, Starting, Runs, Calls, Starts
  <2>3. Control'
    BY <1>0, <2>1, <2>2 DEF Control, Calls
  <2>4. Shape' /\ StartShape'
    BY <1>0, <2>1, <2>2 DEF Shape, StartShape, Linked, Previous, Processed, Current
  <2>5. LinkInv' /\ FileTypes' /\ Still
    BY <1>0, <2>1 DEF LinkInv, FileTypes, Linked, Still, Mid, Cur, InRotation, Current
  <2> QED
    BY <2>2, <2>3, <2>4, <2>5 DEF FilesNext
<1>2. CASE Restart
  <2>1. /\ pc' = "init" /\ start' = rd /\ rd' = rd /\ out' = <<>> /\ rstate' = "WRITABLE"
        /\ proc' = "none" /\ UNCHANGED <<file, old, b>> /\ now' = now + 1
    BY <1>2 DEF Restart
  <2>2. ~Running'
    BY <2>1 DEF Running, Runs, Calls
  <2>3. Control'
    BY <2>1 DEF Control, Calls
  <2>4. Shape' /\ StartShape'
    BY <1>0, <2>1 DEF Shape, StartShape, Linked, Previous, Processed, Current
  <2>5. LinkInv' /\ FileTypes' /\ Still
    BY <1>0, <2>1, LinkQuiet DEF FileTypes, Linked, Still, Mid, Cur, InRotation, Current
  <2> QED
    BY <2>2, <2>3, <2>4, <2>5 DEF FilesNext
<1> QED
  BY <1>1, <1>2

-----------------------------------------------------------------------------
(* The names of the archives                                               *)

\* After the time is taken every name is new.
LEMMA StampTaken ==
  ASSUME FilesInv, \A g \in old' : g.t \in Nat /\ g.t < 2 * now', now' \in Nat
  PROVE  StampInv'
BY DEF StampInv

\* Nothing that comes is linked, nothing that is linked changes.
LEMMA StampQuiet ==
  ASSUME StampInv, old' \subseteq old, now' = now,
         (Running \/ Starting)' => Running \/ Starting,
         Running' /\ rstate' = "RENAME" => Running /\ rstate = "RENAME",
         \A n \in {"previous", "processed"} : file'[n].on =>
           file[n].on /\ file'[n].link = file[n].link,
         Starting' => Starting /\ (\/ Current'.data = <<>>
                                   \/ Current'.data = Current.data /\ Current'.link = Current.link)
  PROVE  StampInv'
<1>1. (Running /\ rstate = "RENAME" => \A g \in old : g.t < 2 * now)'
  BY DEF StampInv
<1>2. (Running \/ Starting =>
       \A n \in {"previous", "processed"} : file[n].on =>
         \A g \in old : g.t < 2 * now \/ g.t = file[n].link)'
  BY DEF StampInv
<1>3. (Starting =>
       \/ Current.data = <<>>
       \/ \A g \in old : g.t <= 2 * now \/ g.t = Current.link)'
  BY DEF StampInv
<1> QED
  BY <1>1, <1>2, <1>3 DEF StampInv

LEMMA StampLink ==
  ASSUME FilesInv, LinkInv, StampInv, FinishLink
  PROVE  StampInv'
<1>1. /\ pc = "link" /\ pc \in Calls
      /\ UNCHANGED <<rstate, fin, fret, ffail, now>>
  BY DEF FinishLink, rets, Calls
<1>2. /\ FileTypes /\ Control /\ Shape /\ Called
      /\ Named("previous") => ~Processed.on
      /\ Named("processed") => ~Previous.on
  BY <1>1, CallShape
<1>3. /\ Named("current") \/ Named("previous") \/ Named("processed")
      /\ fin[2] \in {"s", "u"}
      /\ ffail = "unfinished" => fret = "finished"
      /\ ffail # "unfinished" => ffail = "killed"
      /\ Named("current") => fret = "open" /\ ~Previous.on /\ ~Processed.on
      /\ ffail = "killed" /\ ~Named("current") => fret = "initcurrent"
      /\ Named("current") => fin[2] = "u"
      /\ ffail = "unfinished" => rstate # "RENAME"
  BY <1>2, CalledNames DEF Called, Call, Named
<1>4. /\ pc' \in {fret, "unlink"} /\ (Running \/ Starting)
      /\ Running' => Running /\ ffail = "unfinished"
      /\ Starting' => Starting
  BY <1>1, <1>3 DEF FinishLink, Running, Starting, Runs, Calls, Starts
<1>5. CASE UNCHANGED <<old, file>>
  BY <1>1, <1>3, <1>4, <1>5, StampQuiet DEF Current
<1>6. ASSUME file[fin[1]].on, Unlinked(file[fin[1]]), ~Taken(Name(fin[2])),
             old' = old \cup {Archive(Name(fin[2]), fin[2], file[fin[1]].data)},
             file' = [file EXCEPT ![fin[1]].link = Name(fin[2])]
      PROVE  StampInv'
  <2> DEFINE n == fin[1]
             t == Name(fin[2])
             a == Archive(t, fin[2], file[n].data)
  <2>1. fin[1] \in Names /\ t \in Nat \ {0}
    BY <1>3, ThreeNames, NameIs DEF Named
  <2>2. /\ file'[n].on = file[n].on /\ file'[n].data = file[n].data /\ file'[n].link = t
        /\ \A m \in Names \ {n} : file'[m] = file[m]
    BY <1>2, <1>6, <2>1, ArchivedFile
  <2>3. file[n].link = 0 /\ a.t = t /\ old' = old \cup {a}
    BY <1>2, <1>6, <2>1, UnlinkedIs, ArchiveParts DEF Linked
  <2>4. \A g \in old : g.t \in Nat \ {0}
    BY <1>2 DEF FileTypes, AnyArchive
  <2>5. \A g \in old : g.t < t
    BY <1>1, <1>6, LinkNames
  <2>6. now' = now /\ now \in Nat /\ Name("u") = 2 * now + 1
    BY <1>1, NameIs
  <2> HIDE DEF a, t
  <2>7. (Running /\ rstate = "RENAME" => \A g \in old : g.t < 2 * now)'
    BY <1>1, <1>3, <1>4
  <2>8. CASE Named("current")
    <3>1. /\ Current'.link = t /\ Previous' = Previous /\ Processed' = Processed
          /\ t = 2 * now + 1
      BY <1>3, <2>2, <2>6, <2>8, ThreeNames DEF Named, Current, Previous, Processed, t
    <3>2. \A g \in old' : g.t <= 2 * now' \/ g.t = Current'.link
      BY <2>3, <2>4, <2>5, <2>6, <3>1
    <3> QED
      BY <1>3, <2>7, <2>8, <3>1, <3>2 DEF StampInv, Previous, Processed
  <2>9. CASE Named("previous") \/ Named("processed")
    <3>1. n \in {"previous", "processed"} /\ Current' = Current
      BY <2>2, <2>9, ThreeNames DEF Named, Current
    <3>2. \A g \in old : g.t < 2 * now
      BY <1>4, <1>6, <2>3, <2>4, <3>1 DEF StampInv
    <3>3. \A g \in old' : g.t < 2 * now' \/ g.t = file'[n].link
      BY <2>2, <2>3, <2>6, <3>2
    <3>4. \A m \in {"previous", "processed"} : file'[m].on => m = n
      BY <1>2, <2>2, <2>9, ThreeNames DEF Named, Previous, Processed
    <3>5. Current'.data = <<>>
      BY <1>2, <1>6, <2>9, <3>1 DEF Shape, Named, Previous, Processed
    <3> QED
      BY <2>7, <3>3, <3>4, <3>5 DEF StampInv
  <2> QED
    BY <1>3, <2>8, <2>9
<1> QED
  BY <1>5, <1>6 DEF FinishLink

LEMMA StampStep ==
  ASSUME FilesInv, LinkInv, StampInv, Next, FilesNext, Scalars'
  PROVE  StampInv'
<1>1. /\ FileTypes /\ Control /\ Shape /\ Scalars /\ (Running => RunShape)
      /\ now \in Nat /\ now' \in Nat
  BY TypesParts DEF FilesInv, Scalars
<1>2. \A g \in old : g.t \in Nat \ {0} /\ g.t <= 2 * now + 1
  BY <1>1 DEF FileTypes, AnyArchive, LinkInv
<1>3. CASE now' = now + 1 /\ old' = old
  <2>1. \A g \in old' : g.t \in Nat /\ g.t < 2 * now'
    BY <1>1, <1>2, <1>3
  <2> QED
    BY <1>1, <2>1, StampTaken
<1>4. ASSUME \A g \in old : g.t < 2 * now, now' = now, old' = old
      PROVE  StampInv'
  BY <1>1, <1>2, <1>4, StampTaken
<1>5. CASE ~Running' /\ ~Starting'
  BY <1>5 DEF StampInv
<1> USE DEF Running, Starting, Runs, Calls, Starts
<1>6. CASE LogdirInit
  <2>1. /\ \A n \in {"previous", "processed"} : file'[n].on => file'[n] = file[n]
        /\ Current' = Current
    BY <1>1, <1>6, Replaced, EmptyFiles, ThreeNames DEF LogdirInit, Current
  <2>2. old' = old /\ now' = now /\ pc = "init" /\ rstate' = rstate
    BY <1>6 DEF LogdirInit
  <2>3. rstate = "WRITABLE" /\ Starting
    BY <1>1, <2>2 DEF Control
  <2> QED
    BY <2>1, <2>2, <2>3, StampQuiet
<1>7. CASE InitCurrent
  <2>1. /\ UNCHANGED <<old, now, file, rstate>> /\ pc = "initcurrent"
    BY <1>7 DEF InitCurrent
  <2>2. rstate = "WRITABLE" /\ Starting
    BY <1>1, <2>1 DEF Control
  <2> QED
    BY <2>1, <2>2, StampQuiet DEF Current
<1>8. CASE InitOpen
  <2>1. /\ UNCHANGED <<old, now, rstate>> /\ pc \in {"open", "opencurrent"} /\ pc' = "loop"
    BY <1>8 DEF InitOpen
  <2>2. rstate = "WRITABLE" /\ Starting /\ ~Starting'
    BY <1>1, <2>1 DEF Control
  <2>3. \A n \in {"previous", "processed"} : file'[n] = file[n]
    BY <1>1, <1>8, ThreeNames DEF InitOpen, FileTypes
  <2> QED
    BY <2>1, <2>2, <2>3, StampQuiet
<1>9. CASE RotatorQuiet
  <2>1. CASE now' = now + 1
    BY <1>3, <1>9, <2>1 DEF RotatorQuiet
  <2>2. CASE now' = now /\ rstate' = "FINISHPROCESSED"
    <3>1. UNCHANGED <<old, file>> /\ pc = "rotator" /\ ~Starting'
      BY <1>9 DEF RotatorQuiet, Rotator, Then
    <3> QED
      BY <2>2, <3>1, StampQuiet
  <2> QED
    BY <1>9, <2>1, <2>2 DEF RotatorQuiet, Rotator, Then
<1>10. CASE RotatorRename
  BY <1>4, <1>10 DEF RotatorRename, Rotator, StampInv
<1>11. CASE RotatorNewcurrent \/ RotatorUnlinkprevious
  <2>1. /\ \A n \in {"previous", "processed"} : file'[n].on => file'[n] = file[n]
    BY <1>1, <1>11, Replaced, EmptyFiles, ThreeNames
    DEF RotatorNewcurrent, RotatorUnlinkprevious
  <2>2. /\ UNCHANGED <<old, now>> /\ pc = "rotator" /\ pc' = pc
        /\ rstate' \in {"CHMODPREVIOUS", "RENAMESTATE"}
    BY <1>11 DEF RotatorNewcurrent, RotatorUnlinkprevious, Rotator, Then
  <2> QED
    BY <2>1, <2>2, StampQuiet
<1>12. CASE RotatorChmodprevious
  <2>1. \A n \in {"previous", "processed"} :
          file'[n].on = file[n].on /\ file'[n].link = file[n].link
    BY <1>1, <1>12, Chmoded, ThreeNames DEF RotatorChmodprevious
  <2>2. /\ UNCHANGED <<old, now>> /\ pc = "rotator" /\ pc' = pc
        /\ rstate' \in {"RUNPROCESSOR", "FINISHPREVIOUS"}
    BY <1>12 DEF RotatorChmodprevious, Rotator, Then
  <2> QED
    BY <2>1, <2>2, StampQuiet
<1>13. CASE RotatorRun
  <2>1. pc = "rotator" /\ rstate = "RUNPROCESSOR" /\ now' = now
    BY <1>13 DEF RotatorRun, Rotator
  <2>2. Running /\ RunShape
    BY <1>1, <2>1
  <2>3. Previous.on /\ ~Linked("previous") /\ ~Linked("processed")
    BY <2>1, <2>2, ThreeNames DEF RunShape
  <2>4. old' = old
    BY <1>1, <1>13, <2>3, SetDataFacts, EmptySeq, ThreeNames DEF RotatorRun, Text
  <2> QED
    BY <1>2, <1>4, <2>1, <2>2, <2>3, <2>4 DEF StampInv, Linked, Previous
<1>14. CASE RotatorSyncprocessed
  BY <1>3, <1>14 DEF RotatorSyncprocessed
<1>15. CASE Restart
  BY <1>3, <1>15 DEF Restart
<1>16. CASE FinishLink
  BY <1>16, StampLink
<1>17. CASE FinishUnlink \/ FinishTrim
  <2>1. /\ pc \in Calls /\ Called /\ UNCHANGED <<now, rstate, fret, ffail>>
        /\ pc' \in {"trim", fret, ffail}
    BY <1>1, <1>17 DEF FinishUnlink, FinishTrim, Control, rets
  <2>2. /\ (Running \/ Starting)' => Running \/ Starting
        /\ Running' => Running
        /\ Starting' => Starting
    BY <2>1 DEF Called, Call
  <2>3. old' \subseteq old
    BY <1>17 DEF FinishUnlink, FinishTrim, Trim
  <2>4. \A n \in Names : file'[n] = file[n] \/ file'[n] = None
    BY <1>1, <1>17 DEF FinishUnlink, FinishTrim, FileTypes
  <2>5. /\ \A n \in {"previous", "processed"} : file'[n].on => file'[n] = file[n]
        /\ Current' = Current \/ Current'.data = <<>>
    BY <2>4, EmptyFiles, ThreeNames DEF Current
  <2> QED
    BY <2>1, <2>2, <2>3, <2>5, StampQuiet
<1>18. CASE Process
  <2>1. /\ proc = "run" /\ UNCHANGED <<pc, rstate, now>>
        /\ UNCHANGED <<old, file>> \/ SetData("processed", Previous.data)
    BY <1>18 DEF Process, rets, Previous
  <2>2. UNCHANGED <<ffail, fret>>
    BY <1>18 DEF Process, rets
  <2>3. CASE pc = "killed"
    BY <1>5, <2>1, <2>3
  <2>4. CASE Running /\ rstate = "WAITPROCESSOR"
    <3>1. /\ Previous.on /\ ~Linked("previous") /\ ~Linked("processed")
      BY <1>1, <2>1, <2>4, ThreeNames DEF RunShape, Control, Called, Call
    <3>2. old' = old
      BY <1>1, <2>1, <3>1, SetDataFacts, FileParts, ThreeNames DEF Previous
    <3> QED
      BY <1>2, <1>4, <2>1, <2>4, <3>1, <3>2 DEF StampInv, Linked, Previous
  <2> QED
    BY <1>1, <2>1, <2>3, <2>4 DEF Control
<1>19. CASE Flush
  <2>1. /\ pc = "flush" /\ now' = now /\ pc' \in {"stdin", "rotator", "flush"}
        /\ rstate' \in {"START", rstate}
    BY <1>19 DEF Flush, Write, CallRotator
  <2>2. CASE UNCHANGED <<file, old>>
    BY <2>1, <2>2, StampQuiet
  <2>3. CASE ~UNCHANGED <<file, old>>
    <3>1. PICK n \in 1 .. WriteLen : Write(n)
      BY <1>1, <1>19, <2>3, FlushWrites
    <3>2. /\ \A m \in {"previous", "processed"} : file'[m] = file[m]
      BY <1>1, <3>1, ThreeNames DEF Write, SetData, FileTypes
    <3>3. old' = old
      BY <1>19, <2>3, FlushFiles DEF Wrote, Writes
    <3> QED
      BY <2>1, <3>2, <3>3, StampQuiet
  <2> QED
    BY <2>2, <2>3
<1>20. CASE RotatorFinish \/ RotatorFinished \/ RotatorWait \/ RotatorFail \/ Signals
            \/ Alarm \/ Term \/ ProcessorDied \/ NormalStdin \/ Line \/ LastStdin \/ NoStdin \/ Loop
  <2>1. /\ UNCHANGED <<old, file, now>> /\ Running /\ ~Starting'
        /\ rstate' \in {"START", "WRITABLE", "SYNCPROCESSED", "RUNPROCESSOR", rstate}
    BY <1>1, <1>20
    DEF RotatorFinish, RotatorFinished, RotatorWait, RotatorFail, Signals, Alarm, Term,
        ProcessorDied, NormalStdin, Line, LastStdin, NoStdin, Loop, CallFinish, CallRotator, Rotator, Scalars
  <2> QED
    BY <2>1, StampQuiet
<1>21. CASE Finalize
  <2>1. /\ UNCHANGED <<old, now, rstate>> /\ pc = "finalize" /\ ~Starting'
        /\ \A n \in {"previous", "processed"} : file'[n] = file[n]
    BY <1>1, <1>21, ThreeNames DEF Finalize, FileTypes
  <2> QED
    BY <2>1, StampQuiet
<1>22. CASE Time \/ Send \/ Close
  <2>1. UNCHANGED <<old, now, file, rstate, pc, fret, ffail>>
    BY <1>22 DEF Time, Send, Close, rets
  <2> QED
    BY <2>1, StampQuiet DEF Current
<1>23. CASE Kill
  BY <1>5, <1>23 DEF Kill
<1> QED
  BY NextCases, <1>6, <1>7, <1>8, <1>9, <1>10, <1>11, <1>12, <1>13, <1>14, <1>15, <1>16,
     <1>17, <1>18, <1>19, <1>20, <1>21, <1>22, <1>23

-----------------------------------------------------------------------------
(* Every step                                                              *)

\* Bytes go to what is to be written: those of a line that is read.
Takes ==
  /\ start < rd' /\ Running
  /\ \E e \in (start + 1) .. rd' + 1 :
       /\ out' = out \o Selected(e)
       /\ \A i \in (start + 1) .. (e - 1) : ~Newline(i)
       /\ \/ e \in NL /\ start' = e
          \/ e = N + 1 /\ start' = N /\ rd' = N
  /\ Still

\* What is in memory is given up.
Drops == out' = <<>> /\ start' = rd /\ rd' = rd /\ pc \in {"killed", "done"} /\ Still

\* What a step does to the archive, to Mid, Cur and out.
Effect ==
  \/ UNCHANGED <<out, start>> /\ (Still \/ Renames \/ Archives \/ Trims)
  \/ /\ start' = start /\ b = Len(Cur) /\ b < S /\ out # <<>>
     /\ Running /\ rstate = "WRITABLE" /\ \E n \in 1 .. WriteLen : Wrote(n)
  \/ Takes
  \/ Drops

LEMMA InLineStep ==
  ASSUME Scalars, Control, InLine, Next
  PROVE  InLine'
<1>1. \A i \in NL : i \in Nat
  BY Constants
<1>2. CASE UNCHANGED <<rd, start>> /\ pc # "lines" /\ pc # "killed"
  BY <1>2 DEF InLine
<1>3. CASE pc' \in {"lines", "killed"}
  BY <1>3 DEF InLine
<1>4. CASE Kill \/ Restart
  BY <1>1, <1>4 DEF InLine, Kill, Restart, Scalars
<1>5. CASE Time \/ Process \/ Send \/ Close
  BY <1>5 DEF InLine, Time, Process, Send, Close, input
<1>6. CASE Line
  <2>1. CASE NL \cap (start + 1) .. rd = {} /\ UNCHANGED <<rd, start>>
    BY <1>1, <2>1 DEF InLine, Scalars
  <2> QED
    BY <1>3, <1>6, <2>1 DEF Line
<1>7. CASE NormalStdin
  BY <1>2, <1>3, <1>7 DEF NormalStdin
<1>8. CASE LastStdin
  BY <1>1, <1>8 DEF LastStdin, InLine, Scalars
<1>9. ASSUME ~Kill, ~Restart, ~Time, ~Process, ~Send, ~Close, ~Line, ~NormalStdin, ~LastStdin
      PROVE  UNCHANGED <<rd, start>> /\ pc # "lines" /\ pc # "killed"
  BY <1>9, NextCases
  DEF LogdirInit, InitCurrent, InitOpen, RotatorQuiet, RotatorRename, RotatorNewcurrent,
      RotatorChmodprevious, RotatorFinish, RotatorFinished, RotatorRun, RotatorWait,
      RotatorSyncprocessed, RotatorUnlinkprevious, RotatorFail, FinishLink, FinishUnlink,
      FinishTrim, Flush, Signals, Alarm, Term, ProcessorDied, NoStdin, Loop, Finalize, Rotator, input
<1> QED
  BY <1>2, <1>4, <1>5, <1>6, <1>7, <1>8, <1>9

LEMMA EffectStep ==
  ASSUME FilesInv, InLine, LinkInv, StampInv, Next
  PROVE  FilesNext /\ Effect
<1>1. Scalars
  BY TypesParts DEF FilesInv
<1>2. CASE UNCHANGED <<out, start>> /\ FilesNext /\ (Still \/ Renames \/ Archives \/ Trims)
  BY <1>2 DEF Effect
<1>3. CASE LogdirInit
  BY <1>2, <1>3, LogdirInitFiles DEF LogdirInit, input
<1>4. CASE InitCurrent
  BY <1>2, <1>4, CallsFiles DEF InitCurrent, input
<1>5. CASE InitOpen
  BY <1>2, <1>5, InitOpenFiles DEF InitOpen, input
<1>6. CASE RotatorQuiet
  BY <1>2, <1>6, RotatorQuietFiles DEF RotatorQuiet, input
<1>7. CASE RotatorRename
  BY <1>2, <1>7, RotatorRenameFiles
<1>8. CASE RotatorNewcurrent
  BY <1>2, <1>8, RotatorNewcurrentFiles
<1>9. CASE RotatorChmodprevious
  BY <1>2, <1>9, RotatorChmodpreviousFiles
<1>10. CASE RotatorFinish
  BY <1>2, <1>10, CallsFiles DEF RotatorFinish, input
<1>11. CASE RotatorFinished
  BY <1>2, <1>11, RotatorFinishedFiles DEF RotatorFinished, input
<1>12. CASE RotatorRun
  BY <1>2, <1>12, RotatorRunFiles
<1>13. CASE RotatorWait
  BY <1>2, <1>13, LoopFiles DEF RotatorWait, input
<1>14. CASE RotatorSyncprocessed
  BY <1>2, <1>14, RotatorSyncprocessedFiles
<1>15. CASE RotatorUnlinkprevious
  BY <1>2, <1>15, RotatorUnlinkpreviousFiles
<1>16. CASE FinishLink
  BY <1>2, <1>16, FinishLinkFiles
<1>17. CASE FinishUnlink
  BY <1>2, <1>17, FinishUnlinkFiles
<1>18. CASE FinishTrim
  BY <1>2, <1>18, FinishTrimFiles
<1>19. CASE Flush
  <2>1. CASE UNCHANGED <<file, old, out, b>>
    BY <1>2, <1>19, <2>1, FlushQuietFiles DEF Flush
  <2>2. CASE ~UNCHANGED <<file, old, out, b>>
    BY <1>19, <2>2, FlushFiles DEF Effect
  <2> QED
    BY <2>1, <2>2
<1>20. CASE Signals
  BY <1>2, <1>20, LoopFiles DEF Signals, input
<1>21. CASE Alarm
  BY <1>2, <1>21, AlarmFiles DEF Alarm, input
<1>22. CASE Term
  BY <1>2, <1>22, LoopFiles DEF Term, input
<1>23. CASE ProcessorDied
  BY <1>2, <1>23, ProcessorDiedFiles DEF ProcessorDied, input
<1>24. CASE NormalStdin
  BY <1>2, <1>24, LoopFiles DEF NormalStdin
<1>25. CASE Line
  <2>1. CASE UNCHANGED <<out, start>>
    BY <1>2, <1>25, <2>1, LoopFiles
  <2>2. ASSUME NEW e \in NL \cap (start + 1) .. rd, NL \cap (start + 1) .. (e - 1) = {},
               out' = out \o Selected(e), start' = e, rd' = rd
        PROVE  Takes
    <3>1. e \in (start + 1) .. (rd' + 1) /\ start < rd'
      BY <1>1, <2>2 DEF Scalars
    <3>2. \A i \in (start + 1) .. (e - 1) : ~Newline(i)
      BY <1>1, <2>2, Constants DEF Scalars, Newline
    <3>3. Still /\ Running
      BY <1>25, LoopFiles DEF Running, Runs, Line
    <3> QED
      BY <2>2, <3>1, <3>2, <3>3 DEF Takes
  <2> QED
    BY <1>25, <2>1, <2>2, LoopFiles DEF Line, Effect
<1>26. CASE LastStdin
  <2>1. FilesNext /\ Still /\ Running /\ pc = "stdin"
    BY <1>26, LoopFiles DEF Running, Runs, LastStdin
  <2>2. CASE UNCHANGED <<out, start>>
    BY <1>2, <2>1, <2>2
  <2>3. \A i \in (start + 1) .. rd : ~Newline(i)
    BY <1>1, <2>1, Constants DEF InLine, Newline, Scalars
  <2>4. CASE rd < N /\ rd' = rd + 1 /\ rd' \in NL /\ out' = out \o Selected(rd') /\ start' = rd'
    <3>1. rd' \in (start + 1) .. (rd' + 1) /\ start < rd' /\ rd' - 1 = rd
      BY <1>1, <2>4 DEF Scalars
    <3> QED
      BY <2>1, <2>3, <2>4, <3>1 DEF Effect, Takes
  <2>5. CASE rd = N /\ rd' = rd /\ start # rd /\ out' = out \o Selected(rd + 1) /\ start' = rd
    <3>1. rd + 1 \in (start + 1) .. (rd' + 1) /\ start < rd' /\ (rd + 1) - 1 = rd
      BY <1>1, <2>5 DEF Scalars
    <3> QED
      BY <2>1, <2>3, <2>5, <3>1 DEF Effect, Takes
  <2>6. CASE rd' = rd /\ start = rd /\ out' = out \o <<>> /\ start' = rd
    <3>1. out' = out
      BY <1>1, <2>6, ConcatProperties, EmptySeq DEF Scalars, Text
    <3> QED
      BY <1>2, <2>1, <2>6, <3>1
  <2> QED
    BY <1>26, <2>1, <2>2, <2>4, <2>5, <2>6 DEF LastStdin
<1>27. CASE NoStdin
  BY <1>2, <1>27, LoopFiles DEF NoStdin, input
<1>28. CASE Loop
  BY <1>2, <1>28, LoopFiles DEF Loop, input
<1>29. CASE Finalize
  BY <1>2, <1>29, FinalizeFiles
<1>30. CASE Time
  BY <1>2, <1>30, SameFiles DEF Time, input, rets
<1>31. CASE Process
  BY <1>2, <1>31, ProcessFiles
<1>32. CASE Send
  BY <1>2, <1>32, SameFiles DEF Send, input, rets
<1>33. CASE Close
  BY <1>2, <1>33, SameFiles DEF Close, input, rets
<1>34. CASE Kill
  BY <1>2, <1>34, EndFiles DEF Kill, input
<1>35. CASE Restart
  BY <1>35, EndFiles DEF Restart, Effect, Drops
<1>36. CASE RotatorFail
  BY <1>2, <1>36, LoopFiles DEF RotatorFail, input
<1> QED
  BY NextCases, <1>3, <1>4, <1>5, <1>6, <1>7, <1>8, <1>9, <1>10, <1>11, <1>12, <1>13,
     <1>14, <1>15, <1>16, <1>17, <1>18, <1>19, <1>20, <1>21, <1>22, <1>23, <1>24, <1>25,
     <1>26, <1>27, <1>28, <1>29, <1>30, <1>31, <1>32, <1>33, <1>34, <1>35, <1>36

-----------------------------------------------------------------------------
(* Texts                                                                   *)

LEMMA EmptyText ==
  /\ <<>> \in Text /\ Len(<<>>) = 0 /\ Rising(<<>>)
  /\ \A d \in Text : Below(<<>>, d) /\ Below(d, <<>>)
  /\ \A n : Within(<<>>, n)
<1>1. <<>> \in Text /\ Len(<<>>) = 0
  BY EmptySeq DEF Text
<1> QED
  BY <1>1 DEF Rising, Below, Within

LEMMA ElementIsNat ==
  ASSUME NEW d \in Text
  PROVE  Len(d) \in Nat /\ \A i \in 1 .. Len(d) : d[i] \in Nat
BY ElementOfSeq, LenProperties DEF Text

LEMMA ConcatTexts ==
  ASSUME NEW c \in Text, NEW d \in Text
  PROVE  /\ c \o d \in Text
         /\ Rising(c) /\ Rising(d) /\ Below(c, d) => Rising(c \o d)
         /\ \A e \in Text : Below(c, e) /\ Below(d, e) => Below(c \o d, e)
         /\ \A e \in Text : Below(e, c) /\ Below(e, d) => Below(e, c \o d)
         /\ \A n : Within(c, n) /\ Within(d, n) => Within(c \o d, n)
         /\ \A i \in 1 .. Len(c \o d) :
              (\E j \in 1 .. Len(c) : (c \o d)[i] = c[j]) \/ (\E j \in 1 .. Len(d) : (c \o d)[i] = d[j])
         /\ \A j \in 1 .. Len(c) : \E i \in 1 .. Len(c \o d) : (c \o d)[i] = c[j]
         /\ \A j \in 1 .. Len(d) : \E i \in 1 .. Len(c \o d) : (c \o d)[i] = d[j]
<1> DEFINE w == c \o d
<1>1. /\ w \in Text /\ Len(w) = Len(c) + Len(d)
      /\ \A i \in 1 .. Len(c) + Len(d) : w[i] = IF i <= Len(c) THEN c[i] ELSE d[i - Len(c)]
  BY ConcatProperties DEF Text
<1>2. Len(c) \in Nat /\ Len(d) \in Nat
  BY ElementIsNat
<1> HIDE DEF w
<1>3. \A i \in 1 .. Len(w) : (i <= Len(c) /\ i \in 1 .. Len(c) /\ w[i] = c[i])
                             \/ (i > Len(c) /\ i - Len(c) \in 1 .. Len(d) /\ w[i] = d[i - Len(c)])
  BY <1>1, <1>2
<1>4. Rising(c) /\ Rising(d) /\ Below(c, d) => Rising(w)
  <2> SUFFICES ASSUME Rising(c), Rising(d), Below(c, d),
                      NEW i \in 1 .. Len(w), NEW j \in 1 .. Len(w), i < j
               PROVE  w[i] < w[j]
    BY DEF Rising
  <2>1. CASE i <= Len(c) /\ j <= Len(c)
    BY <1>2, <1>3, <2>1 DEF Rising
  <2>2. CASE i <= Len(c) /\ j > Len(c)
    BY <1>2, <1>3, <2>2 DEF Below
  <2>3. CASE i > Len(c) /\ j > Len(c)
    <3>1. /\ i - Len(c) \in 1 .. Len(d) /\ w[i] = d[i - Len(c)]
          /\ j - Len(c) \in 1 .. Len(d) /\ w[j] = d[j - Len(c)]
      BY <1>2, <1>3, <2>3
    <3>2. i - Len(c) < j - Len(c)
      BY <1>1, <1>2
    <3> QED
      BY <3>1, <3>2 DEF Rising
  <2> QED
    BY <1>1, <1>2, <2>1, <2>2, <2>3
<1>5. \A e \in Text : Below(c, e) /\ Below(d, e) => Below(w, e)
  BY <1>2, <1>3 DEF Below
<1>6. \A e \in Text : Below(e, c) /\ Below(e, d) => Below(e, w)
  BY <1>2, <1>3 DEF Below
<1>7. \A n : Within(c, n) /\ Within(d, n) => Within(w, n)
  BY <1>2, <1>3 DEF Within
<1>8. \A i \in 1 .. Len(w) :
        (\E j \in 1 .. Len(c) : w[i] = c[j]) \/ (\E j \in 1 .. Len(d) : w[i] = d[j])
  BY <1>3
<1>9. \A j \in 1 .. Len(c) : \E i \in 1 .. Len(w) : w[i] = c[j]
  BY <1>1, <1>2
<1>10. ASSUME NEW j \in 1 .. Len(d)
       PROVE  \E i \in 1 .. Len(w) : w[i] = d[j]
  <2>1. Len(c) + j \in 1 .. Len(w) /\ ~ (Len(c) + j <= Len(c)) /\ (Len(c) + j) - Len(c) = j
    BY <1>1, <1>2
  <2>2. w[Len(c) + j] = d[(Len(c) + j) - Len(c)]
    BY <1>1, <2>1
  <2> QED
    BY <2>1, <2>2
<1> QED
  BY <1>1, <1>4, <1>5, <1>6, <1>7, <1>8, <1>9, <1>10 DEF w

LEMMA CutText ==
  ASSUME NEW d \in Text, NEW n \in 1 .. Len(d)
  PROVE  /\ SubSeq(d, 1, n) \in Text /\ SubSeq(d, n + 1, Len(d)) \in Text
         /\ Rising(d) => /\ Rising(SubSeq(d, 1, n)) /\ Rising(SubSeq(d, n + 1, Len(d)))
                         /\ Below(SubSeq(d, 1, n), SubSeq(d, n + 1, Len(d)))
         /\ \A c \in Text : Below(c, d) =>
              Below(c, SubSeq(d, 1, n)) /\ Below(c, SubSeq(d, n + 1, Len(d)))
         /\ \A m : Within(d, m) => Within(SubSeq(d, 1, n), m) /\ Within(SubSeq(d, n + 1, Len(d)), m)
         /\ \A i \in 1 .. Len(SubSeq(d, 1, n)) : \E j \in 1 .. Len(d) : SubSeq(d, 1, n)[i] = d[j]
         /\ \A i \in 1 .. Len(SubSeq(d, n + 1, Len(d))) :
              \E j \in 1 .. Len(d) : SubSeq(d, n + 1, Len(d))[i] = d[j]
         /\ \A j \in 1 .. Len(d) :
              \/ \E i \in 1 .. Len(SubSeq(d, 1, n)) : SubSeq(d, 1, n)[i] = d[j]
              \/ \E i \in 1 .. Len(SubSeq(d, n + 1, Len(d))) : SubSeq(d, n + 1, Len(d))[i] = d[j]
<1> DEFINE h == SubSeq(d, 1, n)
           t == SubSeq(d, n + 1, Len(d))
<1>1. Len(d) \in Nat /\ \A i \in 1 .. Len(d) : d[i] \in Nat
  BY ElementIsNat
<1>2. /\ h \in Text /\ Len(h) = n
      /\ \A i \in 1 .. n - 1 + 1 : h[i] = d[1 + i - 1]
  <2>1. \A i \in 1 .. n : d[i] \in Nat
    BY <1>1
  <2> QED
    BY <1>1, <2>1, SubSeqProperties DEF Text
<1>3. /\ t \in Text /\ Len(t) = IF n + 1 <= Len(d) THEN Len(d) - (n + 1) + 1 ELSE 0
      /\ \A i \in 1 .. Len(d) - (n + 1) + 1 : t[i] = d[(n + 1) + i - 1]
  <2>1. \A i \in n + 1 .. Len(d) : d[i] \in Nat
    BY <1>1
  <2> QED
    BY <1>1, <2>1, SubSeqProperties DEF Text
<1>4. \A i \in 1 .. Len(h) : i \in 1 .. Len(d) /\ i <= n /\ h[i] = d[i]
  BY <1>1, <1>2
<1>5. \A i \in 1 .. Len(t) : n + i \in 1 .. Len(d) /\ t[i] = d[n + i]
  BY <1>1, <1>3
<1>6. Len(h) = n /\ Len(t) = Len(d) - n
  BY <1>1, <1>2, <1>3
<1> HIDE DEF h, t
<1>7. Rising(d) => Rising(h) /\ Rising(t) /\ Below(h, t)
  <2> SUFFICES ASSUME Rising(d) PROVE Rising(h) /\ Rising(t) /\ Below(h, t)
    OBVIOUS
  <2>1. Rising(h)
    BY <1>4, <1>6 DEF Rising
  <2>2. Rising(t)
    <3> SUFFICES ASSUME NEW i \in 1 .. Len(t), NEW j \in 1 .. Len(t), i < j PROVE t[i] < t[j]
      BY DEF Rising
    <3>1. n + i < n + j /\ n + i \in 1 .. Len(d) /\ n + j \in 1 .. Len(d)
      BY <1>1, <1>5, <1>6
    <3> QED
      BY <1>5, <3>1 DEF Rising
  <2>3. Below(h, t)
    <3> SUFFICES ASSUME NEW i \in 1 .. Len(h), NEW j \in 1 .. Len(t) PROVE h[i] < t[j]
      BY DEF Below
    <3>1. i < n + j /\ i \in 1 .. Len(d) /\ n + j \in 1 .. Len(d)
      BY <1>1, <1>4, <1>5, <1>6
    <3> QED
      BY <1>4, <1>5, <3>1 DEF Rising
  <2> QED
    BY <2>1, <2>2, <2>3
<1>8. \A c \in Text : Below(c, d) => Below(c, h) /\ Below(c, t)
  BY <1>4, <1>5 DEF Below
<1>9. \A m : Within(d, m) => Within(h, m) /\ Within(t, m)
  BY <1>4, <1>5 DEF Within
<1>10. ASSUME NEW j \in 1 .. Len(d)
       PROVE  (\E i \in 1 .. Len(h) : h[i] = d[j]) \/ (\E i \in 1 .. Len(t) : t[i] = d[j])
  <2>1. CASE j <= n
    <3>1. j \in 1 .. Len(h)
      BY <1>6, <2>1
    <3> QED
      BY <1>4, <3>1
  <2>2. CASE j > n
    <3>1. j - n \in 1 .. Len(t) /\ n + (j - n) = j
      BY <1>1, <1>6, <2>2
    <3> QED
      BY <1>5, <3>1
  <2> QED
    BY <1>1, <2>1, <2>2
<1> QED
  BY <1>2, <1>3, <1>4, <1>5, <1>7, <1>8, <1>9, <1>10 DEF h, t

LEMMA WithinGrows ==
  ASSUME NEW d \in Text, NEW n \in Nat, NEW m \in Nat, n <= m, Within(d, n)
  PROVE  Within(d, m)
BY ElementIsNat DEF Within

LEMMA ArchiveText ==
  ASSUME NEW arch \in SUBSET AnyArchive
  PROVE  \A f \in arch : f.data \in Text /\ f.t \in Nat
BY DEF AnyArchive

LEMMA OrderedRename ==
  ASSUME NEW arch \in SUBSET AnyArchive, NEW cur \in Text, NEW next \in Text, NEW top,
         Ordered(arch, <<>>, cur, next, top)
  PROVE  Ordered(arch, cur, <<>>, next, top)
BY EmptyText, ArchiveText DEF Ordered

LEMMA OrderedArchive ==
  ASSUME NEW arch \in SUBSET AnyArchive, NEW mid \in Text, NEW cur \in Text, NEW next \in Text,
         NEW top, Ordered(arch, mid, cur, next, top),
         NEW a, a.data = mid, \A f \in arch : f.t < a.t, a.t \in Nat
  PROVE  Ordered(arch \cup {a}, <<>>, cur, next, top)
<1>1. \A f \in arch : f.data \in Text /\ f.t \in Nat /\ f.t < a.t
  BY ArchiveText
<1>2. \A f \in arch \cup {a} : /\ Rising(f.data) /\ Within(f.data, top) /\ Below(f.data, <<>>)
                               /\ Below(f.data, cur) /\ Below(f.data, next)
  BY <1>1, EmptyText DEF Ordered
<1>3. ASSUME NEW f \in arch \cup {a}, NEW g \in arch \cup {a}, f.t < g.t
      PROVE  Below(f.data, g.data)
  <2>1. f \in arch
    BY <1>1, <1>3
  <2>2. CASE g \in arch
    BY <1>3, <2>1, <2>2 DEF Ordered
  <2>3. CASE g = a
    BY <2>1, <2>3 DEF Ordered
  <2> QED
    BY <2>2, <2>3
<1> QED
  BY <1>2, <1>3, EmptyText DEF Ordered

LEMMA OrderedTrim ==
  ASSUME NEW arch, NEW kept \in SUBSET arch, NEW mid, NEW cur, NEW next, NEW top,
         Ordered(arch, mid, cur, next, top)
  PROVE  Ordered(kept, mid, cur, next, top)
BY DEF Ordered

LEMMA OrderedWrite ==
  ASSUME NEW arch \in SUBSET AnyArchive, NEW mid \in Text, NEW cur \in Text, NEW next \in Text,
         NEW top, Ordered(arch, mid, cur, next, top), NEW n \in 1 .. Len(next)
  PROVE  Ordered(arch, mid, cur \o SubSeq(next, 1, n), SubSeq(next, n + 1, Len(next)), top)
<1> DEFINE h == SubSeq(next, 1, n)
           t == SubSeq(next, n + 1, Len(next))
<1>1. h \in Text /\ t \in Text /\ Rising(h) /\ Rising(t) /\ Below(h, t)
  BY CutText DEF Ordered
<1>2. Within(h, top) /\ Within(t, top)
  BY CutText DEF Ordered
<1>3. \A c \in Text : Below(c, next) => Below(c, h) /\ Below(c, t)
  BY CutText
<1> HIDE DEF h, t
<1> DEFINE w == cur \o h
<1>4. Below(cur, h) /\ Below(cur, t) /\ Below(mid, h) /\ Below(mid, t)
  BY <1>3 DEF Ordered
<1>5. Rising(w)
  BY <1>1, <1>4, ConcatTexts DEF Ordered
<1>6. Within(w, top)
  BY <1>1, <1>2, ConcatTexts DEF Ordered
<1>7. Below(mid, w)
  BY <1>1, <1>4, ConcatTexts DEF Ordered
<1>8. Below(w, t)
  BY <1>1, <1>4, ConcatTexts
<1>9. \A f \in arch : f.data \in Text /\ Below(f.data, t) /\ Below(f.data, h)
  BY <1>3, ArchiveText DEF Ordered
<1>10. \A f \in arch : Below(f.data, w)
  BY <1>1, <1>9, ConcatTexts DEF Ordered
<1> HIDE DEF w
<1>11. Ordered(arch, mid, w, t, top)
  BY <1>1, <1>2, <1>4, <1>5, <1>6, <1>7, <1>8, <1>9, <1>10 DEF Ordered
<1> QED
  BY <1>11 DEF w, h, t

\* More is to be written, all of it after what there was.
LEMMA OrderedTake ==
  ASSUME NEW arch \in SUBSET AnyArchive, NEW mid \in Text, NEW cur \in Text, NEW next \in Text,
         NEW top \in Nat, NEW high \in Nat, top <= high, Ordered(arch, mid, cur, next, top),
         NEW d \in Text, Rising(d), Within(d, high), \A i \in 1 .. Len(d) : top < d[i]
  PROVE  Ordered(arch, mid, cur, next \o d, high)
<1>1. \A e \in Text : Within(e, top) => Below(e, d)
  BY ElementIsNat DEF Within, Below
<1>2. \A e \in Text : Within(e, top) => Within(e, high)
  BY WithinGrows
<1>3. Below(mid, d) /\ Below(cur, d) /\ Below(next, d) /\ \A f \in arch : Below(f.data, d)
  BY <1>1, ArchiveText DEF Ordered
<1> DEFINE w == next \o d
<1>4. Rising(w)
  BY <1>3, ConcatTexts DEF Ordered
<1>5. Within(w, high)
  BY <1>2, ConcatTexts DEF Ordered
<1>6. Below(mid, w) /\ Below(cur, w)
  BY <1>3, ConcatTexts DEF Ordered
<1>7. \A f \in arch : Below(f.data, w)
  BY <1>3, ConcatTexts, ArchiveText DEF Ordered
<1>8. Within(mid, high) /\ Within(cur, high) /\ \A f \in arch : Within(f.data, high)
  BY <1>2, ArchiveText DEF Ordered
<1> HIDE DEF w
<1>9. Ordered(arch, mid, cur, w, high)
  BY <1>4, <1>5, <1>6, <1>7, <1>8 DEF Ordered
<1> QED
  BY <1>9 DEF w

LEMMA OrderedDrop ==
  ASSUME NEW arch \in SUBSET AnyArchive, NEW mid \in Text, NEW cur \in Text, NEW next \in Text,
         NEW top \in Nat, NEW high \in Nat, top <= high, Ordered(arch, mid, cur, next, top)
  PROVE  Ordered(arch, mid, cur, <<>>, high)
<1>1. \A e \in Text : Within(e, top) => Within(e, high)
  BY WithinGrows
<1>2. Within(mid, high) /\ Within(cur, high) /\ \A f \in arch : Within(f.data, high)
  BY <1>1, ArchiveText DEF Ordered
<1> QED
  BY <1>2, EmptyText, ArchiveText DEF Ordered

-----------------------------------------------------------------------------
(* The bytes are in order                                                  *)

LEMMA Values ==
  ASSUME FilesInv
  PROVE  /\ old \in SUBSET AnyArchive /\ Mid \in Text /\ Cur \in Text /\ out \in Text
         /\ Top \in Nat /\ start \in Nat /\ rd \in Nat /\ start <= rd /\ rd <= N /\ now \in Nat
         /\ IsFiniteSet(old)
<1>1. FileTypes /\ Scalars
  BY TypesParts DEF FilesInv
<1>2. Mid \in Text /\ Cur \in Text
  BY <1>1, FileParts, ThreeNames, EmptyText DEF Mid, Cur, InRotation, Current
<1> QED
  BY <1>1, <1>2, Constants DEF FileTypes, Scalars, Top

LEMMA SelectedFacts ==
  ASSUME FilesInv, NEW e \in Nat, start < e
  PROVE  /\ Selected(e) \in Text /\ Rising(Selected(e))
         /\ \A i \in 1 .. Len(Selected(e)) : start < Selected(e)[i] /\ Selected(e)[i] <= e
         /\ start + 1 \notin Skip => \A u \in (start + 1) .. e : In(u, Selected(e))
         /\ start + 1 \notin Skip => Len(Selected(e)) = e - start
         /\ start + 1 \notin Skip => \A i \in 1 .. (e - start) : Selected(e)[i] = start + i
         /\ start + 1 \in Skip => Selected(e) = <<>>
<1>1. start \in Nat /\ e - start \in Nat
  BY Values
<1>2. CASE start + 1 \in Skip
  BY <1>2, EmptyText DEF Selected
<1>3. CASE start + 1 \notin Skip
  <2> DEFINE d == [k \in 1 .. (e - start) |-> start + k]
  <2>1. Selected(e) = d
    BY <1>3 DEF Selected
  <2>2. \A k \in 1 .. (e - start) : start + k \in Nat
    BY <1>1
  <2>3. d \in Seq(Nat) /\ Len(d) = e - start
    BY <1>1, <2>2, LenProperties
  <2>4. \A k \in 1 .. Len(d) : d[k] = start + k
    BY <2>3
  <2> HIDE DEF d
  <2>5. Rising(d)
    BY <1>1, <2>3, <2>4 DEF Rising
  <2>6. \A i \in 1 .. Len(d) : start < d[i] /\ d[i] <= e
    BY <1>1, <2>3, <2>4
  <2>7. ASSUME NEW u \in (start + 1) .. e PROVE In(u, d)
    <3>1. u - start \in 1 .. Len(d) /\ start + (u - start) = u
      BY <1>1, <2>3
    <3> QED
      BY <2>4, <3>1 DEF In
  <2> QED
    BY <1>3, <2>1, <2>3, <2>4, <2>5, <2>6, <2>7 DEF Text
<1> QED
  BY <1>2, <1>3

LEMMA TextStep ==
  ASSUME FilesInv, Types', LinkInv, TextInv, Effect, FileTypes'
  PROVE  TextInv'
<1>1. /\ old \in SUBSET AnyArchive /\ Mid \in Text /\ Cur \in Text /\ out \in Text
      /\ Top \in Nat /\ start \in Nat /\ rd \in Nat /\ start <= rd /\ rd <= N /\ now \in Nat
  BY Values
<1>2. start' \in Nat /\ rd' \in Nat /\ start' <= rd' /\ rd' <= N /\ N \in Nat
  BY Constants DEF Types
<1>3. Ordered(old, Mid, Cur, out, Top)
  BY DEF TextInv
<1>4. TextInv' <=> Ordered(old', Mid', Cur', out', Top')
  BY DEF TextInv
<1>5. start' = start => Top' = Top
  BY DEF Top
<1>6. start <= start' => Top <= Top' /\ Top' \in Nat
  BY <1>1, <1>2 DEF Top
<1> HIDE DEF TextInv, Top
<1>7. CASE UNCHANGED <<out, start>> /\ Still
  BY <1>3, <1>4, <1>5, <1>7 DEF Still
<1>8. CASE UNCHANGED <<out, start>> /\ Renames
  BY <1>1, <1>3, <1>4, <1>5, <1>8, OrderedRename DEF Renames
<1>9. CASE UNCHANGED <<out, start>> /\ Archives
  <2>1. \A k \in {"s", "u"} : Name(k) \in Nat
    BY NameIs
  <2>2. ASSUME NEW k \in {"s", "u"}, Archived(k, Mid), Mid' = <<>>, Cur' = Cur
        PROVE  Ordered(old', Mid', Cur', out', Top)
    <3> DEFINE a == Archive(Name(k), k, Mid)
    <3>0. old' = old \cup {a} /\ \A f \in old : f.t < Name(k)
      BY <2>2 DEF Archived
    <3>1. a.t = Name(k) /\ a.data = Mid
      BY ArchiveParts
    <3> HIDE DEF a
    <3>2. Ordered(old \cup {a}, <<>>, Cur, out, Top)
      BY <1>1, <1>3, <2>1, <3>0, <3>1, OrderedArchive
    <3> QED
      BY <1>9, <2>2, <3>0, <3>2
  <2>3. ASSUME NEW k \in {"s", "u"}, Mid = <<>>, out = <<>>, Archived(k, Cur),
               Mid' = <<>>, Cur' = <<>>
        PROVE  Ordered(old', Mid', Cur', out', Top)
    <3> DEFINE a == Archive(Name(k), k, Cur)
    <3>0. old' = old \cup {a} /\ \A f \in old : f.t < Name(k)
      BY <2>3 DEF Archived
    <3>1. a.t = Name(k) /\ a.data = Cur
      BY ArchiveParts
    <3> HIDE DEF a
    <3>2. Ordered(old, Cur, <<>>, out, Top)
      BY <1>1, <1>3, <2>3, OrderedRename
    <3>3. Ordered(old \cup {a}, <<>>, <<>>, out, Top)
      BY <1>1, <2>1, <3>0, <3>1, <3>2, OrderedArchive, EmptyText
    <3> QED
      BY <1>9, <2>3, <3>0, <3>3
  <2> QED
    BY <1>4, <1>5, <1>9, <2>2, <2>3 DEF Archives
<1>10. CASE UNCHANGED <<out, start>> /\ Trims
  <2>1. Trim(old) \in SUBSET old
    BY DEF Trim
  <2> QED
    BY <1>3, <1>4, <1>5, <1>10, <2>1, OrderedTrim DEF Trims
<1>11. ASSUME start' = start, NEW n, Wrote(n)
       PROVE  TextInv'
  BY <1>1, <1>3, <1>4, <1>5, <1>11, OrderedWrite DEF Wrote, Writes
<1>12. CASE Takes
  <2>1. PICK e \in (start + 1) .. rd' + 1 :
          /\ out' = out \o Selected(e)
          /\ (e \in NL /\ start' = e) \/ (e = N + 1 /\ start' = N /\ rd' = N)
    BY <1>12 DEF Takes
  <2>2. e \in Nat /\ start < e /\ start < N /\ start <= start'
    BY <1>1, <1>2, <1>12, <2>1 DEF Takes
  <2>3. Top = start /\ e <= Top'
    BY <1>1, <1>2, <2>1, <2>2 DEF Top
  <2> DEFINE d == Selected(e)
  <2>4. d \in Text /\ Rising(d) /\ \A i \in 1 .. Len(d) : start < d[i] /\ d[i] <= e
    BY <2>2, SelectedFacts
  <2> HIDE DEF d
  <2>5. Within(d, Top') /\ \A i \in 1 .. Len(d) : Top < d[i]
    BY <1>1, <1>6, <2>2, <2>3, <2>4, ElementIsNat DEF Within
  <2>6. Ordered(old, Mid, Cur, out \o d, Top')
    BY <1>1, <1>3, <1>6, <2>2, <2>4, <2>5, OrderedTake
  <2> QED
    BY <1>4, <1>12, <2>1, <2>6 DEF Takes, Still, d
<1>13. CASE Drops
  <2>1. start <= start'
    BY <1>1, <1>13 DEF Drops
  <2>2. Ordered(old, Mid, Cur, <<>>, Top')
    BY <1>1, <1>3, <1>6, <2>1, OrderedDrop
  <2> QED
    BY <1>4, <1>13, <2>2 DEF Drops, Still
<1> QED
  BY <1>7, <1>8, <1>9, <1>10, <1>11, <1>12, <1>13 DEF Effect

-----------------------------------------------------------------------------
(* What is in the files                                                    *)

LEMMA EndsParts ==
  ASSUME NEW c \in Text, NEW d \in Text, d # <<>>
  PROVE  c \o d # <<>> /\ Last(c \o d) = d[Len(d)]
<1>1. Len(d) \in Nat \ {0} /\ Len(c) \in Nat
  BY ElementIsNat, EmptySeq DEF Text
<1>2. Len(c \o d) = Len(c) + Len(d) /\ (c \o d)[Len(c) + Len(d)] = d[Len(d)]
  BY <1>1, ConcatProperties DEF Text
<1> QED
  BY <1>1, <1>2, EmptyText DEF Last

LEMMA EndsGrows ==
  ASSUME lost \subseteq lost', cut \subseteq cut'
  PROVE  \A d : Ends(d) => EndsBut(d, lost', cut')
BY DEF Ends, EndsBut

\* A text that is unbroken ends with its line.
LEMMA UnbrokenEnds ==
  ASSUME NEW d \in Text, Unbroken(d), d # <<>>
  PROVE  Newline(d[Len(d)])
<1>1. Len(d) \in Nat \ {0}
  BY ElementIsNat, EmptySeq DEF Text
<1> QED
  BY <1>1 DEF Unbroken

LEMMA UnbrokenCut ==
  ASSUME NEW d \in Text, Unbroken(d), NEW n \in 1 .. Len(d)
  PROVE  Unbroken(SubSeq(d, n + 1, Len(d)))
<1> DEFINE t == SubSeq(d, n + 1, Len(d))
<1>1. Len(d) \in Nat /\ \A i \in 1 .. Len(d) : d[i] \in Nat
  BY ElementIsNat
<1>2. /\ t \in Text /\ Len(t) = IF n + 1 <= Len(d) THEN Len(d) - (n + 1) + 1 ELSE 0
      /\ \A i \in 1 .. Len(d) - (n + 1) + 1 : t[i] = d[(n + 1) + i - 1]
  <2>1. \A i \in n + 1 .. Len(d) : d[i] \in Nat
    BY <1>1
  <2> QED
    BY <1>1, <2>1, SubSeqProperties DEF Text
<1>3. \A i \in 1 .. Len(t) : n + i \in 1 .. Len(d) /\ t[i] = d[n + i]
  BY <1>1, <1>2
<1>4. Len(t) = Len(d) - n
  BY <1>1, <1>2
<1> HIDE DEF t
<1>5. ASSUME NEW i \in 1 .. Len(t), ~Newline(t[i])
      PROVE  i < Len(t) /\ t[i + 1] = t[i] + 1
  <2>1. n + i < Len(d) /\ d[(n + i) + 1] = d[n + i] + 1
    BY <1>3, <1>5 DEF Unbroken
  <2>2. i < Len(t) /\ i + 1 \in 1 .. Len(t) /\ n + (i + 1) = (n + i) + 1
    BY <1>1, <1>4, <2>1
  <2> QED
    BY <1>3, <2>1, <2>2
<1> QED
  BY <1>5 DEF Unbroken, t

LEMMA UnbrokenConcat ==
  ASSUME NEW c \in Text, NEW d \in Text, Unbroken(c), Unbroken(d)
  PROVE  Unbroken(c \o d)
<1> DEFINE w == c \o d
<1>1. Len(c) \in Nat /\ Len(d) \in Nat
  BY ElementIsNat
<1>2. Len(w) = Len(c) + Len(d)
      /\ \A i \in 1 .. Len(c) + Len(d) : w[i] = IF i <= Len(c) THEN c[i] ELSE d[i - Len(c)]
  BY ConcatProperties DEF Text
<1> HIDE DEF w
<1>3. ASSUME NEW i \in 1 .. Len(w), ~Newline(w[i])
      PROVE  i < Len(w) /\ w[i + 1] = w[i] + 1
  <2>1. CASE i <= Len(c)
    <3>1. i \in 1 .. Len(c) /\ w[i] = c[i]
      BY <1>1, <1>2, <2>1
    <3>2. i < Len(c) /\ c[i + 1] = c[i] + 1
      BY <1>3, <3>1 DEF Unbroken
    <3>3. i + 1 \in 1 .. Len(w) /\ i + 1 <= Len(c)
      BY <1>1, <1>2, <3>1, <3>2
    <3> QED
      BY <1>1, <1>2, <3>1, <3>2, <3>3
  <2>2. CASE i > Len(c)
    <3>1. i - Len(c) \in 1 .. Len(d) /\ w[i] = d[i - Len(c)]
      BY <1>1, <1>2, <2>2
    <3>2. i - Len(c) < Len(d) /\ d[(i - Len(c)) + 1] = d[i - Len(c)] + 1
      BY <1>3, <3>1 DEF Unbroken
    <3>3. i + 1 \in 1 .. Len(w) /\ ~(i + 1 <= Len(c)) /\ (i + 1) - Len(c) = (i - Len(c)) + 1
      BY <1>1, <1>2, <2>2, <3>2
    <3>4. w[i + 1] = d[(i + 1) - Len(c)]
      BY <1>2, <3>3
    <3> QED
      BY <1>1, <1>2, <3>1, <3>2, <3>3, <3>4
  <2> QED
    BY <1>1, <2>1, <2>2
<1> QED
  BY <1>3 DEF Unbroken, w

\* No line is longer than the tolerance; the last byte that is read ends one, for it is
\* given the newline it lacks.
ShortLines == \A u \in 1 .. N : \E e \in u .. (u + L) : Newline(e)

\* The first line of an unbroken text ends within L + 1 bytes.
LEMMA FirstLine ==
  ASSUME ShortLines, NEW d \in Text, Unbroken(d), d # <<>>, Within(d, N + 1)
  PROVE  \E i \in 1 .. Len(d) : i <= L + 1 /\ Newline(d[i])
<1>1. Len(d) \in Nat \ {0} /\ \A i \in 1 .. Len(d) : d[i] \in Nat
  BY ElementIsNat, EmptySeq DEF Text
<1> DEFINE T == {i \in 1 .. Len(d) : Newline(d[i])}
<1>2. Len(d) \in T
  BY <1>1, UnbrokenEnds
<1>3. PICK l \in T : \A y \in T : l <= y
  <2>1. T \subseteq Nat /\ T # {}
    BY <1>1, <1>2
  <2> HIDE DEF T
  <2> QED
    BY <2>1, LeastExists
<1>4. l \in 1 .. Len(d) /\ Newline(d[l]) /\ \A i \in 1 .. Len(d) : i < l => ~Newline(d[i])
  BY <1>1, <1>3
<1> DEFINE P(i) == i <= l => d[i] = d[1] + (i - 1)
<1>5. \A i \in Nat \ {0} : P(i)
  <2> DEFINE F == {i \in Nat \ {0} : ~P(i)}
  <2>1. F # {} => \E m \in F : \A y \in F : m <= y
    BY LeastExists
  <2>2. ASSUME NEW m \in F, \A y \in F : m <= y PROVE FALSE
    <3>1. m # 1
      BY <1>1
    <3>2. m - 1 \in Nat \ {0} /\ m - 1 \notin F
      BY <2>2, <3>1
    <3>3. d[m - 1] = d[1] + ((m - 1) - 1) /\ m <= l
      BY <3>2, <1>1, <1>4
    <3>4. m - 1 \in 1 .. Len(d) /\ m - 1 < l /\ (m - 1) + 1 = m
      BY <1>1, <1>4, <3>2, <3>3
    <3>5. d[(m - 1) + 1] = d[m - 1] + 1
      BY <1>4, <3>4 DEF Unbroken
    <3>6. d[m] = d[m - 1] + 1
      BY <3>4, <3>5
    <3>7. d[1] \in Nat
      BY <1>1
    <3>8. d[m] = d[1] + (m - 1)
      BY <3>3, <3>6, <3>7
    <3> QED
      BY <3>8
  <2> QED
    BY <2>1, <2>2
<1>6. d[l] = d[1] + (l - 1)
  BY <1>4, <1>5
<1>7. CASE l <= L + 1
  BY <1>4, <1>7
<1>8. CASE ~(l <= L + 1)
  <2>1. /\ N \in Nat /\ L \in Nat /\ d[1] \in Nat /\ 1 \in 1 .. Len(d)
        /\ d[1] > 0 /\ d[1] <= N + 1
    BY <1>1, Constants DEF Within
  <2>2. ~Newline(d[1])
    BY <1>4, <1>8, <2>1
  <2>3. ASSUME d[1] \in 1 .. N PROVE FALSE
    <3>1. PICK e \in d[1] .. (d[1] + L) : Newline(e)
      BY <2>3 DEF ShortLines
    <3> DEFINE i == (e - d[1]) + 1
    <3>2. i \in 1 .. Len(d) /\ i < l /\ e = d[1] + (i - 1) /\ i \in Nat \ {0}
      BY <1>1, <1>4, <1>8, <2>1, <3>1
    <3>3. d[i] = d[1] + (i - 1)
      BY <1>5, <3>2
    <3> QED
      BY <1>4, <3>1, <3>2, <3>3
  <2>4. ASSUME d[1] > N PROVE FALSE
    BY <2>1, <2>2, <2>4 DEF Newline
  <2> QED
    BY <2>1, <2>3, <2>4
<1> QED
  BY <1>7, <1>8

\* A write that is not short ends with the end of a line.
LEMMA WriteEnds ==
  ASSUME ShortLines, FilesInv, TextInv, LinesInv, RoomInv, Running, rstate = "WRITABLE",
         out # <<>>
  PROVE  b < S /\ Newline(out[WriteLen])
<1> DEFINE n == IF Len(out) + b >= S THEN S - b ELSE Len(out)
           ends == {i \in 1 .. n : Newline(out[i])}
<1>1. out \in Text /\ Unbroken(out) /\ b \in Nat /\ N \in Nat
  BY TypesParts, Constants DEF FilesInv, Scalars, LinesInv
<1>2. Len(out) \in Nat \ {0}
  BY <1>1, ElementIsNat, EmptySeq DEF Text
<1>3. S \in Nat /\ L \in Nat /\ (b + L < S \/ (b < S /\ LineWithin(S - b)))
  BY Constants DEF RoomInv
<1>4. Within(out, N + 1)
  <2>0. start \in Nat /\ rd \in Nat /\ start <= rd /\ rd <= N
    BY Values
  <2>1. Top \in Nat /\ Top <= N + 1 /\ N + 1 \in Nat
    BY <1>1, <2>0 DEF Top
  <2>2. Within(out, Top)
    BY DEF TextInv, Ordered
  <2> QED
    BY <1>1, <2>1, <2>2, WithinGrows
<1>5. PICK i \in 1 .. Len(out) : i <= S - b /\ Newline(out[i])
  <2>1. CASE b + L < S
    <3>1. PICK i \in 1 .. Len(out) : i <= L + 1 /\ Newline(out[i])
      BY <1>1, <1>4, FirstLine
    <3> QED
      BY <1>1, <1>2, <1>3, <2>1, <3>1
  <2>2. CASE LineWithin(S - b)
    BY <2>2 DEF LineWithin
  <2> QED
    BY <1>3, <2>1, <2>2
<1>6. b < S /\ n \in Nat /\ n <= Len(out) /\ (n = Len(out) \/ n = S - b)
  BY <1>1, <1>2, <1>3
<1> HIDE DEF n
<1>7. CASE n + b + L >= S /\ ends # {}
  <2>1. \E g \in ends : \A y \in ends : y <= g
    BY <1>6, <1>7, GreatestExists
  <2>2. WriteLen = CHOOSE k \in ends : \A j \in ends : j <= k
    BY <1>7 DEF WriteLen, Cut, n
  <2> QED
    BY <1>6, <2>1, <2>2
<1>8. CASE ~(n + b + L >= S /\ ends # {})
  <2>1. WriteLen = n
    BY <1>8 DEF WriteLen, Cut, n
  <2>2. CASE n = Len(out)
    BY <1>1, <1>2, <1>6, <2>1, <2>2, UnbrokenEnds, EmptySeq
  <2>3. CASE n = S - b
    <3>1. n + b + L >= S
      BY <1>1, <1>3, <2>3
    <3>2. i \in ends
      BY <1>2, <1>5, <1>6, <2>3
    <3> QED
      BY <1>8, <3>1, <3>2
  <2> QED
    BY <1>6, <2>2, <2>3
<1> QED
  BY <1>7, <1>8

LEMMA SelectedUnbroken ==
  ASSUME FilesInv, NEW e \in Nat, start < e, Newline(e),
         \A i \in (start + 1) .. (e - 1) : ~Newline(i)
  PROVE  Unbroken(Selected(e))
<1>1. start \in Nat
  BY Values
<1>2. CASE start + 1 \in Skip
  BY <1>2, SelectedFacts, EmptyText DEF Unbroken
<1>3. CASE start + 1 \notin Skip
  <2> DEFINE d == Selected(e)
  <2>1. Len(d) = e - start /\ \A i \in 1 .. (e - start) : d[i] = start + i
    BY <1>3, SelectedFacts
  <2> HIDE DEF d
  <2>2. ASSUME NEW i \in 1 .. Len(d), ~Newline(d[i])
        PROVE  i < Len(d) /\ d[i + 1] = d[i] + 1
    <3>1. start + i # e
      BY <2>1, <2>2
    <3>2. i < Len(d) /\ i + 1 \in 1 .. (e - start) /\ start + (i + 1) = (start + i) + 1
      BY <1>1, <2>1, <3>1
    <3> QED
      BY <2>1, <3>2
  <2> QED
    BY <2>2 DEF Unbroken, d
<1> QED
  BY <1>2, <1>3

LEMMA HistoryGrows ==
  ASSUME Next
  PROVE  lost \subseteq lost' /\ cut \subseteq cut'
BY NextCases
DEF LogdirInit, InitCurrent, InitOpen, RotatorQuiet, RotatorRename, RotatorNewcurrent,
    RotatorChmodprevious, RotatorFinish, RotatorFinished, RotatorRun, RotatorWait,
    RotatorSyncprocessed, RotatorUnlinkprevious, RotatorFail, FinishLink, FinishUnlink,
    FinishTrim, Flush, Signals, Alarm, Term, ProcessorDied, NormalStdin, Line, LastStdin,
    NoStdin, Loop, Finalize, Time, Process, Send, Close, Kill, Restart

\* A rotation starts after a write that leaves no room for more, or by SIGALRM.
LEMMA StartCases ==
  ASSUME FilesInv, LinkInv, Next, Running', rstate' \in {"START", "RENAME"},
         ~(Running /\ rstate \in {"START", "RENAME"})
  PROVE  \/ /\ pc = "flush" /\ rstate = "WRITABLE"
            /\ b >= S \/ \E n \in 1 .. WriteLen : Wrote(n)
         \/ Still /\ (Cur # <<>> => Last(Cur) \in cut')
<1>1. /\ Control /\ Scalars /\ (Running => RunShape)
      /\ rstate \in States
  BY TypesParts DEF FilesInv, Scalars
<1>2. CASE Flush
  <2>1. CASE UNCHANGED <<file, old, out, b>>
    <3>1. (rstate = "WRITABLE" /\ b >= S) \/ rstate' = rstate
      <4>1. out # <<>> /\ b < S => ~Write(WriteLen) /\ \A n \in 1 .. (WriteLen - 1) : ~Write(n)
        <5> SUFFICES ASSUME out # <<>>, b < S, NEW n \in 1 .. WriteLen PROVE b + n # b
          BY <1>1, <2>1, WriteLenFacts DEF Write
        <5> QED
          BY <1>1, WriteLenFacts DEF Scalars
      <4> QED
        BY <1>2, <4>1 DEF Flush, CallRotator
    <3> QED
      BY <1>2, <3>1 DEF Flush, Running, Runs
  <2>2. CASE ~UNCHANGED <<file, old, out, b>>
    BY <1>2, <2>2, FlushFiles
  <2> QED
    BY <2>1, <2>2
<1>3. CASE Alarm
  <2>1. CASE rstate' = rstate
    BY <1>3, <2>1 DEF Alarm, Running, Runs
  <2>2. CASE Last(file["current"].data) \in cut' /\ pc = "signals"
    <3>1. RunShape
      BY <1>1, <2>2 DEF Running, Runs
    <3>2. ~Linked("current")
      BY <2>2, <3>1, ThreeNames DEF RunShape
    <3>3. Still
      BY <1>3, AlarmFiles
    <3> QED
      BY <2>2, <3>2, <3>3 DEF Cur, Current
  <2> QED
    BY <1>3, <2>1, <2>2 DEF Alarm
<1>4. CASE RotatorQuiet
  BY <1>4 DEF RotatorQuiet, Rotator, Then, Running, Runs
<1>5. CASE FinishLink \/ FinishUnlink \/ FinishTrim
  <2>1. /\ pc \in Calls /\ Called /\ UNCHANGED <<rstate, fret, ffail>>
        /\ pc' \in {"unlink", "trim", fret, ffail}
    BY <1>1, <1>5 DEF FinishLink, FinishUnlink, FinishTrim, Control, rets, Calls
  <2> QED
    BY <2>1 DEF Called, Call, Running, Runs, Calls
<1>6. CASE LogdirInit \/ InitCurrent \/ InitOpen
  <2>1. pc \in Starts /\ rstate' = rstate
    BY <1>6 DEF LogdirInit, InitCurrent, InitOpen, Starts
  <2> QED
    BY <1>1, <2>1 DEF Control, Starting
<1>7. CASE RotatorRename \/ RotatorNewcurrent \/ RotatorChmodprevious \/ RotatorRun
           \/ RotatorSyncprocessed \/ RotatorUnlinkprevious
  BY <1>7
  DEF RotatorRename, RotatorNewcurrent, RotatorChmodprevious, RotatorRun,
      RotatorSyncprocessed, RotatorUnlinkprevious, Then
<1>8. CASE Kill \/ Restart
  BY <1>8 DEF Kill, Restart, Running, Runs, Calls
<1>9. CASE ProcessorDied \/ RotatorFinished
  <2>1. pc \in Runs /\ rstate' \in {"SYNCPROCESSED", "RUNPROCESSOR", "WRITABLE", rstate}
    BY <1>9 DEF ProcessorDied, RotatorFinished, CallRotator, Runs
  <2> QED
    BY <2>1 DEF Running
<1>10. CASE RotatorFinish \/ RotatorWait \/ RotatorFail \/ Signals \/ Term \/ NormalStdin \/ Line
            \/ LastStdin \/ NoStdin \/ Loop \/ Finalize
  <2>1. pc \in Runs /\ rstate' = rstate
    BY <1>10
    DEF RotatorFinish, RotatorWait, RotatorFail, Rotator, Signals, Term, NormalStdin, Line,
        LastStdin, NoStdin, Loop, Finalize, Runs
  <2> QED
    BY <2>1 DEF Running
<1>11. CASE Time \/ Process \/ Send \/ Close
  BY <1>11 DEF Time, Process, Send, Close, rets, Running
<1> QED
  BY NextCases, <1>2, <1>3, <1>4, <1>5, <1>6, <1>7, <1>8, <1>9, <1>10, <1>11

\* What a write leaves behind: current ends with the end of a line, or out goes on with it.
LEMMA WriteLines ==
  ASSUME FilesInv, LinesInv, NEW n, Wrote(n)
  PROVE  /\ Newline(out[n]) => EndsBut(Cur', lost', cut')
         /\ ~Newline(out[n]) => Continued(Cur)'
         /\ Unbroken(out)'
<1>1. out \in Text /\ Cur \in Text /\ Unbroken(out)
  BY Values DEF LinesInv
<1> DEFINE h == SubSeq(out, 1, n)
<1>2. /\ n \in 1 .. Len(out) /\ Len(out) \in Nat /\ Cur' = Cur \o h
      /\ out' = SubSeq(out, n + 1, Len(out))
  BY <1>1, ElementIsNat DEF Wrote, Writes
<1>3. h \in Text /\ Len(h) = n /\ h[n] = out[n]
  <2>1. \A i \in 1 .. n : out[i] \in Nat
    BY <1>1, <1>2, ElementIsNat
  <2> QED
    BY <1>1, <1>2, <2>1, SubSeqProperties DEF Text
<1> HIDE DEF h
<1>4. h # <<>>
  <2>1. h = <<>> => Len(h) = 0
    BY EmptyText
  <2> QED
    BY <1>2, <1>3, <2>1
<1>5. Cur' # <<>> /\ Last(Cur') = out[n]
  BY <1>1, <1>2, <1>3, <1>4, EndsParts
<1>6. Unbroken(out)'
  BY <1>1, <1>2, UnbrokenCut
<1>7. ASSUME ~Newline(out[n]) PROVE Continued(Cur)'
  <2>1. n < Len(out) /\ out[n + 1] = out[n] + 1
    BY <1>1, <1>2, <1>7 DEF Unbroken
  <2>2. \A i \in n + 1 .. Len(out) : out[i] \in Nat
    BY <1>1, <1>2, ElementIsNat
  <2>3. Len(out') = Len(out) - n /\ out'[1] = out[n + 1]
    BY <1>1, <1>2, <2>1, <2>2, SubSeqProperties DEF Text
  <2>4. out' # <<>>
    <3>1. out' = <<>> => Len(out') = 0
      BY EmptyText
    <3> QED
      BY <1>2, <2>1, <2>3, <3>1
  <2> QED
    BY <1>5, <2>1, <2>3, <2>4 DEF Continued
<1> QED
  BY <1>5, <1>6, <1>7 DEF EndsBut

LEMMA LinesStep ==
  ASSUME FilesInv, LinkInv, TextInv, LinesInv, KeptInv, Next, Effect,
         Running /\ rstate = "WRITABLE" => b < S
  PROVE  LinesInv'
<1> DEFINE E(d) == EndsBut(d, lost', cut')
           Started == Running /\ rstate \in {"START", "RENAME"}
<1>1. out \in Text /\ Mid \in Text /\ Cur \in Text /\ Len(out) \in Nat
  BY Values, ElementIsNat
<1>2. E(<<>>) /\ Unbroken(<<>>)
  BY EmptyText DEF EndsBut, Unbroken
<1>3. \A t, k, d : Archive(t, k, d).data = d
  BY ArchiveParts
<1>4. \A d : Ends(d) => E(d)
  BY HistoryGrows, EndsGrows
<1>5. /\ \A f \in old : E(f.data)
      /\ E(Mid) /\ (E(Cur) \/ Continued(Cur)) /\ Unbroken(out)
      /\ Started => E(Cur)
  BY <1>4 DEF LinesInv
<1>6. ASSUME Started' PROVE E(Cur')
  <2>1. CASE Started /\ (Cur' = Cur \/ Cur' = <<>>)
    BY <1>2, <1>5, <2>1
  <2>2. CASE \E n \in 1 .. WriteLen : Wrote(n)
    <3>1. PICK n \in 1 .. WriteLen : Wrote(n)
      BY <2>2
    <3>2. Newline(out[n])
      BY <1>6, <3>1 DEF Wrote
    <3> QED
      BY <3>1, <3>2, WriteLines
  <2>3. CASE Cur' = Cur /\ (Cur # <<>> => Last(Cur) \in cut')
    BY <2>3 DEF EndsBut
  <2>4. Started /\ ~(\E n \in 1 .. WriteLen : Wrote(n)) => Cur' = Cur \/ Cur' = <<>>
    BY DEF Effect, Still, Renames, Archives, Trims, Takes, Drops
  <2>5. S \in Nat /\ b \in Nat
    BY Constants, TypesParts DEF FilesInv, Scalars
  <2>6. pc = "flush" /\ rstate = "WRITABLE" => ~(b >= S)
    BY <2>5 DEF Running, Runs
  <2>7. ~Started => \/ \E n \in 1 .. WriteLen : Wrote(n)
                    \/ Still /\ (Cur # <<>> => Last(Cur) \in cut')
    BY <1>6, <2>6, StartCases
  <2> QED
    BY <2>1, <2>2, <2>3, <2>4, <2>7 DEF Still
<1> HIDE DEF E, Started
<1>7. SUFFICES /\ \A f \in old' : E(f.data)
               /\ E(Mid') /\ (E(Cur') \/ Continued(Cur)') /\ Unbroken(out)'
  BY <1>6 DEF LinesInv, Ends, E, Started
<1>8. CASE UNCHANGED <<out, start>> /\ Still
  BY <1>5, <1>8 DEF Still, Continued
<1>9. CASE UNCHANGED <<out, start>> /\ Renames
  BY <1>2, <1>5, <1>9 DEF Renames, Started
<1>10. CASE UNCHANGED <<out, start>> /\ Archives
  <2>1. out = <<>> => E(Cur)
    BY <1>5 DEF Continued
  <2> QED
    BY <1>2, <1>3, <1>5, <1>10, <2>1 DEF Archives, Archived, Continued
<1>11. CASE UNCHANGED <<out, start>> /\ Trims
  <2>1. old' \subseteq old
    BY <1>11 DEF Trims, Trim
  <2> QED
    BY <1>5, <1>11, <2>1 DEF Trims, Continued
<1>12. ASSUME NEW n, Wrote(n)
       PROVE  /\ \A f \in old' : E(f.data)
              /\ E(Mid') /\ (E(Cur') \/ Continued(Cur)') /\ Unbroken(out)'
  BY <1>5, <1>12, WriteLines DEF Wrote, Writes, E
<1>13. CASE Takes
  <2>1. PICK e \in (start + 1) .. rd' + 1 :
          /\ out' = out \o Selected(e)
          /\ \A i \in (start + 1) .. (e - 1) : ~Newline(i)
          /\ (e \in NL /\ start' = e) \/ (e = N + 1 /\ start' = N /\ rd' = N)
    BY <1>13 DEF Takes
  <2>2. e \in Nat /\ start < e /\ Newline(e)
    BY <2>1, Values, Constants DEF Newline
  <2> DEFINE d == Selected(e)
  <2>3. Unbroken(d) /\ d \in Text
    BY <2>1, <2>2, SelectedUnbroken, SelectedFacts
  <2> HIDE DEF d
  <2>4. Unbroken(out')
    BY <1>1, <1>5, <2>1, <2>3, UnbrokenConcat DEF d
  <2>5. out # <<>> => out' # <<>> /\ out'[1] = out[1]
    <3>1. out # <<>> => 1 \in 1 .. Len(out)
      BY <1>1, EmptySeq DEF Text
    <3>2. \A i \in 1 .. Len(out) : i \in 1 .. Len(out \o d) /\ (out \o d)[i] = out[i]
      BY <1>1, <2>3, ConcatProperties, ElementIsNat DEF Text
    <3>3. \A i : i \notin 1 .. Len(<<>>)
      BY EmptyText
    <3> QED
      BY <2>1, <3>1, <3>2, <3>3 DEF d
  <2> QED
    BY <1>5, <1>13, <2>4, <2>5 DEF Takes, Still, Continued
<1>14. CASE Drops
  <2>1. InMemory \subseteq lost /\ lost \subseteq lost'
    BY <1>14, HistoryGrows DEF Drops, KeptInv
  <2>2. out # <<>> => out[1] \in ToSet(out)
    <3>1. out # <<>> => 1 \in 1 .. Len(out)
      BY <1>1, EmptySeq DEF Text
    <3> QED
      BY <1>1, <3>1, LenProperties DEF ToSet, Text
  <2>3. Continued(Cur) => E(Cur)
    BY <2>1, <2>2 DEF Continued, E, EndsBut, InMemory
  <2> QED
    BY <1>2, <1>5, <1>14, <2>3 DEF Drops, Still
<1> QED
  BY <1>8, <1>9, <1>10, <1>11, <1>12, <1>13, <1>14 DEF Effect

LEMMA SizeStep ==
  ASSUME FilesInv, SizeInv, Effect
  PROVE  SizeInv'
<1>1. S \in Nat /\ Len(<<>>) = 0 /\ out \in Text /\ Cur \in Text
  BY Constants, EmptyText, Values
<1>2. \A t, k, d : Archive(t, k, d).data = d
  BY ArchiveParts
<1>3. CASE Still
  BY <1>3 DEF SizeInv, Still
<1>4. CASE Renames
  BY <1>1, <1>4 DEF SizeInv, Renames
<1>5. CASE Archives
  BY <1>1, <1>2, <1>5 DEF SizeInv, Archives, Archived
<1>6. CASE Trims
  <2>1. old' \subseteq old
    BY <1>6 DEF Trims, Trim
  <2> QED
    BY <1>6, <2>1 DEF SizeInv, Trims
<1>7. ASSUME b = Len(Cur), b < S, out # <<>>, NEW n \in 1 .. WriteLen, Wrote(n)
      PROVE  SizeInv'
  <2>0. b \in Nat /\ Len(out) \in Nat /\ WriteLen \in 1 .. Len(out) /\ b + WriteLen <= S
    BY <1>7, TypesParts, WriteLenFacts DEF FilesInv, Scalars
  <2>1. n \in 1 .. Len(out) /\ b + n <= S
    BY <1>1, <2>0
  <2>2. \A i \in 1 .. n : out[i] \in Nat
    BY <1>1, <2>1, ElementIsNat
  <2>3. SubSeq(out, 1, n) \in Text /\ Len(SubSeq(out, 1, n)) = n
    BY <1>1, <2>1, <2>2, ElementIsNat, SubSeqProperties DEF Text
  <2>4. Len(Cur') = Len(Cur) + n
    BY <1>1, <1>7, <2>3, ConcatProperties DEF Text, Wrote, Writes
  <2> QED
    BY <1>7, <2>1, <2>4 DEF SizeInv, Wrote, Writes
<1> QED
  BY <1>3, <1>4, <1>5, <1>6, <1>7 DEF Effect, Takes, Drops

-----------------------------------------------------------------------------
(* Room for a line                                                         *)

\* current is not longer, and not finalized where it was not.
LEMMA RoomStep ==
  ASSUME ShortLines, FilesInv, LinkInv, TextInv, LinesInv, RoomInv, Next
  PROVE  RoomInv'
<1> USE DEF Current, Previous, Processed
<1>1. FileTypes /\ Scalars /\ Shape /\ Control /\ StartShape
  BY TypesParts DEF FilesInv
<1>2. L \in Nat /\ S \in Nat /\ L < S
  BY Constants
<1>3. ASSUME b' = b, rstate' = rstate, Running' => Running,
             Current'.x => Current.x /\ Current'.data = Current.data,
             \/ out' = out
             \/ \A i \in 1 .. Len(out) : i \in 1 .. Len(out') /\ out'[i] = out[i]
      PROVE  RoomInv'
  BY <1>3 DEF RoomInv, LineWithin
<1>4. CASE RotatorNewcurrent
  <2>1. rstate' = "CHMODPREVIOUS" /\ file' = [file EXCEPT !["current"] = Empty]
    BY <1>4 DEF RotatorNewcurrent, Then
  <2>2. ~Current'.x
    BY <1>1, <2>1, Replaced, EmptyFiles, ThreeNames
  <2> QED
    BY <2>1, <2>2 DEF RoomInv
<1>5. CASE RotatorRename
  <2>1. rstate' = "NEWCURRENT" /\ file' = [file EXCEPT !["previous"] = Current, !["current"] = None]
    BY <1>5 DEF RotatorRename, Then
  <2>2. Current' = None
    BY <1>1, <2>1, ThreeNames DEF FileTypes
  <2> QED
    BY <2>1, <2>2, EmptyFiles DEF RoomInv
<1>6. CASE RotatorFinished
  <2>1. /\ pc \in {"finished", "unfinished"} /\ Running /\ file' = file /\ b' = b
        /\ rstate' \in {rstate, "WRITABLE"}
    BY <1>6 DEF RotatorFinished, Running, Runs
  <2>2. b = 0 /\ ~Current.x
    BY <2>1, EmptyText DEF FilesInv, RunShape, Early
  <2> QED
    BY <1>2, <2>1, <2>2 DEF RoomInv
<1>7. CASE RotatorQuiet
  BY <1>7 DEF RotatorQuiet, Then, RoomInv
<1>8. CASE RotatorChmodprevious \/ RotatorSyncprocessed \/ RotatorUnlinkprevious \/ RotatorRun
  <2>1. rstate' # "WRITABLE"
    BY <1>8
    DEF RotatorChmodprevious, RotatorSyncprocessed, RotatorUnlinkprevious, RotatorRun, Then
  <2>2. Current' = Current
    BY <1>1, <1>8, ThreeNames
    DEF RotatorChmodprevious, RotatorSyncprocessed, RotatorUnlinkprevious, RotatorRun,
        SetData, FileTypes
  <2> QED
    BY <2>1, <2>2 DEF RoomInv
<1>9. CASE InitOpen
  <2>1. /\ pc \in {"open", "opencurrent"} /\ rstate' = rstate
        /\ file' = [file EXCEPT !["current"].on = TRUE, !["current"].x = FALSE]
        /\ b' = IF pc = "opencurrent" THEN Len(Current.data) ELSE 0
    BY <1>9 DEF InitOpen
  <2>2. ~Current'.x
    BY <1>1, <2>1, ThreeNames DEF FileTypes, AnyFile
  <2>3. b' + L < S
    BY <1>1, <1>2, <2>1 DEF StartShape, RoomInv
  <2> QED
    BY <2>2, <2>3 DEF RoomInv
<1>10. CASE LogdirInit
  <2>1. ~Running'
    BY <1>10 DEF LogdirInit, CallFinish, Running, Runs, Calls
  <2>2. Current' = Current
    BY <1>1, <1>10, ThreeNames DEF LogdirInit, FileTypes
  <2> QED
    BY <2>1, <2>2 DEF RoomInv
<1>11. CASE FinishLink
  <2>1. pc = "link" /\ ffail' = ffail /\ fret' = fret /\ rstate' = rstate /\ b' = b
        /\ pc' \in {"unlink", fret} /\ out' = out
    BY <1>11 DEF FinishLink, rets, input
  <2>2. ffail = "unfinished" \/ (ffail = "killed" /\ fret \in {"open", "initcurrent"})
    BY <1>1, <2>1 DEF Control, Called, Call, Calls
  <2>3. Running' => Running
    BY <2>1, <2>2 DEF Running, Runs, Calls
  <2>4. Current'.x = Current.x /\ Current'.data = Current.data
    <3>1. CASE file' = file
      BY <3>1
    <3>2. CASE file' = [file EXCEPT ![fin[1]].link = Name(fin[2])]
      <4>1. fin[1] \in Names /\ fin[2] \in {"s", "u"}
        BY <1>1, <2>1, ThreeNames DEF Control, Called, Call, Calls
      <4> QED
        BY <1>1, <3>2, <4>1, NameIs, ArchivedFile, ThreeNames
    <3> QED
      BY <1>11, <3>1, <3>2 DEF FinishLink
  <2> QED
    BY <1>3, <2>1, <2>3, <2>4
<1>12. CASE FinishUnlink
  <2>1. pc = "unlink" /\ pc' = "trim" /\ ffail' = ffail /\ rstate' = rstate /\ b' = b
        /\ file' = [file EXCEPT ![fin[1]] = None] /\ out' = out
    BY <1>12 DEF FinishUnlink, rets, input
  <2>2. Running' => Running
    BY <2>1 DEF Running, Runs, Calls
  <2>3. fin[1] \in Names
    BY <1>1, <2>1, ThreeNames DEF Control, Called, Call, Calls
  <2>4. Current' = Current \/ Current' = None
    BY <1>1, <2>1, <2>3, Replaced, EmptyFiles, ThreeNames
  <2> QED
    BY <1>3, <2>1, <2>2, <2>4, EmptyFiles
<1>13. CASE FinishTrim
  <2>1. pc = "trim" /\ pc' \in {fret, ffail} /\ ffail' = ffail /\ rstate' = rstate /\ b' = b
        /\ file' = file /\ out' = out
    BY <1>13 DEF FinishTrim, rets, input
  <2>2. ffail = "unfinished" \/ (ffail = "killed" /\ fret \in {"open", "initcurrent"})
    BY <1>1, <2>1 DEF Control, Called, Call, Calls
  <2>3. Running' => Running
    BY <2>1, <2>2 DEF Running, Runs, Calls
  <2> QED
    BY <1>3, <2>1, <2>3
<1>14. CASE Flush
  <2>1. CASE UNCHANGED <<file, old, out, b>>
    <3>1. pc = "flush" /\ (rstate' = rstate \/ rstate' # "WRITABLE")
      BY <1>14, <2>1 DEF Flush, Write, CallRotator
    <3> QED
      BY <2>1, <3>1 DEF RoomInv, LineWithin, Running, Runs
  <2>2. CASE ~UNCHANGED <<file, old, out, b>>
    <3>1. /\ Running /\ rstate = "WRITABLE" /\ b \in Nat /\ out # <<>> /\ b < S
          /\ \E n \in 1 .. WriteLen : Wrote(n) /\ Write(n)
      BY <1>1, <1>14, <2>2, FlushFiles DEF Scalars
    <3> PICK n \in 1 .. WriteLen : Wrote(n) /\ Write(n)
      BY <3>1
    <3>2. ~Current'.x
      <4>1. SetData("current", Current.data \o SubSeq(out, 1, n)) /\ ~Current.x
        BY <3>1 DEF Write, FilesInv, RunShape
      <4> QED
        BY <1>1, <4>1, ThreeNames DEF SetData, FileTypes, AnyFile
    <3>3. Len(out) \in Nat /\ WriteLen \in 1 .. Len(out) /\ b + WriteLen <= S
      BY <1>1, <3>1, WriteLenFacts
    <3>4. Newline(out[WriteLen])
      BY <3>1, WriteEnds
    <3>5. b' = b + n /\ (Nearly(b') /\ Newline(out[n]) => rstate' = "START")
      BY DEF Wrote
    <3>6. CASE ~Nearly(b')
      BY <1>2, <3>1, <3>2, <3>3, <3>5, <3>6 DEF Nearly, RoomInv
    <3>7. CASE Newline(out[n]) /\ Nearly(b')
      BY <3>2, <3>5, <3>7 DEF RoomInv
    <3>8. CASE ~Newline(out[n])
      <4>1. n < WriteLen /\ b' < S /\ WriteLen - n \in 1 .. Len(out) - n
        BY <1>2, <3>1, <3>3, <3>4, <3>5, <3>8
      <4>2. out' = SubSeq(out, n + 1, Len(out)) /\ out \in Text
        BY <1>1 DEF Wrote, Writes, Scalars
      <4>3. \A i \in n + 1 .. Len(out) : out[i] \in Nat
        BY <3>3, <4>2, ElementIsNat
      <4>4. Len(out') = Len(out) - n /\ out'[WriteLen - n] = out[WriteLen]
        BY <3>3, <4>1, <4>2, <4>3, SubSeqProperties DEF Text
      <4>5. LineWithin(S - b)'
        BY <1>2, <3>1, <3>3, <3>4, <3>5, <4>1, <4>4 DEF LineWithin, Newline
      <4> QED
        BY <3>2, <4>1, <4>5 DEF RoomInv
    <3> QED
      BY <3>6, <3>7, <3>8
  <2> QED
    BY <2>1, <2>2
<1>15. CASE InitCurrent
  BY <1>15 DEF InitCurrent, CallFinish, Running, Runs, Calls, RoomInv
<1>16. CASE RotatorFinish
  BY <1>16 DEF RotatorFinish, Rotator, CallFinish, RoomInv
<1>17. CASE RotatorWait \/ RotatorFail \/ Signals \/ Term \/ NormalStdin \/ Line \/ LastStdin
            \/ NoStdin \/ Loop
  <2>1. pc \in Runs /\ UNCHANGED <<file, b, rstate>>
    BY <1>17
    DEF RotatorWait, RotatorFail, Rotator, Signals, Term, NormalStdin, Line, LastStdin,
        NoStdin, Loop, Runs
  <2>2. \/ out' = out
        \/ \E e \in Nat : start < e /\ out' = out \o Selected(e)
        \/ out' = out \o <<>>
    <3>1. CASE Line
      <4>1. \A e \in NL \cap (start + 1) .. rd : e \in Nat /\ start < e
        BY <1>1 DEF Scalars
      <4> QED
        BY <3>1, <4>1 DEF Line
    <3>2. CASE LastStdin
      <4>1. rd + 1 \in Nat /\ start < rd + 1
        BY <1>1 DEF Scalars
      <4> QED
        BY <3>2, <4>1 DEF LastStdin
    <3> QED
      BY <1>17, <3>1, <3>2
      DEF RotatorWait, RotatorFail, Signals, Term, NormalStdin, NoStdin, Loop, input
  <2>3. \A d \in Text : \A i \in 1 .. Len(out) : i \in 1 .. Len(out \o d) /\ (out \o d)[i] = out[i]
    BY <1>1, ConcatProperties, ElementIsNat DEF Scalars, Text
  <2>4. \/ out' = out
        \/ \A i \in 1 .. Len(out) : i \in 1 .. Len(out') /\ out'[i] = out[i]
    BY <2>2, <2>3, SelectedFacts, EmptyText
  <2> QED
    BY <1>3, <2>1, <2>4 DEF Running
<1>18. CASE Alarm
  <2>1. /\ pc = "signals" /\ UNCHANGED <<out, b, file>>
        /\ rstate' = rstate \/ rstate' = "START"
    BY <1>18 DEF Alarm, CallRotator, input
  <2> QED
    BY <2>1 DEF RoomInv, LineWithin, Running, Runs
<1>19. CASE ProcessorDied
  BY <1>19 DEF ProcessorDied, CallRotator, RoomInv
<1>20. CASE Finalize
  <2>1. /\ pc = "finalize" /\ UNCHANGED <<b, rstate>>
        /\ \/ pc' = "done" /\ file' = [file EXCEPT !["current"].x = TRUE]
           \/ pc' = pc /\ file' = file
    BY <1>20 DEF Finalize, Fail
  <2>2. /\ Running /\ b = Len(Current.data) /\ rstate = "WRITABLE" /\ out = <<>>
        /\ out' = out /\ b \in Nat
    BY <1>1, <1>20, <2>1 DEF FilesInv, RunShape, Running, Runs, Finalize, input, Scalars
  <2>3. Current'.data = Current.data
    BY <1>1, <2>1, Chmoded, ThreeNames
  <2>4. b + L < S
    BY <2>2, EmptyText DEF RoomInv, LineWithin
  <2> QED
    BY <2>1, <2>2, <2>3, <2>4 DEF RoomInv
<1>21. CASE Time \/ Send \/ Close \/ Kill
  <2>1. UNCHANGED <<file, b, rstate, ffail, out>> /\ pc' \in {pc, "killed"}
    BY <1>21 DEF Time, Send, Close, Kill, rets, input
  <2>2. Running' => Running
    BY <2>1 DEF Running, Runs, Calls
  <2> QED
    BY <1>3, <2>1, <2>2
<1>22. CASE Process
  <2>1. UNCHANGED <<pc, b, rstate, ffail, out>>
    BY <1>22 DEF Process, rets, input
  <2>2. Current' = Current
    BY <1>1, <1>22, ThreeNames DEF Process, SetData, FileTypes
  <2> QED
    BY <1>3, <2>1, <2>2 DEF Running
<1>23. CASE Restart
  BY <1>23 DEF Restart, Running, Runs, Calls, RoomInv
<1> QED
  BY NextCases, <1>4, <1>5, <1>6, <1>7, <1>8, <1>9, <1>10, <1>11, <1>12, <1>13, <1>14,
     <1>15, <1>16,
     <1>17, <1>18, <1>19, <1>20, <1>21, <1>22, <1>23

-----------------------------------------------------------------------------
(* The number of files                                                     *)

LEMMA TrimFacts ==
  ASSUME NEW arch \in SUBSET AnyArchive, IsFiniteSet(arch)
  PROVE  /\ Trim(arch) \subseteq arch /\ IsFiniteSet(Trim(arch))
         /\ Cardinality(Trim(arch)) \in Nat /\ Cardinality(Trim(arch)) <= NArch
         /\ \A f \in arch \ Trim(arch) : \A g \in Trim(arch) : f.t < g.t
<1>1. \A f \in arch : f.t \in Nat
  BY ArchiveText
<1>2. Trim(arch) \subseteq arch /\ IsFiniteSet(Trim(arch))
  BY FS_Subset DEF Trim
<1>3. \A f \in arch \ Trim(arch) : \A g \in Trim(arch) : f.t < g.t
  BY <1>1 DEF Trim
<1>4. Cardinality(Trim(arch)) \in Nat
  BY <1>2, FS_CardinalityType
<1>5. CASE Trim(arch) = {}
  BY <1>2, <1>3, <1>4, <1>5, FS_EmptySet, Constants
<1>6. CASE Trim(arch) # {}
  <2> DEFINE T == {f.t : f \in Trim(arch)}
  <2>1. PICK l \in T : \A y \in T : l <= y
    <3>1. \A f \in Trim(arch) : f.t \in Nat
      BY <1>1, <1>2
    <3>2. T \subseteq Nat /\ T # {}
      BY <1>6, <3>1
    <3> HIDE DEF T
    <3> QED
      BY <3>2, LeastExists
  <2>2. PICK f \in Trim(arch) : f.t = l
    BY <2>1
  <2>3. PICK g \in arch : g.t <= f.t /\ Fits(Younger(g, arch))
    BY <2>2 DEF Trim
  <2>4. \A h \in Trim(arch) : f.t <= h.t
    BY <2>1, <2>2
  <2>5. \A h \in Trim(arch) : h.t >= g.t
    BY <1>1, <1>2, <2>3, <2>4
  <2>6. Trim(arch) \subseteq Younger(g, arch)
    BY <1>2, <2>5 DEF Younger
  <2>7. IsFiniteSet(Younger(g, arch))
    BY FS_Subset DEF Younger
  <2>8. Cardinality(Trim(arch)) <= Cardinality(Younger(g, arch))
        /\ Cardinality(Younger(g, arch)) \in Nat
    BY <2>6, <2>7, FS_Subset, FS_CardinalityType
  <2>9. Cardinality(Younger(g, arch)) <= NArch
    BY <2>3 DEF Fits
  <2> QED
    BY <1>2, <1>3, <1>4, <2>8, <2>9, Constants
<1> QED
  BY <1>5, <1>6

LEMMA CountStep ==
  ASSUME FilesInv, LinkInv, CountInv, Next
  PROVE  CountInv'
<1> DEFINE K == {"unlink", "trim", "killed"}
<1>1. /\ old \in SUBSET AnyArchive /\ IsFiniteSet(old) /\ Cardinality(old) \in Nat
      /\ starts \in Nat /\ starts > 0 /\ fails \in Nat /\ NArch \in Nat
  BY TypesParts, Values, Constants, FS_CardinalityType DEF FilesInv, Scalars
<1>2. ASSUME Cardinality(old') = Cardinality(old), starts' = starts, fails' \in Nat, fails <= fails',
             pc \in K => pc' \in K
      PROVE  CountInv'
  BY <1>1, <1>2 DEF CountInv
<1>3. CASE FinishLink
  <2>1. pc = "link" /\ starts' = starts /\ fails' = fails
    BY <1>3 DEF FinishLink
  <2>2. CASE old' = old
    BY <1>2, <1>1, <2>1, <2>2
  <2>3. CASE pc' = "unlink" /\ \E a : old' = old \cup {a}
    <3>1. PICK a : old' = old \cup {a}
      BY <2>3
    <3>2. Cardinality(old') <= Cardinality(old) + 1 /\ Cardinality(old') \in Nat
      <4>1. IsFiniteSet(old) /\ Cardinality(old) \in Nat
        BY <1>1
      <4>2. Cardinality(old \cup {a})
              = IF a \in old THEN Cardinality(old) ELSE Cardinality(old) + 1
        BY <4>1, FS_AddElement
      <4> QED
        BY <3>1, <4>1, <4>2
    <3>3. pc' = "unlink"
      BY <2>3
    <3>4. Cardinality(old) + 1 <= NArch + starts + fails
      BY <1>1, <2>1 DEF CountInv
    <3> QED
      BY <1>1, <2>1, <3>2, <3>3, <3>4 DEF CountInv
  <2> QED
    BY <1>3, <2>2, <2>3 DEF FinishLink
<1>4. CASE FinishTrim
  <2>1. pc = "trim" /\ starts' = starts
    BY <1>4 DEF FinishTrim
  <2>2. CASE old' = Trim(old) /\ fails' = fails
    <3>1. Cardinality(old') \in Nat /\ Cardinality(old') <= NArch
      BY <1>1, <2>2, TrimFacts
    <3> QED
      BY <1>1, <2>1, <2>2, <3>1 DEF CountInv
  <2>3. CASE old' = old /\ fails' = fails + 1
    BY <1>1, <2>1, <2>3 DEF CountInv
  <2> QED
    BY <1>4, <2>2, <2>3 DEF FinishTrim, Fail
<1>5. CASE Restart
  <2>1. starts' = starts + 1 /\ fails' = fails /\ old' = old
    BY <1>5 DEF Restart
  <2> QED
    BY <1>1, <2>1 DEF CountInv
<1>6. CASE RotatorRun
  BY <1>1, <1>2, <1>6, RotatorRunFiles DEF RotatorRun, Rotator, Still
<1>7. CASE Process
  BY <1>1, <1>2, <1>7, ProcessFiles DEF Process, Still
<1>8. CASE Flush
  <2>1. old' = old
    BY <1>8, FlushFiles DEF Wrote, Writes
  <2>2. starts' = starts /\ fails' \in {fails, fails + 1} /\ pc \notin K
    BY <1>8 DEF Flush, Fail
  <2> QED
    BY <1>1, <1>2, <2>1, <2>2
<1>9. ASSUME ~FinishLink, ~FinishTrim, ~Restart, ~RotatorRun, ~Process, ~Flush
      PROVE  old' = old /\ starts' = starts /\ fails' \in {fails, fails + 1} /\ (pc \in K => pc' \in K)
  BY <1>9, NextCases
  DEF LogdirInit, InitCurrent, InitOpen, RotatorQuiet, RotatorRename, RotatorNewcurrent,
      RotatorChmodprevious, RotatorFinish, RotatorFinished, RotatorWait,
      RotatorSyncprocessed, RotatorUnlinkprevious, RotatorFail, FinishUnlink, Signals, Alarm,
      Term, ProcessorDied, NormalStdin, Line, LastStdin, NoStdin, Loop, Finalize, Time, Send,
      Close, Kill, Rotator, Fail
<1> QED
  BY <1>1, <1>2, <1>3, <1>4, <1>5, <1>6, <1>7, <1>8, <1>9

-----------------------------------------------------------------------------
(* The youngest archive is kept                                            *)

\* The size of one file.
LEMMA FoldOne ==
  ASSUME NEW y
  PROVE  FoldSet(LAMBDA g, n : n + Len(g.data), 0, {y}) = 0 + Len(y.data)
<1> DEFINE rec(i) == [s \in SUBSET {y} |->
              IF s = {} THEN 0 ELSE i[s \ {CHOOSE x \in s : TRUE}] + Len((CHOOSE x \in s : TRUE).data)]
           w == [s \in SUBSET {y} |-> IF s = {} THEN 0 ELSE 0 + Len(y.data)]
           it == CHOOSE i : i = rec(i)
<1>1. \A s \in SUBSET {y} : s = {} \/ s = {y}
  OBVIOUS
<1>2. (CHOOSE x \in {y} : TRUE) = y
  OBVIOUS
<1>3. w[{}] = 0 /\ w[{y}] = 0 + Len(y.data)
  OBVIOUS
<1>4. w = rec(w)
  <2>1. \A s \in SUBSET {y} :
          (IF s = {} THEN 0 ELSE 0 + Len(y.data))
            = IF s = {} THEN 0
              ELSE w[s \ {CHOOSE x \in s : TRUE}] + Len((CHOOSE x \in s : TRUE).data)
    BY <1>1, <1>2, <1>3
  <2> QED
    BY <2>1
<1>5. it = rec(it)
  BY <1>4
<1>6. it[{y}] = 0 + Len(y.data)
  <2> HIDE DEF it
  <2>1. it[{}] = 0
    BY <1>5
  <2>2. it[{y}] = it[{y} \ {CHOOSE x \in {y} : TRUE}] + Len((CHOOSE x \in {y} : TRUE).data)
    BY <1>5
  <2>3. {y} \ {y} = {}
    OBVIOUS
  <2> QED
    BY <1>2, <2>1, <2>2, <2>3
<1> QED
  BY <1>6 DEF FoldSet, MapThenFoldSet

\* The limit on the size of the logdir leaves room for one file.
RoomForOne == MaxDir = 0 \/ MaxDir >= S

LEMMA YoungestStays ==
  ASSUME RoomForOne, FilesInv, LinkInv, SizeInv, old # {}
  PROVE  Trim(old) # {}
<1>1. old \in SUBSET AnyArchive /\ now \in Nat /\ NArch >= 2 /\ S \in Nat /\ MaxDir \in Nat
      /\ NArch \in Nat
  BY Values, Constants
<1>2. \A f \in old : f.t \in 1 .. (2 * now + 1) /\ f.data \in Text
  BY <1>1 DEF AnyArchive, LinkInv
<1> DEFINE T == {f.t : f \in old}
<1>3. PICK h \in T : \A y \in T : y <= h
  <2>1. T \subseteq 1 .. (2 * now + 1) /\ T # {}
    BY <1>2
  <2> HIDE DEF T
  <2> QED
    BY <1>1, <2>1, 2 * now + 1 \in Nat, GreatestExists
<1>4. PICK y \in old : y.t = h
  BY <1>3
<1>5. \A f \in old : f.t <= y.t
  BY <1>3, <1>4
<1>6. \A f \in Younger(y, old) : f = y
  BY <1>2, <1>4, <1>5 DEF Younger, LinkInv
<1>7. Younger(y, old) = {y}
  BY <1>2, <1>4, <1>6 DEF Younger
<1>8. Cardinality({y}) = 1
  BY FS_Singleton
<1> DEFINE z == FoldSet(LAMBDA g, n : n + Len(g.data), 0, {y})
<1>9. /\ z = 0 + Len(y.data)
      /\ Fits({y}) <=> Cardinality({y}) <= NArch /\ (MaxDir = 0 \/ z <= MaxDir)
  BY FoldOne DEF Fits
<1> HIDE DEF z
<1>10. Len(y.data) \in Nat /\ Len(y.data) <= S
  BY <1>2, <1>4, ElementIsNat DEF SizeInv
<1>11. Fits({y})
  BY <1>1, <1>8, <1>9, <1>10 DEF RoomForOne
<1>12. y \in Trim(old)
  BY <1>2, <1>4, <1>5, <1>7, <1>11 DEF Trim
<1> QED
  BY <1>12

-----------------------------------------------------------------------------
(* Nothing is lost                                                         *)

LEMMA InPart ==
  ASSUME NEW c, NEW d, \A i \in 1 .. Len(c) : \E j \in 1 .. Len(d) : c[i] = d[j]
  PROVE  \A u : In(u, c) => In(u, d)
<1>1. ASSUME NEW u, In(u, c) PROVE In(u, d)
  <2>1. PICK i \in 1 .. Len(c) : c[i] = u
    BY <1>1 DEF In
  <2>2. PICK j \in 1 .. Len(d) : c[i] = d[j]
    BY <2>1
  <2> QED
    BY <2>1, <2>2 DEF In
<1> QED
  BY <1>1

LEMMA InParts ==
  ASSUME NEW c, NEW d, NEW e,
         \A i \in 1 .. Len(d) : \/ \E j \in 1 .. Len(c) : d[i] = c[j]
                                \/ \E j \in 1 .. Len(e) : d[i] = e[j]
  PROVE  \A u : In(u, d) => In(u, c) \/ In(u, e)
<1>1. ASSUME NEW u, In(u, d) PROVE In(u, c) \/ In(u, e)
  <2>1. PICK i \in 1 .. Len(d) : d[i] = u
    BY <1>1 DEF In
  <2> QED
    BY <2>1 DEF In
<1> QED
  BY <1>1

LEMMA InConcat ==
  ASSUME NEW c \in Text, NEW d \in Text
  PROVE  \A u : In(u, c \o d) <=> In(u, c) \/ In(u, d)
<1> DEFINE w == c \o d
<1>1. /\ \A i \in 1 .. Len(w) :
           (\E j \in 1 .. Len(c) : w[i] = c[j]) \/ (\E j \in 1 .. Len(d) : w[i] = d[j])
      /\ \A j \in 1 .. Len(c) : \E i \in 1 .. Len(w) : w[i] = c[j]
      /\ \A j \in 1 .. Len(d) : \E i \in 1 .. Len(w) : w[i] = d[j]
  BY ConcatTexts
<1> HIDE DEF w
<1>2. \A j \in 1 .. Len(c) : \E i \in 1 .. Len(w) : c[j] = w[i]
  BY <1>1
<1>3. \A j \in 1 .. Len(d) : \E i \in 1 .. Len(w) : d[j] = w[i]
  BY <1>1
<1>4. \A u : In(u, w) <=> In(u, c) \/ In(u, d)
  BY <1>1, <1>2, <1>3, InPart, InParts
<1> QED
  BY <1>4 DEF w

LEMMA InCut ==
  ASSUME NEW d \in Text, NEW n \in 1 .. Len(d)
  PROVE  \A u : In(u, d) <=> In(u, SubSeq(d, 1, n)) \/ In(u, SubSeq(d, n + 1, Len(d)))
<1> DEFINE h == SubSeq(d, 1, n)
           t == SubSeq(d, n + 1, Len(d))
<1>1. /\ \A i \in 1 .. Len(h) : \E j \in 1 .. Len(d) : h[i] = d[j]
      /\ \A i \in 1 .. Len(t) : \E j \in 1 .. Len(d) : t[i] = d[j]
      /\ \A j \in 1 .. Len(d) : \/ \E i \in 1 .. Len(h) : d[j] = h[i]
                                \/ \E i \in 1 .. Len(t) : d[j] = t[i]
  BY CutText
<1> HIDE DEF h, t
<1>2. \A u : In(u, d) <=> In(u, h) \/ In(u, t)
  BY <1>1, InPart, InParts
<1> QED
  BY <1>2 DEF h, t

LEMMA InEmpty == \A u : ~ In(u, <<>>)
BY DEF In

\* What the logdir and what is to be written hold, of given values.
HeldIn(u, arch, mid, cur, next) ==
  In(u, mid) \/ In(u, cur) \/ (\E f \in arch : In(u, f.data)) \/ In(u, next)

LEMMA HeldIs == \A u : There(u) <=> HeldIn(u, old, Mid, Cur, out)
BY DEF There, Has, HeldIn

LEMMA HeldNext == \A u : There(u)' <=> HeldIn(u, old', Mid', Cur', out')
BY DEF There, Has, HeldIn

\* A rotation, its archive, and a write move what there is.
LEMMA MovedHeld ==
  ASSUME FilesInv,
         \/ UNCHANGED out /\ (Still \/ Renames \/ Archives)
         \/ \E n : Wrote(n)
  PROVE  \A u : There(u)' <=> There(u)
<1> USE DEF HeldIn
<1>1. Cur \in Text /\ out \in Text
  BY Values
<1>2. CASE UNCHANGED out /\ Still
  BY <1>2, HeldIs, HeldNext DEF Still
<1>3. CASE UNCHANGED out /\ Renames
  BY <1>3, HeldIs, HeldNext, InEmpty DEF Renames
<1>4. CASE UNCHANGED out /\ Archives
  <2>1. \A t, k, d : Archive(t, k, d).data = d
    BY ArchiveParts
  <2>2. ASSUME NEW k, Archived(k, Mid), Mid' = <<>>, Cur' = Cur
        PROVE  \A u : There(u)' <=> There(u)
    BY <1>4, <2>1, <2>2, HeldIs, HeldNext, InEmpty DEF Archived
  <2>3. ASSUME NEW k, Mid = <<>>, Archived(k, Cur), Mid' = <<>>, Cur' = <<>>
        PROVE  \A u : There(u)' <=> There(u)
    BY <1>4, <2>1, <2>3, HeldIs, HeldNext, InEmpty DEF Archived
  <2> QED
    BY <1>4, <2>2, <2>3 DEF Archives
<1>5. ASSUME NEW n, Wrote(n)
      PROVE  \A u : There(u)' <=> There(u)
  <2> DEFINE h == SubSeq(out, 1, n)
             t == SubSeq(out, n + 1, Len(out))
  <2>1. /\ n \in 1 .. Len(out) /\ old' = old /\ Mid' = Mid
        /\ Cur' = Cur \o h /\ out' = t
    BY <1>5 DEF Wrote, Writes
  <2>2. h \in Text /\ \A u : In(u, out) <=> In(u, h) \/ In(u, t)
    BY <1>1, <2>1, CutText, InCut
  <2> HIDE DEF h, t
  <2>3. \A u : In(u, Cur') <=> In(u, Cur) \/ In(u, h)
    BY <1>1, <2>1, <2>2, InConcat
  <2> QED
    BY <2>1, <2>2, <2>3, HeldIs, HeldNext
<1> QED
  BY <1>2, <1>3, <1>4, <1>5

\* What was accounted for stays so where nothing comes that is older and nothing goes.
LEMMA AccountedStays ==
  ASSUME NEW u, Accounted(u), lost \subseteq lost', old # {} => old' # {},
         There(u) => There(u)' \/ u \in lost',
         \A v : There(v)' => There(v) \/ u < v
  PROVE  Accounted(u)'
<1>1. Deselected(u) => Deselected(u)'
  BY DEF Deselected
<1> QED
  BY <1>1 DEF Accounted

\* What was in memory is lost where s6-log has ended.
LEMMA LostStep ==
  ASSUME FilesInv, Next, pc \in {"killed", "done"} => InMemory \subseteq lost
  PROVE  (pc \in {"killed", "done"} => InMemory \subseteq lost)'
<1>1. Scalars /\ Control
  BY TypesParts DEF FilesInv
<1>2. CASE Kill
  BY <1>2 DEF Kill, InMemory, input
<1>3. CASE Finalize
  BY <1>3 DEF Finalize, InMemory, input
<1>4. CASE Time \/ Process \/ Send \/ Close
  BY <1>4 DEF Time, Process, Send, Close, InMemory, input
<1>5. CASE FinishTrim \/ FinishLink
  <2>1. /\ pc \in Calls /\ pc' \in {"unlink", fret, ffail} /\ UNCHANGED <<out, start, rd, lost>>
    BY <1>5 DEF FinishTrim, FinishLink, input, Calls
  <2>2. /\ fret \in {"finished", "open", "initcurrent"}
        /\ ffail = "unfinished" \/ (ffail = "killed" /\ Starting)
    BY <1>1, <2>1, CalledNames DEF Control, Starting
  <2>3. Starting => InMemory = {}
    <3>1. Starting => out = <<>> /\ start = rd /\ start \in Nat
      BY <1>1 DEF Control, Scalars
    <3>2. ToSet(<<>>) = {}
      BY DEF ToSet
    <3> QED
      BY <3>1, <3>2 DEF InMemory
  <2>4. InMemory' = InMemory
    BY <2>1 DEF InMemory
  <2> QED
    BY <2>1, <2>2, <2>3, <2>4
<1>6. ASSUME ~Kill, ~Finalize, ~Time, ~Process, ~Send, ~Close, ~FinishTrim, ~FinishLink
      PROVE  pc' \notin {"killed", "done"}
  BY <1>1, <1>6, NextCases
  DEF LogdirInit, InitCurrent, InitOpen, RotatorQuiet, RotatorRename, RotatorNewcurrent,
      RotatorChmodprevious, RotatorFinish, RotatorFinished, RotatorRun, RotatorWait,
      RotatorSyncprocessed, RotatorUnlinkprevious, RotatorFail, FinishUnlink, Flush, Write,
      Signals, Alarm, Term, ProcessorDied, NormalStdin, Line, LastStdin, NoStdin, Loop,
      Restart, CallFinish, CallRotator, Rotator, Then, Scalars
<1> QED
  BY <1>2, <1>3, <1>4, <1>5, <1>6

LEMMA KeptStep ==
  ASSUME RoomForOne, FilesInv, LinkInv, SizeInv, TextInv, KeptInv, Next, Effect
  PROVE  KeptInv'
<1>1. /\ old \in SUBSET AnyArchive /\ Mid \in Text /\ Cur \in Text /\ out \in Text
      /\ Top \in Nat /\ start \in Nat /\ rd \in Nat /\ start <= rd /\ rd <= N /\ now \in Nat
      /\ IsFiniteSet(old) /\ N \in Nat
  BY Values, Constants
<1>2. lost \subseteq lost'
  BY HistoryGrows
<1>3. (pc \in {"killed", "done"} => InMemory \subseteq lost)'
  BY LostStep DEF KeptInv
<1>4. \A u \in 1 .. start : Accounted(u)
  BY DEF KeptInv
<1>5. ASSUME start' = start, old # {} => old' # {}, \A u : There(u)' <=> There(u)
      PROVE  KeptInv'
  BY <1>2, <1>3, <1>4, <1>5, AccountedStays DEF KeptInv
<1>6. CASE UNCHANGED <<out, start>> /\ (Still \/ Renames \/ Archives)
  <2>1. old # {} => old' # {}
    BY <1>6 DEF Still, Renames, Archives, Archived
  <2> QED
    BY <1>5, <1>6, <2>1, MovedHeld
<1>7. CASE start' = start /\ \E n : Wrote(n)
  BY <1>5, <1>7, MovedHeld DEF Wrote, Writes
<1>8. CASE UNCHANGED <<out, start>> /\ Trims
  <2>1. /\ old' = Trim(old) /\ Trim(old) \subseteq old /\ Mid' = Mid /\ Cur' = Cur
        /\ \A f \in old \ Trim(old) : \A g \in Trim(old) : f.t < g.t
    BY <1>1, <1>8, TrimFacts DEF Trims
  <2>2. old # {} => old' # {}
    BY <2>1, YoungestStays
  <2>3. \A v : There(v)' => There(v)
    BY <1>8, <2>1, HeldIs, HeldNext DEF HeldIn
  <2>4. ASSUME NEW u \in 1 .. start', There(u), ~There(u)'
        PROVE  Accounted(u)'
    <3>1. PICK f \in old \ Trim(old) : In(u, f.data)
      BY <1>8, <2>1, <2>4, HeldIs, HeldNext DEF HeldIn
    <3>2. ASSUME NEW v, In(v, Mid) \/ In(v, Cur) \/ In(v, out) PROVE u < v
      BY <3>1, <3>2 DEF TextInv, Ordered, In, Below
    <3>3. ASSUME NEW v, NEW g \in Trim(old), In(v, g.data) PROVE u < v
      <4>1. Below(f.data, g.data)
        BY <2>1, <3>1 DEF TextInv, Ordered
      <4> QED
        BY <3>1, <3>3, <4>1 DEF In, Below
    <3>4. \A v : There(v)' => u < v
      BY <1>8, <2>1, <3>2, <3>3, HeldNext DEF HeldIn
    <3>5. old' # {}
      BY <2>2, <3>1
    <3> QED
      BY <3>4, <3>5 DEF Accounted
  <2>5. ASSUME NEW u \in 1 .. start', There(u) => There(u)'
        PROVE  Accounted(u)'
    BY <1>2, <1>4, <1>8, <2>2, <2>3, <2>5, AccountedStays
  <2> QED
    BY <1>3, <2>4, <2>5 DEF KeptInv
<1>9. CASE Takes
  <2>1. PICK e \in (start + 1) .. rd' + 1 :
          /\ out' = out \o Selected(e)
          /\ \A i \in (start + 1) .. (e - 1) : ~Newline(i)
          /\ (e \in NL /\ start' = e) \/ (e = N + 1 /\ start' = N /\ rd' = N)
    BY <1>9 DEF Takes
  <2>2. e \in Nat /\ start < e /\ start' \in Nat /\ start < start' /\ start' <= e
    BY <1>1, <1>9, <2>1, Constants DEF Takes
  <2> DEFINE d == Selected(e)
  <2>3. /\ d \in Text /\ \A i \in 1 .. Len(d) : start < d[i]
        /\ start + 1 \notin Skip => \A u \in (start + 1) .. e : In(u, d)
    BY <2>2, SelectedFacts
  <2>4. old' = old /\ Mid' = Mid /\ Cur' = Cur /\ out' = out \o d
    BY <1>9, <2>1 DEF Takes, Still
  <2> HIDE DEF d
  <2>5. \A u : In(u, out') <=> In(u, out) \/ In(u, d)
    BY <1>1, <2>3, <2>4, InConcat
  <2>6. \A u : There(u)' <=> There(u) \/ In(u, d)
    BY <2>4, <2>5, HeldIs, HeldNext DEF HeldIn
  <2>7. ASSUME NEW u \in 1 .. start PROVE Accounted(u)'
    <3>1. \A v : In(v, d) => u < v
      BY <1>1, <2>3, ElementIsNat DEF In
    <3> QED
      BY <1>2, <1>4, <2>4, <2>6, <3>1, AccountedStays
  <2>8. ASSUME NEW u \in (start + 1) .. start' PROVE Accounted(u)'
    <3>1. CASE start + 1 \notin Skip
      <4>1. u \in (start + 1) .. e
        BY <1>1, <2>2
      <4> QED
        BY <2>3, <2>6, <3>1, <4>1 DEF Accounted
    <3>2. CASE start + 1 \in Skip
      <4>1. NL \cap (start + 1) .. (u - 1) = {}
        BY <1>1, <2>1, <2>2 DEF Newline
      <4>2. start + 1 <= u
        BY <1>1, <2>2
      <4> QED
        BY <3>2, <4>1, <4>2 DEF Accounted, Deselected
    <3> QED
      BY <3>1, <3>2
  <2>9. \A u \in 1 .. start' : u \in 1 .. start \/ u \in (start + 1) .. start'
    BY <1>1, <2>2
  <2> QED
    BY <1>3, <2>7, <2>8, <2>9 DEF KeptInv
<1>10. CASE Drops
  <2>1. out' = <<>> /\ start' = rd /\ InMemory \subseteq lost /\ old' = old
        /\ Mid' = Mid /\ Cur' = Cur
    BY <1>10 DEF Drops, KeptInv, Still
  <2>2. \A v : There(v)' => There(v)
    BY <2>1, HeldIs, HeldNext, InEmpty DEF HeldIn
  <2>3. \A u : There(u) => There(u)' \/ u \in lost'
    <3>1. \A u : In(u, out) => u \in ToSet(out)
      BY DEF In, ToSet
    <3> QED
      BY <1>2, <2>1, <3>1, HeldIs, HeldNext DEF HeldIn, InMemory
  <2>4. ASSUME NEW u \in 1 .. start PROVE Accounted(u)'
    BY <1>2, <1>4, <2>1, <2>2, <2>3, AccountedStays
  <2>5. ASSUME NEW u \in (start + 1) .. rd PROVE Accounted(u)'
    BY <1>2, <2>1 DEF Accounted, InMemory
  <2>6. \A u \in 1 .. start' : u \in 1 .. start \/ u \in (start + 1) .. rd
    BY <1>1, <2>1
  <2> QED
    BY <1>3, <2>4, <2>5, <2>6 DEF KeptInv
<1> QED
  BY <1>6, <1>7, <1>8, <1>9, <1>10 DEF Effect

-----------------------------------------------------------------------------
(* The logdir                                                              *)

\* What holds of any logdir.
DirInv == FilesInv /\ InLine /\ LinkInv /\ StampInv /\ CountInv /\ SizeInv /\ TextInv

LEMMA DirInit ==
  ASSUME Init
  PROVE  DirInv /\ KeptInv /\ LinesInv /\ RoomInv
<1> USE DEF Init, Current, Previous, Processed
<1>1. <<>> \in Text /\ Len(<<>>) = 0 /\ ToSet(<<>>) = {}
  BY EmptyText DEF ToSet
<1>2. \A n \in Names : file[n] = None
  OBVIOUS
<1>3. FileTypes
  BY EmptyFiles, FS_EmptySet DEF FileTypes
<1>4. Scalars
  BY <1>1, Constants DEF Scalars, States, Early, Starts
<1>5. Control
  BY DEF Control, Calls, Runs, Starting
<1>6. Shape
  BY <1>2, EmptyFiles, ThreeNames DEF Shape, Linked
<1>7. StartShape /\ ~Running
  BY <1>2, EmptyFiles, ThreeNames DEF StartShape, Running, Runs, Calls
<1>8. FilesInv
  BY <1>3, <1>4, <1>5, <1>6, <1>7, TypesParts DEF FilesInv
<1>9. InLine
  BY Constants DEF InLine
<1>10. LinkInv
  BY <1>2, EmptyFiles DEF LinkInv, Linked
<1>11. Mid = <<>> /\ Cur = <<>>
  BY <1>2, EmptyFiles, ThreeNames DEF Mid, Cur, InRotation, Linked
<1>12. CountInv
  BY FS_EmptySet, Constants DEF CountInv
<1>13. SizeInv
  BY <1>1, <1>11, Constants DEF SizeInv
<1>14. TextInv
  BY <1>1, <1>11, EmptyText DEF TextInv, Ordered
<1>15. KeptInv
  BY DEF KeptInv
<1>16. LinesInv
  BY <1>1, <1>7, <1>11 DEF LinesInv, Ends, EndsBut, Unbroken
<1>17. RoomInv
  BY <1>2, <1>7, EmptyFiles, ThreeNames DEF RoomInv
<1>18. StampInv
  BY <1>2, EmptyFiles DEF StampInv
<1> QED
  BY <1>8, <1>9, <1>10, <1>12, <1>13, <1>14, <1>15, <1>16, <1>17, <1>18 DEF DirInv

LEMMA DirStep ==
  ASSUME DirInv, Next
  PROVE  DirInv' /\ Effect
<1>1. FilesNext /\ Effect
  BY EffectStep DEF DirInv
<1>2. FilesInv' /\ Types' /\ Scalars'
  <2>1. Scalars'
    BY ScalarsStep, TypesParts DEF DirInv, FilesInv
  <2>2. Types'
    BY <1>1, <2>1 DEF FilesNext, Types, Scalars, FileTypes
  <2> QED
    BY <1>1, <2>1, <2>2 DEF FilesNext, FilesInv
<1>3. InLine'
  BY InLineStep, TypesParts DEF DirInv, FilesInv
<1>4. LinkInv' /\ FileTypes'
  BY <1>1 DEF FilesNext
<1>5. CountInv'
  BY CountStep DEF DirInv
<1>6. SizeInv'
  BY <1>1, SizeStep DEF DirInv
<1>7. TextInv'
  BY <1>1, <1>2, <1>4, TextStep DEF DirInv
<1>8. StampInv'
  BY <1>1, <1>2, StampStep DEF DirInv
<1> QED
  BY <1>1, <1>2, <1>3, <1>4, <1>5, <1>6, <1>7, <1>8 DEF DirInv

LEMMA DirStutters ==
  ASSUME UNCHANGED vars
  PROVE  (DirInv => DirInv') /\ (KeptInv => KeptInv') /\ (LinesInv => LinesInv')
         /\ (RoomInv => RoomInv')
<1> USE DEF vars, input, ctl, rets, env, Current, Previous, Processed
<1>1. Mid' = Mid /\ Cur' = Cur /\ Top' = Top /\ (\A n : Linked(n)' <=> Linked(n))
  BY DEF Mid, Cur, InRotation, Linked, Top
<1>2. (Running' <=> Running) /\ (Starting' <=> Starting)
  BY DEF Running, Starting
<1>3. FilesInv => FilesInv'
  BY <1>1, <1>2 DEF FilesInv, Types, Control, Called, Call, Shape, StartShape, RunShape
<1>4. (InLine => InLine') /\ (LinkInv => LinkInv') /\ (CountInv => CountInv')
      /\ (SizeInv => SizeInv') /\ (TextInv => TextInv') /\ (StampInv => StampInv')
  BY <1>1, <1>2 DEF InLine, LinkInv, CountInv, SizeInv, TextInv, StampInv
<1>5. \A u : Accounted(u)' <=> Accounted(u)
  BY <1>1, HeldIs, HeldNext DEF Accounted, Deselected
<1>6. KeptInv => KeptInv'
  BY <1>5 DEF KeptInv, InMemory
<1>7. (LinesInv => LinesInv') /\ (RoomInv => RoomInv')
  BY <1>1, <1>2 DEF LinesInv, Ends, Continued, RoomInv, LineWithin
<1> QED
  BY <1>3, <1>4, <1>6, <1>7 DEF DirInv

LEMMA InvariantHolds == Spec => []DirInv
<1>1. Init => DirInv
  BY DirInit
<1>2. DirInv /\ [Next]_vars => DirInv'
  BY DirStep, DirStutters
<1> QED
  BY <1>1, <1>2, PTL DEF Spec

LEMMA BoundedHolds ==
  ASSUME DirInv
  PROVE  Bounded
<1>1. Cardinality(old) \in Nat /\ starts \in Nat /\ fails \in Nat /\ NArch \in Nat
  BY TypesParts, Values, Constants, FS_CardinalityType DEF DirInv, FilesInv, Scalars
<1>2. Cardinality(old) <= NArch + starts + fails
  BY <1>1 DEF DirInv, CountInv
<1>3. pc = "flush" /\ rstate = "WRITABLE" => b = Len(Current.data)
  BY DEF DirInv, FilesInv, RunShape, Running, Runs
<1> QED
  BY <1>2, <1>3 DEF Bounded, Current

\* The texts of the logdir, each with its place.
LEMMA TextsAre ==
  ASSUME DirInv
  PROVE  Texts = old \cup {Archive(2 * now + 2, "rotation", Mid)}
                     \cup {Archive(2 * now + 3, "current", Cur)}
<1>1. FileTypes /\ LinkInv
  BY TypesParts DEF DirInv, FilesInv
<1>2. Unlinked(InRotation) <=> InRotation.link = 0
  BY <1>1, UnlinkedIs, ThreeNames DEF InRotation, Linked
<1>3. Unlinked(file["current"]) <=> ~Linked("current")
  BY <1>1, UnlinkedIs, ThreeNames
<1> QED
  BY <1>2, <1>3 DEF Texts, Mid, Cur, Current

LEMMA NothingLostHolds ==
  ASSUME DirInv, KeptInv
  PROVE  NothingLost
<1>1. /\ old \in SUBSET AnyArchive /\ Mid \in Text /\ Cur \in Text /\ out \in Text
      /\ start \in Nat /\ rd \in Nat /\ start <= rd /\ now \in Nat
  BY Values DEF DirInv
<1> DEFINE m == Archive(2 * now + 2, "rotation", Mid)
           c == Archive(2 * now + 3, "current", Cur)
<1>2. m.t = 2 * now + 2 /\ m.data = Mid /\ c.t = 2 * now + 3 /\ c.data = Cur
  BY ArchiveParts
<1>3. Texts = old \cup {m} \cup {c}
  BY TextsAre
<1> HIDE DEF m, c
<1>4. \A f \in old : f.t \in Nat /\ f.t <= 2 * now + 1 /\ f.data \in Text
  BY <1>1, ArchiveText DEF DirInv, LinkInv
<1>5. \A f \in Texts : f.data \in Text /\ Rising(f.data)
  BY <1>1, <1>2, <1>3, <1>4 DEF DirInv, TextInv, Ordered
<1>6. ASSUME NEW f \in Texts, NEW i \in 2 .. Len(f.data)
      PROVE  f.data[i - 1] < f.data[i]
  <2>1. Len(f.data) \in Nat /\ i - 1 \in 1 .. Len(f.data) /\ i \in 1 .. Len(f.data) /\ i - 1 < i
    BY <1>5, ElementIsNat
  <2> QED
    BY <1>5, <2>1 DEF Rising
<1>7. ASSUME NEW f \in Texts, NEW g \in Texts, f.t < g.t
      PROVE  Below(f.data, g.data)
  <2>1. CASE f \in old /\ g \in old
    BY <1>7, <2>1 DEF DirInv, TextInv, Ordered
  <2>2. CASE f \in old /\ g \in {m, c}
    BY <1>2, <2>2 DEF DirInv, TextInv, Ordered
  <2>3. CASE f = m /\ g = c
    BY <1>2, <2>3 DEF DirInv, TextInv, Ordered
  <2>4. (f \in old \/ f = m) /\ (g \in old => f \in old) /\ (f = m => g = c)
    BY <1>1, <1>2, <1>3, <1>4, <1>7
  <2> QED
    BY <1>3, <2>1, <2>2, <2>3, <2>4
<1>8. ASSUME NEW f \in Texts, NEW g \in Texts, f.t < g.t,
             NEW i \in DOMAIN f.data, NEW j \in DOMAIN g.data
      PROVE  f.data[i] < g.data[j]
  <2>1. i \in 1 .. Len(f.data) /\ j \in 1 .. Len(g.data)
    BY <1>5, LenProperties DEF Text
  <2> QED
    BY <1>7, <1>8, <2>1 DEF Below
<1>9. \A u : Has(u) <=> u \in Written
  <2>1. \A d \in Text : \A u : In(u, d) <=> u \in ToSet(d)
    BY LenProperties DEF Text, In, ToSet
  <2> QED
    BY <1>1, <1>2, <1>3, <1>4, <2>1 DEF Has, Written
<1>10. ASSUME NEW u \in 1 .. rd
       PROVE  \/ u \in Written \cup InMemory \cup lost \/ Deselected(u)
              \/ old # {} /\ \A v \in Written : u < v
  <2>1. CASE u <= start
    <3>1. Accounted(u)
      BY <1>1, <2>1 DEF KeptInv
    <3>2. In(u, out) => u \in InMemory
      BY DEF In, InMemory, ToSet
    <3> QED
      BY <1>9, <3>1, <3>2 DEF Accounted, There
  <2>2. CASE u > start
    BY <1>1, <2>2 DEF InMemory
  <2> QED
    BY <1>1, <2>1, <2>2
<1> QED
  BY <1>6, <1>8, <1>10 DEF NothingLost

LEMMA WholeLinesHold ==
  ASSUME DirInv, LinesInv
  PROVE  WholeLines
<1>1. FileTypes /\ LinkInv /\ Shape
  BY TypesParts DEF DirInv, FilesInv
<1>2. \A f \in old : Ends(f.data)
  BY DEF LinesInv
<1>3. \A n \in Names : Linked(n) => Ends(file[n].data)
  BY <1>1, <1>2 DEF LinkInv
<1>4. Ends(Current.data) \/ Continued(Current.data)
  BY <1>3, ThreeNames DEF LinesInv, Cur, Current
<1>5. Ends(<<>>)
  BY DEF Ends, EndsBut
<1>6. Ends(file["previous"].data)
  BY <1>1, <1>3, <1>5, ThreeNames DEF LinesInv, Mid, InRotation, Shape, Linked
<1>7. \A d : Ends(d) <=> Whole(d)
  BY DEF Ends, EndsBut, Whole
<1>8. Whole(Current.data) \/ (out # <<>> /\ Head(out) = Last(Current.data) + 1)
  BY <1>4, <1>7 DEF Continued, Head
<1> QED
  BY <1>2, <1>6, <1>7, <1>8 DEF WholeLines, Current

\* The archive never has more files than n, but for one while it is put there and one for
\* each start and each failure, and s6-log knows the size of current, also where the name
\* that its recovery gives to current was taken: for every input, with lines of any length,
\* and writes of any length.
THEOREM LogdirBounded == Spec => []Bounded
<1>1. DirInv => Bounded
  BY BoundedHolds
<1> QED
  BY <1>1, InvariantHolds, PTL

LEMMA KeptHolds ==
  ASSUME RoomForOne
  PROVE  Spec => [](DirInv /\ KeptInv)
<1>1. Init => DirInv /\ KeptInv
  BY DirInit
<1>2. (DirInv /\ KeptInv) /\ [Next]_vars => (DirInv /\ KeptInv)'
  <2>1. ASSUME DirInv, KeptInv, Next PROVE DirInv' /\ KeptInv'
    BY <2>1, DirStep, KeptStep DEF DirInv
  <2> QED
    BY <2>1, DirStutters
<1> QED
  BY <1>1, <1>2, PTL DEF Spec

\* What was read is in the logdir, in order and each byte once, at every step of a
\* rotation and of its recovery; what is not was in memory when s6-log ended, or was
\* deselected, or is older than all that is there. The limit on the size of the logdir
\* is to be no less than that of a file: with a smaller one finish() removes every file.
THEOREM NothingIsLost ==
  ASSUME RoomForOne
  PROVE  Spec => []NothingLost
<1>1. DirInv /\ KeptInv => NothingLost
  BY NothingLostHolds
<1> QED
  BY <1>1, KeptHolds, PTL

\* With lines that are not longer than the tolerance the files end with whole lines too, but
\* for a line of which a short write left the rest in memory when s6-log ended, or when
\* SIGALRM came.
THEOREM LogdirKept ==
  ASSUME ShortLines, RoomForOne
  PROVE  Spec => []Kept
<1> DEFINE I == DirInv /\ KeptInv /\ LinesInv /\ RoomInv
<1>1. Init => I
  BY DirInit
<1>2. I /\ [Next]_vars => I'
  <2>1. ASSUME DirInv, KeptInv, LinesInv, RoomInv, Next
        PROVE  DirInv' /\ KeptInv' /\ LinesInv' /\ RoomInv'
    <3>1. DirInv' /\ Effect
      BY <2>1, DirStep
    <3>2. KeptInv'
      BY <2>1, <3>1, KeptStep DEF DirInv
    <3>3. LinesInv'
      <4>1. b \in Nat /\ L \in Nat /\ S \in Nat
        BY <2>1, TypesParts, Constants DEF DirInv, FilesInv, Scalars
      <4>2. Running /\ rstate = "WRITABLE" => b < S
        BY <2>1, <4>1 DEF RoomInv
      <4> QED
        BY <2>1, <3>1, <4>2, LinesStep DEF DirInv
    <3>4. RoomInv'
      BY <2>1, RoomStep DEF DirInv
    <3> QED
      BY <3>1, <3>2, <3>3, <3>4
  <2> QED
    BY <2>1, DirStutters
<1>3. I => Kept
  BY NothingLostHolds, WholeLinesHold, BoundedHolds DEF Kept
<1> QED
  BY <1>1, <1>2, <1>3, PTL DEF Spec

=============================================================================
