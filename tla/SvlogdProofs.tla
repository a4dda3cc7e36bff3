---------------------------- MODULE SvlogdProofs ----------------------------
(***************************************************************************)
(* The files of svlogd's directory keep their size and their number, and   *)
(* hold what was read, for every size and number, every input, every       *)
(* choice of the bounds on signals, starts and failures.                   *)
(*                                                                         *)
(* For the number of the old files, and for what they hold, the argument   *)
(* is the same: a file that is processed is there twice for one step, so   *)
(* that the processor's source must still be there when its output is      *)
(* saved, whatever has been removed for want of space in the meantime.     *)
(***************************************************************************)
EXTENDS Svlogd, FiniteSetTheorems, SequenceTheorems, WellFoundedInduction, TLAPS

Text == Seq(Nat)
File == [t : Nat, k : {"s", "t", "u"}, data : Text]

Proc == [t : Nat, st : {"new", "run", "ok", "failed"}, kid : BOOLEAN, in : Text]

InputTypes ==
  /\ {rd, len, at, start} \subseteq Nat /\ start <= at /\ at <= rd
  /\ b \in Text

FileTypes ==
  /\ cur \in [on : BOOLEAN, data : Text, x : BOOLEAN]
  /\ old \subseteq File /\ IsFiniteSet(old)
  /\ procs \subseteq Proc
  /\ {size, ppid, fnsave, now} \subseteq Nat /\ now > 0
  /\ starts \in Nat \ {0}

Returns ==
  /\ ret \in {"getc", "write", "pread", "pause"}
  /\ pret \in {"rotate", "pause", "exit"} /\ wret \in {"getc", "pread"}

Types == InputTypes /\ FileTypes /\ Returns

-----------------------------------------------------------------------------
(* Least elements                                                          *)

LEMMA LeastExists ==
  ASSUME NEW S, S \subseteq Nat, S # {}
  PROVE  \E x \in S : \A y \in S : x <= y
<1>1. PICK x \in S : \A y \in S : ~ (<<y, x>> \in OpToRel(<, Nat))
  BY NatLessThanWellFounded, WFMin
<1>2. \A y \in S : ~ (y < x)
  BY <1>1 DEF OpToRel
<1> QED
  BY <1>2

Rank(f) == 3 * f.t + (IF f.k = "s" THEN 0 ELSE IF f.k = "t" THEN 1 ELSE 2)

\* No two files have the same name.
Single(fs) == \A f, g \in fs : f.t = g.t /\ f.k = g.k => f = g

LEMMA OldestExists ==
  ASSUME NEW fs, fs \subseteq File, fs # {}, Single(fs)
  PROVE  /\ Oldest(fs) \in fs
         /\ \A g \in fs \ {Oldest(fs)} : Before(Oldest(fs), g)
<1> DEFINE S == {Rank(f) : f \in fs}
<1>1. \A f \in File : Rank(f) \in Nat
  BY DEF File, Rank
<1>2. PICK x \in S : \A y \in S : x <= y
  BY <1>1, LeastExists
<1>3. PICK f \in fs : x = Rank(f)
  BY <1>2
<1>4. ASSUME NEW g \in fs \ {f}
      PROVE  Before(f, g)
  <2>1. Rank(f) <= Rank(g)
    BY <1>2, <1>3, <1>4
  <2>2. f \in File /\ g \in File /\ ~ (f.t = g.t /\ f.k = g.k)
    BY <1>3, <1>4 DEF Single
  <2> QED
    BY <2>1, <2>2 DEF Rank, File, Before
<1> QED
  BY <1>3, <1>4 DEF Oldest

-----------------------------------------------------------------------------
(* Types                                                                   *)

LEMMA UptoIsText ==
  ASSUME NEW i \in Nat, NEW j \in Nat
  PROVE  Upto(i, j) \in Text
<1>1. CASE i <= j
  <2> DEFINE e(k) == i + k
  <2>1. j - i \in Nat /\ \A k \in 1 .. (j - i) : e(k) \in Nat
    BY <1>1
  <2>2. [k \in 1 .. (j - i) |-> e(k)] \in Seq(Nat)
    BY <2>1, IsASeq
  <2> QED
    BY <2>2 DEF Upto, Text
<1>2. CASE ~ (i <= j)
  <2>1. 1 .. (j - i) = 1 .. 0
    BY <1>2
  <2>2. [k \in 1 .. (j - i) |-> i + k] \in [1 .. 0 -> Nat]
    BY <2>1
  <2> QED
    BY <2>2 DEF Upto, Text
<1> QED
  BY <1>1, <1>2

LEMMA PutIsText ==
  ASSUME NEW bytes \in Text, b \in Text, Put(bytes)
  PROVE  b' \in Text
<1> DEFINE more == IF start + 1 \in Skip THEN <<>> ELSE bytes
<1>1. more \in Seq(Nat)
  BY DEF Text
<1>2. b' = b \o more
  BY DEF Put
<1> HIDE DEF more
<1> QED
  BY <1>1, <1>2, ConcatProperties DEF Text

LEMMA InitTypes ==
  ASSUME Init
  PROVE  Types
<1>1. <<>> \in Text
  BY EmptySeq DEF Text
<1>2. BufLen \in Nat
  BY SvlogdAssumption
<1>3. InputTypes
  BY <1>1, <1>2 DEF Init, InputTypes
<1>4. FileTypes
  BY <1>1, FS_EmptySet DEF Init, FileTypes, None
<1> QED
  BY <1>3, <1>4 DEF Types, Init, Returns

LEMMA LineTypes ==
  ASSUME InputTypes, Line
  PROVE  InputTypes'
<1> DEFINE ends == {p \in (at + 1) .. rd : p \in NL \/ p = start + LineMax}
           e == CHOOSE p \in ends : \A q \in ends : p <= q
<1> USE DEF InputTypes
<1>1. rd' = rd /\ len' = len
  BY DEF Line
<1>2. CASE ends = {}
  <2>1. at' = rd /\ start' = start /\ b' = b
    BY <1>2 DEF Line
  <2> QED
    BY <1>1, <2>1
<1>3. CASE ends # {}
  <2>1. e \in ends
    <3>1. ends \subseteq Nat
      OBVIOUS
    <3>2. \E p \in ends : \A q \in ends : p <= q
      BY <1>3, <3>1, LeastExists
    <3> HIDE DEF ends
    <3> QED
      BY <3>2
  <2>2. e \in Nat /\ at < e /\ e <= rd
    BY <2>1
  <2>3. /\ at' = e
        /\ \/ start' = e /\ b' = b
           \/ Put(Upto(start, e)) /\ start' \in {start, e}
    BY <1>3 DEF Line
  <2> HIDE DEF e, ends
  <2>4. b' \in Text
    BY <2>2, <2>3, UptoIsText, PutIsText
  <2> QED
    BY <1>1, <2>2, <2>3, <2>4
<1> QED
  BY <1>2, <1>3

LEMMA RestTypes ==
  ASSUME InputTypes, Rest
  PROVE  InputTypes'
<1> DEFINE ends == NL \cap (at + 1) .. rd
           e == CHOOSE p \in ends : \A q \in ends : p <= q
<1> USE DEF InputTypes
<1>1. rd' = rd /\ len' = len
  BY DEF Rest
<1>2. CASE ends = {}
  <2>1. at' = rd /\ start' = start /\ Put(Upto(at, rd))
    BY <1>2 DEF Rest
  <2> QED
    BY <1>1, <2>1, UptoIsText, PutIsText
<1>3. CASE ends # {}
  <2>1. e \in ends
    <3>1. ends \subseteq Nat
      OBVIOUS
    <3>2. \E p \in ends : \A q \in ends : p <= q
      BY <1>3, <3>1, LeastExists
    <3> HIDE DEF ends
    <3> QED
      BY <3>2
  <2>2. e \in Nat /\ at < e /\ e <= rd
    BY <2>1
  <2>3. at' = e /\ start' = e /\ Put(Upto(at, e))
    BY <1>3 DEF Rest
  <2> HIDE DEF e, ends
  <2>4. b' \in Text
    BY <2>2, <2>3, UptoIsText, PutIsText
  <2> QED
    BY <1>1, <2>2, <2>3, <2>4
<1> QED
  BY <1>2, <1>3

LEMMA EofTypes ==
  ASSUME InputTypes, Eof, rd' = rd, at' = at, len' \in Nat
  PROVE  InputTypes'
<1>1. N \in Nat
  BY SvlogdAssumption
<1>2. <<N + 1>> \in Text
  BY <1>1 DEF Text
<1>3. b' = b \/ Put(<<N + 1>>)
  BY DEF Eof
<1>4. b' \in Text
  BY <1>2, <1>3, PutIsText DEF InputTypes
<1>5. start' = at
  BY DEF Eof
<1> QED
  BY <1>4, <1>5 DEF InputTypes

\* What Write appends to current and keeps.
LEMMA WriteLenFacts ==
  ASSUME b \in Text, b # <<>>, size \in Nat, ~ (SizeMax > 0 /\ size >= SizeMax)
  PROVE  /\ WriteLen \in 1 .. Len(b)
         /\ SizeMax > 0 => size + WriteLen <= SizeMax
         /\ SubSeq(b, 1, WriteLen) \in Text /\ Len(SubSeq(b, 1, WriteLen)) = WriteLen
         /\ SubSeq(b, WriteLen + 1, Len(b)) \in Text
<1>1. Len(b) \in Nat \ {0} /\ SizeMax \in Nat
  BY EmptySeq, SvlogdAssumption DEF Text
<1>2. WriteLen \in 1 .. Len(b) /\ (SizeMax > 0 => size + WriteLen <= SizeMax)
  BY <1>1 DEF WriteLen, Lower
<1>3. \A i \in 1 .. Len(b) : b[i] \in Nat
  BY ElementOfSeq DEF Text
<1>4. /\ \A i \in 1 .. WriteLen : b[i] \in Nat
      /\ \A i \in WriteLen + 1 .. Len(b) : b[i] \in Nat
  BY <1>1, <1>2, <1>3
<1>5. SubSeq(b, 1, WriteLen) \in Text /\ Len(SubSeq(b, 1, WriteLen)) = WriteLen
  BY <1>2, <1>4, SubSeqProperties DEF Text
<1>6. SubSeq(b, WriteLen + 1, Len(b)) \in Text
  BY <1>1, <1>2, <1>4, SubSeqProperties DEF Text
<1> QED
  BY <1>2, <1>5, <1>6

LEMMA InputStep ==
  ASSUME InputTypes, size \in Nat, [Next]_vars
  PROVE  InputTypes'
<1>1. ASSUME Line PROVE InputTypes'
  BY <1>1, LineTypes
<1>2. ASSUME Rest PROVE InputTypes'
  BY <1>2, RestTypes
<1>3. ASSUME Write PROVE InputTypes'
  <2>1. UNCHANGED input
    BY <1>3 DEF Write
  <2>2. b' = b \/ (b # <<>> /\ ~ (SizeMax > 0 /\ size >= SizeMax)
                    /\ b' = SubSeq(b, WriteLen + 1, Len(b)))
    BY <1>3 DEF Write
  <2>3. b' \in Text
    BY <2>2, WriteLenFacts DEF InputTypes
  <2> QED
    BY <2>1, <2>3 DEF InputTypes, input
<1>4. ASSUME Pread PROVE InputTypes'
  <2>1. rd' = rd /\ at' = at /\ len' \in Nat
    BY <1>4, SvlogdAssumption DEF Pread
  <2>2. Eof \/ (start' = start /\ b' = b)
    BY <1>4 DEF Pread
  <2> QED
    BY <2>1, <2>2, EofTypes DEF InputTypes
<1>5. ASSUME Read PROVE InputTypes'
  <2>1. len' = len /\ at' = at
    BY <1>5 DEF Read
  <2>2. \/ Eof /\ rd' = rd
        \/ start' = start /\ b' = b /\ (rd' = rd \/ \E k \in 1 .. len : rd' = rd + k)
    BY <1>5 DEF Read
  <2> QED
    BY <2>1, <2>2, EofTypes DEF InputTypes
<1>6. ASSUME Restart PROVE InputTypes'
  BY <1>6, EmptySeq DEF Restart, InputTypes, Text
<1>7. ASSUME \/ Open \/ OpenOldest \/ OpenCurrent \/ Stopping \/ Rotating
             \/ Handle \/ HandleChild \/ Exit \/ WriteFull \/ Process \/ Send \/ Kill
             \/ UNCHANGED vars
      PROVE  InputTypes'
  <2>1. UNCHANGED input /\ b' = b
    BY <1>7 DEF Open, OpenOldest, OpenCurrent, Stopping, StopWait, StopFailed, StopRename,
       StopUnlink, Rotating, Rotate, RotateChmod, RotateRename, RotateCreate, RotateOldest,
       RotateStart, Handle, HandleChild, Exit, WriteFull, Process, Send, Kill, vars
  <2> QED
    BY <2>1 DEF InputTypes, input
<1> QED
  BY <1>1, <1>2, <1>3, <1>4, <1>5, <1>6, <1>7 DEF Next, Step

LEMMA ReturnsStep ==
  ASSUME Returns, [Next]_vars
  PROVE  Returns'
<1> USE DEF Returns
<1>1. ASSUME Step PROVE Returns'
  <2>1. CASE Open \/ OpenOldest \/ OpenCurrent \/ Stopping \/ Handle \/ HandleChild \/ Exit
    BY <2>1 DEF Open, OpenOldest, OpenCurrent, Stopping, StopWait, StopFailed, StopRename,
       StopUnlink, Handle, HandleChild, Exit
  <2>2. CASE Rotating \/ Write
    BY <2>2 DEF Rotating, Rotate, RotateChmod, RotateRename, RotateCreate, RotateOldest,
       RotateStart, Write
  <2>3. CASE Line \/ Rest
    BY <2>3 DEF Line, Rest, Flush
  <2>4. CASE Pread
    BY <2>4 DEF Pread, Eof, Flush
  <2> QED
    BY <1>1, <2>1, <2>2, <2>3, <2>4 DEF Step
<1>2. ASSUME Read PROVE Returns'
  BY <1>2 DEF Read, Eof, Flush
<1>3. ASSUME WriteFull \/ Process \/ Send \/ Kill \/ Restart \/ UNCHANGED vars PROVE Returns'
  BY <1>3 DEF WriteFull, Process, Send, Kill, Restart, vars
<1> QED
  BY <1>1, <1>2, <1>3 DEF Next

-----------------------------------------------------------------------------
(* The types of files and processors                                       *)

LEMMA OldIsFile ==
  ASSUME NEW t \in Nat, NEW k \in {"s", "t", "u"}, NEW data \in Text
  PROVE  /\ Old(t, k, data) \in File
         /\ Old(t, k, data).t = t /\ Old(t, k, data).k = k /\ Old(t, k, data).data = data
BY DEF Old, File

LEMMA StartedIsProc ==
  ASSUME NEW t \in Nat
  PROVE  /\ Started(t) \subseteq Proc
         /\ \A p \in Started(t) : Processor /\ p.t = t /\ p.in = <<>>
<1>1. <<>> \in Text
  BY EmptySeq DEF Text
<1>2. [t |-> t, st |-> "new", kid |-> TRUE, in |-> <<>>] \in Proc
  BY <1>1 DEF Proc
<1> DEFINE r == [t |-> t, st |-> "new", kid |-> TRUE, in |-> <<>>]
<1>3. r \in Proc /\ r.t = t /\ r.in = <<>>
  BY <1>2
<1>4. Started(t) = IF Processor THEN {r} ELSE {}
  BY DEF Started
<1> HIDE DEF r
<1> QED
  BY <1>3, <1>4

\* What a step may do to the old files: all are old ones or this one.
LEMMA MoreFiles ==
  ASSUME old \subseteq File, IsFiniteSet(old), NEW f \in File, old' \subseteq old \cup {f}
  PROVE  old' \subseteq File /\ IsFiniteSet(old')
BY FS_AddElement, FS_Subset

LEMMA FewerFiles ==
  ASSUME old \subseteq File, IsFiniteSet(old), old' \subseteq old
  PROVE  old' \subseteq File /\ IsFiniteSet(old')
BY FS_Subset

\* What a processor had written when it was killed.
LEMMA KilledOutput ==
  ASSUME NEW p \in Proc, ProcessorKilled(p)
  PROVE  /\ p.st \in {"new", "run"} /\ procs' = (procs \ {p}) \cup {[p EXCEPT !.st = "ok"]}
         /\ cut \subseteq cut'
         /\ \E d \in Text :
              /\ old' = {IF f \in Of(p.t, "t") THEN Old(p.t, "t", d) ELSE f : f \in old}
              /\ Len(d) <= Len(p.in) /\ \A i \in 1 .. Len(d) : d[i] = p.in[i]
              /\ \A i \in 1 .. Len(p.in) : i > Len(d) => p.in[i] \in cut'
<1>1. p.in \in Seq(Nat) /\ Len(p.in) \in Nat
  BY LenProperties DEF Proc, Text
<1>2. PICK k \in 0 .. Len(p.in) :
        /\ old' = {IF f \in Of(p.t, "t") THEN Old(p.t, "t", SubSeq(p.in, 1, k)) ELSE f : f \in old}
        /\ cut' = cut \cup {p.in[i] : i \in (k + 1) .. Len(p.in)}
  BY DEF ProcessorKilled
<1> DEFINE d == SubSeq(p.in, 1, k)
<1>3. \A i \in 1 .. k : p.in[i] \in Nat
  BY <1>1, ElementOfSeq
<1>4. d \in Seq(Nat) /\ Len(d) = k /\ \A i \in 1 .. k : d[i] = p.in[i]
  BY <1>1, <1>3, SubSeqProperties
<1>5. old' = {IF f \in Of(p.t, "t") THEN Old(p.t, "t", d) ELSE f : f \in old}
  BY <1>2
<1> HIDE DEF d
<1>6. \A i \in 1 .. Len(p.in) : i > k => p.in[i] \in cut'
  BY <1>1, <1>2
<1>7. d \in Text /\ Len(d) <= Len(p.in) /\ (\A i \in 1 .. Len(d) : d[i] = p.in[i])
      /\ \A i \in 1 .. Len(p.in) : i > Len(d) => p.in[i] \in cut'
  BY <1>1, <1>4, <1>6 DEF Text
<1>8. cut \subseteq cut'
  BY <1>2
<1> QED
  BY <1>5, <1>7, <1>8 DEF ProcessorKilled

LEMMA ProcessTypes ==
  ASSUME FileTypes, NEW p \in procs, ProcessorOpen(p) \/ ProcessorEnd(p) \/ ProcessorKilled(p)
  PROVE  old' \subseteq File /\ IsFiniteSet(old') /\ procs' \subseteq Proc
<1> USE DEF FileTypes
<1>1. p \in Proc /\ p.t \in Nat /\ p.in \in Text
  BY DEF Proc
<1>2. \A s \in {"new", "run", "ok", "failed"} : [p EXCEPT !.st = s] \in Proc
  BY <1>1 DEF Proc
<1>3. ASSUME ProcessorOpen(p) PROVE old' \subseteq File /\ IsFiniteSet(old') /\ procs' \subseteq Proc
  <2>1. CASE Of(p.t, "u") = {}
    BY <1>2, <1>3, <2>1 DEF ProcessorOpen
  <2>2. CASE Of(p.t, "u") # {}
    <3>1. PICK f \in Of(p.t, "u") :
            /\ procs' = (procs \ {p}) \cup {[p EXCEPT !.st = "run", !.in = f.data]}
            /\ old' = (old \ Of(p.t, "t")) \cup {Old(p.t, "t", <<>>)}
      BY <1>3, <2>2 DEF ProcessorOpen
    <3>2. f.data \in Text /\ <<>> \in Text
      BY EmptySeq DEF Of, File, Text
    <3>3. [p EXCEPT !.st = "run", !.in = f.data] \in Proc
      BY <1>1, <3>2 DEF Proc
    <3>4. Old(p.t, "t", <<>>) \in File
      BY <1>1, <3>2, OldIsFile
    <3>5. old' \subseteq old \cup {Old(p.t, "t", <<>>)}
      BY <3>1
    <3> QED
      BY <3>1, <3>3, <3>4, <3>5, MoreFiles
  <2> QED
    BY <2>1, <2>2
<1>4. ASSUME ProcessorEnd(p) PROVE old' \subseteq File /\ IsFiniteSet(old') /\ procs' \subseteq Proc
  <2>1. procs' \subseteq Proc
    BY <1>2, <1>4 DEF ProcessorEnd
  <2>2. \/ old' = {IF f \in Of(p.t, "t") THEN Old(p.t, "t", p.in) ELSE f : f \in old}
        \/ old' = old
    BY <1>4 DEF ProcessorEnd
  <2>3. old' \subseteq old \cup {Old(p.t, "t", p.in)}
    BY <2>2
  <2>4. Old(p.t, "t", p.in) \in File
    BY <1>1, OldIsFile
  <2> QED
    BY <2>1, <2>3, <2>4, MoreFiles
<1>5. ASSUME ProcessorKilled(p) PROVE old' \subseteq File /\ IsFiniteSet(old') /\ procs' \subseteq Proc
  <2>1. PICK d \in Text : old' = {IF f \in Of(p.t, "t") THEN Old(p.t, "t", d) ELSE f : f \in old}
    BY <1>1, <1>5, KilledOutput
  <2>2. old' \subseteq old \cup {Old(p.t, "t", d)}
    BY <2>1
  <2>3. Old(p.t, "t", d) \in File
    BY <1>1, OldIsFile
  <2>4. procs' \subseteq Proc
    BY <1>1, <1>2, <1>5, KilledOutput
  <2> QED
    BY <2>2, <2>3, <2>4, MoreFiles
<1> QED
  BY <1>3, <1>4, <1>5

LEMMA FileStep ==
  ASSUME FileTypes, b \in Text, [Next]_vars
  PROVE  FileTypes'
<1> USE DEF FileTypes
<1>1. None \in [on : BOOLEAN, data : Text, x : BOOLEAN] /\ Empty.data = <<>>
      /\ Empty \in [on : BOOLEAN, data : Text, x : BOOLEAN] /\ <<>> \in Text
  BY EmptySeq DEF None, Empty, Text
<1>2. /\ cur.data \in Text /\ Len(cur.data) \in Nat
      /\ [cur EXCEPT !.x = TRUE] \in [on : BOOLEAN, data : Text, x : BOOLEAN]
  BY LenProperties DEF Text
<1>3. ASSUME Open PROVE FileTypes'
  <2>1. Old(now, "u", cur.data) \in File
    BY <1>2, OldIsFile
  <2>2. old' \subseteq old \cup {Old(now, "u", cur.data)} /\ cur' \in {cur, None}
    BY <1>3 DEF Open, files
  <2>3. old' \subseteq File /\ IsFiniteSet(old')
    BY <2>1, <2>2, MoreFiles
  <2>4. {size', ppid', fnsave', now'} \subseteq Nat /\ now' > 0
    BY <1>2, <1>3 DEF Open
  <2>5. procs' = procs /\ starts' = starts
    BY <1>3 DEF Open, bounds
  <2> QED
    BY <1>1, <2>2, <2>3, <2>4, <2>5
<1>4. ASSUME OpenOldest \/ RotateOldest PROVE FileTypes'
  <2>1. old' \subseteq old
    BY <1>4 DEF OpenOldest, RotateOldest, RmOldest
  <2>2. UNCHANGED <<cur, procs, size, ppid, fnsave, now, starts>>
    BY <1>4 DEF OpenOldest, RotateOldest, ldir, bounds
  <2> QED
    BY <2>1, <2>2, FewerFiles
<1>5. ASSUME WriteFull PROVE FileTypes'
  <2>1. old' \subseteq old
    BY <1>5 DEF WriteFull
  <2>2. UNCHANGED <<cur, procs, size, ppid, fnsave, now, starts>>
    BY <1>5 DEF WriteFull, ldir, bounds
  <2> QED
    BY <2>1, <2>2, FewerFiles
<1>6. ASSUME OpenCurrent PROVE FileTypes'
  BY <1>2, <1>6 DEF OpenCurrent, ldir, bounds
<1>7. ASSUME StopWait \/ StopFailed \/ StopUnlink PROVE FileTypes'
  <2>1. old' \subseteq old /\ procs' \subseteq procs \cup Started(fnsave)
    BY <1>7 DEF StopWait, StopFailed, StopUnlink, files
  <2>2. UNCHANGED <<cur, size, fnsave, now, starts>> /\ ppid' \in {ppid, fnsave, 0}
    BY <1>7 DEF StopWait, StopFailed, StopUnlink, files, ldir, bounds
  <2> QED
    BY <2>1, <2>2, FewerFiles, StartedIsProc
<1>8. ASSUME StopRename PROVE FileTypes'
  <2>1. PICK f \in Of(fnsave, "t") : old' = (old \ {f}) \cup {Old(fnsave, "s", f.data)}
    BY <1>8 DEF StopRename
  <2>2. Old(fnsave, "s", f.data) \in File
    BY OldIsFile DEF Of, File
  <2>3. UNCHANGED <<cur, procs, size, ppid, fnsave, now, starts>>
    BY <1>8 DEF StopRename, ldir, bounds
  <2> QED
    BY <2>1, <2>2, <2>3, MoreFiles
<1>9. ASSUME Rotate \/ RotateChmod \/ RotateCreate \/ RotateStart PROVE FileTypes'
  <2>1. old' = old /\ cur' \in {cur, [cur EXCEPT !.x = TRUE], Empty}
        /\ procs' \subseteq procs \cup Started(fnsave) /\ starts' = starts
    BY <1>9 DEF Rotate, RotateChmod, RotateCreate, RotateStart, files, bounds
  <2>2. {size', ppid', fnsave', now'} \subseteq Nat /\ now' > 0
    BY <1>9 DEF Rotate, RotateChmod, RotateCreate, RotateStart, ldir
  <2> QED
    BY <1>1, <1>2, <2>1, <2>2, StartedIsProc
<1>10. ASSUME RotateRename PROVE FileTypes'
  <2>1. Old(fnsave, IF Processor THEN "u" ELSE "s", cur.data) \in File
    BY <1>2, OldIsFile
  <2>2. UNCHANGED <<procs, size, ppid, fnsave, now, starts>> /\ cur' = None
        /\ old' = old \cup {Old(fnsave, IF Processor THEN "u" ELSE "s", cur.data)}
    BY <1>10 DEF RotateRename, ldir, bounds
  <2> QED
    BY <1>1, <2>1, <2>2, MoreFiles
<1>11. ASSUME Write PROVE FileTypes'
  <2>1. UNCHANGED <<old, procs, ppid, fnsave, now, starts>>
    BY <1>11 DEF Write, bounds
  <2>2. CASE cur' = cur /\ size' = size
    BY <2>1, <2>2
  <2>3. CASE ~ (cur' = cur /\ size' = size)
    <3>1. /\ b # <<>> /\ ~ (SizeMax > 0 /\ size >= SizeMax)
          /\ cur' = [cur EXCEPT !.data = @ \o SubSeq(b, 1, WriteLen)]
          /\ size' = size + WriteLen
      BY <1>11, <2>3 DEF Write
    <3>2. WriteLen \in 1 .. Len(b) /\ SubSeq(b, 1, WriteLen) \in Text
      BY <3>1, WriteLenFacts
    <3>3. Len(b) \in Nat /\ cur.data \o SubSeq(b, 1, WriteLen) \in Text
      BY <1>2, <3>2, ConcatProperties, LenProperties DEF Text
    <3> DEFINE d == cur.data \o SubSeq(b, 1, WriteLen)
    <3>4. cur' = [cur EXCEPT !.data = d] /\ d \in Text
      BY <3>1, <3>3
    <3>5. size' \in Nat
      BY <3>1, <3>2, <3>3
    <3> HIDE DEF d
    <3>6. cur' \in [on : BOOLEAN, data : Text, x : BOOLEAN]
      BY <3>4
    <3> QED
      BY <2>1, <3>5, <3>6
  <2> QED
    BY <2>2, <2>3
<1>12. ASSUME Pread \/ Exit PROVE FileTypes'
  <2>1. UNCHANGED <<old, procs, size, ppid, fnsave, now, starts>>
        /\ cur' \in {cur, [cur EXCEPT !.x = TRUE]}
    BY <1>12 DEF Pread, Exit, ldir, bounds
  <2> QED
    BY <1>2, <2>1
<1>13. ASSUME Line \/ Rest \/ Handle \/ HandleChild \/ Read \/ Send \/ Kill \/ UNCHANGED vars
       PROVE  FileTypes'
  <2>1. UNCHANGED <<cur, old, size, fnsave, now, starts>> /\ ppid' \in {ppid, 0}
        /\ procs' \subseteq procs
    BY <1>13 DEF Line, Rest, Handle, HandleChild, Read, Send, Kill, vars, files, ldir, bounds
  <2> QED
    BY <2>1
<1>14. ASSUME Process PROVE FileTypes'
  <2>1. PICK p \in procs : ProcessorOpen(p) \/ ProcessorEnd(p) \/ ProcessorKilled(p)
    BY <1>14 DEF Process
  <2>2. UNCHANGED <<cur, size, ppid, fnsave, now, starts>>
    BY <1>14 DEF Process, ldir
  <2> QED
    BY <2>1, <2>2, ProcessTypes
<1>15. ASSUME Restart PROVE FileTypes'
  <2>1. UNCHANGED <<cur, old, size, fnsave, now>> /\ ppid' = 0 /\ starts' = starts + 1
        /\ procs' = {[p EXCEPT !.kid = FALSE] : p \in procs}
    BY <1>15 DEF Restart, files
  <2>2. procs' \subseteq Proc
    BY <2>1 DEF Proc
  <2> QED
    BY <2>1, <2>2
<1> QED
  BY <1>3, <1>4, <1>5, <1>6, <1>7, <1>8, <1>9, <1>10, <1>11, <1>12, <1>13, <1>14, <1>15
     DEF Next, Step, Stopping, Rotating

LEMMA TypesStep ==
  ASSUME Types, [Next]_vars
  PROVE  Types'
<1>1. size \in Nat /\ b \in Text
  BY DEF Types, InputTypes, FileTypes
<1> QED
  BY <1>1, InputStep, FileStep, ReturnsStep DEF Types

-----------------------------------------------------------------------------
(* Sizes                                                                   *)

Fits(data) == SizeMax > 0 => Len(data) <= SizeMax

\* Where current is not the file that svlogd writes to.
Closed == {"open", "create", "killed", "done"}

SizeInv ==
  /\ \A f \in old \cup {cur} : Fits(f.data)
  /\ \A p \in procs : Fits(p.in)
  /\ pc \notin Closed => size = Len(cur.data)

LEMMA EmptyFits == Fits(<<>>) /\ Len(<<>>) = 0
BY EmptySeq, SvlogdAssumption DEF Fits

\* Steps that only move and remove files.
LEMMA SizeQuiet ==
  ASSUME SizeInv, cur'.data = cur.data, size' = size, pc' \notin Closed => pc \notin Closed,
         \A f \in old' : f \in old \/ f.data = <<>>,
         \A p \in procs' : p \in procs \/ p.in = <<>> \/ \E q \in procs : p.in = q.in
  PROVE  SizeInv'
<1>1. \A f \in old' : Fits(f.data)
  BY EmptyFits DEF SizeInv
<1>2. \A p \in procs' : Fits(p.in)
  BY EmptyFits DEF SizeInv
<1>3. Fits(cur'.data)
  BY DEF SizeInv
<1> QED
  BY <1>1, <1>2, <1>3 DEF SizeInv, Fits

LEMMA SizeProcess ==
  ASSUME FileTypes, SizeInv, Process
  PROVE  SizeInv'
<1>1. PICK p \in procs : ProcessorOpen(p) \/ ProcessorEnd(p) \/ ProcessorKilled(p)
  BY DEF Process
<1>2. UNCHANGED <<cur, size, pc>>
  BY DEF Process, ldir
<1>3. p \in Proc /\ p.t \in Nat /\ p.in \in Text
  BY DEF FileTypes, Proc
<1>4. CASE ProcessorOpen(p)
  <2>1. CASE Of(p.t, "u") = {}
    <3>1. \A q \in procs' : q \in procs \/ q.in = p.in
      BY <1>3, <1>4, <2>1 DEF ProcessorOpen, Proc
    <3>2. old' = old
      BY <1>4, <2>1 DEF ProcessorOpen
    <3> QED
      BY <1>2, <3>1, <3>2, SizeQuiet
  <2>2. CASE Of(p.t, "u") # {}
    <3>1. PICK f \in Of(p.t, "u") :
            /\ procs' = (procs \ {p}) \cup {[p EXCEPT !.st = "run", !.in = f.data]}
            /\ old' = (old \ Of(p.t, "t")) \cup {Old(p.t, "t", <<>>)}
      BY <1>4, <2>2 DEF ProcessorOpen
    <3>2. \A q \in procs' : q \in procs \/ q.in = f.data
      BY <1>3, <3>1 DEF Proc
    <3>3. \A q \in procs' : Fits(q.in)
      BY <3>2 DEF SizeInv, Of
    <3>4. \A g \in old' : g \in old \/ g.data = <<>>
      BY <3>1 DEF Old
    <3>5. \A g \in old' : Fits(g.data)
      BY <3>4, EmptyFits DEF SizeInv
    <3> QED
      BY <1>2, <3>3, <3>5 DEF SizeInv, Fits
  <2> QED
    BY <2>1, <2>2
<1>5. CASE ProcessorEnd(p)
  <2>1. \A q \in procs' : q \in procs \/ q.in = p.in
    BY <1>3, <1>5 DEF ProcessorEnd, Proc
  <2>2. \/ old' = {IF f \in Of(p.t, "t") THEN Old(p.t, "t", p.in) ELSE f : f \in old}
        \/ old' = old
    BY <1>5 DEF ProcessorEnd
  <2>3. \A g \in old' : g \in old \/ g.data = p.in
    BY <2>2 DEF Old
  <2> QED
    BY <1>2, <2>1, <2>3 DEF SizeInv, Fits
<1>6. CASE ProcessorKilled(p)
  <2>1. \A q \in procs' : q \in procs \/ q.in = p.in
    BY <1>3, <1>6, KilledOutput DEF Proc
  <2>2. PICK d \in Text :
          /\ old' = {IF f \in Of(p.t, "t") THEN Old(p.t, "t", d) ELSE f : f \in old}
          /\ Len(d) <= Len(p.in)
    BY <1>3, <1>6, KilledOutput
  <2>3. \A g \in old' : g \in old \/ g.data = d
    BY <2>2 DEF Old
  <2>4. Len(d) \in Nat /\ Len(p.in) \in Nat /\ SizeMax \in Nat
    BY <1>3, LenProperties, SvlogdAssumption DEF Text
  <2>5. Fits(d)
    BY <2>2, <2>4 DEF SizeInv, Fits
  <2> QED
    BY <1>2, <2>1, <2>3, <2>5 DEF SizeInv, Fits
<1> QED
  BY <1>1, <1>4, <1>5, <1>6

LEMMA SizeStep ==
  ASSUME FileTypes, b \in Text, ret \notin Closed, pret \notin Closed, wret \notin Closed,
         SizeInv, [Next]_vars
  PROVE  SizeInv'
<1>1. /\ cur.data \in Text /\ Len(cur.data) \in Nat
      /\ [cur EXCEPT !.x = TRUE].data = cur.data
  BY LenProperties DEF FileTypes, Text
<1>2. ASSUME Open PROVE SizeInv'
  <2>1. CASE cur.data # <<>> /\ ~cur.x
    <3>1. /\ old' = old \cup {Old(now, "u", cur.data)} /\ cur' = None
          /\ size' = 0 /\ procs' = procs
      BY <1>2, <2>1 DEF Open
    <3>2. cur'.data = <<>>
      BY <3>1 DEF None
    <3>3. \A f \in old' : f \in old \/ f.data = cur.data
      BY <3>1 DEF Old
    <3> QED
      BY <3>1, <3>2, <3>3, EmptyFits DEF SizeInv, Fits
  <2>2. CASE ~ (cur.data # <<>> /\ ~cur.x)
    <3>1. UNCHANGED <<cur, old, procs>> /\ size' = Len(cur.data)
      BY <1>2, <2>2 DEF Open, files
    <3> QED
      BY <3>1 DEF SizeInv, Fits
  <2> QED
    BY <2>1, <2>2
<1>3. ASSUME OpenOldest \/ RotateOldest \/ StopUnlink \/ WriteFull \/ Rotate \/ Line \/ Rest
             \/ Handle \/ HandleChild \/ Read \/ Send \/ Kill \/ StopWait \/ UNCHANGED vars
      PROVE  SizeInv'
  <2>1. UNCHANGED <<cur, size>> /\ old' \subseteq old /\ procs' \subseteq procs
    BY <1>3 DEF OpenOldest, RotateOldest, RmOldest, StopUnlink, WriteFull, Rotate, Line, Rest,
       Handle, HandleChild, Read, Send, Kill, StopWait, vars, files, ldir
  <2>2. CASE OpenOldest \/ RotateOldest \/ StopUnlink \/ WriteFull \/ Rotate \/ Send \/ Kill
             \/ StopWait \/ UNCHANGED vars
    <3>1. pc' \notin Closed => pc \notin Closed
      BY <2>2 DEF OpenOldest, RotateOldest, StopUnlink, WriteFull, Rotate, Send, Kill,
         StopWait, Closed, vars
    <3> QED
      BY <2>1, <3>1, SizeQuiet
  <2>3. CASE Line \/ Rest \/ Handle \/ HandleChild \/ Read
    <3>1. pc' \notin Closed => pc \notin Closed
      BY <2>3 DEF Line, Rest, Handle, HandleChild, Read, Closed
    <3> QED
      BY <2>1, <3>1, SizeQuiet
  <2> QED
    BY <1>3, <2>2, <2>3
<1>4. ASSUME OpenCurrent \/ RotateChmod \/ Pread \/ Exit PROVE SizeInv'
  <2>1. UNCHANGED <<old, procs, size>> /\ pc \notin Closed
    BY <1>4 DEF OpenCurrent, RotateChmod, Pread, Exit, ldir, Closed
  <2>2. cur' \in {cur, [cur EXCEPT !.x = TRUE], [on |-> TRUE, data |-> cur.data, x |-> FALSE]}
    BY <1>4 DEF OpenCurrent, RotateChmod, Pread, Exit
  <2>3. [on |-> TRUE, data |-> cur.data, x |-> FALSE].data = cur.data
    OBVIOUS
  <2>4. cur'.data = cur.data
    <3>1. CASE cur' = cur
      BY <3>1
    <3>2. CASE cur' = [cur EXCEPT !.x = TRUE]
      BY <3>2, <1>1
    <3>3. CASE cur' = [on |-> TRUE, data |-> cur.data, x |-> FALSE]
      BY <3>3, <2>3
    <3> QED
      BY <3>1, <3>2, <3>3, <2>2
  <2> QED
    BY <2>1, <2>4, SizeQuiet
<1>5. ASSUME StopFailed \/ RotateStart PROVE SizeInv'
  <2>1. /\ UNCHANGED <<cur, size>> /\ old' \subseteq old /\ pc \notin Closed
        /\ procs' = procs \cup Started(fnsave)
    BY <1>5 DEF StopFailed, RotateStart, files, Closed
  <2>2. \A p \in Started(fnsave) : p.in = <<>>
    BY StartedIsProc DEF FileTypes
  <2> QED
    BY <2>1, <2>2, SizeQuiet
<1>6. ASSUME StopRename PROVE SizeInv'
  <2>1. PICK f \in Of(fnsave, "t") : old' = (old \ {f}) \cup {Old(fnsave, "s", f.data)}
    BY <1>6 DEF StopRename
  <2>2. UNCHANGED <<cur, procs, size>> /\ pc \notin Closed
    BY <1>6 DEF StopRename, ldir, Closed
  <2>3. \A g \in old' : \E h \in old : g.data = h.data
    BY <2>1 DEF Of, Old
  <2> QED
    BY <2>2, <2>3 DEF SizeInv, Fits
<1>7. ASSUME RotateRename PROVE SizeInv'
  <2>1. /\ old' = old \cup {Old(fnsave, IF Processor THEN "u" ELSE "s", cur.data)}
        /\ cur' = None /\ procs' = procs /\ pc' \in Closed
    BY <1>7 DEF RotateRename, Closed
  <2>2. cur'.data = <<>>
    BY <2>1 DEF None
  <2>3. \A f \in old' : f \in old \/ f.data = cur.data
    BY <2>1 DEF Old
  <2> QED
    BY <2>1, <2>2, <2>3, EmptyFits DEF SizeInv, Fits
<1>8. ASSUME RotateCreate PROVE SizeInv'
  <2>1. cur' = Empty /\ size' = 0 /\ UNCHANGED <<old, procs>>
    BY <1>8 DEF RotateCreate
  <2>2. cur'.data = <<>>
    BY <2>1 DEF Empty
  <2> QED
    BY <2>1, <2>2, EmptyFits DEF SizeInv, Fits
<1>9. ASSUME Write PROVE SizeInv'
  <2>1. UNCHANGED <<old, procs>> /\ pc \notin Closed
    BY <1>9 DEF Write, Closed
  <2>2. CASE cur' = cur /\ size' = size
    BY <2>1, <2>2, SizeQuiet
  <2>3. CASE ~ (cur' = cur /\ size' = size)
    <3>1. /\ b # <<>> /\ ~ (SizeMax > 0 /\ size >= SizeMax)
          /\ cur' = [cur EXCEPT !.data = @ \o SubSeq(b, 1, WriteLen)]
          /\ size' = size + WriteLen
      BY <1>9, <2>3 DEF Write
    <3> DEFINE m == SubSeq(b, 1, WriteLen)
    <3>2. /\ m \in Text /\ Len(m) = WriteLen
          /\ SizeMax > 0 => size + WriteLen <= SizeMax
      BY <3>1, WriteLenFacts DEF FileTypes
    <3> HIDE DEF m
    <3>3. Len(cur.data \o m) = Len(cur.data) + WriteLen
      BY <1>1, <3>2, ConcatProperties DEF Text
    <3>4. cur'.data = cur.data \o m
      BY <3>1 DEF FileTypes, m
    <3>5. size' = Len(cur'.data) /\ Fits(cur'.data)
      BY <2>1, <3>1, <3>2, <3>3, <3>4 DEF SizeInv, Fits
    <3> QED
      BY <2>1, <3>5 DEF SizeInv, Fits
  <2> QED
    BY <2>2, <2>3
<1>10. ASSUME Process PROVE SizeInv'
  BY <1>10, SizeProcess
<1>11. ASSUME Restart PROVE SizeInv'
  <2>1. UNCHANGED <<cur, old, size>> /\ pc' \in Closed
        /\ procs' = {[p EXCEPT !.kid = FALSE] : p \in procs}
    BY <1>11 DEF Restart, files, Closed
  <2>2. \A p \in procs' : \E q \in procs : p.in = q.in
    BY <2>1 DEF FileTypes, Proc
  <2> QED
    BY <2>1, <2>2, SizeQuiet
<1> QED
  BY <1>2, <1>3, <1>4, <1>5, <1>6, <1>7, <1>8, <1>9, <1>10, <1>11
     DEF Next, Step, Stopping, Rotating

-----------------------------------------------------------------------------
(* Names                                                                   *)

\* No output of the processor of t has been saved, and what there is of it has its
\* source.
Sourced(fs, t) ==
  /\ \A f \in fs : f.t = t => f.k # "s"
  /\ \A f \in fs : f.t = t /\ f.k = "t" => \E g \in fs : g.t = t /\ g.k = "u"

\* In rotate: before current has its new name, and until the processor starts.
New == {"chmod", "rename"}
Made == {"create", "oldest", "startprocessor"}

\* The processor has been waited for.
Ended == {"stoprename", "stopfailed"}

\* No name is used twice, and only one processor works for a name, that of fnsave
\* for svlogd itself.
NameInv ==
  /\ fnsave < now /\ (ppid # 0 => ppid = fnsave)
  /\ \A f \in old : f.t < now
  /\ Single(old)
  /\ \A p \in procs : p.t > 0 /\ p.t < now /\ Sourced(old, p.t)
  /\ \A p, q \in procs : p.t = q.t => p = q
  /\ pc \in New => \A f \in old : f.t < fnsave
  /\ (pc \in Made /\ Processor) \/ pc \in Ended => Sourced(old, fnsave)
  /\ pc \in New \cup Made \cup Ended \cup {"stopunlink"} =>
       fnsave > 0 /\ \A p \in procs : p.t # fnsave

\* Files went, but none that a processor needs.
Harmless == old' \subseteq old /\ \A t : Sourced(old, t) => Sourced(old', t)

LEMMA NameQuiet ==
  ASSUME NameInv, Harmless, procs' \subseteq procs, now' = now, fnsave' = fnsave,
         ppid' \in {ppid, 0},
         \/ pc' = pc
         \/ pc' \notin New \cup Made \cup Ended \cup {"stopunlink"}
         \/ pc \in New /\ pc' \in New
         \/ pc \in Made /\ pc' \in Made
  PROVE  NameInv'
<1>1. /\ fnsave' < now' /\ (ppid' # 0 => ppid' = fnsave')
      /\ (\A f \in old : f.t < now)'
      /\ (\A p, q \in procs : p.t = q.t => p = q)'
  BY DEF NameInv, Harmless
<1>2. Single(old)'
  BY DEF NameInv, Harmless, Single
<1>3. \A p \in procs' : p.t > 0 /\ p.t < now' /\ Sourced(old', p.t)
  BY DEF NameInv, Harmless
<1>4. pc' \in New => \A f \in old' : f.t < fnsave'
  BY DEF NameInv, Harmless, New, Made, Ended
<1>5. (pc' \in Made /\ Processor) \/ pc' \in Ended => Sourced(old', fnsave')
  BY DEF NameInv, Harmless, New, Made, Ended
<1>6. pc' \in New \cup Made \cup Ended \cup {"stopunlink"} =>
        fnsave' > 0 /\ \A p \in procs' : p.t # fnsave'
  BY DEF NameInv, New, Made, Ended
<1> QED
  BY <1>1, <1>2, <1>3, <1>4, <1>5, <1>6 DEF NameInv, Sourced

LEMMA SameHarmless ==
  ASSUME old' = old
  PROVE  Harmless
BY DEF Harmless

LEMMA RmOldestHarmless ==
  ASSUME old' = RmOldest(old)
  PROVE  Harmless
<1>1. old' \subseteq {f \in old : f.k # "t"}
  BY DEF RmOldest
<1> QED
  BY <1>1 DEF Harmless, Sourced

\* The output sorts before its source: the source is not the first to go.
LEMMA WriteFullHarmless ==
  ASSUME FileTypes, Single(old), WriteFull
  PROVE  Harmless
<1>1. CASE old' = old
  BY <1>1, SameHarmless
<1>2. CASE old' # old
  <2>1. old' = old \ {Oldest(old)} /\ Cardinality(old) > NMin
    BY <1>2 DEF WriteFull
  <2>2. old # {}
    BY <2>1, FS_EmptySet, SvlogdAssumption
  <2>3. \A g \in old \ {Oldest(old)} : Before(Oldest(old), g)
    BY <2>2, OldestExists DEF FileTypes
  <2>4. ASSUME NEW t, Sourced(old, t), NEW f \in old', f.t = t, f.k = "t"
        PROVE  \E g \in old' : g.t = t /\ g.k = "u"
    <3>1. PICK g \in old : g.t = t /\ g.k = "u"
      BY <2>1, <2>4 DEF Sourced
    <3>2. g # Oldest(old)
      <4>1. SUFFICES ASSUME g = Oldest(old) PROVE FALSE
        OBVIOUS
      <4>2. Before(g, f)
        BY <2>1, <2>3, <2>4, <4>1
      <4>3. f.t \in Nat /\ g.t = f.t
        BY <2>1, <2>4, <3>1 DEF FileTypes, File
      <4> QED
        BY <2>4, <3>1, <4>2, <4>3 DEF Before
    <3> QED
      BY <2>1, <3>1, <3>2
  <2> QED
    BY <2>1, <2>4 DEF Harmless, Sourced
<1> QED
  BY <1>1, <1>2

LEMMA NameOpen ==
  ASSUME FileTypes, Returns, NameInv, Open
  PROVE  NameInv'
<1>1. pc' \notin New \cup Made \cup Ended \cup {"stopunlink"} /\ ppid' = 0 /\ procs' = procs
  BY DEF Open, New, Made, Ended
<1>2. CASE ~ (cur.data # <<>> /\ ~cur.x)
  <2>1. old' = old /\ fnsave' = fnsave /\ now' = now
    BY <1>2 DEF Open, files
  <2> QED
    BY <1>1, <2>1, SameHarmless, NameQuiet
<1>3. CASE cur.data # <<>> /\ ~cur.x
  <2> DEFINE f == Old(now, "u", cur.data)
  <2>1. f.t = now /\ f.k = "u"
    BY DEF Old
  <2>2. old' = old \cup {f} /\ fnsave' = now /\ now' = now + 1 /\ now \in Nat
    BY <1>3 DEF Open, FileTypes
  <2> HIDE DEF f
  <2>3. \A g \in old : g.t < now /\ g.t \in Nat
    BY DEF NameInv, FileTypes, File
  <2>4. \A g \in old' : g.t < now'
    BY <2>1, <2>2, <2>3
  <2>5. Single(old')
    BY <2>1, <2>2, <2>3 DEF NameInv, Single
  <2>6. \A p \in procs : p.t \in Nat /\ p.t > 0 /\ p.t < now /\ p.t < now'
    BY <2>2 DEF NameInv, FileTypes, Proc
  <2>7. \A p \in procs : Sourced(old', p.t)
    BY <2>1, <2>2, <2>6 DEF NameInv, Sourced
  <2>8. \A p, q \in procs : p.t = q.t => p = q
    BY DEF NameInv
  <2>9. fnsave' < now'
    BY <2>2
  <2> QED
    BY <1>1, <2>4, <2>5, <2>6, <2>7, <2>8, <2>9 DEF NameInv, Single, Sourced
<1> QED
  BY <1>2, <1>3

\* The processor is waited for, in processorstop or in the handler.
LEMMA NameEnded ==
  ASSUME NameInv, FileTypes, old' = old, NEW p \in procs, p.t = ppid,
         procs' = procs \ {p}, ppid' = 0, now' = now, fnsave' = fnsave, pc' \in Ended
  PROVE  NameInv'
<1>1. p.t > 0 /\ p.t \in Nat
  BY DEF NameInv, FileTypes, Proc
<1>2. p.t = fnsave /\ Sourced(old, fnsave)
  BY <1>1 DEF NameInv
<1>3. \A q \in procs' : q.t # fnsave
  BY <1>2 DEF NameInv
<1>4. pc' \notin New
  BY DEF Ended, New
<1>5. fnsave < now /\ \A f \in old : f.t < now
  BY DEF NameInv
<1>6. Single(old) /\ \A q \in procs : q.t > 0 /\ q.t < now /\ Sourced(old, q.t)
  BY DEF NameInv
<1>7. \A q, r \in procs : q.t = r.t => q = r
  BY DEF NameInv
<1> QED
  BY <1>1, <1>2, <1>3, <1>4, <1>5, <1>6, <1>7 DEF NameInv, Single, Sourced

LEMMA NameStopFailed ==
  ASSUME FileTypes, Returns, NameInv, StopFailed
  PROVE  NameInv'
<1>1. /\ pc = "stopfailed" /\ pc' = pret /\ fnsave' = fnsave /\ now' = now
      /\ old' = old \ Of(fnsave, "t") /\ procs' = procs \cup Started(fnsave)
      /\ ppid' \in {fnsave, 0}
  BY DEF StopFailed
<1>2. /\ Sourced(old, fnsave) /\ fnsave > 0 /\ fnsave < now
      /\ \A p \in procs : p.t # fnsave
  BY <1>1 DEF NameInv, Ended
<1>3. \A t : Sourced(old, t) => Sourced(old', t)
  BY <1>1 DEF Sourced, Of
<1>4. \A p \in Started(fnsave) : p.t = fnsave
  BY StartedIsProc DEF FileTypes
<1>5. \A p, q \in Started(fnsave) : p = q
  BY DEF Started
<1>6. pc' \notin New \cup Made \cup Ended \cup {"stopunlink"}
  BY <1>1 DEF Returns, New, Made, Ended
<1>7. Single(old') /\ \A f \in old' : f.t < now
  BY <1>1 DEF NameInv, Single
<1>8. \A p \in procs' : p.t > 0 /\ p.t < now /\ Sourced(old', p.t)
  BY <1>1, <1>2, <1>3, <1>4 DEF NameInv
<1>9. \A p, q \in procs' : p.t = q.t => p = q
  BY <1>1, <1>2, <1>4, <1>5 DEF NameInv
<1>10. fnsave' < now' /\ (ppid' # 0 => ppid' = fnsave')
  BY <1>1, <1>2
<1> QED
  BY <1>1, <1>6, <1>7, <1>8, <1>9, <1>10 DEF NameInv, Single, Sourced

LEMMA NameStopRename ==
  ASSUME FileTypes, NameInv, StopRename
  PROVE  NameInv'
<1>1. PICK f \in Of(fnsave, "t") : old' = (old \ {f}) \cup {Old(fnsave, "s", f.data)}
  BY DEF StopRename
<1> DEFINE g == Old(fnsave, "s", f.data)
<1>2. g.t = fnsave /\ g.k = "s"
  BY DEF Old
<1>3. /\ pc = "stoprename" /\ pc' = "stopunlink"
      /\ UNCHANGED <<procs, ppid, fnsave, now>>
  BY DEF StopRename, ldir
<1>4. Sourced(old, fnsave) /\ fnsave > 0 /\ fnsave < now /\ \A p \in procs : p.t # fnsave
  BY <1>3 DEF NameInv, Ended
<1>5. old' = (old \ {f}) \cup {g} /\ f.t = fnsave
  BY <1>1 DEF Of
<1> HIDE DEF g
<1>6. Single(old')
  <2>1. \A h \in old : ~ (h.t = fnsave /\ h.k = "s")
    BY <1>4 DEF Sourced
  <2> QED
    BY <1>2, <1>5, <2>1 DEF NameInv, Single
<1>7. \A h \in old' : h.t < now
  BY <1>2, <1>4, <1>5 DEF NameInv
<1>8. \A t : t # fnsave /\ Sourced(old, t) => Sourced(old', t)
  BY <1>2, <1>5 DEF Sourced
<1>9. \A p \in procs : p.t > 0 /\ p.t < now /\ Sourced(old', p.t)
  BY <1>4, <1>8 DEF NameInv
<1>10. \A p, q \in procs : p.t = q.t => p = q
  BY DEF NameInv
<1>11. ppid # 0 => ppid = fnsave
  BY DEF NameInv
<1>12. pc' \notin New \cup Made \cup Ended
  BY <1>3 DEF New, Made, Ended
<1> QED
  BY <1>3, <1>4, <1>6, <1>7, <1>9, <1>10, <1>11, <1>12 DEF NameInv, Single, Sourced

LEMMA NameStopUnlink ==
  ASSUME FileTypes, Returns, NameInv, StopUnlink
  PROVE  NameInv'
<1>1. /\ pc = "stopunlink" /\ pc' = pret /\ UNCHANGED <<procs, ppid, fnsave, now>>
      /\ old' = old \ Of(fnsave, "u")
  BY DEF StopUnlink, ldir
<1>2. \A t : t # fnsave /\ Sourced(old, t) => Sourced(old', t)
  BY <1>1 DEF Sourced, Of
<1>3. \A p \in procs : p.t # fnsave
  BY <1>1 DEF NameInv
<1>4. \A p \in procs : p.t > 0 /\ p.t < now /\ Sourced(old', p.t)
  BY <1>2, <1>3 DEF NameInv
<1>5. pc' \notin New \cup Made \cup Ended \cup {"stopunlink"}
  BY <1>1 DEF Returns, New, Made, Ended
<1>6. Single(old') /\ \A f \in old' : f.t < now
  BY <1>1 DEF NameInv, Single
<1>7. /\ fnsave < now /\ (ppid # 0 => ppid = fnsave)
      /\ \A p, q \in procs : p.t = q.t => p = q
  BY DEF NameInv
<1> QED
  BY <1>1, <1>4, <1>5, <1>6, <1>7 DEF NameInv, Single, Sourced

LEMMA NameRotate ==
  ASSUME FileTypes, Returns, NameInv, Rotate
  PROVE  NameInv'
<1>1. UNCHANGED <<old, procs, ppid>>
  BY DEF Rotate, files
<1>2. CASE ppid # 0
  <2>1. pc' = "stop" /\ fnsave' = fnsave /\ now' = now
    BY <1>2 DEF Rotate
  <2> QED
    BY <1>1, <2>1, SameHarmless, NameQuiet DEF New, Made, Ended
<1>3. CASE ppid = 0
  <2>1. /\ fnsave' = now /\ now' = now + 1
        /\ pc' \notin Made \cup Ended \cup {"stopunlink"}
    BY <1>3 DEF Rotate, Returns, Made, Ended
  <2>2. /\ now \in Nat /\ now > 0 /\ \A f \in old : f.t \in Nat /\ f.t < now
        /\ \A p \in procs : p.t \in Nat /\ p.t < now
    BY DEF FileTypes, File, Proc, NameInv
  <2>3. (\A f \in old : f.t < fnsave' /\ f.t < now') /\ fnsave' > 0 /\ fnsave' < now'
    BY <2>1, <2>2
  <2>4. \A p \in procs : p.t # fnsave' /\ p.t < now'
    BY <2>1, <2>2
  <2>5. Single(old) /\ \A p \in procs : p.t > 0 /\ Sourced(old, p.t)
    BY DEF NameInv
  <2>6. \A p, q \in procs : p.t = q.t => p = q
    BY DEF NameInv
  <2> QED
    BY <1>1, <1>3, <2>1, <2>3, <2>4, <2>5, <2>6 DEF NameInv, Single, Sourced
<1> QED
  BY <1>2, <1>3

LEMMA NameRotateRename ==
  ASSUME FileTypes, NameInv, RotateRename
  PROVE  NameInv'
<1> DEFINE k == IF Processor THEN "u" ELSE "s"
           f == Old(fnsave, k, cur.data)
<1>1. f.t = fnsave /\ f.k = k
  BY DEF Old
<1>2. /\ pc = "rename" /\ pc' = "create" /\ UNCHANGED <<procs, ppid, fnsave, now>>
      /\ old' = old \cup {f}
  BY DEF RotateRename, ldir
<1>3. Processor => k = "u"
  OBVIOUS
<1> HIDE DEF f, k
<1>4. /\ \A g \in old : g.t # fnsave
      /\ fnsave > 0 /\ fnsave < now /\ \A p \in procs : p.t # fnsave
  BY <1>2 DEF NameInv, New, FileTypes, File
<1>5. Single(old') /\ \A g \in old' : g.t < now
  BY <1>1, <1>2, <1>4 DEF NameInv, Single
<1>6. \A t : t # fnsave /\ Sourced(old, t) => Sourced(old', t)
  BY <1>1, <1>2 DEF Sourced
<1>7. Processor => Sourced(old', fnsave)
  BY <1>1, <1>2, <1>3, <1>4 DEF Sourced
<1>8. \A p \in procs : p.t > 0 /\ p.t < now /\ Sourced(old', p.t)
  BY <1>4, <1>6 DEF NameInv
<1>9. (ppid # 0 => ppid = fnsave) /\ \A p, q \in procs : p.t = q.t => p = q
  BY DEF NameInv
<1>10. pc' \notin New \cup Ended
  BY <1>2 DEF New, Ended
<1> QED
  BY <1>2, <1>4, <1>5, <1>7, <1>8, <1>9, <1>10 DEF NameInv, Single, Sourced

LEMMA NameRotateStart ==
  ASSUME FileTypes, Returns, NameInv, RotateStart
  PROVE  NameInv'
<1>1. /\ pc = "startprocessor" /\ pc' = ret /\ fnsave' = fnsave /\ now' = now
      /\ old' = old /\ procs' = procs \cup Started(fnsave) /\ ppid' \in {fnsave, 0}
  BY DEF RotateStart, files
<1>2. /\ Processor => Sourced(old, fnsave)
      /\ fnsave > 0 /\ fnsave < now /\ \A p \in procs : p.t # fnsave
  BY <1>1 DEF NameInv, Made
<1>3. \A p \in Started(fnsave) : Processor /\ p.t = fnsave
  BY StartedIsProc DEF FileTypes
<1>4. \A p, q \in Started(fnsave) : p = q
  BY DEF Started
<1>5. pc' \notin New \cup Made \cup Ended \cup {"stopunlink"}
  BY <1>1 DEF Returns, New, Made, Ended
<1>6. \A p \in procs' : p.t > 0 /\ p.t < now /\ Sourced(old, p.t)
  BY <1>1, <1>2, <1>3 DEF NameInv
<1>7. \A p, q \in procs' : p.t = q.t => p = q
  BY <1>1, <1>2, <1>3, <1>4 DEF NameInv
<1>8. fnsave' < now' /\ (ppid' # 0 => ppid' = fnsave')
  BY <1>1, <1>2
<1>9. Single(old) /\ \A f \in old : f.t < now
  BY DEF NameInv
<1> QED
  BY <1>1, <1>5, <1>6, <1>7, <1>8, <1>9 DEF NameInv, Single, Sourced

LEMMA NameRestart ==
  ASSUME FileTypes, NameInv, Restart
  PROVE  NameInv'
<1>1. /\ UNCHANGED <<old, fnsave, now>> /\ ppid' = 0 /\ pc' = "open"
      /\ procs' = {[p EXCEPT !.kid = FALSE] : p \in procs}
  BY DEF Restart, files
<1>2. \A p \in procs : [p EXCEPT !.kid = FALSE].t = p.t
  BY DEF FileTypes, Proc
<1>3. \A p \in procs' : p.t > 0 /\ p.t < now /\ Sourced(old, p.t)
  BY <1>1, <1>2 DEF NameInv
<1>4. ASSUME NEW p \in procs', NEW q \in procs', p.t = q.t
      PROVE  p = q
  <2>1. PICK r \in procs : p = [r EXCEPT !.kid = FALSE]
    BY <1>1
  <2>2. PICK s \in procs : q = [s EXCEPT !.kid = FALSE]
    BY <1>1
  <2>3. r.t = s.t
    BY <1>2, <1>4, <2>1, <2>2
  <2>4. r = s
    BY <2>3 DEF NameInv
  <2> QED
    BY <2>1, <2>2, <2>4
<1>5. Single(old) /\ fnsave < now /\ \A f \in old : f.t < now
  BY DEF NameInv
<1>6. pc' \notin New \cup Made \cup Ended \cup {"stopunlink"}
  BY <1>1 DEF New, Made, Ended
<1> QED
  BY <1>1, <1>3, <1>4, <1>5, <1>6 DEF NameInv, Single, Sourced

\* A step of the processor p: it changes no name but that of its output.
LEMMA NameOutput ==
  ASSUME FileTypes, NameInv, NEW p \in procs, NEW q \in Proc, q.t = p.t,
         procs' = (procs \ {p}) \cup {q},
         NEW f, f.t = p.t, f.k = "t",
         old \ Of(p.t, "t") \subseteq old', old' \subseteq (old \ Of(p.t, "t")) \cup {f},
         f \in old' => Of(p.t, "u") # {},
         UNCHANGED <<ppid, fnsave, now, pc>>
  PROVE  NameInv'
<1>1. /\ p.t < now /\ Sourced(old, p.t) /\ p.t > 0
      /\ \A r \in procs : r.t = p.t => r = p
  BY DEF NameInv
<1>2. Single(old') /\ \A g \in old' : g.t < now
  BY <1>1 DEF NameInv, Single, Of
<1>3. ASSUME NEW t, Sourced(old, t) PROVE Sourced(old', t)
  <2>1. CASE t = p.t
    <3>1. \A g \in old' : g.t = t => g.k # "s"
      BY <1>3, <2>1 DEF Sourced
    <3>2. ASSUME NEW g \in old', g.t = t, g.k = "t"
          PROVE  \E h \in old' : h.t = t /\ h.k = "u"
      <4>1. g = f
        BY <2>1, <3>2 DEF Of
      <4>2. PICK h \in Of(p.t, "u") : TRUE
        BY <3>2, <4>1
      <4> QED
        BY <2>1, <4>2 DEF Of
    <3> QED
      BY <3>1, <3>2 DEF Sourced
  <2>2. CASE t # p.t
    BY <1>3, <2>2 DEF Sourced, Of
  <2> QED
    BY <2>1, <2>2
<1>4. \A r \in procs' : r.t > 0 /\ r.t < now /\ Sourced(old', r.t)
  BY <1>1, <1>3 DEF NameInv
<1>5. \A r, s \in procs' : r.t = s.t => r = s
  BY <1>1 DEF NameInv
<1>6. pc \in New => \A g \in old' : g.t < fnsave
  <2>1. \A g \in old' : \E h \in old : g.t = h.t
    BY DEF Of
  <2> QED
    BY <2>1 DEF NameInv
<1>7. (pc \in Made /\ Processor) \/ pc \in Ended => Sourced(old', fnsave)
  BY <1>3 DEF NameInv
<1>8. pc \in New \cup Made \cup Ended \cup {"stopunlink"} =>
        fnsave > 0 /\ \A r \in procs' : r.t # fnsave
  BY DEF NameInv
<1>9. fnsave < now /\ (ppid # 0 => ppid = fnsave)
  BY DEF NameInv
<1> QED
  BY <1>2, <1>4, <1>5, <1>6, <1>7, <1>8, <1>9 DEF NameInv, Single, Sourced

LEMMA NameNoOutput ==
  ASSUME FileTypes, NameInv, NEW p \in procs, NEW q \in Proc, q.t = p.t,
         procs' = (procs \ {p}) \cup {q}, old' = old,
         UNCHANGED <<ppid, fnsave, now, pc>>
  PROVE  NameInv'
<1>1. Single(old) /\ Sourced(old, p.t)
  BY DEF NameInv
<1>2. Of(p.t, "t") # {} => Of(p.t, "u") # {}
  BY <1>1 DEF Sourced, Of
<1>3. CASE Of(p.t, "t") = {}
  <2> DEFINE f == Old(p.t, "t", <<>>)
  <2>1. f.t = p.t /\ f.k = "t"
    BY DEF Old
  <2> HIDE DEF f
  <2>2. f \notin old
    BY <1>3, <2>1 DEF Of
  <2> QED
    BY <1>3, <2>1, <2>2, NameOutput
<1>4. CASE Of(p.t, "t") # {}
  <2>1. PICK f \in Of(p.t, "t") : TRUE
    BY <1>4
  <2>2. f.t = p.t /\ f.k = "t" /\ \A g \in Of(p.t, "t") : g = f
    BY <1>1, <2>1 DEF Of, Single
  <2> QED
    BY <1>2, <1>4, <2>2, NameOutput
<1> QED
  BY <1>3, <1>4

LEMMA NameProcess ==
  ASSUME FileTypes, NameInv, Process
  PROVE  NameInv'
<1>1. PICK p \in procs : ProcessorOpen(p) \/ ProcessorEnd(p) \/ ProcessorKilled(p)
  BY DEF Process
<1>2. UNCHANGED <<ppid, fnsave, now, pc>>
  BY DEF Process, ldir
<1>3. p \in Proc /\ p.t \in Nat
  BY DEF FileTypes, Proc
<1>4. \A s \in {"new", "run", "ok", "failed"} :
        [p EXCEPT !.st = s] \in Proc /\ [p EXCEPT !.st = s].t = p.t
  BY <1>3 DEF Proc
<1>5. CASE ProcessorOpen(p)
  <2>1. CASE Of(p.t, "u") = {}
    <3>1. procs' = (procs \ {p}) \cup {[p EXCEPT !.st = "failed"]} /\ old' = old
      BY <1>5, <2>1 DEF ProcessorOpen
    <3> DEFINE q == [p EXCEPT !.st = "failed"]
    <3>2. q \in Proc /\ q.t = p.t /\ procs' = (procs \ {p}) \cup {q}
      BY <1>4, <3>1
    <3> HIDE DEF q
    <3> QED
      BY <1>2, <3>1, <3>2, NameNoOutput
  <2>2. CASE Of(p.t, "u") # {}
    <3>1. PICK g \in Of(p.t, "u") :
            /\ procs' = (procs \ {p}) \cup {[p EXCEPT !.st = "run", !.in = g.data]}
            /\ old' = (old \ Of(p.t, "t")) \cup {Old(p.t, "t", <<>>)}
      BY <1>5, <2>2 DEF ProcessorOpen
    <3> DEFINE q == [p EXCEPT !.st = "run", !.in = g.data]
               f == Old(p.t, "t", <<>>)
    <3>2. g.data \in Text
      BY DEF Of, FileTypes, File
    <3>3. q \in Proc /\ q.t = p.t
      BY <1>3, <3>2 DEF Proc
    <3>4. f.t = p.t /\ f.k = "t"
      BY DEF Old
    <3>5. procs' = (procs \ {p}) \cup {q} /\ old' = (old \ Of(p.t, "t")) \cup {f}
      BY <3>1
    <3> HIDE DEF q, f
    <3>6. old \ Of(p.t, "t") \subseteq old' /\ old' \subseteq (old \ Of(p.t, "t")) \cup {f}
      BY <3>5
    <3> QED
      BY <1>2, <2>2, <3>3, <3>4, <3>5, <3>6, NameOutput
  <2> QED
    BY <2>1, <2>2
<1>6. CASE ProcessorEnd(p)
  <2>1. CASE old' = {IF f \in Of(p.t, "t") THEN Old(p.t, "t", p.in) ELSE f : f \in old}
             /\ procs' = (procs \ {p}) \cup {[p EXCEPT !.st = "ok"]}
    <3> DEFINE q == [p EXCEPT !.st = "ok"]
               f == Old(p.t, "t", p.in)
    <3>1. q \in Proc /\ q.t = p.t /\ procs' = (procs \ {p}) \cup {q}
      BY <1>4, <2>1
    <3>2. f.t = p.t /\ f.k = "t"
      BY DEF Old
    <3>3. old' = {IF g \in Of(p.t, "t") THEN f ELSE g : g \in old}
      BY <2>1
    <3> HIDE DEF q, f
    <3>4. old \ Of(p.t, "t") \subseteq old' /\ old' \subseteq (old \ Of(p.t, "t")) \cup {f}
      BY <3>3
    <3>5. f \in old' => Of(p.t, "t") # {}
      BY <3>2, <3>3 DEF Of
    <3>6. Of(p.t, "t") # {} => Of(p.t, "u") # {}
      BY DEF NameInv, Sourced, Of
    <3> QED
      BY <1>2, <3>1, <3>2, <3>4, <3>5, <3>6, NameOutput
  <2>2. CASE old' = old /\ procs' = (procs \ {p}) \cup {[p EXCEPT !.st = "failed"]}
    <3> DEFINE q == [p EXCEPT !.st = "failed"]
    <3>1. q \in Proc /\ q.t = p.t /\ procs' = (procs \ {p}) \cup {q}
      BY <1>4, <2>2
    <3> HIDE DEF q
    <3> QED
      BY <1>2, <2>2, <3>1, NameNoOutput
  <2> QED
    BY <1>6, <2>1, <2>2 DEF ProcessorEnd
<1>7. CASE ProcessorKilled(p)
  <2>1. PICK d \in Text : old' = {IF g \in Of(p.t, "t") THEN Old(p.t, "t", d) ELSE g : g \in old}
    BY <1>3, <1>7, KilledOutput
  <2> DEFINE q == [p EXCEPT !.st = "ok"]
             f == Old(p.t, "t", d)
  <2>2. q \in Proc /\ q.t = p.t /\ procs' = (procs \ {p}) \cup {q}
    BY <1>3, <1>4, <1>7, KilledOutput
  <2>3. f.t = p.t /\ f.k = "t" /\ old' = {IF g \in Of(p.t, "t") THEN f ELSE g : g \in old}
    BY <2>1 DEF Old
  <2> HIDE DEF q, f
  <2>4. old \ Of(p.t, "t") \subseteq old' /\ old' \subseteq (old \ Of(p.t, "t")) \cup {f}
    BY <2>3
  <2>5. f \in old' => Of(p.t, "t") # {}
    BY <2>3 DEF Of
  <2>6. Of(p.t, "t") # {} => Of(p.t, "u") # {}
    BY DEF NameInv, Sourced, Of
  <2> QED
    BY <1>2, <2>2, <2>3, <2>4, <2>5, <2>6, NameOutput
<1> QED
  BY <1>1, <1>5, <1>6, <1>7

LEMMA NameStep ==
  ASSUME FileTypes, Returns, NameInv, [Next]_vars
  PROVE  NameInv'
<1> DEFINE Chain == New \cup Made \cup Ended \cup {"stopunlink"}
<1>1. ASSUME OpenOldest \/ RotateOldest PROVE NameInv'
  <2>1. Harmless /\ UNCHANGED <<procs, now, fnsave, ppid>>
    BY <1>1, RmOldestHarmless DEF OpenOldest, RotateOldest, ldir
  <2>2. pc' \notin Chain \/ (pc \in Made /\ pc' \in Made)
    BY <1>1 DEF OpenOldest, RotateOldest, New, Made, Ended
  <2> QED
    BY <2>1, <2>2, NameQuiet
<1>2. ASSUME WriteFull PROVE NameInv'
  <2>1. Harmless
    BY <1>2, WriteFullHarmless DEF NameInv
  <2>2. UNCHANGED <<procs, now, fnsave, ppid, pc>>
    BY <1>2 DEF WriteFull, ldir
  <2> QED
    BY <2>1, <2>2, NameQuiet
<1>3. ASSUME \/ OpenCurrent \/ RotateChmod \/ RotateCreate \/ Write \/ Line \/ Rest \/ Pread
             \/ Handle \/ Read \/ Exit \/ Send \/ Kill \/ UNCHANGED vars
      PROVE  NameInv'
  <2>1. UNCHANGED <<old, procs, now, fnsave, ppid>>
    BY <1>3 DEF OpenCurrent, RotateChmod, RotateCreate, Write, Line, Rest, Pread, Handle, Read,
       Exit, Send, Kill, vars, files, ldir
  <2>2. \/ pc' = pc \/ pc' \notin Chain
        \/ pc \in New /\ pc' \in New
        \/ pc \in Made /\ pc' \in Made
    <3>1. CASE OpenCurrent \/ Write
      BY <3>1 DEF OpenCurrent, Write, New, Made, Ended, Returns
    <3>2. CASE RotateChmod \/ RotateCreate
      BY <3>2 DEF RotateChmod, RotateCreate, New, Made
    <3>3. CASE Handle \/ Exit \/ Send \/ Kill \/ UNCHANGED vars
      BY <3>3 DEF Handle, Exit, Send, Kill, vars, New, Made, Ended
    <3>4. CASE Line \/ Rest \/ Pread \/ Read
      BY <3>4 DEF Line, Rest, Pread, Read, Eof, Flush, New, Made, Ended
    <3> QED
      BY <1>3, <3>1, <3>2, <3>3, <3>4
  <2> QED
    BY <2>1, <2>2, SameHarmless, NameQuiet
<1>4. ASSUME StopWait \/ HandleChild PROVE NameInv'
  <2>1. UNCHANGED <<old, now, fnsave>>
    BY <1>4 DEF StopWait, HandleChild, files
  <2>2. CASE \E p \in procs : p.t = ppid /\ procs' = procs \ {p} /\ ppid' = 0 /\ pc' \in Ended
    BY <2>1, <2>2, NameEnded
  <2>3. CASE procs' \subseteq procs /\ ppid' = ppid /\ pc' = pc
    BY <2>1, <2>3, SameHarmless, NameQuiet
  <2> QED
    BY <1>4, <2>2, <2>3 DEF StopWait, HandleChild, Ended, Zombies
<1> QED
  BY <1>1, <1>2, <1>3, <1>4, NameOpen, NameStopFailed, NameStopRename, NameStopUnlink,
     NameRotate, NameRotateRename, NameRotateStart, NameRestart, NameProcess
     DEF Next, Step, Stopping, Rotating

-----------------------------------------------------------------------------
(* Numbers                                                                 *)

Saved(fs) == {f \in fs : f.k # "t"}

\* Where there may be one file more: before the oldest is removed, and where the
\* file that was processed is there twice.
Over == {"openoldest", "create", "oldest", "stopunlink", "killed"}

CountInv ==
  NMax > 0 =>
    /\ Cardinality(Saved(old)) <= NMax + starts
    /\ pc \notin Over => Cardinality(Saved(old)) < NMax + starts
    /\ pc = "stopunlink" =>
         Cardinality({f \in Saved(old) : ~ (f.t = fnsave /\ f.k = "u")}) < NMax + starts

LEMMA SavedFinite ==
  ASSUME FileTypes
  PROVE  /\ IsFiniteSet(Saved(old)) /\ Cardinality(Saved(old)) \in Nat
         /\ \A fs \in SUBSET Saved(old) :
              /\ IsFiniteSet(fs) /\ Cardinality(fs) \in Nat
              /\ Cardinality(fs) <= Cardinality(Saved(old))
<1>1. IsFiniteSet(Saved(old))
  BY FS_Subset DEF FileTypes, Saved
<1> QED
  BY <1>1, FS_Subset, FS_CardinalityType

\* With f added there is at most one more.
LEMMA OneMore ==
  ASSUME NEW S, IsFiniteSet(S), NEW f, NEW T, T \subseteq S \cup {f}
  PROVE  /\ Cardinality(T) \in Nat /\ Cardinality(S) \in Nat
         /\ Cardinality(T) <= Cardinality(S) + 1
<1>1. IsFiniteSet(S \cup {f}) /\ Cardinality(S \cup {f}) <= Cardinality(S) + 1
      /\ Cardinality(S) \in Nat
  BY FS_AddElement, FS_CardinalityType
<1> QED
  BY <1>1, FS_Subset, FS_CardinalityType

\* A rotation takes one away if there are too many.
LEMMA RmOldestCount ==
  ASSUME FileTypes, Single(old), NMax > 0,
         Cardinality(Saved(old)) <= NMax + starts
  PROVE  Cardinality(Saved(RmOldest(old))) < NMax + starts
<1> DEFINE kept == Saved(old)
<1>1. NMax \in Nat /\ starts \in Nat /\ starts > 0
  BY SvlogdAssumption DEF FileTypes
<1>2. IsFiniteSet(kept) /\ Cardinality(kept) \in Nat
  BY SavedFinite
<1>3. RmOldest(old) = IF Cardinality(kept) > NMax THEN kept \ {Oldest(kept)} ELSE kept
  BY <1>1 DEF RmOldest, Saved
<1>4. kept \subseteq old /\ \A f \in kept : f.k # "t"
  BY DEF Saved
<1>5. Saved(RmOldest(old)) = RmOldest(old)
  BY <1>3, <1>4 DEF Saved
<1>6. CASE Cardinality(kept) > NMax
  <2>1. kept # {}
    BY <1>1, <1>6, FS_EmptySet
  <2>2. kept \subseteq File /\ Single(kept)
    BY <1>4 DEF FileTypes, Single
  <2> HIDE DEF kept
  <2>3. Oldest(kept) \in kept
    BY <2>1, <2>2, OldestExists
  <2>4. Cardinality(kept \ {Oldest(kept)}) = Cardinality(kept) - 1
    BY <1>2, <2>3, FS_RemoveElement
  <2> QED
    BY <1>1, <1>2, <1>3, <1>5, <1>6, <2>4 DEF kept
<1>7. CASE ~ (Cardinality(kept) > NMax)
  BY <1>1, <1>2, <1>3, <1>5, <1>7
<1> QED
  BY <1>6, <1>7

LEMMA CountQuiet ==
  ASSUME FileTypes, CountInv, Saved(old') \subseteq Saved(old), starts' = starts,
         pc' # "stopunlink", pc \notin Over \/ pc' \in Over
  PROVE  CountInv'
<1>1. /\ Cardinality(Saved(old)) \in Nat /\ Cardinality(Saved(old')) \in Nat
      /\ Cardinality(Saved(old')) <= Cardinality(Saved(old))
  BY SavedFinite
<1>2. NMax \in Nat /\ starts \in Nat
  BY SvlogdAssumption DEF FileTypes
<1>3. NMax > 0 => Cardinality(Saved(old')) <= NMax + starts
  BY <1>1, <1>2 DEF CountInv
<1>4. NMax > 0 /\ pc' \notin Over => Cardinality(Saved(old')) < NMax + starts
  BY <1>1, <1>2 DEF CountInv
<1> QED
  BY <1>3, <1>4 DEF CountInv, Saved

LEMMA CountSame ==
  ASSUME CountInv, Saved(old') = Saved(old), UNCHANGED <<starts, pc, fnsave>>
  PROVE  CountInv'
<1>1. {f \in Saved(old') : ~ (f.t = fnsave /\ f.k = "u")}
        = {f \in Saved(old) : ~ (f.t = fnsave /\ f.k = "u")}
  OBVIOUS
<1> QED
  BY <1>1 DEF CountInv, Saved

LEMMA CountAdded ==
  ASSUME FileTypes, CountInv, NEW f, old' = old \cup {f}, starts' = starts,
         pc \notin Over, pc' \in Over \ {"stopunlink"}
  PROVE  CountInv'
<1>1. Saved(old') \subseteq Saved(old) \cup {f}
  BY DEF Saved
<1>2. Cardinality(Saved(old)) \in Nat /\ Cardinality(Saved(old')) \in Nat
      /\ Cardinality(Saved(old')) <= Cardinality(Saved(old)) + 1
  BY <1>1, SavedFinite, OneMore
<1>3. NMax \in Nat /\ starts \in Nat
  BY SvlogdAssumption DEF FileTypes
<1>4. NMax > 0 => Cardinality(Saved(old')) <= NMax + starts
  BY <1>2, <1>3 DEF CountInv
<1> QED
  BY <1>4 DEF CountInv, Saved

LEMMA CountStopRename ==
  ASSUME FileTypes, NameInv, CountInv, StopRename
  PROVE  CountInv'
<1>1. PICK f \in Of(fnsave, "t") : old' = (old \ {f}) \cup {Old(fnsave, "s", f.data)}
  BY DEF StopRename
<1> DEFINE g == Old(fnsave, "s", f.data)
           used == {h \in Saved(old') : ~ (h.t = fnsave /\ h.k = "u")}
<1>2. pc = "stoprename" /\ pc' = "stopunlink" /\ starts' = starts /\ fnsave' = fnsave
  BY DEF StopRename, ldir, bounds
<1>3. old' \subseteq old \cup {g}
  BY <1>1
<1> HIDE DEF g
<1>4. PICK u \in old : u.t = fnsave /\ u.k = "u"
  BY <1>1, <1>2 DEF NameInv, Ended, Sourced, Of
<1>5. u \in Saved(old)
  BY <1>4 DEF Saved
<1>6. /\ IsFiniteSet(Saved(old)) /\ Cardinality(Saved(old)) \in Nat
      /\ IsFiniteSet(Saved(old) \ {u})
      /\ Cardinality(Saved(old) \ {u}) = Cardinality(Saved(old)) - 1
  BY <1>5, SavedFinite, FS_RemoveElement
<1>7. Saved(old') \subseteq Saved(old) \cup {g}
  BY <1>3 DEF Saved
<1>8. used \subseteq (Saved(old) \ {u}) \cup {g}
  BY <1>4, <1>7
<1>9. /\ Cardinality(Saved(old')) \in Nat
      /\ Cardinality(Saved(old')) <= Cardinality(Saved(old)) + 1
  BY <1>6, <1>7, OneMore
<1> HIDE DEF used
<1>10. Cardinality(used) \in Nat /\ Cardinality(used) <= Cardinality(Saved(old))
  <2> DEFINE rest == Saved(old) \ {u}
  <2>1. IsFiniteSet(rest) /\ used \subseteq rest \cup {g}
    BY <1>6, <1>8
  <2>2. Cardinality(rest) = Cardinality(Saved(old)) - 1
    BY <1>6
  <2> HIDE DEF rest
  <2>3. Cardinality(used) \in Nat /\ Cardinality(used) <= Cardinality(rest) + 1
    BY <2>1, OneMore
  <2> QED
    BY <1>6, <2>2, <2>3
<1>11. NMax \in Nat /\ starts \in Nat
  BY SvlogdAssumption DEF FileTypes
<1>12. NMax > 0 => Cardinality(Saved(old)) < NMax + starts
  BY <1>2 DEF CountInv, Over
<1>13. NMax > 0 => Cardinality(Saved(old')) <= NMax + starts /\ Cardinality(used) < NMax + starts
  BY <1>6, <1>9, <1>10, <1>11, <1>12
<1> QED
  BY <1>2, <1>13 DEF CountInv, Over, Saved, used

LEMMA CountStopUnlink ==
  ASSUME FileTypes, Returns, CountInv, StopUnlink
  PROVE  CountInv'
<1> DEFINE used == {f \in Saved(old) : ~ (f.t = fnsave /\ f.k = "u")}
<1>1. /\ pc = "stopunlink" /\ pc' = pret /\ starts' = starts
      /\ old' = old \ Of(fnsave, "u")
  BY DEF StopUnlink, bounds
<1>2. Saved(old') = used
  BY <1>1 DEF Saved, Of
<1>3. used \subseteq Saved(old)
  OBVIOUS
<1>4. NMax > 0 => Cardinality(used) < NMax + starts
  BY <1>1 DEF CountInv
<1> HIDE DEF used
<1>5. Cardinality(used) \in Nat
  BY <1>3, SavedFinite
<1>6. pc' # "stopunlink"
  BY <1>1 DEF Returns
<1>7. NMax \in Nat /\ starts \in Nat
  BY SvlogdAssumption DEF FileTypes
<1>8. NMax > 0 => Cardinality(Saved(old')) <= NMax + starts /\ Cardinality(Saved(old')) < NMax + starts
  BY <1>2, <1>4, <1>5, <1>7
<1> QED
  BY <1>1, <1>6, <1>8 DEF CountInv, Saved

LEMMA ProcessSaved ==
  ASSUME Process
  PROVE  Saved(old') = Saved(old) /\ UNCHANGED <<starts, pc, fnsave>>
<1>1. PICK p \in procs : ProcessorOpen(p) \/ ProcessorEnd(p) \/ ProcessorKilled(p)
  BY DEF Process
<1>2. UNCHANGED <<starts, pc, fnsave>>
  BY DEF Process, ldir
<1>3. CASE old' = old
  BY <1>2, <1>3
<1>4. CASE old' = (old \ Of(p.t, "t")) \cup {Old(p.t, "t", <<>>)}
  <2> DEFINE f == Old(p.t, "t", <<>>)
  <2>1. f.k = "t" /\ old' = (old \ Of(p.t, "t")) \cup {f}
    BY <1>4 DEF Old
  <2> HIDE DEF f
  <2> QED
    BY <1>2, <2>1 DEF Saved, Of
<1>5. CASE \E d : old' = {IF g \in Of(p.t, "t") THEN Old(p.t, "t", d) ELSE g : g \in old}
  <2>1. PICK d : old' = {IF g \in Of(p.t, "t") THEN Old(p.t, "t", d) ELSE g : g \in old}
    BY <1>5
  <2> DEFINE f == Old(p.t, "t", d)
  <2>2. f.k = "t" /\ old' = {IF g \in Of(p.t, "t") THEN f ELSE g : g \in old}
    BY <2>1 DEF Old
  <2> HIDE DEF f
  <2> QED
    BY <1>2, <2>2 DEF Saved, Of
<1> QED
  BY <1>1, <1>3, <1>4, <1>5 DEF ProcessorOpen, ProcessorEnd, ProcessorKilled

LEMMA CountRestart ==
  ASSUME FileTypes, CountInv, Restart
  PROVE  CountInv'
<1>1. old' = old /\ starts' = starts + 1 /\ pc' = "open"
  BY DEF Restart, files
<1>2. Cardinality(Saved(old)) \in Nat /\ NMax \in Nat /\ starts \in Nat
  BY SavedFinite, SvlogdAssumption DEF FileTypes
<1>3. NMax > 0 => Cardinality(Saved(old)) <= NMax + starts
  BY DEF CountInv
<1>4. NMax > 0 => Cardinality(Saved(old)) < NMax + starts'
  BY <1>1, <1>2, <1>3
<1> QED
  BY <1>1, <1>2, <1>3, <1>4 DEF CountInv, Saved

LEMMA CountStep ==
  ASSUME FileTypes, Returns, NameInv, CountInv, [Next]_vars
  PROVE  CountInv'
<1>1. ASSUME Open PROVE CountInv'
  <2>1. starts' = starts /\ pc \notin Over
    BY <1>1 DEF Open, bounds, Over
  <2>2. CASE cur.data # <<>> /\ ~cur.x
    <3>1. old' = old \cup {Old(now, "u", cur.data)} /\ pc' \in Over \ {"stopunlink"}
      BY <1>1, <2>2 DEF Open, Over
    <3> QED
      BY <2>1, <3>1, CountAdded
  <2>3. CASE ~ (cur.data # <<>> /\ ~cur.x)
    <3>1. old' = old /\ pc' # "stopunlink"
      BY <1>1, <2>3 DEF Open, files
    <3> QED
      BY <2>1, <3>1, CountQuiet
  <2> QED
    BY <2>2, <2>3
<1>2. ASSUME OpenOldest \/ RotateOldest PROVE CountInv'
  <2>1. old' = RmOldest(old) /\ starts' = starts /\ pc' # "stopunlink"
    BY <1>2 DEF OpenOldest, RotateOldest, bounds
  <2>2. NMax > 0 => Cardinality(Saved(old')) < NMax + starts
    BY <2>1, RmOldestCount DEF NameInv, CountInv
  <2>3. Saved(old') \subseteq Saved(old)
    BY <2>1 DEF RmOldest, Saved
  <2>4. Cardinality(Saved(old')) \in Nat /\ NMax \in Nat /\ starts \in Nat
    BY <2>3, SavedFinite, SvlogdAssumption DEF FileTypes
  <2>5. NMax > 0 => Cardinality(Saved(old')) <= NMax + starts
    BY <2>2, <2>4
  <2> QED
    BY <2>1, <2>2, <2>5 DEF CountInv, Saved
<1>3. ASSUME RotateRename PROVE CountInv'
  <2>1. /\ old' = old \cup {Old(fnsave, IF Processor THEN "u" ELSE "s", cur.data)}
        /\ starts' = starts /\ pc \notin Over /\ pc' \in Over \ {"stopunlink"}
    BY <1>3 DEF RotateRename, bounds, Over
  <2> QED
    BY <2>1, CountAdded
<1>4. ASSUME StopFailed PROVE CountInv'
  <2>1. old' \subseteq old /\ starts' = starts /\ pc' # "stopunlink" /\ pc \notin Over
    BY <1>4 DEF StopFailed, bounds, Returns, Over
  <2> QED
    BY <2>1, CountQuiet DEF Saved
<1>5. ASSUME WriteFull PROVE CountInv'
  <2>1. old' \subseteq old /\ starts' = starts /\ pc' # "stopunlink" /\ pc \notin Over
    BY <1>5 DEF WriteFull, Over
  <2> QED
    BY <2>1, CountQuiet DEF Saved
<1>6. ASSUME \/ OpenCurrent \/ StopWait \/ Rotate \/ RotateChmod \/ RotateCreate \/ RotateStart
             \/ Write \/ Line \/ Rest \/ Pread \/ Handle \/ HandleChild \/ Read \/ Exit \/ Kill
      PROVE  CountInv'
  <2>1. old' = old /\ starts' = starts
    BY <1>6 DEF OpenCurrent, StopWait, Rotate, RotateChmod, RotateCreate, RotateStart, Write,
       Line, Rest, Pread, Handle, HandleChild, Read, Exit, Kill, files, bounds
  <2>2. pc' # "stopunlink" /\ (pc \notin Over \/ pc' \in Over)
    <3>1. CASE OpenCurrent \/ StopWait \/ Rotate \/ RotateChmod \/ RotateStart \/ Write
      BY <3>1 DEF OpenCurrent, StopWait, Rotate, RotateChmod, RotateStart, Write, Returns, Over
    <3>2. CASE RotateCreate
      BY <3>2 DEF RotateCreate, Over
    <3>3. CASE Handle \/ HandleChild \/ Exit \/ Kill
      BY <3>3 DEF Handle, HandleChild, Exit, Kill, Over
    <3>4. CASE Line \/ Rest \/ Pread \/ Read
      BY <3>4 DEF Line, Rest, Pread, Read, Eof, Flush, Over
    <3> QED
      BY <1>6, <3>1, <3>2, <3>3, <3>4
  <2> QED
    BY <2>1, <2>2, CountQuiet
<1>7. ASSUME Send \/ UNCHANGED vars PROVE CountInv'
  <2>1. old' = old /\ UNCHANGED <<starts, pc, fnsave>>
    BY <1>7 DEF Send, vars, files, ldir, bounds
  <2> QED
    BY <2>1, CountSame
<1>8. ASSUME Process PROVE CountInv'
  BY <1>8, ProcessSaved, CountSame
<1> QED
  BY <1>1, <1>2, <1>3, <1>4, <1>5, <1>6, <1>7, <1>8, CountStopRename, CountStopUnlink, CountRestart
     DEF Next, Step, Stopping, Rotating

-----------------------------------------------------------------------------

LogInv == Types /\ SizeInv /\ NameInv /\ CountInv

LEMMA LogInit ==
  ASSUME Init
  PROVE  LogInv
<1>1. Types
  BY InitTypes
<1>2. SizeInv
  <2>1. cur = None /\ old = {} /\ procs = {} /\ pc \in Closed
    BY DEF Init, Closed
  <2>2. cur.data = <<>>
    BY <2>1 DEF None
  <2> QED
    BY <2>1, <2>2, EmptyFits DEF SizeInv
<1>3. NameInv
  BY DEF Init, NameInv, Single, New, Made, Ended
<1>4. CountInv
  <2>1. Saved(old) = {} /\ starts = 1 /\ pc # "stopunlink" /\ NMax \in Nat
    BY SvlogdAssumption DEF Init, Saved
  <2> QED
    BY <2>1, FS_EmptySet DEF CountInv
<1> QED
  BY <1>1, <1>2, <1>3, <1>4 DEF LogInv

LEMMA LogStep ==
  ASSUME LogInv, [Next]_vars
  PROVE  LogInv'
<1>1. Types' /\ FileTypes /\ Returns /\ b \in Text
  BY TypesStep DEF LogInv, Types, InputTypes
<1>2. SizeInv'
  <2>1. ret \notin Closed /\ pret \notin Closed /\ wret \notin Closed
    BY <1>1 DEF Returns, Closed
  <2> QED
    BY <1>1, <2>1, SizeStep DEF LogInv
<1>3. NameInv' /\ CountInv'
  BY <1>1, NameStep, CountStep DEF LogInv
<1> QED
  BY <1>1, <1>2, <1>3 DEF LogInv

\* The files of a log directory keep their size, and their number whatever is
\* killed, fails or has no space: rotate's and logdir_open's rmoldest, processorstop
\* and the removal at a full disk work together.
THEOREM DirectoryBounded == Spec => []Bounded
<1>1. LogInv => Bounded
  <2>1. ASSUME LogInv
        PROVE  /\ \A f \in old \cup {cur} : SizeMax > 0 => Len(f.data) <= SizeMax
               /\ pc \in {"write", "getc", "pread", "pause"} => size = Len(cur.data)
    BY <2>1 DEF LogInv, SizeInv, Fits, Closed
  <2>2. ASSUME LogInv
        PROVE  NMax > 0 => Cardinality({f \in old : f.k # "t"}) <= NMax + starts
    BY <2>2 DEF LogInv, CountInv, Saved
  <2> QED
    BY <2>1, <2>2 DEF Bounded
<1> QED
  BY <1>1, LogInit, LogStep, PTL DEF Spec

-----------------------------------------------------------------------------
(* What has been read                                                      *)

\* The function that has called, or the one that its caller goes back to.
Stops == {"stop", "stoprename", "stopfailed", "stopunlink"}
Turns == {"open", "openoldest", "opencurrent",
          "rotate", "chmod", "rename", "create", "oldest", "startprocessor"}
Place == IF pc \in Stops
         THEN IF pret = "rotate" THEN ret ELSE pret
         ELSE IF pc \in Turns THEN ret ELSE pc
Home == IF Place = "write" THEN wret ELSE Place

StreamInv ==
  /\ rd <= N /\ (\A p \in NL : p <= start \/ at < p)
  /\ (long => start < at) /\ (linecomplete => rd \in NL \/ start = rd)
  /\ Home \in {"pread", "pause", "exit", "done"} => at = rd
  /\ Home \in {"exit", "done"} => start = rd
  /\ Home = "getc" => ~ long
  /\ Home = "rest" => long
  /\ Place \notin {"write", "rest", "killed"} => b = <<>>

LEMMA PlaceSame ==
  ASSUME Returns,
         Open \/ OpenOldest \/ OpenCurrent \/ Stopping \/ Rotating \/ Handle \/ HandleChild
           \/ WriteFull \/ Process \/ Send \/ UNCHANGED vars
  PROVE  Place' = Place /\ wret' = wret
<1>1. CASE Open \/ OpenOldest \/ OpenCurrent
  BY <1>1 DEF Open, OpenOldest, OpenCurrent, Returns, Place, Stops, Turns
<1>2. CASE Stopping
  BY <1>2 DEF Stopping, StopWait, StopFailed, StopRename, StopUnlink, Returns, Place, Stops, Turns
<1>3. CASE Rotate
  BY <1>3 DEF Rotate, Returns, Place, Stops, Turns
<1>4. CASE Rotating /\ ~ Rotate
  BY <1>4 DEF Rotating, RotateChmod, RotateRename, RotateCreate, RotateOldest, RotateStart,
     Returns, Place, Stops, Turns
<1>5. CASE HandleChild
  BY <1>5 DEF HandleChild, Place, Stops, Turns
<1>6. CASE Handle \/ WriteFull \/ Process \/ Send \/ UNCHANGED vars
  <2>1. UNCHANGED <<pc, ret, pret, wret>>
    BY <1>6 DEF Handle, WriteFull, Process, Send, vars
  <2> QED
    BY <2>1 DEF Place
<1> QED
  BY <1>1, <1>2, <1>3, <1>4, <1>5, <1>6

LEMMA StreamQuiet ==
  ASSUME StreamInv, UNCHANGED <<rd, at, start, long, linecomplete, b>>,
         \/ Home' = Home
         \/ Home' = "killed"
         \/ Home = "exit" /\ Home' = "done",
         \/ Place' \in {Place, "killed"}
         \/ b = <<>>
  PROVE  StreamInv'
<1>1. /\ Home' \in {"pread", "pause", "exit", "done"} => at = rd
      /\ Home' \in {"exit", "done"} => start = rd
      /\ Home' = "getc" => ~ long
      /\ Home' = "rest" => long
  BY DEF StreamInv
<1>2. Place' \notin {"write", "rest", "killed"} => b = <<>>
  BY DEF StreamInv
<1>3. /\ rd <= N /\ (\A p \in NL : p <= start \/ at < p)
      /\ (long => start < at) /\ (linecomplete => rd \in NL \/ start = rd)
  BY DEF StreamInv
<1> HIDE DEF Home, Place
<1> QED
  BY <1>1, <1>2, <1>3 DEF StreamInv

LEMMA StreamWrite ==
  ASSUME InputTypes, Returns, StreamInv, Write
  PROVE  StreamInv'
<1>1. UNCHANGED <<rd, at, start, long, linecomplete, wret>> /\ pc = "write"
  BY DEF Write, input
<1>2. Place = "write" /\ Home = wret
  BY <1>1 DEF Place, Home, Stops, Turns
<1>3. CASE b = <<>>
  <2>1. b' = b /\ pc' = wret
    BY <1>3 DEF Write
  <2>2. Place' = wret /\ Home' = wret
    BY <1>1, <2>1 DEF Returns, Place, Home, Stops, Turns
  <2> QED
    BY <1>1, <1>2, <1>3, <2>1, <2>2, StreamQuiet
<1>4. CASE b # <<>>
  <2>1. pc' = "write" \/ (pc' = "rotate" /\ ret' = "write")
    BY <1>1, <1>4 DEF Write
  <2>2. Place' = "write" /\ Home' = wret
    BY <1>1, <2>1 DEF Place, Home, Stops, Turns
  <2> QED
    BY <1>1, <1>2, <2>2 DEF StreamInv, Returns
<1> QED
  BY <1>3, <1>4

\* No newline is between i and j.
Clear(i, j) == \A p \in NL : p <= i \/ j < p

LEMMA Newlines == NL \subseteq Nat /\ N \in Nat /\ \A p \in NL : 0 < p /\ p <= N
BY SvlogdAssumption

\* What the first loop does: it takes what there is, or one line, or the beginning
\* of a long one.
LEMMA LineCases ==
  ASSUME InputTypes, Line
  PROVE  /\ UNCHANGED <<rd, linecomplete>> /\ pc = "getc"
         /\ \/ /\ at' = rd /\ UNCHANGED <<start, long, b, lost>>
               /\ pc' = "write" /\ wret' = "pread" /\ Clear(at, rd)
            \/ \E e \in Nat :
                 /\ at < e /\ e <= rd /\ Clear(at, e - 1) /\ at' = e
                 /\ \/ /\ e = rd /\ pc' = "exit" /\ start' = e /\ UNCHANGED <<long, b>>
                       /\ lost' = lost \cup (start + 1) .. e
                    \/ /\ e \in NL /\ pc' = "write" /\ wret' = "getc" /\ start' = e
                       /\ UNCHANGED <<long, lost>> /\ Put(Upto(start, e))
                    \/ /\ e \notin NL /\ pc' = "rest" /\ long' = TRUE
                       /\ UNCHANGED <<start, lost>> /\ Put(Upto(start, e))
<1> DEFINE ends == {p \in (at + 1) .. rd : p \in NL \/ p = start + LineMax}
           e == CHOOSE p \in ends : \A q \in ends : p <= q
<1> USE DEF InputTypes
<1>1. UNCHANGED <<rd, linecomplete>> /\ pc = "getc"
  BY DEF Line
<1>2. CASE ends = {}
  <2>1. /\ at' = rd /\ UNCHANGED <<start, long, b, lost>>
        /\ pc' = "write" /\ wret' = "pread"
    BY <1>2 DEF Line, Flush
  <2>2. Clear(at, rd)
    BY <1>2, Newlines DEF Clear
  <2> QED
    BY <1>1, <2>1, <2>2
<1>3. CASE ends # {}
  <2>1. e \in ends /\ \A q \in ends : e <= q
    <3>1. ends \subseteq Nat
      OBVIOUS
    <3>2. \E p \in ends : \A q \in ends : p <= q
      BY <1>3, <3>1, LeastExists
    <3> HIDE DEF ends
    <3> QED
      BY <3>2
  <2>2. e \in Nat /\ at < e /\ e <= rd
    BY <2>1
  <2>3. Clear(at, e - 1)
    <3>1. \A p \in NL : at < p /\ p <= rd => p \in ends
      BY Newlines
    <3> HIDE DEF e, ends
    <3>2. \A p \in NL : at < p /\ p <= rd => e <= p
      BY <2>1, <3>1
    <3> QED
      BY <2>2, <3>2, Newlines DEF Clear
  <2>4. /\ at' = e
        /\ \/ /\ e = rd /\ pc' = "exit" /\ start' = e /\ UNCHANGED <<long, b>>
              /\ lost' = lost \cup (start + 1) .. e
           \/ /\ e \in NL /\ pc' = "write" /\ wret' = "getc" /\ start' = e
              /\ UNCHANGED <<long, lost>> /\ Put(Upto(start, e))
           \/ /\ e \notin NL /\ pc' = "rest" /\ long' = TRUE
              /\ UNCHANGED <<start, lost>> /\ Put(Upto(start, e))
    BY <1>3 DEF Line, Flush
  <2> HIDE DEF e, ends
  <2> QED
    BY <1>1, <2>2, <2>3, <2>4
<1> QED
  BY <1>2, <1>3

LEMMA RestCases ==
  ASSUME InputTypes, Rest
  PROVE  /\ UNCHANGED <<rd, linecomplete, lost>> /\ pc = "rest" /\ pc' = "write"
         /\ \/ /\ at' = rd /\ UNCHANGED <<start, long>> /\ wret' = "pread"
               /\ Put(Upto(at, rd)) /\ Clear(at, rd)
            \/ \E e \in NL :
                 /\ at < e /\ e <= rd /\ Clear(at, e - 1) /\ at' = e /\ start' = e
                 /\ long' = FALSE /\ wret' = "getc" /\ Put(Upto(at, e))
<1> DEFINE ends == NL \cap (at + 1) .. rd
           e == CHOOSE p \in ends : \A q \in ends : p <= q
<1> USE DEF InputTypes
<1>1. UNCHANGED <<rd, linecomplete, lost>> /\ pc = "rest" /\ pc' = "write"
  BY DEF Rest, Flush
<1>2. CASE ends = {}
  <2>1. at' = rd /\ UNCHANGED <<start, long>> /\ wret' = "pread" /\ Put(Upto(at, rd))
    BY <1>2 DEF Rest, Flush
  <2>2. Clear(at, rd)
    BY <1>2, Newlines DEF Clear
  <2> QED
    BY <1>1, <2>1, <2>2
<1>3. CASE ends # {}
  <2>1. e \in ends /\ \A q \in ends : e <= q
    <3>1. ends \subseteq Nat
      OBVIOUS
    <3>2. \E p \in ends : \A q \in ends : p <= q
      BY <1>3, <3>1, LeastExists
    <3> HIDE DEF ends
    <3> QED
      BY <3>2
  <2>2. e \in NL /\ at < e /\ e <= rd
    BY <2>1
  <2>3. Clear(at, e - 1)
    <3>1. \A p \in NL : at < p /\ p <= rd => p \in ends
      BY Newlines
    <3> HIDE DEF e, ends
    <3>2. \A p \in NL : at < p /\ p <= rd => e <= p
      BY <2>1, <3>1
    <3> QED
      BY <2>2, <3>2, Newlines DEF Clear
  <2>4. at' = e /\ start' = e /\ long' = FALSE /\ wret' = "getc" /\ Put(Upto(at, e))
    BY <1>3 DEF Rest, Flush
  <2> HIDE DEF e, ends
  <2> QED
    BY <1>1, <2>2, <2>3, <2>4
<1> QED
  BY <1>2, <1>3

LEMMA StreamLine ==
  ASSUME InputTypes, StreamInv, Line
  PROVE  StreamInv'
<1>1. /\ UNCHANGED <<rd, linecomplete>> /\ rd <= N /\ Clear(start, at)
      /\ linecomplete => rd \in NL \/ start = rd
  BY LineCases DEF StreamInv, Clear
<1>2. ~ long /\ b = <<>>
  <2>1. Place = "getc" /\ Home = "getc"
    BY LineCases DEF Place, Home, Stops, Turns
  <2> QED
    BY <2>1 DEF StreamInv
<1>3. CASE /\ at' = rd /\ UNCHANGED <<start, long, b, lost>>
           /\ pc' = "write" /\ wret' = "pread" /\ Clear(at, rd)
  <2>1. Place' = "write" /\ Home' = "pread"
    BY <1>3 DEF Place, Home, Stops, Turns
  <2>2. Clear(start, rd)
    BY <1>1, <1>3, Newlines DEF Clear, InputTypes
  <2> HIDE DEF Place, Home
  <2> QED
    BY <1>1, <1>2, <1>3, <2>1, <2>2 DEF StreamInv, Clear
<1>4. ASSUME NEW e \in Nat, at < e, e <= rd, Clear(at, e - 1), at' = e,
             \/ e = rd /\ pc' = "exit" /\ start' = e /\ UNCHANGED <<long, b>>
             \/ e \in NL /\ pc' = "write" /\ wret' = "getc" /\ start' = e /\ UNCHANGED long
             \/ e \notin NL /\ pc' = "rest" /\ long' = TRUE /\ UNCHANGED start
      PROVE  StreamInv'
  <2>1. CASE e = rd /\ pc' = "exit" /\ start' = e /\ UNCHANGED <<long, b>>
    <3>1. Place' = "exit" /\ Home' = "exit"
      BY <2>1 DEF Place, Home, Stops, Turns
    <3>2. Clear(e, e)
      BY Newlines DEF Clear
    <3> QED
      BY <1>1, <1>2, <1>4, <2>1, <3>1, <3>2 DEF StreamInv, Clear
  <2>2. CASE e \in NL /\ pc' = "write" /\ wret' = "getc" /\ start' = e /\ UNCHANGED long
    <3>1. Place' = "write" /\ Home' = "getc"
      BY <2>2 DEF Place, Home, Stops, Turns
    <3>2. Clear(e, e)
      BY Newlines DEF Clear
    <3>3. linecomplete => rd \in NL \/ e = rd
      BY <1>1, <1>4 DEF InputTypes
    <3> QED
      BY <1>1, <1>2, <1>4, <2>2, <3>1, <3>2, <3>3 DEF StreamInv, Clear
  <2>3. CASE e \notin NL /\ pc' = "rest" /\ long' = TRUE /\ UNCHANGED start
    <3>1. Place' = "rest" /\ Home' = "rest"
      BY <2>3 DEF Place, Home, Stops, Turns
    <3>2. Clear(start, e)
      BY <1>1, <1>4, <2>3, Newlines DEF Clear, InputTypes
    <3>3. start < e
      BY <1>4 DEF InputTypes
    <3> QED
      BY <1>1, <1>4, <2>3, <3>1, <3>2, <3>3 DEF StreamInv, Clear
  <2> QED
    BY <1>4, <2>1, <2>2, <2>3
<1> QED
  BY <1>3, <1>4, LineCases

LEMMA StreamRest ==
  ASSUME InputTypes, StreamInv, Rest
  PROVE  StreamInv'
<1>1. /\ UNCHANGED <<rd, linecomplete>> /\ rd <= N /\ Clear(start, at)
      /\ linecomplete => rd \in NL \/ start = rd
  BY RestCases DEF StreamInv, Clear
<1>2. long /\ start < at
  <2>1. Place = "rest" /\ Home = "rest"
    BY RestCases DEF Place, Home, Stops, Turns
  <2> QED
    BY <2>1 DEF StreamInv
<1>3. CASE /\ at' = rd /\ UNCHANGED <<start, long>> /\ pc' = "write" /\ wret' = "pread"
           /\ Clear(at, rd)
  <2>1. Place' = "write" /\ Home' = "pread"
    BY <1>3 DEF Place, Home, Stops, Turns
  <2>2. Clear(start, rd) /\ start < rd
    BY <1>1, <1>2, <1>3, Newlines DEF Clear, InputTypes
  <2> HIDE DEF Place, Home
  <2> QED
    BY <1>1, <1>2, <1>3, <2>1, <2>2 DEF StreamInv, Clear
<1>4. ASSUME NEW e \in NL, at < e, e <= rd, at' = e, start' = e, long' = FALSE,
             pc' = "write", wret' = "getc"
      PROVE  StreamInv'
  <2>1. Place' = "write" /\ Home' = "getc"
    BY <1>4 DEF Place, Home, Stops, Turns
  <2>2. Clear(e, e)
    BY Newlines DEF Clear
  <2>3. linecomplete => rd \in NL \/ e = rd
    BY <1>1, <1>2, <1>4, Newlines DEF InputTypes
  <2> QED
    BY <1>1, <1>4, <2>1, <2>2, <2>3 DEF StreamInv, Clear
<1> QED
  BY <1>3, <1>4, RestCases

\* A line cannot both be long and be complete when all of it has been taken.
LEMMA LongOpen ==
  ASSUME InputTypes, StreamInv, at = rd, linecomplete
  PROVE  ~ long
BY Newlines DEF InputTypes, StreamInv

LEMMA StreamEof ==
  ASSUME InputTypes, StreamInv, Eof, at = rd, b = <<>>,
         UNCHANGED <<rd, at, linecomplete>>
  PROVE  StreamInv'
<1>1. /\ rd <= N /\ start' = rd /\ at' = rd
      /\ linecomplete => rd \in NL \/ start' = rd
  BY DEF StreamInv, Eof
<1>2. Clear(rd, rd)
  BY Newlines DEF Clear, InputTypes
<1>3. CASE long
  <2>1. long' = FALSE /\ pc' = "write" /\ wret' = "getc"
    BY <1>3 DEF Eof, Flush
  <2>2. Place' = "write" /\ Home' = "getc"
    BY <2>1 DEF Place, Home, Stops, Turns
  <2> QED
    BY <1>1, <1>2, <2>1, <2>2 DEF StreamInv, Clear
<1>4. CASE ~ long
  <2>1. UNCHANGED <<long, b>> /\ pc' = "exit"
    BY <1>4 DEF Eof
  <2>2. Place' = "exit" /\ Home' = "exit"
    BY <2>1 DEF Place, Home, Stops, Turns
  <2> QED
    BY <1>1, <1>2, <1>4, <2>1, <2>2 DEF StreamInv, Clear
<1> QED
  BY <1>3, <1>4

LEMMA AllTaken ==
  ASSUME StreamInv, pc \in {"pread", "pause", "exit"}
  PROVE  at = rd /\ b = <<>> /\ Place = pc /\ Home = pc
<1>1. Place = pc /\ Home = pc
  BY DEF Place, Home, Stops, Turns
<1> QED
  BY <1>1 DEF StreamInv

\* buffer_pread ends the input, or goes on: with a rotation, a reopening or the wait.
LEMMA PreadCases ==
  ASSUME Pread
  PROVE  /\ UNCHANGED <<rd, at, linecomplete, old, procs, now>> /\ pc = "pread"
         /\ \/ Eof /\ linecomplete /\ UNCHANGED cur
            \/ /\ UNCHANGED <<start, long, b, lost>> /\ cur' \in {cur, [cur EXCEPT !.x = TRUE]}
               /\ \/ pc' \in {"rotate", "open"} /\ ret' \in {"pread", "pause"}
                  \/ pc' = "pause"
BY DEF Pread

LEMMA ReadCases ==
  ASSUME Read
  PROVE  /\ UNCHANGED <<at, cur, old, procs, now>> /\ pc = "pause"
         /\ \/ Eof /\ rd = N /\ UNCHANGED <<rd, linecomplete>>
            \/ UNCHANGED <<rd, linecomplete, start, long, b, lost>> /\ pc' = "pread"
            \/ /\ UNCHANGED <<start, long, b, lost>> /\ pc' = (IF long THEN "rest" ELSE "getc")
               /\ \E k \in 1 .. len : rd + k <= N /\ rd' = rd + k
               /\ linecomplete' = (rd' \in NL)
BY DEF Read, files

LEMMA StreamPread ==
  ASSUME InputTypes, StreamInv, Pread
  PROVE  StreamInv'
<1>1. at = rd /\ b = <<>> /\ Home = "pread"
  BY PreadCases, AllTaken
<1>2. CASE Eof
  BY <1>1, <1>2, StreamEof, PreadCases
<1>3. CASE /\ UNCHANGED <<start, long, b>>
           /\ \/ pc' \in {"rotate", "open"} /\ ret' \in {"pread", "pause"}
              \/ pc' = "pause"
  <2>1. Place' \in {"pread", "pause"} /\ Home' \in {"pread", "pause"}
    BY <1>3 DEF Place, Home, Stops, Turns
  <2>2. UNCHANGED <<rd, at, linecomplete>>
    BY PreadCases
  <2> HIDE DEF Place, Home
  <2> QED
    BY <1>1, <1>3, <2>1, <2>2 DEF StreamInv
<1> QED
  BY <1>2, <1>3, PreadCases

LEMMA StreamRead ==
  ASSUME InputTypes, StreamInv, Read
  PROVE  StreamInv'
<1>1. at = rd /\ b = <<>> /\ Home = "pause"
  BY ReadCases, AllTaken
<1>2. UNCHANGED at
  BY ReadCases
<1>3. CASE Eof /\ rd = N /\ UNCHANGED <<rd, linecomplete>>
  BY <1>1, <1>2, <1>3, StreamEof
<1>4. CASE UNCHANGED <<rd, linecomplete, start, long, b>> /\ pc' = "pread"
  <2>1. Place' = "pread" /\ Home' = "pread"
    BY <1>4 DEF Place, Home, Stops, Turns
  <2> HIDE DEF Place, Home
  <2> QED
    BY <1>1, <1>2, <1>4, <2>1 DEF StreamInv
<1>5. CASE /\ UNCHANGED <<start, long, b>> /\ pc' = (IF long THEN "rest" ELSE "getc")
           /\ \E k \in 1 .. len : rd + k <= N /\ rd' = rd + k
           /\ linecomplete' = (rd' \in NL)
  <2>1. Place' = pc' /\ Home' = pc'
    BY <1>5 DEF Place, Home, Stops, Turns
  <2>2. rd' <= N /\ (linecomplete' => rd' \in NL)
    BY <1>5
  <2>3. Home' = "getc" => ~ long
    BY <1>5, <2>1
  <2>4. Home' = "rest" => long
    BY <1>5, <2>1
  <2>5. Home' \notin {"pread", "pause", "exit", "done"}
    BY <1>5, <2>1
  <2>6. /\ \A p \in NL : p <= start \/ at < p
        /\ long => start < at
    BY DEF StreamInv
  <2> HIDE DEF Place, Home
  <2> QED
    BY <1>1, <1>2, <1>5, <2>2, <2>3, <2>4, <2>5, <2>6 DEF StreamInv
<1> QED
  BY <1>3, <1>4, <1>5, ReadCases

LEMMA StreamStep ==
  ASSUME InputTypes, Returns, StreamInv, [Next]_vars
  PROVE  StreamInv'
<1>1. ASSUME Open \/ OpenOldest \/ OpenCurrent \/ Stopping \/ Rotating \/ Handle \/ HandleChild
             \/ WriteFull \/ Process \/ Send \/ UNCHANGED vars
      PROVE  StreamInv'
  <2>1. Place' = Place /\ wret' = wret
    BY <1>1, PlaceSame
  <2>2. Home' = Home
    BY <2>1 DEF Home
  <2>3. UNCHANGED <<rd, at, start, long, linecomplete, b>>
    BY <1>1 DEF Open, OpenOldest, OpenCurrent, Stopping, StopWait, StopFailed, StopRename,
       StopUnlink, Rotating, Rotate, RotateChmod, RotateRename, RotateCreate, RotateOldest,
       RotateStart, Handle, HandleChild, WriteFull, Process, Send, vars, input
  <2> HIDE DEF Place, Home
  <2> QED
    BY <2>1, <2>2, <2>3, StreamQuiet
<1>2. ASSUME Exit PROVE StreamInv'
  <2>1. UNCHANGED <<rd, at, start, long, linecomplete, b>> /\ pc = "exit"
        /\ (pc' = "done" \/ (pc' = "stop" /\ pret' = "exit"))
    BY <1>2 DEF Exit, input
  <2>2. b = <<>> /\ Home = "exit"
    BY <2>1, AllTaken
  <2>3. Home' \in {"exit", "done"}
    BY <2>1 DEF Place, Home, Stops, Turns
  <2> QED
    BY <2>1, <2>2, <2>3, StreamQuiet
<1>3. ASSUME Kill PROVE StreamInv'
  <2>1. UNCHANGED <<rd, at, start, long, linecomplete, b>> /\ pc' = "killed"
    BY <1>3 DEF Kill, input
  <2>2. Place' = "killed" /\ Home' = "killed"
    BY <2>1 DEF Place, Home, Stops, Turns
  <2> QED
    BY <2>1, <2>2, StreamQuiet
<1>4. ASSUME Restart PROVE StreamInv'
  <2>1. /\ rd' = rd /\ at' = rd /\ start' = rd /\ long' = FALSE /\ b' = <<>>
        /\ pc' = "open" /\ ret' = "getc"
    BY <1>4 DEF Restart
  <2>2. Place' = "getc" /\ Home' = "getc"
    BY <2>1 DEF Place, Home, Stops, Turns
  <2>3. Clear(rd, rd) /\ rd <= N
    BY Newlines DEF Clear, InputTypes, StreamInv
  <2> QED
    BY <2>1, <2>2, <2>3 DEF StreamInv, Clear
<1> QED
  BY <1>1, <1>2, <1>3, <1>4, StreamLine, StreamRest, StreamWrite, StreamPread, StreamRead
     DEF Next, Step

-----------------------------------------------------------------------------
(* Texts                                                                   *)

Rising(d) == \A i, j \in 1 .. Len(d) : i < j => d[i] < d[j]
Below(c, d) == \A i \in 1 .. Len(c), j \in 1 .. Len(d) : c[i] < d[j]
Within(d, n) == \A i \in 1 .. Len(d) : d[i] > 0 /\ d[i] <= n

LEMMA EmptyText ==
  /\ <<>> \in Text /\ Len(<<>>) = 0 /\ Rising(<<>>)
  /\ \A d \in Text : Below(<<>>, d) /\ Below(d, <<>>)
  /\ \A n : Within(<<>>, n)
<1>1. <<>> \in Text /\ Len(<<>>) = 0
  BY EmptySeq DEF Text
<1> QED
  BY <1>1 DEF Rising, Below, Within

LEMMA ElementIsNat ==
  ASSUME NEW d \in Text
  PROVE  Len(d) \in Nat /\ \A i \in 1 .. Len(d) : d[i] \in Nat
BY ElementOfSeq, LenProperties DEF Text

LEMMA ConcatTexts ==
  ASSUME NEW c \in Text, NEW d \in Text
  PROVE  /\ c \o d \in Text
         /\ Rising(c) /\ Rising(d) /\ Below(c, d) => Rising(c \o d)
         /\ \A e \in Text : Below(c, e) /\ Below(d, e) => Below(c \o d, e)
         /\ \A e \in Text : Below(e, c) /\ Below(e, d) => Below(e, c \o d)
         /\ \A n : Within(c, n) /\ Within(d, n) => Within(c \o d, n)
         /\ \A i \in 1 .. Len(c \o d) :
              (\E j \in 1 .. Len(c) : (c \o d)[i] = c[j]) \/ (\E j \in 1 .. Len(d) : (c \o d)[i] = d[j])
         /\ \A j \in 1 .. Len(c) : \E i \in 1 .. Len(c \o d) : (c \o d)[i] = c[j]
         /\ \A j \in 1 .. Len(d) : \E i \in 1 .. Len(c \o d) : (c \o d)[i] = d[j]
<1> DEFINE w == c \o d
<1>1. /\ w \in Text /\ Len(w) = Len(c) + Len(d)
      /\ \A i \in 1 .. Len(c) + Len(d) : w[i] = IF i <= Len(c) THEN c[i] ELSE d[i - Len(c)]
  BY ConcatProperties DEF Text
<1>2. Len(c) \in Nat /\ Len(d) \in Nat
  BY ElementIsNat
<1> HIDE DEF w
<1>3. \A i \in 1 .. Len(w) : (i <= Len(c) /\ i \in 1 .. Len(c) /\ w[i] = c[i])
                             \/ (i > Len(c) /\ i - Len(c) \in 1 .. Len(d) /\ w[i] = d[i - Len(c)])
  BY <1>1, <1>2
<1>4. Rising(c) /\ Rising(d) /\ Below(c, d) => Rising(w)
  <2> SUFFICES ASSUME Rising(c), Rising(d), Below(c, d),
                      NEW i \in 1 .. Len(w), NEW j \in 1 .. Len(w), i < j
               PROVE  w[i] < w[j]
    BY DEF Rising
  <2>1. CASE i <= Len(c) /\ j <= Len(c)
    BY <1>2, <1>3, <2>1 DEF Rising
  <2>2. CASE i <= Len(c) /\ j > Len(c)
    BY <1>2, <1>3, <2>2 DEF Below
  <2>3. CASE i > Len(c) /\ j > Len(c)
    <3>1. /\ i - Len(c) \in 1 .. Len(d) /\ w[i] = d[i - Len(c)]
          /\ j - Len(c) \in 1 .. Len(d) /\ w[j] = d[j - Len(c)]
      BY <1>2, <1>3, <2>3
    <3>2. i - Len(c) < j - Len(c)
      BY <1>1, <1>2
    <3> QED
      BY <3>1, <3>2 DEF Rising
  <2> QED
    BY <1>1, <1>2, <2>1, <2>2, <2>3
<1>5. \A e \in Text : Below(c, e) /\ Below(d, e) => Below(w, e)
  BY <1>2, <1>3 DEF Below
<1>6. \A e \in Text : Below(e, c) /\ Below(e, d) => Below(e, w)
  BY <1>2, <1>3 DEF Below
<1>7. \A n : Within(c, n) /\ Within(d, n) => Within(w, n)
  BY <1>2, <1>3 DEF Within
<1>8. \A i \in 1 .. Len(w) :
        (\E j \in 1 .. Len(c) : w[i] = c[j]) \/ (\E j \in 1 .. Len(d) : w[i] = d[j])
  BY <1>3
<1>9. \A j \in 1 .. Len(c) : \E i \in 1 .. Len(w) : w[i] = c[j]
  BY <1>1, <1>2
<1>10. ASSUME NEW j \in 1 .. Len(d)
       PROVE  \E i \in 1 .. Len(w) : w[i] = d[j]
  <2>1. Len(c) + j \in 1 .. Len(w) /\ ~ (Len(c) + j <= Len(c)) /\ (Len(c) + j) - Len(c) = j
    BY <1>1, <1>2
  <2>2. w[Len(c) + j] = d[(Len(c) + j) - Len(c)]
    BY <1>1, <2>1
  <2> QED
    BY <2>1, <2>2
<1> QED
  BY <1>1, <1>4, <1>5, <1>6, <1>7, <1>8, <1>9, <1>10 DEF w

LEMMA UptoText ==
  ASSUME NEW i \in Nat, NEW j \in Nat, i <= j
  PROVE  /\ Upto(i, j) \in Text /\ Rising(Upto(i, j))
         /\ \A k \in 1 .. Len(Upto(i, j)) : i < Upto(i, j)[k] /\ Upto(i, j)[k] <= j
         /\ \A u \in (i + 1) .. j : \E k \in 1 .. Len(Upto(i, j)) : Upto(i, j)[k] = u
<1> DEFINE d == Upto(i, j)
<1>1. d \in Text
  BY UptoIsText
<1>2. d = [k \in 1 .. (j - i) |-> i + k] /\ j - i \in Nat
  BY DEF Upto
<1>3. DOMAIN d = 1 .. Len(d) /\ Len(d) \in Nat
  BY <1>1, LenProperties DEF Text
<1>4. Len(d) = j - i
  BY <1>2, <1>3
<1>5. \A k \in 1 .. Len(d) : d[k] = i + k
  BY <1>2, <1>4
<1> HIDE DEF d
<1>6. Rising(d)
  BY <1>4, <1>5 DEF Rising
<1>7. \A k \in 1 .. Len(d) : i < d[k] /\ d[k] <= j
  BY <1>4, <1>5
<1>8. ASSUME NEW u \in (i + 1) .. j
      PROVE  \E k \in 1 .. Len(d) : d[k] = u
  <2>1. u - i \in 1 .. Len(d) /\ i + (u - i) = u
    BY <1>4
  <2> QED
    BY <1>5, <2>1
<1> QED
  BY <1>1, <1>6, <1>7, <1>8 DEF d

\* A text is cut in two.
LEMMA CutText ==
  ASSUME NEW d \in Text, NEW n \in 1 .. Len(d)
  PROVE  /\ SubSeq(d, 1, n) \in Text /\ SubSeq(d, n + 1, Len(d)) \in Text
         /\ Rising(d) => /\ Rising(SubSeq(d, 1, n)) /\ Rising(SubSeq(d, n + 1, Len(d)))
                         /\ Below(SubSeq(d, 1, n), SubSeq(d, n + 1, Len(d)))
         /\ \A c \in Text : Below(c, d) =>
              Below(c, SubSeq(d, 1, n)) /\ Below(c, SubSeq(d, n + 1, Len(d)))
         /\ \A m : Within(d, m) => Within(SubSeq(d, 1, n), m) /\ Within(SubSeq(d, n + 1, Len(d)), m)
         /\ \A i \in 1 .. Len(SubSeq(d, 1, n)) : \E j \in 1 .. Len(d) : SubSeq(d, 1, n)[i] = d[j]
         /\ \A i \in 1 .. Len(SubSeq(d, n + 1, Len(d))) :
              \E j \in 1 .. Len(d) : SubSeq(d, n + 1, Len(d))[i] = d[j]
         /\ \A j \in 1 .. Len(d) :
              \/ \E i \in 1 .. Len(SubSeq(d, 1, n)) : SubSeq(d, 1, n)[i] = d[j]
              \/ \E i \in 1 .. Len(SubSeq(d, n + 1, Len(d))) : SubSeq(d, n + 1, Len(d))[i] = d[j]
<1> DEFINE h == SubSeq(d, 1, n)
           t == SubSeq(d, n + 1, Len(d))
<1>1. Len(d) \in Nat /\ \A i \in 1 .. Len(d) : d[i] \in Nat
  BY ElementIsNat
<1>2. /\ h \in Text /\ Len(h) = n
      /\ \A i \in 1 .. n - 1 + 1 : h[i] = d[1 + i - 1]
  <2>1. \A i \in 1 .. n : d[i] \in Nat
    BY <1>1
  <2> QED
    BY <1>1, <2>1, SubSeqProperties DEF Text
<1>3. /\ t \in Text /\ Len(t) = IF n + 1 <= Len(d) THEN Len(d) - (n + 1) + 1 ELSE 0
      /\ \A i \in 1 .. Len(d) - (n + 1) + 1 : t[i] = d[(n + 1) + i - 1]
  <2>1. \A i \in n + 1 .. Len(d) : d[i] \in Nat
    BY <1>1
  <2> QED
    BY <1>1, <2>1, SubSeqProperties DEF Text
<1>4. \A i \in 1 .. Len(h) : i \in 1 .. Len(d) /\ i <= n /\ h[i] = d[i]
  BY <1>1, <1>2
<1>5. \A i \in 1 .. Len(t) : n + i \in 1 .. Len(d) /\ t[i] = d[n + i]
  BY <1>1, <1>3
<1>6. Len(h) = n /\ Len(t) = Len(d) - n
  BY <1>1, <1>2, <1>3
<1> HIDE DEF h, t
<1>7. Rising(d) => Rising(h) /\ Rising(t) /\ Below(h, t)
  <2> SUFFICES ASSUME Rising(d) PROVE Rising(h) /\ Rising(t) /\ Below(h, t)
    OBVIOUS
  <2>1. Rising(h)
    BY <1>4, <1>6 DEF Rising
  <2>2. Rising(t)
    <3> SUFFICES ASSUME NEW i \in 1 .. Len(t), NEW j \in 1 .. Len(t), i < j PROVE t[i] < t[j]
      BY DEF Rising
    <3>1. n + i < n + j /\ n + i \in 1 .. Len(d) /\ n + j \in 1 .. Len(d)
      BY <1>1, <1>5, <1>6
    <3> QED
      BY <1>5, <3>1 DEF Rising
  <2>3. Below(h, t)
    <3> SUFFICES ASSUME NEW i \in 1 .. Len(h), NEW j \in 1 .. Len(t) PROVE h[i] < t[j]
      BY DEF Below
    <3>1. i < n + j /\ i \in 1 .. Len(d) /\ n + j \in 1 .. Len(d)
      BY <1>1, <1>4, <1>5, <1>6
    <3> QED
      BY <1>4, <1>5, <3>1 DEF Rising
  <2> QED
    BY <2>1, <2>2, <2>3
<1>8. \A c \in Text : Below(c, d) => Below(c, h) /\ Below(c, t)
  BY <1>4, <1>5 DEF Below
<1>9. \A m : Within(d, m) => Within(h, m) /\ Within(t, m)
  BY <1>4, <1>5 DEF Within
<1>10. ASSUME NEW j \in 1 .. Len(d)
       PROVE  (\E i \in 1 .. Len(h) : h[i] = d[j]) \/ (\E i \in 1 .. Len(t) : t[i] = d[j])
  <2>1. CASE j <= n
    <3>1. j \in 1 .. Len(h)
      BY <1>6, <2>1
    <3> QED
      BY <1>4, <3>1
  <2>2. CASE j > n
    <3>1. j - n \in 1 .. Len(t) /\ n + (j - n) = j
      BY <1>1, <1>6, <2>2
    <3> QED
      BY <1>5, <3>1
  <2> QED
    BY <1>1, <2>1, <2>2
<1> QED
  BY <1>2, <1>3, <1>4, <1>5, <1>7, <1>8, <1>9, <1>10 DEF h, t

-----------------------------------------------------------------------------
(* The order of the log                                                    *)

\* What has been taken from the input, and the largest byte it may have become:
\* the newline that ends the last line comes after all.
Hi == IF long THEN at ELSE start
Top == IF start = N THEN N + 1 ELSE Hi

\* c is the beginning of d, the rest of which a killed processor had not written.
PartOf(c, d) ==
  /\ Len(c) <= Len(d) /\ \A i \in 1 .. Len(c) : c[i] = d[i]
  /\ \A i \in 1 .. Len(d) : i > Len(c) => d[i] \in cut

TextInv ==
  /\ Rising(cur.data) /\ Within(cur.data, Top)
  /\ Rising(b) /\ Within(b, Top) /\ Below(cur.data, b)
  /\ \A f \in Saved(old) :
       Rising(f.data) /\ Within(f.data, Top) /\ Below(f.data, cur.data) /\ Below(f.data, b)
  /\ \A f, g \in Saved(old) : f.t < g.t => Below(f.data, g.data)
  /\ \A f, g \in Saved(old) : f.t = g.t /\ f.k = "s" /\ g.k = "u" => PartOf(f.data, g.data)
  /\ pc = "create" => cur.data = <<>>

\* What was not written stays so.
LEMMA CutGrows ==
  ASSUME FileTypes, [Next]_vars
  PROVE  cut \subseteq cut'
<1>1. CASE Process
  <2>1. PICK p \in procs : ProcessorOpen(p) \/ ProcessorEnd(p) \/ ProcessorKilled(p)
    BY <1>1 DEF Process
  <2>2. p \in Proc
    BY DEF FileTypes
  <2> QED
    BY <2>1, <2>2, KilledOutput DEF ProcessorOpen, ProcessorEnd
<1>2. CASE Stopping \/ Rotating
  BY <1>2 DEF Stopping, Rotating, StopWait, StopFailed, StopRename, StopUnlink, Rotate,
     RotateChmod, RotateRename, RotateCreate, RotateOldest, RotateStart
<1>3. CASE Open \/ OpenOldest \/ OpenCurrent \/ Write \/ Line \/ Rest \/ Pread \/ Read
  BY <1>3 DEF Open, OpenOldest, OpenCurrent, Write, Line, Rest, Pread, Read
<1>4. CASE Handle \/ HandleChild \/ Exit \/ WriteFull \/ Send \/ Kill \/ Restart \/ UNCHANGED vars
  BY <1>4 DEF Handle, HandleChild, Exit, WriteFull, Send, Kill, Restart, vars
<1> QED
  BY <1>1, <1>2, <1>3, <1>4 DEF Next, Step

LEMMA PartStays ==
  ASSUME NEW c, NEW d, PartOf(c, d), cut \subseteq cut'
  PROVE  /\ Len(c) <= Len(d) /\ \A i \in 1 .. Len(c) : c[i] = d[i]
         /\ \A i \in 1 .. Len(d) : i > Len(c) => d[i] \in cut'
BY DEF PartOf

LEMMA PairsStay ==
  ASSUME TextInv, cut \subseteq cut', Saved(old') \subseteq Saved(old)
  PROVE  \A f, g \in Saved(old') : f.t = g.t /\ f.k = "s" /\ g.k = "u" => PartOf(f.data, g.data)'
<1>1. ASSUME NEW f \in Saved(old'), NEW g \in Saved(old'), f.t = g.t, f.k = "s", g.k = "u"
      PROVE  PartOf(f.data, g.data)'
  <2>1. PartOf(f.data, g.data)
    BY <1>1 DEF TextInv
  <2> QED
    BY <2>1, PartStays DEF PartOf
<1> QED
  BY <1>1

LEMMA PartText ==
  ASSUME NEW c \in Text, NEW d \in Text, PartOf(c, d)
  PROVE  /\ Rising(d) => Rising(c)
         /\ \A n : Within(d, n) => Within(c, n)
         /\ \A e : (Below(d, e) => Below(c, e)) /\ (Below(e, d) => Below(e, c))
<1>1. \A i \in 1 .. Len(c) : i \in 1 .. Len(d) /\ c[i] = d[i]
  BY ElementIsNat DEF PartOf
<1> QED
  BY <1>1 DEF Rising, Within, Below

LEMMA DataIsText ==
  ASSUME FileTypes
  PROVE  /\ cur.data \in Text
         /\ \A f \in Saved(old) : f.data \in Text /\ f.t \in Nat /\ f \in old
BY DEF FileTypes, File, Saved

LEMMA TopIsNat ==
  ASSUME InputTypes
  PROVE  Hi \in Nat /\ Top \in Nat
BY Newlines DEF InputTypes, Hi, Top

LEMMA TopGrows ==
  ASSUME InputTypes, InputTypes', StreamInv, StreamInv', rd <= rd', start <= start', Hi <= Hi'
  PROVE  Top \in Nat /\ Top' \in Nat /\ Top <= Top'
<1>1. Top \in Nat /\ Top' \in Nat
  BY Newlines DEF InputTypes, Hi, Top
<1>2. /\ start \in Nat /\ start' \in Nat /\ start' <= N /\ N \in Nat
      /\ Hi \in Nat /\ Hi' \in Nat /\ Hi <= N /\ Hi' <= N
  BY Newlines DEF InputTypes, StreamInv, Hi
<1>3. CASE start = N
  <2>1. start' = N
    BY <1>2, <1>3
  <2> QED
    BY <1>1, <1>3, <2>1 DEF Top
<1>4. CASE start # N
  BY <1>1, <1>2, <1>4 DEF Top
<1> QED
  BY <1>1, <1>3, <1>4

LEMMA WithinGrows ==
  ASSUME NEW d \in Text, NEW n \in Nat, NEW m \in Nat, n <= m, Within(d, n)
  PROVE  Within(d, m)
BY ElementIsNat DEF Within

LEMMA TextQuiet ==
  ASSUME FileTypes, b \in Text, TextInv, Saved(old') \subseteq Saved(old), cut \subseteq cut',
         cur'.data = cur.data, b' \in {b, <<>>},
         Top \in Nat, Top' \in Nat, Top <= Top', pc' = "create" => cur.data = <<>>
  PROVE  TextInv'
<1>1. Rising(cur'.data) /\ Within(cur'.data, Top')
  BY DataIsText, WithinGrows DEF TextInv
<1>2. Rising(b') /\ Within(b', Top') /\ Below(cur'.data, b')
  BY DataIsText, WithinGrows, EmptyText DEF TextInv
<1>3. \A f \in Saved(old') :
        Rising(f.data) /\ Within(f.data, Top') /\ Below(f.data, cur'.data) /\ Below(f.data, b')
  BY DataIsText, WithinGrows, EmptyText DEF TextInv
<1>4. \A f, g \in Saved(old') : f.t < g.t => Below(f.data, g.data)
  BY DEF TextInv
<1>5. \A f, g \in Saved(old') : f.t = g.t /\ f.k = "s" /\ g.k = "u" => PartOf(f.data, g.data)'
  BY PairsStay
<1> HIDE DEF Top
<1> QED
  BY <1>1, <1>2, <1>3, <1>4, <1>5 DEF TextInv, Saved, Rising, Within, Below

\* Current becomes an old file, younger than all others.
LEMMA TextMoved ==
  ASSUME FileTypes, b \in Text, TextInv, NEW f, old' = old \cup {f}, f.data = cur.data,
         f.t \in Nat, \A g \in old : g.t < f.t, cur'.data = <<>>, b' = b,
         Top \in Nat, Top' = Top, cut \subseteq cut'
  PROVE  TextInv'
<1>1. \A g \in Saved(old') : g \in Saved(old) \/ g = f
  BY DEF Saved
<1>2. Rising(cur'.data) /\ Within(cur'.data, Top') /\ Below(cur'.data, b')
  BY EmptyText
<1>3. Rising(b') /\ Within(b', Top')
  BY DEF TextInv
<1>4. ASSUME NEW g \in Saved(old')
      PROVE  Rising(g.data) /\ Within(g.data, Top') /\ Below(g.data, cur'.data) /\ Below(g.data, b')
  <2>1. g.data \in Text
    BY <1>1, DataIsText
  <2> QED
    BY <1>1, <2>1, EmptyText DEF TextInv
<1>5. \A g \in Saved(old) : g.t < f.t /\ g.t \in Nat
  BY DataIsText
<1>6. ASSUME NEW g \in Saved(old'), NEW h \in Saved(old'), g.t < h.t
      PROVE  Below(g.data, h.data)
  <2>1. CASE g \in Saved(old) /\ h \in Saved(old)
    BY <1>6, <2>1 DEF TextInv
  <2>2. CASE g \in Saved(old) /\ h = f
    BY <2>2 DEF TextInv
  <2>3. g # f
    <3> SUFFICES ASSUME g = f PROVE FALSE
      OBVIOUS
    <3>1. f.t < h.t
      BY <1>6
    <3>2. h = f \/ (h.t \in Nat /\ h.t < f.t)
      BY <1>1, <1>5
    <3> QED
      BY <3>1, <3>2
  <2> QED
    BY <1>1, <2>1, <2>2, <2>3
<1>7. ASSUME NEW g \in Saved(old'), NEW h \in Saved(old'), g.t = h.t, g.k = "s", h.k = "u"
      PROVE  PartOf(g.data, h.data)'
  <2>1. CASE g \in Saved(old) /\ h \in Saved(old)
    <3>1. PartOf(g.data, h.data)
      BY <1>7, <2>1 DEF TextInv
    <3> QED
      BY <3>1, PartStays DEF PartOf
  <2>2. \A x \in Saved(old) : x.t # f.t
    BY <1>5
  <2>3. CASE g = f \/ h = f
    BY <1>1, <1>7, <2>2, <2>3
  <2> QED
    BY <1>1, <2>1, <2>3
<1> HIDE DEF Top
<1> QED
  BY <1>2, <1>3, <1>4, <1>6, <1>7 DEF TextInv, Saved, Rising, Within, Below

\* The output of a processor is saved: its source is there, and begins with it.
LEMMA TextCopied ==
  ASSUME FileTypes, b \in Text, TextInv, NEW f, old' \subseteq old \cup {f}, Single(old),
         NEW u \in Saved(old), f.data \in Text, PartOf(f.data, u.data), f.t = u.t,
         f.k = "s", u.k = "u",
         cur'.data = cur.data, b' = b, Top \in Nat, Top' = Top, pc' # "create",
         cut \subseteq cut'
  PROVE  TextInv'
<1>1. u.data \in Text
  BY DataIsText
<1>2. \A g \in Saved(old') : g \in Saved(old) \/ g = f
  BY DEF Saved
<1>3. /\ Rising(cur'.data) /\ Within(cur'.data, Top')
      /\ Rising(b') /\ Within(b', Top') /\ Below(cur'.data, b')
  BY DEF TextInv
<1>4. Rising(f.data) /\ Within(f.data, Top) /\ Below(f.data, cur.data) /\ Below(f.data, b)
  BY <1>1, PartText DEF TextInv
<1>5. \A g \in Saved(old') :
        Rising(g.data) /\ Within(g.data, Top') /\ Below(g.data, cur'.data) /\ Below(g.data, b')
  BY <1>2, <1>4 DEF TextInv
<1>6. ASSUME NEW g \in Saved(old'), NEW h \in Saved(old'), g.t < h.t
      PROVE  Below(g.data, h.data)
  <2>1. CASE g \in Saved(old) /\ h \in Saved(old)
    BY <1>6, <2>1 DEF TextInv
  <2>2. CASE g = f /\ h \in Saved(old)
    <3>1. Below(u.data, h.data)
      BY <1>6, <2>2 DEF TextInv
    <3> QED
      BY <1>1, <2>2, <3>1, PartText
  <2>3. CASE h = f /\ g \in Saved(old)
    <3>1. Below(g.data, u.data)
      BY <1>6, <2>3 DEF TextInv
    <3> QED
      BY <1>1, <2>3, <3>1, PartText
  <2>4. CASE g = f /\ h = f
    <3>1. f.t \in Nat
      BY DataIsText
    <3> QED
      BY <1>6, <2>4, <3>1
  <2> QED
    BY <1>2, <2>1, <2>2, <2>3, <2>4
<1>7. ASSUME NEW g \in Saved(old'), NEW h \in Saved(old'), g.t = h.t, g.k = "s", h.k = "u"
      PROVE  PartOf(g.data, h.data)'
  <2>1. h \in Saved(old)
    BY <1>2, <1>7
  <2>2. PartOf(g.data, h.data)
    <3>1. CASE g \in Saved(old)
      BY <1>7, <2>1, <3>1 DEF TextInv
    <3>2. CASE g = f
      <4>1. h = u
        BY <1>7, <2>1, <3>2 DEF Single, Saved
      <4> QED
        BY <3>2, <4>1
    <3> QED
      BY <1>2, <3>1, <3>2
  <2> QED
    BY <2>2, PartStays DEF PartOf
<1> HIDE DEF Top
<1> QED
  BY <1>3, <1>5, <1>6, <1>7 DEF TextInv, Saved, Rising, Within, Below

\* More is taken.
LEMMA TextPut ==
  ASSUME FileTypes, b \in Text, TextInv, NEW bytes \in Text, Rising(bytes), Put(bytes),
         Top \in Nat, Top' \in Nat, Top <= Top',
         \A k \in 1 .. Len(bytes) : Top < bytes[k] /\ bytes[k] <= Top',
         old' = old, cur' = cur, pc' # "create", cut \subseteq cut'
  PROVE  TextInv'
<1>1. b' = b \/ b' = b \o bytes
  <2>1. b \o <<>> = b
    BY ConcatEmptySeq DEF Text
  <2> QED
    BY <2>1 DEF Put
<1>2. \A d \in Text : Within(d, Top) => Below(d, bytes)
  BY ElementIsNat DEF Within, Below
<1>3. Within(bytes, Top')
  BY ElementIsNat DEF Within
<1>4. Rising(b') /\ Within(b', Top') /\ Below(cur.data, b')
  <2>1. Within(b, Top') /\ Below(b, bytes) /\ Below(cur.data, bytes) /\ Rising(b) /\ Below(cur.data, b)
    BY <1>2, DataIsText, WithinGrows DEF TextInv
  <2>2. Rising(b \o bytes) /\ Within(b \o bytes, Top') /\ Below(cur.data, b \o bytes)
    BY <1>3, <2>1, DataIsText, ConcatTexts
  <2> QED
    BY <1>1, <2>1, <2>2
<1>5. ASSUME NEW f \in Saved(old)
      PROVE  Rising(f.data) /\ Within(f.data, Top') /\ Below(f.data, cur.data) /\ Below(f.data, b')
  <2>1. f.data \in Text
    BY DataIsText
  <2>2. /\ Rising(f.data) /\ Within(f.data, Top') /\ Below(f.data, cur.data)
        /\ Below(f.data, b) /\ Below(f.data, bytes)
    BY <1>2, <2>1, WithinGrows DEF TextInv
  <2>3. Below(f.data, b \o bytes)
    BY <2>1, <2>2, ConcatTexts
  <2> QED
    BY <1>1, <2>2, <2>3
<1>6. Rising(cur.data) /\ Within(cur.data, Top')
  BY DataIsText, WithinGrows DEF TextInv
<1>7. \A f, g \in Saved(old') : f.t = g.t /\ f.k = "s" /\ g.k = "u" => PartOf(f.data, g.data)'
  BY PairsStay
<1> HIDE DEF Top
<1> QED
  BY <1>4, <1>5, <1>6, <1>7 DEF TextInv, Saved, Rising, Within, Below

LEMMA TextWritten ==
  ASSUME FileTypes, b \in Text, TextInv, NEW n \in 1 .. Len(b),
         cur' = [cur EXCEPT !.data = @ \o SubSeq(b, 1, n)], b' = SubSeq(b, n + 1, Len(b)),
         old' = old, Top \in Nat, Top' = Top, pc' # "create", cut \subseteq cut'
  PROVE  TextInv'
<1> DEFINE h == SubSeq(b, 1, n)
           t == SubSeq(b, n + 1, Len(b))
<1>1. /\ h \in Text /\ t \in Text /\ Rising(h) /\ Rising(t) /\ Below(h, t)
      /\ Within(h, Top) /\ Within(t, Top)
      /\ \A c \in Text : Below(c, b) => Below(c, h) /\ Below(c, t)
  BY CutText DEF TextInv
<1>2. b' = t /\ cur' = [cur EXCEPT !.data = cur.data \o h]
  OBVIOUS
<1> HIDE DEF h, t
<1>3. cur'.data = cur.data \o h
  BY <1>2 DEF FileTypes
<1>4. Rising(cur.data \o h) /\ Within(cur.data \o h, Top) /\ Below(cur.data \o h, t)
  BY <1>1, DataIsText, ConcatTexts DEF TextInv
<1>5. ASSUME NEW f \in Saved(old)
      PROVE  /\ Rising(f.data) /\ Within(f.data, Top)
             /\ Below(f.data, cur.data \o h) /\ Below(f.data, t)
  <2>1. f.data \in Text
    BY DataIsText
  <2>2. /\ Rising(f.data) /\ Within(f.data, Top) /\ Below(f.data, cur.data)
        /\ Below(f.data, h) /\ Below(f.data, t)
    BY <1>1, <2>1 DEF TextInv
  <2> QED
    BY <1>1, <2>1, <2>2, DataIsText, ConcatTexts
<1>6. /\ Rising(cur'.data) /\ Within(cur'.data, Top') /\ Below(cur'.data, b')
      /\ Rising(b') /\ Within(b', Top')
      /\ \A f \in Saved(old) : Rising(f.data) /\ Within(f.data, Top')
                               /\ Below(f.data, cur'.data) /\ Below(f.data, b')
  BY <1>1, <1>2, <1>3, <1>4, <1>5
<1>7. \A f, g \in Saved(old') : f.t = g.t /\ f.k = "s" /\ g.k = "u" => PartOf(f.data, g.data)'
  BY PairsStay
<1> HIDE DEF Top
<1> QED
  BY <1>6, <1>7 DEF TextInv, Saved, Rising, Within, Below

-----------------------------------------------------------------------------
(* The output of a processor is its input, or the beginning of it          *)

CopyInv ==
  /\ \A p \in procs : \A f \in old : f.t = p.t =>
       /\ p.st = "new" => f.k # "t"
       /\ p.st = "run" /\ f.k = "u" => f.data = p.in
       /\ p.st = "ok" /\ f.k = "t" =>
            \A g \in old : g.t = p.t /\ g.k = "u" => PartOf(f.data, g.data)
  /\ pc = "startprocessor" => \A f \in old : f.t = fnsave => f.k # "t"
  /\ pc = "stoprename" =>
       \A f, g \in old : f.t = fnsave /\ g.t = fnsave /\ f.k = "t" /\ g.k = "u" =>
         PartOf(f.data, g.data)

\* Nothing new for the processors that are there.
LEMMA CopyQuiet ==
  ASSUME CopyInv, cut \subseteq cut',
         \A p \in procs' : \/ p.st = "new" /\ \A f \in old' : f.t = p.t => f.k # "t"
                           \/ \E q \in procs : q.t = p.t /\ q.st = p.st /\ q.in = p.in,
         \A f \in old' : f \in old \/ \A p \in procs' : p.t # f.t,
         pc' # "startprocessor" \/ \A f \in old' : f.k # "t",
         \/ pc' # "stoprename"
         \/ pc' = pc /\ fnsave' = fnsave /\ old' \subseteq old
  PROVE  CopyInv'
<1>1. ASSUME NEW p \in procs', NEW f \in old', f.t = p.t
      PROVE  /\ p.st = "new" => f.k # "t"
             /\ p.st = "run" /\ f.k = "u" => f.data = p.in
             /\ p.st = "ok" /\ f.k = "t" =>
                  \A g \in old' : g.t = p.t /\ g.k = "u" => PartOf(f.data, g.data)'
  <2>1. \A g \in old' : g.t = p.t => g \in old
    BY <1>1
  <2>2. CASE p.st = "new" /\ \A g \in old' : g.t = p.t => g.k # "t"
    BY <1>1, <2>2
  <2>3. CASE \E q \in procs : q.t = p.t /\ q.st = p.st /\ q.in = p.in
    <3>1. PICK q \in procs : q.t = p.t /\ q.st = p.st /\ q.in = p.in
      BY <2>3
    <3>2. ASSUME p.st = "ok", f.k = "t", NEW g \in old', g.t = p.t, g.k = "u"
          PROVE  PartOf(f.data, g.data)'
      <4>1. PartOf(f.data, g.data)
        BY <1>1, <2>1, <3>1, <3>2 DEF CopyInv
      <4> QED
        BY <4>1, PartStays DEF PartOf
    <3> QED
      BY <1>1, <2>1, <3>1, <3>2 DEF CopyInv
  <2> QED
    BY <2>2, <2>3
<1>2. ASSUME pc' = "stoprename", NEW f \in old', NEW g \in old', f.t = fnsave', g.t = fnsave',
             f.k = "t", g.k = "u"
      PROVE  PartOf(f.data, g.data)'
  <2>1. PartOf(f.data, g.data)
    BY <1>2 DEF CopyInv
  <2> QED
    BY <2>1, PartStays DEF PartOf
<1> QED
  BY <1>1, <1>2 DEF CopyInv

LEMMA CopyEnded ==
  ASSUME FileTypes, NameInv, CopyInv, old' = old, fnsave' = fnsave, NEW p \in procs, p.t = ppid,
         procs' = procs \ {p}, pc' = "stoprename" => p.st = "ok", pc' # "startprocessor",
         cut' = cut
  PROVE  CopyInv'
<1>1. p.t = fnsave
  <2>1. p.t > 0 /\ p.t \in Nat /\ (ppid # 0 => ppid = fnsave)
    BY DEF NameInv, FileTypes, Proc
  <2> QED
    BY <2>1
<1>2. pc' = "stoprename" =>
        \A f, g \in old : f.t = fnsave /\ g.t = fnsave /\ f.k = "t" /\ g.k = "u" =>
          PartOf(f.data, g.data)
  BY <1>1 DEF CopyInv
<1>3. \A c, d : PartOf(c, d)' <=> PartOf(c, d)
  BY DEF PartOf
<1> QED
  BY <1>2, <1>3 DEF CopyInv

\* A step of the processor p, which becomes q: f may be its output.
LEMMA CopyOutput ==
  ASSUME FileTypes, NameInv, CopyInv, NEW p \in procs, NEW q, q.t = p.t, q.st # "new",
         procs' = (procs \ {p}) \cup {q}, NEW f, f.t = p.t, f.k = "t",
         old' \subseteq old \cup {f}, UNCHANGED <<pc, fnsave>>, cut \subseteq cut',
         \A g \in old' : g.t = p.t /\ q.st = "run" /\ g.k = "u" => g.data = q.in,
         \A g, h \in old' : g.t = p.t /\ h.t = p.t /\ q.st = "ok" /\ g.k = "t" /\ h.k = "u" =>
           PartOf(g.data, h.data)'
  PROVE  CopyInv'
<1>1. \A r \in procs : r.t = p.t => r = p
  BY DEF NameInv
<1>2. ASSUME NEW r \in procs', NEW g \in old', g.t = r.t
      PROVE  /\ r.st = "new" => g.k # "t"
             /\ r.st = "run" /\ g.k = "u" => g.data = r.in
             /\ r.st = "ok" /\ g.k = "t" =>
                  \A h \in old' : h.t = r.t /\ h.k = "u" => PartOf(g.data, h.data)'
  <2>1. CASE r = q
    BY <1>2, <2>1
  <2>2. CASE r # q
    <3>1. r \in procs /\ r.t # p.t
      BY <1>1, <2>2
    <3>2. \A h \in old' : h.t = r.t => h \in old
      BY <3>1
    <3>3. ASSUME r.st = "ok", g.k = "t", NEW h \in old', h.t = r.t, h.k = "u"
          PROVE  PartOf(g.data, h.data)'
      <4>1. PartOf(g.data, h.data)
        BY <1>2, <3>1, <3>2, <3>3 DEF CopyInv
      <4> QED
        BY <4>1, PartStays DEF PartOf
    <3> QED
      BY <1>2, <3>1, <3>2, <3>3 DEF CopyInv
  <2> QED
    BY <2>1, <2>2
<1>3. pc \in {"startprocessor", "stoprename"} => \A g \in old' : g.t = fnsave => g \in old
  <2>1. pc \in {"startprocessor", "stoprename"} => p.t # fnsave
    BY DEF NameInv, Made, Ended
  <2> QED
    BY <2>1
<1>4. pc = "startprocessor" => \A g \in old' : g.t = fnsave => g.k # "t"
  BY <1>3 DEF CopyInv
<1>5. ASSUME pc = "stoprename", NEW g \in old', NEW h \in old', g.t = fnsave, h.t = fnsave,
             g.k = "t", h.k = "u"
      PROVE  PartOf(g.data, h.data)'
  <2>1. PartOf(g.data, h.data)
    BY <1>3, <1>5 DEF CopyInv
  <2> QED
    BY <2>1, PartStays DEF PartOf
<1> QED
  BY <1>2, <1>4, <1>5 DEF CopyInv

LEMMA CopyProcess ==
  ASSUME FileTypes, NameInv, CopyInv, Process, cut \subseteq cut'
  PROVE  CopyInv'
<1>1. PICK p \in procs : ProcessorOpen(p) \/ ProcessorEnd(p) \/ ProcessorKilled(p)
  BY DEF Process
<1>2. UNCHANGED <<pc, fnsave>>
  BY DEF Process, ldir
<1>3. p \in Proc
  BY DEF FileTypes
<1> DEFINE f == Old(p.t, "t", <<>>)
           g == Old(p.t, "t", p.in)
<1>4. f.t = p.t /\ f.k = "t" /\ g.t = p.t /\ g.k = "t" /\ g.data = p.in
  BY DEF Old
<1>5. CASE ProcessorOpen(p)
  <2>1. CASE Of(p.t, "u") = {}
    <3> DEFINE q == [p EXCEPT !.st = "failed"]
    <3>1. procs' = (procs \ {p}) \cup {q} /\ old' = old
      BY <1>5, <2>1 DEF ProcessorOpen
    <3>2. q.t = p.t /\ q.st = "failed"
      BY <1>3 DEF Proc
    <3> HIDE DEF q, f
    <3> QED
      BY <1>2, <1>4, <3>1, <3>2, CopyOutput
  <2>2. CASE Of(p.t, "u") # {}
    <3>1. PICK u \in Of(p.t, "u") :
            /\ procs' = (procs \ {p}) \cup {[p EXCEPT !.st = "run", !.in = u.data]}
            /\ old' = (old \ Of(p.t, "t")) \cup {f}
      BY <1>5, <2>2 DEF ProcessorOpen
    <3> DEFINE q == [p EXCEPT !.st = "run", !.in = u.data]
    <3>2. q.t = p.t /\ q.st = "run" /\ q.in = u.data
      BY <1>3 DEF Proc
    <3>3. procs' = (procs \ {p}) \cup {q}
      BY <3>1
    <3>4. u \in old /\ u.t = p.t /\ u.k = "u" /\ Single(old)
      BY DEF Of, NameInv
    <3> HIDE DEF q, f
    <3>5. \A h \in old' : h.t = p.t /\ h.k = "u" => h.data = q.in
      BY <1>4, <3>1, <3>2, <3>4 DEF Single
    <3>6. old' \subseteq old \cup {f}
      BY <3>1
    <3> QED
      BY <1>2, <1>4, <3>2, <3>3, <3>5, <3>6, CopyOutput
  <2> QED
    BY <2>1, <2>2
<1>6. CASE ProcessorEnd(p)
  <2>1. p.st = "run"
    BY <1>6 DEF ProcessorEnd
  <2>2. \A h \in old : h.t = p.t /\ h.k = "u" => h.data = p.in
    BY <2>1 DEF CopyInv
  <2>3. CASE old' = {IF h \in Of(p.t, "t") THEN g ELSE h : h \in old}
             /\ procs' = (procs \ {p}) \cup {[p EXCEPT !.st = "ok"]}
    <3> DEFINE q == [p EXCEPT !.st = "ok"]
    <3>1. q.t = p.t /\ q.st = "ok"
      BY <1>3 DEF Proc
    <3>2. procs' = (procs \ {p}) \cup {q}
      BY <2>3
    <3> HIDE DEF q, g
    <3>3. \A h \in old' : h = g \/ (h \in old /\ h \notin Of(p.t, "t"))
      BY <2>3
    <3>4. \A h \in old' : h.t = p.t => /\ h.k = "u" => h.data = p.in
                                       /\ h.k = "t" => h.data = p.in
      BY <1>4, <2>2, <3>3 DEF Of
    <3>5. PartOf(p.in, p.in)'
      BY <1>3, LenProperties DEF PartOf, Proc, Text
    <3>6. \A h, i \in old' : h.t = p.t /\ i.t = p.t /\ q.st = "ok" /\ h.k = "t" /\ i.k = "u" =>
            PartOf(h.data, i.data)'
      <4> SUFFICES ASSUME NEW h \in old', NEW i \in old', h.t = p.t, i.t = p.t, h.k = "t", i.k = "u"
                   PROVE  PartOf(h.data, i.data)'
        OBVIOUS
      <4>1. h.data = p.in /\ i.data = p.in
        BY <3>4
      <4> QED
        BY <3>5, <4>1 DEF PartOf
    <3>7. old' \subseteq old \cup {g}
      BY <3>3
    <3> QED
      BY <1>2, <1>4, <3>1, <3>2, <3>6, <3>7, CopyOutput
  <2>4. CASE old' = old /\ procs' = (procs \ {p}) \cup {[p EXCEPT !.st = "failed"]}
    <3> DEFINE q == [p EXCEPT !.st = "failed"]
    <3>1. q.t = p.t /\ q.st = "failed"
      BY <1>3 DEF Proc
    <3>2. procs' = (procs \ {p}) \cup {q}
      BY <2>4
    <3> HIDE DEF q, f
    <3> QED
      BY <1>2, <1>4, <2>4, <3>1, <3>2, CopyOutput
  <2> QED
    BY <1>6, <2>3, <2>4 DEF ProcessorEnd
<1>7. CASE ProcessorKilled(p)
  <2>1. p.st \in {"new", "run"}
    BY <1>3, <1>7, KilledOutput
  <2>2. PICK d \in Text :
          /\ old' = {IF h \in Of(p.t, "t") THEN Old(p.t, "t", d) ELSE h : h \in old}
          /\ Len(d) <= Len(p.in) /\ \A i \in 1 .. Len(d) : d[i] = p.in[i]
          /\ \A i \in 1 .. Len(p.in) : i > Len(d) => p.in[i] \in cut'
    BY <1>3, <1>7, KilledOutput
  <2> DEFINE q == [p EXCEPT !.st = "ok"]
             x == Old(p.t, "t", d)
  <2>3. q.t = p.t /\ q.st = "ok" /\ procs' = (procs \ {p}) \cup {q}
    BY <1>3, <1>7, KilledOutput DEF Proc
  <2>4. x.t = p.t /\ x.k = "t" /\ x.data = d
    BY DEF Old
  <2>5. old' = {IF h \in Of(p.t, "t") THEN x ELSE h : h \in old}
    BY <2>2
  <2> HIDE DEF q, x
  <2>6. \A h \in old' : (h = x /\ Of(p.t, "t") # {}) \/ (h \in old /\ h \notin Of(p.t, "t"))
    BY <2>5
  <2>7. old' \subseteq old \cup {x}
    BY <2>6
  <2>8. ASSUME NEW h \in old', NEW i \in old', h.t = p.t, i.t = p.t, h.k = "t", i.k = "u"
        PROVE  PartOf(h.data, i.data)'
    <3>1. h = x /\ Of(p.t, "t") # {}
      BY <2>6, <2>8 DEF Of
    <3>2. p.st = "run"
      BY <2>1, <3>1 DEF CopyInv, Of
    <3>3. i \in old
      BY <2>4, <2>6, <2>8
    <3>4. i.data = p.in
      BY <2>8, <3>2, <3>3 DEF CopyInv
    <3> QED
      BY <2>2, <2>4, <3>1, <3>4 DEF PartOf
  <2> QED
    BY <1>2, <2>3, <2>4, <2>7, <2>8, CopyOutput
<1> QED
  BY <1>1, <1>5, <1>6, <1>7

LEMMA CopyStep ==
  ASSUME FileTypes, Returns, NameInv, CopyInv, [Next]_vars
  PROVE  CopyInv'
<1>0. cut \subseteq cut'
  BY CutGrows
<1>1. ASSUME \/ OpenOldest \/ OpenCurrent \/ StopUnlink \/ Rotate \/ RotateChmod \/ RotateCreate
             \/ RotateOldest \/ WriteFull \/ Write \/ Line \/ Rest \/ Pread \/ Handle \/ Read
             \/ Exit \/ Send \/ Kill
      PROVE  CopyInv'
  <2>1. procs' = procs /\ old' \subseteq old
    BY <1>1 DEF OpenOldest, OpenCurrent, StopUnlink, Rotate, RotateChmod, RotateCreate,
       RotateOldest, RmOldest, WriteFull, Write, Line, Rest, Pread, Handle, Read, Exit, Send,
       Kill, files
  <2>2. pc' # "stoprename" \/ (pc' = pc /\ fnsave' = fnsave)
    <3>1. CASE OpenOldest \/ OpenCurrent \/ StopUnlink \/ Rotate \/ RotateChmod \/ RotateCreate
               \/ RotateOldest \/ WriteFull \/ Write
      BY <3>1 DEF OpenOldest, OpenCurrent, StopUnlink, Rotate, RotateChmod, RotateCreate,
         RotateOldest, WriteFull, Write, ldir, Returns
    <3>2. CASE Line \/ Rest \/ Pread \/ Handle \/ Read \/ Exit \/ Send \/ Kill
      BY <3>2 DEF Line, Rest, Pread, Handle, Read, Exit, Send, Kill, Eof, Flush, ldir
    <3> QED
      BY <1>1, <3>1, <3>2
  <2>3. pc' # "startprocessor" \/ \A f \in old' : f.k # "t"
    <3>1. CASE RotateOldest
      BY <3>1 DEF RotateOldest, RmOldest
    <3>2. CASE OpenOldest \/ OpenCurrent \/ StopUnlink \/ Rotate \/ RotateChmod \/ RotateCreate
               \/ WriteFull \/ Write
      BY <3>2 DEF OpenOldest, OpenCurrent, StopUnlink, Rotate, RotateChmod, RotateCreate,
         WriteFull, Write, ldir, Returns
    <3>3. CASE Line \/ Rest \/ Pread \/ Handle \/ Read \/ Exit \/ Send \/ Kill
      BY <3>3 DEF Line, Rest, Pread, Handle, Read, Exit, Send, Kill, Eof, Flush, ldir
    <3> QED
      BY <1>1, <3>1, <3>2, <3>3
  <2> QED
    BY <1>0, <2>1, <2>2, <2>3, CopyQuiet
<1>2. ASSUME UNCHANGED vars PROVE CopyInv'
  BY <1>2 DEF vars, CopyInv, PartOf, files, ldir
<1>3. ASSUME Open PROVE CopyInv'
  <2>1. /\ procs' = procs /\ pc' \notin {"stoprename", "startprocessor"}
        /\ old' \subseteq old \cup {Old(now, "u", cur.data)}
    BY <1>3 DEF Open, files
  <2>2. \A p \in procs : p.t # now
    BY DEF NameInv, FileTypes, Proc
  <2>3. \A f \in old' : f \in old \/ \A p \in procs' : p.t # f.t
    BY <2>1, <2>2 DEF Old
  <2> QED
    BY <1>0, <2>1, <2>3, CopyQuiet
<1>4. ASSUME StopRename PROVE CopyInv'
  <2>1. /\ procs' = procs /\ pc' \notin {"stoprename", "startprocessor"}
        /\ \A f \in old' : f \in old \/ f.t = fnsave
    BY <1>4 DEF StopRename, Old
  <2>2. \A p \in procs : p.t # fnsave
    BY <1>4 DEF StopRename, NameInv, Ended
  <2> QED
    BY <1>0, <2>1, <2>2, CopyQuiet
<1>5. ASSUME RotateRename PROVE CopyInv'
  <2>1. /\ procs' = procs /\ pc' \notin {"stoprename", "startprocessor"}
        /\ \A f \in old' : f \in old \/ f.t = fnsave
    BY <1>5 DEF RotateRename, Old
  <2>2. \A p \in procs : p.t # fnsave
    BY <1>5 DEF RotateRename, NameInv, New
  <2> QED
    BY <1>0, <2>1, <2>2, CopyQuiet
<1>6. ASSUME StopFailed \/ RotateStart PROVE CopyInv'
  <2>1. /\ procs' = procs \cup Started(fnsave) /\ old' \subseteq old
        /\ pc' \notin {"stoprename", "startprocessor"}
    BY <1>6 DEF StopFailed, RotateStart, files, Returns
  <2>2. \A p \in Started(fnsave) : p.st = "new" /\ p.t = fnsave
    BY DEF Started
  <2>3. \A f \in old' : f.t = fnsave => f.k # "t"
    <3>1. CASE StopFailed
      BY <3>1 DEF StopFailed, Of
    <3>2. CASE RotateStart
      BY <3>2 DEF RotateStart, CopyInv, files
    <3> QED
      BY <1>6, <3>1, <3>2
  <2> QED
    BY <1>0, <2>1, <2>2, <2>3, CopyQuiet
<1>7. ASSUME StopWait \/ HandleChild PROVE CopyInv'
  <2>1. UNCHANGED <<old, fnsave, cut>> /\ pc' # "startprocessor"
    BY <1>7 DEF StopWait, HandleChild, files
  <2>2. CASE \E p \in procs : /\ p.t = ppid /\ procs' = procs \ {p}
                              /\ pc' = "stoprename" => p.st = "ok"
    BY <2>1, <2>2, CopyEnded
  <2>3. CASE procs' \subseteq procs /\ pc' = pc
    BY <2>1, <2>3, CopyQuiet
  <2> QED
    BY <1>7, <2>2, <2>3 DEF StopWait, HandleChild, Zombies
<1>8. ASSUME Restart PROVE CopyInv'
  <2>1. /\ old' = old /\ pc' \notin {"stoprename", "startprocessor"}
        /\ procs' = {[p EXCEPT !.kid = FALSE] : p \in procs}
    BY <1>8 DEF Restart, files
  <2>2. \A p \in procs' : \E q \in procs : q.t = p.t /\ q.st = p.st /\ q.in = p.in
    BY <2>1 DEF FileTypes, Proc
  <2> QED
    BY <1>0, <2>1, <2>2, CopyQuiet
<1> QED
  BY <1>0, <1>1, <1>2, <1>3, <1>4, <1>5, <1>6, <1>7, <1>8, CopyProcess
     DEF Next, Step, Stopping, Rotating

-----------------------------------------------------------------------------
(* What a step does to the log                                             *)

\* Nothing but that more is known to be lost.
Still ==
  /\ Saved(old') = Saved(old) /\ cur'.data = cur.data /\ b' = b
  /\ Hi' = Hi /\ Top' = Top /\ lost \subseteq lost'

\* What lines are made of is put into the buffer, or passed over.
Puts(bytes) ==
  /\ bytes \in Text /\ Rising(bytes) /\ Put(bytes)
  /\ \A k \in 1 .. Len(bytes) : Top < bytes[k] /\ bytes[k] <= Top'
  /\ \A u \in (Hi + 1) .. Hi' : Clear(start, u - 1) /\ \E k \in 1 .. Len(bytes) : bytes[k] = u
  /\ UNCHANGED <<lost, cur, old>>

\* The line that has begun is dropped.
Drops ==
  /\ b' = b /\ UNCHANGED <<cur, old>> /\ lost \subseteq lost'
  /\ \A u \in (Hi + 1) .. Hi' : u \in lost'

\* Steps that touch neither the texts nor what has been taken.
LEMMA StillSteps ==
  ASSUME FileTypes,
         \/ OpenCurrent \/ StopWait \/ StopFailed \/ Rotate \/ RotateChmod \/ RotateStart
         \/ Handle \/ HandleChild \/ Exit \/ Send \/ Kill \/ Process \/ UNCHANGED vars
  PROVE  Still
<1>1. UNCHANGED <<rd, at, start, long, b>> /\ lost \subseteq lost'
  BY DEF OpenCurrent, StopWait, StopFailed, Rotate, RotateChmod, RotateStart, Handle,
     HandleChild, Exit, Send, Kill, Process, vars, input
<1>2. Saved(old') = Saved(old)
  <2>1. CASE StopFailed
    BY <2>1 DEF StopFailed, Saved, Of
  <2>2. CASE Process
    BY <2>2, ProcessSaved
  <2>3. CASE \/ OpenCurrent \/ StopWait \/ Rotate \/ RotateChmod \/ RotateStart
             \/ Handle \/ HandleChild \/ Exit \/ Send \/ Kill \/ UNCHANGED vars
    <3>1. old' = old
      BY <2>3 DEF OpenCurrent, StopWait, Rotate, RotateChmod, RotateStart, Handle, HandleChild,
         Exit, Send, Kill, vars, files
    <3> QED
      BY <3>1
  <2> QED
    BY <2>1, <2>2, <2>3
<1>3. cur'.data = cur.data
  <2>1. [cur EXCEPT !.x = TRUE].data = cur.data
    BY DEF FileTypes
  <2>2. CASE OpenCurrent
    <3>1. cur' = [on |-> TRUE, data |-> cur.data, x |-> FALSE]
      BY <2>2 DEF OpenCurrent
    <3> QED
      BY <3>1
  <2>3. CASE cur' \in {cur, [cur EXCEPT !.x = TRUE]}
    BY <2>1, <2>3
  <2> QED
    BY <2>2, <2>3 DEF StopWait, StopFailed, Rotate, RotateChmod, RotateStart, Handle,
       HandleChild, Exit, Send, Kill, Process, vars, files
<1>4. Hi' = Hi
  BY <1>1 DEF Hi
<1>5. Top' = Top
  BY <1>1, <1>4 DEF Top
<1> QED
  BY <1>1, <1>2, <1>3, <1>4, <1>5 DEF Still

\* How far the input has been taken, where it is taken.
LEMMA HiFacts ==
  ASSUME InputTypes, StreamInv
  PROVE  /\ Hi \in Nat /\ Top \in Nat /\ start <= Hi /\ Hi <= at /\ start \in Nat /\ at \in Nat
         /\ start < N => Top = Hi
         /\ at <= rd /\ rd <= N /\ rd \in Nat /\ N \in Nat
<1>1. /\ start <= Hi /\ Hi <= at /\ start \in Nat /\ at \in Nat
      /\ at <= rd /\ rd <= N /\ rd \in Nat /\ N \in Nat
  BY Newlines DEF InputTypes, StreamInv, Hi
<1>2. Hi \in Nat /\ Top \in Nat
  BY TopIsNat
<1>3. start < N => Top = Hi
  BY <1>1 DEF Top
<1> QED
  BY <1>1, <1>2, <1>3

LEMMA LineEffect ==
  ASSUME FileTypes, InputTypes, InputTypes', StreamInv, StreamInv', Line
  PROVE  /\ Still \/ Drops \/ \E bytes : Puts(bytes)
         /\ Top' \in Nat /\ Top <= Top'
<1>1. ~ long
  <2>1. Home = "getc"
    BY LineCases DEF Place, Home, Stops, Turns
  <2> QED
    BY <2>1 DEF StreamInv
<1>2. Hi = start
  BY <1>1 DEF Hi
<1>3. UNCHANGED <<rd, cur, old>> /\ lost \subseteq lost'
  BY DEF Line, files
<1>4. Clear(start, at)
  BY DEF StreamInv, Clear
<1>5. CASE /\ at' = rd /\ UNCHANGED <<start, long, b, lost>>
  <2>1. Hi' = Hi /\ Top' = Top
    BY <1>1, <1>5 DEF Hi, Top
  <2> QED
    BY <1>3, <1>5, <2>1, HiFacts DEF Still
<1>6. ASSUME NEW e \in Nat, at < e, e <= rd, Clear(at, e - 1), at' = e,
             \/ e = rd /\ start' = e /\ UNCHANGED <<long, b>> /\ lost' = lost \cup (start + 1) .. e
             \/ start' = e /\ UNCHANGED <<long, lost>> /\ Put(Upto(start, e))
             \/ long' = TRUE /\ UNCHANGED <<start, lost>> /\ Put(Upto(start, e))
      PROVE  /\ Drops \/ \E bytes : Puts(bytes)
             /\ Top' \in Nat /\ Top <= Top'
  <2>1. Hi' = e
    BY <1>1, <1>6 DEF Hi
  <2>2. start < e /\ start < N /\ Top = start
    BY <1>1, <1>6, HiFacts DEF Hi
  <2>3. Top' \in Nat /\ e <= Top' /\ Top <= Top'
    <3>1. Top' \in Nat /\ (Top' = e \/ Top' = N + 1)
      BY <1>6, <2>1, Newlines DEF Top
    <3>2. e <= N
      BY <1>6, HiFacts
    <3> QED
      BY <2>2, <3>1, <3>2, HiFacts
  <2>4. CASE e = rd /\ start' = e /\ UNCHANGED <<long, b>> /\ lost' = lost \cup (start + 1) .. e
    <3>1. Drops
      BY <1>2, <1>3, <2>1, <2>4 DEF Drops
    <3> QED
      BY <2>3, <3>1
  <2>5. CASE lost' = lost /\ Put(Upto(start, e))
    <3> DEFINE bytes == Upto(start, e)
    <3>1. start \in Nat /\ start <= e
      BY <2>2, HiFacts
    <3>2. /\ bytes \in Text /\ Rising(bytes)
          /\ \A k \in 1 .. Len(bytes) : start < bytes[k] /\ bytes[k] <= e
          /\ \A u \in (start + 1) .. e : \E k \in 1 .. Len(bytes) : bytes[k] = u
      BY <3>1, UptoText
    <3>3. \A u \in (start + 1) .. e : Clear(start, u - 1)
      BY <1>4, <1>6, <3>1, HiFacts, Newlines DEF Clear
    <3>4. Put(bytes)
      BY <2>5
    <3> HIDE DEF bytes
    <3>5. \A k \in 1 .. Len(bytes) : Top < bytes[k] /\ bytes[k] <= Top'
      BY <2>2, <2>3, <3>2, ElementIsNat
    <3>6. Puts(bytes)
      BY <1>2, <1>3, <2>1, <2>5, <3>2, <3>3, <3>4, <3>5 DEF Puts
    <3> QED
      BY <2>3, <3>6
  <2> QED
    BY <1>6, <2>4, <2>5
<1> QED
  BY <1>5, <1>6, LineCases

LEMMA RestEffect ==
  ASSUME FileTypes, InputTypes, InputTypes', StreamInv, StreamInv', Rest
  PROVE  /\ \E bytes : Puts(bytes)
         /\ Top' \in Nat /\ Top <= Top'
<1>1. long /\ start < at
  <2>1. Home = "rest"
    BY RestCases DEF Place, Home, Stops, Turns
  <2> QED
    BY <2>1 DEF StreamInv
<1>2. Hi = at /\ start < N /\ Top = at
  BY <1>1, HiFacts DEF Hi
<1>3. UNCHANGED <<rd, cur, old, lost>>
  BY DEF Rest, files
<1>4. Clear(start, at)
  BY DEF StreamInv, Clear
<1>5. ASSUME NEW e \in Nat, at <= e, e <= rd, Clear(at, e - 1), Hi' = e, Put(Upto(at, e)),
             at' = e
      PROVE  /\ \E bytes : Puts(bytes)
             /\ Top' \in Nat /\ Top <= Top'
  <2>1. Top' \in Nat /\ e <= Top' /\ Top <= Top'
    <3>1. Top' \in Nat /\ (Top' = e \/ Top' = N + 1)
      BY <1>5, Newlines DEF Top
    <3>2. e <= N
      BY <1>5, HiFacts
    <3> QED
      BY <1>2, <1>5, <3>1, <3>2, HiFacts
  <2> DEFINE bytes == Upto(at, e)
  <2>2. /\ bytes \in Text /\ Rising(bytes)
        /\ \A k \in 1 .. Len(bytes) : at < bytes[k] /\ bytes[k] <= e
        /\ \A u \in (at + 1) .. e : \E k \in 1 .. Len(bytes) : bytes[k] = u
    BY <1>5, HiFacts, UptoText
  <2>3. \A u \in (at + 1) .. e : Clear(start, u - 1)
    BY <1>4, <1>5, HiFacts, Newlines DEF Clear
  <2>4. Put(bytes)
    BY <1>5
  <2> HIDE DEF bytes
  <2>5. \A k \in 1 .. Len(bytes) : Top < bytes[k] /\ bytes[k] <= Top'
    BY <1>2, <1>5, <2>1, <2>2, ElementIsNat
  <2>6. Puts(bytes)
    BY <1>2, <1>3, <1>5, <2>2, <2>3, <2>4, <2>5 DEF Puts
  <2> QED
    BY <2>1, <2>6
<1>6. CASE /\ at' = rd /\ UNCHANGED <<start, long>> /\ Put(Upto(at, rd)) /\ Clear(at, rd)
  <2>1. Hi' = rd
    BY <1>1, <1>6 DEF Hi
  <2>2. Clear(at, rd - 1) /\ rd \in Nat /\ at <= rd
    BY <1>6, Newlines DEF Clear, InputTypes
  <2> QED
    BY <1>5, <1>6, <2>1, <2>2
<1>7. ASSUME NEW e \in NL, at < e, e <= rd, Clear(at, e - 1), at' = e, start' = e,
             long' = FALSE, Put(Upto(at, e))
      PROVE  /\ \E bytes : Puts(bytes)
             /\ Top' \in Nat /\ Top <= Top'
  <2>1. Hi' = e /\ e \in Nat /\ at <= e
    BY <1>7, HiFacts, Newlines DEF Hi
  <2> QED
    BY <1>5, <1>7, <2>1
<1> QED
  BY <1>6, <1>7, RestCases

LEMMA EofEffect ==
  ASSUME InputTypes, InputTypes', StreamInv, StreamInv', Eof, at = rd, linecomplete \/ rd = N,
         UNCHANGED <<rd, at, cur, old>>
  PROVE  /\ Drops \/ \E bytes : Puts(bytes)
         /\ Top' \in Nat /\ Top <= Top'
<1>1. start' = at /\ Hi' = at /\ N \in Nat
  BY Newlines DEF Eof, Hi
<1>2. Top' \in Nat /\ Top <= Top'
  <2>1. Hi <= Hi' /\ start <= start'
    BY <1>1, HiFacts
  <2> QED
    BY <2>1, TopGrows DEF InputTypes
<1>3. CASE long
  <2>1. rd = N /\ start < at /\ Hi = at
    BY <1>3, LongOpen DEF StreamInv, Hi
  <2>2. Put(<<N + 1>>) /\ lost' = lost
    BY <1>3 DEF Eof
  <2>3. Top = N /\ Top' = N + 1
    BY <1>1, <2>1, HiFacts DEF Top
  <2> DEFINE bytes == <<N + 1>>
  <2>4. bytes \in Text /\ Len(bytes) = 1 /\ bytes[1] = N + 1
    BY <1>1 DEF Text
  <2>5. Put(bytes)
    BY <2>2
  <2> HIDE DEF bytes
  <2>6. Rising(bytes)
    BY <2>4 DEF Rising
  <2>7. \A k \in 1 .. Len(bytes) : Top < bytes[k] /\ bytes[k] <= Top'
    <3>1. \A k \in 1 .. Len(bytes) : bytes[k] = N + 1
      BY <2>4
    <3> QED
      BY <1>1, <2>3, <3>1
  <2>8. (Hi + 1) .. Hi' = {}
    BY <1>1, <2>1, HiFacts
  <2>9. Puts(bytes)
    BY <2>2, <2>4, <2>5, <2>6, <2>7, <2>8 DEF Puts
  <2> QED
    BY <1>2, <2>9
<1>4. CASE ~ long
  <2>1. b' = b /\ lost' = lost \cup (start + 1) .. at /\ Hi = start
    BY <1>4 DEF Eof, Hi
  <2>2. Drops
    BY <1>1, <2>1 DEF Drops
  <2> QED
    BY <1>2, <2>2
<1> QED
  BY <1>3, <1>4

LEMMA ReadEffect ==
  ASSUME FileTypes, InputTypes, InputTypes', StreamInv, StreamInv', Pread \/ Read
  PROVE  /\ Still \/ Drops \/ \E bytes : Puts(bytes)
         /\ Top' \in Nat /\ Top <= Top'
<1>1. at = rd
  BY PreadCases, ReadCases, AllTaken
<1>2. CASE Eof /\ (linecomplete \/ rd = N) /\ UNCHANGED <<rd, at, cur, old>>
  BY <1>1, <1>2, EofEffect
<1>3. CASE /\ UNCHANGED <<start, long, b, lost, at, old>>
           /\ cur' \in {cur, [cur EXCEPT !.x = TRUE]}
  <2>1. cur'.data = cur.data
    BY <1>3 DEF FileTypes
  <2>2. Hi' = Hi /\ Top' = Top
    BY <1>3 DEF Hi, Top
  <2> QED
    BY <1>3, <2>1, <2>2, HiFacts DEF Still
<1> QED
  BY <1>2, <1>3, PreadCases, ReadCases

\* The names of the old files that are there stay below the name of the next one.
LEMMA TextStep ==
  ASSUME FileTypes, InputTypes, InputTypes', Returns, NameInv, StreamInv, StreamInv', CopyInv,
         TextInv, [Next]_vars
  PROVE  TextInv'
<1>1. b \in Text /\ Top \in Nat
  BY TopIsNat DEF InputTypes
<1>0. cut \subseteq cut'
  BY CutGrows
<1>2. ASSUME Still, pc' # "create" PROVE TextInv'
  BY <1>0, <1>1, <1>2, TextQuiet DEF Still
<1>3. ASSUME \/ OpenCurrent \/ StopWait \/ StopFailed \/ Rotate \/ RotateChmod \/ RotateStart
             \/ Handle \/ HandleChild \/ Exit \/ Send \/ Kill
      PROVE  TextInv'
  <2>1. pc' # "create"
    BY <1>3 DEF OpenCurrent, StopWait, StopFailed, Rotate, RotateChmod, RotateStart, Handle,
       HandleChild, Exit, Send, Kill, Returns
  <2> QED
    BY <1>2, <1>3, <2>1, StillSteps
<1>4. ASSUME Process \/ UNCHANGED vars PROVE TextInv'
  <2>1. pc' = pc
    BY <1>4 DEF Process, vars
  <2>2. Still
    BY <1>4, StillSteps
  <2>3. pc' = "create" => cur.data = <<>>
    BY <2>1 DEF TextInv
  <2> QED
    BY <1>0, <1>1, <2>2, <2>3, TextQuiet DEF Still
<1>5. ASSUME OpenOldest \/ RotateOldest \/ WriteFull \/ StopUnlink PROVE TextInv'
  <2>1. UNCHANGED <<cur, b, rd, at, start, long>> /\ pc' # "create"
    BY <1>5 DEF OpenOldest, RotateOldest, WriteFull, StopUnlink, Returns, input
  <2>2. old' \subseteq old
    BY <1>5 DEF OpenOldest, RotateOldest, WriteFull, StopUnlink, RmOldest
  <2>3. Top' = Top
    BY <2>1 DEF Top, Hi
  <2> QED
    BY <1>0, <1>1, <2>1, <2>2, <2>3, TextQuiet DEF Saved
<1>6. ASSUME RotateCreate PROVE TextInv'
  <2>1. UNCHANGED <<old, b, rd, at, start, long>> /\ pc' # "create" /\ pc = "create"
        /\ cur'.data = <<>>
    BY <1>6 DEF RotateCreate, Empty, input
  <2>2. cur'.data = cur.data
    BY <2>1 DEF TextInv
  <2>3. Top' = Top
    BY <2>1 DEF Top, Hi
  <2> QED
    BY <1>0, <1>1, <2>1, <2>2, <2>3, TextQuiet
<1>7. ASSUME Open PROVE TextInv'
  <2>1. UNCHANGED <<b, rd, at, start, long>> /\ pc' # "create"
    BY <1>7 DEF Open, input
  <2>2. Top' = Top
    BY <2>1 DEF Top, Hi
  <2>3. CASE cur.data # <<>> /\ ~ cur.x
    <3> DEFINE f == Old(now, "u", cur.data)
    <3>1. old' = old \cup {f} /\ cur'.data = <<>>
      BY <1>7, <2>3 DEF Open, None
    <3>2. f.t = now /\ f.data = cur.data
      BY DEF Old
    <3> HIDE DEF f
    <3>3. now \in Nat /\ \A g \in old : g.t < now
      BY DEF FileTypes, NameInv
    <3> QED
      BY <1>0, <1>1, <2>1, <2>2, <3>1, <3>2, <3>3, TextMoved
  <2>4. CASE ~ (cur.data # <<>> /\ ~ cur.x)
    <3>1. UNCHANGED <<cur, old>>
      BY <1>7, <2>4 DEF Open, files
    <3> QED
      BY <1>0, <1>1, <2>1, <2>2, <3>1, TextQuiet
  <2> QED
    BY <2>3, <2>4
<1>8. ASSUME RotateRename PROVE TextInv'
  <2> DEFINE f == Old(fnsave, IF Processor THEN "u" ELSE "s", cur.data)
  <2>1. /\ UNCHANGED <<b, rd, at, start, long>> /\ old' = old \cup {f} /\ cur'.data = <<>>
        /\ pc = "rename"
    BY <1>8 DEF RotateRename, None, input
  <2>2. f.t = fnsave /\ f.data = cur.data
    BY DEF Old
  <2> HIDE DEF f
  <2>3. fnsave \in Nat /\ \A g \in old : g.t < fnsave
    BY <2>1 DEF FileTypes, NameInv, New
  <2>4. Top' = Top
    BY <2>1 DEF Top, Hi
  <2> QED
    BY <1>0, <1>1, <2>1, <2>2, <2>3, <2>4, TextMoved
<1>9. ASSUME StopRename PROVE TextInv'
  <2>1. /\ UNCHANGED <<cur, b, rd, at, start, long>> /\ pc = "stoprename" /\ pc' # "create"
    BY <1>9 DEF StopRename, input
  <2>2. PICK g \in Of(fnsave, "t") : old' = (old \ {g}) \cup {Old(fnsave, "s", g.data)}
    BY <1>9 DEF StopRename
  <2> DEFINE f == Old(fnsave, "s", g.data)
  <2>3. old' \subseteq old \cup {f}
    BY <2>2
  <2>4. f.t = fnsave /\ f.data = g.data /\ f.k = "s"
    BY DEF Old
  <2> HIDE DEF f
  <2>5. g \in old /\ g.t = fnsave /\ g.k = "t"
    BY DEF Of
  <2>6. PICK u \in old : u.t = fnsave /\ u.k = "u"
    BY <2>1, <2>5 DEF NameInv, Ended, Sourced
  <2>7. PartOf(f.data, u.data) /\ u \in Saved(old)
    BY <2>1, <2>4, <2>5, <2>6 DEF CopyInv, Saved
  <2>9. f.data \in Text /\ Single(old)
    BY <2>4, <2>5 DEF FileTypes, File, NameInv
  <2>8. Top' = Top
    BY <2>1 DEF Top, Hi
  <2> QED
    BY <1>0, <1>1, <2>1, <2>3, <2>4, <2>6, <2>7, <2>8, <2>9, TextCopied
<1>10. ASSUME Write PROVE TextInv'
  <2>1. UNCHANGED <<old, rd, at, start, long>> /\ pc' # "create"
    BY <1>10 DEF Write, input, Returns
  <2>2. Top' = Top
    BY <2>1 DEF Top, Hi
  <2>3. CASE b = <<>> \/ (SizeMax > 0 /\ size >= SizeMax)
    <3>1. UNCHANGED <<cur, b>>
      BY <1>10, <2>3 DEF Write
    <3> QED
      BY <1>0, <1>1, <2>1, <2>2, <3>1, TextQuiet
  <2>4. CASE b # <<>> /\ ~ (SizeMax > 0 /\ size >= SizeMax)
    <3>1. WriteLen \in 1 .. Len(b)
      BY <1>1, <2>4, WriteLenFacts DEF FileTypes
    <3>2. /\ cur' = [cur EXCEPT !.data = @ \o SubSeq(b, 1, WriteLen)]
          /\ b' = SubSeq(b, WriteLen + 1, Len(b))
      BY <1>10, <2>4 DEF Write
    <3> QED
      BY <1>0, <1>1, <2>1, <2>2, <3>1, <3>2, TextWritten
  <2> QED
    BY <2>3, <2>4
<1>11. ASSUME Line \/ Rest \/ Pread \/ Read PROVE TextInv'
  <2>1. Top' \in Nat /\ Top <= Top' /\ (Still \/ Drops \/ \E bytes : Puts(bytes))
    BY <1>11, LineEffect, RestEffect, ReadEffect
  <2>2. pc' # "create"
    BY <1>11 DEF Line, Rest, Pread, Read, Eof, Flush
  <2>3. CASE \E bytes : Puts(bytes)
    <3>1. PICK bytes : Puts(bytes)
      BY <2>3
    <3> QED
      BY <1>0, <1>1, <2>1, <2>2, <3>1, TextPut DEF Puts
  <2>4. CASE Drops
    BY <1>0, <1>1, <2>1, <2>2, <2>4, TextQuiet DEF Drops
  <2> QED
    BY <1>2, <2>1, <2>2, <2>3, <2>4
<1>12. ASSUME Restart PROVE TextInv'
  <2>1. UNCHANGED <<cur, old>> /\ b' = <<>> /\ pc' # "create"
        /\ rd' = rd /\ start' = rd /\ at' = rd
    BY <1>12 DEF Restart, files
  <2>2. Top' \in Nat /\ Top <= Top'
    <3>1. Hi' = rd
      BY <2>1 DEF Hi
    <3>2. rd <= rd' /\ start <= start' /\ Hi <= Hi'
      BY <2>1, <3>1, HiFacts
    <3> QED
      BY <3>2, TopGrows
  <2> QED
    BY <1>0, <1>1, <2>1, <2>2, TextQuiet
<1> QED
  BY <1>3, <1>4, <1>5, <1>6, <1>7, <1>8, <1>9, <1>10, <1>11, <1>12 DEF Next, Step, Stopping, Rotating

-----------------------------------------------------------------------------
(* Nothing is missing                                                      *)

In(u, d) == \E i \in 1 .. Len(d) : d[i] = u

Has(u) == In(u, cur.data) \/ \E f \in Saved(old) : In(u, f.data)
There(u) == Has(u) \/ In(u, b)

\* The last is for the oldest files, which were removed.
Accounted(u) == There(u) \/ u \in lost \cup cut \/ Deselected(u) \/ \A v : There(v) => u < v

KeptInv ==
  /\ \A u \in 1 .. Hi : Accounted(u)
  /\ pc = "killed" => InMemory \subseteq lost
  /\ pc = "stopunlink" => \E f \in Saved(old) : f.t = fnsave /\ f.k = "s"

LEMMA InPart ==
  ASSUME NEW c, NEW d, \A i \in 1 .. Len(c) : \E j \in 1 .. Len(d) : c[i] = d[j]
  PROVE  \A u : In(u, c) => In(u, d)
<1>1. ASSUME NEW u, In(u, c) PROVE In(u, d)
  <2>1. PICK i \in 1 .. Len(c) : c[i] = u
    BY <1>1 DEF In
  <2>2. PICK j \in 1 .. Len(d) : c[i] = d[j]
    BY <2>1
  <2> QED
    BY <2>1, <2>2 DEF In
<1> QED
  BY <1>1

\* What is in d is in c or e.
LEMMA InParts ==
  ASSUME NEW c, NEW d, NEW e,
         \A i \in 1 .. Len(d) : \/ \E j \in 1 .. Len(c) : d[i] = c[j]
                                \/ \E j \in 1 .. Len(e) : d[i] = e[j]
  PROVE  \A u : In(u, d) => In(u, c) \/ In(u, e)
<1>1. ASSUME NEW u, In(u, d) PROVE In(u, c) \/ In(u, e)
  <2>1. PICK i \in 1 .. Len(d) : d[i] = u
    BY <1>1 DEF In
  <2> QED
    BY <2>1 DEF In
<1> QED
  BY <1>1

LEMMA InConcat ==
  ASSUME NEW c \in Text, NEW d \in Text
  PROVE  \A u : In(u, c \o d) <=> In(u, c) \/ In(u, d)
<1> DEFINE w == c \o d
<1>1. /\ \A i \in 1 .. Len(w) :
           (\E j \in 1 .. Len(c) : w[i] = c[j]) \/ (\E j \in 1 .. Len(d) : w[i] = d[j])
      /\ \A j \in 1 .. Len(c) : \E i \in 1 .. Len(w) : w[i] = c[j]
      /\ \A j \in 1 .. Len(d) : \E i \in 1 .. Len(w) : w[i] = d[j]
  BY ConcatTexts
<1> HIDE DEF w
<1>2. \A j \in 1 .. Len(c) : \E i \in 1 .. Len(w) : c[j] = w[i]
  BY <1>1
<1>3. \A j \in 1 .. Len(d) : \E i \in 1 .. Len(w) : d[j] = w[i]
  BY <1>1
<1>4. \A u : In(u, w) <=> In(u, c) \/ In(u, d)
  BY <1>1, <1>2, <1>3, InPart, InParts
<1> QED
  BY <1>4 DEF w

LEMMA InCut ==
  ASSUME NEW d \in Text, NEW n \in 1 .. Len(d)
  PROVE  \A u : In(u, d) <=> In(u, SubSeq(d, 1, n)) \/ In(u, SubSeq(d, n + 1, Len(d)))
<1> DEFINE h == SubSeq(d, 1, n)
           t == SubSeq(d, n + 1, Len(d))
<1>1. /\ \A i \in 1 .. Len(h) : \E j \in 1 .. Len(d) : h[i] = d[j]
      /\ \A i \in 1 .. Len(t) : \E j \in 1 .. Len(d) : t[i] = d[j]
      /\ \A j \in 1 .. Len(d) : \/ \E i \in 1 .. Len(h) : d[j] = h[i]
                                \/ \E i \in 1 .. Len(t) : d[j] = t[i]
  BY CutText
<1> HIDE DEF h, t
<1>2. \A u : In(u, d) <=> In(u, h) \/ In(u, t)
  BY <1>1, InPart, InParts
<1> QED
  BY <1>2 DEF h, t

LEMMA InEmpty == \A u : ~ In(u, <<>>)
BY DEF In

LEMMA PartIn ==
  ASSUME NEW c \in Text, NEW d \in Text, PartOf(c, d)
  PROVE  \A u : (In(u, c) => In(u, d)) /\ (In(u, d) => In(u, c) \/ u \in cut)
<1>1. Len(c) \in Nat /\ Len(d) \in Nat
  BY ElementIsNat
<1>2. ASSUME NEW u, In(u, c) PROVE In(u, d)
  <2>1. PICK i \in 1 .. Len(c) : c[i] = u
    BY <1>2 DEF In
  <2>2. i \in 1 .. Len(d) /\ d[i] = u
    BY <1>1, <2>1 DEF PartOf
  <2> QED
    BY <2>2 DEF In
<1>3. ASSUME NEW u, In(u, d) PROVE In(u, c) \/ u \in cut
  <2>1. PICK i \in 1 .. Len(d) : d[i] = u
    BY <1>3 DEF In
  <2>2. CASE i > Len(c)
    BY <2>1, <2>2 DEF PartOf
  <2>3. CASE ~ (i > Len(c))
    <3>1. i \in 1 .. Len(c)
      BY <1>1, <2>3
    <3>2. c[i] = u
      BY <2>1, <3>1 DEF PartOf
    <3> QED
      BY <3>1, <3>2 DEF In
  <2> QED
    BY <2>2, <2>3
<1> QED
  BY <1>2, <1>3

\* The texts hold what they held, but for what was not written.
LEMMA AccountedSame ==
  ASSUME \A u \in 1 .. Hi : Accounted(u), Hi' = Hi, lost \subseteq lost', cut \subseteq cut',
         \A v : (There(v)' => There(v)) /\ (There(v) => There(v)' \/ v \in cut)
  PROVE  \A u \in 1 .. Hi' : Accounted(u)'
<1>1. ASSUME NEW u \in 1 .. Hi' PROVE Accounted(u)'
  <2>1. Accounted(u)
    BY <1>1
  <2>2. CASE There(u) \/ u \in lost \cup cut
    BY <2>2 DEF Accounted
  <2>3. CASE Deselected(u)
    BY <2>3 DEF Accounted, Deselected
  <2>4. CASE \A v : There(v) => u < v
    BY <2>4 DEF Accounted
  <2> QED
    BY <2>1, <2>2, <2>3, <2>4 DEF Accounted
<1> QED
  BY <1>1

\* Whatever is in a file that goes is in another one, or older than all there is.
LEMMA AccountedRemoved ==
  ASSUME FileTypes, TextInv, \A u \in 1 .. Hi : Accounted(u), Hi' = Hi, lost' = lost,
         Single(old), cut \subseteq cut',
         NEW x \in Saved(old), Saved(old') = Saved(old) \ {x},
         \A g \in Saved(old) \ {x} : x.t <= g.t, cur'.data = cur.data, b' = b
  PROVE  \A u \in 1 .. Hi' : Accounted(u)'
<1>1. \A v : There(v)' => There(v)
  BY DEF There, Has
<1>2. ASSUME NEW u \in 1 .. Hi' PROVE Accounted(u)'
  <2>1. Accounted(u)
    BY <1>2
  <2>2. CASE u \in lost \cup cut \/ There(u)'
    BY <2>2 DEF Accounted
  <2>3. CASE Deselected(u)
    BY <2>3 DEF Accounted, Deselected
  <2>4. CASE \A v : There(v) => u < v
    BY <1>1, <2>4 DEF Accounted
  <2>5. CASE There(u) /\ ~ There(u)' /\ u \notin cut
    <3>1. In(u, x.data)
      BY <2>5 DEF There, Has
    <3>2. ASSUME NEW g \in Saved(old'), NEW v, In(v, g.data) PROVE u < v
      <4>1. g \in Saved(old) /\ x.t <= g.t /\ g.t \in Nat /\ x.t \in Nat
        BY <3>2, DataIsText
      <4>2. g.t # x.t
        <5> SUFFICES ASSUME g.t = x.t PROVE FALSE
          OBVIOUS
        <5>1. g.k # x.k /\ {g.k, x.k} = {"s", "u"}
          BY <3>2, <4>1 DEF Single, Saved, FileTypes, File
        <5>2. PartOf(g.data, x.data) \/ PartOf(x.data, g.data)
          BY <4>1, <5>1 DEF TextInv
        <5>3. In(u, g.data)
          BY <2>5, <3>1, <4>1, <5>2, PartIn, DataIsText
        <5> QED
          BY <2>5, <3>2, <5>3 DEF There, Has
      <4>3. Below(x.data, g.data)
        BY <4>1, <4>2 DEF TextInv
      <4> QED
        BY <3>1, <3>2, <4>3 DEF Below, In
    <3>3. ASSUME NEW v, In(v, cur.data) \/ In(v, b) PROVE u < v
      <4>1. Below(x.data, cur.data) /\ Below(x.data, b)
        BY DEF TextInv
      <4> QED
        BY <3>1, <3>3, <4>1 DEF Below, In
    <3>4. \A v : There(v)' => u < v
      BY <3>2, <3>3 DEF There, Has
    <3> QED
      BY <3>4 DEF Accounted
  <2> QED
    BY <2>1, <2>2, <2>3, <2>4, <2>5 DEF Accounted
<1> QED
  BY <1>2

LEMMA AccountedPuts ==
  ASSUME InputTypes, InputTypes', StreamInv, NEW bytes, Puts(bytes), \A u \in 1 .. Hi : Accounted(u),
         cut \subseteq cut'
  PROVE  \A u \in 1 .. Hi' : Accounted(u)'
<1>1. /\ bytes \in Text /\ Put(bytes) /\ UNCHANGED <<lost, cur, old>>
      /\ \A k \in 1 .. Len(bytes) : Top < bytes[k]
      /\ \A u \in (Hi + 1) .. Hi' : Clear(start, u - 1) /\ In(u, bytes)
  BY DEF Puts, In
<1>2. /\ start + 1 \in Skip => b' = b
      /\ start + 1 \notin Skip => b' = b \o bytes
  <2>1. b \o <<>> = b
    BY ConcatEmptySeq DEF InputTypes, Text
  <2> QED
    BY <1>1, <2>1 DEF Put
<1>3. \A v : In(v, b \o bytes) <=> In(v, b) \/ In(v, bytes)
  BY <1>1, InConcat DEF InputTypes
<1>4. \A v : In(v, b') => In(v, b) \/ In(v, bytes)
  BY <1>2, <1>3
<1>5. \A v : In(v, b) => In(v, b')
  BY <1>2, <1>3
<1>6. \A v : There(v) => There(v)'
  BY <1>1, <1>5 DEF There, Has
<1>7. \A v : There(v)' => There(v) \/ In(v, bytes)
  BY <1>1, <1>4 DEF There, Has
<1>8. Hi \in Nat /\ Hi' \in Nat /\ Top \in Nat /\ Hi <= Top /\ start \in Nat /\ start <= Hi
  <2>1. Hi \in Nat /\ Hi' \in Nat /\ Top \in Nat /\ start \in Nat /\ start <= Hi /\ Hi <= N /\ N \in Nat
    BY HiFacts, TopIsNat, Newlines DEF InputTypes, Hi
  <2> QED
    BY <2>1 DEF Top
<1>9. ASSUME NEW u \in 1 .. Hi, NEW v, In(v, bytes) PROVE u < v
  <2>1. Top < v /\ v \in Nat
    BY <1>1, <1>9, ElementIsNat DEF In
  <2> QED
    BY <1>8, <2>1
<1>10. ASSUME NEW u \in 1 .. Hi PROVE Accounted(u)'
  <2>1. CASE \A v : There(v) => u < v
    BY <1>7, <1>9, <2>1 DEF Accounted
  <2>2. CASE Deselected(u)
    BY <2>2 DEF Accounted, Deselected
  <2> QED
    BY <1>1, <1>6, <2>1, <2>2 DEF Accounted
<1>11. ASSUME NEW u \in (Hi + 1) .. Hi' PROVE Accounted(u)'
  <2>1. CASE start + 1 \in Skip
    <3>1. Clear(start, u - 1)
      BY <1>1, <1>11
    <3>2. start + 1 <= u /\ u \in Nat
      BY <1>8, <1>11
    <3>3. NL \cap (start + 1) .. (u - 1) = {}
      BY <1>8, <3>1, <3>2, Newlines DEF Clear
    <3>4. Deselected(u)'
      BY <2>1, <3>2, <3>3 DEF Deselected
    <3> QED
      BY <3>4 DEF Accounted
  <2>2. CASE start + 1 \notin Skip
    <3>1. In(u, b')
      BY <1>1, <1>2, <1>3, <1>11, <2>2
    <3> QED
      BY <3>1 DEF Accounted, There
  <2> QED
    BY <2>1, <2>2
<1> QED
  BY <1>8, <1>10, <1>11

LEMMA AccountedDrops ==
  ASSUME InputTypes, InputTypes', StreamInv, Drops, \A u \in 1 .. Hi : Accounted(u),
         cut \subseteq cut'
  PROVE  \A u \in 1 .. Hi' : Accounted(u)'
<1>1. \A v : There(v)' <=> There(v)
  BY DEF Drops, There, Has
<1>2. ASSUME NEW u \in 1 .. Hi PROVE Accounted(u)'
  <2>1. CASE Deselected(u)
    BY <2>1 DEF Accounted, Deselected
  <2> QED
    BY <1>1, <2>1 DEF Accounted, Drops
<1>3. \A u \in (Hi + 1) .. Hi' : Accounted(u)'
  BY DEF Accounted, Drops
<1>4. Hi \in Nat /\ Hi' \in Nat
  BY TopIsNat DEF InputTypes, Hi
<1> QED
  BY <1>2, <1>3, <1>4

\* What was in memory is lost, and what was not is in the directory.
LEMMA AccountedRestart ==
  ASSUME InputTypes, Returns, StreamInv, KeptInv, Restart, cut \subseteq cut'
  PROVE  \A u \in 1 .. Hi' : Accounted(u)'
<1>1. /\ UNCHANGED <<cur, old, lost>> /\ b' = <<>> /\ Hi' = rd /\ pc \in {"done", "killed"}
  BY DEF Restart, files, Hi
<1>2. \A u : Has(u)' <=> Has(u)
  BY <1>1 DEF Has
<1>3. \A u : There(u)' <=> Has(u)
  BY <1>1, <1>2, InEmpty DEF There
<1>4. ASSUME NEW u \in 1 .. Hi, ~ In(u, b) \/ u \in lost PROVE Accounted(u)'
  <2>1. CASE Deselected(u)
    BY <2>1 DEF Accounted, Deselected
  <2>2. CASE \A v : There(v) => u < v
    BY <1>3, <2>2 DEF Accounted, There
  <2> QED
    BY <1>1, <1>3, <1>4, <2>1, <2>2 DEF KeptInv, Accounted, There
<1>5. start \in Nat /\ at \in Nat /\ rd \in Nat /\ start <= at /\ at <= rd
  BY DEF InputTypes
<1>6. CASE pc = "killed"
  <2>1. InMemory \subseteq lost
    BY <1>6 DEF KeptInv
  <2>2. ASSUME NEW u \in 1 .. rd, u > Hi PROVE u \in lost
    <3>1. CASE long
      <4>1. u \in (at + 1) .. rd
        BY <1>5, <2>2, <3>1 DEF Hi
      <4> QED
        BY <2>1, <4>1 DEF InMemory
    <3>2. CASE ~ long
      <4>1. u \in (at + 1) .. rd \/ u \in (start + 1) .. at
        BY <1>5, <2>2, <3>2 DEF Hi
      <4> QED
        BY <2>1, <3>2, <4>1 DEF InMemory
    <3> QED
      BY <3>1, <3>2
  <2>3. \A u : In(u, b) => u \in lost
    <3>1. \A u : In(u, b) => u \in ToSet(b)
      BY LenProperties DEF In, ToSet, InputTypes, Text
    <3> QED
      BY <2>1, <3>1 DEF InMemory
  <2>4. Hi \in Nat
    BY TopIsNat
  <2>5. ASSUME NEW u \in 1 .. rd PROVE Accounted(u)'
    <3>1. CASE u <= Hi
      BY <1>4, <2>3, <2>4, <2>5, <3>1
    <3>2. CASE u > Hi
      BY <1>1, <2>2, <2>5, <3>2 DEF Accounted
    <3> QED
      BY <2>4, <2>5, <3>1, <3>2
  <2> QED
    BY <1>1, <2>5
<1>7. CASE pc = "done"
  <2>1. Place = "done" /\ Home = "done"
    BY <1>7 DEF Place, Home, Stops, Turns
  <2>2. start = rd /\ at = rd /\ b = <<>>
    BY <2>1 DEF StreamInv
  <2>3. Hi = rd
    BY <2>2 DEF Hi
  <2> QED
    BY <1>1, <1>4, <2>2, <2>3, InEmpty
<1> QED
  BY <1>1, <1>6, <1>7

\* rmoldest takes the oldest, if there are too many.
LEMMA RmOldestOldest ==
  ASSUME FileTypes, NameInv, old' = RmOldest(old)
  PROVE  \/ Saved(old') = Saved(old)
         \/ /\ NMax > 0 /\ Cardinality(Saved(old)) > NMax
            /\ \E x \in Saved(old) : /\ Saved(old') = Saved(old) \ {x}
                                     /\ \A g \in Saved(old) \ {x} : x.t <= g.t
<1> DEFINE kept == Saved(old)
<1>1. RmOldest(old) = IF NMax > 0 /\ Cardinality(kept) > NMax THEN kept \ {Oldest(kept)} ELSE kept
  BY DEF RmOldest, Saved
<1>2. kept \subseteq old /\ \A fs : fs \subseteq kept => Saved(fs) = fs
  BY DEF Saved
<1>3. kept \subseteq File /\ Single(kept)
  BY <1>2 DEF FileTypes, NameInv, Single
<1>4. CASE NMax > 0 /\ Cardinality(kept) > NMax
  <2>1. kept # {}
    <3>1. NMax \in Nat
      BY SvlogdAssumption
    <3> QED
      BY <1>4, <3>1, FS_EmptySet
  <2> HIDE DEF kept
  <2> DEFINE x == Oldest(kept)
  <2>2. x \in kept /\ \A g \in kept \ {x} : Before(x, g)
    BY <1>3, <2>1, OldestExists
  <2>3. old' = kept \ {x}
    BY <1>1, <1>4
  <2> HIDE DEF x
  <2>4. \A g \in kept \ {x} : x.t <= g.t
    BY <1>3, <2>2 DEF Before, File
  <2>5. Saved(old') = kept \ {x}
    BY <1>2, <2>3
  <2> QED
    BY <1>4, <2>2, <2>4, <2>5 DEF kept
<1>5. CASE ~ (NMax > 0 /\ Cardinality(kept) > NMax)
  BY <1>1, <1>2, <1>5
<1> QED
  BY <1>4, <1>5

\* And so does the removal at a full disk.
LEMMA WriteFullOldest ==
  ASSUME FileTypes, NameInv, WriteFull
  PROVE  \/ Saved(old') = Saved(old)
         \/ /\ NMax > 0 /\ Cardinality(old) > NMin
            /\ \E x \in Saved(old) : /\ Saved(old') = Saved(old) \ {x}
                                     /\ \A g \in Saved(old) \ {x} : x.t <= g.t
<1>1. CASE NMin < NMax /\ Cardinality(old) > NMin
  <2>1. NMin \in Nat /\ NMax \in Nat /\ NMax > 0
    BY <1>1, SvlogdAssumption
  <2>2. old # {} /\ old \subseteq File /\ Single(old)
    BY <1>1, <2>1, FS_EmptySet DEF FileTypes, NameInv
  <2> DEFINE x == Oldest(old)
  <2>3. x \in old /\ \A g \in old \ {x} : Before(x, g)
    BY <2>2, OldestExists
  <2>4. old' = old \ {x}
    BY <1>1 DEF WriteFull
  <2> HIDE DEF x
  <2>5. Saved(old') = Saved(old) \ {x}
    BY <2>4 DEF Saved
  <2>6. \A g \in Saved(old) \ {x} : x.t <= g.t
    BY <2>2, <2>3 DEF Before, File, Saved
  <2>7. CASE x \in Saved(old)
    BY <1>1, <2>1, <2>5, <2>6, <2>7
  <2>8. CASE x \notin Saved(old)
    BY <2>5, <2>8
  <2> QED
    BY <2>7, <2>8
<1>2. CASE ~ (NMin < NMax /\ Cardinality(old) > NMin)
  BY <1>2 DEF WriteFull
<1> QED
  BY <1>1, <1>2

\* Steps that leave every byte in a file or in the buffer, but for those that a killed
\* processor had not written.
LEMMA ThereSame ==
  ASSUME FileTypes, InputTypes, Returns, NameInv, StreamInv, CopyInv, TextInv, KeptInv,
         \/ Still \/ Open \/ RotateRename \/ RotateCreate \/ StopRename
         \/ StopUnlink \/ Write
  PROVE  \A v : /\ There(v)' => There(v)
                /\ There(v) => There(v)' \/ v \in cut
                /\ Has(v) => Has(v)' \/ v \in cut
<1>1. CASE Still
  BY <1>1 DEF Still, There, Has
<1>2. CASE RotateCreate
  <2>1. UNCHANGED <<old, b>> /\ pc = "create" /\ cur'.data = <<>>
    BY <1>2 DEF RotateCreate, Empty
  <2>2. cur'.data = cur.data
    BY <2>1 DEF TextInv
  <2> QED
    BY <2>1, <2>2 DEF There, Has
<1>3. ASSUME NEW f, f.data = cur.data, f.k # "t", old' = old \cup {f}, cur'.data = <<>>, b' = b
      PROVE  \A v : (There(v)' <=> There(v)) /\ (Has(v) => Has(v)')
  <2>1. Saved(old') = Saved(old) \cup {f}
    BY <1>3 DEF Saved
  <2>2. \A v : Has(v)' <=> Has(v)
    BY <1>3, <2>1, InEmpty DEF Has
  <2> QED
    BY <1>3, <2>2 DEF There
<1>4. CASE Open
  <2>1. CASE cur.data # <<>> /\ ~ cur.x
    <3> DEFINE f == Old(now, "u", cur.data)
    <3>1. old' = old \cup {f} /\ cur'.data = <<>> /\ b' = b
      BY <1>4, <2>1 DEF Open, None
    <3>2. f.k # "t" /\ f.data = cur.data
      BY DEF Old
    <3> HIDE DEF f
    <3> QED
      BY <1>3, <3>1, <3>2
  <2>2. CASE ~ (cur.data # <<>> /\ ~ cur.x)
    <3>1. UNCHANGED <<cur, old, b>>
      BY <1>4, <2>2 DEF Open, files
    <3> QED
      BY <3>1 DEF There, Has
  <2> QED
    BY <2>1, <2>2
<1>5. CASE RotateRename
  <2> DEFINE f == Old(fnsave, IF Processor THEN "u" ELSE "s", cur.data)
  <2>1. old' = old \cup {f} /\ cur'.data = <<>> /\ b' = b
    BY <1>5 DEF RotateRename, None
  <2>2. f.k # "t" /\ f.data = cur.data
    BY DEF Old
  <2> HIDE DEF f
  <2> QED
    BY <1>3, <2>1, <2>2
<1>6. CASE StopRename
  <2>1. PICK g \in Of(fnsave, "t") : old' = (old \ {g}) \cup {Old(fnsave, "s", g.data)}
    BY <1>6 DEF StopRename
  <2> DEFINE f == Old(fnsave, "s", g.data)
  <2>2. f.data = g.data /\ f.k # "t"
    BY DEF Old
  <2>3. old' = (old \ {g}) \cup {f}
    BY <2>1
  <2> HIDE DEF f
  <2>4. g \in old /\ g.t = fnsave /\ g.k = "t" /\ pc = "stoprename" /\ UNCHANGED <<cur, b>>
    BY <1>6 DEF Of, StopRename
  <2>5. PICK u \in old : u.t = fnsave /\ u.k = "u"
    BY <2>4 DEF NameInv, Ended, Sourced
  <2>6. PartOf(g.data, u.data) /\ u \in Saved(old) /\ g.data \in Text /\ u.data \in Text
    BY <2>4, <2>5 DEF CopyInv, Saved, FileTypes, File
  <2>7. Saved(old') = Saved(old) \cup {f}
    BY <2>2, <2>3, <2>4 DEF Saved
  <2>9. \A v : In(v, f.data) => In(v, u.data)
    BY <2>2, <2>6, PartIn
  <2>8. \A v : Has(v)' <=> Has(v)
    BY <2>4, <2>6, <2>7, <2>9 DEF Has
  <2> QED
    BY <2>4, <2>8 DEF There
<1>7. CASE StopUnlink
  <2>1. pc = "stopunlink" /\ old' = old \ Of(fnsave, "u") /\ UNCHANGED <<cur, b>>
    BY <1>7 DEF StopUnlink
  <2>2. PICK f \in Saved(old) : f.t = fnsave /\ f.k = "s"
    BY <2>1 DEF KeptInv
  <2>3. f \in Saved(old')
    BY <2>1, <2>2 DEF Saved, Of
  <2>4. \A g \in Saved(old) : g \in Saved(old') \/ PartOf(f.data, g.data)
    BY <2>1, <2>2 DEF TextInv, Saved, Of
  <2>7. \A g \in Saved(old) : \A v : In(v, g.data) =>
          g \in Saved(old') \/ In(v, f.data) \/ v \in cut
    BY <2>2, <2>4, PartIn, DataIsText
  <2>5. Saved(old') \subseteq Saved(old)
    BY <2>1 DEF Saved
  <2>6. \A v : (Has(v)' => Has(v)) /\ (Has(v) => Has(v)' \/ v \in cut)
    BY <2>1, <2>3, <2>5, <2>7 DEF Has
  <2> QED
    BY <2>1, <2>6 DEF There
<1>8. CASE Write
  <2>1. CASE b = <<>> \/ (SizeMax > 0 /\ size >= SizeMax)
    <3>1. UNCHANGED <<cur, b, old>>
      BY <1>8, <2>1 DEF Write
    <3> QED
      BY <3>1 DEF There, Has
  <2>2. CASE b # <<>> /\ ~ (SizeMax > 0 /\ size >= SizeMax)
    <3> DEFINE h == SubSeq(b, 1, WriteLen)
               t == SubSeq(b, WriteLen + 1, Len(b))
    <3>1. b \in Text /\ WriteLen \in 1 .. Len(b) /\ h \in Text
      BY <2>2, WriteLenFacts DEF FileTypes, InputTypes
    <3>2. cur' = [cur EXCEPT !.data = cur.data \o h] /\ b' = t /\ old' = old
      BY <1>8, <2>2 DEF Write
    <3>3. \A v : In(v, b) <=> In(v, h) \/ In(v, t)
      BY <3>1, InCut
    <3> HIDE DEF h, t
    <3>4. cur'.data = cur.data \o h
      BY <3>2 DEF FileTypes
    <3>5. \A v : In(v, cur'.data) <=> In(v, cur.data) \/ In(v, h)
      BY <3>1, <3>4, DataIsText, InConcat
    <3>6. \A v : Has(v)' <=> Has(v) \/ In(v, h)
      BY <3>2, <3>5 DEF Has
    <3> QED
      BY <3>2, <3>3, <3>6 DEF There
  <2> QED
    BY <2>1, <2>2
<1> QED
  BY <1>1, <1>2, <1>4, <1>5, <1>6, <1>7, <1>8

LEMMA AccountedStep ==
  ASSUME FileTypes, InputTypes, InputTypes', Returns, NameInv, StreamInv, StreamInv', CopyInv,
         TextInv, KeptInv, [Next]_vars
  PROVE  \A u \in 1 .. Hi' : Accounted(u)'
<1>1. \A u \in 1 .. Hi : Accounted(u)
  BY DEF KeptInv
<1>0. cut \subseteq cut' /\ Single(old)
  BY CutGrows DEF NameInv
<1>2. CASE Still
  BY <1>0, <1>1, <1>2, ThereSame, AccountedSame DEF Still
<1>3. CASE Open \/ RotateRename \/ RotateCreate \/ StopRename \/ StopUnlink \/ Write
  <2>1. UNCHANGED <<lost, at, start, long>>
    BY <1>3 DEF Open, RotateRename, RotateCreate, StopRename, StopUnlink, Write, input
  <2>2. Hi' = Hi
    BY <2>1 DEF Hi
  <2> QED
    BY <1>0, <1>1, <1>3, <2>1, <2>2, ThereSame, AccountedSame
<1>4. CASE OpenOldest \/ RotateOldest \/ WriteFull
  <2>1. UNCHANGED <<cur, b, lost, at, start, long>>
    BY <1>4 DEF OpenOldest, RotateOldest, WriteFull, input
  <2>2. Hi' = Hi
    BY <2>1 DEF Hi
  <2>3. \/ Saved(old') = Saved(old)
        \/ \E x \in Saved(old) : /\ Saved(old') = Saved(old) \ {x}
                                 /\ \A g \in Saved(old) \ {x} : x.t <= g.t
    BY <1>4, RmOldestOldest, WriteFullOldest DEF OpenOldest, RotateOldest
  <2>4. CASE Saved(old') = Saved(old)
    <3>1. \A v : There(v)' <=> There(v)
      BY <2>1, <2>4 DEF There, Has
    <3> QED
      BY <1>0, <1>1, <2>1, <2>2, <3>1, AccountedSame
  <2>5. ASSUME NEW x \in Saved(old), Saved(old') = Saved(old) \ {x},
               \A g \in Saved(old) \ {x} : x.t <= g.t
        PROVE  \A u \in 1 .. Hi' : Accounted(u)'
    BY <1>0, <1>1, <2>1, <2>2, <2>5, AccountedRemoved
  <2> QED
    BY <2>3, <2>4, <2>5
<1>5. CASE Line \/ Rest \/ Pread \/ Read
  <2>1. Still \/ Drops \/ \E bytes : Puts(bytes)
    BY <1>5, LineEffect, RestEffect, ReadEffect
  <2>2. CASE \E bytes : Puts(bytes)
    <3>1. PICK bytes : Puts(bytes)
      BY <2>2
    <3> QED
      BY <1>0, <1>1, <3>1, AccountedPuts
  <2> QED
    BY <1>0, <1>1, <1>2, <2>1, <2>2, AccountedDrops
<1>6. CASE Restart
  BY <1>0, <1>6, AccountedRestart
<1>7. CASE \/ OpenCurrent \/ StopWait \/ StopFailed \/ Rotate \/ RotateChmod \/ RotateStart
           \/ Handle \/ HandleChild \/ Exit \/ Send \/ Kill \/ Process \/ UNCHANGED vars
  BY <1>2, <1>7, StillSteps
<1> QED
  BY <1>3, <1>4, <1>5, <1>6, <1>7 DEF Next, Step, Stopping, Rotating

LEMMA KeptStep ==
  ASSUME FileTypes, InputTypes, InputTypes', Returns, NameInv, StreamInv, StreamInv', CopyInv,
         TextInv, KeptInv, [Next]_vars
  PROVE  KeptInv'
<1>1. ASSUME pc' = "killed" PROVE InMemory' \subseteq lost'
  <2>1. CASE Kill
    BY <2>1 DEF Kill, InMemory, input
  <2>2. CASE Process \/ UNCHANGED vars
    <3>1. UNCHANGED <<input, b, lost, pc>>
      BY <2>2 DEF Process, vars
    <3> QED
      BY <1>1, <3>1 DEF KeptInv, InMemory, input
  <2>3. CASE Step \/ Read \/ WriteFull \/ Send \/ Restart
    <3>1. CASE Stopping \/ Rotating
      BY <1>1, <3>1 DEF Stopping, Rotating, StopWait, StopFailed, StopRename, StopUnlink, Rotate,
         RotateChmod, RotateRename, RotateCreate, RotateOldest, RotateStart, Returns
    <3>2. CASE Open \/ OpenOldest \/ OpenCurrent \/ Write \/ Line \/ Rest \/ Pread \/ Read
      BY <1>1, <3>2 DEF Open, OpenOldest, OpenCurrent, Write, Line, Rest, Pread, Read, Eof,
         Flush, Returns
    <3>3. CASE Handle \/ HandleChild \/ Exit \/ WriteFull \/ Send \/ Restart
      BY <1>1, <3>3 DEF Handle, HandleChild, Exit, WriteFull, Send, Restart
    <3> QED
      BY <2>3, <3>1, <3>2, <3>3 DEF Step
  <2> QED
    BY <2>1, <2>2, <2>3 DEF Next
<1>2. ASSUME pc' = "stopunlink" PROVE \E f \in Saved(old') : f.t = fnsave' /\ f.k = "s"
  <2>1. CASE StopRename
    <3>1. PICK g : Old(fnsave, "s", g.data) \in old'
      BY <2>1 DEF StopRename
    <3> DEFINE f == Old(fnsave, "s", g.data)
    <3>2. f.t = fnsave /\ f.k = "s" /\ f \in old' /\ fnsave' = fnsave
      BY <2>1, <3>1 DEF Old, StopRename, ldir
    <3> HIDE DEF f
    <3> QED
      BY <3>2 DEF Saved
  <2>2. CASE Process \/ UNCHANGED vars
    <3>1. pc' = pc /\ fnsave' = fnsave /\ Saved(old') = Saved(old)
      BY <2>2, ProcessSaved DEF Process, vars, ldir, files
    <3> QED
      BY <1>2, <3>1 DEF KeptInv
  <2>3. CASE (Step /\ ~ StopRename) \/ Read \/ WriteFull \/ Send \/ Kill \/ Restart
    <3>1. CASE StopWait \/ StopFailed \/ StopUnlink \/ Rotating
      BY <1>2, <3>1 DEF Rotating, StopWait, StopFailed, StopUnlink, Rotate,
         RotateChmod, RotateRename, RotateCreate, RotateOldest, RotateStart, Returns
    <3>2. CASE Open \/ OpenOldest \/ OpenCurrent \/ Write \/ Line \/ Rest \/ Pread \/ Read
      BY <1>2, <3>2 DEF Open, OpenOldest, OpenCurrent, Write, Line, Rest, Pread, Read, Eof,
         Flush, Returns
    <3>3. CASE Handle \/ HandleChild \/ Exit \/ WriteFull \/ Send \/ Kill \/ Restart
      BY <1>2, <3>3 DEF Handle, HandleChild, Exit, WriteFull, Send, Kill, Restart
    <3> QED
      BY <2>3, <3>1, <3>2, <3>3 DEF Step, Stopping
  <2> QED
    BY <2>1, <2>2, <2>3 DEF Next
<1>3. \A u \in 1 .. Hi' : Accounted(u)'
  BY AccountedStep
<1> QED
  BY <1>1, <1>2, <1>3 DEF KeptInv

-----------------------------------------------------------------------------
(* What the directory holds                                                *)

\* A file that was processed and is there twice holds the same twice, but for what was
\* not written.
WrittenInv ==
  /\ \A u : u \in Written <=> \E f \in Texts : In(u, f.data)
  /\ \A u : (u \in Written => Has(u)) /\ (Has(u) => u \in Written \cup cut)

LEMMA WrittenIs ==
  ASSUME FileTypes, TextInv
  PROVE  WrittenInv
<1> DEFINE c == Old(now, "current", cur.data)
           T == {f \in old : f.k = "s" \/ (f.k = "u" /\ Of(f.t, "s") = {})}
<1>1. c.data = cur.data
  BY DEF Old
<1>2. Texts = T \cup {c}
  BY DEF Texts
<1>3. T \subseteq Saved(old)
  BY DEF Saved
<1>4. \A f \in Saved(old) : f \in T \/ \E g \in T : PartOf(g.data, f.data)
  <2>1. ASSUME NEW f \in Saved(old), f \notin T
        PROVE  \E g \in T : PartOf(g.data, f.data)
    <3>1. f \in old /\ f.k = "u"
      BY <2>1 DEF Saved, FileTypes, File
    <3>2. PICK g \in Of(f.t, "s") : TRUE
      BY <2>1, <3>1
    <3>3. g \in T /\ g \in Saved(old) /\ g.t = f.t /\ g.k = "s"
      BY <3>2 DEF Of, Saved
    <3> QED
      BY <2>1, <3>1, <3>3 DEF TextInv
  <2> QED
    BY <2>1
<1>5. \A d \in Text : \A u : u \in ToSet(d) <=> In(u, d)
  BY LenProperties DEF ToSet, In, Text
<1>6. \A f \in Texts : f.data \in Text
  BY <1>1, <1>2, <1>3, DataIsText
<1> HIDE DEF c, T
<1>7. \A u : u \in Written <=> \E f \in Texts : In(u, f.data)
  BY <1>5, <1>6 DEF Written
<1>8. \A f \in Saved(old) : \A u : In(u, f.data) =>
        f \in T \/ u \in cut \/ \E g \in T : In(u, g.data)
  BY <1>3, <1>4, PartIn, DataIsText
<1> QED
  BY <1>1, <1>2, <1>3, <1>7, <1>8 DEF WrittenInv, Has

KeepInv == LogInv /\ StreamInv /\ CopyInv /\ TextInv /\ KeptInv

LEMMA KeepInit ==
  ASSUME Init
  PROVE  KeepInv
<1>1. LogInv
  BY LogInit
<1>2. StreamInv
  BY Newlines DEF Init, StreamInv, Place, Home, Stops, Turns
<1>3. cur.data = <<>> /\ Saved(old) = {} /\ b = <<>> /\ procs = {}
  BY DEF Init, None, Saved
<1>4. CopyInv
  BY DEF Init, CopyInv
<1>5. TextInv
  BY <1>3, EmptyText DEF TextInv
<1>6. KeptInv
  <2>1. Hi = 0 /\ pc = "open"
    BY DEF Init, Hi
  <2> QED
    BY <2>1 DEF KeptInv
<1> QED
  BY <1>1, <1>2, <1>4, <1>5, <1>6 DEF KeepInv

LEMMA KeepStep ==
  ASSUME KeepInv, [Next]_vars
  PROVE  KeepInv'
<1>1. LogInv' /\ FileTypes /\ InputTypes /\ InputTypes' /\ Returns /\ NameInv
  BY LogStep DEF KeepInv, LogInv, Types
<1>2. StreamInv /\ CopyInv /\ TextInv /\ KeptInv
  BY DEF KeepInv
<1>3. StreamInv'
  BY <1>1, <1>2, StreamStep
<1>4. CopyInv'
  BY <1>1, <1>2, CopyStep
<1>5. TextInv'
  BY <1>1, <1>2, <1>3, TextStep
<1>6. KeptInv'
  BY <1>1, <1>2, <1>3, KeptStep
<1> QED
  BY <1>1, <1>3, <1>4, <1>5, <1>6 DEF KeepInv

LEMMA KeepInvKept ==
  ASSUME KeepInv
  PROVE  Kept
<1>1. FileTypes /\ InputTypes /\ NameInv /\ TextInv /\ KeptInv
  BY DEF KeepInv, LogInv, Types
<1> DEFINE c == Old(now, "current", cur.data)
<1>2. c.data = cur.data /\ c.t = now
  BY DEF Old
<1>3. \A f \in Texts : f \in Saved(old) \/ f = c
  BY DEF Texts, Saved
<1> HIDE DEF c
<1>4. now \in Nat /\ \A f \in Saved(old) : f.t \in Nat /\ f.t < now
  BY <1>1, DataIsText DEF NameInv, FileTypes
<1>5. \A f \in Texts : f.data \in Text /\ Rising(f.data)
  BY <1>1, <1>2, <1>3, DataIsText DEF TextInv
<1>6. ASSUME NEW f \in Texts, NEW i \in 2 .. Len(f.data) PROVE f.data[i - 1] < f.data[i]
  <2>1. Len(f.data) \in Nat /\ i - 1 \in 1 .. Len(f.data) /\ i \in 1 .. Len(f.data) /\ i - 1 < i
    BY <1>5, <1>6, ElementIsNat
  <2> QED
    BY <1>5, <2>1 DEF Rising
<1>7. ASSUME NEW f \in Texts, NEW g \in Texts, f.t < g.t,
             NEW i \in DOMAIN f.data, NEW j \in DOMAIN g.data
      PROVE  f.data[i] < g.data[j]
  <2>1. i \in 1 .. Len(f.data) /\ j \in 1 .. Len(g.data)
    BY <1>5, <1>7, LenProperties DEF Text
  <2>2. f \in Saved(old)
    BY <1>2, <1>3, <1>4, <1>7
  <2>3. Below(f.data, g.data)
    BY <1>1, <1>2, <1>3, <1>7, <2>2 DEF TextInv
  <2> QED
    BY <2>1, <2>3 DEF Below
<1>8. ASSUME NEW u \in 1 .. rd
      PROVE  \/ u \in Written \cup InMemory \cup lost \cup cut \/ Deselected(u)
             \/ \A v \in Written : u < v
  <2>1. start \in Nat /\ at \in Nat /\ rd \in Nat /\ start <= at /\ at <= rd /\ Hi \in Nat
    BY <1>1, TopIsNat DEF InputTypes
  <2>2. CASE u <= Hi
    <3>1. Accounted(u)
      BY <1>1, <2>1, <2>2 DEF KeptInv
    <3>2. In(u, b) => u \in InMemory
      <4>1. In(u, b) => u \in ToSet(b)
        BY <1>1, LenProperties DEF In, ToSet, InputTypes, Text
      <4> QED
        BY <4>1 DEF InMemory
    <3> QED
      BY <1>1, <3>1, <3>2, WrittenIs DEF WrittenInv, Accounted, There
  <2>3. CASE u > Hi
    <3>1. CASE long
      BY <2>1, <2>3, <3>1 DEF Hi, InMemory
    <3>2. CASE ~ long
      <4>1. u \in (at + 1) .. rd \/ u \in (start + 1) .. at
        BY <2>1, <2>3, <3>2 DEF Hi
      <4> QED
        BY <3>2, <4>1 DEF InMemory
    <3> QED
      BY <3>1, <3>2
  <2> QED
    BY <2>1, <2>2, <2>3
<1> QED
  BY <1>6, <1>7, <1>8 DEF Kept

\* What svlogd read is in the log, in its order and each byte once, but for what was
\* in memory when svlogd ended, the lines that are deselected, what is older than the
\* whole log and what a processor killed by a signal had not written: wherever svlogd
\* is killed, the disk is full or a processor fails.
THEOREM LogKept == Spec => []Kept
<1> QED
  BY KeepInit, KeepStep, KeepInvKept, PTL DEF Spec

\* What has been written goes only from a directory with too many files, more than
\* NMax, or more than NMin where the disk is full, or when its unprocessed file is
\* replaced by the output of a processor that a signal killed before it had written that.
Excess ==
  \A u \in Written \ Written' :
    \/ NMax > 0 /\ Cardinality(old) > IF pc = "write" THEN NMin ELSE NMax
    \/ pc \in {"stoprename", "stopunlink"} /\ u \in cut

\* Steps that remove no file and put none in the place of another.
LEMMA WrittenStays ==
  ASSUME WrittenInv, WrittenInv', NEW u \in Written, Saved(old) \subseteq Saved(old'),
         \A f \in old' : f.k = "s" => f \in old \/ \A g \in old : g.t # f.t,
         In(u, cur.data) =>
           \/ In(u, cur'.data)
           \/ \E f \in Saved(old') : /\ In(u, f.data) /\ f.k \in {"s", "u"}
                                     /\ \A g \in old' : g.t = f.t => g = f
  PROVE  u \in Written'
<1>1. PICK f \in Texts : In(u, f.data)
  BY DEF WrittenInv
<1> DEFINE d == Old(now', "current", cur'.data)
<1>2. d \in Texts' /\ d.data = cur'.data
  BY DEF Texts, Old
<1> HIDE DEF d
<1>3. CASE In(u, cur.data)
  <2>1. CASE In(u, cur'.data)
    BY <1>2, <2>1 DEF WrittenInv
  <2>2. CASE \E g \in Saved(old') : /\ In(u, g.data) /\ g.k \in {"s", "u"}
                                    /\ \A h \in old' : h.t = g.t => h = g
    <3>1. PICK g \in Saved(old') : /\ In(u, g.data) /\ g.k \in {"s", "u"}
                                   /\ \A h \in old' : h.t = g.t => h = g
      BY <2>2
    <3>2. g \in Texts'
      BY <3>1 DEF Texts, Saved, Of
    <3> QED
      BY <3>1, <3>2 DEF WrittenInv
  <2> QED
    BY <1>3, <2>1, <2>2
<1>4. CASE f \in old /\ (f.k = "s" \/ (f.k = "u" /\ Of(f.t, "s") = {}))
  <2>1. f \in old'
    BY <1>4 DEF Saved
  <2>2. f.k = "u" => \A g \in old' : ~ (g.t = f.t /\ g.k = "s")
    BY <1>4 DEF Of
  <2>3. f \in Texts'
    BY <1>4, <2>1, <2>2 DEF Texts, Of
  <2> QED
    BY <1>1, <2>3 DEF WrittenInv
<1> QED
  BY <1>1, <1>3, <1>4 DEF Texts, Old

\* Current becomes an old file.
LEMMA WrittenMoved ==
  ASSUME WrittenInv, WrittenInv', NEW u \in Written, NEW f, old' = old \cup {f},
         f.data = cur.data, f.k \in {"s", "u"}, \A g \in old : g.t # f.t
  PROVE  u \in Written'
<1>1. f \in Saved(old') /\ Saved(old) \subseteq Saved(old') /\ \A g \in old' : g.t = f.t => g = f
  BY DEF Saved
<1> QED
  BY <1>1, WrittenStays

\* rmoldest, the removal at a full disk and processorstop after a death by signal are
\* all that removes a part of the log.
THEOREM OnlyExcess == Spec => [][Excess]_vars
<1>1. ASSUME KeepInv, KeepInv', WrittenInv, WrittenInv', [Next]_vars PROVE Excess
  <2>1. FileTypes /\ InputTypes /\ InputTypes' /\ Returns /\ NameInv
        /\ StreamInv /\ StreamInv' /\ CopyInv /\ TextInv /\ KeptInv
    BY <1>1 DEF KeepInv, LogInv, Types
  <2>2. CASE StopRename \/ StopUnlink
    <3>1. \A u \in Written : Has(u)' \/ u \in cut
      BY <1>1, <2>1, <2>2, ThereSame DEF WrittenInv
    <3>2. \A u : Has(u)' => u \in Written' \cup cut'
      BY <1>1 DEF WrittenInv
    <3>3. pc \in {"stoprename", "stopunlink"} /\ cut' = cut
      BY <2>2 DEF StopRename, StopUnlink
    <3> QED
      BY <3>1, <3>2, <3>3 DEF Excess
  <2>3. CASE Saved(old') = Saved(old) /\ \A u : In(u, cur.data) => In(u, cur'.data)
    <3>1. \A f \in old' : f.k = "s" => f \in old
      BY <2>3 DEF Saved
    <3>2. \A u \in Written : u \in Written'
      BY <1>1, <2>3, <3>1, WrittenStays
    <3> QED
      BY <3>2 DEF Excess
  <2>4. CASE Still
    BY <2>3, <2>4 DEF Still
  <2>5. CASE OpenOldest \/ RotateOldest
    <3>1. cur' = cur /\ old' = RmOldest(old) /\ pc # "write"
      BY <2>5 DEF OpenOldest, RotateOldest
    <3>2. CASE Saved(old') = Saved(old)
      BY <2>3, <3>1, <3>2
    <3>3. CASE NMax > 0 /\ Cardinality(Saved(old)) > NMax
      <4>1. /\ Cardinality(Saved(old)) \in Nat /\ Cardinality(old) \in Nat /\ NMax \in Nat
            /\ Cardinality(Saved(old)) <= Cardinality(old)
        BY <2>1, SvlogdAssumption, FS_Subset, FS_CardinalityType DEF Saved, FileTypes
      <4> QED
        BY <3>1, <3>3, <4>1 DEF Excess
    <3> QED
      BY <2>1, <3>1, <3>2, <3>3, RmOldestOldest
  <2>6. CASE WriteFull
    <3>1. cur' = cur /\ pc = "write"
      BY <2>6 DEF WriteFull
    <3>2. CASE Saved(old') = Saved(old)
      BY <2>3, <3>1, <3>2
    <3>3. CASE NMax > 0 /\ Cardinality(old) > NMin
      BY <3>1, <3>3 DEF Excess
    <3> QED
      BY <2>1, <2>6, <3>2, <3>3, WriteFullOldest
  <2>7. CASE Line \/ Rest \/ Pread \/ Read
    <3>1. Still \/ Drops \/ \E bytes : Puts(bytes)
      BY <2>1, <2>7, LineEffect, RestEffect, ReadEffect
    <3>2. CASE Drops \/ \E bytes : Puts(bytes)
      BY <2>3, <3>2 DEF Drops, Puts
    <3> QED
      BY <2>4, <3>1, <3>2
  <2>8. CASE Restart
    BY <2>3, <2>8 DEF Restart, files
  <2>9. CASE \/ OpenCurrent \/ StopWait \/ StopFailed \/ Rotate \/ RotateChmod \/ RotateStart
             \/ Handle \/ HandleChild \/ Exit \/ Send \/ Kill \/ Process \/ UNCHANGED vars
    BY <2>1, <2>4, <2>9, StillSteps
  <2>10. CASE Open
    <3>1. CASE cur.data # <<>> /\ ~ cur.x
      <4> DEFINE f == Old(now, "u", cur.data)
      <4>1. old' = old \cup {f}
        BY <2>10, <3>1 DEF Open
      <4>2. f.t = now /\ f.k = "u" /\ f.data = cur.data
        BY DEF Old
      <4> HIDE DEF f
      <4>3. \A g \in old : g.t # f.t
        BY <2>1, <4>2 DEF NameInv, FileTypes, File
      <4> QED
        BY <1>1, <4>1, <4>2, <4>3, WrittenMoved DEF Excess
    <3>2. CASE ~ (cur.data # <<>> /\ ~ cur.x)
      BY <2>3, <2>10, <3>2 DEF Open, files
    <3> QED
      BY <3>1, <3>2
  <2>11. CASE RotateRename
    <3> DEFINE f == Old(fnsave, IF Processor THEN "u" ELSE "s", cur.data)
    <3>1. old' = old \cup {f} /\ pc = "rename"
      BY <2>11 DEF RotateRename
    <3>2. f.t = fnsave /\ f.k \in {"s", "u"} /\ f.data = cur.data
      BY DEF Old
    <3> HIDE DEF f
    <3>3. \A g \in old : g.t # f.t
      BY <2>1, <3>1, <3>2 DEF NameInv, New, FileTypes, File
    <3> QED
      BY <1>1, <3>1, <3>2, <3>3, WrittenMoved DEF Excess
  <2>12. CASE RotateCreate
    <3>1. old' = old /\ cur.data = <<>>
      BY <2>1, <2>12 DEF RotateCreate, TextInv
    <3> QED
      BY <2>3, <3>1, InEmpty
  <2>13. CASE Write
    <3>1. CASE b = <<>> \/ (SizeMax > 0 /\ size >= SizeMax)
      BY <2>3, <2>13, <3>1 DEF Write
    <3>2. CASE b # <<>> /\ ~ (SizeMax > 0 /\ size >= SizeMax)
      <4> DEFINE h == SubSeq(b, 1, WriteLen)
      <4>1. h \in Text /\ cur.data \in Text
        BY <2>1, <3>2, WriteLenFacts, DataIsText DEF FileTypes, InputTypes
      <4>2. cur' = [cur EXCEPT !.data = cur.data \o h] /\ old' = old
        BY <2>13, <3>2 DEF Write
      <4> HIDE DEF h
      <4>3. cur'.data = cur.data \o h
        BY <2>1, <4>2 DEF FileTypes
      <4> QED
        BY <2>3, <4>1, <4>2, <4>3, InConcat
    <3> QED
      BY <3>1, <3>2
  <2> QED
    BY <1>1, <2>2, <2>5, <2>6, <2>7, <2>8, <2>9, <2>10, <2>11, <2>12, <2>13
       DEF Next, Step, Stopping, Rotating
<1>2. KeepInv /\ [Next]_vars => KeepInv'
  BY KeepStep
<1>3. KeepInv /\ KeepInv' /\ WrittenInv /\ WrittenInv' /\ [Next]_vars => [Excess]_vars
  BY <1>1
<1>4. KeepInv => WrittenInv
  BY WrittenIs DEF KeepInv, LogInv, Types
<1> QED
  BY <1>2, <1>3, <1>4, KeepInit, PTL DEF Spec

=============================================================================
