---------------------------- MODULE FtrigProofs ----------------------------
(***************************************************************************)
(* For every number of ids, subscriptions, expressions, bytes, writers and *)
(* failures, and every size of a fifo: s6-ftrigrd leaves no fifo behind,   *)
(* who subscribes is listening when the call returns, and an event that is *)
(* notified then gets to the client.                                       *)
(*                                                                         *)
(* Each of the three has an invariant, which the next one rests on:        *)
(* FifoInv, of what has a name; ListenInv, of the array, the messages that *)
(* end a subscription and the one call at a time; and EventInv, of the     *)
(* bytes and the messages. They say of records only that they have the     *)
(* fields the argument is about.                                           *)
(***************************************************************************)
EXTENDS Ftrig, FiniteSetTheorems, SequenceTheorems, TLAPS

Rows ==
  /\ fifo \in Seq(Range(fifo))
  /\ \A n \in DOMAIN fifo : "name" \in DOMAIN fifo[n]

Entries ==
  /\ a \in Seq(Range(a))
  /\ \A k \in DOMAIN a : "n" \in DOMAIN a[k]

\* ftrig1_make() has made the fifo it is at.
Making == pc \in {"open", "rename"} => fifo # <<>>

FifoInv == Rows /\ Entries /\ Making /\ NoLitter

\* No fifo comes, and no name.
Fewer ==
  /\ Rows' /\ DOMAIN fifo' = DOMAIN fifo /\ Len(fifo') = Len(fifo)
  /\ \A n \in DOMAIN fifo : fifo'[n].name # "none" => fifo[n].name # "none"

-----------------------------------------------------------------------------
(* Sequences                                                               *)

LEMMA OwnRange ==
  ASSUME NEW S, NEW s \in Seq(S)
  PROVE  s \in Seq(Range(s)) /\ DOMAIN s = 1 .. Len(s) /\ Len(s) \in Nat
<1>1. s \in [1 .. Len(s) -> S] /\ DOMAIN s = 1 .. Len(s) /\ Len(s) \in Nat
  OBVIOUS
<1>2. s \in [1 .. Len(s) -> Range(s)]
  BY <1>1 DEF Range
<1> QED
  BY <1>1, <1>2

LEMMA SameDomain ==
  ASSUME NEW S, NEW s \in Seq(S), NEW t, t = [i \in DOMAIN s |-> t[i]]
  PROVE  t \in Seq(Range(t)) /\ DOMAIN t = DOMAIN s /\ Len(t) = Len(s)
<1>1. DOMAIN s = 1 .. Len(s) /\ Len(s) \in Nat
  OBVIOUS
<1>2. t \in [1 .. Len(s) -> Range(t)]
  BY <1>1 DEF Range
<1> QED
  BY <1>1, <1>2

\* What ftrigr1_t's array does when an entry goes: all the others stay.
LEMMA WithoutFacts ==
  ASSUME Entries, NEW k \in DOMAIN a
  PROVE  /\ Without(k) \in Seq(Range(Without(k)))
         /\ \A j \in DOMAIN Without(k) : \E i \in DOMAIN a : Without(k)[j] = a[i]
         /\ \A i \in DOMAIN a : i # k => \E j \in DOMAIN Without(k) : Without(k)[j] = a[i]
<1> DEFINE n == Len(a)
           S == Range(a)
           t == [a EXCEPT ![k] = a[n]]
           f == SubSeq(t, 1, n - 1)
<1>1. a \in Seq(S) /\ DOMAIN a = 1 .. n /\ n \in Nat \ {0} /\ k \in 1 .. n
  BY DEF Entries
<1>2. t \in Seq(S) /\ Len(t) = n /\ \A j \in 1 .. n : t[j] = a[IF j = k THEN n ELSE j]
  BY <1>1
<1> HIDE DEF n, S, t
<1>3. Without(k) = f
  BY <1>2 DEF Without, Front, t, n
<1>4. f \in Seq(S) /\ Len(f) = n - 1 /\ \A j \in 1 .. n - 1 : f[j] = t[j]
  BY <1>1, <1>2, SubSeqProperties
<1> HIDE DEF f
<1>5. f \in Seq(Range(f)) /\ DOMAIN f = 1 .. n - 1
  BY <1>1, <1>4, OwnRange
<1>6. \A j \in DOMAIN f : \E i \in DOMAIN a : f[j] = a[i]
  BY <1>1, <1>2, <1>4, <1>5
<1>7. ASSUME NEW i \in DOMAIN a, i # k
      PROVE  \E j \in DOMAIN f : f[j] = a[i]
  <2>1. CASE i = n
    BY <1>1, <1>2, <1>4, <1>5, <1>7, <2>1, k \in 1 .. n - 1
  <2>2. CASE i # n
    BY <1>1, <1>2, <1>4, <1>5, <1>7, <2>2, i \in 1 .. n - 1
  <2> QED
    BY <2>1, <2>2
<1> QED
  BY <1>3, <1>5, <1>6, <1>7

-----------------------------------------------------------------------------
(* What the steps do to the fifos                                          *)

LEMMA UnlinkFewer ==
  ASSUME Rows, NEW n, Unlink(n)
  PROVE  Fewer
<1>1. fifo' = [i \in DOMAIN fifo |-> fifo'[i]]
  BY DEF Unlink
<1>2. fifo' \in Seq(Range(fifo')) /\ DOMAIN fifo' = DOMAIN fifo /\ Len(fifo') = Len(fifo)
  BY <1>1, SameDomain DEF Rows
<1>3. \A i \in DOMAIN fifo : /\ "name" \in DOMAIN fifo'[i]
                             /\ fifo'[i].name # "none" => fifo[i].name # "none"
  BY DEF Unlink, Rows
<1> QED
  BY <1>2, <1>3 DEF Fewer, Rows

\* Bytes come and go, and readers, in a fifo whose name is not touched.
LEMMA BytesFewer ==
  ASSUME Rows, NEW n, NEW v,
         \/ fifo' = [fifo EXCEPT ![n].bytes = v]
         \/ fifo' = [fifo EXCEPT ![n].reader = v]
  PROVE  Fewer
<1>1. fifo' = [i \in DOMAIN fifo |-> fifo'[i]]
  OBVIOUS
<1>2. fifo' \in Seq(Range(fifo')) /\ DOMAIN fifo' = DOMAIN fifo /\ Len(fifo') = Len(fifo)
  BY <1>1, SameDomain DEF Rows
<1>3. \A i \in DOMAIN fifo : /\ "name" \in DOMAIN fifo'[i]
                             /\ fifo'[i].name = fifo[i].name
  BY DEF Rows
<1> QED
  BY <1>2, <1>3 DEF Fewer, Rows

LEMMA FreedFewer ==
  ASSUME Rows, NEW ns, fifo' = Freed(fifo, ns)
  PROVE  Fewer /\ \A n \in DOMAIN fifo : n \in ns => fifo'[n].name = "none"
<1>1. fifo' = [i \in DOMAIN fifo |-> fifo'[i]]
  BY DEF Freed
<1>2. fifo' \in Seq(Range(fifo')) /\ DOMAIN fifo' = DOMAIN fifo /\ Len(fifo') = Len(fifo)
  BY <1>1, SameDomain DEF Rows
<1>3. \A i \in DOMAIN fifo :
        IF i \in ns THEN fifo'[i] = [name |-> "none", reader |-> FALSE, bytes |-> <<>>]
        ELSE fifo'[i] = fifo[i]
  BY DEF Freed
<1>4. \A i \in DOMAIN fifo : /\ "name" \in DOMAIN fifo'[i]
                             /\ i \in ns => fifo'[i].name = "none"
                             /\ i \notin ns => fifo'[i].name = fifo[i].name
  BY <1>3 DEF Rows
<1> QED
  BY <1>2, <1>4 DEF Fewer, Rows

\* A step with no new name that leaves alone the array and what is being made.
LEMMA StillOwned ==
  ASSUME FifoInv, Fewer, UNCHANGED <<a, pc, wasKilled>>
  PROVE  FifoInv'
<1>1. Entries'
  BY DEF FifoInv, Entries
<1>2. Making'
  BY DEF FifoInv, Fewer, Making, Rows
<1>3. NoLitter'
  BY DEF FifoInv, Fewer, NoLitter
<1> QED
  BY <1>1, <1>2, <1>3 DEF FifoInv, Fewer

\* The same if nothing happens to the fifos.
LEMMA SameFifos ==
  ASSUME FifoInv, UNCHANGED <<a, fifo, wasKilled>>,
         pc' \in {"open", "rename"} <=> pc \in {"open", "rename"}
  PROVE  FifoInv'
BY DEF FifoInv, Rows, Entries, Making, NoLitter

-----------------------------------------------------------------------------
(* The steps of s6-ftrigrd                                                 *)

\* sig_term() or the end of the client's pipe: all fifos of the array are removed.
LEMMA CleanupStep ==
  ASSUME FifoInv, pc \in {"pause", "parse"}, cleanup, UNCHANGED wasKilled
  PROVE  FifoInv'
<1>1. /\ fifo' = Freed(fifo, {a[k].n : k \in DOMAIN a})
      /\ a' = <<>> /\ pc' = "gone"
  BY DEF cleanup
<1>2. /\ Fewer
      /\ \A n \in DOMAIN fifo : n \in {a[k].n : k \in DOMAIN a} => fifo'[n].name = "none"
  BY <1>1, FreedFewer DEF FifoInv
<1>3. Entries'
  BY <1>1, OwnRange DEF Entries
<1>4. NoLitter'
  BY <1>1, <1>2 DEF FifoInv, NoLitter, Fewer
<1> QED
  BY <1>1, <1>2, <1>3, <1>4 DEF FifoInv, Fewer, Making

\* An entry has left the array, and its fifo is removed.
LEMMA EntryGoes ==
  ASSUME FifoInv, NEW k \in DOMAIN a, a' = Without(k), Fewer,
         UNCHANGED <<pc, wasKilled>>,
         \/ fifo'[a[k].n].name = "none"
         \/ a[k].n \notin DOMAIN fifo
         \/ \E j \in DOMAIN a' : a'[j].n = a[k].n
  PROVE  FifoInv'
<1>1. /\ a' \in Seq(Range(a'))
      /\ \A j \in DOMAIN a' : \E i \in DOMAIN a : a'[j] = a[i]
      /\ \A i \in DOMAIN a : i # k => \E j \in DOMAIN a' : a'[j] = a[i]
  BY WithoutFacts DEF FifoInv
<1>2. Entries'
  BY <1>1 DEF FifoInv, Entries
<1>3. Making'
  BY DEF FifoInv, Fewer, Making, Rows
<1>4. NoLitter'
  <2> SUFFICES ASSUME ~wasKilled, NEW n \in DOMAIN fifo, fifo'[n].name # "none"
               PROVE  \/ \E j \in DOMAIN a' : a'[j].n = n
                      \/ pc \in {"open", "rename"} /\ n = Len(fifo)
    BY DEF NoLitter, Fewer
  <2>1. CASE \E i \in DOMAIN a : a[i].n = n
    BY <1>1, <2>1
  <2>2. CASE pc \in {"open", "rename"} /\ n = Len(fifo)
    BY <2>2
  <2> QED
    BY <2>1, <2>2 DEF FifoInv, NoLitter, Fewer
<1> QED
  BY <1>2, <1>3, <1>4 DEF FifoInv, Fewer

\* One byte of one fifo is fed to its expression.
LEMMA ScanStep ==
  ASSUME FifoInv, Scan, UNCHANGED wasKilled
  PROVE  FifoInv'
<1>1. PICK k \in DOMAIN a :
        /\ Feed(k, Append(a[k].dfa, Head(fifo[a[k].n].bytes)))
        /\ fifo' = IF \E j \in DOMAIN a' : a'[j].n = a[k].n
                   THEN [fifo EXCEPT ![a[k].n].bytes = Tail(@)] ELSE Freed(fifo, {a[k].n})
  BY DEF Scan
<1> DEFINE n == a[k].n
<1>2. /\ Fewer
      /\ \/ fifo'[n].name = "none" \/ n \notin DOMAIN fifo
         \/ \E j \in DOMAIN a' : a'[j].n = n
  <2>1. CASE \E j \in DOMAIN a' : a'[j].n = n
    BY <1>1, <2>1, BytesFewer, fifo' = [fifo EXCEPT ![n].bytes = Tail(fifo[n].bytes)]
       DEF FifoInv
  <2>2. CASE ~\E j \in DOMAIN a' : a'[j].n = n
    BY <1>1, <2>2, FreedFewer DEF FifoInv
  <2> QED
    BY <2>1, <2>2
<1>3. pc' = pc
  BY DEF Scan
<1>4. CASE a' = Without(k)
  BY <1>2, <1>3, <1>4, EntryGoes
<1>5. ASSUME NEW d, a' = [a EXCEPT ![k].dfa = d]
      PROVE  FifoInv'
  <2>1. a' = [i \in DOMAIN a |-> a'[i]]
    BY <1>5
  <2>2. a' \in Seq(Range(a')) /\ DOMAIN a' = DOMAIN a
    BY <2>1, SameDomain DEF FifoInv, Entries
  <2>3. \A i \in DOMAIN a : "n" \in DOMAIN a'[i] /\ a'[i].n = a[i].n
    BY <1>5 DEF FifoInv, Entries
  <2>4. Entries'
    BY <2>2, <2>3 DEF Entries
  <2>5. NoLitter'
    BY <1>2, <1>3, <2>2, <2>3 DEF FifoInv, NoLitter, Fewer
  <2>6. Making'
    BY <1>2, <1>3 DEF FifoInv, Fewer, Making, Rows
  <2> QED
    BY <1>2, <2>4, <2>5, <2>6 DEF FifoInv, Fewer
<1> QED
  BY <1>1, <1>4, <1>5 DEF Feed

LEMMA UnsubscribeStep ==
  ASSUME FifoInv, Unsubscribe, UNCHANGED wasKilled
  PROVE  FifoInv'
<1>1. CASE UNCHANGED <<a, fifo>>
  BY <1>1, SameFifos DEF Unsubscribe
<1>2. ASSUME NEW k \in DOMAIN a, a' = Without(k), fifo' = Freed(fifo, {a[k].n})
      PROVE  FifoInv'
  <2>1. Fewer /\ (a[k].n \in DOMAIN fifo => fifo'[a[k].n].name = "none")
    BY <1>2, FreedFewer DEF FifoInv
  <2> QED
    BY <1>2, <2>1, EntryGoes DEF Unsubscribe
<1> QED
  BY <1>1, <1>2 DEF Unsubscribe

\* mkfifo(): the new fifo is the last one.
LEMMA MakeFifoStep ==
  ASSUME FifoInv, MakeFifo, UNCHANGED wasKilled
  PROVE  FifoInv'
<1> DEFINE new == [name |-> "hidden", reader |-> FALSE, bytes |-> <<>>]
           S == Range(fifo) \cup {new}
<1>1. fifo' = Append(fifo, new) /\ a' = a /\ pc = "parse" /\ pc' = "open"
  BY DEF MakeFifo, Subscribing
<1>2. fifo \in Seq(S) /\ new \in S
  BY SeqMonotonic DEF FifoInv, Rows
<1>3. "name" \in DOMAIN new
  OBVIOUS
<1> HIDE DEF new, S
<1>4. /\ fifo' \in Seq(S) /\ Len(fifo') = Len(fifo) + 1 /\ Len(fifo) \in Nat
      /\ DOMAIN fifo = 1 .. Len(fifo) /\ DOMAIN fifo' = 1 .. Len(fifo')
      /\ \A n \in DOMAIN fifo : fifo'[n] = fifo[n]
      /\ fifo'[Len(fifo')] = new
  BY <1>1, <1>2
<1>5. Rows'
  <2>1. \A n \in DOMAIN fifo' : n \in DOMAIN fifo \/ n = Len(fifo')
    BY <1>4
  <2>2. \A n \in DOMAIN fifo' : "name" \in DOMAIN fifo'[n]
    BY <1>3, <1>4, <2>1 DEF FifoInv, Rows
  <2> QED
    BY <1>4, <2>2, OwnRange DEF Rows
<1>6. Making'
  BY <1>4 DEF Making
<1>7. NoLitter'
  <2> SUFFICES ASSUME ~wasKilled, NEW n \in DOMAIN fifo', fifo'[n].name # "none",
                      n # Len(fifo')
               PROVE  \E k \in DOMAIN a : a[k].n = n
    BY <1>1 DEF NoLitter
  <2>1. n \in DOMAIN fifo /\ fifo[n].name # "none"
    BY <1>4
  <2> QED
    BY <1>1, <2>1 DEF FifoInv, NoLitter
<1> QED
  BY <1>1, <1>5, <1>6, <1>7 DEF FifoInv, Entries

LEMMA MakeOpenStep ==
  ASSUME FifoInv, MakeOpen, UNCHANGED wasKilled
  PROVE  FifoInv'
<1>1. Fewer /\ Len(fifo') = Len(fifo)
  BY BytesFewer DEF MakeOpen, FifoInv, Fewer
<1>2. a' = a /\ pc \in {"open", "rename"} /\ pc' \in {"open", "rename"}
  BY DEF MakeOpen
<1>3. NoLitter'
  BY <1>1, <1>2 DEF FifoInv, NoLitter, Fewer
<1> QED
  BY <1>1, <1>2, <1>3 DEF FifoInv, Fewer, Making, Entries, Rows

\* rename() and the entry in the array.
LEMMA MakeRenameStep ==
  ASSUME FifoInv, MakeRename, UNCHANGED wasKilled
  PROVE  FifoInv'
<1> DEFINE e == [id |-> Head(req).id, n |-> Len(fifo), re |-> Head(req).re,
                 repeat |-> Head(req).repeat, dfa |-> <<>>]
           S == Range(a) \cup {e}
<1>1. /\ fifo' = [fifo EXCEPT ![Len(fifo)].name = IF @ = "hidden" THEN "shown" ELSE @]
      /\ a' = Append(a, e) /\ pc = "rename" /\ pc' = "parse"
  BY DEF MakeRename
<1>2. /\ fifo' \in Seq(Range(fifo')) /\ DOMAIN fifo' = DOMAIN fifo
  <2>1. fifo' = [i \in DOMAIN fifo |-> fifo'[i]]
    BY <1>1
  <2> QED
    BY <2>1, SameDomain DEF FifoInv, Rows
<1>3. \A n \in DOMAIN fifo : /\ "name" \in DOMAIN fifo'[n]
                             /\ fifo'[n].name # "none" => fifo[n].name # "none"
  BY <1>1 DEF FifoInv, Rows
<1>4. a \in Seq(S) /\ e \in S /\ e.n = Len(fifo) /\ "n" \in DOMAIN e
  BY SeqMonotonic DEF FifoInv, Entries
<1> HIDE DEF e, S
<1>5. /\ a' \in Seq(S) /\ Len(a') = Len(a) + 1 /\ Len(a) \in Nat
      /\ DOMAIN a = 1 .. Len(a) /\ DOMAIN a' = 1 .. Len(a')
      /\ \A k \in DOMAIN a : a'[k] = a[k]
      /\ a'[Len(a')] = e
  BY <1>1, <1>4
<1>6. \A k \in DOMAIN a : k \in DOMAIN a'
  BY <1>5
<1>7. Entries'
  <2>1. \A k \in DOMAIN a' : k \in DOMAIN a \/ k = Len(a')
    BY <1>5
  <2>2. \A k \in DOMAIN a' : "n" \in DOMAIN a'[k]
    BY <1>4, <1>5, <2>1 DEF FifoInv, Entries
  <2> QED
    BY <1>5, <2>2, OwnRange DEF Entries
<1>8. NoLitter'
  <2> SUFFICES ASSUME ~wasKilled, NEW n \in DOMAIN fifo, fifo'[n].name # "none"
               PROVE  \E k \in DOMAIN a' : a'[k].n = n
    BY <1>2 DEF NoLitter
  <2>1. CASE \E k \in DOMAIN a : a[k].n = n
    BY <1>5, <1>6, <2>1
  <2>2. CASE n = Len(fifo)
    <3>1. Len(a') \in DOMAIN a' /\ a'[Len(a')].n = n
      BY <1>4, <1>5, <2>2
    <3> QED
      BY <3>1
  <2> QED
    BY <1>3, <2>1, <2>2 DEF FifoInv, NoLitter
<1> QED
  BY <1>1, <1>2, <1>3, <1>7, <1>8 DEF FifoInv, Rows, Making

LEMMA MakeFailsStep ==
  ASSUME FifoInv, MakeFails, UNCHANGED wasKilled
  PROVE  FifoInv'
<1>1. a' = a /\ pc' = "parse" /\ pc \in {"parse", "open", "rename"}
  BY DEF MakeFails, Subscribing
<1>2. CASE pc = "parse"
  BY <1>1, <1>2, SameFifos DEF MakeFails
<1>3. CASE pc # "parse"
  <2>1. /\ Fewer
        /\ \A n \in DOMAIN fifo : n = Len(fifo) => fifo'[n].name = "none"
    BY <1>3, FreedFewer DEF MakeFails, FifoInv
  <2>2. NoLitter'
    BY <1>1, <2>1 DEF FifoInv, NoLitter, Fewer
  <2> QED
    BY <1>1, <2>1, <2>2 DEF FifoInv, Fewer, Making, Entries
<1> QED
  BY <1>2, <1>3

-----------------------------------------------------------------------------

LEMMA FifoInvariant == Spec => []FifoInv
<1>1. Init => FifoInv
  <2> SUFFICES ASSUME Init PROVE FifoInv
    OBVIOUS
  <2>1. fifo = <<>> /\ a = <<>> /\ pc = "pause"
    BY DEF Init
  <2>2. <<>> \in Seq(Range(<<>>)) /\ DOMAIN <<>> = {}
    BY OwnRange
  <2> QED
    BY <2>1, <2>2 DEF FifoInv, Rows, Entries, Making, NoLitter
<1>2. FifoInv /\ [Next]_vars => FifoInv'
  <2> SUFFICES ASSUME FifoInv, [Next]_vars PROVE FifoInv'
    OBVIOUS
  <2>1. ASSUME NEW w \in Writers, WriterStep(w) PROVE FifoInv'
    <3>1. UNCHANGED <<a, pc, wasKilled>>
      BY <2>1 DEF WriterStep, server
    <3>2. CASE UNCHANGED fifo
      BY <3>1, <3>2, SameFifos
    <3>3. CASE \E n : Unlink(n)
      BY <3>1, <3>3, UnlinkFewer, StillOwned DEF FifoInv
    <3>4. CASE \E n, v : fifo' = [fifo EXCEPT ![n].bytes = v]
      BY <3>1, <3>4, BytesFewer, StillOwned DEF FifoInv
    <3>5. CASE OpenFifo(w)
      BY <3>2, <3>3, <3>5 DEF OpenFifo
    <3>6. CASE WriteFifo(w)
      BY <3>2, <3>3, <3>4, <3>6 DEF WriteFifo
    <3>7. CASE WriterDone(w)
      BY <3>2, <3>7 DEF WriterDone
    <3> QED
      BY <2>1, <3>5, <3>6, <3>7 DEF WriterStep
  <2>2. ASSUME NEW w \in Writers, WriterNext(w) PROVE FifoInv'
    BY <2>2, SameFifos DEF WriterNext, ftrigw_notify, ftrigw_clean, server
  <2>3. CASE ClientNext
    BY <2>3, SameFifos DEF ClientNext, server, bounds
  <2>4. CASE ftrigr_end
    BY <2>4, SameFifos DEF ftrigr_end, server
  <2>5. CASE ServerNext
    <3>1. UNCHANGED wasKilled
      BY <2>5 DEF ServerNext, bounds
    <3>2. CASE Iopause
      <4>1. CASE ~open
        BY <3>1, <3>2, <4>1, CleanupStep DEF Iopause
      <4>2. CASE open
        BY <3>1, <3>2, <4>2, SameFifos DEF Iopause
      <4> QED
        BY <4>1, <4>2
    <3>3. CASE ScanDone
      BY <3>1, <3>3, SameFifos DEF ScanDone
    <3>4. CASE ParseDone
      <4>1. CASE ~open
        BY <3>1, <3>4, <4>1, CleanupStep DEF ParseDone
      <4>2. CASE open
        BY <3>1, <3>4, <4>2, SameFifos DEF ParseDone
      <4> QED
        BY <4>1, <4>2
    <3> QED
      BY <2>5, <3>1, <3>2, <3>3, <3>4, ScanStep, UnsubscribeStep, MakeFifoStep,
         MakeOpenStep, MakeRenameStep DEF ServerNext
  <2>6. CASE MakeFailsNext
    BY <2>6, MakeFailsStep DEF MakeFailsNext
  <2>7. CASE Kill
    <3>1. fifo' = [n \in DOMAIN fifo |-> fifo'[n]]
      BY <2>7 DEF Kill
    <3>2. fifo' \in Seq(Range(fifo')) /\ DOMAIN fifo' = DOMAIN fifo
      BY <3>1, SameDomain DEF FifoInv, Rows
    <3>3. \A n \in DOMAIN fifo : "name" \in DOMAIN fifo'[n]
      BY <2>7 DEF Kill, FifoInv, Rows
    <3>4. a' = <<>> /\ pc' = "gone" /\ wasKilled' = TRUE
      BY <2>7 DEF Kill
    <3>5. Entries'
      BY <3>4, OwnRange DEF Entries
    <3> QED
      BY <3>2, <3>3, <3>4, <3>5 DEF FifoInv, Rows, Making, NoLitter
  <2>8. CASE UNCHANGED vars
    BY <2>8, SameFifos DEF vars, server, bounds
  <2> QED
    BY <2>1, <2>2, <2>3, <2>4, <2>5, <2>6, <2>7, <2>8 DEF Next
<1> QED
  BY <1>1, <1>2, PTL DEF Spec

\* The fifos of s6-ftrigrd do not outlive their subscriptions, whatever fails and
\* whoever ends the session, unless s6-ftrigrd is killed.
THEOREM FifosRemoved == Spec => []NoLitter
<1>1. FifoInv => NoLitter
  BY DEF FifoInv
<1> QED
  BY <1>1, FifoInvariant, PTL

-----------------------------------------------------------------------------
(* Who subscribes is listening: the array, the messages that end a         *)
(* subscription, and the answer that says that there is one.               *)

Msg == [id : Ids, what : {"!", "d"}]
Res == {s.re : s \in Subs}
Call == [op : {"U"}, id : Ids] \cup [op : {"L"}, id : Ids, re : Res, repeat : BOOLEAN]

\* Which fields there are, and which ids.
ListenTypes ==
  /\ data = [i \in Ids |-> data[i]] /\ asked = [i \in Ids |-> asked[i]]
  /\ \A i \in Ids : {"state", "repeat"} \subseteq DOMAIN data[i]
  /\ freelist \in Seq(Ids)
  /\ async \in Seq(Msg) /\ asyncbuf \in Seq(Msg)
  /\ call \in {NoCall} \cup Call
  /\ \A n \in DOMAIN fifo : {"name", "reader"} \subseteq DOMAIN fifo[n]
  /\ \A k \in DOMAIN a : /\ {"id", "n", "re", "repeat"} \subseteq DOMAIN a[k]
                         /\ a[k].id \in Ids

\* Each entry of the array has a fifo of its own, which writers find and which is
\* read; and so has the one that ftrig1_make() is at.
Served ==
  /\ \A k \in DOMAIN a : /\ a[k].n \in DOMAIN fifo
                         /\ fifo[a[k].n].name = "shown" /\ fifo[a[k].n].reader
  /\ \A j, k \in DOMAIN a : a[j].n = a[k].n => j = k
  /\ pc \in {"open", "rename"} =>
       /\ fifo # <<>> /\ fifo[Len(fifo)].name = "hidden"
       /\ pc = "rename" => fifo[Len(fifo)].reader
       /\ \A k \in DOMAIN a : a[k].n # Len(fifo)

\* A message that ends the subscription is on its way.
Ended(i, repeat) ==
  \E m \in Range(async) \cup Range(asyncbuf) : m.id = i /\ (m.what = "d" \/ ~repeat)

\* There is an entry for the id, or such a message.
Heard(i, re, repeat) ==
  \/ \E k \in DOMAIN a : a[k].id = i /\ a[k].re = re /\ a[k].repeat = repeat
  \/ Ended(i, repeat)

Waiting == req = <<call>> /\ acks = <<>> /\ ackbuf = <<>>

\* The only answer that is on its way is that to the call, and if it is a good one
\* then the subscription is there.
Answered ==
  /\ req = <<>>
  /\ \E ok \in BOOLEAN :
       /\ \/ acks = <<ok>> /\ ackbuf = <<>>
          \/ acks = <<>> /\ ackbuf = <<ok>>
       /\ ok \/ call.op = "L"
       /\ ok /\ call.op = "L" => Heard(call.id, call.re, call.repeat)

\* The client waits for one answer at a time, and s6-ftrigrd is at the request.
Asking ==
  pc # "gone" =>
    /\ ~open => call = NoCall
    /\ call = NoCall => req = <<>> /\ (open => acks = <<>> /\ ackbuf = <<>>)
    /\ call # NoCall => Waiting \/ Answered
    /\ pc \in {"open", "rename"} => call # NoCall /\ call.op = "L" /\ Waiting

Listeners == \A i \in Ids : Listening(i) => Heard(i, asked[i], data[i].repeat)

ListenInv == ListenTypes /\ Served /\ Asking /\ Listeners

\* No fifo comes, those that are read stay as they are, and the one that is made
\* stays hidden.
Untouched ==
  /\ DOMAIN fifo' = DOMAIN fifo /\ Len(fifo') = Len(fifo)
  /\ \A n \in DOMAIN fifo :
       /\ {"name", "reader"} \subseteq DOMAIN fifo'[n]
       /\ fifo[n].reader => fifo'[n].reader /\ fifo'[n].name = fifo[n].name
       /\ fifo[n].name = "hidden" => fifo'[n].name = "hidden"

StillHeard == \A i, re, r : Heard(i, re, r) => Heard(i, re, r)'

\* The position of each entry that stays.
LEMMA WithoutIs ==
  ASSUME Entries, NEW k \in DOMAIN a
  PROVE  /\ DOMAIN Without(k) = 1 .. Len(a) - 1
         /\ \A j \in DOMAIN Without(k) :
              Without(k)[j] = a[IF j = k THEN Len(a) ELSE j]
<1> DEFINE n == Len(a)
           S == Range(a)
           t == [a EXCEPT ![k] = a[n]]
           f == SubSeq(t, 1, n - 1)
<1>1. a \in Seq(S) /\ DOMAIN a = 1 .. n /\ n \in Nat \ {0} /\ k \in 1 .. n
  BY DEF Entries
<1>2. t \in Seq(S) /\ Len(t) = n /\ \A j \in 1 .. n : t[j] = a[IF j = k THEN n ELSE j]
  BY <1>1
<1> HIDE DEF n, S, t
<1>3. Without(k) = f
  BY <1>2 DEF Without, Front, t, n
<1>4. f \in Seq(S) /\ Len(f) = n - 1 /\ \A j \in 1 .. n - 1 : f[j] = t[j]
  BY <1>1, <1>2, SubSeqProperties
<1> HIDE DEF f
<1>5. DOMAIN f = 1 .. n - 1
  BY <1>1, <1>4
<1> QED
  BY <1>1, <1>2, <1>3, <1>4, <1>5 DEF n

LEMMA SameHeard ==
  ASSUME UNCHANGED <<a, async, asyncbuf>>
  PROVE  StillHeard
BY DEF StillHeard, Heard, Ended

LEMMA SameAsking ==
  ASSUME Asking, StillHeard, UNCHANGED <<call, req, acks, ackbuf, open>>,
         pc' # "gone" => pc # "gone",
         pc' \in {"open", "rename"} => pc \in {"open", "rename"}
  PROVE  Asking'
<1>1. Waiting => Waiting'
  BY DEF Waiting
<1>2. Answered => Answered'
  BY DEF Answered, StillHeard
<1> QED
  BY <1>1, <1>2 DEF Asking

LEMMA SameListeners ==
  ASSUME Listeners, StillHeard, UNCHANGED <<data, asked, call, open>>,
         pc' # "gone" => pc # "gone"
  PROVE  Listeners'
BY DEF Listeners, Listening, StillHeard

LEMMA SameServed ==
  ASSUME FifoInv, ListenTypes, Served, Untouched, UNCHANGED a,
         pc' \in {"open", "rename"} => pc' = pc
  PROVE  Served'
<1>1. Len(fifo') = Len(fifo) /\ DOMAIN fifo' = DOMAIN fifo
  BY DEF Untouched
<1>2. ASSUME pc' \in {"open", "rename"}
      PROVE  /\ fifo' # <<>> /\ fifo'[Len(fifo')].name = "hidden"
             /\ pc' = "rename" => fifo'[Len(fifo')].reader
  <2>1. fifo # <<>> /\ Len(fifo) \in DOMAIN fifo
    BY <1>2 DEF Served, FifoInv, Rows
  <2>2. fifo' # <<>>
    BY <1>1, <2>1
  <2> QED
    BY <1>1, <1>2, <2>1, <2>2 DEF Served, Untouched
<1> QED
  BY <1>1, <1>2 DEF Served, Untouched

LEMMA SameTypes ==
  ASSUME ListenTypes, UNCHANGED <<data, asked, freelist, async, asyncbuf, call, a>>,
         Untouched
  PROVE  ListenTypes'
BY DEF ListenTypes, Untouched

LEMMA SameUntouched ==
  ASSUME ListenTypes, UNCHANGED fifo
  PROVE  Untouched
BY DEF ListenTypes, Untouched

-----------------------------------------------------------------------------
(* The writers take no name away from a fifo that is read.                 *)

LEMMA UnlinkUntouched ==
  ASSUME FifoInv, ListenTypes, NEW n, Unlink(n), ~fifo[n].reader
  PROVE  Untouched
<1>1. Fewer
  BY UnlinkFewer DEF FifoInv
<1>2. \A i \in DOMAIN fifo :
        /\ {"name", "reader"} \subseteq DOMAIN fifo'[i]
        /\ fifo'[i].reader = fifo[i].reader
        /\ fifo'[i].name = IF i = n /\ fifo[i].name = "shown" THEN "none" ELSE fifo[i].name
  BY DEF Unlink, ListenTypes
<1> QED
  BY <1>1, <1>2 DEF Untouched, Fewer

LEMMA BytesUntouched ==
  ASSUME FifoInv, ListenTypes, NEW n, NEW v, fifo' = [fifo EXCEPT ![n].bytes = v]
  PROVE  Untouched
<1>1. Fewer
  BY BytesFewer DEF FifoInv
<1>2. \A i \in DOMAIN fifo :
        /\ {"name", "reader"} \subseteq DOMAIN fifo'[i]
        /\ fifo'[i].reader = fifo[i].reader
        /\ fifo'[i].name = fifo[i].name
  BY DEF ListenTypes
<1> QED
  BY <1>1, <1>2 DEF Untouched, Fewer

LEMMA WriterListen ==
  ASSUME FifoInv, ListenInv, NEW w, WriterStep(w) \/ WriterNext(w)
  PROVE  ListenInv'
<1>1. UNCHANGED <<client, pipes, server>>
  BY DEF WriterStep, WriterNext
<1>2. Untouched
  <2>1. CASE UNCHANGED fifo
    BY <2>1, SameUntouched DEF ListenInv
  <2>2. CASE \E n : Unlink(n) /\ ~fifo[n].reader
    BY <2>2, UnlinkUntouched DEF ListenInv
  <2>3. CASE \E n, v : fifo' = [fifo EXCEPT ![n].bytes = v]
    BY <2>3, BytesUntouched DEF ListenInv
  <2>4. CASE OpenFifo(w)
    BY <2>1, <2>2, <2>4 DEF OpenFifo
  <2>5. CASE WriteFifo(w)
    BY <2>1, <2>2, <2>3, <2>5 DEF WriteFifo
  <2> QED
    BY <2>1, <2>4, <2>5 DEF WriterStep, WriterNext, WriterDone, ftrigw_notify, ftrigw_clean
<1>3. ListenTypes' /\ Served'
  BY <1>1, <1>2, SameTypes, SameServed DEF ListenInv, client, pipes, server
<1>4. Asking' /\ Listeners'
  BY <1>1, SameHeard, SameAsking, SameListeners DEF ListenInv, client, pipes, server
<1> QED
  BY <1>3, <1>4 DEF ListenInv

-----------------------------------------------------------------------------
(* The client.                                                             *)

LEMMA CellTypes ==
  ASSUME ListenTypes, NEW i \in Ids, NEW d, {"state", "repeat"} \subseteq DOMAIN d,
         data' = [data EXCEPT ![i] = d]
  PROVE  /\ data' = [j \in Ids |-> data'[j]]
         /\ data'[i] = d /\ \A j \in Ids : j # i => data'[j] = data[j]
         /\ \A j \in Ids : {"state", "repeat"} \subseteq DOMAIN data'[j]
<1>1. DOMAIN data = Ids /\ \A j \in Ids : {"state", "repeat"} \subseteq DOMAIN data[j]
  BY DEF ListenTypes
<1>2. DOMAIN data' = Ids /\ data' = [j \in Ids |-> IF j = i THEN d ELSE data[j]]
  BY <1>1
<1> QED
  BY <1>1, <1>2

LEMMA SubscribeListen ==
  ASSUME ListenInv, NEW s \in Subs, ftrigr_subscribe(s), UNCHANGED <<server, fifo>>
  PROVE  ListenInv'
<1> DEFINE c == [op |-> "L", id |-> Last(freelist), re |-> s.re, repeat |-> s.repeat]
<1>1. /\ open /\ pc # "gone" /\ call = NoCall /\ freelist # <<>>
      /\ call' = c /\ freelist' = Front(freelist) /\ req' = Append(req, call')
      /\ UNCHANGED <<data, asked, open, acks, async, server, fifo>>
  BY DEF ftrigr_subscribe, Idle
<1>2. Last(freelist) \in Ids /\ Front(freelist) \in Seq(Ids)
  BY <1>1 DEF ListenInv, ListenTypes, Last, Front
<1>3. c \in Call /\ c # NoCall /\ c.op = "L"
  BY <1>2, FtrigAssumption DEF Call, Res, NoCall
<1> HIDE DEF c
<1>4. ListenTypes'
  BY <1>1, <1>2, <1>3 DEF ListenInv, ListenTypes, server
<1>5. Served'
  BY <1>1 DEF ListenInv, Served, server
<1>6. Asking'
  <2>1. req = <<>> /\ acks = <<>> /\ ackbuf = <<>> /\ pc \notin {"open", "rename"}
    BY <1>1 DEF ListenInv, Asking
  <2>2. Waiting'
    BY <1>1, <2>1 DEF Waiting, server
  <2> QED
    BY <1>1, <1>3, <2>1, <2>2 DEF Asking, server
<1>7. Listeners'
  <2>1. StillHeard
    BY <1>1, SameHeard DEF server
  <2>2. \A i \in Ids : Listening(i)' => Listening(i)
    BY <1>1, <1>3 DEF Listening, NoCall, server
  <2> QED
    BY <1>1, <2>1, <2>2 DEF ListenInv, Listeners, StillHeard
<1> QED
  BY <1>4, <1>5, <1>6, <1>7 DEF ListenInv

\* What the client does with a cell leaves those that listen as they are.
LEMMA CheckListen ==
  ASSUME ListenInv, NEW i \in Ids, ftrigr_check(i), UNCHANGED <<server, fifo>>
  PROVE  ListenInv'
<1>1. /\ open /\ call = NoCall
      /\ UNCHANGED <<call, open, req, acks, async, server, fifo>>
  BY DEF ftrigr_check, Settle, Idle, pipes
<1>2. /\ data' = [j \in Ids |-> data'[j]]
      /\ \A j \in Ids : /\ {"state", "repeat"} \subseteq DOMAIN data'[j]
                        /\ data'[j].state = "LISTENING" =>
                             /\ data[j].state = "LISTENING"
                             /\ data'[j].repeat = data[j].repeat
                             /\ asked'[j] = asked[j]
      /\ asked' = [j \in Ids |-> asked'[j]]
      /\ freelist' \in Seq(Ids)
  <2>1. CASE Settle(i)
    <3>1. {"state", "repeat"} \subseteq DOMAIN Zero /\ Zero.state # "LISTENING"
      BY DEF Zero
    <3>2. data' = [data EXCEPT ![i] = Zero] /\ freelist' = Append(freelist, i)
      BY <2>1 DEF Settle
    <3>3. freelist' \in Seq(Ids)
      BY <3>2 DEF ListenInv, ListenTypes
    <3>4. asked' = [asked EXCEPT ![i] = {}] /\ asked = [j \in Ids |-> asked[j]]
      BY <2>1 DEF Settle, ListenInv, ListenTypes
    <3>5. asked' = [j \in Ids |-> asked'[j]] /\ \A j \in Ids : j # i => asked'[j] = asked[j]
      BY <3>4
    <3> QED
      BY <3>1, <3>2, <3>3, <3>5, CellTypes DEF ListenInv
  <2>2. CASE data' = [data EXCEPT ![i].count = 0] /\ UNCHANGED <<freelist, asked>>
    <3> DEFINE d == [data[i] EXCEPT !.count = 0]
    <3>1. {"state", "repeat"} \subseteq DOMAIN d /\ d.state = data[i].state
                                               /\ d.repeat = data[i].repeat
      BY DEF ListenInv, ListenTypes
    <3>2. data' = [data EXCEPT ![i] = d]
      BY <2>2
    <3> HIDE DEF d
    <3>3. freelist' \in Seq(Ids) /\ asked' = [j \in Ids |-> asked'[j]]
      BY <2>2 DEF ListenInv, ListenTypes
    <3> QED
      BY <2>2, <3>1, <3>2, <3>3, CellTypes DEF ListenInv
  <2> QED
    BY <2>1, <2>2 DEF ftrigr_check
<1>3. StillHeard
  BY <1>1, SameHeard DEF server
<1>4. ListenTypes'
  BY <1>1, <1>2 DEF ListenInv, ListenTypes, server
<1>5. Served'
  BY <1>1 DEF ListenInv, Served, server
<1>6. Asking'
  BY <1>1, <1>3, SameAsking DEF ListenInv, server
<1>7. Listeners'
  BY <1>1, <1>2, <1>3 DEF ListenInv, Listeners, Listening, StillHeard, server
<1> QED
  BY <1>4, <1>5, <1>6, <1>7 DEF ListenInv

LEMMA UnsubscribeListen ==
  ASSUME ListenInv, NEW i \in Ids, ftrigr_unsubscribe(i), UNCHANGED <<server, fifo>>
  PROVE  ListenInv'
<1> DEFINE c == [op |-> "U", id |-> i]
<1>1. /\ open /\ pc # "gone" /\ call = NoCall
      /\ call' = c /\ req' = Append(req, call')
      /\ UNCHANGED <<data, asked, freelist, open, acks, async, server, fifo>>
  BY DEF ftrigr_unsubscribe, Idle
<1>2. c \in Call /\ c # NoCall
  BY DEF Call, NoCall
<1> HIDE DEF c
<1>3. ListenTypes'
  BY <1>1, <1>2 DEF ListenInv, ListenTypes, server
<1>4. Served'
  BY <1>1 DEF ListenInv, Served, server
<1>5. Asking'
  <2>1. req = <<>> /\ acks = <<>> /\ ackbuf = <<>> /\ pc \notin {"open", "rename"}
    BY <1>1 DEF ListenInv, Asking
  <2>2. Waiting'
    BY <1>1, <2>1 DEF Waiting, server
  <2> QED
    BY <1>1, <1>2, <2>1, <2>2 DEF Asking, server
<1>6. Listeners'
  <2>1. StillHeard
    BY <1>1, SameHeard DEF server
  <2>2. \A j \in Ids : Listening(j)' => Listening(j)
    BY <1>1 DEF Listening, NoCall, server
  <2> QED
    BY <1>1, <2>1, <2>2 DEF ListenInv, Listeners, StillHeard
<1> QED
  BY <1>3, <1>4, <1>5, <1>6 DEF ListenInv

\* The answer makes the subscription listen that it says is there, or stop.
LEMMA GetAckListen ==
  ASSUME ListenInv, GetAck, UNCHANGED <<server, fifo>>
  PROVE  ListenInv'
<1> DEFINE ok == acks # <<>> /\ Head(acks)
           i == call.id
           d == [Zero EXCEPT !.state = "LISTENING", !.repeat = call.repeat]
<1>1. /\ call # NoCall /\ (acks # <<>> \/ pc = "gone") /\ call' = NoCall
      /\ UNCHANGED <<open, req, async, server, fifo>>
      /\ acks' = IF acks = <<>> THEN acks ELSE Tail(acks)
  BY DEF GetAck
<1>2. call \in Call /\ i \in Ids /\ call.op \in {"L", "U"}
  BY <1>1 DEF ListenInv, ListenTypes, Call
<1>3. \/ /\ call.op = "L" /\ ok /\ freelist' = freelist
         /\ data' = [data EXCEPT ![i] = d] /\ asked' = [asked EXCEPT ![i] = call.re]
      \/ /\ call.op = "L" /\ ~ok /\ freelist' = Append(freelist, i)
         /\ UNCHANGED <<data, asked>>
      \/ /\ call.op = "U" /\ ok /\ freelist' = Append(freelist, i)
         /\ data' = [data EXCEPT ![i] = Zero] /\ asked' = [asked EXCEPT ![i] = {}]
      \/ /\ call.op = "U" /\ ~ok /\ freelist' = freelist
         /\ UNCHANGED <<data, asked>>
  BY <1>2 DEF GetAck
<1>4. /\ {"state", "repeat"} \subseteq DOMAIN d /\ d.repeat = call.repeat
      /\ {"state", "repeat"} \subseteq DOMAIN Zero /\ Zero.state # "LISTENING"
  BY DEF Zero
<1> HIDE DEF d
<1>5. /\ data' = [j \in Ids |-> data'[j]]
      /\ \A j \in Ids : {"state", "repeat"} \subseteq DOMAIN data'[j]
      /\ call.op = "L" /\ ok => data'[i] = d
      /\ call.op = "U" /\ ok => data'[i] = Zero
      /\ \A j \in Ids : j # i => data'[j] = data[j]
      /\ ~ok => data' = data
  <2>1. CASE data' = data /\ ~ok
    BY <2>1 DEF ListenInv, ListenTypes
  <2>2. CASE data' = [data EXCEPT ![i] = d] /\ call.op = "L" /\ ok
    BY <1>2, <1>4, <2>2, CellTypes DEF ListenInv
  <2>3. CASE data' = [data EXCEPT ![i] = Zero] /\ call.op = "U" /\ ok
    BY <1>2, <1>4, <2>3, CellTypes DEF ListenInv
  <2> QED
    BY <1>3, <2>1, <2>2, <2>3
<1>6. /\ asked' = [j \in Ids |-> asked'[j]]
      /\ \A j \in Ids : j # i => asked'[j] = asked[j]
      /\ call.op = "L" /\ ok => asked'[i] = call.re
      /\ ~ok => asked' = asked
  <2>1. asked = [j \in Ids |-> asked[j]]
    BY DEF ListenInv, ListenTypes
  <2> QED
    BY <1>2, <1>3, <2>1
<1>7. ListenTypes'
  <2>1. freelist \in Seq(Ids) /\ (freelist' = freelist \/ freelist' = Append(freelist, i))
    BY <1>3 DEF ListenInv, ListenTypes
  <2>2. freelist' \in Seq(Ids)
    BY <1>2, <2>1
  <2> QED
    BY <1>1, <1>5, <1>6, <2>2 DEF ListenInv, ListenTypes, server
<1>8. Served'
  BY <1>1 DEF ListenInv, Served, server
<1>9. StillHeard
  BY <1>1, SameHeard DEF server
<1>10. CASE pc = "gone"
  BY <1>1, <1>7, <1>8, <1>10 DEF ListenInv, Asking, Listeners, Listening, server
<1>11. CASE pc # "gone"
  <2>1. acks # <<>> /\ Answered
    BY <1>1, <1>11 DEF ListenInv, Asking, Waiting
  <2>2. PICK good \in BOOLEAN :
          /\ req = <<>> /\ acks = <<good>> /\ ackbuf = <<>>
          /\ good \/ call.op = "L"
          /\ good /\ call.op = "L" => Heard(call.id, call.re, call.repeat)
    BY <2>1 DEF Answered
  <2>3. Head(acks) = good /\ Tail(acks) = <<>> /\ acks # <<>>
    BY <2>2
  <2>4. /\ req = <<>> /\ ackbuf = <<>> /\ acks' = <<>>
        /\ ok \/ call.op = "L"
        /\ ok /\ call.op = "L" => Heard(call.id, call.re, call.repeat)
    BY <1>1, <2>2, <2>3
  <2>5. Asking'
    <3>1. pc \notin {"open", "rename"}
      BY <1>1, <1>11, <2>3, <2>4 DEF ListenInv, Asking, Waiting
    <3> QED
      BY <1>1, <2>4, <3>1 DEF Asking, server
  <2>6. Listeners'
    <3> SUFFICES ASSUME NEW j \in Ids, Listening(j)'
                 PROVE  Heard(j, asked[j], data[j].repeat)'
      BY DEF Listeners
    <3>1. CASE j = i /\ call.op = "L" /\ ok
      BY <1>4, <1>5, <1>6, <1>9, <2>4, <3>1 DEF StillHeard
    <3>2. CASE j = i /\ call.op = "U"
      BY <1>4, <1>5, <2>4, <3>2 DEF Listening
    <3>3. CASE j # i \/ (call.op = "L" /\ ~ok)
      <4>1. data'[j] = data[j] /\ asked'[j] = asked[j] /\ Listening(j)
        BY <1>1, <1>5, <1>6, <1>11, <3>3 DEF Listening, server
      <4> QED
        BY <1>9, <4>1 DEF ListenInv, Listeners, StillHeard
    <3> QED
      BY <1>2, <3>1, <3>2, <3>3
  <2> QED
    BY <1>7, <1>8, <2>5, <2>6 DEF ListenInv
<1> QED
  BY <1>10, <1>11

\* What a cell comes to when the messages ns have been handled: if it listens, none of
\* them was an end.
LEMMA HandlerFacts ==
  ASSUME NEW d, {"state", "repeat"} \subseteq DOMAIN d, NEW ns
  PROVE  /\ {"state", "repeat"} \subseteq DOMAIN msghandler(d, ns)
         /\ msghandler(d, ns).state = "LISTENING" =>
              /\ d.state = "LISTENING" /\ msghandler(d, ns).repeat = d.repeat
              /\ \A n \in ns : ~Ends(d, async[n])
         /\ ns = {} => msghandler(d, ns).state = d.state
<1> DEFINE last == {n \in ns : Ends(d, async[n])}
           state == IF \E n \in last : async[n].what = "d" THEN "WAITACK"
                    ELSE "WAITACKDATA"
           h == msghandler(d, ns)
<1>1. h = IF last = {} THEN [d EXCEPT !.count = @ + Cardinality(ns)]
          ELSE [d EXCEPT !.count = @ + Cardinality(ns) - 1, !.state = state]
  BY DEF msghandler
<1>2. state # "LISTENING"
  OBVIOUS
<1> HIDE DEF state, h
<1>3. CASE last = {}
  <2>1. DOMAIN h = DOMAIN d /\ h.state = d.state /\ h.repeat = d.repeat
    BY <1>1, <1>3
  <2> QED
    BY <1>3, <2>1 DEF h
<1>4. CASE last # {}
  <2> HIDE DEF last
  <2>1. DOMAIN h = DOMAIN d /\ h.state = state
    BY <1>1, <1>4
  <2>2. ns # {}
    BY <1>4 DEF last
  <2> QED
    BY <1>2, <2>1, <2>2 DEF h
<1> QED
  BY <1>3, <1>4

\* What is after the next message stays.
LEMMA MessagesLeft ==
  ASSUME async \in Seq(Msg), NEW next \in 1 .. Len(async) + 1,
         async' = SubSeq(async, next + 1, Len(async))
  PROVE  /\ async' \in Seq(Msg)
         /\ \A n \in next + 1 .. Len(async) : async[n] \in Range(async')
<1> DEFINE f == SubSeq(async, next + 1, Len(async))
<1>1. Len(async) \in Nat /\ \A i \in 1 .. Len(async) : async[i] \in Msg
  OBVIOUS
<1>2. /\ f \in Seq(Msg)
      /\ Len(f) = IF next + 1 <= Len(async) THEN Len(async) - next ELSE 0
      /\ \A i \in 1 .. Len(async) - (next + 1) + 1 : f[i] = async[next + 1 + i - 1]
  BY <1>1, SubSeqProperties
<1>3. f = async'
  OBVIOUS
<1> HIDE DEF f
<1>4. ASSUME NEW n \in next + 1 .. Len(async)
      PROVE  async[n] \in Range(f)
  <2>1. DOMAIN f = 1 .. Len(f) /\ n \in Nat /\ next \in Nat
    <3>1. DOMAIN f = 1 .. Len(f)
      BY <1>2
    <3> QED
      BY <1>1, <3>1
  <2>2. n - next \in 1 .. Len(async) - next /\ Len(f) = Len(async) - next
    BY <1>1, <1>2, <2>1
  <2>3. f[n - next] = async[n]
    BY <1>1, <1>2, <2>1, <2>2, next + 1 + (n - next) - 1 = n,
       Len(async) - (next + 1) + 1 = Len(async) - next
  <2> QED
    BY <2>1, <2>2, <2>3 DEF Range
<1> QED
  BY <1>2, <1>3, <1>4

\* A message that ends a subscription is handled, or is still there.
LEMMA UpdateEnds ==
  ASSUME ListenInv, ftrigr_update, UNCHANGED server,
         NEW next \in 1 .. Len(async) + 1, next <= Len(async) => Invalid(next),
         \A n \in next + 1 .. Len(async) : async[n] \in Range(async'),
         NEW i \in Ids, data[i].state = "LISTENING", data'[i].repeat = data[i].repeat,
         \A n \in For(i, next) : ~Ends(data[i], async[n]),
         Ended(i, data[i].repeat)
  PROVE  Ended(i, data[i].repeat)'
<1>1. async \in Seq(Msg) /\ Len(async) \in Nat /\ DOMAIN async = 1 .. Len(async)
  BY DEF ListenInv, ListenTypes
<1>2. ASSUME NEW m \in Range(asyncbuf), m.id = i, m.what = "d" \/ ~data[i].repeat
      PROVE  Ended(i, data[i].repeat)'
  BY <1>2 DEF Ended, server
<1>3. ASSUME NEW n \in DOMAIN async, async[n].id = i,
             async[n].what = "d" \/ ~data[i].repeat
      PROVE  Ended(i, data[i].repeat)'
  <2>1. Ends(data[i], async[n])
    BY <1>3 DEF Ends
  <2>2. ~(n < next)
    BY <1>3, <2>1 DEF For
  <2>3. n # next
    <3> SUFFICES ASSUME n = next PROVE FALSE
      OBVIOUS
    <3>1. Invalid(n)
      BY <1>1
    <3>2. PICK k \in For(i, n) : Ends(data[i], async[k])
      BY <1>3, <3>1 DEF Invalid
    <3> QED
      BY <3>2
  <2>4. async[n] \in Range(async')
    BY <1>1, <2>2, <2>3
  <2> QED
    BY <1>3, <2>4 DEF Ended
<1> QED
  BY <1>2, <1>3 DEF Ended, Range

LEMMA UpdateListen ==
  ASSUME ListenInv, ftrigr_update, UNCHANGED <<server, fifo>>
  PROVE  ListenInv'
<1>1. /\ open /\ call = NoCall
      /\ UNCHANGED <<freelist, call, asked, open, req, acks, server, fifo>>
  BY DEF ftrigr_update, Idle
<1>2. PICK next \in 1 .. Len(async) + 1 :
        /\ next <= Len(async) => Invalid(next)
        /\ data' = [i \in Ids |-> msghandler(data[i], For(i, next))]
        /\ async' = SubSeq(async, next + 1, Len(async))
  BY DEF ftrigr_update
<1>3. async \in Seq(Msg) /\ Len(async) \in Nat /\ DOMAIN async = 1 .. Len(async)
  BY DEF ListenInv, ListenTypes
<1>4. /\ async' \in Seq(Msg)
      /\ \A n \in next + 1 .. Len(async) : async[n] \in Range(async')
  BY <1>2, MessagesLeft DEF ListenInv, ListenTypes
<1>5. \A i \in Ids :
        /\ {"state", "repeat"} \subseteq DOMAIN data'[i]
        /\ data'[i].state = "LISTENING" =>
             /\ data[i].state = "LISTENING" /\ data'[i].repeat = data[i].repeat
             /\ \A n \in For(i, next) : ~Ends(data[i], async[n])
  BY <1>2, HandlerFacts DEF ListenInv, ListenTypes
<1>6. ListenTypes'
  BY <1>1, <1>2, <1>4, <1>5 DEF ListenInv, ListenTypes, server
<1>7. Served'
  BY <1>1 DEF ListenInv, Served, server
<1>8. Asking'
  BY <1>1 DEF ListenInv, Asking, server, NoCall
<1>9. Listeners'
  <2> SUFFICES ASSUME NEW i \in Ids, Listening(i)'
               PROVE  Heard(i, asked[i], data[i].repeat)'
    BY DEF Listeners
  <2>1. /\ data[i].state = "LISTENING" /\ data'[i].repeat = data[i].repeat
        /\ \A n \in For(i, next) : ~Ends(data[i], async[n])
    BY <1>5 DEF Listening
  <2>2. Heard(i, asked[i], data[i].repeat)
    BY <1>1, <2>1 DEF ListenInv, Listeners, Listening, server
  <2>3. CASE \E k \in DOMAIN a :
             a[k].id = i /\ a[k].re = asked[i] /\ a[k].repeat = data[i].repeat
    BY <1>1, <2>1, <2>3 DEF Heard, Ended, server
  <2>4. CASE Ended(i, data[i].repeat)
    BY <1>2, <1>4, <2>1, <2>4, UpdateEnds DEF Heard
  <2> QED
    BY <2>2, <2>3, <2>4 DEF Heard
<1> QED
  BY <1>6, <1>7, <1>8, <1>9 DEF ListenInv

LEMMA ClientListen ==
  ASSUME ListenInv, ClientNext
  PROVE  ListenInv'
BY SubscribeListen, CheckListen, UnsubscribeListen, GetAckListen, UpdateListen
   DEF ClientNext

LEMMA EndListen ==
  ASSUME ListenInv, ftrigr_end
  PROVE  ListenInv'
<1>1. /\ call = NoCall /\ open' = FALSE /\ async' = <<>>
      /\ data' = [i \in Ids |-> Zero] /\ asked' = [i \in Ids |-> {}]
      /\ UNCHANGED <<freelist, call, req, server, fifo>>
  BY DEF ftrigr_end, Idle
<1>2. {"state", "repeat"} \subseteq DOMAIN Zero
  BY DEF Zero
<1>3. async' \in Seq(Msg)
  BY <1>1, EmptySeq
<1>4. ListenTypes'
  BY <1>1, <1>2, <1>3 DEF ListenInv, ListenTypes, server
<1>5. Served' /\ Asking' /\ Listeners'
  BY <1>1 DEF ListenInv, Served, Asking, Listeners, Listening, server
<1> QED
  BY <1>4, <1>5 DEF ListenInv

-----------------------------------------------------------------------------
(* s6-ftrigrd.                                                             *)

\* The session is over; nobody is told that he listens.
LEMMA GoneListen ==
  ASSUME ListenInv, a' = <<>>, pc' = "gone",
         UNCHANGED <<data, asked, freelist, call, async, asyncbuf>>,
         \A n \in DOMAIN fifo' : {"name", "reader"} \subseteq DOMAIN fifo'[n]
  PROVE  ListenInv'
<1>1. ListenTypes'
  BY DEF ListenInv, ListenTypes
<1>2. Served' /\ Asking' /\ Listeners'
  BY DEF Served, Asking, Listeners, Listening
<1> QED
  BY <1>1, <1>2 DEF ListenInv

LEMMA CleanupListen ==
  ASSUME FifoInv, ListenInv, cleanup, UNCHANGED client
  PROVE  ListenInv'
<1>1. /\ fifo' = Freed(fifo, {a[k].n : k \in DOMAIN a})
      /\ a' = <<>> /\ pc' = "gone" /\ UNCHANGED <<async, asyncbuf>>
  BY DEF cleanup, pipes
<1>2. \A n \in DOMAIN fifo' : {"name", "reader"} \subseteq DOMAIN fifo'[n]
  BY <1>1 DEF ListenInv, ListenTypes, Freed
<1> QED
  BY <1>1, <1>2, GoneListen DEF client

\* What is in the buffers goes to the pipes, in order.
LEMMA IopauseListen ==
  ASSUME FifoInv, ListenInv, Iopause, UNCHANGED client
  PROVE  ListenInv'
<1>1. CASE ~open
  BY <1>1, CleanupListen DEF Iopause
<1>2. CASE open
  <2>1. /\ acks' = acks \o ackbuf /\ async' = async \o asyncbuf
        /\ ackbuf' = <<>> /\ asyncbuf' = <<>> /\ pc = "pause" /\ pc' = "scan"
        /\ UNCHANGED <<a, req, fifo, data, asked, freelist, call, open>>
    BY <1>2 DEF Iopause, client
  <2>2. /\ async' \in Seq(Msg) /\ Range(async') = Range(async) \cup Range(asyncbuf)
        /\ asyncbuf' \in Seq(Msg)
    BY <2>1, RangeConcatenation, EmptySeq DEF ListenInv, ListenTypes
  <2>3. StillHeard
    BY <2>1, <2>2 DEF StillHeard, Heard, Ended
  <2>4. ListenTypes' /\ Served'
    BY <2>1, <2>2 DEF ListenInv, ListenTypes, Served
  <2>5. Asking'
    <3>1. ASSUME acks = <<>>, ackbuf = <<>>
          PROVE  acks' = <<>>
      BY <2>1, <3>1
    <3>2. Waiting => Waiting'
      BY <2>1, <3>1 DEF Waiting
    <3>3. ASSUME Answered PROVE Answered'
      <4>1. PICK ok \in BOOLEAN :
              /\ \/ acks = <<ok>> /\ ackbuf = <<>>
                 \/ acks = <<>> /\ ackbuf = <<ok>>
              /\ ok \/ call.op = "L"
              /\ ok /\ call.op = "L" => Heard(call.id, call.re, call.repeat)
        BY <3>3 DEF Answered
      <4>2. acks' = <<ok>> /\ ackbuf' = <<>>
        <5>1. acks = <<ok>> /\ ackbuf = <<>> => acks \o ackbuf = <<ok>>
          OBVIOUS
        <5>2. acks = <<>> /\ ackbuf = <<ok>> => acks \o ackbuf = <<ok>>
          OBVIOUS
        <5> QED
          BY <2>1, <4>1, <5>1, <5>2
      <4>3. ok /\ call.op = "L" => Heard(call.id, call.re, call.repeat)'
        BY <2>1, <2>3, <4>1 DEF StillHeard
      <4> QED
        BY <2>1, <3>3, <4>1, <4>2, <4>3 DEF Answered
    <3> QED
      BY <2>1, <3>1, <3>2, <3>3 DEF ListenInv, Asking
  <2>6. Listeners'
    BY <2>1, <2>3, SameListeners DEF ListenInv
  <2> QED
    BY <2>4, <2>5, <2>6 DEF ListenInv
<1> QED
  BY <1>1, <1>2

\* The fifo of an entry that goes is removed, and the others keep theirs.
LEMMA EntryServed ==
  ASSUME FifoInv, ListenInv, NEW k \in DOMAIN a, a' = Without(k),
         pc' \notin {"open", "rename"},
         DOMAIN fifo' = DOMAIN fifo,
         \A n \in DOMAIN fifo : n # a[k].n => fifo'[n].name = fifo[n].name
                                              /\ fifo'[n].reader = fifo[n].reader
  PROVE  Served'
<1>1. /\ DOMAIN a' = 1 .. Len(a) - 1
      /\ \A j \in DOMAIN a' : a'[j] = a[IF j = k THEN Len(a) ELSE j]
      /\ DOMAIN a = 1 .. Len(a) /\ Len(a) \in Nat
  BY WithoutIs DEF FifoInv, Entries
<1> DEFINE at(j) == IF j = k THEN Len(a) ELSE j
<1>2. \A j \in DOMAIN a' : /\ at(j) \in DOMAIN a /\ at(j) # k /\ a'[j] = a[at(j)]
                           /\ \A i \in DOMAIN a' : at(i) = at(j) => i = j
  BY <1>1
<1> HIDE DEF at
<1>3. \A j \in DOMAIN a' : /\ a'[j].n \in DOMAIN fifo
                           /\ fifo'[a'[j].n].name = "shown" /\ fifo'[a'[j].n].reader
  BY <1>2 DEF ListenInv, Served
<1>4. \A i, j \in DOMAIN a' : a'[i].n = a'[j].n => i = j
  BY <1>2 DEF ListenInv, Served
<1> QED
  BY <1>3, <1>4 DEF Served

LEMMA FreedFields ==
  ASSUME ListenTypes, NEW ns, fifo' = Freed(fifo, ns)
  PROVE  /\ DOMAIN fifo' = DOMAIN fifo
         /\ \A n \in DOMAIN fifo : {"name", "reader"} \subseteq DOMAIN fifo'[n]
         /\ \A n \in DOMAIN fifo : n \notin ns => fifo'[n] = fifo[n]
<1>1. /\ DOMAIN fifo' = DOMAIN fifo
      /\ \A i \in DOMAIN fifo :
        IF i \in ns THEN fifo'[i] = [name |-> "none", reader |-> FALSE, bytes |-> <<>>]
        ELSE fifo'[i] = fifo[i]
  BY DEF Freed
<1>2. {"name", "reader"} \subseteq DOMAIN [name |-> "none", reader |-> FALSE, bytes |-> <<>>]
  OBVIOUS
<1> QED
  BY <1>1, <1>2 DEF ListenTypes

\* What was reported of an entry that goes, ends its subscription.
LEMMA ScanListen ==
  ASSUME FifoInv, ListenInv, Scan, UNCHANGED client
  PROVE  ListenInv'
<1>1. PICK k \in DOMAIN a :
        /\ Feed(k, Append(a[k].dfa, Head(fifo[a[k].n].bytes)))
        /\ fifo' = IF \E j \in DOMAIN a' : a'[j].n = a[k].n
                   THEN [fifo EXCEPT ![a[k].n].bytes = Tail(@)] ELSE Freed(fifo, {a[k].n})
  BY DEF Scan
<1> DEFINE n == a[k].n
           e == a[k]
<1>2. /\ pc = "scan" /\ pc' = "scan"
      /\ UNCHANGED <<data, asked, freelist, call, open, req, acks, async, ackbuf>>
  BY DEF Scan, client, pipes
<1>3. /\ DOMAIN fifo' = DOMAIN fifo
      /\ \A i \in DOMAIN fifo : {"name", "reader"} \subseteq DOMAIN fifo'[i]
      /\ \A i \in DOMAIN fifo : i # n => fifo'[i].name = fifo[i].name
                                         /\ fifo'[i].reader = fifo[i].reader
      /\ (\E j \in DOMAIN a' : a'[j].n = n) => Untouched
  <2>1. CASE \E j \in DOMAIN a' : a'[j].n = n
    <3>1. fifo' = [fifo EXCEPT ![n].bytes = Tail(fifo[n].bytes)]
      BY <1>1, <2>1
    <3>2. Untouched
      BY <3>1, BytesUntouched DEF ListenInv
    <3>3. \A i \in DOMAIN fifo : fifo'[i].name = fifo[i].name
                                 /\ fifo'[i].reader = fifo[i].reader
      BY <3>1 DEF ListenInv, ListenTypes
    <3> QED
      BY <3>2, <3>3 DEF Untouched
  <2>2. CASE ~\E j \in DOMAIN a' : a'[j].n = n
    <3>1. fifo' = Freed(fifo, {n})
      BY <1>1, <2>2
    <3>2. /\ DOMAIN fifo' = DOMAIN fifo
          /\ \A i \in DOMAIN fifo : {"name", "reader"} \subseteq DOMAIN fifo'[i]
          /\ \A i \in DOMAIN fifo : i \notin {n} => fifo'[i] = fifo[i]
      BY <3>1, FreedFields DEF ListenInv
    <3> QED
      BY <2>2, <3>2
  <2> QED
    BY <2>1, <2>2
<1>4. /\ asyncbuf' \in Seq(Msg) /\ Range(asyncbuf) \subseteq Range(asyncbuf')
      /\ \/ /\ a' = Without(k)
            /\ \E m \in Range(asyncbuf') : m.id = e.id /\ (m.what = "d" \/ ~e.repeat)
         \/ \E d : a' = [a EXCEPT ![k].dfa = d]
  <2>1. e.id \in Ids /\ asyncbuf \in Seq(Msg)
    BY DEF ListenInv, ListenTypes
  <2>2. ASSUME NEW what \in {"!", "d"}, trig(e.id, what)
        PROVE  /\ asyncbuf' \in Seq(Msg) /\ Range(asyncbuf) \subseteq Range(asyncbuf')
               /\ \E m \in Range(asyncbuf') : m.id = e.id /\ m.what = what
    <3> DEFINE m == [id |-> e.id, what |-> what]
    <3>1. m \in Msg /\ m.id = e.id /\ m.what = what
      BY <2>1 DEF Msg
    <3>2. asyncbuf' = Append(asyncbuf, m)
      BY <2>2 DEF trig
    <3> HIDE DEF m
    <3>3. /\ asyncbuf' \in Seq(Msg) /\ Len(asyncbuf') = Len(asyncbuf) + 1
          /\ Len(asyncbuf) \in Nat
          /\ \A i \in 1 .. Len(asyncbuf) : asyncbuf'[i] = asyncbuf[i]
          /\ asyncbuf'[Len(asyncbuf')] = m
      BY <2>1, <3>1, <3>2, AppendProperties
    <3>4. DOMAIN asyncbuf = 1 .. Len(asyncbuf) /\ DOMAIN asyncbuf' = 1 .. Len(asyncbuf')
      BY <2>1, <3>3
    <3>5. m \in Range(asyncbuf') /\ Range(asyncbuf) \subseteq Range(asyncbuf')
      BY <3>3, <3>4 DEF Range
    <3> QED
      BY <3>1, <3>3, <3>5
  <2>3. CASE trig(e.id, "!") /\ e.repeat /\ a' = [a EXCEPT ![k].dfa = <<>>]
    BY <2>2, <2>3
  <2>4. CASE trig(e.id, "!") /\ ~e.repeat /\ a' = Without(k)
    BY <2>2, <2>4
  <2>5. CASE trig(e.id, "d") /\ a' = Without(k)
    BY <2>2, <2>5
  <2>6. CASE UNCHANGED asyncbuf /\ \E d : a' = [a EXCEPT ![k].dfa = d]
    BY <2>1, <2>6
  <2> QED
    BY <1>1, <2>3, <2>4, <2>5, <2>6 DEF Feed
<1>5. CASE a' = Without(k) /\ \E m \in Range(asyncbuf') :
                                m.id = e.id /\ (m.what = "d" \/ ~e.repeat)
  <2>1. /\ \A j \in DOMAIN a' : \E i \in DOMAIN a : a'[j] = a[i]
        /\ \A i \in DOMAIN a : i # k => \E j \in DOMAIN a' : a'[j] = a[i]
    BY <1>5, WithoutFacts DEF FifoInv
  <2>2. ListenTypes'
    BY <1>2, <1>3, <1>4, <2>1 DEF ListenInv, ListenTypes
  <2>3. Served'
    BY <1>2, <1>3, <1>5, EntryServed
  <2>4. StillHeard
    BY <1>2, <1>4, <1>5, <2>1 DEF StillHeard, Heard, Ended
  <2>5. Asking' /\ Listeners'
    BY <1>2, <2>4, SameAsking, SameListeners DEF ListenInv
  <2> QED
    BY <2>2, <2>3, <2>5 DEF ListenInv
<1>6. ASSUME NEW d, a' = [a EXCEPT ![k].dfa = d]
      PROVE  ListenInv'
  <2>1. /\ DOMAIN a' = DOMAIN a
        /\ \A i \in DOMAIN a : /\ {"id", "n", "re", "repeat"} \subseteq DOMAIN a'[i]
                               /\ a'[i].id = a[i].id /\ a'[i].n = a[i].n
                               /\ a'[i].repeat = a[i].repeat /\ a'[i].re = a[i].re
    BY <1>6 DEF ListenInv, ListenTypes
  <2>2. Untouched
    BY <1>3, <2>1
  <2>3. ListenTypes'
    BY <1>2, <1>3, <1>4, <2>1 DEF ListenInv, ListenTypes
  <2>4. Served'
    BY <1>2, <2>1, <2>2 DEF ListenInv, Served, Untouched
  <2>5. StillHeard
    BY <1>2, <1>4, <2>1 DEF StillHeard, Heard, Ended
  <2>6. Asking' /\ Listeners'
    BY <1>2, <2>5, SameAsking, SameListeners DEF ListenInv
  <2> QED
    BY <2>3, <2>4, <2>6 DEF ListenInv
<1> QED
  BY <1>4, <1>5, <1>6

\* The request at hand is the call that the client waits in.
LEMMA AtRequest ==
  ASSUME Asking, pc # "gone", req # <<>>
  PROVE  /\ call # NoCall /\ open /\ Waiting /\ Head(req) = call /\ Tail(req) = <<>>
<1>1. call # NoCall /\ open /\ req = <<call>> /\ Waiting
  BY DEF Asking, Waiting, Answered
<1> QED
  BY <1>1

\* A good answer to ftrigr_unsubscribe(), or a bad one to ftrigr_subscribe(), or a
\* good one when there is an entry.
LEMMA AnswerAsking ==
  ASSUME Asking, pc # "gone", req # <<>>, NEW ok \in BOOLEAN, answer(ok),
         req' = Tail(req), pc' = "parse", UNCHANGED <<acks, call, open>>,
         ok \/ call.op = "L",
         ok /\ call.op = "L" => Heard(call.id, call.re, call.repeat)'
  PROVE  Asking'
<1>1. call # NoCall /\ open /\ Waiting /\ Tail(req) = <<>>
  BY AtRequest
<1>2. ackbuf' = <<ok>> /\ acks' = <<>> /\ req' = <<>>
  BY <1>1 DEF answer, Waiting
<1>3. Answered'
  BY <1>2 DEF Answered
<1> QED
  BY <1>1, <1>3 DEF Asking

LEMMA UnsubscribeServes ==
  ASSUME FifoInv, ListenInv, Unsubscribe, UNCHANGED client
  PROVE  ListenInv'
<1>1. /\ pc = "parse" /\ pc' = "parse" /\ req # <<>> /\ Head(req).op = "U"
      /\ answer(TRUE) /\ req' = Tail(req)
      /\ UNCHANGED <<asyncbuf, acks, async, data, asked, freelist, call, open>>
  BY DEF Unsubscribe, client
<1>2. call # NoCall /\ Head(req) = call /\ call.op = "U"
  BY <1>1, AtRequest DEF ListenInv
<1>3. Asking'
  BY <1>1, <1>2, AnswerAsking DEF ListenInv
<1>4. CASE UNCHANGED <<a, fifo>>
  <2>1. StillHeard
    BY <1>1, <1>4, SameHeard
  <2>2. ListenTypes' /\ Served' /\ Listeners'
    BY <1>1, <1>4, <2>1, SameListeners DEF ListenInv, ListenTypes, Served
  <2> QED
    BY <1>3, <2>2 DEF ListenInv
<1>5. ASSUME NEW k \in DOMAIN a, a[k].id = call.id, a' = Without(k),
             fifo' = Freed(fifo, {a[k].n})
      PROVE  ListenInv'
  <2>1. /\ \A j \in DOMAIN a' : \E i \in DOMAIN a : a'[j] = a[i]
        /\ \A i \in DOMAIN a : i # k => \E j \in DOMAIN a' : a'[j] = a[i]
    BY <1>5, WithoutFacts DEF FifoInv
  <2>2. /\ DOMAIN fifo' = DOMAIN fifo
        /\ \A n \in DOMAIN fifo : {"name", "reader"} \subseteq DOMAIN fifo'[n]
        /\ \A n \in DOMAIN fifo : n \notin {a[k].n} => fifo'[n] = fifo[n]
    BY <1>5, FreedFields DEF ListenInv
  <2>3. ListenTypes'
    BY <1>1, <2>1, <2>2 DEF ListenInv, ListenTypes
  <2>4. Served'
    BY <1>1, <1>5, <2>2, EntryServed
  <2>5. Listeners'
    <3> SUFFICES ASSUME NEW i \in Ids, Listening(i)'
                 PROVE  Heard(i, asked[i], data[i].repeat)'
      BY DEF Listeners
    <3>1. i # call.id /\ Listening(i)
      BY <1>1, <1>2 DEF Listening
    <3>2. Heard(i, asked[i], data[i].repeat)
      BY <3>1 DEF ListenInv, Listeners
    <3> QED
      BY <1>1, <1>5, <2>1, <3>1, <3>2 DEF Heard, Ended
  <2> QED
    BY <1>3, <2>3, <2>4, <2>5 DEF ListenInv
<1> QED
  BY <1>2, <1>4, <1>5 DEF Unsubscribe

\* ftrig1_make() does not touch the fifos that have entries.
LEMMA MakeFifoListen ==
  ASSUME FifoInv, ListenInv, MakeFifo, UNCHANGED client
  PROVE  ListenInv'
<1> DEFINE new == [name |-> "hidden", reader |-> FALSE, bytes |-> <<>>]
           S == Range(fifo) \cup {new}
<1>1. /\ fifo' = Append(fifo, new) /\ pc = "parse" /\ pc' = "open"
      /\ req # <<>> /\ Head(req).op = "L"
      /\ UNCHANGED <<a, asyncbuf, acks, ackbuf, req, async, data, asked, freelist, call, open>>
  BY DEF MakeFifo, Subscribing, client, pipes
<1>2. fifo \in Seq(S) /\ new \in S
  BY SeqMonotonic DEF FifoInv, Rows
<1>3. {"name", "reader"} \subseteq DOMAIN new /\ new.name = "hidden"
  OBVIOUS
<1> HIDE DEF new, S
<1>4. /\ Len(fifo') = Len(fifo) + 1 /\ Len(fifo) \in Nat /\ fifo' # <<>>
      /\ DOMAIN fifo = 1 .. Len(fifo) /\ DOMAIN fifo' = 1 .. Len(fifo')
      /\ \A n \in DOMAIN fifo : fifo'[n] = fifo[n]
      /\ fifo'[Len(fifo')] = new
  BY <1>1, <1>2
<1>5. \A n \in DOMAIN fifo' : n \in DOMAIN fifo \/ n = Len(fifo')
  BY <1>4
<1>6. ListenTypes'
  BY <1>1, <1>3, <1>4, <1>5 DEF ListenInv, ListenTypes
<1>7. Served'
  <2>1. \A k \in DOMAIN a : /\ a[k].n \in DOMAIN fifo /\ a[k].n \in DOMAIN fifo'
                            /\ a[k].n # Len(fifo')
    BY <1>4 DEF ListenInv, Served
  <2> QED
    BY <1>1, <1>3, <1>4, <2>1 DEF ListenInv, Served
<1>8. Asking'
  <2>1. call # NoCall /\ open /\ Waiting /\ call.op = "L"
    BY <1>1, AtRequest DEF ListenInv
  <2> QED
    BY <1>1, <2>1 DEF Asking, Waiting
<1>9. Listeners'
  BY <1>1, SameHeard, SameListeners DEF ListenInv
<1> QED
  BY <1>6, <1>7, <1>8, <1>9 DEF ListenInv

LEMMA MakeOpenListen ==
  ASSUME FifoInv, ListenInv, MakeOpen, UNCHANGED client
  PROVE  ListenInv'
<1>1. /\ fifo' = [fifo EXCEPT ![Len(fifo)].reader = TRUE] /\ pc = "open" /\ pc' = "rename"
      /\ UNCHANGED <<a, asyncbuf, acks, ackbuf, req, async, data, asked, freelist, call, open>>
  BY DEF MakeOpen, client, pipes
<1>2. /\ DOMAIN fifo' = DOMAIN fifo /\ Len(fifo') = Len(fifo)
      /\ Len(fifo) \in DOMAIN fifo /\ fifo' # <<>>
  <2>1. Fewer
    BY <1>1, BytesFewer DEF FifoInv
  <2>2. Len(fifo) \in DOMAIN fifo /\ DOMAIN fifo = 1 .. Len(fifo) /\ Len(fifo) \in Nat \ {0}
    BY <1>1 DEF FifoInv, Making, Rows
  <2> QED
    BY <2>1, <2>2 DEF Fewer
<1>3. \A n \in DOMAIN fifo : /\ {"name", "reader"} \subseteq DOMAIN fifo'[n]
                             /\ fifo'[n].name = fifo[n].name
                             /\ n = Len(fifo) \/ fifo[n].reader => fifo'[n].reader
  BY <1>1 DEF ListenInv, ListenTypes
<1>4. ListenTypes'
  BY <1>1, <1>2, <1>3 DEF ListenInv, ListenTypes
<1>5. Served'
  BY <1>1, <1>2, <1>3 DEF ListenInv, Served
<1>6. Asking'
  BY <1>1 DEF ListenInv, Asking, Waiting
<1>7. Listeners'
  BY <1>1, SameHeard, SameListeners DEF ListenInv
<1> QED
  BY <1>4, <1>5, <1>6, <1>7 DEF ListenInv

\* The answer is given when the entry is there, and its fifo can be found.
LEMMA MakeRenameListen ==
  ASSUME FifoInv, ListenInv, MakeRename, UNCHANGED client
  PROVE  ListenInv'
<1> DEFINE e == [id |-> Head(req).id, n |-> Len(fifo), re |-> Head(req).re,
                 repeat |-> Head(req).repeat, dfa |-> <<>>]
           S == Range(a) \cup {e}
<1>1. /\ fifo' = [fifo EXCEPT ![Len(fifo)].name = IF @ = "hidden" THEN "shown" ELSE @]
      /\ a' = Append(a, e) /\ pc = "rename" /\ pc' = "parse"
      /\ answer(TRUE) /\ req' = Tail(req)
      /\ UNCHANGED <<asyncbuf, acks, async, data, asked, freelist, call, open>>
  BY DEF MakeRename, client
<1>2. /\ call # NoCall /\ open /\ Waiting /\ call.op = "L"
      /\ req # <<>> /\ Head(req) = call
  <2>1. req = <<call>> /\ call.op = "L"
    BY <1>1 DEF ListenInv, Asking, Waiting
  <2>2. req # <<>>
    BY <2>1
  <2> QED
    BY <1>1, <2>1, <2>2, AtRequest DEF ListenInv
<1>3. call.id \in Ids
  BY <1>2 DEF ListenInv, ListenTypes, Call
<1>4. /\ a \in Seq(S) /\ e \in S /\ e.n = Len(fifo) /\ e.id = call.id
      /\ e.repeat = call.repeat /\ e.re = call.re
      /\ {"id", "n", "re", "repeat"} \subseteq DOMAIN e
  BY <1>2, SeqMonotonic DEF FifoInv, Entries
<1> HIDE DEF e, S
<1>5. /\ Len(a') = Len(a) + 1 /\ Len(a) \in Nat
      /\ DOMAIN a = 1 .. Len(a) /\ DOMAIN a' = 1 .. Len(a')
      /\ \A k \in DOMAIN a : k \in DOMAIN a' /\ a'[k] = a[k]
      /\ Len(a') \in DOMAIN a' /\ a'[Len(a')] = e
  BY <1>1, <1>4
<1>6. \A k \in DOMAIN a' : k \in DOMAIN a \/ k = Len(a')
  BY <1>5
<1>7. /\ DOMAIN fifo' = DOMAIN fifo
      /\ \A n \in DOMAIN fifo : /\ {"name", "reader"} \subseteq DOMAIN fifo'[n]
                                /\ fifo'[n].reader = fifo[n].reader
                                /\ fifo[n].name = "shown" => fifo'[n].name = "shown"
      /\ Len(fifo) \in DOMAIN fifo
      /\ fifo'[Len(fifo)].name = "shown" /\ fifo'[Len(fifo)].reader
  <2>1. Len(fifo) \in DOMAIN fifo
    BY <1>1 DEF FifoInv, Making, Rows
  <2>2. fifo[Len(fifo)].name = "hidden" /\ fifo[Len(fifo)].reader
    BY <1>1 DEF ListenInv, Served
  <2> QED
    BY <1>1, <2>1, <2>2 DEF ListenInv, ListenTypes
<1>8. ListenTypes'
  BY <1>1, <1>3, <1>4, <1>5, <1>6, <1>7 DEF ListenInv, ListenTypes
<1>9. Served'
  <2>1. \A k \in DOMAIN a' : a'[k].n \in DOMAIN fifo' /\ fifo'[a'[k].n].name = "shown"
                             /\ fifo'[a'[k].n].reader
    BY <1>4, <1>5, <1>6, <1>7 DEF ListenInv, Served
  <2>2. \A k \in DOMAIN a : a'[k].n # e.n
    BY <1>1, <1>4, <1>5 DEF ListenInv, Served
  <2>3. \A j, k \in DOMAIN a' : a'[j].n = a'[k].n => j = k
    BY <1>5, <1>6, <2>2 DEF ListenInv, Served
  <2> QED
    BY <1>1, <2>1, <2>3 DEF Served
<1>10. StillHeard
  BY <1>1, <1>5 DEF StillHeard, Heard, Ended
<1>11. Heard(call.id, call.re, call.repeat)'
  BY <1>1, <1>4, <1>5 DEF Heard, Ended
<1>12. Asking'
  BY <1>1, <1>2, <1>11, AnswerAsking DEF ListenInv
<1>13. Listeners'
  BY <1>1, <1>10, SameListeners DEF ListenInv
<1> QED
  BY <1>8, <1>9, <1>12, <1>13 DEF ListenInv

\* A call that fails is answered so, and the fifo that is removed is nobody's.
LEMMA MakeFailsListen ==
  ASSUME FifoInv, ListenInv, MakeFails, UNCHANGED client
  PROVE  ListenInv'
<1>1. /\ Subscribing \/ pc \in {"open", "rename"}
      /\ fifo' = IF pc = "parse" THEN fifo ELSE Freed(fifo, {Len(fifo)})
      /\ answer(FALSE) /\ req' = Tail(req) /\ pc' = "parse"
      /\ UNCHANGED <<a, asyncbuf, acks, async, data, asked, freelist, call, open>>
  BY DEF MakeFails, client
<1>2. call.op = "L" /\ req # <<>> /\ pc # "gone"
  <2>1. CASE Subscribing
    BY <2>1, AtRequest DEF Subscribing, ListenInv
  <2>2. CASE pc \in {"open", "rename"}
    BY <2>2 DEF ListenInv, Asking, Waiting
  <2> QED
    BY <1>1, <2>1, <2>2
<1>3. Asking'
  BY <1>1, <1>2, AnswerAsking DEF ListenInv
<1>4. Listeners'
  BY <1>1, <1>2, SameHeard, SameListeners DEF ListenInv
<1>5. CASE pc = "parse"
  <2>1. ListenTypes' /\ Served'
    BY <1>1, <1>5 DEF ListenInv, ListenTypes, Served
  <2> QED
    BY <1>3, <1>4, <2>1 DEF ListenInv
<1>6. CASE pc # "parse"
  <2>1. /\ DOMAIN fifo' = DOMAIN fifo
        /\ \A n \in DOMAIN fifo : {"name", "reader"} \subseteq DOMAIN fifo'[n]
        /\ \A n \in DOMAIN fifo : n \notin {Len(fifo)} => fifo'[n] = fifo[n]
    BY <1>1, <1>6, FreedFields DEF ListenInv
  <2>2. \A k \in DOMAIN a : a[k].n # Len(fifo)
    BY <1>1, <1>6 DEF ListenInv, Served, Subscribing
  <2>3. ListenTypes' /\ Served'
    BY <1>1, <2>1, <2>2 DEF ListenInv, ListenTypes, Served
  <2> QED
    BY <1>3, <1>4, <2>3 DEF ListenInv
<1> QED
  BY <1>5, <1>6

\* Nothing that matters changes.
LEMMA QuietListen ==
  ASSUME ListenInv, UNCHANGED <<client, pipes, a, ackbuf, asyncbuf, fifo>>,
         pc # "gone", pc' \notin {"open", "rename"}
  PROVE  ListenInv'
<1>1. ListenTypes' /\ Served'
  BY DEF ListenInv, ListenTypes, Served, client, pipes
<1>2. Asking' /\ Listeners'
  BY SameHeard, SameAsking, SameListeners DEF ListenInv, client, pipes
<1> QED
  BY <1>1, <1>2 DEF ListenInv

LEMMA KillListen ==
  ASSUME ListenInv, Kill
  PROVE  ListenInv'
<1>1. \A n \in DOMAIN fifo' : {"name", "reader"} \subseteq DOMAIN fifo'[n]
  BY DEF Kill, ListenInv, ListenTypes
<1> QED
  BY <1>1, GoneListen DEF Kill, client, pipes

LEMMA ListenStep ==
  ASSUME FifoInv, ListenInv, [Next]_vars
  PROVE  ListenInv'
<1>1. CASE ServerNext
  <2>1. UNCHANGED client
    BY <1>1 DEF ServerNext
  <2>2. CASE ScanDone
    BY <2>1, <2>2, QuietListen DEF ScanDone
  <2>3. CASE ParseDone
    <3>1. CASE open
      BY <2>1, <2>3, <3>1, QuietListen DEF ParseDone
    <3>2. CASE ~open
      BY <2>1, <2>3, <3>2, CleanupListen DEF ParseDone
    <3> QED
      BY <3>1, <3>2
  <2> QED
    BY <1>1, <2>1, <2>2, <2>3, IopauseListen, ScanListen, UnsubscribeServes,
       MakeFifoListen, MakeOpenListen, MakeRenameListen DEF ServerNext
<1>2. CASE MakeFailsNext
  BY <1>2, MakeFailsListen DEF MakeFailsNext
<1>3. CASE UNCHANGED vars
  <2>1. UNCHANGED <<data, asked, freelist, call, open, req, acks, async, a, ackbuf, asyncbuf,
                    pc, fifo>>
    BY <1>3 DEF vars, client, pipes, server
  <2>2. StillHeard
    BY <2>1, SameHeard
  <2>3. ListenTypes' /\ Served'
    BY <2>1 DEF ListenInv, ListenTypes, Served
  <2>4. Asking' /\ Listeners'
    BY <2>1, <2>2, SameAsking, SameListeners DEF ListenInv
  <2> QED
    BY <2>3, <2>4 DEF ListenInv
<1> QED
  BY <1>1, <1>2, <1>3, WriterListen, ClientListen, EndListen, KillListen DEF Next

LEMMA ListenInvariant == Spec => [](FifoInv /\ ListenInv)
<1>1. Init => ListenInv
  <2> SUFFICES ASSUME Init PROVE ListenInv
    OBVIOUS
  <2>1. /\ data = [i \in Ids |-> Zero] /\ asked = [i \in Ids |-> {}] /\ call = NoCall
        /\ req = <<>> /\ acks = <<>> /\ async = <<>> /\ a = <<>> /\ ackbuf = <<>>
        /\ asyncbuf = <<>> /\ pc = "pause" /\ fifo = <<>>
        /\ freelist = [k \in 1 .. Cardinality(Ids) |-> Cardinality(Ids) - k]
    BY DEF Init
  <2>2. freelist \in Seq(Ids)
    <3>1. Cardinality(Ids) \in Nat /\ Ids = 0 .. Cardinality(Ids) - 1
      BY FtrigAssumption, FS_CardinalityType
    <3> DEFINE n == Cardinality(Ids)
    <3>2. \A k \in 1 .. n : n - k \in Ids
      BY <3>1
    <3> HIDE DEF n
    <3>3. [k \in 1 .. n |-> n - k] \in [1 .. n -> Ids]
      BY <3>2
    <3>4. [k \in 1 .. n |-> n - k] \in Seq(Ids)
      BY <3>1, <3>3 DEF n
    <3> QED
      BY <2>1, <3>4 DEF n
  <2>3. async \in Seq(Msg) /\ asyncbuf \in Seq(Msg)
    BY <2>1, EmptySeq
  <2>4. {"state", "repeat"} \subseteq DOMAIN Zero /\ Zero.state = "ERROR"
    BY DEF Zero
  <2>5. ListenTypes
    BY <2>1, <2>2, <2>3, <2>4 DEF ListenTypes
  <2>6. Served /\ Asking /\ Listeners
    BY <2>1, <2>4 DEF Served, Asking, Listeners, Listening
  <2> QED
    BY <2>5, <2>6 DEF ListenInv
<1>2. FifoInv /\ ListenInv /\ [Next]_vars => ListenInv'
  BY ListenStep
<1> QED
  BY <1>1, <1>2, FifoInvariant, PTL DEF Spec

\* libftrig.html: from the return of ftrigr_subscribe() on the subscription is
\* "guaranteed to be listening", whatever is subscribed, notified, matched, ended or
\* fails at the same time, and though ids are given back and used again: there is a
\* fifo that writers find and that is read, or a message that ends the subscription is
\* on its way.
THEOREM Guaranteed == Spec => []GuaranteedToListen
<1>1. ListenInv => GuaranteedToListen
  <2> SUFFICES ASSUME ListenInv, NEW i \in Ids, Listening(i)
               PROVE  \/ \E k \in DOMAIN a :
                           a[k].id = i /\ fifo[a[k].n].name = "shown" /\ fifo[a[k].n].reader
                      \/ \E m \in Range(async \o asyncbuf) :
                           m.id = i /\ (m.what = "d" \/ ~data[i].repeat)
    BY DEF GuaranteedToListen
  <2>1. Heard(i, asked[i], data[i].repeat)
    BY DEF ListenInv, Listeners
  <2>2. Range(async \o asyncbuf) = Range(async) \cup Range(asyncbuf)
    BY RangeConcatenation DEF ListenInv, ListenTypes
  <2> QED
    BY <2>1, <2>2 DEF Heard, Ended, ListenInv, Served
<1> QED
  BY <1>1, ListenInvariant, PTL

-----------------------------------------------------------------------------
(* No event is lost.                                                       *)

Busy == {w \in Writers : writer[w].at # "rest"}

\* What is written is bytes, by finitely many; what is owed are events that decide,
\* for who listens.
EventTypes ==
  /\ writer = [w \in Writers |-> writer[w]] /\ IsFiniteSet(Busy)
  /\ \A w \in Writers :
       /\ {"at", "todo", "c", "n"} \subseteq DOMAIN writer[w]
       /\ writer[w].at = "open" => writer[w].c \in Bytes
       /\ writer[w].n # 0 => writer[w].at = "open"
  /\ \A n \in DOMAIN fifo : "bytes" \in DOMAIN fifo[n] /\ fifo[n].bytes \in Seq(Bytes)
  /\ owed \in [Ids -> Nat]
  /\ \A i \in Ids : owed[i] # 0 => Listening(i) /\ Decided(asked[i])

\* The cells of the gensetdyn that are free, or taken by the call.
Cells ==
  /\ IsInjective(freelist)
  /\ \A p \in DOMAIN freelist : data[freelist[p]].state = "ERROR"
  /\ call.op = "L" => /\ data[call.id].state = "ERROR"
                      /\ \A p \in DOMAIN freelist : freelist[p] # call.id
  /\ call.op = "U" => data[call.id].state = "LISTENING"

\* An expression that one byte decides never waits for a second one; and there is a
\* byte where poll() found one.
Reading ==
  /\ \A k \in DOMAIN a : /\ "dfa" \in DOMAIN a[k] /\ a[k].re \in Res
                         /\ Decided(a[k].re) => a[k].dfa = <<>>
  /\ pc = "scan" =>
       /\ "fifos" \in DOMAIN x
       /\ \A k \in DOMAIN a : a[k].n \in x.fifos => fifo[a[k].n].bytes # <<>>

OnTheWay(i, n) == Cardinality(Carriers(n)) + Len(fifo[n].bytes) + Cardinality(Told(i))

\* The entry that was made for the subscription, and all its events.
Carried(i) ==
  \E k \in DOMAIN a :
    /\ a[k].id = i /\ a[k].re = asked[i] /\ a[k].repeat = data[i].repeat
    /\ owed[i] <= OnTheWay(i, a[k].n)

Events == \A i \in Ids : Listening(i) => Carried(i) \/ Ended(i, data[i].repeat)

EventInv == EventTypes /\ Cells /\ Reading /\ Events

LEMMA ToldFinite ==
  ASSUME NEW S, NEW m \in Seq(S), NEW i
  PROVE  /\ IsFiniteSet({p \in DOMAIN m : m[p].id = i})
         /\ Cardinality({p \in DOMAIN m : m[p].id = i}) \in Nat
<1>1. IsFiniteSet(1 .. Len(m)) /\ DOMAIN m = 1 .. Len(m)
  BY FS_Interval
<1> QED
  BY <1>1, FS_Subset, FS_CardinalityType

LEMMA OneMore ==
  ASSUME NEW S, NEW T, NEW v, IsFiniteSet(T), S \subseteq T \cup {v},
         Cardinality(T) \in Nat
  PROVE  Cardinality(S) \in Nat /\ Cardinality(S) <= Cardinality(T) + 1
<1>1. /\ IsFiniteSet(T \cup {v}) /\ Cardinality(T \cup {v}) \in Nat
      /\ Cardinality(T \cup {v}) <= Cardinality(T) + 1
  BY FS_AddElement, FS_CardinalityType
<1>2. Cardinality(S) <= Cardinality(T \cup {v}) /\ Cardinality(S) \in Nat
  BY <1>1, FS_Subset, FS_CardinalityType
<1> QED
  BY <1>1, <1>2

\* What is on the way are three numbers, now and after a step.
LEMMA OnTheWayFacts ==
  ASSUME EventTypes, EventTypes', NEW i, NEW n \in DOMAIN fifo, n \in DOMAIN fifo',
         async \o asyncbuf \in Seq(Msg), async' \o asyncbuf' \in Seq(Msg)
  PROVE  /\ Cardinality(Carriers(n)) \in Nat /\ Cardinality(Carriers(n)') \in Nat
         /\ IsFiniteSet(Carriers(n)) /\ IsFiniteSet(Carriers(n)')
         /\ Len(fifo[n].bytes) \in Nat /\ Len(fifo'[n].bytes) \in Nat
         /\ Cardinality(Told(i)) \in Nat /\ Cardinality(Told(i)') \in Nat
         /\ IsFiniteSet(Told(i)) /\ IsFiniteSet(Told(i)')
         /\ OnTheWay(i, n) = Cardinality(Carriers(n)) + Len(fifo[n].bytes)
                               + Cardinality(Told(i))
         /\ OnTheWay(i, n)' = Cardinality(Carriers(n)') + Len(fifo'[n].bytes)
                                + Cardinality(Told(i)')
<1>1. /\ IsFiniteSet(Told(i)) /\ IsFiniteSet(Told(i)')
      /\ Cardinality(Told(i)) \in Nat /\ Cardinality(Told(i)') \in Nat
  BY ToldFinite DEF Told
<1>2. /\ Carriers(n) \subseteq Busy /\ IsFiniteSet(Busy)
      /\ Carriers(n)' \subseteq Busy' /\ IsFiniteSet(Busy')
  BY DEF Carriers, Busy, EventTypes
<1>3. /\ IsFiniteSet(Carriers(n)) /\ IsFiniteSet(Carriers(n)')
      /\ Cardinality(Carriers(n)) \in Nat /\ Cardinality(Carriers(n)') \in Nat
  BY <1>2, FS_Subset, FS_CardinalityType
<1>4. Len(fifo[n].bytes) \in Nat /\ Len(fifo'[n].bytes) \in Nat
  BY DEF EventTypes
<1>5. /\ OnTheWay(i, n) = Cardinality(Carriers(n)) + Len(fifo[n].bytes)
                            + Cardinality(Told(i))
      /\ OnTheWay(i, n)' = Cardinality(Carriers(n)') + Len(fifo'[n].bytes)
                             + Cardinality(Told(i)')
  BY DEF OnTheWay
<1> QED
  BY <1>1, <1>3, <1>4, <1>5

\* An entry that stays carries what it carried.
LEMMA StillCarried ==
  ASSUME ListenInv, EventTypes, ListenTypes', EventTypes',
         NEW i \in Ids, UNCHANGED asked[i], UNCHANGED data[i].repeat, owed'[i] <= owed[i],
         NEW k \in DOMAIN a, NEW j \in DOMAIN a', NEW n, a[k].n = n, a'[j].n = n,
         a[k].id = i, a[k].re = asked[i], a[k].repeat = data[i].repeat,
         a'[j].id = i, a'[j].re = a[k].re, a'[j].repeat = a[k].repeat,
         n \in DOMAIN fifo', Carriers(n) \subseteq Carriers(n)',
         Len(fifo[n].bytes) <= Len(fifo'[n].bytes), Told(i) \subseteq Told(i)',
         owed[i] <= OnTheWay(i, n)
  PROVE  Carried(i)'
<1>1. n \in DOMAIN fifo
  BY DEF ListenInv, Served
<1>2. async \o asyncbuf \in Seq(Msg) /\ async' \o asyncbuf' \in Seq(Msg)
  BY DEF ListenInv, ListenTypes
<1>3. /\ Cardinality(Carriers(n)) \in Nat /\ Cardinality(Carriers(n)') \in Nat
      /\ Len(fifo[n].bytes) \in Nat /\ Len(fifo'[n].bytes) \in Nat
      /\ Cardinality(Told(i)) \in Nat /\ Cardinality(Told(i)') \in Nat
      /\ Cardinality(Told(i)) <= Cardinality(Told(i)')
      /\ Cardinality(Carriers(n)) <= Cardinality(Carriers(n)')
  BY <1>1, <1>2, OnTheWayFacts, FS_Subset
<1>4. owed[i] \in Nat /\ owed'[i] \in Nat
  BY DEF EventTypes
<1>5. owed'[i] <= OnTheWay(i, n)'
  <2> DEFINE c == Cardinality(Carriers(n))
             l == Len(fifo[n].bytes)
             t == Cardinality(Told(i))
             d == Cardinality(Carriers(n)')
             m == Len(fifo'[n].bytes)
             u == Cardinality(Told(i)')
             o == owed[i]
             p == owed'[i]
  <2>1. /\ c \in Nat /\ l \in Nat /\ t \in Nat /\ d \in Nat /\ m \in Nat /\ u \in Nat
        /\ o \in Nat /\ p \in Nat
        /\ OnTheWay(i, n) = c + l + t /\ OnTheWay(i, n)' = d + m + u
    BY <1>1, <1>2, <1>4, OnTheWayFacts
  <2>2. c <= d /\ l <= m /\ t <= u /\ p <= o /\ o <= c + l + t
    BY <1>3, <2>1
  <2> HIDE DEF c, l, t, d, m, u, o, p
  <2>3. p <= d + m + u
    BY <2>1, <2>2
  <2> QED
    BY <2>1, <2>3 DEF p
<1> QED
  BY <1>5 DEF Carried

\* A step that leaves the entry of each id that listens, and what is on the way to it.
LEMMA KeptEvents ==
  ASSUME ListenInv, EventInv, ListenTypes', EventTypes',
         \A i \in Ids : Listening(i)' =>
           /\ Listening(i) /\ UNCHANGED asked[i] /\ UNCHANGED data[i].repeat
           /\ owed'[i] <= owed[i] /\ Told(i) \subseteq Told(i)'
           /\ Ended(i, data[i].repeat) => Ended(i, data[i].repeat)'
           /\ \A k \in DOMAIN a : \A n : a[k].id = i /\ a[k].n = n =>
                /\ n \in DOMAIN fifo' /\ Carriers(n) \subseteq Carriers(n)'
                /\ Len(fifo[n].bytes) <= Len(fifo'[n].bytes)
                /\ \E j \in DOMAIN a' :
                     /\ a'[j].id = i /\ a'[j].n = n
                     /\ a'[j].re = a[k].re /\ a'[j].repeat = a[k].repeat
  PROVE  Events'
<1> SUFFICES ASSUME NEW i \in Ids, Listening(i)'
             PROVE  Carried(i)' \/ Ended(i, data[i].repeat)'
  BY DEF Events
<1>1. /\ Listening(i) /\ asked'[i] = asked[i] /\ data'[i].repeat = data[i].repeat
      /\ owed'[i] <= owed[i] /\ Told(i) \subseteq Told(i)'
      /\ Ended(i, data[i].repeat) => Ended(i, data[i].repeat)'
  OBVIOUS
<1>2. CASE Carried(i)
  <2>1. PICK k \in DOMAIN a :
          /\ a[k].id = i /\ a[k].re = asked[i] /\ a[k].repeat = data[i].repeat
          /\ owed[i] <= OnTheWay(i, a[k].n)
    BY <1>2 DEF Carried
  <2>2. PICK n : a[k].n = n
    OBVIOUS
  <2>3. PICK j \in DOMAIN a' : /\ a'[j].id = i /\ a'[j].n = n
                               /\ a'[j].re = a[k].re /\ a'[j].repeat = a[k].repeat
    BY <2>1, <2>2
  <2>4. /\ n \in DOMAIN fifo' /\ Carriers(n) \subseteq Carriers(n)'
        /\ Len(fifo[n].bytes) <= Len(fifo'[n].bytes)
    BY <2>1, <2>2
  <2> QED
    BY <1>1, <2>1, <2>2, <2>3, <2>4, StillCarried DEF EventInv
<1> QED
  BY <1>1, <1>2 DEF EventInv, Events

\* A step that leaves the entries, the messages and who listens alone.
LEMMA SameEvents ==
  ASSUME ListenInv, EventInv, ListenTypes', EventTypes',
         UNCHANGED <<a, async, asyncbuf>>,
         \A i \in Ids : Listening(i)' =>
            /\ Listening(i) /\ UNCHANGED asked[i] /\ UNCHANGED data[i].repeat
            /\ owed'[i] <= owed[i],
         \A k \in DOMAIN a : \A n : a[k].n = n =>
            /\ n \in DOMAIN fifo'
            /\ Carriers(n) \subseteq Carriers(n)'
            /\ Len(fifo[n].bytes) <= Len(fifo'[n].bytes)
  PROVE  Events'
<1>1. \A i \in Ids : Told(i)' = Told(i)
  BY DEF Told
<1>2. \A i \in Ids : /\ Listening(i)' => UNCHANGED data[i].repeat
                     /\ Ended(i, data[i].repeat) /\ UNCHANGED data[i].repeat
                          => Ended(i, data[i].repeat)'
  BY DEF Ended
<1> QED
  BY <1>1, <1>2, KeptEvents

LEMMA SameReading ==
  ASSUME ListenInv, EventInv, EventTypes', UNCHANGED a,
         pc' = "scan" => pc = "scan" /\ UNCHANGED x,
         \A k \in DOMAIN a : \A n : a[k].n = n =>
            n \in DOMAIN fifo' /\ Len(fifo[n].bytes) <= Len(fifo'[n].bytes)
  PROVE  Reading'
<1>1. \A k \in DOMAIN a : "dfa" \in DOMAIN a[k] /\ a[k].re \in Res
                          /\ (Decided(a[k].re) => a[k].dfa = <<>>)
  BY DEF EventInv, Reading
<1>2. ASSUME pc' = "scan", NEW k \in DOMAIN a, a[k].n \in x.fifos
      PROVE  fifo'[a[k].n].bytes # <<>>
  <2>1. PICK n : a[k].n = n
    OBVIOUS
  <2>2. n \in DOMAIN fifo /\ n \in DOMAIN fifo' /\ fifo[n].bytes # <<>>
    BY <1>2, <2>1 DEF EventInv, Reading, ListenInv, Served
  <2>3. fifo[n].bytes \in Seq(Bytes) /\ fifo'[n].bytes \in Seq(Bytes)
    BY <2>2 DEF EventInv, EventTypes
  <2>4. Len(fifo[n].bytes) > 0 /\ Len(fifo[n].bytes) <= Len(fifo'[n].bytes)
    BY <2>1, <2>2, <2>3
  <2> QED
    BY <2>1, <2>3, <2>4
<1> QED
  BY <1>1, <1>2 DEF Reading, EventInv, Decided

LEMMA WriterTypes ==
  ASSUME EventTypes, NEW w \in Writers, writer' = [v \in Writers |-> writer'[v]],
         \A v \in Writers : v # w => writer'[v] = writer[v],
         {"at", "todo", "c", "n"} \subseteq DOMAIN writer'[w],
         writer'[w].at = "open" => writer'[w].c \in Bytes,
         writer'[w].n # 0 => writer'[w].at = "open",
         \A n \in DOMAIN fifo' : "bytes" \in DOMAIN fifo'[n] /\ fifo'[n].bytes \in Seq(Bytes),
         owed' \in [Ids -> Nat],
         \A i \in Ids : owed'[i] # 0 => Listening(i)' /\ Decided(asked'[i])
  PROVE  EventTypes'
<1>1. IsFiniteSet(Busy')
  <2>1. IsFiniteSet(Busy \cup {w})
    BY FS_AddElement DEF EventTypes
  <2>2. Busy' \subseteq Busy \cup {w}
    BY DEF Busy
  <2> QED
    BY <2>1, <2>2, FS_Subset
<1> QED
  BY <1>1 DEF EventTypes

\* What a scan does to the fifos: bytes are only added, and only bytes.
LEMMA UnlinkBytes ==
  ASSUME EventTypes, NEW m, Unlink(m)
  PROVE  /\ DOMAIN fifo' = DOMAIN fifo
         /\ \A n \in DOMAIN fifo : "bytes" \in DOMAIN fifo'[n]
                                   /\ fifo'[n].bytes = fifo[n].bytes
BY DEF EventTypes, Unlink

LEMMA NotifyEvents ==
  ASSUME ListenInv, EventInv, ListenInv', NEW w \in Writers, NEW c \in Bytes,
         ftrigw_notify(w, c), UNCHANGED <<client, pipes, server>>
  PROVE  EventTypes' /\ Reading' /\ Events'
<1> DEFINE r == [AtRest EXCEPT !.at = "open", !.todo = Shown, !.c = c]
<1>1. /\ writer[w].at = "rest" /\ writer' = [writer EXCEPT ![w] = r] /\ UNCHANGED fifo
      /\ owed' = [i \in Ids |-> IF Listening(i) /\ Decided(asked[i]) THEN owed[i] + 1
                                ELSE owed[i]]
      /\ \A i \in Ids : Listening(i)' <=> Listening(i)
      /\ UNCHANGED <<data, asked, a, async, asyncbuf, pc, x>>
  BY DEF ftrigw_notify, Listening, client, pipes, server
<1>2. {"at", "todo", "c", "n"} \subseteq DOMAIN r /\ r.at = "open" /\ r.c = c /\ r.n = 0
      /\ r.todo = Shown
  BY DEF AtRest
<1> HIDE DEF r
<1>3. /\ writer' = [v \in Writers |-> writer'[v]] /\ writer'[w] = r
      /\ \A v \in Writers : v # w => writer'[v] = writer[v]
  BY <1>1 DEF EventInv, EventTypes
<1>4. \A i \in Ids : /\ owed[i] \in Nat /\ owed'[i] \in Nat /\ owed'[i] <= owed[i] + 1
                     /\ owed'[i] # 0 => Listening(i) /\ Decided(asked[i])
  BY <1>1 DEF EventInv, EventTypes
<1>5. owed' \in [Ids -> Nat]
  BY <1>1, <1>4
<1>6. EventTypes'
  BY <1>1, <1>2, <1>3, <1>4, <1>5, WriterTypes DEF EventInv, EventTypes
<1>7. Events'
  <2> SUFFICES ASSUME NEW i \in Ids, Listening(i)'
               PROVE  Carried(i)' \/ Ended(i, data[i].repeat)'
    BY DEF Events
  <2>1. CASE Ended(i, data[i].repeat)
    BY <1>1, <2>1 DEF Ended
  <2>2. ASSUME NEW k \in DOMAIN a, NEW n, a[k].n = n,
               a[k].id = i, a[k].re = asked[i], a[k].repeat = data[i].repeat,
               owed[i] <= OnTheWay(i, n)
        PROVE  Carried(i)'
    <3>1. n \in DOMAIN fifo /\ n \in Shown /\ n \in DOMAIN fifo'
      BY <1>1, <2>2 DEF ListenInv, Served, Shown
    <3>2. async \o asyncbuf \in Seq(Msg) /\ async' \o asyncbuf' \in Seq(Msg)
      BY DEF ListenInv, ListenTypes
    <3>3. Carriers(n)' = Carriers(n) \cup {w} /\ w \notin Carriers(n)
      BY <1>1, <1>2, <1>3, <3>1 DEF Carriers
    <3>4. Cardinality(Carriers(n)') = Cardinality(Carriers(n)) + 1
      BY <1>6, <3>1, <3>2, <3>3, OnTheWayFacts, FS_AddElement DEF EventInv
    <3>5. Told(i)' = Told(i) /\ fifo'[n] = fifo[n]
      BY <1>1 DEF Told
    <3>6. owed'[i] <= OnTheWay(i, n)'
      <4> DEFINE b == Cardinality(Carriers(n))
                 l == Len(fifo[n].bytes)
                 t == Cardinality(Told(i))
                 o == owed[i]
                 p == owed'[i]
      <4>1. /\ b \in Nat /\ l \in Nat /\ t \in Nat /\ o \in Nat /\ p \in Nat
            /\ OnTheWay(i, n) = b + l + t /\ OnTheWay(i, n)' = b + 1 + l + t
        BY <1>4, <1>6, <3>1, <3>2, <3>4, <3>5, OnTheWayFacts DEF EventInv
      <4>2. p <= o + 1 /\ o <= b + l + t
        BY <1>4, <2>2, <4>1
      <4> HIDE DEF b, l, t, o, p
      <4>3. p <= b + 1 + l + t
        BY <4>1, <4>2
      <4> QED
        BY <4>1, <4>3 DEF p
    <3> QED
      BY <1>1, <2>2, <3>6 DEF Carried
  <2>3. Carried(i) \/ Ended(i, data[i].repeat)
    BY <1>1 DEF EventInv, Events
  <2> QED
    BY <2>1, <2>2, <2>3 DEF Carried
<1>8. Reading'
  <2>1. \A k \in DOMAIN a : \A n : a[k].n = n =>
          n \in DOMAIN fifo' /\ Len(fifo[n].bytes) <= Len(fifo'[n].bytes)
    BY <1>1 DEF ListenInv, Served, EventInv, EventTypes
  <2> QED
    BY <1>1, <1>6, <2>1, SameReading
<1> QED
  BY <1>6, <1>7, <1>8

LEMMA CleanEvents ==
  ASSUME ListenInv, EventInv, ListenInv', NEW w \in Writers, ftrigw_clean(w),
         UNCHANGED <<client, pipes, server>>
  PROVE  EventTypes' /\ Reading' /\ Events'
<1> DEFINE r == [AtRest EXCEPT !.at = "clean", !.todo = Shown]
<1>1. /\ writer[w].at = "rest" /\ writer' = [writer EXCEPT ![w] = r]
      /\ UNCHANGED <<fifo, owed>>
      /\ \A i \in Ids : Listening(i)' <=> Listening(i)
      /\ UNCHANGED <<data, asked, a, async, asyncbuf, pc, x>>
  BY DEF ftrigw_clean, Listening, client, pipes, server
<1>2. {"at", "todo", "c", "n"} \subseteq DOMAIN r /\ r.at = "clean" /\ r.n = 0
  BY DEF AtRest
<1> HIDE DEF r
<1>3. /\ writer' = [v \in Writers |-> writer'[v]] /\ writer'[w] = r
      /\ \A v \in Writers : v # w => writer'[v] = writer[v]
  BY <1>1 DEF EventInv, EventTypes
<1>4. EventTypes'
  BY <1>1, <1>2, <1>3, WriterTypes DEF EventInv, EventTypes
<1>5. \A n : Carriers(n) \subseteq Carriers(n)'
  BY <1>1, <1>3 DEF Carriers
<1>6. \A k \in DOMAIN a : \A n : a[k].n = n =>
        n \in DOMAIN fifo' /\ Len(fifo[n].bytes) <= Len(fifo'[n].bytes)
  BY <1>1 DEF ListenInv, Served, EventInv, EventTypes
<1>7. \A i \in Ids : owed'[i] <= owed[i]
  BY <1>1 DEF EventInv, EventTypes
<1>8. Events'
  BY <1>1, <1>4, <1>5, <1>6, <1>7, SameEvents DEF ListenInv
<1>9. Reading'
  BY <1>1, <1>4, <1>6, SameReading
<1> QED
  BY <1>4, <1>8, <1>9

\* A fifo that has an entry is opened.
LEMMA OpenEvents ==
  ASSUME FifoInv, ListenInv, EventInv, ListenInv', NEW w \in Writers, OpenFifo(w),
         UNCHANGED <<client, pipes, server>>
  PROVE  EventTypes' /\ Reading' /\ Events'
<1>1. PICK n \in writer[w].todo :
        LET there == fifo[n].name = "shown"
        IN  /\ IF there /\ ~fifo[n].reader THEN Unlink(n) ELSE UNCHANGED fifo
            /\ writer' = [writer EXCEPT
                 ![w].todo = @ \ {n},
                 ![w].n = IF there /\ fifo[n].reader /\ writer[w].at = "open" THEN n ELSE 0]
  BY DEF OpenFifo
<1>2. /\ writer[w].n = 0 /\ UNCHANGED owed
      /\ \A i \in Ids : Listening(i)' <=> Listening(i)
      /\ UNCHANGED <<data, asked, a, async, asyncbuf, pc, x>>
  BY DEF OpenFifo, Listening, client, pipes, server
<1>3. /\ writer' = [v \in Writers |-> writer'[v]]
      /\ \A v \in Writers : v # w => writer'[v] = writer[v]
      /\ {"at", "todo", "c", "n"} \subseteq DOMAIN writer'[w]
      /\ writer'[w].at = writer[w].at /\ writer'[w].c = writer[w].c
      /\ writer'[w].todo = writer[w].todo \ {n}
      /\ writer'[w].n = IF fifo[n].name = "shown" /\ fifo[n].reader /\ writer[w].at = "open"
                        THEN n ELSE 0
  BY <1>1 DEF EventInv, EventTypes
<1>4. /\ DOMAIN fifo' = DOMAIN fifo
      /\ \A m \in DOMAIN fifo : "bytes" \in DOMAIN fifo'[m]
                                /\ fifo'[m].bytes = fifo[m].bytes
  BY <1>1, UnlinkBytes DEF EventInv, EventTypes
<1>5. EventTypes'
  BY <1>2, <1>3, <1>4, WriterTypes DEF EventInv, EventTypes
<1>6. \A k \in DOMAIN a : \A m : a[k].n = m => Carriers(m) \subseteq Carriers(m)'
  <2> SUFFICES ASSUME NEW k \in DOMAIN a, NEW m, a[k].n = m, NEW v \in Carriers(m)
               PROVE  v \in Carriers(m)'
    OBVIOUS
  <2>1. m \in DOMAIN fifo /\ fifo[m].name = "shown" /\ fifo[m].reader /\ m # 0
    BY DEF ListenInv, Served, FifoInv, Rows
  <2>2. v \in Writers /\ writer[v].at = "open" /\ (m \in writer[v].todo \/ m = writer[v].n)
    BY DEF Carriers
  <2>3. CASE v # w
    BY <1>3, <2>2, <2>3 DEF Carriers
  <2>4. CASE v = w /\ m = n
    BY <1>3, <2>1, <2>2, <2>4 DEF Carriers
  <2>5. CASE v = w /\ m # n
    BY <1>2, <1>3, <2>1, <2>2, <2>5 DEF Carriers
  <2> QED
    BY <2>3, <2>4, <2>5
<1>7. \A k \in DOMAIN a : \A m : a[k].n = m =>
        m \in DOMAIN fifo' /\ Len(fifo[m].bytes) <= Len(fifo'[m].bytes)
  BY <1>4 DEF ListenInv, Served, EventInv, EventTypes
<1>8. \A i \in Ids : owed'[i] <= owed[i]
  BY <1>2 DEF EventInv, EventTypes
<1>9. Events'
  BY <1>2, <1>5, <1>6, <1>7, <1>8, SameEvents DEF ListenInv
<1>10. Reading'
  BY <1>2, <1>5, <1>7, SameReading
<1> QED
  BY <1>5, <1>9, <1>10

LEMMA DoneEvents ==
  ASSUME FifoInv, ListenInv, EventInv, ListenInv', NEW w \in Writers, WriterDone(w),
         UNCHANGED <<client, pipes, server>>
  PROVE  EventTypes' /\ Reading' /\ Events'
<1>1. /\ writer[w].n = 0 /\ writer[w].todo = {} /\ writer' = [writer EXCEPT ![w] = AtRest]
      /\ UNCHANGED <<fifo, owed>>
      /\ \A i \in Ids : Listening(i)' <=> Listening(i)
      /\ UNCHANGED <<data, asked, a, async, asyncbuf, pc, x>>
  BY DEF WriterDone, Listening, client, pipes, server
<1>2. {"at", "todo", "c", "n"} \subseteq DOMAIN AtRest /\ AtRest.at = "rest" /\ AtRest.n = 0
  BY DEF AtRest
<1>3. /\ writer' = [v \in Writers |-> writer'[v]] /\ writer'[w] = AtRest
      /\ \A v \in Writers : v # w => writer'[v] = writer[v]
  BY <1>1 DEF EventInv, EventTypes
<1>4. EventTypes'
  BY <1>1, <1>2, <1>3, WriterTypes DEF EventInv, EventTypes
<1>5. \A k \in DOMAIN a : \A m : a[k].n = m => Carriers(m) \subseteq Carriers(m)'
  <2> SUFFICES ASSUME NEW k \in DOMAIN a, NEW m, a[k].n = m, NEW v \in Carriers(m)
               PROVE  v \in Carriers(m)'
    OBVIOUS
  <2>1. m # 0
    BY DEF ListenInv, Served, FifoInv, Rows
  <2> QED
    BY <1>1, <1>3, <2>1 DEF Carriers
<1>6. \A k \in DOMAIN a : \A n : a[k].n = n =>
        n \in DOMAIN fifo' /\ Len(fifo[n].bytes) <= Len(fifo'[n].bytes)
  BY <1>1 DEF ListenInv, Served, EventInv, EventTypes
<1>7. \A i \in Ids : owed'[i] <= owed[i]
  BY <1>1 DEF EventInv, EventTypes
<1>8. Events'
  BY <1>1, <1>4, <1>5, <1>6, <1>7, SameEvents DEF ListenInv
<1>9. Reading'
  BY <1>1, <1>4, <1>6, SameReading
<1> QED
  BY <1>4, <1>8, <1>9

\* The byte is in the fifo, or it is full.
LEMMA WriteEvents ==
  ASSUME FifoInv, ListenInv, EventInv, ListenInv', NEW w \in Writers, WriteFifo(w),
         UNCHANGED <<client, pipes, server>>
  PROVE  EventTypes' /\ Reading' /\ Events'
<1>0. PICK n, c : n = writer[w].n /\ c = writer[w].c
  OBVIOUS
<1> DEFINE mine(i) == \E k \in DOMAIN a : a[k].n = n /\ a[k].id = i
<1>1. /\ n # 0 /\ writer' = [writer EXCEPT ![w].n = 0]
      /\ \A i \in Ids : Listening(i)' <=> Listening(i)
      /\ UNCHANGED <<data, asked, a, async, asyncbuf, pc, x>>
  BY <1>0 DEF WriteFifo, Listening, client, pipes, server
<1>2. \/ ~fifo[n].reader /\ Unlink(n) /\ UNCHANGED owed
      \/ fifo' = [fifo EXCEPT ![n].bytes = Append(@, c)] /\ UNCHANGED owed
      \/ /\ fifo[n].reader /\ UNCHANGED fifo
         /\ owed' = [i \in Ids |-> IF mine(i) THEN Minus(owed[i], 1) ELSE owed[i]]
  BY <1>0 DEF WriteFifo
<1>3. /\ writer' = [v \in Writers |-> writer'[v]]
      /\ \A v \in Writers : v # w => writer'[v] = writer[v]
      /\ {"at", "todo", "c", "n"} \subseteq DOMAIN writer'[w]
      /\ writer'[w].at = writer[w].at /\ writer'[w].c = c
      /\ writer'[w].todo = writer[w].todo /\ writer'[w].n = 0
      /\ writer[w].at = "open" /\ c \in Bytes
  BY <1>0, <1>1 DEF EventInv, EventTypes
<1>4. /\ DOMAIN fifo' = DOMAIN fifo
      /\ \A m \in DOMAIN fifo :
           /\ "bytes" \in DOMAIN fifo'[m]
           /\ \/ fifo'[m].bytes = fifo[m].bytes
              \/ m = n /\ fifo'[m].bytes = Append(fifo[m].bytes, c)
  <2>1. CASE ~fifo[n].reader /\ Unlink(n) /\ UNCHANGED owed
    BY <2>1, UnlinkBytes DEF EventInv
  <2>2. CASE fifo' = [fifo EXCEPT ![n].bytes = Append(@, c)] /\ UNCHANGED owed
    BY <2>2 DEF EventInv, EventTypes
  <2>3. CASE UNCHANGED fifo
    BY <2>3 DEF EventInv, EventTypes
  <2> QED
    BY <1>2, <2>1, <2>2, <2>3
<1>5. \A m \in DOMAIN fifo : /\ fifo'[m].bytes \in Seq(Bytes)
                             /\ Len(fifo[m].bytes) \in Nat /\ Len(fifo'[m].bytes) \in Nat
                             /\ Len(fifo[m].bytes) <= Len(fifo'[m].bytes)
  <2> SUFFICES ASSUME NEW m \in DOMAIN fifo
               PROVE  /\ fifo'[m].bytes \in Seq(Bytes)
                      /\ Len(fifo[m].bytes) \in Nat /\ Len(fifo'[m].bytes) \in Nat
                      /\ Len(fifo[m].bytes) <= Len(fifo'[m].bytes)
    OBVIOUS
  <2>1. fifo[m].bytes \in Seq(Bytes)
    BY DEF EventInv, EventTypes
  <2>2. CASE fifo'[m].bytes = fifo[m].bytes
    BY <2>1, <2>2
  <2>3. CASE fifo'[m].bytes = Append(fifo[m].bytes, c)
    BY <1>3, <2>1, <2>3
  <2> QED
    BY <1>4, <2>2, <2>3
<1>6. /\ owed' \in [Ids -> Nat]
      /\ \A i \in Ids : /\ owed[i] \in Nat /\ owed'[i] \in Nat /\ owed'[i] <= owed[i]
                        /\ owed'[i] # 0 => owed[i] # 0
  <2>1. owed \in [Ids -> Nat]
    BY DEF EventInv, EventTypes
  <2>2. \A i \in Ids : Minus(owed[i], 1) \in Nat /\ Minus(owed[i], 1) <= owed[i]
                       /\ (Minus(owed[i], 1) # 0 => owed[i] # 0)
    BY <2>1 DEF Minus
  <2>3. CASE UNCHANGED owed
    BY <2>1, <2>3
  <2>4. CASE owed' = [i \in Ids |-> IF mine(i) THEN Minus(owed[i], 1) ELSE owed[i]]
    <3> HIDE DEF mine
    <3> QED
      BY <2>1, <2>2, <2>4
  <2> QED
    BY <1>2, <2>3, <2>4
<1>7. EventTypes'
  BY <1>1, <1>3, <1>4, <1>5, <1>6, WriterTypes DEF EventInv, EventTypes
<1>8. \A m : m # n /\ m # 0 => Carriers(m) \subseteq Carriers(m)'
  BY <1>0, <1>1, <1>3 DEF Carriers
<1>9. Carriers(n) \subseteq Carriers(n)' \cup {w}
  BY <1>0, <1>1, <1>3 DEF Carriers
<1>10. Events'
  <2> SUFFICES ASSUME NEW i \in Ids, Listening(i)'
               PROVE  Carried(i)' \/ Ended(i, data[i].repeat)'
    BY DEF Events
  <2>1. CASE Ended(i, data[i].repeat)
    BY <1>1, <2>1 DEF Ended
  <2>2. ASSUME NEW k \in DOMAIN a, NEW m, a[k].n = m,
               a[k].id = i, a[k].re = asked[i], a[k].repeat = data[i].repeat,
               owed[i] <= OnTheWay(i, m)
        PROVE  Carried(i)'
    <3>1. m \in DOMAIN fifo /\ fifo[m].reader /\ m # 0 /\ m \in DOMAIN fifo'
      BY <1>4, <2>2 DEF ListenInv, Served, FifoInv, Rows
    <3>2. Told(i)' = Told(i)
      BY <1>1 DEF Told
    <3>3. CASE m # n
      BY <1>1, <1>5, <1>6, <1>7, <1>8, <2>2, <3>1, <3>2, <3>3, StillCarried
         DEF EventInv, ListenInv
    <3>4. CASE m = n
      <4>1. async \o asyncbuf \in Seq(Msg) /\ async' \o asyncbuf' \in Seq(Msg)
        BY DEF ListenInv, ListenTypes
      <4>2. Cardinality(Carriers(m)) <= Cardinality(Carriers(m)') + 1
        <5>1. /\ IsFiniteSet(Carriers(m)) /\ IsFiniteSet(Carriers(m)')
              /\ Cardinality(Carriers(m)) \in Nat /\ Cardinality(Carriers(m)') \in Nat
          BY <1>7, <3>1, <4>1, OnTheWayFacts DEF EventInv
        <5>2. Carriers(m) \subseteq Carriers(m)' \cup {w}
          BY <1>9, <3>4
        <5> QED
          BY <5>1, <5>2, OneMore
      <4>3. \/ Len(fifo'[m].bytes) = Len(fifo[m].bytes) + 1 /\ owed'[i] = owed[i]
            \/ Len(fifo'[m].bytes) = Len(fifo[m].bytes)
               /\ (owed'[i] = 0 \/ owed'[i] = owed[i] - 1)
        <5>1. CASE fifo' = [fifo EXCEPT ![n].bytes = Append(@, c)] /\ UNCHANGED owed
          <6>1. fifo'[m].bytes = Append(fifo[m].bytes, c) /\ fifo[m].bytes \in Seq(Bytes)
            BY <3>1, <3>4, <5>1 DEF EventInv, EventTypes
          <6> QED
            BY <1>3, <5>1, <6>1
        <5>2. CASE UNCHANGED fifo /\
                   owed' = [j \in Ids |-> IF mine(j) THEN Minus(owed[j], 1) ELSE owed[j]]
          <6>1. mine(i)
            BY <2>2, <3>4
          <6> HIDE DEF mine
          <6>2. owed'[i] = Minus(owed[i], 1)
            BY <5>2, <6>1
          <6> QED
            BY <1>6, <5>2, <6>2 DEF Minus
        <5> QED
          BY <1>2, <3>1, <3>4, <5>1, <5>2
      <4>4. owed'[i] <= OnTheWay(i, m)'
        <5> DEFINE b == Cardinality(Carriers(m))
                   d == Cardinality(Carriers(m)')
                   l == Len(fifo[m].bytes)
                   q == Len(fifo'[m].bytes)
                   t == Cardinality(Told(i))
                   o == owed[i]
                   p == owed'[i]
        <5>1. /\ b \in Nat /\ d \in Nat /\ l \in Nat /\ q \in Nat /\ t \in Nat
              /\ OnTheWay(i, m) = b + l + t /\ OnTheWay(i, m)' = d + q + t
          BY <1>7, <3>1, <3>2, <4>1, OnTheWayFacts DEF EventInv
        <5>2. /\ o \in Nat /\ p \in Nat /\ o <= b + l + t /\ b <= d + 1
              /\ (q = l + 1 /\ p = o) \/ (q = l /\ (p = 0 \/ p = o - 1))
          BY <1>6, <2>2, <4>2, <4>3, <5>1
        <5> HIDE DEF b, d, l, q, t, o, p
        <5>3. p <= d + q + t
          BY <5>1, <5>2
        <5> QED
          BY <5>1, <5>3 DEF p
      <4> QED
        BY <1>1, <2>2, <4>4 DEF Carried
    <3> QED
      BY <3>3, <3>4
  <2>3. Carried(i) \/ Ended(i, data[i].repeat)
    BY <1>1 DEF EventInv, Events
  <2> QED
    BY <2>1, <2>2, <2>3 DEF Carried
<1>11. Reading'
  <2>1. \A k \in DOMAIN a : \A m : a[k].n = m =>
          m \in DOMAIN fifo' /\ Len(fifo[m].bytes) <= Len(fifo'[m].bytes)
    BY <1>4, <1>5 DEF ListenInv, Served
  <2> QED
    BY <1>1, <1>7, <2>1, SameReading
<1> QED
  BY <1>7, <1>10, <1>11

LEMMA SameCells ==
  ASSUME Cells, UNCHANGED client
  PROVE  Cells'
BY DEF Cells, client

LEMMA WriterEvents ==
  ASSUME FifoInv, ListenInv, EventInv, ListenInv', NEW w \in Writers,
         WriterStep(w) \/ WriterNext(w)
  PROVE  EventInv'
<1>1. UNCHANGED <<client, pipes, server>>
  BY DEF WriterStep, WriterNext
<1>2. Cells'
  BY <1>1, SameCells DEF EventInv
<1> QED
  BY <1>1, <1>2, NotifyEvents, CleanEvents, OpenEvents, DoneEvents, WriteEvents
     DEF WriterStep, WriterNext, EventInv

-----------------------------------------------------------------------------
(* The client hears of what it is owed.                                    *)

\* The events of those who listen as before are where they were.
LEMMA ClientKeeps ==
  ASSUME ListenInv, EventInv, ListenTypes', UNCHANGED <<server, fifo, writer, async>>,
         owed' \in [Ids -> Nat],
         \A i \in Ids : owed'[i] # 0 => Listening(i)' /\ Decided(asked'[i])
  PROVE  /\ EventTypes' /\ Reading'
         /\ (\A i \in Ids : Listening(i)' =>
               /\ Listening(i) /\ UNCHANGED asked[i] /\ UNCHANGED data[i].repeat
               /\ owed'[i] <= owed[i]) => Events'
<1>1. EventTypes'
  BY DEF EventInv, EventTypes, Busy
<1>2. \A n : Carriers(n)' = Carriers(n)
  BY DEF Carriers
<1>3. \A k \in DOMAIN a : \A n : a[k].n = n =>
        n \in DOMAIN fifo' /\ Len(fifo[n].bytes) <= Len(fifo'[n].bytes)
  BY DEF ListenInv, Served, EventInv, EventTypes
<1>4. UNCHANGED <<a, asyncbuf, pc, x>>
  BY DEF server
<1>5. Reading'
  BY <1>1, <1>3, <1>4, SameReading
<1>6. ASSUME \A i \in Ids : Listening(i)' =>
               /\ Listening(i) /\ UNCHANGED asked[i] /\ UNCHANGED data[i].repeat
               /\ owed'[i] <= owed[i]
      PROVE  Events'
  BY <1>1, <1>2, <1>3, <1>4, <1>6, SameEvents
<1> QED
  BY <1>1, <1>5, <1>6

LEMMA SubscribeEvents ==
  ASSUME ListenInv, EventInv, ListenInv', NEW s \in Subs, ftrigr_subscribe(s),
         UNCHANGED <<server, fifo, writer>>
  PROVE  EventInv'
<1> DEFINE c == [op |-> "L", id |-> Last(freelist), re |-> s.re, repeat |-> s.repeat]
<1>1. /\ call = NoCall /\ freelist # <<>> /\ call' = c /\ freelist' = Front(freelist)
      /\ UNCHANGED <<data, asked, open, async, owed>>
  BY DEF ftrigr_subscribe, Idle
<1>2. c.op = "L" /\ c.id = Last(freelist)
  OBVIOUS
<1> HIDE DEF c
<1>3. \A i \in Ids : Listening(i)' <=> Listening(i)
  BY <1>1, <1>2 DEF Listening, NoCall, server
<1>4. EventTypes' /\ Reading' /\ Events'
  <2>1. \A i \in Ids : owed'[i] <= owed[i]
    BY <1>1 DEF EventInv, EventTypes
  <2>2. /\ owed' \in [Ids -> Nat]
        /\ \A i \in Ids : owed'[i] # 0 => Listening(i)' /\ Decided(asked'[i])
    BY <1>1, <1>3 DEF EventInv, EventTypes
  <2> QED
    BY <1>1, <1>3, <2>1, <2>2, ClientKeeps DEF ListenInv
<1>5. Cells'
  <2> DEFINE n == Len(freelist)
  <2>1. freelist \in Seq(Ids) /\ DOMAIN freelist = 1 .. n /\ n \in Nat \ {0}
    BY <1>1 DEF ListenInv, ListenTypes
  <2>2. DOMAIN freelist' = 1 .. n - 1 /\ \A p \in 1 .. n - 1 : freelist'[p] = freelist[p]
    <3>1. \A p \in 1 .. n - 1 : freelist[p] \in Ids
      BY <2>1
    <3> DEFINE f == SubSeq(freelist, 1, n - 1)
    <3>2. f \in Seq(Ids) /\ Len(f) = n - 1 /\ \A p \in 1 .. n - 1 : f[p] = freelist[p]
      BY <2>1, <3>1, SubSeqProperties
    <3>3. freelist' = f
      BY <1>1 DEF Front
    <3> HIDE DEF f, n
    <3> QED
      BY <2>1, <3>2, <3>3
  <2>3. /\ IsInjective(freelist)
        /\ \A p \in DOMAIN freelist : data[freelist[p]].state = "ERROR"
    BY DEF EventInv, Cells
  <2>4. /\ IsInjective(freelist')
        /\ \A p \in DOMAIN freelist' : data'[freelist'[p]].state = "ERROR"
    <3> HIDE DEF n
    <3> QED
      BY <1>1, <2>1, <2>2, <2>3 DEF IsInjective
  <2>5. /\ data'[call'.id].state = "ERROR" /\ call'.op = "L"
        /\ \A p \in DOMAIN freelist' : freelist'[p] # call'.id
    <3>1. c.id = freelist[n]
      BY <1>2 DEF Last
    <3> HIDE DEF n
    <3> QED
      BY <1>1, <1>2, <2>1, <2>2, <2>3, <3>1 DEF IsInjective
  <2> QED
    BY <2>4, <2>5 DEF Cells
<1> QED
  BY <1>4, <1>5 DEF EventInv

\* A cell is given back once.
LEMMA GiveBack ==
  ASSUME ListenInv, Cells, NEW i \in Ids, freelist' = Append(freelist, i),
         \A p \in DOMAIN freelist : freelist[p] # i,
         \A j \in Ids : j # i => data'[j].state = data[j].state,
         data'[i].state = "ERROR", call'.op = "none"
  PROVE  Cells'
<1> DEFINE n == Len(freelist)
<1>1. freelist \in Seq(Ids) /\ DOMAIN freelist = 1 .. n /\ n \in Nat
  BY DEF ListenInv, ListenTypes
<1>2. /\ DOMAIN freelist' = 1 .. n + 1 /\ freelist'[n + 1] = i
      /\ \A p \in 1 .. n : freelist'[p] = freelist[p] /\ freelist[p] \in Ids
  BY <1>1
<1> HIDE DEF n
<1>3. IsInjective(freelist) /\ \A p \in DOMAIN freelist : data[freelist[p]].state = "ERROR"
  BY DEF Cells
<1>4. \A p \in 1 .. n + 1 : p \in 1 .. n \/ p = n + 1
  BY <1>1
<1>5. IsInjective(freelist')
  BY <1>1, <1>2, <1>3, <1>4 DEF IsInjective
<1>6. \A p \in DOMAIN freelist' : data'[freelist'[p]].state = "ERROR"
  BY <1>1, <1>2, <1>3, <1>4
<1> QED
  BY <1>5, <1>6 DEF Cells

LEMMA CheckEvents ==
  ASSUME ListenInv, EventInv, ListenInv', NEW i \in Ids, ftrigr_check(i),
         UNCHANGED <<server, fifo, writer>>
  PROVE  EventInv'
<1>1. call = NoCall /\ UNCHANGED <<call, open, async, owed>> /\ NoCall.op = "none"
  BY DEF ftrigr_check, Settle, Idle, pipes, NoCall
<1>2. /\ \A j \in Ids : /\ data'[j].state = "LISTENING" <=> data[j].state = "LISTENING"
                        /\ data[j].state = "LISTENING" =>
                             data'[j].repeat = data[j].repeat /\ asked'[j] = asked[j]
      /\ Cells'
  <2>1. CASE Settle(i) /\ data[i].state \in {"WAITACK", "WAITACKDATA"}
    <3>1. {"state", "repeat"} \subseteq DOMAIN Zero /\ Zero.state = "ERROR"
      BY DEF Zero
    <3>2. data' = [data EXCEPT ![i] = Zero] /\ freelist' = Append(freelist, i)
          /\ asked' = [asked EXCEPT ![i] = {}]
      BY <2>1 DEF Settle
    <3>3. data'[i].state = "ERROR" /\ \A j \in Ids : j # i => data'[j] = data[j]
      BY <3>1, <3>2, CellTypes DEF ListenInv
    <3>4. \A j \in Ids : j # i => asked'[j] = asked[j]
      BY <3>2 DEF ListenInv, ListenTypes
    <3>5. \A p \in DOMAIN freelist : freelist[p] # i
      BY <2>1 DEF EventInv, Cells
    <3>6. Cells'
      BY <1>1, <3>2, <3>3, <3>5, GiveBack DEF EventInv
    <3> QED
      BY <2>1, <3>3, <3>4, <3>6
  <2>2. CASE data' = [data EXCEPT ![i].count = 0] /\ UNCHANGED <<freelist, asked>>
    <3>1. \A j \in Ids : data'[j].state = data[j].state /\ data'[j].repeat = data[j].repeat
      BY <2>2 DEF ListenInv, ListenTypes
    <3>2. \A p \in DOMAIN freelist : freelist[p] \in Ids
      BY DEF ListenInv, ListenTypes
    <3>3. Cells'
      BY <1>1, <2>2, <3>1, <3>2 DEF EventInv, Cells
    <3> QED
      BY <2>2, <3>1, <3>3
  <2> QED
    BY <2>1, <2>2 DEF ftrigr_check
<1>3. \A j \in Ids : /\ Listening(j)' <=> Listening(j)
                     /\ Listening(j) => UNCHANGED asked[j] /\ UNCHANGED data[j].repeat
  BY <1>1, <1>2 DEF Listening, server
<1>4. /\ owed' \in [Ids -> Nat]
      /\ \A j \in Ids : owed'[j] # 0 => Listening(j)' /\ Decided(asked'[j])
      /\ \A j \in Ids : owed'[j] <= owed[j]
  BY <1>1, <1>3 DEF EventInv, EventTypes, Decided
<1>5. EventTypes' /\ Reading' /\ Events'
  BY <1>1, <1>3, <1>4, ClientKeeps DEF ListenInv
<1> QED
  BY <1>2, <1>5 DEF EventInv

LEMMA UnsubscribeEvents ==
  ASSUME ListenInv, EventInv, ListenInv', NEW i \in Ids, ftrigr_unsubscribe(i),
         UNCHANGED <<server, fifo, writer>>
  PROVE  EventInv'
<1>1. /\ call = NoCall /\ call' = [op |-> "U", id |-> i] /\ data[i].state = "LISTENING"
      /\ owed' = [owed EXCEPT ![i] = 0]
      /\ UNCHANGED <<data, asked, freelist, open, async>>
  BY DEF ftrigr_unsubscribe, Idle
<1>2. \A j \in Ids : /\ Listening(j)' => Listening(j)
                     /\ j # i => (Listening(j) => Listening(j)')
  BY <1>1 DEF Listening, NoCall, server
<1>3. /\ owed' \in [Ids -> Nat] /\ owed'[i] = 0
      /\ \A j \in Ids : owed'[j] <= owed[j] /\ (j # i => owed'[j] = owed[j])
  BY <1>1 DEF EventInv, EventTypes
<1>4. \A j \in Ids : owed'[j] # 0 => Listening(j)' /\ Decided(asked'[j])
  BY <1>1, <1>2, <1>3 DEF EventInv, EventTypes
<1>5. EventTypes' /\ Reading' /\ Events'
  BY <1>1, <1>2, <1>3, <1>4, ClientKeeps DEF ListenInv
<1>6. Cells'
  BY <1>1 DEF EventInv, Cells
<1> QED
  BY <1>5, <1>6 DEF EventInv

\* The cell of the call changes, and nothing is owed to it.
LEMMA GetAckEvents ==
  ASSUME ListenInv, EventInv, ListenInv', GetAck, UNCHANGED <<server, fifo, writer>>
  PROVE  EventInv'
<1> DEFINE ok == acks # <<>> /\ Head(acks)
           d == [Zero EXCEPT !.state = "LISTENING", !.repeat = call.repeat]
<1>1. /\ call # NoCall /\ (acks # <<>> \/ pc = "gone") /\ call' = NoCall
      /\ NoCall.op = "none"
      /\ UNCHANGED <<open, async, owed>>
  BY DEF GetAck, NoCall
<1>2. call \in Call /\ call.op \in {"L", "U"}
  BY <1>1 DEF ListenInv, ListenTypes, Call
<1>3. PICK i \in Ids : i = call.id
  BY <1>2 DEF Call
<1>4. \/ /\ call.op = "L" /\ ok /\ freelist' = freelist
         /\ data' = [data EXCEPT ![i] = d] /\ asked' = [asked EXCEPT ![i] = call.re]
      \/ /\ call.op = "L" /\ ~ok /\ freelist' = Append(freelist, i)
         /\ UNCHANGED <<data, asked>>
      \/ /\ call.op = "U" /\ ok /\ freelist' = Append(freelist, i)
         /\ data' = [data EXCEPT ![i] = Zero] /\ asked' = [asked EXCEPT ![i] = {}]
      \/ /\ call.op = "U" /\ ~ok /\ freelist' = freelist
         /\ UNCHANGED <<data, asked>>
  BY <1>2, <1>3 DEF GetAck
<1>5. /\ {"state", "repeat"} \subseteq DOMAIN d /\ d.state = "LISTENING"
      /\ d.repeat = call.repeat
      /\ {"state", "repeat"} \subseteq DOMAIN Zero /\ Zero.state = "ERROR"
  BY DEF Zero
<1> HIDE DEF d
<1>6. /\ call.op = "L" /\ ok => data'[i] = d
      /\ call.op = "U" /\ ok => data'[i] = Zero
      /\ ~ok => data' = data
      /\ \A j \in Ids : j # i => data'[j] = data[j]
  <2>1. CASE data' = data /\ ~ok
    BY <2>1
  <2>2. CASE data' = [data EXCEPT ![i] = d] /\ call.op = "L" /\ ok
    BY <1>5, <2>2, CellTypes DEF ListenInv
  <2>3. CASE data' = [data EXCEPT ![i] = Zero] /\ call.op = "U" /\ ok
    BY <1>5, <2>3, CellTypes DEF ListenInv
  <2> QED
    BY <1>4, <2>1, <2>2, <2>3
<1>7. /\ \A j \in Ids : j # i => asked'[j] = asked[j]
      /\ call.op = "L" /\ ok => asked'[i] = call.re
  <2>1. asked = [j \in Ids |-> asked[j]]
    BY DEF ListenInv, ListenTypes
  <2> QED
    BY <1>4, <2>1
<1>8. /\ call.op = "L" => /\ data[i].state = "ERROR"
                          /\ \A p \in DOMAIN freelist : freelist[p] # i
      /\ call.op = "U" => data[i].state = "LISTENING"
  BY <1>3 DEF EventInv, Cells
<1>9. Cells'
  <2>1. CASE freelist' = freelist
    <3>1. \A p \in DOMAIN freelist : freelist[p] \in Ids
      BY DEF ListenInv, ListenTypes
    <3>2. \A p \in DOMAIN freelist : data'[freelist[p]].state = "ERROR"
      BY <1>2, <1>4, <1>6, <1>8, <2>1, <3>1 DEF EventInv, Cells
    <3> QED
      BY <1>1, <2>1, <3>2 DEF EventInv, Cells
  <2>2. CASE freelist' = Append(freelist, i) /\ data'[i].state = "ERROR"
    <3>1. \A p \in DOMAIN freelist : freelist[p] # i
      BY <1>2, <1>8 DEF EventInv, Cells
    <3> QED
      BY <1>1, <1>6, <2>2, <3>1, GiveBack DEF EventInv
  <2> QED
    BY <1>4, <1>5, <1>6, <1>8, <2>1, <2>2
<1>10. /\ ~Listening(i) /\ owed[i] = 0
       /\ \A j \in Ids : j # i => (Listening(j) <=> Listening(j)')
  <2>1. ~Listening(i)
    BY <1>2, <1>3, <1>8 DEF Listening
  <2>2. owed[i] = 0
    BY <2>1 DEF EventInv, EventTypes
  <2> QED
    BY <1>1, <1>3, <1>6, <2>1, <2>2 DEF Listening, server
<1>11. /\ owed' \in [Ids -> Nat]
       /\ \A j \in Ids : owed'[j] # 0 => Listening(j)' /\ Decided(asked'[j])
  BY <1>1, <1>7, <1>10 DEF EventInv, EventTypes
<1>12. EventTypes' /\ Reading'
  BY <1>1, <1>11, ClientKeeps DEF ListenInv
<1>13. CASE ~Listening(i)'
  <2>1. \A j \in Ids : Listening(j)' => /\ Listening(j) /\ UNCHANGED asked[j]
                                        /\ UNCHANGED data[j].repeat /\ owed'[j] <= owed[j]
    <3>1. \A j \in Ids : owed'[j] <= owed[j]
      BY <1>1 DEF EventInv, EventTypes
    <3> SUFFICES ASSUME NEW j \in Ids, Listening(j)'
                 PROVE  /\ Listening(j) /\ UNCHANGED asked[j]
                        /\ UNCHANGED data[j].repeat /\ owed'[j] <= owed[j]
      OBVIOUS
    <3>2. j # i
      BY <1>13
    <3>3. asked'[j] = asked[j] /\ data'[j] = data[j]
      BY <1>6, <1>7, <3>2
    <3> QED
      BY <1>10, <3>1, <3>2, <3>3
  <2> QED
    BY <1>1, <1>9, <1>11, <1>12, <2>1, ClientKeeps DEF EventInv, ListenInv
<1>14. CASE Listening(i)'
  <2>1. Heard(i, asked[i], data[i].repeat)'
    BY <1>14 DEF ListenInv, Listeners
  <2>2. Carried(i)' \/ Ended(i, data[i].repeat)'
    <3>1. ASSUME NEW k \in DOMAIN a', a'[k].id = i, a'[k].re = asked'[i],
                 a'[k].repeat = data'[i].repeat
          PROVE  Carried(i)'
      <4>1. PICK n : a'[k].n = n
        OBVIOUS
      <4>2. n \in DOMAIN fifo /\ n \in DOMAIN fifo'
        BY <1>1, <3>1, <4>1 DEF ListenInv, Served, server
      <4>3. async \o asyncbuf \in Seq(Msg) /\ async' \o asyncbuf' \in Seq(Msg)
        BY DEF ListenInv, ListenTypes
      <4>4. owed'[i] <= OnTheWay(i, n)'
        BY <1>1, <1>10, <1>12, <4>2, <4>3, OnTheWayFacts DEF EventInv
      <4> QED
        BY <3>1, <4>1, <4>4 DEF Carried
    <3> QED
      BY <2>1, <3>1 DEF Heard
  <2>3. ASSUME NEW j \in Ids, j # i, Listening(j)'
        PROVE  Carried(j)' \/ Ended(j, data[j].repeat)'
    <3>1. /\ Listening(j) /\ data'[j] = data[j] /\ asked'[j] = asked[j]
          /\ UNCHANGED <<a, async, asyncbuf, fifo, writer, owed>>
      BY <1>1, <1>6, <1>7, <1>10, <2>3 DEF server
    <3>2. Carried(j) => Carried(j)'
      BY <3>1 DEF Carried, OnTheWay, Told, Carriers
    <3>3. Ended(j, data[j].repeat) => Ended(j, data[j].repeat)'
      BY <3>1 DEF Ended
    <3> QED
      BY <3>1, <3>2, <3>3 DEF EventInv, Events
  <2>4. Events'
    BY <2>2, <2>3 DEF Events
  <2> QED
    BY <1>9, <1>12, <2>4 DEF EventInv
<1> QED
  BY <1>13, <1>14

LEMMA EndEvents ==
  ASSUME ListenInv, EventInv, ListenInv', ftrigr_end
  PROVE  EventInv'
<1>1. /\ call = NoCall /\ call' = NoCall /\ open' = FALSE /\ NoCall.op = "none"
      /\ data' = [i \in Ids |-> Zero] /\ owed' = [i \in Ids |-> 0]
      /\ UNCHANGED <<freelist, a, pc, x, fifo, writer>>
  BY DEF ftrigr_end, Idle, server, NoCall
<1>2. EventTypes'
  BY <1>1 DEF EventInv, EventTypes, Busy
<1>3. Zero.state = "ERROR" /\ \A p \in DOMAIN freelist : freelist[p] \in Ids
  BY DEF Zero, ListenInv, ListenTypes
<1>4. Cells'
  BY <1>1, <1>3 DEF EventInv, Cells
<1>5. Reading'
  BY <1>1 DEF EventInv, Reading, Decided
<1>6. Events'
  BY <1>1 DEF Events, Listening
<1> QED
  BY <1>2, <1>4, <1>5, <1>6 DEF EventInv

\* The sequence s \o t without its first m elements, which are of s.
LEMMA Shifted ==
  ASSUME NEW S, NEW s \in Seq(S), NEW t \in Seq(S), NEW u \in Seq(S), Len(u) <= Len(s),
         \A p \in 1 .. Len(u) : u[p] = s[p + (Len(s) - Len(u))]
  PROVE  \A p \in DOMAIN (s \o t) :
           p > Len(s) - Len(u) =>
             /\ p - (Len(s) - Len(u)) \in DOMAIN (u \o t)
             /\ (u \o t)[p - (Len(s) - Len(u))] = (s \o t)[p]
<1> DEFINE m == Len(s) - Len(u)
           q == Len(s)
           r == Len(t)
           v == s \o t
           w == u \o t
<1>1. q \in Nat /\ r \in Nat /\ Len(u) \in Nat /\ m \in Nat /\ Len(u) = q - m
  OBVIOUS
<1>2. /\ v \in Seq(S) /\ Len(v) = q + r
      /\ \A i \in 1 .. q + r : v[i] = IF i <= q THEN s[i] ELSE t[i - q]
  BY ConcatProperties
<1>3. /\ w \in Seq(S) /\ Len(w) = q - m + r
      /\ \A i \in 1 .. q - m + r : w[i] = IF i <= q - m THEN u[i] ELSE t[i - (q - m)]
  <2>1. /\ w \in Seq(S) /\ Len(w) = Len(u) + r
        /\ \A i \in 1 .. Len(u) + r : w[i] = IF i <= Len(u) THEN u[i] ELSE t[i - Len(u)]
    BY ConcatProperties
  <2> HIDE DEF q, r, w, m
  <2> QED
    BY <1>1, <2>1
<1>4. DOMAIN v = 1 .. q + r
  BY <1>2
<1>5. DOMAIN w = 1 .. q - m + r
  BY <1>3
<1>6. \A p \in 1 .. Len(u) : u[p] = s[p + m]
  OBVIOUS
<1> HIDE DEF q, r, v, w, m
<1>7. ASSUME NEW p \in 1 .. q + r, p > m
      PROVE  p - m \in 1 .. q - m + r /\ w[p - m] = v[p]
  <2>1. p - m \in 1 .. q - m + r
    BY <1>1, <1>7
  <2>2. CASE p <= q
    <3>1. p - m \in 1 .. Len(u) /\ p - m <= q - m /\ (p - m) + m = p
      BY <1>1, <1>7, <2>2 DEF q
    <3> QED
      BY <1>2, <1>3, <1>6, <2>1, <2>2, <3>1
  <2>3. CASE p > q
    <3>1. ~(p - m <= q - m) /\ ~(p <= q) /\ (p - m) - (q - m) = p - q
      BY <1>1, <1>7, <2>3
    <3> QED
      BY <1>2, <1>3, <2>1, <3>1
  <2> QED
    BY <1>1, <1>7, <2>2, <2>3
<1> QED
  BY <1>4, <1>5, <1>7 DEF v, w, m

LEMMA Rest ==
  ASSUME NEW S, NEW s \in Seq(S), NEW n \in 1 .. Len(s) + 1
  PROVE  \E m \in Nat :
           /\ m = IF n <= Len(s) THEN n ELSE Len(s)
           /\ SubSeq(s, n + 1, Len(s)) \in Seq(S)
           /\ Len(SubSeq(s, n + 1, Len(s))) = Len(s) - m
           /\ \A p \in 1 .. Len(s) - m : SubSeq(s, n + 1, Len(s))[p] = s[p + m]
<1> DEFINE q == Len(s)
           u == SubSeq(s, n + 1, q)
           m == IF n <= q THEN n ELSE q
<1>1. q \in Nat /\ n \in 1 .. q + 1 /\ \A p \in 1 .. q : s[p] \in S
  OBVIOUS
<1>2. /\ u \in Seq(S) /\ Len(u) = IF n + 1 <= q THEN q - (n + 1) + 1 ELSE 0
      /\ \A i \in 1 .. q - (n + 1) + 1 : u[i] = s[(n + 1) + i - 1]
  <2>1. \A p \in n + 1 .. q : s[p] \in S
    BY <1>1
  <2> HIDE DEF q
  <2> QED
    BY <1>1, <2>1, SubSeqProperties
<1> HIDE DEF q, u
<1>3. m \in Nat /\ Len(u) = q - m
  BY <1>1, <1>2
<1>4. ASSUME NEW p \in 1 .. q - m
      PROVE  u[p] = s[p + m]
  <2>1. n + 1 <= q /\ m = n /\ p \in 1 .. q - (n + 1) + 1 /\ (n + 1) + p - 1 = p + m
    BY <1>1, <1>4
  <2> QED
    BY <1>2, <2>1
<1>5. m = IF n <= q THEN n ELSE q
  OBVIOUS
<1> HIDE DEF m
<1>6. \E r \in Nat : /\ r = IF n <= q THEN n ELSE q
                     /\ u \in Seq(S) /\ Len(u) = q - r
                     /\ \A p \in 1 .. q - r : u[p] = s[p + r]
  BY <1>2, <1>3, <1>4, <1>5
<1> QED
  BY <1>6 DEF q, u

LEMMA LeftShifted ==
  ASSUME async \in Seq(Msg), async' \in Seq(Msg), asyncbuf \in Seq(Msg),
         Len(async') <= Len(async),
         \A p \in 1 .. Len(async') : async'[p] = async[p + (Len(async) - Len(async'))]
  PROVE  \A p \in DOMAIN (async \o asyncbuf) :
           p > Len(async) - Len(async') =>
             /\ p - (Len(async) - Len(async')) \in DOMAIN (async' \o asyncbuf)
             /\ (async' \o asyncbuf)[p - (Len(async) - Len(async'))] = (async \o asyncbuf)[p]
BY Shifted, SMT

\* Each message that is handled is an event less; the others are still there.
LEMMA UpdateTold ==
  ASSUME ListenInv, ListenInv', ftrigr_update, UNCHANGED asyncbuf,
         NEW next \in 1 .. Len(async) + 1, next <= Len(async) => Invalid(next),
         NEW m \in Nat, m = IF next <= Len(async) THEN next ELSE Len(async),
         Len(async') = Len(async) - m,
         \A p \in 1 .. Len(async') : async'[p] = async[p + m],
         NEW i \in Ids, data[i].state = "LISTENING",
         \A n \in For(i, next) : ~Ends(data[i], async[n])
  PROVE  /\ Cardinality(For(i, next)) \in Nat
         /\ Cardinality(Told(i)) <= Cardinality(For(i, next)) + Cardinality(Told(i)')
<1>2. async \in Seq(Msg) /\ async' \in Seq(Msg) /\ asyncbuf \in Seq(Msg)
  BY DEF ListenInv, ListenTypes
<1>4. \A p \in DOMAIN (async \o asyncbuf) :
        p > m => /\ p - m \in DOMAIN (async \o asyncbuf)'
                 /\ (async \o asyncbuf)'[p - m] = (async \o asyncbuf)[p]
  <2>1. \A p \in DOMAIN (async \o asyncbuf) :
          p > m => /\ p - m \in DOMAIN (async' \o asyncbuf)
                   /\ (async' \o asyncbuf)[p - m] = (async \o asyncbuf)[p]
    <3>1. /\ m = Len(async) - Len(async') /\ Len(async') <= Len(async)
          /\ \A p \in 1 .. Len(async') : async'[p] = async[p + (Len(async) - Len(async'))]
      <4>1. Len(async') \in Nat /\ Len(async) \in Nat
        BY <1>2
      <4>2. m = Len(async) - Len(async') /\ Len(async') <= Len(async)
        BY <4>1
      <4> QED
        BY <4>2
    <3>2. \A p \in DOMAIN (async \o asyncbuf) :
            p > Len(async) - Len(async') =>
              /\ p - (Len(async) - Len(async')) \in DOMAIN (async' \o asyncbuf)
              /\ (async' \o asyncbuf)[p - (Len(async) - Len(async'))]
                    = (async \o asyncbuf)[p]
      BY <1>2, <3>1, LeftShifted
    <3> QED
      BY <3>1, <3>2, Zenon
  <2> QED
    BY <2>1
<1> DEFINE late == {p \in Told(i) : p > m}
           f == [p \in late |-> p - m]
<1>5. /\ IsFiniteSet(Told(i)) /\ IsFiniteSet(Told(i)')
      /\ Cardinality(Told(i)) \in Nat /\ Cardinality(Told(i)') \in Nat
  <2>1. async \o asyncbuf \in Seq(Msg) /\ async' \o asyncbuf' \in Seq(Msg)
    BY <1>2
  <2> QED
    BY <2>1, ToldFinite DEF Told
<1>6. \A p \in Told(i) : p \in Nat
  <2>1. DOMAIN (async \o asyncbuf) \subseteq Nat
    BY <1>2
  <2> QED
    BY <2>1 DEF Told
<1>7. f \in [late -> Told(i)'] /\ \A p, q \in late : f[p] = f[q] => p = q
  <2>1. \A p \in late : p - m \in Told(i)'
    BY <1>4 DEF Told
  <2>2. \A p, q \in late : p - m = q - m => p = q
    BY <1>6
  <2> HIDE DEF late
  <2> QED
    BY <2>1, <2>2
<1>8. IsFiniteSet(late) /\ Cardinality(late) \in Nat
      /\ Cardinality(late) <= Cardinality(Told(i)')
  <2>1. f \in Injection(late, Told(i)')
    BY <1>7 DEF Injection, IsInjective
  <2> HIDE DEF late, f
  <2> QED
    BY <1>5, <2>1, FS_Injection, FS_CardinalityType
<1>9. IsFiniteSet(For(i, next)) /\ Cardinality(For(i, next)) \in Nat
  <2>1. IsFiniteSet(1 .. Len(async)) /\ DOMAIN async = 1 .. Len(async)
    BY <1>2, FS_Interval
  <2>2. For(i, next) \subseteq 1 .. Len(async)
    BY <2>1 DEF For
  <2> QED
    BY <2>1, <2>2, FS_Subset, FS_CardinalityType
<1>10. Told(i) \subseteq For(i, next) \cup late
  <2> SUFFICES ASSUME NEW p \in Told(i), ~(p > m)
               PROVE  p \in For(i, next)
    OBVIOUS
  <2>1. p \in 1 .. Len(async) /\ p <= m
    <3>1. DOMAIN (async \o asyncbuf) \subseteq Nat \ {0}
      BY <1>2
    <3>2. p \in Nat \ {0}
      BY <3>1 DEF Told
    <3>3. m <= Len(async) /\ Len(async) \in Nat
      <4>1. Len(async') \in Nat /\ Len(async) \in Nat
        BY <1>2
      <4> QED
        BY <4>1
    <3> QED
      BY <3>2, <3>3
  <2>2. async[p].id = i /\ p \in DOMAIN async
    <3>1. (async \o asyncbuf)[p] = async[p]
      BY <1>2, <2>1
    <3> QED
      BY <1>2, <2>1, <3>1 DEF Told
  <2>3. p # next
    <3> SUFFICES ASSUME p = next PROVE FALSE
      OBVIOUS
    <3>1. Invalid(next)
      BY <1>2, <2>1
    <3> QED
      BY <2>2, <3>1 DEF Invalid
  <2>4. p < next
    BY <1>2, <2>1, <2>3
  <2> QED
    BY <2>2, <2>4 DEF For
<1>11. Cardinality(Told(i)) <= Cardinality(For(i, next)) + Cardinality(late)
  <2> HIDE DEF late
  <2>1. /\ IsFiniteSet(For(i, next) \cup late)
        /\ Cardinality(For(i, next) \cup late)
             = Cardinality(For(i, next)) + Cardinality(late)
                 - Cardinality(For(i, next) \cap late)
        /\ Cardinality(For(i, next) \cap late) \in Nat
        /\ Cardinality(For(i, next) \cup late) \in Nat
    BY <1>8, <1>9, FS_Union, FS_Intersection, FS_CardinalityType
  <2>2. Cardinality(Told(i)) <= Cardinality(For(i, next) \cup late)
    BY <1>10, <2>1, FS_Subset
  <2> QED
    BY <1>5, <1>8, <1>9, <2>1, <2>2
<1> HIDE DEF late
<1> QED
  BY <1>5, <1>8, <1>9, <1>11

LEMMA UpdateEvents ==
  ASSUME ListenInv, EventInv, ListenInv', ftrigr_update, UNCHANGED <<server, fifo, writer>>
  PROVE  EventInv'
<1>1. /\ call = NoCall /\ NoCall.op = "none"
      /\ UNCHANGED <<freelist, call, asked, open, a, asyncbuf, pc, x, server>>
  BY DEF ftrigr_update, Idle, NoCall, server
<1>2. PICK next \in 1 .. Len(async) + 1 :
        /\ \A n \in 1 .. next - 1 : ~Invalid(n)
        /\ next <= Len(async) => Invalid(next)
        /\ data' = [i \in Ids |-> msghandler(data[i], For(i, next))]
        /\ async' = SubSeq(async, next + 1, Len(async))
        /\ owed' = [i \in Ids |-> IF data'[i].state = "LISTENING"
                                  THEN Minus(owed[i], Cardinality(For(i, next))) ELSE 0]
  BY DEF ftrigr_update
<1>3. async \in Seq(Msg) /\ async' \in Seq(Msg) /\ DOMAIN async = 1 .. Len(async)
      /\ asyncbuf \in Seq(Msg)
  BY DEF ListenInv, ListenTypes
<1>4. \A i \in Ids :
        /\ data'[i].state = "LISTENING" =>
             /\ data[i].state = "LISTENING" /\ data'[i].repeat = data[i].repeat
             /\ \A n \in For(i, next) : ~Ends(data[i], async[n])
        /\ For(i, next) = {} => data'[i].state = data[i].state
  BY <1>2, HandlerFacts DEF ListenInv, ListenTypes
<1>5. PICK m \in Nat :
        /\ m = IF next <= Len(async) THEN next ELSE Len(async)
        /\ Len(async') = Len(async) - m
        /\ \A p \in 1 .. Len(async') : async'[p] = async[p + m]
  <2>1. PICK m \in Nat :
          /\ m = IF next <= Len(async) THEN next ELSE Len(async)
          /\ Len(SubSeq(async, next + 1, Len(async))) = Len(async) - m
          /\ \A p \in 1 .. Len(async) - m :
               SubSeq(async, next + 1, Len(async))[p] = async[p + m]
    BY <1>3, Rest, Zenon
  <2> QED
    BY <1>2, <2>1, Zenon
<1>6. \A i \in Ids : data'[i].state = "LISTENING" =>
        /\ Cardinality(For(i, next)) \in Nat
        /\ Cardinality(Told(i)) <= Cardinality(For(i, next)) + Cardinality(Told(i)')
  BY <1>1, <1>2, <1>4, <1>5, UpdateTold
<1>7. Cells'
  <2>1. ASSUME NEW i \in Ids, data[i].state = "ERROR"
        PROVE  data'[i].state = "ERROR"
    <3>1. \A n \in For(i, next) : n \in 1 .. next - 1 /\ Invalid(n)
      BY <1>3, <2>1 DEF For, Invalid
    <3>2. For(i, next) = {}
      BY <1>2, <3>1
    <3> QED
      BY <1>4, <2>1, <3>2
  <2>2. \A p \in DOMAIN freelist : freelist[p] \in Ids
    BY DEF ListenInv, ListenTypes
  <2> QED
    BY <1>1, <2>1, <2>2 DEF EventInv, Cells
<1>8. \A i \in Ids :
        /\ owed[i] \in Nat /\ owed'[i] \in Nat
        /\ owed'[i] = IF data'[i].state = "LISTENING"
                      THEN Minus(owed[i], Cardinality(For(i, next))) ELSE 0
        /\ owed'[i] # 0 => data'[i].state = "LISTENING" /\ owed[i] # 0
  <2> SUFFICES ASSUME NEW i \in Ids
               PROVE  /\ owed[i] \in Nat /\ owed'[i] \in Nat
                      /\ owed'[i] = IF data'[i].state = "LISTENING"
                                    THEN Minus(owed[i], Cardinality(For(i, next))) ELSE 0
                      /\ owed'[i] # 0 => data'[i].state = "LISTENING" /\ owed[i] # 0
    OBVIOUS
  <2>1. owed[i] \in Nat
    BY DEF EventInv, EventTypes
  <2>2. owed'[i] = IF data'[i].state = "LISTENING"
                   THEN Minus(owed[i], Cardinality(For(i, next))) ELSE 0
    BY <1>2
  <2> DEFINE c == Cardinality(For(i, next))
             o == owed[i]
  <2>3. data'[i].state = "LISTENING" => c \in Nat
    BY <1>6
  <2> HIDE DEF c, o
  <2>4. c \in Nat /\ o \in Nat => Minus(o, c) \in Nat /\ (Minus(o, c) # 0 => o # 0)
    BY DEF Minus
  <2> QED
    BY <2>1, <2>2, <2>3, <2>4 DEF c, o
<1>9. /\ \A i \in Ids : Listening(i)' => Listening(i) /\ data'[i].state = "LISTENING"
      /\ \A i \in Ids : owed'[i] # 0 => Listening(i)' /\ Decided(asked'[i])
  BY <1>1, <1>4, <1>8 DEF Listening, EventInv, EventTypes
<1>10. owed' \in [Ids -> Nat]
  BY <1>2, <1>8
<1>11. EventTypes'
  BY <1>9, <1>10 DEF EventInv, EventTypes, Busy
<1>12. \A k \in DOMAIN a : \A n : a[k].n = n =>
         n \in DOMAIN fifo' /\ Len(fifo[n].bytes) <= Len(fifo'[n].bytes)
  BY DEF ListenInv, Served, EventInv, EventTypes
<1>13. Reading'
  BY <1>1, <1>11, <1>12, SameReading
<1>14. Events'
  <2> SUFFICES ASSUME NEW i \in Ids, Listening(i)'
               PROVE  Carried(i)' \/ Ended(i, data[i].repeat)'
    BY DEF Events
  <2>1. /\ Listening(i) /\ data'[i].state = "LISTENING" /\ data[i].state = "LISTENING"
        /\ data'[i].repeat = data[i].repeat /\ asked'[i] = asked[i]
        /\ \A n \in For(i, next) : ~Ends(data[i], async[n])
    BY <1>1, <1>4, <1>9
  <2>2. CASE Ended(i, data[i].repeat)
    <3>1. \A n \in next + 1 .. Len(async) : async[n] \in Range(async')
      BY <1>2, <1>3, MessagesLeft
    <3> QED
      BY <1>1, <1>2, <2>1, <2>2, <3>1, UpdateEnds
  <2>3. ASSUME NEW k \in DOMAIN a, NEW n, a[k].n = n,
               a[k].id = i, a[k].re = asked[i], a[k].repeat = data[i].repeat,
               owed[i] <= OnTheWay(i, n)
        PROVE  Carried(i)'
    <3>1. n \in DOMAIN fifo /\ n \in DOMAIN fifo'
      BY <2>3 DEF ListenInv, Served
    <3>2. async \o asyncbuf \in Seq(Msg) /\ async' \o asyncbuf' \in Seq(Msg)
      BY DEF ListenInv, ListenTypes
    <3>3. Carriers(n)' = Carriers(n) /\ fifo'[n] = fifo[n]
      BY DEF Carriers
    <3>4. owed'[i] <= OnTheWay(i, n)'
      <4> DEFINE b == Cardinality(Carriers(n))
                 l == Len(fifo[n].bytes)
                 t == Cardinality(Told(i))
                 u == Cardinality(Told(i)')
                 c == Cardinality(For(i, next))
                 o == owed[i]
                 p == owed'[i]
      <4>1. /\ b \in Nat /\ l \in Nat /\ t \in Nat /\ u \in Nat
            /\ OnTheWay(i, n) = b + l + t /\ OnTheWay(i, n)' = b + l + u
        BY <1>11, <3>1, <3>2, <3>3, OnTheWayFacts DEF EventInv
      <4>2. c \in Nat /\ o \in Nat /\ p \in Nat /\ t <= c + u
        BY <1>6, <1>8, <2>1
      <4>3. p = Minus(o, c) /\ o <= b + l + t
        BY <1>8, <2>1, <2>3, <4>1
      <4> HIDE DEF b, l, t, u, c, o, p
      <4>4. p <= b + l + u
        BY <4>1, <4>2, <4>3 DEF Minus
      <4> QED
        BY <4>1, <4>4 DEF p
    <3> QED
      BY <1>1, <2>1, <2>3, <3>4 DEF Carried
  <2> QED
    BY <2>1, <2>2, <2>3 DEF Carried, EventInv, Events
<1> QED
  BY <1>7, <1>11, <1>13, <1>14 DEF EventInv

LEMMA ClientEvents ==
  ASSUME ListenInv, EventInv, ListenInv', ClientNext
  PROVE  EventInv'
BY SubscribeEvents, CheckEvents, UnsubscribeEvents, GetAckEvents, UpdateEvents
   DEF ClientNext

LEMMA FreedBytes ==
  ASSUME EventTypes, NEW ns, fifo' = Freed(fifo, ns)
  PROVE  /\ DOMAIN fifo' = DOMAIN fifo
         /\ \A n \in DOMAIN fifo : /\ "bytes" \in DOMAIN fifo'[n]
                                   /\ fifo'[n].bytes \in Seq(Bytes)
                                   /\ n \notin ns => fifo'[n] = fifo[n]
<1>1. /\ DOMAIN fifo' = DOMAIN fifo
      /\ \A i \in DOMAIN fifo :
        IF i \in ns THEN fifo'[i] = [name |-> "none", reader |-> FALSE, bytes |-> <<>>]
        ELSE fifo'[i] = fifo[i]
  BY DEF Freed
<1>2. \A i \in DOMAIN fifo : i \in ns => /\ "bytes" \in DOMAIN fifo'[i]
                                         /\ fifo'[i].bytes = <<>>
  BY <1>1
<1>3. <<>> \in Seq(Bytes)
  BY EmptySeq
<1> QED
  BY <1>1, <1>2, <1>3 DEF EventTypes

\* The session is over; nobody is owed anything.
LEMMA GoneEvents ==
  ASSUME EventInv, a' = <<>>, pc' = "gone", UNCHANGED <<data, freelist, call, writer>>,
         owed' = [i \in Ids |-> 0],
         \A n \in DOMAIN fifo' : "bytes" \in DOMAIN fifo'[n] /\ fifo'[n].bytes \in Seq(Bytes)
  PROVE  EventInv'
<1>1. EventTypes'
  BY DEF EventInv, EventTypes, Busy
<1>2. Cells'
  BY DEF EventInv, Cells
<1>3. Reading' /\ Events'
  BY DEF Reading, Events, Listening
<1> QED
  BY <1>1, <1>2, <1>3 DEF EventInv

LEMMA CleanupEvents ==
  ASSUME EventInv, ~open, cleanup, UNCHANGED <<client, owed, writer>>
  PROVE  EventInv'
<1>1. /\ fifo' = Freed(fifo, {a[k].n : k \in DOMAIN a}) /\ a' = <<>> /\ pc' = "gone"
      /\ UNCHANGED <<data, freelist, call, owed, writer>>
  BY DEF cleanup, client
<1>2. \A n \in DOMAIN fifo' : "bytes" \in DOMAIN fifo'[n] /\ fifo'[n].bytes \in Seq(Bytes)
  BY <1>1, FreedBytes DEF EventInv
<1>3. owed' = [i \in Ids |-> 0]
  BY <1>1 DEF EventInv, EventTypes, Listening
<1> QED
  BY <1>1, <1>2, <1>3, GoneEvents

LEMMA ServerTypes ==
  ASSUME EventInv, UNCHANGED <<client, owed, writer>>, pc # "gone", pc' # "gone",
         \A n \in DOMAIN fifo' : "bytes" \in DOMAIN fifo'[n] /\ fifo'[n].bytes \in Seq(Bytes)
  PROVE  /\ EventTypes' /\ Cells'
         /\ \A n : Carriers(n)' = Carriers(n)
         /\ \A i \in Ids : /\ Listening(i)' <=> Listening(i)
                           /\ UNCHANGED asked[i] /\ UNCHANGED data[i].repeat
                           /\ owed'[i] <= owed[i]
<1>1. \A i \in Ids : /\ Listening(i)' <=> Listening(i)
                     /\ UNCHANGED asked[i] /\ UNCHANGED data[i].repeat
                     /\ owed'[i] <= owed[i]
  BY DEF Listening, client, EventInv, EventTypes
<1>2. EventTypes'
  BY <1>1 DEF EventInv, EventTypes, Busy, client
<1>3. Cells'
  BY SameCells DEF EventInv
<1>4. \A n : Carriers(n)' = Carriers(n)
  BY DEF Carriers
<1> QED
  BY <1>1, <1>2, <1>3, <1>4

\* What is written from the buffers is in the same order in the pipes.
LEMMA IopauseEvents ==
  ASSUME ListenInv, EventInv, ListenInv', Iopause, UNCHANGED <<client, owed>>
  PROVE  EventInv'
<1>1. CASE ~open
  BY <1>1, CleanupEvents DEF Iopause
<1>2. CASE open
  <2>1. /\ async' = async \o asyncbuf /\ asyncbuf' = <<>> /\ pc = "pause" /\ pc' = "scan"
        /\ x' = [fifos |-> Readable, req |-> req # <<>>]
        /\ UNCHANGED <<a, fifo, client, owed, writer>>
    BY <1>2 DEF Iopause
  <2>2. \A n \in DOMAIN fifo' : "bytes" \in DOMAIN fifo'[n] /\ fifo'[n].bytes \in Seq(Bytes)
    BY <2>1 DEF EventInv, EventTypes
  <2>3. /\ EventTypes' /\ Cells' /\ \A n : Carriers(n)' = Carriers(n)
        /\ \A i \in Ids : /\ Listening(i)' <=> Listening(i)
                          /\ UNCHANGED asked[i] /\ UNCHANGED data[i].repeat
                          /\ owed'[i] <= owed[i]
    BY <2>1, <2>2, ServerTypes
  <2>4. Reading'
    <3>1. "fifos" \in DOMAIN x' /\ x'.fifos = Readable
      BY <2>1
    <3>2. \A k \in DOMAIN a : a[k].n \in Readable => fifo[a[k].n].bytes # <<>>
      BY DEF Readable
    <3> QED
      BY <2>1, <3>1, <3>2 DEF EventInv, Reading, Decided
  <2>5. async \in Seq(Msg) /\ asyncbuf \in Seq(Msg)
    BY DEF ListenInv, ListenTypes
  <2>6. async' \o asyncbuf' = async \o asyncbuf
    <3>1. async \o asyncbuf \in Seq(Msg)
      BY <2>5
    <3> QED
      BY <2>1, <3>1, ConcatEmptySeq
  <2>7. \A i \in Ids : Told(i)' = Told(i)
    BY <2>6 DEF Told
  <2>8. \A i \in Ids : Ended(i, data[i].repeat) => Ended(i, data[i].repeat)'
    <3>1. Range(async') = Range(async) \cup Range(asyncbuf)
      BY <2>1, <2>5, RangeConcatenation
    <3> QED
      BY <2>3, <3>1 DEF Ended
  <2>9. \A k \in DOMAIN a : \A n : a[k].n = n =>
          n \in DOMAIN fifo' /\ Len(fifo[n].bytes) <= Len(fifo'[n].bytes)
    BY <2>1 DEF ListenInv, Served, EventInv, EventTypes
  <2>10. Events'
    BY <2>1, <2>3, <2>7, <2>8, <2>9, KeptEvents DEF ListenInv
  <2> QED
    BY <2>3, <2>4, <2>10 DEF EventInv
<1> QED
  BY <1>1, <1>2

\* The array stays, and what is in its fifos.
LEMMA QuietEvents ==
  ASSUME ListenInv, EventInv, ListenInv', UNCHANGED <<client, owed, writer>>,
         UNCHANGED <<a, async, asyncbuf>>, pc # "gone", pc' \notin {"scan", "gone"},
         \A n \in DOMAIN fifo' : "bytes" \in DOMAIN fifo'[n] /\ fifo'[n].bytes \in Seq(Bytes),
         \A k \in DOMAIN a : \A n : a[k].n = n =>
            n \in DOMAIN fifo' /\ fifo'[n].bytes = fifo[n].bytes
  PROVE  EventInv'
<1>1. /\ EventTypes' /\ Cells' /\ \A n : Carriers(n)' = Carriers(n)
      /\ \A i \in Ids : /\ Listening(i)' <=> Listening(i)
                        /\ UNCHANGED asked[i] /\ UNCHANGED data[i].repeat
                        /\ owed'[i] <= owed[i]
  BY ServerTypes
<1>2. \A k \in DOMAIN a : \A n : a[k].n = n =>
        n \in DOMAIN fifo' /\ Len(fifo[n].bytes) <= Len(fifo'[n].bytes)
  BY DEF ListenInv, Served, EventInv, EventTypes
<1>3. Reading'
  BY <1>1, <1>2, SameReading
<1>4. Events'
  BY <1>1, <1>2, SameEvents DEF ListenInv
<1> QED
  BY <1>1, <1>3, <1>4 DEF EventInv

LEMMA DoneScanEvents ==
  ASSUME ListenInv, EventInv, ListenInv', ScanDone \/ (ParseDone /\ open),
         UNCHANGED <<client, owed>>
  PROVE  EventInv'
<1>1. /\ UNCHANGED <<writer, a, async, asyncbuf, fifo>>
      /\ pc # "gone" /\ pc' \notin {"scan", "gone"}
  BY DEF ScanDone, ParseDone, pipes
<1>2. \A n \in DOMAIN fifo' : "bytes" \in DOMAIN fifo'[n] /\ fifo'[n].bytes \in Seq(Bytes)
  BY <1>1 DEF EventInv, EventTypes
<1>3. \A k \in DOMAIN a : \A n : a[k].n = n =>
        n \in DOMAIN fifo' /\ fifo'[n].bytes = fifo[n].bytes
  BY <1>1 DEF ListenInv, Served
<1> QED
  BY <1>1, <1>2, <1>3, QuietEvents

\* ftrig1_make() comes to no fifo that has an entry.
LEMMA MakingEvents ==
  ASSUME FifoInv, ListenInv, EventInv, ListenInv', MakeFifo \/ MakeOpen \/ MakeFails,
         UNCHANGED <<client, owed>>
  PROVE  EventInv'
<1>1. /\ UNCHANGED <<writer, a, async, asyncbuf>>
      /\ pc # "gone" /\ pc' \notin {"scan", "gone"}
  BY DEF MakeFifo, MakeOpen, MakeFails, Subscribing, pipes
<1>2. /\ \A n \in DOMAIN fifo' : "bytes" \in DOMAIN fifo'[n] /\ fifo'[n].bytes \in Seq(Bytes)
      /\ \A k \in DOMAIN a : \A n : a[k].n = n =>
           n \in DOMAIN fifo' /\ fifo'[n].bytes = fifo[n].bytes
  <2>1. \A n \in DOMAIN fifo : "bytes" \in DOMAIN fifo[n] /\ fifo[n].bytes \in Seq(Bytes)
    BY DEF EventInv, EventTypes
  <2>2. \A k \in DOMAIN a : a[k].n \in DOMAIN fifo
    BY DEF ListenInv, Served
  <2>3. CASE MakeFifo
    <3> DEFINE new == [name |-> "hidden", reader |-> FALSE, bytes |-> <<>>]
               S == Range(fifo) \cup {new}
    <3>1. fifo' = Append(fifo, new) /\ fifo \in Seq(S) /\ new \in S
      BY <2>3, SeqMonotonic DEF MakeFifo, FifoInv, Rows
    <3>2. "bytes" \in DOMAIN new /\ new.bytes = <<>> /\ <<>> \in Seq(Bytes)
      BY EmptySeq
    <3> HIDE DEF new, S
    <3>3. /\ Len(fifo') = Len(fifo) + 1 /\ Len(fifo) \in Nat
          /\ DOMAIN fifo = 1 .. Len(fifo) /\ DOMAIN fifo' = 1 .. Len(fifo')
          /\ \A n \in DOMAIN fifo : fifo'[n] = fifo[n]
          /\ fifo'[Len(fifo')] = new
      BY <3>1
    <3>4. /\ \A n \in DOMAIN fifo' : n \in DOMAIN fifo \/ n = Len(fifo')
          /\ \A n \in DOMAIN fifo : n \in DOMAIN fifo'
      BY <3>3
    <3> QED
      BY <2>1, <2>2, <3>2, <3>3, <3>4
  <2>4. CASE MakeOpen
    <3>1. /\ DOMAIN fifo' = DOMAIN fifo
          /\ \A n \in DOMAIN fifo : "bytes" \in DOMAIN fifo'[n]
                                    /\ fifo'[n].bytes = fifo[n].bytes
      BY <2>1, <2>4 DEF MakeOpen
    <3> QED
      BY <2>1, <2>2, <3>1
  <2>5. CASE MakeFails
    <3>1. CASE pc = "parse"
      BY <2>1, <2>2, <2>5, <3>1 DEF MakeFails
    <3>2. CASE pc # "parse"
      <4>1. fifo' = Freed(fifo, {Len(fifo)}) /\ pc \in {"open", "rename"}
        BY <2>5, <3>2 DEF MakeFails, Subscribing
      <4>2. \A k \in DOMAIN a : a[k].n # Len(fifo)
        BY <4>1 DEF ListenInv, Served
      <4>3. /\ DOMAIN fifo' = DOMAIN fifo
            /\ \A n \in DOMAIN fifo : /\ "bytes" \in DOMAIN fifo'[n]
                                      /\ fifo'[n].bytes \in Seq(Bytes)
                                      /\ n \notin {Len(fifo)} => fifo'[n] = fifo[n]
        BY <4>1, FreedBytes DEF EventInv
      <4> QED
        BY <2>2, <4>2, <4>3
    <3> QED
      BY <3>1, <3>2
  <2> QED
    BY <2>3, <2>4, <2>5
<1> QED
  BY <1>1, <1>2, QuietEvents

\* The entry that goes is that of the subscription that is ended.
LEMMA UnsubscribedEvents ==
  ASSUME FifoInv, ListenInv, EventInv, ListenInv', Unsubscribe, UNCHANGED <<client, owed>>
  PROVE  EventInv'
<1>1. /\ pc = "parse" /\ pc' = "parse" /\ req # <<>> /\ Head(req).op = "U"
      /\ UNCHANGED <<async, asyncbuf, writer>>
  BY DEF Unsubscribe
<1>2. Head(req) = call /\ call.op = "U"
  BY <1>1, AtRequest DEF ListenInv
<1>3. CASE UNCHANGED <<a, fifo>>
  <2>1. \A n \in DOMAIN fifo' : "bytes" \in DOMAIN fifo'[n] /\ fifo'[n].bytes \in Seq(Bytes)
    BY <1>3 DEF EventInv, EventTypes
  <2>2. \A k \in DOMAIN a : \A n : a[k].n = n =>
          n \in DOMAIN fifo' /\ fifo'[n].bytes = fifo[n].bytes
    BY <1>3 DEF ListenInv, Served
  <2> QED
    BY <1>1, <1>3, <2>1, <2>2, QuietEvents
<1>4. ASSUME NEW k \in DOMAIN a, a[k].id = call.id, a' = Without(k),
             fifo' = Freed(fifo, {a[k].n})
      PROVE  EventInv'
  <2>1. /\ \A j \in DOMAIN a' : \E i \in DOMAIN a : a'[j] = a[i]
        /\ \A i \in DOMAIN a : i # k => \E j \in DOMAIN a' : a'[j] = a[i]
    BY <1>4, WithoutFacts DEF FifoInv
  <2>2. /\ DOMAIN fifo' = DOMAIN fifo
        /\ \A n \in DOMAIN fifo : /\ "bytes" \in DOMAIN fifo'[n]
                                  /\ fifo'[n].bytes \in Seq(Bytes)
                                  /\ n \notin {a[k].n} => fifo'[n] = fifo[n]
    BY <1>4, FreedBytes DEF EventInv
  <2>3. /\ EventTypes' /\ Cells' /\ \A n : Carriers(n)' = Carriers(n)
        /\ \A i \in Ids : /\ Listening(i)' <=> Listening(i)
                          /\ UNCHANGED asked[i] /\ UNCHANGED data[i].repeat
                          /\ owed'[i] <= owed[i]
    BY <1>1, <2>2, ServerTypes
  <2>4. Reading'
    BY <1>1, <2>1 DEF EventInv, Reading, Decided
  <2>5. Events'
    <3>1. \A i \in Ids : Listening(i)' => i # call.id
      BY <1>2 DEF Listening, client
    <3>2. \A i \in Ids : /\ Told(i)' = Told(i)
                         /\ Ended(i, data[i].repeat) => Ended(i, data[i].repeat)'
      BY <1>1, <2>3 DEF Told, Ended
    <3>3. ASSUME NEW i \in Ids, Listening(i)', NEW j \in DOMAIN a, NEW n,
                 a[j].id = i, a[j].n = n
          PROVE  /\ n \in DOMAIN fifo' /\ Len(fifo[n].bytes) <= Len(fifo'[n].bytes)
                 /\ \E l \in DOMAIN a' :
                      /\ a'[l].id = i /\ a'[l].n = n
                      /\ a'[l].re = a[j].re /\ a'[l].repeat = a[j].repeat
      <4>1. j # k /\ n \in DOMAIN fifo /\ n # a[k].n
        BY <1>4, <3>1, <3>3 DEF ListenInv, Served
      <4>2. fifo'[n] = fifo[n] /\ Len(fifo[n].bytes) \in Nat
        BY <2>2, <4>1 DEF EventInv, EventTypes
      <4> QED
        BY <2>1, <2>2, <3>3, <4>1, <4>2
    <3> QED
      BY <2>3, <3>2, <3>3, KeptEvents DEF ListenInv
  <2> QED
    BY <2>3, <2>4, <2>5 DEF EventInv
<1> QED
  BY <1>2, <1>3, <1>4 DEF Unsubscribe

\* A writer may find one fifo more, which is that of the new entry.
LEMMA RenameEvents ==
  ASSUME FifoInv, ListenInv, EventInv, ListenInv', MakeRename, UNCHANGED <<client, owed>>
  PROVE  EventInv'
<1> DEFINE e == [id |-> Head(req).id, n |-> Len(fifo), re |-> Head(req).re,
                 repeat |-> Head(req).repeat, dfa |-> <<>>]
           S == Range(a) \cup {e}
<1>1. /\ fifo' = [fifo EXCEPT ![Len(fifo)].name = IF @ = "hidden" THEN "shown" ELSE @]
      /\ a' = Append(a, e) /\ pc = "rename" /\ pc' = "parse"
      /\ UNCHANGED <<asyncbuf, async, data, asked, freelist, call, open, owed>>
  BY DEF MakeRename, client
<1>2. PICK found \in SUBSET {w \in Writers : writer[w].at # "rest"} :
        writer' = [w \in Writers |-> IF w \in found
                     THEN [writer[w] EXCEPT !.todo = @ \cup {Len(fifo)}] ELSE writer[w]]
  BY DEF MakeRename
<1>3. call \in Call /\ call.op = "L" /\ Head(req) = call
  <2>1. req = <<call>> /\ call.op = "L" /\ call # NoCall
    BY <1>1 DEF ListenInv, Asking, Waiting
  <2> QED
    BY <2>1 DEF ListenInv, ListenTypes
<1>4. call.re \in Res
  BY <1>3 DEF Call
<1>5. a \in Seq(S) /\ e \in S /\ e.re = call.re /\ e.dfa = <<>> /\ "dfa" \in DOMAIN e
  BY <1>3, SeqMonotonic DEF FifoInv, Entries
<1> HIDE DEF e, S
<1>6. /\ Len(a') = Len(a) + 1 /\ Len(a) \in Nat
      /\ DOMAIN a = 1 .. Len(a) /\ DOMAIN a' = 1 .. Len(a')
      /\ \A k \in DOMAIN a : k \in DOMAIN a' /\ a'[k] = a[k]
      /\ a'[Len(a')] = e
  BY <1>1, <1>5
<1>7. \A k \in DOMAIN a' : k \in DOMAIN a \/ k = Len(a')
  BY <1>6
<1>8. /\ DOMAIN fifo' = DOMAIN fifo
      /\ \A n \in DOMAIN fifo : "bytes" \in DOMAIN fifo'[n] /\ fifo'[n].bytes = fifo[n].bytes
                                /\ fifo[n].bytes \in Seq(Bytes)
  BY <1>1 DEF EventInv, EventTypes
<1>9. /\ writer' = [w \in Writers |-> writer'[w]]
      /\ \A w \in Writers : /\ {"at", "todo", "c", "n"} \subseteq DOMAIN writer'[w]
                            /\ writer'[w].at = writer[w].at /\ writer'[w].c = writer[w].c
                            /\ writer'[w].n = writer[w].n
                            /\ writer[w].todo \subseteq writer'[w].todo
  <2> DEFINE wide(w) == [writer[w] EXCEPT !.todo = @ \cup {Len(fifo)}]
  <2>1. \A w \in Writers : /\ {"at", "todo", "c", "n"} \subseteq DOMAIN wide(w)
                           /\ wide(w).at = writer[w].at /\ wide(w).c = writer[w].c
                           /\ wide(w).n = writer[w].n
                           /\ writer[w].todo \subseteq wide(w).todo
    BY DEF EventInv, EventTypes
  <2>2. /\ writer' = [w \in Writers |-> writer'[w]]
        /\ \A w \in Writers : writer'[w] = wide(w) \/ writer'[w] = writer[w]
    BY <1>2
  <2> HIDE DEF wide
  <2> QED
    BY <2>1, <2>2 DEF EventInv, EventTypes
<1>10. \A i \in Ids : /\ Listening(i)' <=> Listening(i)
                      /\ UNCHANGED asked[i] /\ UNCHANGED data[i].repeat
                      /\ owed'[i] <= owed[i]
  BY <1>1 DEF Listening, EventInv, EventTypes
<1>11. EventTypes'
  <2>1. Busy' = Busy
    BY <1>9 DEF Busy
  <2> QED
    BY <1>1, <1>8, <1>9, <1>10, <2>1 DEF EventInv, EventTypes
<1>12. Cells'
  BY <1>1 DEF EventInv, Cells
<1>13. Reading'
  BY <1>1, <1>4, <1>5, <1>6, <1>7 DEF EventInv, Reading, Decided
<1>14. \A n : Carriers(n) \subseteq Carriers(n)'
  BY <1>9 DEF Carriers
<1>15. Events'
  <2>1. \A i \in Ids : /\ Told(i)' = Told(i)
                       /\ Ended(i, data[i].repeat) => Ended(i, data[i].repeat)'
    BY <1>1 DEF Told, Ended
  <2>2. \A k \in DOMAIN a : \A n : a[k].n = n =>
          n \in DOMAIN fifo' /\ Len(fifo[n].bytes) <= Len(fifo'[n].bytes)
    BY <1>8 DEF ListenInv, Served
  <2>3. \A i \in Ids : \A k \in DOMAIN a : \A n : a[k].id = i /\ a[k].n = n =>
          \E j \in DOMAIN a' : /\ a'[j].id = i /\ a'[j].n = n
                               /\ a'[j].re = a[k].re /\ a'[j].repeat = a[k].repeat
    BY <1>6
  <2> QED
    BY <1>10, <1>11, <1>14, <2>1, <2>2, <2>3, KeptEvents DEF ListenInv
<1> QED
  BY <1>11, <1>12, <1>13, <1>15 DEF EventInv

LEMMA KillEvents ==
  ASSUME EventInv, Kill
  PROVE  EventInv'
<1>1. /\ fifo' = [n \in DOMAIN fifo |-> [fifo[n] EXCEPT !.reader = FALSE, !.bytes = <<>>]]
      /\ a' = <<>> /\ pc' = "gone" /\ owed' = [i \in Ids |-> 0]
      /\ UNCHANGED <<data, freelist, call, writer>>
  BY DEF Kill, client
<1>2. <<>> \in Seq(Bytes)
  BY EmptySeq
<1>3. \A n \in DOMAIN fifo' : "bytes" \in DOMAIN fifo'[n] /\ fifo'[n].bytes \in Seq(Bytes)
  BY <1>1, <1>2 DEF EventInv, EventTypes
<1> QED
  BY <1>1, <1>3, GoneEvents

\* A message more is on the way.
LEMMA TrigTold ==
  ASSUME async \in Seq(Msg), asyncbuf \in Seq(Msg), UNCHANGED async, NEW i \in Ids,
         NEW what \in {"!", "d"}, trig(i, what)
  PROVE  /\ asyncbuf' \in Seq(Msg)
         /\ \A j \in Ids : Told(j) \subseteq Told(j)'
         /\ \A j \in Ids : \A r : Ended(j, r) => Ended(j, r)'
         /\ \A r : what = "d" \/ ~r => Ended(i, r)'
         /\ Cardinality(Told(i)') = Cardinality(Told(i)) + 1
<1> DEFINE m == [id |-> i, what |-> what]
           v == async \o asyncbuf
           w == async \o Append(asyncbuf, m)
<1>1. m \in Msg /\ m.id = i /\ m.what = what
  BY DEF Msg
<1>2. asyncbuf' = Append(asyncbuf, m) /\ asyncbuf' \in Seq(Msg)
  BY <1>1 DEF trig
<1>3. w = (async \o asyncbuf)'
  BY <1>2
<1> HIDE DEF m
<1>4. /\ v \in Seq(Msg) /\ w = Append(v, m)
  OBVIOUS
<1>5. Told(i) = {p \in DOMAIN v : v[p].id = i}
  BY DEF Told
<1>6. \A j : /\ Told(j) = {p \in DOMAIN v : v[p].id = j}
             /\ Told(j)' = {p \in DOMAIN w : w[p].id = j}
  BY <1>3 DEF Told
<1>7. Range(asyncbuf') = Range(asyncbuf) \cup {m}
  BY <1>1, <1>2 DEF Range
<1> HIDE DEF v, w
<1>8. /\ Len(v) \in Nat /\ DOMAIN v = 1 .. Len(v) /\ DOMAIN w = 1 .. Len(v) + 1
      /\ \A p \in DOMAIN v : w[p] = v[p]
      /\ w[Len(v) + 1] = m
  BY <1>1, <1>4
<1>9. \A j : Told(j) \subseteq Told(j)'
  BY <1>6, <1>8
<1>10. Told(i)' = Told(i) \cup {Len(v) + 1} /\ Len(v) + 1 \notin Told(i)
  BY <1>1, <1>6, <1>8
<1>11. Cardinality(Told(i)') = Cardinality(Told(i)) + 1
  <2>1. IsFiniteSet(Told(i))
    BY <1>4, <1>5, ToldFinite
  <2> QED
    BY <1>10, <2>1, FS_AddElement
<1> QED
  BY <1>1, <1>2, <1>7, <1>9, <1>11 DEF Ended

\* A byte that is read is a message, or was owed to nobody: no event is decided by
\* more than one byte.
LEMMA ScanEvents ==
  ASSUME FifoInv, ListenInv, EventInv, ListenInv', Scan, UNCHANGED <<client, owed>>
  PROVE  EventInv'
<1>1. PICK k \in DOMAIN a, n \in {a[j].n : j \in DOMAIN a} :
        /\ n = a[k].n /\ n \in x.fifos
        /\ Feed(k, Append(a[k].dfa, Head(fifo[n].bytes)))
        /\ x' = [x EXCEPT !.fifos = @ \ {n}]
        /\ fifo' = IF \E j \in DOMAIN a' : a'[j].n = n
                   THEN [fifo EXCEPT ![n].bytes = Tail(@)] ELSE Freed(fifo, {n})
  BY DEF Scan
<1>2. PICK e, b : e = a[k] /\ b = Head(fifo[n].bytes)
  OBVIOUS
<1> DEFINE read == Append(e.dfa, b)
<1>3. /\ pc = "scan" /\ pc' = "scan"
      /\ UNCHANGED <<async, writer>>
  BY DEF Scan, pipes
<1>4. async \in Seq(Msg) /\ asyncbuf \in Seq(Msg) /\ e.id \in Ids
  BY <1>2 DEF ListenInv, ListenTypes
<1>5. /\ n \in DOMAIN fifo /\ fifo[n].bytes \in Seq(Bytes)
      /\ Tail(fifo[n].bytes) \in Seq(Bytes) /\ b \in Bytes
      /\ Len(fifo[n].bytes) \in Nat
      /\ Len(Tail(fifo[n].bytes)) + 1 = Len(fifo[n].bytes)
  <2>1. n \in DOMAIN fifo /\ fifo[n].bytes \in Seq(Bytes) /\ fifo[n].bytes # <<>>
    BY <1>1, <1>3 DEF ListenInv, Served, EventInv, EventTypes, Reading
  <2> QED
    BY <1>2, <2>1
<1>6. /\ DOMAIN fifo' = DOMAIN fifo
      /\ \A m \in DOMAIN fifo : /\ "bytes" \in DOMAIN fifo'[m]
                                /\ fifo'[m].bytes \in Seq(Bytes)
                                /\ m # n => fifo'[m] = fifo[m]
      /\ (\E j \in DOMAIN a' : a'[j].n = n) => fifo'[n].bytes = Tail(fifo[n].bytes)
  <2>1. CASE \E j \in DOMAIN a' : a'[j].n = n
    <3>1. fifo' = [fifo EXCEPT ![n].bytes = Tail(fifo[n].bytes)]
      BY <1>1, <2>1
    <3> QED
      BY <1>5, <3>1 DEF EventInv, EventTypes
  <2>2. CASE ~\E j \in DOMAIN a' : a'[j].n = n
    <3>1. fifo' = Freed(fifo, {n})
      BY <1>1, <2>2
    <3>2. /\ DOMAIN fifo' = DOMAIN fifo
          /\ \A m \in DOMAIN fifo : /\ "bytes" \in DOMAIN fifo'[m]
                                    /\ fifo'[m].bytes \in Seq(Bytes)
                                    /\ m \notin {n} => fifo'[m] = fifo[m]
      BY <3>1, FreedBytes DEF EventInv
    <3> QED
      BY <2>2, <3>2
  <2> QED
    BY <2>1, <2>2
<1>7. /\ EventTypes' /\ Cells' /\ \A m : Carriers(m)' = Carriers(m)
      /\ \A i \in Ids : /\ Listening(i)' <=> Listening(i)
                        /\ UNCHANGED asked[i] /\ UNCHANGED data[i].repeat
                        /\ owed'[i] <= owed[i]
  BY <1>3, <1>6, ServerTypes
<1>8. \/ /\ trig(e.id, "!") /\ e.repeat /\ a' = [a EXCEPT ![k].dfa = <<>>]
      \/ /\ trig(e.id, "!") /\ ~e.repeat /\ a' = Without(k)
      \/ /\ UNCHANGED asyncbuf /\ a' = [a EXCEPT ![k].dfa = read]
         /\ read \notin e.re /\ \E word \in e.re : IsPrefix(read, word)
      \/ /\ trig(e.id, "d") /\ a' = Without(k)
  BY <1>1, <1>2 DEF Feed
\* An expression that a second byte may decide.
<1>9. read \notin e.re /\ (\E word \in e.re : IsPrefix(read, word)) => ~Decided(e.re)
  <2> SUFFICES ASSUME read \notin e.re, NEW word \in e.re, IsPrefix(read, word),
                      Decided(e.re)
               PROVE  FALSE
    OBVIOUS
  <2>1. e.dfa = <<>> /\ e.re \in Res
    BY <1>2 DEF EventInv, Reading
  <2>2. read = <<b>>
    BY <2>1
  <2>3. word \in Seq(Bytes) /\ word # <<>>
    BY <2>1, FtrigAssumption DEF Res
  <2>4. word[1] = b
    <3>1. SubSeq(<<b>>, 1, 1) = SubSeq(word, 1, 1) /\ Len(<<b>>) = 1
      BY <2>2 DEF IsPrefix
    <3>2. SubSeq(<<b>>, 1, 1)[1] = b /\ SubSeq(word, 1, 1)[1] = word[1]
      BY <1>5, <2>3
    <3> QED
      BY <3>1, <3>2
  <2>5. <<b>> \in e.re \/ \A v \in e.re : v[1] # b
    BY <1>5 DEF Decided
  <2> QED
    BY <2>2, <2>4, <2>5
<1> HIDE DEF read
<1>10. /\ asyncbuf' \in Seq(Msg)
       /\ \A i \in Ids : Told(i) \subseteq Told(i)'
       /\ \A i \in Ids : \A r : Ended(i, r) => Ended(i, r)'
       /\ trig(e.id, "!") => Cardinality(Told(e.id)') = Cardinality(Told(e.id)) + 1
       /\ trig(e.id, "!") => \A r : ~r => Ended(e.id, r)'
       /\ trig(e.id, "d") => \A r : Ended(e.id, r)'
  <2>1. CASE UNCHANGED asyncbuf
    BY <1>3, <1>4, <2>1 DEF Told, Ended, trig
  <2>2. CASE trig(e.id, "!")
    BY <1>3, <1>4, <2>2, TrigTold DEF trig
  <2>3. CASE trig(e.id, "d")
    BY <1>3, <1>4, <2>3, TrigTold DEF trig
  <2> QED
    BY <1>8, <2>1, <2>2, <2>3
<1>11. ASSUME NEW d
       PROVE  [a EXCEPT ![k].dfa = d] # Without(k)
  <2> SUFFICES ASSUME [a EXCEPT ![k].dfa = d] = Without(k)
               PROVE  FALSE
    OBVIOUS
  <2>1. DOMAIN a = 1 .. Len(a) /\ Len(a) \in Nat /\ DOMAIN Without(k) = 1 .. Len(a) - 1
        /\ Len(a) \in 1 .. Len(a)
    BY WithoutIs DEF FifoInv, Entries
  <2>2. DOMAIN [a EXCEPT ![k].dfa = d] = DOMAIN a
    OBVIOUS
  <2>3. DOMAIN Without(k) = DOMAIN a
    BY <2>2
  <2> QED
    BY <2>1, <2>3
\* The other entries stay.
<1>12. /\ \A j \in DOMAIN a : j # k => \E l \in DOMAIN a' : a'[l] = a[j]
       /\ \A l \in DOMAIN a' : \/ \E j \in DOMAIN a : j # k /\ a'[l] = a[j]
                               \/ l = k /\ a' # Without(k)
  <2>1. CASE a' = Without(k)
    <3>1. /\ DOMAIN a = 1 .. Len(a) /\ Len(a) \in Nat /\ k \in 1 .. Len(a)
          /\ DOMAIN a' = 1 .. Len(a) - 1
          /\ \A j \in DOMAIN a' : a'[j] = a[IF j = k THEN Len(a) ELSE j]
      BY <2>1, WithoutIs DEF FifoInv, Entries
    <3>2. \A j \in DOMAIN a : j # k => \E l \in DOMAIN a' : a'[l] = a[j]
      BY <2>1, WithoutFacts DEF FifoInv
    <3>3. \A l \in DOMAIN a' : \E j \in DOMAIN a : j # k /\ a'[l] = a[j]
      BY <3>1
    <3> QED
      BY <3>2, <3>3
  <2>2. ASSUME NEW d, a' = [a EXCEPT ![k].dfa = d]
        PROVE  /\ \A j \in DOMAIN a : j # k => \E l \in DOMAIN a' : a'[l] = a[j]
               /\ \A l \in DOMAIN a' : \/ \E j \in DOMAIN a : j # k /\ a'[l] = a[j]
                                       \/ l = k /\ a' # Without(k)
    <3>1. /\ DOMAIN a' = DOMAIN a /\ \A j \in DOMAIN a : j # k => a'[j] = a[j]
      BY <2>2
    <3> QED
      BY <1>11, <2>2, <3>1
  <2> QED
    BY <1>8, <2>1, <2>2
<1>13. a' # Without(k) =>
         /\ k \in DOMAIN a' /\ a'[k].id = e.id /\ a'[k].n = n /\ a'[k].re = e.re
         /\ a'[k].repeat = e.repeat /\ "dfa" \in DOMAIN a'[k]
         /\ a'[k].dfa = <<>> \/ ~Decided(e.re)
         /\ trig(e.id, "!") \/ ~Decided(e.re)
  <2>1. ASSUME NEW d, a' = [a EXCEPT ![k].dfa = d]
        PROVE  /\ k \in DOMAIN a' /\ a'[k].id = e.id /\ a'[k].n = n /\ a'[k].re = e.re
               /\ a'[k].repeat = e.repeat /\ "dfa" \in DOMAIN a'[k] /\ a'[k].dfa = d
    BY <1>1, <1>2, <2>1 DEF ListenInv, ListenTypes, EventInv, Reading
  <2> QED
    BY <1>8, <1>9, <2>1
<1>14. Reading'
  <2>1. x'.fifos = x.fifos \ {n} /\ "fifos" \in DOMAIN x'
    BY <1>1, <1>3 DEF EventInv, Reading
  <2>2. ASSUME NEW l \in DOMAIN a', NEW j \in DOMAIN a, j # k, a'[l] = a[j]
        PROVE  /\ "dfa" \in DOMAIN a'[l] /\ a'[l].re \in Res
               /\ Decided(a'[l].re) => a'[l].dfa = <<>>
               /\ a'[l].n \in x'.fifos => fifo'[a'[l].n].bytes # <<>>
    <3>1. a[j].n # n /\ a[j].n \in DOMAIN fifo
      BY <1>1, <2>2 DEF ListenInv, Served
    <3> QED
      BY <1>3, <1>6, <2>1, <2>2, <3>1 DEF EventInv, Reading
  <2>3. e.re \in Res
    BY <1>2 DEF EventInv, Reading
  <2>4. \A l \in DOMAIN a' : /\ "dfa" \in DOMAIN a'[l] /\ a'[l].re \in Res
                             /\ Decided(a'[l].re) => a'[l].dfa = <<>>
                             /\ a'[l].n \in x'.fifos => fifo'[a'[l].n].bytes # <<>>
    BY <1>12, <1>13, <2>1, <2>2, <2>3
  <2> QED
    BY <2>1, <2>4 DEF Reading, Decided
\* An entry that is not the one that is read carries what it carried.
<1>15. ASSUME NEW i \in Ids, Listening(i)', NEW j \in DOMAIN a, j # k, NEW m,
              a[j].n = m, a[j].id = i, a[j].re = asked[i], a[j].repeat = data[i].repeat,
              owed[i] <= OnTheWay(i, m)
       PROVE  Carried(i)'
  <2>1. m # n /\ m \in DOMAIN fifo /\ m \in DOMAIN fifo'
    BY <1>1, <1>6, <1>15 DEF ListenInv, Served
  <2>2. Len(fifo[m].bytes) <= Len(fifo'[m].bytes)
    BY <1>6, <2>1 DEF EventInv, EventTypes
  <2>3. PICK l \in DOMAIN a' : a'[l] = a[j]
    BY <1>12, <1>15
  <2> QED
    BY <1>7, <1>10, <1>15, <2>1, <2>2, <2>3, StillCarried DEF EventInv, ListenInv
<1>16. ASSUME NEW i \in Ids, Listening(i)', i = e.id, e.re = asked[i],
              e.repeat = data[i].repeat, owed[i] <= OnTheWay(i, n)
       PROVE  Carried(i)' \/ Ended(i, data[i].repeat)'
  <2>1. CASE a' = Without(k)
    <3>1. (trig(e.id, "!") /\ ~e.repeat) \/ trig(e.id, "d")
      BY <1>8, <1>11, <2>1
    <3> QED
      BY <1>7, <1>10, <1>16, <3>1
  <2>2. CASE a' # Without(k)
    <3>1. owed'[i] <= OnTheWay(i, n)'
      <4> DEFINE c == Cardinality(Carriers(n))
                 l == Len(fifo[n].bytes)
                 q == Len(fifo'[n].bytes)
                 t == Cardinality(Told(i))
                 u == Cardinality(Told(i)')
                 o == owed[i]
                 p == owed'[i]
      <4>1. async \o asyncbuf \in Seq(Msg) /\ async' \o asyncbuf' \in Seq(Msg)
        BY <1>3, <1>4, <1>10
      <4>2. /\ c \in Nat /\ l \in Nat /\ q \in Nat /\ t \in Nat /\ u \in Nat
            /\ OnTheWay(i, n) = c + l + t /\ OnTheWay(i, n)' = c + q + u
        BY <1>5, <1>6, <1>7, <4>1, OnTheWayFacts DEF EventInv
      <4>3. o \in Nat /\ p \in Nat /\ p <= o /\ o <= c + l + t
        BY <1>7, <1>16, <4>2 DEF EventInv, EventTypes
      <4>4. q + 1 = l
        BY <1>5, <1>6, <1>13, <2>2
      <4>5. u = t + 1 \/ o = 0
        <5>1. CASE trig(e.id, "!")
          BY <1>10, <1>16, <5>1
        <5>2. CASE ~Decided(e.re)
          BY <1>16, <5>2 DEF EventInv, EventTypes
        <5> QED
          BY <1>13, <2>2, <5>1, <5>2
      <4> HIDE DEF c, l, q, t, u, o, p
      <4>6. p <= c + q + u
        BY <4>2, <4>3, <4>4, <4>5
      <4> QED
        BY <4>2, <4>6 DEF p
    <3> QED
      BY <1>7, <1>13, <1>16, <2>2, <3>1 DEF Carried
  <2> QED
    BY <2>1, <2>2
<1>17. Events'
  <2> SUFFICES ASSUME NEW i \in Ids, Listening(i)'
               PROVE  Carried(i)' \/ Ended(i, data[i].repeat)'
    BY DEF Events
  <2>1. CASE Ended(i, data[i].repeat)
    BY <1>7, <1>10, <2>1
  <2>2. CASE Carried(i)
    <3>1. PICK j \in DOMAIN a :
            /\ a[j].id = i /\ a[j].re = asked[i] /\ a[j].repeat = data[i].repeat
            /\ owed[i] <= OnTheWay(i, a[j].n)
      BY <2>2 DEF Carried
    <3>2. PICK m : a[j].n = m
      OBVIOUS
    <3>3. CASE j = k
      BY <1>1, <1>2, <1>16, <3>1, <3>3
    <3>4. CASE j # k
      BY <1>15, <3>1, <3>2, <3>4
    <3> QED
      BY <3>3, <3>4
  <2> QED
    BY <1>7, <2>1, <2>2 DEF EventInv, Events
<1> QED
  BY <1>7, <1>14, <1>17 DEF EventInv

LEMMA EventStep ==
  ASSUME FifoInv, ListenInv, EventInv, ListenInv', [Next]_vars
  PROVE  EventInv'
<1>1. CASE ServerNext
  <2>1. UNCHANGED <<client, owed>>
    BY <1>1 DEF ServerNext
  <2>2. CASE ParseDone
    <3>1. CASE open
      BY <2>1, <2>2, <3>1, DoneScanEvents
    <3>2. CASE ~open
      BY <2>1, <2>2, <3>2, CleanupEvents DEF ParseDone
    <3> QED
      BY <3>1, <3>2
  <2> QED
    BY <1>1, <2>1, <2>2, IopauseEvents, ScanEvents, DoneScanEvents, UnsubscribedEvents,
       MakingEvents, RenameEvents DEF ServerNext
<1>2. CASE MakeFailsNext
  BY <1>2, MakingEvents DEF MakeFailsNext
<1>3. CASE ClientNext
  BY <1>3, ClientEvents
<1>4. CASE UNCHANGED vars
  <2>1. UNCHANGED <<data, asked, freelist, call, open, async, a, asyncbuf, pc, x, fifo, writer,
                    owed>>
    BY <1>4 DEF vars, client, pipes, server
  <2>2. EventTypes'
    BY <2>1 DEF EventInv, EventTypes, Busy, Listening, Decided
  <2>3. Cells' /\ Reading'
    BY <2>1 DEF EventInv, Cells, Reading, Decided
  <2>4. Events'
    BY <2>1 DEF EventInv, Events, Carried, Ended, Listening, OnTheWay, Told, Carriers
  <2> QED
    BY <2>2, <2>3, <2>4 DEF EventInv
<1> QED
  BY <1>1, <1>2, <1>3, <1>4, WriterEvents, EndEvents, KillEvents DEF Next

\* An event that is notified after the subscription gets to the client, unless the fifo
\* was full: until then there are as many writers, bytes and messages for it as there
\* are events that the client has not heard of, all of them on the way through one entry
\* of the array, or a message that ends the subscription.
THEOREM EventsArrive == Spec => []NoEventLost
<1>1. Init => EventInv
  <2> SUFFICES ASSUME Init PROVE EventInv
    OBVIOUS
  <2>1. /\ data = [i \in Ids |-> Zero] /\ call = NoCall
        /\ a = <<>> /\ pc = "pause" /\ fifo = <<>>
        /\ writer = [w \in Writers |-> AtRest] /\ owed = [i \in Ids |-> 0]
        /\ freelist = [k \in 1 .. Cardinality(Ids) |-> Cardinality(Ids) - k]
    BY DEF Init
  <2>2. /\ {"at", "todo", "c", "n"} \subseteq DOMAIN AtRest /\ AtRest.at = "rest"
        /\ AtRest.n = 0
    BY DEF AtRest
  <2>3. EventTypes
    <3>1. Busy = {} /\ IsFiniteSet({})
      BY <2>1, <2>2, FS_EmptySet DEF Busy
    <3> QED
      BY <2>1, <2>2, <3>1 DEF EventTypes
  <2>4. Cells
    <3>1. Cardinality(Ids) \in Nat /\ Ids = 0 .. Cardinality(Ids) - 1
      BY FtrigAssumption, FS_CardinalityType
    <3> DEFINE n == Cardinality(Ids)
    <3>2. \A k \in 1 .. n : n - k \in Ids
      BY <3>1
    <3>3. Zero.state = "ERROR" /\ call.op = "none"
      BY <2>1 DEF Zero, NoCall
    <3> HIDE DEF n
    <3>4. freelist = [k \in 1 .. n |-> n - k] /\ n \in Nat
      BY <2>1, <3>1 DEF n
    <3>5. IsInjective(freelist)
      BY <3>4 DEF IsInjective
    <3>6. \A p \in DOMAIN freelist : data[freelist[p]].state = "ERROR"
      BY <2>1, <3>2, <3>3, <3>4
    <3> QED
      BY <3>3, <3>5, <3>6 DEF Cells
  <2>5. Reading
    BY <2>1 DEF Reading
  <2>6. Events
    BY <2>1 DEF Events, Listening, Zero
  <2> QED
    BY <2>3, <2>4, <2>5, <2>6 DEF EventInv
<1>2. FifoInv /\ ListenInv /\ EventInv /\ ListenInv' /\ [Next]_vars => EventInv'
  BY EventStep
<1>3. ListenInv /\ EventInv => NoEventLost
  <2> SUFFICES ASSUME ListenInv, EventInv, NEW i \in Ids, Listening(i)
               PROVE  \/ \E k \in DOMAIN a :
                           LET n == a[k].n
                           IN  /\ a[k].id = i
                               /\ owed[i] <= Cardinality(Carriers(n)) + Len(fifo[n].bytes)
                                               + Cardinality(Told(i))
                      \/ \E m \in Range(async \o asyncbuf) :
                           m.id = i /\ (m.what = "d" \/ ~data[i].repeat)
    BY DEF NoEventLost
  <2>1. Carried(i) \/ Ended(i, data[i].repeat)
    BY DEF EventInv, Events
  <2>2. Range(async \o asyncbuf) = Range(async) \cup Range(asyncbuf)
    BY RangeConcatenation DEF ListenInv, ListenTypes
  <2> QED
    BY <2>1, <2>2 DEF Carried, OnTheWay, Ended
<1> QED
  BY <1>1, <1>2, <1>3, ListenInvariant, PTL DEF Spec

=============================================================================
