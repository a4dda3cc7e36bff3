---------------------------- MODULE S6lockProofs ----------------------------
(***************************************************************************)
(* Proofs about a session of the s6lock library, for any number of ids,    *)
(* requests, limits, failures and kills: what the client and s6lockd think *)
(* of a lock agrees.                                                       *)
(*                                                                         *)
(* The argument is about what the client will have of its ids when it has  *)
(* read the messages that are on their way: Agree(d, n) relates that to    *)
(* s6lockd's entries, and each message that is read leaves it true.        *)
(***************************************************************************)
EXTENDS S6lock, FiniteSetTheorems, SequenceTheorems, WellFoundedInduction, TLAPS

Call == [op : {"<"}, id : Ids, file : Files, ex : Exs, limit : Limits]
         \cup [op : {">"}, id : Ids]
Msg == [id : Ids, e : {"0", "ETIMEDOUT", "EPIPE"}]
Entry == [id : Ids, h : Nat, limit : {"none", "armed", "over"}]
Helper == [st : {"waiting", "locked", "told", "dead"}, bang : BOOLEAN,
           file : Files, ex : Exs]

LockTypes ==
  /\ data \in [Ids -> {"EINVAL", "EAGAIN", "EBUSY", "ETIMEDOUT", "EPIPE"}]
  /\ asked = [i \in Ids |-> asked[i]]
  /\ freelist \in Seq(Ids)
  /\ call \in Call \cup {NoCall}
  /\ async \in Seq(Msg) /\ asyncbuf \in Seq(Msg)
  /\ a \in Seq(Entry) /\ helper \in Seq(Helper)

\* Each id has one entry, which has a helper; a helper writes when it has the lock.
Helpers ==
  /\ \A j, k \in DOMAIN a : a[j].id = a[k].id => j = k
  /\ \A k \in DOMAIN a : a[k].h \in DOMAIN helper
  /\ \A h \in DOMAIN helper : helper[h].bang => helper[h].st \in {"told", "dead"}

Waiting == req = <<call>> /\ acks = <<>> /\ ackbuf = <<>>
Answer(ok) ==
  /\ req = <<>>
  /\ \/ acks = <<ok>> /\ ackbuf = <<>>
     \/ acks = <<>> /\ ackbuf = <<ok>>

\* One request at a time.
Asking == IF call = NoCall THEN req = <<>> /\ acks = <<>> /\ ackbuf = <<>>
          ELSE Waiting \/ Answer(TRUE) \/ Answer(FALSE)

\* s6lockd has done what it was asked to, and the client does not know it yet.
Done(op, i) == call.op = op /\ call.id = i /\ Answer(TRUE)

Request(i) == IF Done("<", i) THEN call ELSE asked[i]

\* The cells that are free, or taken by the call.
Cells ==
  /\ IsInjective(freelist)
  /\ \A p \in DOMAIN freelist : data[freelist[p]] = "EINVAL"
  /\ call.op = "<" => /\ data[call.id] = "EINVAL"
                      /\ \A p \in DOMAIN freelist : freelist[p] # call.id
  /\ call.op = ">" => data[call.id] = "EBUSY"

\* The following are of the state of the ids that results when the client has read the
\* first n messages, d.
Msgs == async \o asyncbuf
Behind(n, i) == {p \in DOMAIN Msgs : p > n /\ Msgs[p].id = i}

\* The client expects a message.
Expecting(d, i) ==
  /\ Done("<", i) \/ d[i] \in {"EAGAIN", "EBUSY"}
  /\ ~Done(">", i)

\* It knows of the lock, or will.
Granting(d, n, i) == d[i] = "EBUSY" \/ \E p \in Behind(n, i) : Msgs[p].e = "0"

\* Each entry is of one the client waits for or has, which nothing has ended; and what
\* it has been told of is there, unless the helper has died.
EntriesTrue(d, n) ==
  \A k \in DOMAIN a :
    LET i == a[k].id
        h == a[k].h
    IN  /\ Expecting(d, i)
        /\ \A p \in Behind(n, i) : Msgs[p].e = "0"
        /\ helper[h].file = Request(i).file /\ helper[h].ex = Request(i).ex
        /\ Granting(d, n, i) =>
             /\ a[k].limit = "none"
             /\ ~helper[h].bang /\ helper[h].st \in {"told", "dead"}

\* Of a lock there is to be read that it is had, once, and that it is lost.
MessagesTrue(d, n) ==
  \A i \in Ids : \A p \in Behind(n, i) :
    /\ Expecting(d, i)
    /\ d[i] = "EBUSY" => Msgs[p].e = "EPIPE"
    /\ \A q \in Behind(p, i) : Msgs[p].e = "0" /\ Msgs[q].e = "EPIPE"

\* What the client waits for or has is there, or a message of its end.
Had(d, n) ==
  \A i \in Ids : Expecting(d, i) =>
    \/ \E p \in Behind(n, i) : Msgs[p].e # "0"
    \/ \E k \in DOMAIN a : a[k].id = i

Agree(d, n) == EntriesTrue(d, n) /\ MessagesTrue(d, n) /\ Had(d, n)

\* The client has left.
Ending == call = NoCall /\ req = <<>> /\ data = [i \in Ids |-> "EINVAL"] /\ NoLeak

LockInv ==
  IF pc = "gone" THEN a = <<>>
  ELSE LockTypes /\ Helpers /\ IF open THEN Asking /\ Cells /\ Agree(data, 0) ELSE Ending

-----------------------------------------------------------------------------
(* Sequences                                                               *)

Only(s, k) == Front([s EXCEPT ![k] = s[Len(s)]])

\* The position of each entry that stays.
LEMMA WithoutIs ==
  ASSUME NEW S, NEW s \in Seq(S), NEW k \in DOMAIN s
  PROVE  /\ Only(s, k) \in Seq(S) /\ DOMAIN Only(s, k) = 1 .. Len(s) - 1
         /\ DOMAIN s = 1 .. Len(s) /\ Len(s) \in Nat \ {0}
         /\ \A j \in 1 .. Len(s) - 1 : Only(s, k)[j] = s[IF j = k THEN Len(s) ELSE j]
<1> DEFINE n == Len(s)
           t == [s EXCEPT ![k] = s[n]]
           f == SubSeq(t, 1, n - 1)
<1>1. DOMAIN s = 1 .. n /\ n \in Nat \ {0} /\ k \in 1 .. n
  OBVIOUS
<1>2. t \in Seq(S) /\ Len(t) = n /\ \A j \in 1 .. n : t[j] = s[IF j = k THEN n ELSE j]
  BY <1>1
<1> HIDE DEF n, t
<1>3. Only(s, k) = f
  BY <1>2 DEF Only, Front, t, n
<1>4. f \in Seq(S) /\ Len(f) = n - 1 /\ \A j \in 1 .. n - 1 : f[j] = t[j]
  BY <1>1, <1>2, SubSeqProperties
<1> HIDE DEF f
<1>5. DOMAIN f = 1 .. n - 1
  BY <1>1, <1>4
<1> QED
  BY <1>1, <1>2, <1>3, <1>4, <1>5 DEF n

\* What is left are all the other entries.
LEMMA WithoutFacts ==
  ASSUME NEW S, NEW s \in Seq(S), NEW k \in DOMAIN s
  PROVE  /\ Only(s, k) \in Seq(S)
         /\ \A j \in DOMAIN Only(s, k) : \E i \in DOMAIN s \ {k} : Only(s, k)[j] = s[i]
         /\ \A i \in DOMAIN s \ {k} : \E j \in DOMAIN Only(s, k) : Only(s, k)[j] = s[i]
<1> DEFINE t == Only(s, k)
           n == Len(s)
<1>1. /\ t \in Seq(S) /\ DOMAIN t = 1 .. n - 1
      /\ DOMAIN s = 1 .. n /\ n \in Nat \ {0}
      /\ \A j \in 1 .. n - 1 : t[j] = s[IF j = k THEN n ELSE j]
  BY WithoutIs
<1> HIDE DEF t, n
<1>2. ASSUME NEW j \in DOMAIN t
      PROVE  \E i \in DOMAIN s \ {k} : t[j] = s[i]
  <2>1. CASE j = k
    BY <1>1, <2>1, n \in DOMAIN s \ {k}
  <2>2. CASE j # k
    BY <1>1, <2>2, j \in DOMAIN s \ {k}
  <2> QED
    BY <2>1, <2>2
<1>3. ASSUME NEW i \in DOMAIN s \ {k}
      PROVE  \E j \in DOMAIN t : t[j] = s[i]
  <2>1. CASE i = n
    BY <1>1, <2>1, k \in DOMAIN t
  <2>2. CASE i # n
    BY <1>1, <2>2, i \in DOMAIN t
  <2> QED
    BY <2>1, <2>2
<1> QED
  BY <1>1, <1>2, <1>3 DEF t

-----------------------------------------------------------------------------
(* The messages                                                            *)

\* The messages in the pipe and those s6lockd has still to write.
LEMMA MsgsTypes ==
  ASSUME LockTypes
  PROVE  Msgs \in Seq(Msg) /\ DOMAIN Msgs = 1 .. Len(Msgs) /\ Len(Msgs) \in Nat
<1>1. Msgs \in Seq(Msg)
  BY ConcatProperties DEF LockTypes, Msgs
<1> QED
  BY <1>1

\* trig()
LEMMA OneMessage ==
  ASSUME LockTypes, NEW i \in Ids, NEW e \in {"0", "ETIMEDOUT", "EPIPE"},
         async' = async, trig(i, e)
  PROVE  /\ asyncbuf' \in Seq(Msg)
         /\ Len(Msgs) \in Nat /\ DOMAIN Msgs = 1 .. Len(Msgs)
         /\ DOMAIN Msgs' = 1 .. Len(Msgs) + 1
         /\ \A p \in 1 .. Len(Msgs) : Msgs'[p] = Msgs[p]
         /\ Msgs'[Len(Msgs) + 1] = [id |-> i, e |-> e]
<1> DEFINE m == [id |-> i, e |-> e]
<1>1. m \in Msg
  BY DEF Msg
<1> HIDE DEF m
<1>2. async \in Seq(Msg) /\ asyncbuf \in Seq(Msg) /\ asyncbuf' = Append(asyncbuf, m)
  BY DEF LockTypes, trig, m
<1>3. Append(asyncbuf, m) \in Seq(Msg)
  BY <1>1, <1>2
<1>4. async \o Append(asyncbuf, m) = Append(async \o asyncbuf, m)
  BY <1>1, <1>2
<1>5. Msgs' = Append(Msgs, m)
  BY <1>2, <1>4 DEF Msgs
<1>6. Msgs \in Seq(Msg) /\ Len(Msgs) \in Nat /\ DOMAIN Msgs = 1 .. Len(Msgs)
  BY MsgsTypes
<1> HIDE DEF Msgs
<1>7. /\ DOMAIN Append(Msgs, m) = 1 .. Len(Msgs) + 1
      /\ \A p \in 1 .. Len(Msgs) : Append(Msgs, m)[p] = Msgs[p]
      /\ Append(Msgs, m)[Len(Msgs) + 1] = m
  BY <1>1, <1>6
<1> QED
  BY <1>2, <1>3, <1>5, <1>6, <1>7 DEF m

-----------------------------------------------------------------------------
(* Steps that leave the messages alone                                     *)

SameMessages == UNCHANGED <<data, asked, async, asyncbuf>>

\* What the client and s6lockd know of each other's calls is as before.
SameCalls ==
  \A i : /\ Done("<", i)' <=> Done("<", i)
         /\ Done(">", i)' <=> Done(">", i)
         /\ Done("<", i) => call' = call

\* A step that leaves the ids and the messages alone, and answers nothing, leaves what is
\* expected alone.
LEMMA SameExpecting ==
  ASSUME UNCHANGED <<data, asked, async, asyncbuf>>, SameCalls
  PROVE  /\ \A i : Expecting(data, i)' <=> Expecting(data, i)
         /\ \A i : Request(i)' = Request(i)
         /\ \A n, i : Behind(n, i)' = Behind(n, i)
         /\ \A i : Granting(data, 0, i)' <=> Granting(data, 0, i)
         /\ Msgs' = Msgs
<1>1. Msgs' = Msgs
  BY DEF Msgs
<1>2. \A n, i : Behind(n, i)' = Behind(n, i)
  BY <1>1 DEF Behind
<1>3. \A i : Expecting(data, i)' <=> Expecting(data, i)
  BY DEF SameCalls, Expecting
<1>4. \A i : Request(i)' = Request(i)
  BY DEF SameCalls, Request
<1>5. \A i : Granting(data, 0, i)' <=> Granting(data, 0, i)
  BY <1>1, <1>2 DEF Granting
<1> QED
  BY <1>1, <1>2, <1>3, <1>4, <1>5

\* So the messages stay true,
LEMMA SameMessagesTrue ==
  ASSUME MessagesTrue(data, 0), UNCHANGED <<data, asked, async, asyncbuf>>, SameCalls
  PROVE  MessagesTrue(data, 0)'
BY SameExpecting DEF MessagesTrue

\* and, when entries and helpers stay as they are, all of it.
LEMMA SameAgree ==
  ASSUME Agree(data, 0), UNCHANGED <<data, asked, async, asyncbuf, a, helper>>, SameCalls
  PROVE  Agree(data, 0)'
<1>1. MessagesTrue(data, 0)'
  BY SameMessagesTrue DEF Agree
<1>2. EntriesTrue(data, 0)'
  BY SameExpecting DEF Agree, EntriesTrue
<1>3. Had(data, 0)'
  BY SameExpecting DEF Agree, Had, SameCalls
<1> QED
  BY <1>1, <1>2, <1>3 DEF Agree

\* The helpers go on.
Onward ==
  /\ helper' \in Seq(Helper) /\ DOMAIN helper' = DOMAIN helper
  /\ \A h \in DOMAIN helper :
       /\ helper'[h].file = helper[h].file /\ helper'[h].ex = helper[h].ex
       /\ helper[h].st \in {"told", "dead"} /\ ~helper[h].bang =>
            helper'[h].st \in {"told", "dead"} /\ ~helper'[h].bang
       /\ helper'[h].bang => helper'[h].st \in {"told", "dead"}

\* A helper that has been heard of does not come back.
LEMMA OnwardEntries ==
  ASSUME Helpers, EntriesTrue(data, 0), Onward,
         UNCHANGED <<data, asked, async, asyncbuf, a>>, SameCalls
  PROVE  EntriesTrue(data, 0)' /\ Helpers'
<1> UNCHANGED <<data, asked, async, asyncbuf>>
  OBVIOUS
<1>1. Helpers'
  BY DEF Helpers, Onward
<1>2. ASSUME NEW k \in DOMAIN a, NEW i, NEW h, i = a[k].id, h = a[k].h
      PROVE  /\ Expecting(data, i)'
             /\ \A p \in Behind(0, i)' : Msgs[p]'.e = "0"
             /\ helper'[h].file = Request(i)'.file /\ helper'[h].ex = Request(i)'.ex
             /\ Granting(data, 0, i)' =>
                  /\ a[k].limit = "none"
                  /\ ~helper'[h].bang /\ helper'[h].st \in {"told", "dead"}
  <2>1. /\ Expecting(data, i)
        /\ \A p \in Behind(0, i) : Msgs[p].e = "0"
        /\ helper[h].file = Request(i).file /\ helper[h].ex = Request(i).ex
        /\ Granting(data, 0, i) =>
             /\ a[k].limit = "none"
             /\ ~helper[h].bang /\ helper[h].st \in {"told", "dead"}
    BY <1>2 DEF EntriesTrue
  <2>2. h \in DOMAIN helper
    BY <1>2 DEF Helpers
  <2>3. /\ helper'[h].file = helper[h].file /\ helper'[h].ex = helper[h].ex
        /\ helper[h].st \in {"told", "dead"} /\ ~helper[h].bang =>
             helper'[h].st \in {"told", "dead"} /\ ~helper'[h].bang
    BY <2>2 DEF Onward
  <2>4. /\ Expecting(data, i)' <=> Expecting(data, i)
        /\ Request(i)' = Request(i)
        /\ Behind(0, i)' = Behind(0, i)
        /\ Granting(data, 0, i)' <=> Granting(data, 0, i)
        /\ Msgs' = Msgs
    BY SameExpecting
  <2> QED
    BY <2>1, <2>3, <2>4
<1>3. EntriesTrue(data, 0)'
  BY <1>2 DEF EntriesTrue
<1> QED
  BY <1>1, <1>3

-----------------------------------------------------------------------------
(* The helpers, and what others do                                         *)

\* The pipes of the calls are as they were.
LEMMA SameCall ==
  ASSUME UNCHANGED <<call, req, acks, ackbuf>>
  PROVE  SameCalls /\ (Asking => Asking')
<1>1. SameCalls
  BY DEF SameCalls, Done, Answer
<1>2. Asking => Asking'
  BY DEF Asking, Waiting, Answer
<1> QED
  BY <1>1, <1>2

\* The steps of helpers, and those that nothing of the session takes part in.
LEMMA OnwardInv ==
  ASSUME LockInv, pc # "gone", pc' # "gone", Onward,
         UNCHANGED <<data, freelist, call, asked, open, req, acks, async, a, ackbuf, asyncbuf>>
  PROVE  LockInv'
<1>1. LockTypes /\ Helpers
  BY DEF LockInv
<1>2. LockTypes'
  BY <1>1 DEF LockTypes, Onward
<1>3. Helpers'
  BY <1>1 DEF Helpers, Onward
<1>4. CASE open
  <2>1. Asking /\ Cells /\ Agree(data, 0)
    BY <1>4 DEF LockInv
  <2>2. SameCalls /\ Asking'
    BY <2>1, SameCall
  <2>3. Cells'
    BY <2>1 DEF Cells
  <2>4. EntriesTrue(data, 0)'
    BY <1>1, <2>1, <2>2, OnwardEntries DEF Agree
  <2>5. MessagesTrue(data, 0)'
    BY <2>1, <2>2, SameMessagesTrue DEF Agree
  <2>6. Had(data, 0)'
    BY <2>1, <2>2, SameExpecting DEF Agree, Had, SameCalls
  <2> QED
    BY <1>2, <1>3, <1>4, <2>2, <2>3, <2>4, <2>5, <2>6 DEF LockInv, Agree
<1>5. CASE ~open
  <2>1. Ending'
    BY <1>5 DEF LockInv, Ending, NoLeak, Live
  <2> QED
    BY <1>2, <1>3, <1>5, <2>1 DEF LockInv
<1> QED
  BY <1>4, <1>5

\* No step is one of theirs.
LEMMA SameHelpers ==
  ASSUME LockInv, pc # "gone", UNCHANGED helper
  PROVE  Onward
BY DEF LockInv, LockTypes, Helpers, Onward

\* HelperLock, HelperTell, HelperEof, HelperTermed, HelperFails.
LEMMA HelperStep ==
  ASSUME LockInv, pc # "gone", NEW h \in DOMAIN helper, HelperNext(h)
  PROVE  LockInv'
<1>1. LockTypes /\ Helpers
  BY DEF LockInv
<1>2. helper \in Seq(Helper) /\ helper[h] \in Helper
  BY <1>1 DEF LockTypes
<1>3. PICK s \in {"locked", "told", "dead"}, b \in BOOLEAN :
        /\ helper' = [helper EXCEPT ![h].st = s, ![h].bang = b]
        /\ helper[h].st \in {"told", "dead"} /\ ~helper[h].bang =>
             s \in {"told", "dead"} /\ ~b
        /\ b => s \in {"told", "dead"}
  <2>1. CASE HelperLock(h)
    <3>1. helper' = [helper EXCEPT ![h].st = "locked", ![h].bang = helper[h].bang]
      BY <1>2, <2>1 DEF HelperLock, Helper
    <3>2. helper[h].st = "waiting" /\ ~helper[h].bang
      BY <1>1, <2>1 DEF HelperLock, Helpers
    <3> QED
      BY <1>2, <3>1, <3>2 DEF Helper
  <2>2. CASE HelperTell(h)
    <3>1. helper[h].st = "locked"
      BY <2>2 DEF HelperTell
    <3>2. CASE Served(h)
      <4>1. helper' = [helper EXCEPT ![h].st = "told", ![h].bang = TRUE]
        BY <2>2, <3>2 DEF HelperTell
      <4> QED
        BY <3>1, <4>1
    <3>3. CASE ~Served(h)
      <4>1. helper' = [helper EXCEPT ![h].st = "dead", ![h].bang = FALSE]
        BY <2>2, <3>3, Zenon DEF HelperTell, Served
      <4> QED
        BY <3>1, <4>1
    <3> QED
      BY <3>2, <3>3
  <2>3. CASE HelperEof(h) \/ HelperTermed(h) \/ HelperFails(h)
    <3>1. helper' = [helper EXCEPT ![h].st = "dead", ![h].bang = helper[h].bang]
      BY <1>2, <2>3 DEF HelperEof, HelperTermed, HelperFails, Helper
    <3> QED
      BY <1>2, <3>1 DEF Helper
  <2> QED
    BY <2>1, <2>2, <2>3 DEF HelperNext
<1>4. Onward
  <2>1. /\ DOMAIN helper' = DOMAIN helper
        /\ helper' \in Seq(Helper)
    BY <1>2, <1>3 DEF Helper
  <2>2. \A g \in DOMAIN helper :
          /\ helper'[g].file = helper[g].file /\ helper'[g].ex = helper[g].ex
          /\ helper[g].st \in {"told", "dead"} /\ ~helper[g].bang =>
               helper'[g].st \in {"told", "dead"} /\ ~helper'[g].bang
          /\ helper'[g].bang => helper'[g].st \in {"told", "dead"}
    BY <1>1, <1>2, <1>3 DEF Helper, Helpers
  <2> QED
    BY <2>1, <2>2 DEF Onward
<1>5. UNCHANGED <<data, freelist, call, asked, open, req, acks, async, a, ackbuf, asyncbuf, pc>>
  BY DEF HelperNext, client, pipes, server
<1> QED
  BY <1>4, <1>5, OnwardInv

\* Other programs, and SIGTERM.
LEMMA OtherStep ==
  ASSUME LockInv, pc # "gone",
         (\E f \in Files : Foreign(f)) \/ Terminate \/ UNCHANGED vars
  PROVE  LockInv'
<1>1. UNCHANGED <<data, freelist, call, asked, open, req, acks, async, a, ackbuf, asyncbuf, pc,
                  helper>>
  BY DEF Foreign, Terminate, vars, client, pipes, server
<1> QED
  BY <1>1, SameHelpers, OnwardInv

\* A limit that passes is one of an entry that has not been granted.
LEMMA LimitStep ==
  ASSUME LockInv, pc # "gone", NEW l \in DOMAIN a, LimitOver(l)
  PROVE  LockInv'
<1>1. LockTypes /\ Helpers
  BY DEF LockInv
<1>2. /\ UNCHANGED <<data, freelist, call, asked, open, req, acks, async, ackbuf, asyncbuf, pc,
                     helper>>
      /\ a[l].limit = "armed" /\ a' = [a EXCEPT ![l].limit = "over"]
  BY DEF LimitOver, client, pipes
<1>3. /\ a \in Seq(Entry) /\ a' \in Seq(Entry) /\ DOMAIN a' = DOMAIN a
      /\ \A k \in DOMAIN a : /\ a'[k].id = a[k].id /\ a'[k].h = a[k].h
                             /\ a[k].limit = "none" => a'[k].limit = "none"
  <2>1. a \in Seq(Entry) /\ a[l] \in Entry
    BY <1>1 DEF LockTypes
  <2>2. /\ DOMAIN a' = DOMAIN a
        /\ \A k \in DOMAIN a : k # l => a'[k] = a[k]
        /\ a'[l] = [a[l] EXCEPT !.limit = "over"]
    BY <1>2
  <2>3. a'[l] \in Entry /\ a'[l].id = a[l].id /\ a'[l].h = a[l].h
    BY <2>1, <2>2 DEF Entry
  <2>4. a' \in Seq(Entry)
    BY <1>2, <2>1, <2>3
  <2> QED
    BY <1>2, <2>1, <2>2, <2>3, <2>4
<1>4. LockTypes'
  BY <1>1, <1>2, <1>3 DEF LockTypes
<1>5. Helpers'
  BY <1>1, <1>2, <1>3 DEF Helpers
<1>6. CASE open
  <2>1. Asking /\ Cells /\ Agree(data, 0)
    BY <1>6 DEF LockInv
  <2>2. SameCalls /\ Asking'
    BY <1>2, <2>1, SameCall
  <2>3. Cells'
    BY <1>2, <2>1 DEF Cells
  <2> UNCHANGED <<data, asked, async, asyncbuf>>
    BY <1>2
  <2>4. EntriesTrue(data, 0)'
    BY <1>2, <1>3, <2>1, <2>2, SameExpecting DEF Agree, EntriesTrue
  <2>5. MessagesTrue(data, 0)'
    BY <2>1, <2>2, SameMessagesTrue DEF Agree
  <2>6. Had(data, 0)'
    BY <1>3, <2>1, <2>2, SameExpecting DEF Agree, Had, SameCalls
  <2> QED
    BY <1>2, <1>4, <1>5, <1>6, <2>2, <2>3, <2>4, <2>5, <2>6 DEF LockInv, Agree
<1>7. CASE ~open
  <2>1. Ending'
    BY <1>2, <1>3, <1>7 DEF LockInv, Ending, NoLeak, Live
  <2> QED
    BY <1>2, <1>4, <1>5, <1>7, <2>1 DEF LockInv
<1> QED
  BY <1>6, <1>7

-----------------------------------------------------------------------------
(* s6lockd                                                                 *)

\* When s6lockd ends, it has no entries.
LEMMA GoneStep ==
  ASSUME cleanup \/ Kill
  PROVE  LockInv'
BY DEF cleanup, Kill, LockInv

\* It does not come back.
LEMMA GoneStays ==
  ASSUME LockInv, pc = "gone", [Next]_vars
  PROVE  LockInv'
<1>1. a = <<>>
  BY DEF LockInv
<1>2. CASE Kill
  BY <1>2, GoneStep
<1>3. CASE ServerNext \/ ParseNext
  BY <1>3 DEF ServerNext, ParseNext, Parse, Iopause, TimedOut, Scan, handle_signals, ParseDone
<1>4. CASE \E k \in DOMAIN a : LimitOver(k)
  BY <1>1, <1>4 DEF LimitOver
<1>5. CASE ~Kill /\ ~ServerNext /\ ~ParseNext /\ ~(\E k \in DOMAIN a : LimitOver(k))
  <2>1. UNCHANGED <<a, pc>>
    BY <1>5 DEF Next, HelperNext, Foreign, ClientNext, s6lock_end, Terminate, vars, server
  <2> QED
    BY <1>1, <2>1 DEF LockInv
<1> QED
  BY <1>2, <1>3, <1>4, <1>5

\* An answer is TRUE or FALSE.
LEMMA OneTrue ==
  ASSUME NEW ok \in BOOLEAN
  PROVE  <<ok>> = <<TRUE>> <=> ok
<1>1. <<ok>>[1] = ok /\ <<TRUE>>[1] = TRUE
  OBVIOUS
<1>2. CASE ok = TRUE
  BY <1>2
<1>3. CASE ok # TRUE
  BY <1>1, <1>3
<1> QED
  BY <1>2, <1>3

\* What goes from the buffers to the pipes is still on its way.
LEMMA IopauseStep ==
  ASSUME LockInv, pc # "gone", Iopause, UNCHANGED client
  PROVE  LockInv'
<1>1. CASE ~open
  BY <1>1, GoneStep DEF Iopause
<1>2. CASE open
  <2>1. LockTypes /\ Helpers /\ Asking /\ Cells /\ Agree(data, 0)
    BY <1>2 DEF LockInv
  <2>2. /\ acks' = acks \o ackbuf /\ async' = async \o asyncbuf
        /\ ackbuf' = <<>> /\ asyncbuf' = <<>> /\ pc' = "scan"
        /\ UNCHANGED <<a, req, helper, data, freelist, call, asked, open>>
    BY <1>2 DEF Iopause, client
  <2>3. async \in Seq(Msg) /\ asyncbuf \in Seq(Msg) /\ async' \in Seq(Msg)
    BY <2>1, <2>2, ConcatProperties DEF LockTypes
  <2>4. Msgs' = Msgs
    BY <2>2, <2>3, ConcatProperties, EmptySeq DEF Msgs
  <2>5. LockTypes'
    BY <2>1, <2>2, <2>3, EmptySeq DEF LockTypes
  <2>6. Helpers' /\ Cells'
    BY <2>1, <2>2 DEF Helpers, Cells
  <2>7. Asking' /\ (Answer(TRUE)' <=> Answer(TRUE))
    <3>1. CASE acks = <<>> /\ ackbuf = <<>>
      <4>1. UNCHANGED <<acks, ackbuf>>
        BY <2>2, <3>1
      <4> QED
        BY <2>1, <2>2, <4>1 DEF Asking, Waiting, Answer
    <3>2. CASE ~(acks = <<>> /\ ackbuf = <<>>)
      <4>1. PICK ok \in BOOLEAN : Answer(ok)
        BY <2>1, <3>2 DEF Asking, Waiting
      <4>2. acks' = <<ok>> /\ ackbuf' = <<>> /\ req' = <<>>
        <5>1. <<ok>> \o <<>> = <<ok>> /\ <<>> \o <<ok>> = <<ok>>
          OBVIOUS
        <5>2. acks \o ackbuf = <<ok>> /\ req = <<>>
          BY <4>1, <5>1 DEF Answer
        <5> QED
          BY <2>2, <5>2
      <4>3. Answer(TRUE) <=> ok
        BY <4>1, OneTrue DEF Answer
      <4>4. Answer(TRUE)' <=> ok
        BY <4>2, OneTrue DEF Answer
      <4>5. Asking'
        BY <2>1, <2>2, <3>2, <4>1, <4>2 DEF Asking, Answer
      <4> QED
        BY <4>3, <4>4, <4>5
    <3> QED
      BY <3>1, <3>2
  <2>8. SameCalls
    BY <2>2, <2>7 DEF SameCalls, Done
  <2>9. Agree(data, 0)'
    <3>1. \A n, i : Behind(n, i)' = Behind(n, i)
      BY <2>4 DEF Behind
    <3>2. \A i : /\ Expecting(data, i)' <=> Expecting(data, i)
                 /\ Request(i)' = Request(i)
                 /\ Granting(data, 0, i)' <=> Granting(data, 0, i)
      BY <2>2, <2>4, <2>8, <3>1 DEF SameCalls, Expecting, Request, Granting
    <3>3. EntriesTrue(data, 0)'
      BY <2>1, <2>2, <2>4, <3>1, <3>2 DEF Agree, EntriesTrue
    <3>4. MessagesTrue(data, 0)'
      BY <2>1, <2>2, <2>4, <3>1, <3>2 DEF Agree, MessagesTrue
    <3>5. Had(data, 0)'
      BY <2>1, <2>2, <2>4, <3>1, <3>2 DEF Agree, Had
    <3> QED
      BY <3>3, <3>4, <3>5 DEF Agree
  <2> QED
    BY <1>2, <2>2, <2>5, <2>6, <2>7, <2>9 DEF LockInv
<1> QED
  BY <1>1, <1>2

\* handle_signals() and the end of the requests.
LEMMA QuietStep ==
  ASSUME LockInv, pc # "gone", handle_signals \/ ParseDone, UNCHANGED client
  PROVE  LockInv'
<1>1. CASE cleanup
  BY <1>1, GoneStep
<1>2. CASE ~cleanup
  <2>1. /\ pc' # "gone"
        /\ UNCHANGED <<data, freelist, call, asked, open, req, acks, async, a, ackbuf, asyncbuf,
                       helper>>
    BY <1>2 DEF handle_signals, ParseDone, client, pipes
  <2> QED
    BY <2>1, SameHelpers, OnwardInv
<1> QED
  BY <1>1, <1>2

\* What an entry is made of.
LEMMA EntryFields ==
  ASSUME LockTypes
  PROVE  \A k \in DOMAIN a : a[k] \in Entry /\ a[k].id \in Ids /\ a[k].h \in Nat
<1>1. a \in Seq(Entry)
  BY DEF LockTypes
<1>2. \A k \in DOMAIN a : a[k] \in Entry
  BY <1>1
<1> QED
  BY <1>2 DEF Entry

\* remove() leaves all the others.
LEMMA EntriesLeft ==
  ASSUME LockTypes, NEW k \in DOMAIN a, a' = Only(a, k)
  PROVE  /\ \A j \in DOMAIN a' : \E m \in DOMAIN a \ {k} : a'[j] = a[m]
         /\ \A m \in DOMAIN a \ {k} : \E j \in DOMAIN a' : a'[j] = a[m]
<1>1. a \in Seq(Entry)
  BY DEF LockTypes
<1>2. \A j \in DOMAIN Only(a, k) : \E m \in DOMAIN a \ {k} : Only(a, k)[j] = a[m]
  BY <1>1, WithoutFacts
<1>3. \A m \in DOMAIN a \ {k} : \E j \in DOMAIN Only(a, k) : Only(a, k)[j] = a[m]
  BY <1>1, WithoutFacts
<1> QED
  BY <1>2, <1>3

\* A message is behind all l that are on their way.
Appended(i, e, l) ==
  /\ \A n \in 0 .. l : \A j : j # i => Behind(n, j)' = Behind(n, j)
  /\ \A j : j # i => Behind(0, j)' = Behind(0, j)
  /\ \A n \in 0 .. l : Behind(n, i)' = Behind(n, i) \cup {l + 1}
  /\ Behind(0, i)' = Behind(0, i) \cup {l + 1}
  /\ \A j : Behind(l + 1, j)' = {}
  /\ \A n, j : Behind(n, j) \subseteq DOMAIN Msgs
  /\ DOMAIN Msgs = 1 .. l
  /\ \A p \in DOMAIN Msgs : Msgs'[p] = Msgs[p]
  /\ Msgs'[l + 1] = [id |-> i, e |-> e]

\* trig() puts it there.
LEMMA OneBehind ==
  ASSUME LockTypes, NEW i \in Ids, NEW e \in {"0", "ETIMEDOUT", "EPIPE"},
         async' = async, trig(i, e)
  PROVE  \E l \in Nat : Appended(i, e, l)
<1>0. PICK l \in Nat : l = Len(Msgs)
  BY MsgsTypes
<1>1. /\ DOMAIN Msgs = 1 .. l
      /\ DOMAIN Msgs' = 1 .. l + 1
      /\ \A p \in 1 .. l : Msgs'[p] = Msgs[p]
      /\ Msgs'[l + 1] = [id |-> i, e |-> e]
  BY <1>0, OneMessage
<1>2. ASSUME NEW m \in 0 .. l, NEW j
      PROVE  Behind(m, j)' = IF j = i THEN Behind(m, j) \cup {l + 1} ELSE Behind(m, j)
  BY <1>1, <1>2 DEF Behind
<1>3. \A j : Behind(l + 1, j)' = {}
  BY <1>1 DEF Behind
<1>4. \A m, j : Behind(m, j) \subseteq DOMAIN Msgs
  BY DEF Behind
<1>5. 0 \in 0 .. l
  OBVIOUS
<1> QED
  BY <1>1, <1>2, <1>3, <1>4, <1>5 DEF Appended

\* What s6lockd may tell the client of one that expects it: that it has the lock if it
\* has not been told so, or that there is an end.
Tells(i, e) ==
  /\ Expecting(data, i)
  /\ \A p \in Behind(0, i) : Msgs[p].e = "0"
  /\ Granting(data, 0, i) => e = "EPIPE"

\* So the messages stay true.
LEMMA ToldMessages ==
  ASSUME LockTypes, MessagesTrue(data, 0), SameCalls, UNCHANGED <<data, asked, async>>,
         NEW i \in Ids, NEW e \in {"0", "ETIMEDOUT", "EPIPE"}, trig(i, e),
         Tells(i, e)
  PROVE  MessagesTrue(data, 0)'
<1> async' = async
  OBVIOUS
<1>1. PICK l \in Nat : Appended(i, e, l)
  BY OneBehind
<1>2. /\ \A n \in 0 .. l : \A j : j # i => Behind(n, j)' = Behind(n, j)
      /\ \A j : j # i => Behind(0, j)' = Behind(0, j)
      /\ \A n \in 0 .. l : Behind(n, i)' = Behind(n, i) \cup {l + 1}
      /\ Behind(0, i)' = Behind(0, i) \cup {l + 1}
      /\ \A j : Behind(l + 1, j)' = {}
      /\ \A n, j : Behind(n, j) \subseteq DOMAIN Msgs
      /\ DOMAIN Msgs = 1 .. l
      /\ \A p \in DOMAIN Msgs : Msgs'[p] = Msgs[p]
      /\ Msgs'[l + 1] = [id |-> i, e |-> e]
  BY <1>1 DEF Appended
<1>3. /\ Expecting(data, i)
      /\ \A p \in Behind(0, i) : Msgs[p].e = "0"
      /\ Granting(data, 0, i) => e = "EPIPE"
  BY DEF Tells
<1>4. \A j : Expecting(data, j)' <=> Expecting(data, j)
  BY DEF SameCalls, Expecting
<1>5. ASSUME NEW j \in Ids, NEW p \in Behind(0, j)'
      PROVE  /\ Expecting(data, j)'
             /\ data'[j] = "EBUSY" => Msgs'[p].e = "EPIPE"
             /\ \A q \in Behind(p, j)' : Msgs'[p].e = "0" /\ Msgs'[q].e = "EPIPE"
  <2>1. ASSUME p \in Behind(0, j)
        PROVE  /\ Expecting(data, j) /\ p \in 1 .. l
               /\ data[j] = "EBUSY" => Msgs[p].e = "EPIPE"
               /\ \A q \in Behind(p, j) : Msgs[p].e = "0" /\ Msgs[q].e = "EPIPE"
    BY <1>2, <2>1 DEF MessagesTrue
  <2>2. CASE j # i
    <3>1. p \in Behind(0, j)
      BY <1>2, <2>2
    <3>2. Behind(p, j)' = Behind(p, j)
      BY <1>2, <2>1, <2>2, <3>1
    <3> QED
      BY <1>2, <1>4, <2>1, <3>1, <3>2
  <2>3. CASE j = i /\ p = l + 1
    <3>1. Behind(p, j)' = {}
      BY <1>2, <2>3
    <3> QED
      BY <1>2, <1>3, <1>4, <2>3, <3>1 DEF Granting
  <2>4. CASE j = i /\ p # l + 1
    <3>1. p \in Behind(0, i)
      BY <1>2, <2>4
    <3>2. Behind(p, i)' = Behind(p, i) \cup {l + 1}
      BY <1>2, <2>1, <2>4, <3>1
    <3>3. Msgs[p].e = "0" /\ e = "EPIPE"
      BY <1>3, <3>1 DEF Granting
    <3>4. /\ Msgs'[p] = Msgs[p] /\ Msgs'[l + 1].e = "EPIPE"
          /\ \A q \in Behind(p, i) : Msgs'[q] = Msgs[q]
      BY <1>2, <2>1, <2>4, <3>1, <3>3
    <3> QED
      BY <1>4, <2>1, <2>4, <3>1, <3>2, <3>3, <3>4
  <2> QED
    BY <2>2, <2>3, <2>4
<1> QED
  BY <1>5 DEF MessagesTrue

\* The entry goes with the message.
LEMMA EndedAgree ==
  ASSUME LockTypes, Helpers, Agree(data, 0), SameCalls,
         UNCHANGED <<data, asked, async, helper>>,
         NEW k \in DOMAIN a, NEW e \in {"ETIMEDOUT", "EPIPE"}, trig(a[k].id, e),
         Granting(data, 0, a[k].id) => e = "EPIPE",
         a' = Only(a, k)
  PROVE  Agree(data, 0)'
<1>1. PICK i \in Ids : i = a[k].id
  BY EntryFields
<1> async' = async /\ trig(i, e)
  BY <1>1
<1>0. PICK l \in Nat : Appended(i, e, l)
  BY OneBehind
<1>2. /\ \A j : j # i => Behind(0, j)' = Behind(0, j)
      /\ Behind(0, i)' = Behind(0, i) \cup {l + 1}
      /\ \A j : Behind(0, j) \subseteq DOMAIN Msgs
      /\ \A p \in DOMAIN Msgs : Msgs'[p] = Msgs[p]
  BY <1>0 DEF Appended
<1>3. /\ \A j \in DOMAIN a' : \E m \in DOMAIN a \ {k} : a'[j] = a[m]
      /\ \A m \in DOMAIN a \ {k} : \E j \in DOMAIN a' : a'[j] = a[m]
  BY EntriesLeft
<1>4. MessagesTrue(data, 0)'
  <2>1. Tells(i, e)
    BY <1>1 DEF Agree, EntriesTrue, Tells
  <2> QED
    BY <2>1, ToldMessages DEF Agree
<1>5. ASSUME NEW j \in DOMAIN a', NEW u, NEW h, u = a'[j].id, h = a'[j].h
      PROVE  /\ Expecting(data, u)'
             /\ \A p \in Behind(0, u)' : Msgs'[p].e = "0"
             /\ helper'[h].file = Request(u)'.file /\ helper'[h].ex = Request(u)'.ex
             /\ Granting(data, 0, u)' =>
                  /\ a'[j].limit = "none"
                  /\ ~helper'[h].bang /\ helper'[h].st \in {"told", "dead"}
  <2>1. PICK m \in DOMAIN a \ {k} : a'[j] = a[m]
    BY <1>3
  <2>2. u # i
    BY <1>1, <1>5, <2>1 DEF Helpers
  <2>3. /\ Expecting(data, u)
        /\ \A p \in Behind(0, u) : Msgs[p].e = "0"
        /\ helper[h].file = Request(u).file /\ helper[h].ex = Request(u).ex
        /\ Granting(data, 0, u) =>
             /\ a[m].limit = "none"
             /\ ~helper[h].bang /\ helper[h].st \in {"told", "dead"}
    BY <1>5, <2>1 DEF Agree, EntriesTrue
  <2>4. /\ Expecting(data, u)' <=> Expecting(data, u)
        /\ Request(u)' = Request(u)
    BY DEF SameCalls, Expecting, Request
  <2>5. Granting(data, 0, u)' => Granting(data, 0, u)
    BY <1>2, <2>2 DEF Granting
  <2> QED
    BY <1>2, <2>1, <2>2, <2>3, <2>4, <2>5
<1>6. EntriesTrue(data, 0)'
  BY <1>5 DEF EntriesTrue
<1>7. Had(data, 0)'
  <2> SUFFICES ASSUME NEW j \in Ids, Expecting(data, j)
               PROVE  \/ \E p \in Behind(0, j)' : Msgs'[p].e # "0"
                      \/ \E m \in DOMAIN a' : a'[m].id = j
    BY DEF Had, SameCalls, Expecting
  <2>1. \/ \E p \in Behind(0, j) : Msgs[p].e # "0"
        \/ \E m \in DOMAIN a : a[m].id = j
    BY DEF Agree, Had
  <2>2. CASE j = i
    <3>1. l + 1 \in Behind(0, j)' /\ Msgs'[l + 1].e = e
      BY <1>0, <1>2, <2>2 DEF Appended
    <3> QED
      BY <3>1
  <2>3. CASE j # i
    BY <1>1, <1>2, <1>3, <2>1, <2>3
  <2> QED
    BY <2>2, <2>3
<1> QED
  BY <1>4, <1>6, <1>7 DEF Agree

\* remove() takes an entry, and no other.
LEMMA RemovedTypes ==
  ASSUME LockTypes, Helpers, NEW k \in DOMAIN a, a' = Only(a, k), UNCHANGED helper
  PROVE  /\ a' \in Seq(Entry) /\ Helpers'
         /\ NoLeak /\ UNCHANGED <<freelist, call>> => NoLeak'
<1>1. /\ a' \in Seq(Entry) /\ DOMAIN a' = 1 .. Len(a) - 1
      /\ DOMAIN a = 1 .. Len(a) /\ Len(a) \in Nat \ {0}
      /\ \A j \in 1 .. Len(a) - 1 : a'[j] = a[IF j = k THEN Len(a) ELSE j]
  BY WithoutIs DEF LockTypes
<1>2. \A j \in DOMAIN a' : \E m \in DOMAIN a : a'[j] = a[m]
  BY <1>1
<1>3. \A j, m \in DOMAIN a' : a'[j].id = a'[m].id => j = m
  <2> SUFFICES ASSUME NEW j \in DOMAIN a', NEW m \in DOMAIN a', a'[j].id = a'[m].id
               PROVE  j = m
    OBVIOUS
  <2> DEFINE u == IF j = k THEN Len(a) ELSE j
             v == IF m = k THEN Len(a) ELSE m
  <2>1. u \in DOMAIN a /\ v \in DOMAIN a /\ a[u].id = a[v].id
    BY <1>1
  <2>2. u = v
    BY <2>1 DEF Helpers
  <2> QED
    BY <1>1, <2>2
<1>4. Helpers'
  BY <1>2, <1>3 DEF Helpers
<1>5. NoLeak /\ UNCHANGED <<freelist, call>> => NoLeak'
  BY <1>2, <1>3 DEF NoLeak, Live
<1> QED
  BY <1>1, <1>4, <1>5

\* The two ways an entry ends without being released.
LEMMA EndedInv ==
  ASSUME LockInv, pc # "gone", pc' # "gone",
         NEW k \in DOMAIN a, NEW e \in {"ETIMEDOUT", "EPIPE"}, trig(a[k].id, e), remove(k),
         e = "EPIPE" \/ a[k].limit # "none",
         UNCHANGED <<data, freelist, call, asked, open, req, acks, async, ackbuf, helper>>
  PROVE  LockInv'
<1>1. LockTypes /\ Helpers
  BY DEF LockInv
<1>2. a' = Only(a, k)
  BY DEF remove, Only
<1>3. a' \in Seq(Entry) /\ Helpers'
  BY <1>1, <1>2, RemovedTypes
<1>4. asyncbuf' \in Seq(Msg)
  BY <1>1, EntryFields, OneMessage
<1>5. LockTypes'
  BY <1>1, <1>3, <1>4 DEF LockTypes
<1>6. CASE open
  <2>1. Asking /\ Cells /\ Agree(data, 0)
    BY <1>6 DEF LockInv
  <2>2. SameCalls /\ Asking'
    BY <2>1, SameCall
  <2>3. Cells'
    BY <2>1 DEF Cells
  <2>4. Granting(data, 0, a[k].id) => e = "EPIPE"
    BY <2>1 DEF Agree, EntriesTrue
  <2>5. Agree(data, 0)'
    BY <1>1, <1>2, <2>1, <2>2, <2>4, EndedAgree
  <2> QED
    BY <1>3, <1>5, <1>6, <2>2, <2>3, <2>5 DEF LockInv
<1>7. CASE ~open
  <2>1. Ending'
    BY <1>1, <1>2, <1>7, RemovedTypes DEF LockInv, Ending
  <2> QED
    BY <1>3, <1>5, <1>7, <2>1 DEF LockInv
<1> QED
  BY <1>6, <1>7

\* The limit has passed,
LEMMA TimedOutStep ==
  ASSUME LockInv, pc # "gone", TimedOut, UNCHANGED client
  PROVE  LockInv'
<1>1. PICK k \in DOMAIN a : a[k].limit = "over" /\ trig(a[k].id, "ETIMEDOUT") /\ remove(k)
  BY DEF TimedOut
<1>2. /\ pc' # "gone"
      /\ UNCHANGED <<data, freelist, call, asked, open, req, acks, async, ackbuf, helper>>
  BY DEF TimedOut, client, pipes
<1> QED
  BY <1>1, <1>2, EndedInv

\* s6lockd reads the byte of the helper.
LEMMA GrantedAgree ==
  ASSUME LockTypes, Helpers, Agree(data, 0), SameCalls, UNCHANGED <<data, asked, async>>,
         NEW k \in DOMAIN a, Granted(k)
  PROVE  Agree(data, 0)'
<1>1. PICK i \in Ids : i = a[k].id
  BY EntryFields
<1> async' = async /\ trig(i, "0")
  BY <1>1 DEF Granted
<1>2. PICK l \in Nat : Appended(i, "0", l)
  BY OneBehind
<1>3. /\ \A j : j # i => Behind(0, j)' = Behind(0, j)
      /\ Behind(0, i)' = Behind(0, i) \cup {l + 1}
      /\ \A j : Behind(0, j) \subseteq DOMAIN Msgs
      /\ \A p \in DOMAIN Msgs : Msgs'[p] = Msgs[p]
      /\ Msgs'[l + 1].e = "0"
  BY <1>2 DEF Appended
<1>4. /\ helper[a[k].h].bang
      /\ helper' = [helper EXCEPT ![a[k].h].bang = FALSE]
      /\ a' = [a EXCEPT ![k].limit = "none"]
  BY DEF Granted
<1>5. /\ helper \in Seq(Helper) /\ a[k].h \in DOMAIN helper
      /\ helper[a[k].h].st \in {"told", "dead"}
      /\ a \in Seq(Entry) /\ a[k] \in Entry
  BY <1>4, EntryFields DEF LockTypes, Helpers
<1>6. \A h \in DOMAIN helper :
        /\ helper'[h].file = helper[h].file /\ helper'[h].ex = helper[h].ex
        /\ helper'[h].st = helper[h].st /\ (helper'[h].bang => helper[h].bang)
  BY <1>4, <1>5 DEF Helper
<1>7. /\ DOMAIN a' = DOMAIN a /\ a'[k].limit = "none"
      /\ \A j \in DOMAIN a : /\ a'[j].id = a[j].id /\ a'[j].h = a[j].h
                             /\ a[j].limit = "none" => a'[j].limit = "none"
  <2>1. /\ DOMAIN a' = DOMAIN a
        /\ \A j \in DOMAIN a : j # k => a'[j] = a[j]
        /\ a'[k] = [a[k] EXCEPT !.limit = "none"]
    BY <1>4, <1>5
  <2>2. a'[k].limit = "none" /\ a'[k].id = a[k].id /\ a'[k].h = a[k].h
    BY <1>5, <2>1 DEF Entry
  <2> QED
    BY <2>1, <2>2
<1>8. Tells(i, "0")
  <2>1. /\ Expecting(data, i)
        /\ \A p \in Behind(0, i) : Msgs[p].e = "0"
        /\ Granting(data, 0, i) => ~helper[a[k].h].bang
    BY <1>1 DEF Agree, EntriesTrue
  <2> QED
    BY <1>4, <2>1 DEF Tells
<1>9. MessagesTrue(data, 0)'
  BY <1>8, ToldMessages DEF Agree
<1>10. ASSUME NEW j \in DOMAIN a, NEW u, NEW h, u = a[j].id, h = a[j].h
       PROVE  /\ Expecting(data, u)'
              /\ \A p \in Behind(0, u)' : Msgs'[p].e = "0"
              /\ helper'[h].file = Request(u)'.file /\ helper'[h].ex = Request(u)'.ex
              /\ Granting(data, 0, u)' =>
                   /\ a'[j].limit = "none"
                   /\ ~helper'[h].bang /\ helper'[h].st \in {"told", "dead"}
  <2>1. /\ Expecting(data, u)
        /\ \A p \in Behind(0, u) : Msgs[p].e = "0"
        /\ helper[h].file = Request(u).file /\ helper[h].ex = Request(u).ex
        /\ Granting(data, 0, u) =>
             /\ a[j].limit = "none"
             /\ ~helper[h].bang /\ helper[h].st \in {"told", "dead"}
    BY <1>10 DEF Agree, EntriesTrue
  <2>2. /\ Expecting(data, u)' <=> Expecting(data, u)
        /\ Request(u)' = Request(u)
    BY DEF SameCalls, Expecting, Request
  <2>3. h \in DOMAIN helper
    BY <1>10 DEF Helpers
  <2>4. /\ helper'[h].file = helper[h].file /\ helper'[h].ex = helper[h].ex
        /\ helper'[h].st = helper[h].st /\ (helper'[h].bang => helper[h].bang)
    BY <1>6, <2>3
  <2>5. \A p \in Behind(0, u)' : Msgs'[p].e = "0"
    BY <1>3, <2>1
  <2>6. CASE u = i
    <3>1. j = k
      BY <1>1, <1>10, <2>6 DEF Helpers
    <3>2. h = a[k].h
      BY <1>10, <3>1
    <3>3. helper'[a[k].h].bang = FALSE
      <4>1. helper[a[k].h] \in Helper
        BY <1>5
      <4>2. helper'[a[k].h] = [helper[a[k].h] EXCEPT !.bang = FALSE]
        BY <1>4, <1>5
      <4> QED
        BY <4>1, <4>2 DEF Helper
    <3> QED
      BY <1>5, <1>7, <2>1, <2>2, <2>4, <2>5, <3>1, <3>2, <3>3
  <2>7. CASE u # i
    <3>1. Granting(data, 0, u)' => Granting(data, 0, u)
      BY <1>3, <2>7 DEF Granting
    <3> QED
      BY <1>7, <2>1, <2>2, <2>4, <2>5, <3>1
  <2> QED
    BY <2>6, <2>7
<1>11. EntriesTrue(data, 0)'
  BY <1>7, <1>10 DEF EntriesTrue
<1>12. Had(data, 0)'
  BY <1>3, <1>7 DEF Agree, Had, SameCalls, Expecting
<1> QED
  BY <1>9, <1>11, <1>12 DEF Agree

\* The types go on with that.
LEMMA GrantedInv ==
  ASSUME LockInv, pc # "gone", pc' # "gone", NEW k \in DOMAIN a, Granted(k),
         UNCHANGED <<data, freelist, call, asked, open, req, acks, async, ackbuf>>
  PROVE  LockInv'
<1>1. LockTypes /\ Helpers
  BY DEF LockInv
<1>2. asyncbuf' \in Seq(Msg)
  BY <1>1, EntryFields, OneMessage DEF Granted
<1>3. /\ helper' \in Seq(Helper) /\ DOMAIN helper' = DOMAIN helper
      /\ \A h \in DOMAIN helper : helper'[h].bang => helper'[h].st \in {"told", "dead"}
  <2>1. /\ helper \in Seq(Helper) /\ a[k].h \in DOMAIN helper
        /\ helper' = [helper EXCEPT ![a[k].h].bang = FALSE]
    BY <1>1 DEF Granted, LockTypes, Helpers
  <2>2. helper[a[k].h] \in Helper
    BY <2>1
  <2>3. /\ DOMAIN helper' = DOMAIN helper
        /\ \A h \in DOMAIN helper : h # a[k].h => helper'[h] = helper[h]
        /\ helper'[a[k].h] = [helper[a[k].h] EXCEPT !.bang = FALSE]
    BY <2>1
  <2>4. helper'[a[k].h] \in Helper /\ ~helper'[a[k].h].bang
    BY <2>2, <2>3 DEF Helper
  <2>5. helper' \in Seq(Helper)
    BY <2>1, <2>3, <2>4
  <2> QED
    BY <1>1, <2>3, <2>4, <2>5 DEF Helpers
<1>4. /\ a' \in Seq(Entry) /\ DOMAIN a' = DOMAIN a
      /\ \A j \in DOMAIN a : a'[j].id = a[j].id /\ a'[j].h = a[j].h
  <2>1. a \in Seq(Entry) /\ a[k] \in Entry /\ a' = [a EXCEPT ![k].limit = "none"]
    BY <1>1, EntryFields DEF Granted, LockTypes
  <2>2. /\ DOMAIN a' = DOMAIN a
        /\ \A j \in DOMAIN a : j # k => a'[j] = a[j]
        /\ a'[k] = [a[k] EXCEPT !.limit = "none"]
    BY <2>1
  <2>3. a'[k] \in Entry /\ a'[k].id = a[k].id /\ a'[k].h = a[k].h
    BY <2>1, <2>2 DEF Entry
  <2>4. a' \in Seq(Entry)
    BY <2>1, <2>2, <2>3
  <2> QED
    BY <2>1, <2>2, <2>3, <2>4
<1>5. LockTypes'
  BY <1>1, <1>2, <1>3, <1>4 DEF LockTypes
<1>6. Helpers'
  BY <1>1, <1>3, <1>4 DEF Helpers
<1>7. CASE open
  <2>1. Asking /\ Cells /\ Agree(data, 0)
    BY <1>7 DEF LockInv
  <2>2. SameCalls /\ Asking'
    BY <2>1, SameCall
  <2>3. Cells'
    BY <2>1 DEF Cells
  <2>4. Agree(data, 0)'
    BY <1>1, <2>1, <2>2, GrantedAgree
  <2> QED
    BY <1>5, <1>6, <1>7, <2>2, <2>3, <2>4 DEF LockInv
<1>8. CASE ~open
  <2>1. Ending'
    BY <1>4, <1>8 DEF LockInv, Ending, NoLeak, Live
  <2> QED
    BY <1>5, <1>6, <1>8, <2>1 DEF LockInv
<1> QED
  BY <1>7, <1>8

\* or the helper is heard of.
LEMMA ScanStep ==
  ASSUME LockInv, pc # "gone", Scan, UNCHANGED client
  PROVE  LockInv'
<1>1. PICK k \in DOMAIN a : Granted(k) \/ Lost(k)
  BY DEF Scan
<1>2. /\ pc' # "gone"
      /\ UNCHANGED <<data, freelist, call, asked, open, req, acks, async, ackbuf>>
  BY DEF Scan, client, pipes
<1>3. CASE Granted(k)
  BY <1>2, <1>3, GrantedInv
<1>4. CASE Lost(k)
  BY <1>2, <1>4, EndedInv DEF Lost
<1> QED
  BY <1>1, <1>3, <1>4

-----------------------------------------------------------------------------
(* s6lockd answers the request                                             *)

\* The one request is read, and its answer is the only one on its way.
LEMMA OneAnswer ==
  ASSUME LockTypes, Asking, req # <<>>, req' = Tail(req), acks' = acks, call' = call,
         NEW ok \in BOOLEAN, answer(ok)
  PROVE  /\ call \in Call /\ Head(req) = call
         /\ Asking' /\ (Answer(TRUE)' <=> ok)
         /\ \A op, i : ~Done(op, i)
<1>1. call \in Call /\ Waiting
  <2>1. call # NoCall
    BY DEF Asking
  <2>2. Waiting
    BY <2>1 DEF Asking, Answer
  <2> QED
    BY <2>1, <2>2 DEF LockTypes
<1>2. Head(req) = call /\ req' = <<>>
  BY <1>1 DEF Waiting
<1>3. acks' = <<>> /\ ackbuf' = <<ok>>
  BY <1>1 DEF Waiting, answer
<1>4. Answer(ok)'
  BY <1>2, <1>3 DEF Answer
<1>5. Asking'
  BY <1>1, <1>2, <1>4 DEF Asking, Waiting
<1>6. \A op, i : ~Done(op, i)
  BY <1>1 DEF Waiting, Done, Answer
<1>7. Answer(TRUE)' <=> ok
  BY <1>2, <1>3, OneTrue DEF Answer
<1> QED
  BY <1>1, <1>2, <1>5, <1>6, <1>7

\* Nothing comes of a request that is refused.
LEMMA RefusedStep ==
  ASSUME LockInv, pc # "gone", open, Parse, UNCHANGED client, answer(FALSE),
         UNCHANGED <<a, helper>>
  PROVE  LockInv'
<1>1. LockTypes /\ Helpers /\ Asking /\ Cells /\ Agree(data, 0)
  BY DEF LockInv
<1>2. /\ req # <<>> /\ req' = Tail(req) /\ acks' = acks /\ pc' = pc
      /\ UNCHANGED <<data, freelist, call, asked, open, async, asyncbuf, a, helper>>
  BY DEF Parse, client
<1>3. Asking' /\ ~Answer(TRUE)' /\ \A op, i : ~Done(op, i)
  BY <1>1, <1>2, OneAnswer
<1>4. SameCalls
  BY <1>3 DEF SameCalls, Done
<1>5. Agree(data, 0)'
  BY <1>1, <1>2, <1>4, SameAgree
<1>6. LockTypes' /\ Helpers' /\ Cells'
  BY <1>1, <1>2 DEF LockTypes, Helpers, Cells
<1> QED
  BY <1>2, <1>3, <1>5, <1>6 DEF LockInv

\* The entry goes before the client knows.
LEMMA ReleasedAgree ==
  ASSUME LockTypes, Helpers, Cells, Agree(data, 0), \A op, i : ~Done(op, i),
         call \in Call, call.op = ">", Answer(TRUE)',
         UNCHANGED <<data, call, asked, async, asyncbuf, helper>>,
         NEW k \in DOMAIN a, a[k].id = call.id, a' = Only(a, k)
  PROVE  Agree(data, 0)'
<1>1. PICK i \in Ids : i = call.id
  BY DEF Call
<1>2. /\ \A j : Done(">", j)' <=> j = i
      /\ \A j : ~Done("<", j)'
  BY <1>1 DEF Done
<1>3. Msgs' = Msgs /\ \A n, j : Behind(n, j)' = Behind(n, j)
  BY DEF Msgs, Behind
<1>4. Behind(0, i) = {}
  <2>1. data[i] = "EBUSY"
    BY <1>1 DEF Cells
  <2>2. \A p \in Behind(0, i) : Msgs[p].e = "0"
    BY <1>1 DEF Agree, EntriesTrue
  <2>3. \A p \in Behind(0, i) : Msgs[p].e = "EPIPE"
    BY <2>1 DEF Agree, MessagesTrue
  <2> QED
    BY <2>2, <2>3
<1>5. \A j : j # i => /\ Expecting(data, j)' <=> Expecting(data, j)
                      /\ Granting(data, 0, j)' <=> Granting(data, 0, j)
                      /\ Request(j)' = Request(j)
  BY <1>2, <1>3 DEF Expecting, Granting, Request
<1>6. /\ \A j \in DOMAIN a' : \E m \in DOMAIN a \ {k} : a'[j] = a[m]
      /\ \A m \in DOMAIN a \ {k} : \E j \in DOMAIN a' : a'[j] = a[m]
  BY EntriesLeft
<1>7. ASSUME NEW j \in DOMAIN a', NEW u, NEW h, u = a'[j].id, h = a'[j].h
      PROVE  /\ Expecting(data, u)'
             /\ \A p \in Behind(0, u)' : Msgs'[p].e = "0"
             /\ helper'[h].file = Request(u)'.file /\ helper'[h].ex = Request(u)'.ex
             /\ Granting(data, 0, u)' =>
                  /\ a'[j].limit = "none"
                  /\ ~helper'[h].bang /\ helper'[h].st \in {"told", "dead"}
  <2>1. PICK m \in DOMAIN a \ {k} : a'[j] = a[m]
    BY <1>6
  <2>2. u # i
    BY <1>1, <1>7, <2>1 DEF Helpers
  <2>3. /\ Expecting(data, u)
        /\ \A p \in Behind(0, u) : Msgs[p].e = "0"
        /\ helper[h].file = Request(u).file /\ helper[h].ex = Request(u).ex
        /\ Granting(data, 0, u) =>
             /\ a[m].limit = "none"
             /\ ~helper[h].bang /\ helper[h].st \in {"told", "dead"}
    BY <1>7, <2>1 DEF Agree, EntriesTrue
  <2> QED
    BY <1>3, <1>5, <2>1, <2>2, <2>3
<1>8. EntriesTrue(data, 0)'
  BY <1>7 DEF EntriesTrue
<1>9. MessagesTrue(data, 0)'
  BY <1>3, <1>4, <1>5 DEF Agree, MessagesTrue
<1>10. Had(data, 0)'
  <2> SUFFICES ASSUME NEW j \in Ids, Expecting(data, j)'
               PROVE  \/ \E p \in Behind(0, j) : Msgs[p].e # "0"
                      \/ \E m \in DOMAIN a' : a'[m].id = j
    BY <1>3 DEF Had
  <2>0. j # i
    BY <1>2 DEF Expecting
  <2>1. \/ \E p \in Behind(0, j) : Msgs[p].e # "0"
        \/ \E m \in DOMAIN a : a[m].id = j
    BY <1>5, <2>0 DEF Agree, Had
  <2> QED
    BY <1>1, <1>6, <2>0, <2>1
<1> QED
  BY <1>8, <1>9, <1>10 DEF Agree

\* The request of an id that nothing is known of: it has no entry, and no message.
LEMMA TakenAgree ==
  ASSUME LockTypes, Helpers, Cells, Agree(data, 0), \A op, i : ~Done(op, i),
         call \in Call, call.op = "<", Answer(TRUE)',
         UNCHANGED <<data, call, asked, async, asyncbuf>>,
         NEW s \in Helper, s.file = call.file, s.ex = call.ex, s.bang = FALSE,
         helper' = Append(helper, s),
         NEW e \in Entry, e.id = call.id, e.h = Len(helper'), a' = Append(a, e)
  PROVE  Agree(data, 0)' /\ Helpers'
<1>1. PICK i \in Ids : i = call.id
  BY DEF Call
<1>2. /\ \A j : Done("<", j)' <=> j = i
      /\ \A j : ~Done(">", j)'
  BY <1>1 DEF Done
<1>3. Msgs' = Msgs /\ \A n, j : Behind(n, j)' = Behind(n, j)
  BY DEF Msgs, Behind
<1>4. data[i] = "EINVAL" /\ ~Expecting(data, i)
  BY <1>1 DEF Cells, Expecting
<1>5. Behind(0, i) = {} /\ \A k \in DOMAIN a : a[k].id # i
  BY <1>4 DEF Agree, MessagesTrue, EntriesTrue
<1>6. \A j : j # i => /\ Expecting(data, j)' <=> Expecting(data, j)
                      /\ Granting(data, 0, j)' <=> Granting(data, 0, j)
                      /\ Request(j)' = Request(j)
  BY <1>2, <1>3 DEF Expecting, Granting, Request
<1>7. Expecting(data, i)' /\ ~Granting(data, 0, i)' /\ Request(i)' = call
  BY <1>2, <1>3, <1>4, <1>5 DEF Expecting, Granting, Request
<1>0. a \in Seq(Entry) /\ helper \in Seq(Helper)
  BY DEF LockTypes
<1>8. PICK l \in Nat : l = Len(a)
  BY <1>0, LenProperties
<1>9. /\ DOMAIN a = 1 .. l /\ DOMAIN a' = 1 .. l + 1
      /\ a'[l + 1] = e /\ \A k \in 1 .. l : a'[k] = a[k]
  BY <1>8 DEF LockTypes
<1>10. PICK n \in Nat : n = Len(helper)
  BY <1>0, LenProperties
<1>11. /\ DOMAIN helper = 1 .. n /\ DOMAIN helper' = 1 .. n + 1 /\ e.h = n + 1
       /\ helper'[n + 1] = s /\ \A h \in 1 .. n : helper'[h] = helper[h]
  BY <1>10 DEF LockTypes
<1>12. ASSUME NEW k \in DOMAIN a', NEW u, NEW h, u = a'[k].id, h = a'[k].h
       PROVE  /\ Expecting(data, u)'
              /\ \A p \in Behind(0, u)' : Msgs'[p].e = "0"
              /\ helper'[h].file = Request(u)'.file /\ helper'[h].ex = Request(u)'.ex
              /\ Granting(data, 0, u)' =>
                   /\ a'[k].limit = "none"
                   /\ ~helper'[h].bang /\ helper'[h].st \in {"told", "dead"}
  <2>1. CASE k = l + 1
    BY <1>1, <1>3, <1>5, <1>7, <1>9, <1>11, <1>12, <2>1
  <2>2. CASE k # l + 1
    <3>1. k \in DOMAIN a /\ a'[k] = a[k]
      BY <1>9, <2>2
    <3>2. /\ Expecting(data, u)
          /\ \A p \in Behind(0, u) : Msgs[p].e = "0"
          /\ helper[h].file = Request(u).file /\ helper[h].ex = Request(u).ex
          /\ Granting(data, 0, u) =>
               /\ a[k].limit = "none"
               /\ ~helper[h].bang /\ helper[h].st \in {"told", "dead"}
      BY <1>12, <3>1 DEF Agree, EntriesTrue
    <3>3. helper'[h] = helper[h]
      BY <1>11, <1>12, <3>1 DEF Helpers
    <3>4. u # i
      BY <1>5, <1>12, <3>1
    <3> QED
      BY <1>3, <1>6, <3>1, <3>2, <3>3, <3>4
  <2> QED
    BY <2>1, <2>2
<1>13. EntriesTrue(data, 0)'
  BY <1>12 DEF EntriesTrue
<1>14. MessagesTrue(data, 0)'
  BY <1>3, <1>5, <1>6 DEF Agree, MessagesTrue
<1>15. Had(data, 0)'
  <2> SUFFICES ASSUME NEW j \in Ids, Expecting(data, j)', j # i
               PROVE  \/ \E p \in Behind(0, j) : Msgs[p].e # "0"
                      \/ \E m \in DOMAIN a' : a'[m].id = j
    BY <1>1, <1>3, <1>9 DEF Had
  <2>1. \/ \E p \in Behind(0, j) : Msgs[p].e # "0"
        \/ \E m \in DOMAIN a : a[m].id = j
    BY <1>6 DEF Agree, Had
  <2> QED
    BY <1>9, <2>1
<1>16. Helpers'
  <2>1. \A j, k \in DOMAIN a' : a'[j].id = a'[k].id => j = k
    BY <1>1, <1>5, <1>9 DEF Helpers
  <2>2. \A k \in DOMAIN a' : a'[k].h \in DOMAIN helper'
    BY <1>9, <1>11 DEF Helpers
  <2>3. \A h \in DOMAIN helper' : helper'[h].bang => helper'[h].st \in {"told", "dead"}
    BY <1>11 DEF Helpers
  <2> QED
    BY <2>1, <2>2, <2>3 DEF Helpers
<1> QED
  BY <1>13, <1>14, <1>15, <1>16 DEF Agree

\* The two requests: one that releases,
LEMMA ReleaseStep ==
  ASSUME LockInv, pc # "gone", open, Parse, Head(req).op = ">", UNCHANGED client
  PROVE  LockInv'
<1>1. LockTypes /\ Helpers /\ Asking /\ Cells /\ Agree(data, 0)
  BY DEF LockInv
<1>2. /\ req # <<>> /\ req' = Tail(req) /\ acks' = acks /\ pc' = pc /\ Release
      /\ UNCHANGED <<data, freelist, call, asked, open, async, asyncbuf, helper>>
  BY DEF Parse, Release, client
<1> DEFINE mine == {k \in DOMAIN a : a[k].id = Head(req).id}
<1>3. CASE mine = {}
  <2>1. answer(FALSE) /\ UNCHANGED a
    BY <1>2, <1>3 DEF Release
  <2> QED
    BY <1>2, <2>1, RefusedStep
<1>4. CASE mine # {}
  <2>1. PICK k \in mine : a' = Only(a, k) /\ answer(TRUE)
    <3>1. PICK k \in mine : TRUE
      BY <1>4
    <3>2. mine = {k} /\ k \in Nat
      BY <1>1, <3>1 DEF Helpers, LockTypes
    <3>3. (CHOOSE m \in mine : \A j \in mine : j <= m) = k
      BY <3>2
    <3>4. remove(CHOOSE m \in mine : \A j \in mine : j <= m) /\ answer(TRUE)
      BY <1>2, <1>4 DEF Release
    <3> QED
      BY <3>1, <3>3, <3>4 DEF remove, Only
  <2>2. call \in Call /\ Head(req) = call /\ Asking' /\ Answer(TRUE)' /\ \A op, i : ~Done(op, i)
    BY <1>1, <1>2, <2>1, OneAnswer
  <2>3. call.op = ">"
    BY <2>2
  <2>4. Agree(data, 0)'
    BY <1>1, <1>2, <2>1, <2>2, <2>3, ReleasedAgree
  <2>5. a' \in Seq(Entry) /\ Helpers'
    BY <1>1, <1>2, <2>1, RemovedTypes
  <2>6. LockTypes' /\ Cells'
    BY <1>1, <1>2, <2>5 DEF LockTypes, Cells
  <2> QED
    BY <1>2, <2>2, <2>4, <2>5, <2>6 DEF LockInv
<1> QED
  BY <1>3, <1>4

\* and one that asks for a lock.
LEMMA LockStep ==
  ASSUME LockInv, pc # "gone", open, Parse, Head(req).op # ">", UNCHANGED client
  PROVE  LockInv'
<1>1. LockTypes /\ Helpers /\ Asking /\ Cells /\ Agree(data, 0)
  BY DEF LockInv
<1>2. /\ req # <<>> /\ req' = Tail(req) /\ acks' = acks /\ pc' = pc /\ Lock
      /\ UNCHANGED <<data, freelist, call, asked, open, async, asyncbuf>>
  BY DEF Parse, client
<1>3. CASE answer(FALSE) /\ UNCHANGED <<a, helper>>
  BY <1>3, RefusedStep
<1>4. ASSUME ~(answer(FALSE) /\ UNCHANGED <<a, helper>>)
      PROVE  LockInv'
  <2> DEFINE r == Head(req)
             s == [st |-> "waiting", bang |-> FALSE, file |-> r.file, ex |-> r.ex]
             e == [id |-> r.id, h |-> Len(helper'),
                   limit |-> IF r.limit THEN "armed" ELSE "none"]
  <2>1. helper' = Append(helper, s) /\ a' = Append(a, e) /\ answer(TRUE)
    BY <1>2, <1>4 DEF Lock
  <2>2. call \in Call /\ r = call /\ Asking' /\ Answer(TRUE)' /\ \A op, i : ~Done(op, i)
    BY <1>1, <1>2, <2>1, OneAnswer
  <2>3. call.op = "<" /\ call.id \in Ids /\ call.file \in Files /\ call.ex \in Exs
    BY <2>2 DEF Call
  <2>4. s \in Helper /\ s.file = call.file /\ s.ex = call.ex /\ s.bang = FALSE
    BY <2>2, <2>3 DEF Helper
  <2> HIDE DEF s
  <2>5. helper' \in Seq(Helper) /\ Len(helper') \in Nat
    BY <1>1, <2>1, <2>4 DEF LockTypes
  <2>6. e \in Entry /\ e.id = call.id /\ e.h = Len(helper')
    BY <2>2, <2>3, <2>5 DEF Entry
  <2> HIDE DEF e, r
  <2>7. a' \in Seq(Entry)
    BY <1>1, <2>1, <2>6 DEF LockTypes
  <2>8. Agree(data, 0)' /\ Helpers'
    BY <1>1, <1>2, <2>1, <2>2, <2>3, <2>4, <2>6, TakenAgree
  <2>9. LockTypes' /\ Cells'
    BY <1>1, <1>2, <2>5, <2>7 DEF LockTypes, Cells
  <2> QED
    BY <1>2, <2>2, <2>8, <2>9 DEF LockInv
<1> QED
  BY <1>3, <1>4

\* s6lockd reads a request.
LEMMA ParseStep ==
  ASSUME LockInv, pc # "gone", ParseNext
  PROVE  LockInv'
<1>1. Parse /\ UNCHANGED client
  BY DEF ParseNext
<1>2. open
  BY <1>1 DEF LockInv, Ending, Parse
<1> QED
  BY <1>1, <1>2, ReleaseStep, LockStep

\* The loop of s6lockd.
LEMMA ServerStep ==
  ASSUME LockInv, pc # "gone", ServerNext
  PROVE  LockInv'
BY IopauseStep, TimedOutStep, ScanStep, QuietStep DEF ServerNext

-----------------------------------------------------------------------------
(* The client                                                              *)

\* What the client's own steps leave alone.
Aside == UNCHANGED <<a, ackbuf, asyncbuf, pc, helper>>

\* An idle client has no request, and no answer, on its way.
LEMMA IdleFacts ==
  ASSUME LockInv, pc # "gone", Idle
  PROVE  /\ LockTypes /\ Helpers /\ Asking /\ Cells /\ Agree(data, 0)
         /\ open /\ call = NoCall /\ req = <<>> /\ acks = <<>> /\ ackbuf = <<>>
         /\ \A op \in {"<", ">"} : \A i : ~Done(op, i)
<1>1. /\ LockTypes /\ Helpers /\ Asking /\ Cells /\ Agree(data, 0)
      /\ open /\ call = NoCall
  BY DEF Idle, LockInv
<1>2. req = <<>> /\ acks = <<>> /\ ackbuf = <<>>
  BY <1>1 DEF Asking
<1>3. \A op \in {"<", ">"} : \A i : ~Done(op, i)
  BY <1>1 DEF Done, NoCall
<1> QED
  BY <1>1, <1>2, <1>3

\* A call that is made is not answered yet.
LEMMA Called ==
  ASSUME LockInv, pc # "gone", Idle, call' \in Call, call' # NoCall, req' = Append(req, call'),
         acks' = acks, Aside
  PROVE  Asking' /\ SameCalls
<1>1. /\ call = NoCall /\ req = <<>> /\ acks = <<>> /\ ackbuf = <<>>
      /\ \A op \in {"<", ">"} : \A i : ~Done(op, i)
  BY IdleFacts
<1>2. req' = <<call'>> /\ acks' = <<>> /\ ackbuf' = <<>>
  BY <1>1 DEF Aside
<1>3. Asking'
  BY <1>2 DEF Asking, Waiting
<1>4. \A op, i : ~Done(op, i)'
  BY <1>2 DEF Done, Answer
<1>5. SameCalls
  BY <1>1, <1>4 DEF SameCalls
<1> QED
  BY <1>3, <1>5

\* s6lock_acquire(): the id is taken before the answer.
LEMMA AcquireStep ==
  ASSUME LockInv, pc # "gone", Aside,
         NEW f \in Files, NEW ex \in Exs, NEW limit \in Limits, s6lock_acquire(f, ex, limit)
  PROVE  LockInv'
<1>1. LockTypes /\ Helpers /\ Asking /\ Cells /\ Agree(data, 0) /\ open /\ Idle
  BY IdleFacts DEF s6lock_acquire
<1>2. /\ freelist # <<>> /\ freelist' = Front(freelist)
      /\ call' = [op |-> "<", id |-> Last(freelist), file |-> f, ex |-> ex, limit |-> limit]
      /\ req' = Append(req, call')
      /\ UNCHANGED <<data, asked, open, acks, async, a, ackbuf, asyncbuf, pc, helper>>
  BY DEF s6lock_acquire, Aside
<1>3. freelist \in Seq(Ids)
  BY <1>1 DEF LockTypes
<1>4. PICK n \in Nat \ {0} : n = Len(freelist)
  BY <1>2, <1>3
<1>5. DOMAIN freelist = 1 .. n /\ Last(freelist) = freelist[n] /\ freelist[n] \in Ids
  BY <1>3, <1>4 DEF Last
<1>6. /\ freelist' \in Seq(Ids) /\ DOMAIN freelist' = 1 .. n - 1
      /\ \A p \in 1 .. n - 1 : freelist'[p] = freelist[p]
  <2>1. freelist' = SubSeq(freelist, 1, n - 1)
    BY <1>2, <1>4 DEF Front
  <2>2. 1 \in Nat /\ n - 1 \in 0 .. Len(freelist)
    BY <1>4
  <2> QED
    BY <1>3, <1>4, <1>5, <2>1, <2>2, SubSeqProperties
<1>7. call'.op = "<" /\ call'.id = freelist[n] /\ call' \in Call /\ call' # NoCall
  BY <1>2, <1>5 DEF Call, NoCall
<1>8. Asking' /\ SameCalls
  BY <1>1, <1>2, <1>7, Called
<1>9. Agree(data, 0)'
  BY <1>1, <1>2, <1>8, SameAgree
<1>10. Cells'
  BY <1>1, <1>2, <1>4, <1>5, <1>6, <1>7 DEF Cells, IsInjective
<1>11. LockTypes' /\ Helpers'
  BY <1>1, <1>2, <1>6, <1>7 DEF LockTypes, Helpers
<1> QED
  BY <1>1, <1>2, <1>8, <1>9, <1>10, <1>11 DEF LockInv

\* s6lock_release() of a lock that is held.
LEMMA GiveStep ==
  ASSUME LockInv, pc # "gone", Aside, ~GivesUp, NEW i \in Ids, s6lock_release(i)
  PROVE  LockInv'
<1>1. LockTypes /\ Helpers /\ Asking /\ Cells /\ Agree(data, 0) /\ open /\ Idle
  BY IdleFacts DEF s6lock_release
<1>2. /\ data[i] = "EBUSY" /\ call' = [op |-> ">", id |-> i]
      /\ req' = Append(req, call')
      /\ UNCHANGED <<data, freelist, asked, open, acks, async, a, ackbuf, asyncbuf, pc, helper>>
  BY DEF s6lock_release, Aside
<1>3. call'.op = ">" /\ call'.id = i /\ call' \in Call /\ call' # NoCall
  BY <1>2 DEF Call, NoCall
<1>4. Asking' /\ SameCalls
  BY <1>1, <1>2, <1>3, Called
<1>5. Agree(data, 0)'
  BY <1>1, <1>2, <1>4, SameAgree
<1>6. Cells'
  BY <1>1, <1>2, <1>3 DEF Cells
<1>7. LockTypes' /\ Helpers'
  BY <1>1, <1>2, <1>3 DEF LockTypes, Helpers
<1> QED
  BY <1>1, <1>2, <1>4, <1>5, <1>6, <1>7 DEF LockInv

\* The client forgets of an id that it expects nothing of.
LEMMA SettledAgree ==
  ASSUME LockTypes, Agree(data, 0), NEW i \in Ids, ~Expecting(data, i), ~Expecting(data, i)',
         \A j \in Ids \ {i} : /\ data'[j] = data[j] /\ asked'[j] = asked[j]
                              /\ Done("<", j)' <=> Done("<", j)
                              /\ Done(">", j)' <=> Done(">", j)
                              /\ Done("<", j) => call' = call,
         UNCHANGED <<async, asyncbuf, a, helper>>
  PROVE  Agree(data, 0)'
<1>1. Msgs' = Msgs /\ \A n, j : Behind(n, j)' = Behind(n, j)
  BY DEF Msgs, Behind
<1>2. \A j \in Ids \ {i} : /\ Expecting(data, j)' <=> Expecting(data, j)
                           /\ Granting(data, 0, j)' <=> Granting(data, 0, j)
                           /\ Request(j)' = Request(j)
  BY <1>1 DEF Expecting, Granting, Request
<1>3. Behind(0, i) = {} /\ \A k \in DOMAIN a : a[k].id # i /\ a[k].id \in Ids
  BY EntryFields DEF Agree, MessagesTrue, EntriesTrue
<1>4. EntriesTrue(data, 0)'
  BY <1>1, <1>2, <1>3 DEF Agree, EntriesTrue
<1>5. MessagesTrue(data, 0)'
  BY <1>1, <1>2, <1>3 DEF Agree, MessagesTrue
<1>6. Had(data, 0)'
  BY <1>1, <1>2 DEF Agree, Had
<1> QED
  BY <1>4, <1>5, <1>6 DEF Agree

\* A cell that is not free is given back.
LEMMA FreedCells ==
  ASSUME LockTypes, Cells, NEW i \in Ids, \A p \in DOMAIN freelist : freelist[p] # i,
         freelist' = Append(freelist, i), call' = NoCall,
         data'[i] = "EINVAL", \A j \in Ids : j # i => data'[j] = data[j]
  PROVE  Cells' /\ freelist' \in Seq(Ids)
<1>1. freelist \in Seq(Ids)
  BY DEF LockTypes
<1>2. PICK n \in Nat : n = Len(freelist)
  BY <1>1, LenProperties
<1>3. /\ DOMAIN freelist = 1 .. n /\ DOMAIN freelist' = 1 .. n + 1
      /\ freelist' \in Seq(Ids) /\ freelist'[n + 1] = i
      /\ \A p \in 1 .. n : freelist'[p] = freelist[p] /\ freelist[p] \in Ids
  BY <1>1, <1>2
<1>4. IsInjective(freelist')
  BY <1>3 DEF Cells, IsInjective
<1>5. \A p \in DOMAIN freelist' : data'[freelist'[p]] = "EINVAL"
  BY <1>3 DEF Cells
<1> QED
  BY <1>3, <1>4, <1>5 DEF Cells, NoCall

\* s6lock_check() of a lock that is lost.
LEMMA CheckStep ==
  ASSUME LockInv, pc # "gone", Aside, NEW i \in Ids, s6lock_check(i)
  PROVE  LockInv'
<1>1. /\ LockTypes /\ Helpers /\ Asking /\ Cells /\ Agree(data, 0) /\ open /\ Idle
      /\ call = NoCall /\ \A op \in {"<", ">"} : \A j : ~Done(op, j)
  BY IdleFacts DEF s6lock_check
<1>2. /\ data[i] \notin {"EBUSY", "EAGAIN", "EINVAL"}
      /\ data' = [data EXCEPT ![i] = "EINVAL"] /\ asked' = [asked EXCEPT ![i] = NoCall]
      /\ freelist' = Append(freelist, i)
      /\ UNCHANGED <<call, open, req, acks, async, a, ackbuf, asyncbuf, pc, helper>>
  BY DEF s6lock_check, Settle, pipes, Aside
<1>3. /\ data' \in [Ids -> {"EINVAL", "EAGAIN", "EBUSY", "ETIMEDOUT", "EPIPE"}]
      /\ data'[i] = "EINVAL" /\ \A j \in Ids : j # i => data'[j] = data[j]
      /\ asked' = [j \in Ids |-> asked'[j]] /\ \A j \in Ids : j # i => asked'[j] = asked[j]
  BY <1>1, <1>2 DEF LockTypes
<1>4. SameCalls /\ Asking'
  BY <1>1, <1>2, SameCall
<1>5. ~Expecting(data, i) /\ ~Expecting(data, i)'
  BY <1>1, <1>2, <1>3, <1>4 DEF Expecting, SameCalls
<1>6. Agree(data, 0)'
  BY <1>1, <1>2, <1>3, <1>4, <1>5, SettledAgree DEF SameCalls
<1>7. Cells' /\ freelist' \in Seq(Ids)
  <2>1. \A p \in DOMAIN freelist : freelist[p] # i
    BY <1>1, <1>2 DEF Cells
  <2> QED
    BY <1>1, <1>2, <1>3, <2>1, FreedCells
<1>8. LockTypes' /\ Helpers'
  BY <1>1, <1>2, <1>3, <1>7 DEF LockTypes, Helpers
<1> QED
  BY <1>1, <1>2, <1>4, <1>6, <1>7, <1>8 DEF LockInv

\* The answer that the client reads is the one of its call.
LEMMA AckFacts ==
  ASSUME LockInv, pc # "gone", GetAck, Aside
  PROVE  /\ LockTypes /\ Helpers /\ Asking /\ Cells /\ Agree(data, 0) /\ open /\ call \in Call
         /\ Asking' /\ call' = NoCall
         /\ \A op \in {"<", ">"} : \A i : ~Done(op, i)'
         /\ \E ok \in BOOLEAN :
              /\ IF call.op = "<" THEN Acquired(ok) ELSE Released(ok)
              /\ Answer(TRUE) <=> ok
<1>1. call # NoCall /\ acks # <<>> /\ open
  BY DEF GetAck, LockInv, Ending
<1>2. LockTypes /\ Helpers /\ Asking /\ Cells /\ Agree(data, 0) /\ call \in Call
  BY <1>1 DEF LockInv, LockTypes
<1>3. PICK ok \in BOOLEAN : Answer(ok)
  BY <1>1, <1>2 DEF Asking, Waiting
<1>4. acks = <<ok>> /\ ackbuf = <<>>
  BY <1>1, <1>3 DEF Answer
<1>5. /\ IF call.op = "<" THEN Acquired(ok) ELSE Released(ok)
      /\ acks' = <<>> /\ call' = NoCall /\ open' = open /\ req' = req
  <2>1. acks # <<>> /\ Head(acks) = ok /\ Tail(acks) = <<>>
    BY <1>4
  <2> QED
    BY <2>1 DEF GetAck
<1>6. req = <<>>
  BY <1>3 DEF Answer
<1>7. Asking'
  BY <1>4, <1>5, <1>6 DEF Asking, Aside
<1>8. Answer(TRUE) <=> ok
  BY <1>4, <1>6, OneTrue DEF Answer
<1>9. \A op \in {"<", ">"} : \A i : ~Done(op, i)'
  BY <1>5 DEF Done, NoCall
<1> QED
  BY <1>1, <1>2, <1>5, <1>7, <1>8, <1>9

\* The types and the cells, where the client has got an answer.
LEMMA AckStep ==
  ASSUME LockInv, pc # "gone", GetAck, Aside
  PROVE  LockInv'
<1>1. /\ LockTypes /\ Helpers /\ Asking /\ Cells /\ Agree(data, 0) /\ open /\ call \in Call
      /\ Asking' /\ call' = NoCall
      /\ \A op \in {"<", ">"} : \A i : ~Done(op, i)'
  BY AckFacts
<1>2. PICK ok \in BOOLEAN : /\ IF call.op = "<" THEN Acquired(ok) ELSE Released(ok)
                            /\ Answer(TRUE) <=> ok
  BY AckFacts
<1>3. open' = open /\ pc' = pc /\ UNCHANGED <<async, a, asyncbuf, helper>>
  BY DEF GetAck, Aside
<1>4. Helpers'
  BY <1>1, <1>3 DEF Helpers
<1>5. PICK i \in Ids : i = call.id
  BY <1>1 DEF Call
<1>6. /\ call.op \in {"<", ">"}
      /\ \A op \in {"<", ">"} : \A j : Done(op, j) <=> ok /\ op = call.op /\ j = i
  BY <1>1, <1>2, <1>5 DEF Call, Done
<1>7. data \in [Ids -> {"EINVAL", "EAGAIN", "EBUSY", "ETIMEDOUT", "EPIPE"}]
      /\ asked = [j \in Ids |-> asked[j]] /\ freelist \in Seq(Ids)
  BY <1>1 DEF LockTypes
<1>8. SUFFICES /\ data' \in [Ids -> {"EINVAL", "EAGAIN", "EBUSY", "ETIMEDOUT", "EPIPE"}]
               /\ asked' = [j \in Ids |-> asked'[j]]
               /\ freelist' \in Seq(Ids)
               /\ Cells' /\ Agree(data, 0)'
  BY <1>1, <1>3, <1>4 DEF LockInv, LockTypes
<1>9. CASE call.op = "<" /\ ok = TRUE
  <2>1. /\ data' = [data EXCEPT ![i] = "EAGAIN"] /\ asked' = [asked EXCEPT ![i] = call]
        /\ freelist' = freelist
    BY <1>2, <1>5, <1>9 DEF Acquired
  <2>2. /\ data'[i] = "EAGAIN" /\ \A j \in Ids \ {i} : data'[j] = data[j]
        /\ asked'[i] = call /\ \A j \in Ids \ {i} : asked'[j] = asked[j]
    BY <1>7, <2>1
  <2>3. data[i] = "EINVAL"
    BY <1>1, <1>5, <1>9 DEF Cells
  <2>4. Cells'
    BY <1>1, <1>5, <1>7, <1>9, <2>1, <2>2 DEF Cells, NoCall
  <2>5. Msgs' = Msgs /\ \A n, j : Behind(n, j)' = Behind(n, j)
    BY <1>3 DEF Msgs, Behind
  <2>6. \A j \in Ids : /\ Expecting(data, j)' <=> Expecting(data, j)
                       /\ Granting(data, 0, j)' <=> Granting(data, 0, j)
                       /\ Request(j)' = Request(j)
    BY <1>1, <1>5, <1>6, <1>9, <2>2, <2>3, <2>5 DEF Expecting, Granting, Request
  <2>7. EntriesTrue(data, 0)'
    <3>1. \A k \in DOMAIN a : a[k].id \in Ids
      BY <1>1, EntryFields
    <3> QED
      BY <1>1, <1>3, <2>5, <2>6, <3>1 DEF Agree, EntriesTrue
  <2>8. MessagesTrue(data, 0)'
    BY <1>1, <2>2, <2>3, <2>5, <2>6 DEF Agree, MessagesTrue
  <2>9. Had(data, 0)'
    BY <1>1, <1>3, <2>5, <2>6 DEF Agree, Had
  <2> QED
    BY <1>7, <2>1, <2>4, <2>7, <2>8, <2>9 DEF Agree
<1>10. CASE call.op = "<" /\ ok = FALSE
  <2>1. freelist' = Append(freelist, i) /\ UNCHANGED <<data, asked>>
    BY <1>2, <1>5, <1>10 DEF Acquired
  <2>2. SameCalls
    BY <1>1, <1>6, <1>10 DEF SameCalls
  <2>3. Agree(data, 0)'
    BY <1>1, <1>3, <2>1, <2>2, SameAgree
  <2>4. data[i] = "EINVAL" /\ \A p \in DOMAIN freelist : freelist[p] # i
    BY <1>1, <1>5, <1>10 DEF Cells
  <2>5. Cells' /\ freelist' \in Seq(Ids)
    BY <1>1, <2>1, <2>4, FreedCells
  <2> QED
    BY <1>7, <2>1, <2>3, <2>5
<1>11. CASE call.op = ">" /\ ok = TRUE
  <2>1. /\ data' = [data EXCEPT ![i] = "EINVAL"] /\ asked' = [asked EXCEPT ![i] = NoCall]
        /\ freelist' = Append(freelist, i)
    BY <1>2, <1>5, <1>11 DEF Released
  <2>2. /\ data'[i] = "EINVAL" /\ \A j \in Ids : j # i => data'[j] = data[j]
        /\ \A j \in Ids \ {i} : asked'[j] = asked[j]
    BY <1>7, <2>1
  <2>3. ~Expecting(data, i) /\ ~Expecting(data, i)'
    BY <1>1, <1>6, <1>11, <2>2 DEF Expecting
  <2>4. \A j \in Ids \ {i} : /\ data'[j] = data[j] /\ asked'[j] = asked[j]
                             /\ Done("<", j)' <=> Done("<", j)
                             /\ Done(">", j)' <=> Done(">", j)
                             /\ Done("<", j) => call' = call
    BY <1>1, <1>6, <2>2
  <2>5. Agree(data, 0)'
    BY <1>1, <1>3, <2>3, <2>4, SettledAgree
  <2>6. \A p \in DOMAIN freelist : freelist[p] # i
    BY <1>1, <1>5, <1>11 DEF Cells
  <2>7. Cells' /\ freelist' \in Seq(Ids)
    BY <1>1, <2>1, <2>2, <2>6, FreedCells
  <2> QED
    BY <1>7, <2>1, <2>5, <2>7
<1>12. CASE call.op = ">" /\ ok = FALSE
  <2>1. UNCHANGED <<data, freelist, asked>>
    BY <1>2, <1>12 DEF Released
  <2>2. SameCalls
    BY <1>1, <1>6, <1>12 DEF SameCalls
  <2>3. Agree(data, 0)'
    BY <1>1, <1>3, <2>1, <2>2, SameAgree
  <2>4. Cells'
    BY <1>1, <2>1 DEF Cells, NoCall
  <2> QED
    BY <1>7, <2>1, <2>3, <2>4
<1> QED
  BY <1>6, <1>9, <1>10, <1>11, <1>12

\* No entry is left for an id that has been given back.
LEMMA EntriesLive ==
  ASSUME LockInv, pc # "gone", open
  PROVE  NoLeak
<1>1. LockTypes /\ Helpers /\ Cells /\ Agree(data, 0)
  BY DEF LockInv
<1>2. ASSUME NEW k \in DOMAIN a, ~(call.op = "<" /\ call.id = a[k].id)
      PROVE  a[k].id \in Live
  <2>1. PICK i \in Ids : i = a[k].id
    BY <1>1, EntryFields
  <2>2. data[i] \in {"EAGAIN", "EBUSY"}
    BY <1>1, <1>2, <2>1 DEF Agree, EntriesTrue, Expecting, Done
  <2>3. ~Contains(freelist, i)
    <3>1. DOMAIN freelist = 1 .. Len(freelist)
      BY <1>1 DEF LockTypes
    <3> QED
      BY <1>1, <2>2, <3>1 DEF Cells, Contains
  <2> QED
    BY <1>2, <2>1, <2>3 DEF Live
<1>3. \A j, k \in DOMAIN a : a[j].id = a[k].id => j = k
  BY <1>1 DEF Helpers
<1> QED
  BY <1>2, <1>3 DEF NoLeak

\* s6lock_end().
LEMMA EndStep ==
  ASSUME LockInv, pc # "gone", s6lock_end
  PROVE  LockInv'
<1>1. /\ LockTypes /\ Helpers /\ Asking /\ Cells /\ Agree(data, 0)
      /\ open /\ call = NoCall /\ req = <<>>
  BY IdleFacts DEF s6lock_end
<1>2. /\ open' = FALSE /\ data' = [i \in Ids |-> "EINVAL"] /\ asked' = [i \in Ids |-> NoCall]
      /\ async' = <<>>
      /\ UNCHANGED <<freelist, call, req, a, asyncbuf, pc, helper>>
  BY DEF s6lock_end, server
<1>3. NoLeak
  BY <1>1, EntriesLive
<1>4. NoLeak'
  BY <1>2, <1>3 DEF NoLeak, Live
<1>5. LockTypes' /\ Helpers'
  BY <1>1, <1>2, EmptySeq DEF LockTypes, Helpers
<1> QED
  BY <1>1, <1>2, <1>4, <1>5 DEF LockInv, Ending

-----------------------------------------------------------------------------
(* The client reads its messages                                           *)

States == {"EINVAL", "EAGAIN", "EBUSY", "ETIMEDOUT", "EPIPE"}

\* A set of numbers has a least.
LEMMA LeastExists ==
  ASSUME NEW S, S \subseteq Nat, S # {}
  PROVE  \E l \in S : \A y \in S : l <= y
<1>1. PICK l \in S : \A y \in S : ~ (<<y, l>> \in OpToRel(<, Nat))
  BY NatLessThanWellFounded, WFMin
<1>2. \A y \in S : ~ (y < l)
  BY <1>1 DEF OpToRel
<1> QED
  BY <1>2, l \in Nat, \A y \in S : y \in Nat

\* What becomes of the ids as the first k messages are read.
Reading(g, k) ==
  /\ g = [n \in 0 .. k |-> g[n]]
  /\ \A n \in 0 .. k : g[n] = IF n = 0 THEN data ELSE msghandler(g[n - 1], async[n])

\* The messages can be read one after another.
LEMMA ReadingExists ==
  ASSUME NEW m \in Nat
  PROVE  \E g : Reading(g, m)
<1> DEFINE T == {k \in 0 .. m : ~ \E g : Reading(g, k)}
<1>1. ASSUME T # {}
      PROVE  FALSE
  <2>1. PICK k \in T : \A y \in T : k <= y
    <3>1. T \subseteq Nat
      OBVIOUS
    <3> HIDE DEF T
    <3> QED
      BY <1>1, <3>1, LeastExists
  <2>2. k \in 0 .. m /\ ~ \E g : Reading(g, k)
    BY <2>1
  <2>3. CASE k = 0
    <3>1. Reading([n \in 0 .. 0 |-> data], 0)
      BY DEF Reading
    <3> QED
      BY <2>2, <2>3, <3>1
  <2>4. CASE k # 0
    <3>1. k - 1 \in 0 .. m /\ ~(k <= k - 1)
      BY <2>2, <2>4
    <3>2. PICK g : Reading(g, k - 1)
      BY <2>1, <3>1
    <3> DEFINE h == [n \in 0 .. k |-> IF n = k THEN msghandler(g[k - 1], async[k]) ELSE g[n]]
    <3>3. h[k] = msghandler(g[k - 1], async[k]) /\ \A n \in 0 .. k - 1 : h[n] = g[n]
      BY <2>2, <2>4
    <3>4. h = [n \in 0 .. k |-> h[n]]
      OBVIOUS
    <3> HIDE DEF h
    <3>5. ASSUME NEW n \in 0 .. k
          PROVE  h[n] = IF n = 0 THEN data ELSE msghandler(h[n - 1], async[n])
      <4>1. CASE n = k
        <5>1. k - 1 \in 0 .. k - 1 /\ h[n] = msghandler(g[k - 1], async[n])
          BY <2>2, <2>4, <3>3, <4>1
        <5> QED
          BY <2>4, <3>3, <4>1, <5>1
      <4>2. CASE n # k
        <5>1. n \in 0 .. k - 1 /\ (n # 0 => n - 1 \in 0 .. k - 1)
          BY <2>2, <4>2
        <5>2. g[n] = IF n = 0 THEN data ELSE msghandler(g[n - 1], async[n])
          BY <3>2, <5>1 DEF Reading
        <5> QED
          BY <3>3, <5>1, <5>2
      <4> QED
        BY <4>1, <4>2
    <3>6. Reading(h, k)
      BY <3>4, <3>5 DEF Reading
    <3> QED
      BY <2>2, <3>6
  <2> QED
    BY <2>3, <2>4
<1>2. m \in 0 .. m /\ m \notin T
  BY <1>1
<1> QED
  BY <1>2

\* The recursion of handled.
LEMMA HandledFacts ==
  ASSUME Len(async) \in Nat
  PROVE  /\ handled[0] = data
         /\ \A n \in 1 .. Len(async) : handled[n] = msghandler(handled[n - 1], async[n])
<1>1. PICK g : Reading(g, Len(async))
  BY ReadingExists
<1>2. g = [n \in 0 .. Len(async) |->
             IF n = 0 THEN data ELSE msghandler(g[n - 1], async[n])]
  BY <1>1, Zenon DEF Reading
<1>3. handled = [n \in 0 .. Len(async) |->
                   IF n = 0 THEN data ELSE msghandler(handled[n - 1], async[n])]
  BY <1>2 DEF handled
<1> QED
  BY <1>3

\* One message of the client's pipe.
LEMMA OneHandled ==
  ASSUME LockTypes, call = NoCall, NEW n \in Nat, n < Len(async),
         NEW d \in [Ids -> States], Agree(d, n)
  PROVE  LET m == async[n + 1]
         IN  /\ Expected(d, m)
             /\ msghandler(d, m) \in [Ids -> States]
             /\ \A i \in Ids : d[i] = "EINVAL" => msghandler(d, m)[i] = "EINVAL"
             /\ Agree(msghandler(d, m), n + 1)
<1>1. PICK m \in Msg : m = async[n + 1]
  BY DEF LockTypes
<1>2. PICK l \in Nat : l = Len(Msgs) /\ DOMAIN Msgs = 1 .. l
  BY MsgsTypes
<1>3. n + 1 \in DOMAIN Msgs /\ Msgs[n + 1] = m
  BY <1>1, ConcatProperties DEF LockTypes, Msgs
<1>4. PICK i \in Ids : i = m.id
  BY DEF Msg
<1>5. m.e \in {"0", "ETIMEDOUT", "EPIPE"}
  BY DEF Msg
<1>6. /\ Behind(n, i) = Behind(n + 1, i) \cup {n + 1}
      /\ \A j : j # i => Behind(n, j) = Behind(n + 1, j)
  BY <1>2, <1>3, <1>4 DEF Behind
<1>7. \A op \in {"<", ">"} : \A j : ~Done(op, j)
  BY DEF Done, NoCall
<1>8. Expecting(d, i) /\ (d[i] = "EBUSY" => m.e = "EPIPE")
  BY <1>3, <1>4, <1>6 DEF Agree, MessagesTrue
<1>9. d[i] \in {"EAGAIN", "EBUSY"}
  BY <1>7, <1>8 DEF Expecting
<1> DEFINE c == msghandler(d, m)
           v == IF m.e = "0" THEN "EBUSY" ELSE m.e
<1>10. c = [d EXCEPT ![i] = v]
  BY <1>4, <1>5, <1>8, <1>9 DEF msghandler
<1>11. /\ c \in [Ids -> States] /\ c[i] = v
       /\ \A j \in Ids : j # i => c[j] = d[j]
  BY <1>5, <1>10 DEF States
<1>12. \A j \in Ids : d[j] = "EINVAL" => c[j] = "EINVAL"
  BY <1>9, <1>11
<1> HIDE DEF c
<1>13. \A j \in Ids : j # i => /\ Expecting(c, j) <=> Expecting(d, j)
                               /\ Granting(c, n + 1, j) <=> Granting(d, n, j)
  BY <1>6, <1>11 DEF Expecting, Granting
<1>14. EntriesTrue(c, n + 1)
  <2> SUFFICES ASSUME NEW k \in DOMAIN a, NEW u, NEW h, u = a[k].id, h = a[k].h
               PROVE  /\ Expecting(c, u)
                      /\ \A p \in Behind(n + 1, u) : Msgs[p].e = "0"
                      /\ helper[h].file = Request(u).file /\ helper[h].ex = Request(u).ex
                      /\ Granting(c, n + 1, u) =>
                           /\ a[k].limit = "none"
                           /\ ~helper[h].bang /\ helper[h].st \in {"told", "dead"}
    BY DEF EntriesTrue
  <2>1. /\ Expecting(d, u)
        /\ \A p \in Behind(n, u) : Msgs[p].e = "0"
        /\ helper[h].file = Request(u).file /\ helper[h].ex = Request(u).ex
        /\ Granting(d, n, u) =>
             /\ a[k].limit = "none"
             /\ ~helper[h].bang /\ helper[h].st \in {"told", "dead"}
    BY DEF Agree, EntriesTrue
  <2>2. u \in Ids
    BY EntryFields
  <2>3. CASE u # i
    BY <1>6, <1>13, <2>1, <2>2, <2>3
  <2>4. CASE u = i
    <3>1. m.e = "0"
      BY <1>3, <1>6, <2>1, <2>4
    <3>2. c[i] = "EBUSY" /\ Granting(d, n, i)
      BY <1>3, <1>6, <1>11, <3>1 DEF Granting
    <3>3. Expecting(c, i)
      BY <1>7, <3>2 DEF Expecting
    <3> QED
      BY <1>6, <2>1, <2>4, <3>2, <3>3
  <2> QED
    BY <2>3, <2>4
<1>15. MessagesTrue(c, n + 1)
  <2> SUFFICES ASSUME NEW j \in Ids, NEW p \in Behind(n + 1, j)
               PROVE  /\ Expecting(c, j)
                      /\ c[j] = "EBUSY" => Msgs[p].e = "EPIPE"
                      /\ \A q \in Behind(p, j) : Msgs[p].e = "0" /\ Msgs[q].e = "EPIPE"
    BY DEF MessagesTrue
  <2>1. p \in Behind(n, j)
    BY <1>6
  <2>2. /\ d[j] = "EBUSY" => Msgs[p].e = "EPIPE"
        /\ Expecting(d, j)
        /\ \A q \in Behind(p, j) : Msgs[p].e = "0" /\ Msgs[q].e = "EPIPE"
    BY <2>1 DEF Agree, MessagesTrue
  <2>3. CASE j # i
    BY <1>11, <1>13, <2>2, <2>3
  <2>4. CASE j = i
    <3>1. m.e = "0" /\ Msgs[p].e = "EPIPE"
      BY <1>3, <1>6, <2>4 DEF Agree, MessagesTrue
    <3>2. c[i] = "EBUSY" /\ Expecting(c, i)
      BY <1>7, <1>11, <3>1 DEF Expecting
    <3> QED
      BY <2>2, <2>4, <3>1, <3>2
  <2> QED
    BY <2>3, <2>4
<1>16. Had(c, n + 1)
  <2> SUFFICES ASSUME NEW j \in Ids, Expecting(c, j)
               PROVE  \/ \E p \in Behind(n + 1, j) : Msgs[p].e # "0"
                      \/ \E k \in DOMAIN a : a[k].id = j
    BY DEF Had
  <2>1. CASE j # i
    BY <1>6, <1>13, <2>1 DEF Agree, Had
  <2>2. CASE j = i
    <3>1. m.e = "0"
      BY <1>5, <1>7, <1>11, <2>2 DEF Expecting
    <3> QED
      BY <1>3, <1>6, <1>8, <2>2, <3>1 DEF Agree, Had
  <2> QED
    BY <2>1, <2>2
<1>17. Agree(c, n + 1)
  BY <1>14, <1>15, <1>16 DEF Agree
<1>18. Expected(d, m)
  BY <1>4, <1>9 DEF Expected
<1> QED
  BY <1>1, <1>11, <1>12, <1>17, <1>18 DEF c

\* What the client has of the ids after n messages.
ReadTo(n) ==
  /\ handled[n] \in [Ids -> States] /\ Agree(handled[n], n)
  /\ \A i \in Ids : data[i] = "EINVAL" => handled[n][i] = "EINVAL"

\* No message is unexpected, and all of them are read.
LEMMA AllExpected ==
  ASSUME LockTypes, call = NoCall, Agree(data, 0)
  PROVE  Unexpected = {} /\ ReadTo(Len(async))
<1>1. PICK m \in Nat : m = Len(async)
  BY LenProperties DEF LockTypes
<1>2. /\ handled[0] = data
      /\ \A n \in 1 .. m : handled[n] = msghandler(handled[n - 1], async[n])
  BY <1>1, HandledFacts
<1>3. ReadTo(0)
  BY <1>2 DEF ReadTo, LockTypes, States
<1>4. ASSUME NEW n \in 0 .. m - 1, ReadTo(n)
      PROVE  Expected(handled[n], async[n + 1]) /\ ReadTo(n + 1)
  <2>1. PICK d \in [Ids -> States] : d = handled[n] /\ Agree(d, n)
    BY <1>4 DEF ReadTo
  <2>2. n \in Nat /\ n < Len(async) /\ n + 1 \in 1 .. m /\ n + 1 - 1 = n
    BY <1>1
  <2>3. /\ Expected(d, async[n + 1])
        /\ msghandler(d, async[n + 1]) \in [Ids -> States]
        /\ \A i \in Ids : d[i] = "EINVAL" => msghandler(d, async[n + 1])[i] = "EINVAL"
        /\ Agree(msghandler(d, async[n + 1]), n + 1)
    BY <2>1, <2>2, OneHandled
  <2>4. handled[n + 1] = msghandler(d, async[n + 1])
    BY <1>2, <2>1, <2>2
  <2> QED
    BY <1>4, <2>1, <2>3, <2>4 DEF ReadTo
<1>5. \A n \in 0 .. m : ReadTo(n)
  <2> DEFINE T == {n \in 0 .. m : ~ReadTo(n)}
  <2>1. ASSUME T # {}
        PROVE  FALSE
    <3>1. PICK n \in T : \A y \in T : n <= y
      <4>1. T \subseteq Nat
        OBVIOUS
      <4> HIDE DEF T
      <4> QED
        BY <2>1, <4>1, LeastExists
    <3>2. n \in 0 .. m /\ ~ReadTo(n) /\ n # 0
      BY <1>3, <3>1
    <3>3. n - 1 \in 0 .. m - 1 /\ ~(n <= n - 1) /\ n - 1 \in 0 .. m /\ n - 1 + 1 = n
      BY <3>2
    <3>4. ReadTo(n - 1)
      BY <3>1, <3>3
    <3> QED
      BY <1>4, <3>2, <3>3, <3>4
  <2> QED
    BY <2>1
<1>6. ASSUME NEW n \in 1 .. m
      PROVE  Expected(handled[n - 1], async[n])
  <2>1. n - 1 \in 0 .. m - 1 /\ n - 1 \in 0 .. m /\ n - 1 + 1 = n
    OBVIOUS
  <2> QED
    BY <1>4, <1>5, <2>1
<1>7. Unexpected = {}
  BY <1>1, <1>6 DEF Unexpected
<1> QED
  BY <1>1, <1>5, <1>7

\* The messages that the client has read go from its pipe.
LEMMA ReadAgree ==
  ASSUME LockTypes, call = NoCall, Agree(data', Len(async)), async' = <<>>,
         UNCHANGED <<call, asked, a, helper, asyncbuf>>
  PROVE  Agree(data, 0)'
<1>1. PICK m \in Nat : m = Len(async)
  BY LenProperties DEF LockTypes
<1>2. PICK l \in Nat : l = Len(asyncbuf)
  BY LenProperties DEF LockTypes
<1>3. async \in Seq(Msg) /\ asyncbuf \in Seq(Msg)
  BY DEF LockTypes
<1>4. /\ DOMAIN Msgs = 1 .. m + l
      /\ \A p \in 1 .. l : Msgs[m + p] = asyncbuf[p]
  BY <1>1, <1>2, <1>3, ConcatProperties DEF Msgs
<1>5. Msgs' = asyncbuf /\ DOMAIN Msgs' = 1 .. l
  BY <1>2, <1>3, ConcatProperties, EmptySeq DEF Msgs
<1>6. \A q \in Nat, p \in 1 .. l : \A j :
        /\ m + p \in DOMAIN Msgs /\ Msgs'[p] = Msgs[m + p]
        /\ p \in Behind(q, j)' <=> m + p \in Behind(m + q, j)
  BY <1>4, <1>5 DEF Behind
<1>7. \A q \in Nat : \A j : /\ Behind(q, j)' \subseteq 1 .. l
                            /\ \A p \in Behind(m + q, j) : p - m \in 1 .. l /\ m + (p - m) = p
  BY <1>4, <1>5 DEF Behind
<1>8. \A op \in {"<", ">"} : \A i : ~Done(op, i) /\ ~Done(op, i)'
  BY DEF Done, NoCall
<1> DEFINE d == data'
<1>9. /\ \A j : Expecting(data, j)' <=> Expecting(d, j)
      /\ \A j : Request(j)' = Request(j)
  BY <1>8 DEF Expecting, Request
<1>10. \A j : Granting(data, 0, j)' <=> Granting(d, m, j)
  <2> SUFFICES ASSUME NEW j
               PROVE  Granting(data, 0, j)' <=> Granting(d, m, j)
    OBVIOUS
  <2>1. m + 0 = m /\ 0 \in Nat
    OBVIOUS
  <2>2. ASSUME NEW p \in Behind(0, j)'
        PROVE  m + p \in Behind(m, j) /\ Msgs'[p] = Msgs[m + p]
    <3>1. p \in 1 .. l
      BY <1>7, <2>1
    <3> QED
      BY <1>6, <2>1, <3>1
  <2>3. ASSUME NEW p \in Behind(m, j)
        PROVE  p - m \in Behind(0, j)' /\ Msgs'[p - m] = Msgs[p]
    <3>1. p - m \in 1 .. l /\ m + (p - m) = p
      BY <1>7, <2>1
    <3> QED
      BY <1>6, <2>1, <3>1
  <2> QED
    BY <2>2, <2>3 DEF Granting
<1>11. EntriesTrue(d, m) /\ MessagesTrue(d, m) /\ Had(d, m)
  BY <1>1 DEF Agree
<1>12. EntriesTrue(data, 0)'
  <2> SUFFICES ASSUME NEW k \in DOMAIN a, NEW u, NEW h, u = a[k].id, h = a[k].h
               PROVE  /\ Expecting(data, u)'
                      /\ \A p \in Behind(0, u)' : Msgs'[p].e = "0"
                      /\ helper[h].file = Request(u)'.file /\ helper[h].ex = Request(u)'.ex
                      /\ Granting(data, 0, u)' =>
                           /\ a[k].limit = "none"
                           /\ ~helper[h].bang /\ helper[h].st \in {"told", "dead"}
    BY DEF EntriesTrue
  <2>1. /\ Expecting(d, u)
        /\ \A p \in Behind(m, u) : Msgs[p].e = "0"
        /\ helper[h].file = Request(u).file /\ helper[h].ex = Request(u).ex
        /\ Granting(d, m, u) =>
             /\ a[k].limit = "none"
             /\ ~helper[h].bang /\ helper[h].st \in {"told", "dead"}
    BY <1>11 DEF EntriesTrue
  <2>2. \A p \in Behind(0, u)' : Msgs'[p].e = "0"
    BY <1>6, <1>7, <2>1, m + 0 = m
  <2> QED
    BY <1>9, <1>10, <2>1, <2>2
<1>13. MessagesTrue(data, 0)'
  <2> SUFFICES ASSUME NEW j \in Ids, NEW p \in Behind(0, j)'
               PROVE  /\ Expecting(data, j)'
                      /\ d[j] = "EBUSY" => Msgs'[p].e = "EPIPE"
                      /\ \A q \in Behind(p, j)' : Msgs'[p].e = "0" /\ Msgs'[q].e = "EPIPE"
    BY DEF MessagesTrue
  <2>1. p \in 1 .. l /\ m + p \in Behind(m, j) /\ Msgs'[p] = Msgs[m + p]
    BY <1>6, <1>7, m + 0 = m
  <2>2. /\ Expecting(d, j)
        /\ d[j] = "EBUSY" => Msgs[m + p].e = "EPIPE"
        /\ \A q \in Behind(m + p, j) : Msgs[m + p].e = "0" /\ Msgs[q].e = "EPIPE"
    BY <1>11, <2>1 DEF MessagesTrue
  <2>3. \A q \in Behind(p, j)' :
          q \in 1 .. l /\ m + q \in Behind(m + p, j) /\ Msgs'[q] = Msgs[m + q]
    <3>1. p \in Nat
      BY <2>1
    <3>2. \A q \in Behind(p, j)' : q \in 1 .. l
      BY <1>7, <3>1
    <3> QED
      BY <1>6, <3>1, <3>2
  <2> QED
    BY <1>9, <2>1, <2>2, <2>3
<1>14. Had(data, 0)'
  <2> SUFFICES ASSUME NEW j \in Ids, Expecting(data, j)'
               PROVE  \/ \E p \in Behind(0, j)' : Msgs'[p].e # "0"
                      \/ \E k \in DOMAIN a : a[k].id = j
    BY DEF Had
  <2>1. \/ \E p \in Behind(m, j) : Msgs[p].e # "0"
        \/ \E k \in DOMAIN a : a[k].id = j
    BY <1>9, <1>11 DEF Had
  <2>2. ASSUME NEW p \in Behind(m, j), Msgs[p].e # "0"
        PROVE  \E q \in Behind(0, j)' : Msgs'[q].e # "0"
    <3>1. p - m \in 1 .. l /\ m + (p - m) = p /\ m + 0 = m
      BY <1>7, m + 0 = m
    <3>2. p - m \in Behind(0, j)' /\ Msgs'[p - m] = Msgs[p]
      BY <1>6, <3>1
    <3> QED
      BY <2>2, <3>2
  <2> QED
    BY <2>1, <2>2
<1> QED
  BY <1>12, <1>13, <1>14 DEF Agree

\* s6lock_update().
LEMMA UpdateStep ==
  ASSUME LockInv, pc # "gone", s6lock_update, Aside
  PROVE  LockInv'
<1>1. /\ LockTypes /\ Helpers /\ Asking /\ Cells /\ Agree(data, 0)
      /\ open /\ call = NoCall
  BY IdleFacts DEF s6lock_update
<1>2. Unexpected = {} /\ ReadTo(Len(async))
  BY <1>1, AllExpected
<1>3. async \in Seq(Msg) /\ Len(async) \in Nat
  BY <1>1, LenProperties DEF LockTypes
<1>4. /\ data' = handled[Len(async)] /\ async' = SubSeq(async, Len(async) + 1, Len(async))
      /\ UNCHANGED <<freelist, call, asked, open, req, acks, a, ackbuf, asyncbuf, pc, helper>>
  BY <1>2 DEF s6lock_update, Aside
<1>5. async' = <<>>
  BY <1>3, <1>4
<1>6. Agree(data, 0)'
  BY <1>1, <1>2, <1>4, <1>5, ReadAgree DEF ReadTo
<1>7. Cells'
  <2>1. \A p \in DOMAIN freelist : freelist[p] \in Ids
    BY <1>1 DEF LockTypes
  <2> QED
    BY <1>1, <1>2, <1>4, <2>1 DEF Cells, ReadTo, NoCall
<1>8. LockTypes' /\ Helpers'
  BY <1>1, <1>2, <1>4, <1>5, EmptySeq DEF LockTypes, Helpers, ReadTo, States
<1>9. Asking'
  BY <1>1, <1>4 DEF Asking
<1> QED
  BY <1>1, <1>4, <1>6, <1>7, <1>8, <1>9 DEF LockInv

\* The calls of the client.
LEMMA ClientStep ==
  ASSUME LockInv, pc # "gone", ~GivesUp, ClientNext
  PROVE  LockInv'
<1>1. Aside
  BY DEF ClientNext, Aside, server
<1> QED
  BY <1>1, AcquireStep, CheckStep, GiveStep, AckStep, UpdateStep DEF ClientNext

-----------------------------------------------------------------------------
(* The session                                                             *)

\* Nothing is locked yet.
LEMMA LockInit ==
  ASSUME Init
  PROVE  LockInv
<1>1. PICK n \in Nat : n = Cardinality(Ids) /\ Ids = 0 .. n - 1
  BY S6lockAssumption, FS_CardinalityType
<1>2. /\ freelist = [k \in 1 .. n |-> n - k] /\ call = NoCall /\ open /\ pc = "pause"
      /\ data = [i \in Ids |-> "EINVAL"] /\ asked = [i \in Ids |-> NoCall]
      /\ req = <<>> /\ acks = <<>> /\ async = <<>> /\ a = <<>> /\ ackbuf = <<>>
      /\ asyncbuf = <<>> /\ helper = <<>>
  BY <1>1 DEF Init
<1>3. freelist \in Seq(Ids) /\ DOMAIN freelist = 1 .. n /\ \A k \in 1 .. n : freelist[k] = n - k
  <2>1. \A k \in 1 .. n : n - k \in 0 .. n - 1
    OBVIOUS
  <2>2. \A k \in 1 .. n : n - k \in Ids
    BY <1>1, <2>1
  <2> QED
    BY <1>2, <2>2
<1>4. IsInjective(freelist)
  BY <1>3 DEF IsInjective
<1>5. Cells
  BY <1>2, <1>3, <1>4 DEF Cells, NoCall
<1>6. LockTypes
  BY <1>2, <1>3, EmptySeq DEF LockTypes
<1>7. Msgs = <<>> /\ \A j : Behind(0, j) = {}
  BY <1>2 DEF Msgs, Behind
<1>8. Helpers /\ EntriesTrue(data, 0)
  BY <1>2 DEF Helpers, EntriesTrue
<1>9. MessagesTrue(data, 0) /\ Had(data, 0)
  BY <1>2, <1>7 DEF MessagesTrue, Had, Expecting, Done, NoCall
<1>10. Asking
  BY <1>2 DEF Asking
<1> QED
  BY <1>2, <1>5, <1>6, <1>8, <1>9, <1>10 DEF LockInv, Agree

\* Every step keeps LockInv.
LEMMA LockNext ==
  ASSUME LockInv, ~GivesUp, [Next]_vars
  PROVE  LockInv'
<1>1. CASE pc = "gone"
  BY <1>1, GoneStays
<1>2. CASE pc # "gone"
  <2>1. CASE \E h \in DOMAIN helper : HelperNext(h)
    BY <1>2, <2>1, HelperStep
  <2>2. CASE (\E f \in Files : Foreign(f)) \/ Terminate \/ UNCHANGED vars
    BY <1>2, <2>2, OtherStep
  <2>3. CASE ClientNext
    BY <1>2, <2>3, ClientStep
  <2>4. CASE s6lock_end
    BY <1>2, <2>4, EndStep
  <2>5. CASE ServerNext
    BY <1>2, <2>5, ServerStep
  <2>6. CASE ParseNext
    BY <1>2, <2>6, ParseStep
  <2>7. CASE \E k \in DOMAIN a : LimitOver(k)
    BY <1>2, <2>7, LimitStep
  <2>8. CASE Kill
    BY <2>8, GoneStep
  <2> QED
    BY <2>1, <2>2, <2>3, <2>4, <2>5, <2>6, <2>7, <2>8 DEF Next
<1> QED
  BY <1>1, <1>2

\* What the client has been told it holds.
LEMMA HeldFacts ==
  ASSUME LockInv
  PROVE  HeldIsLocked
<1> SUFFICES ASSUME NEW i \in Live, data[i] = "EBUSY", pc # "gone", call.op # ">"
             PROVE  \/ \E k \in DOMAIN a :
                         /\ a[k].id = i
                         /\ helper[a[k].h].file = asked[i].file
                         /\ helper[a[k].h].ex = asked[i].ex
                         /\ Holds(a[k].h) \/ ~Alive(a[k].h)
                    \/ \E m \in Range(async \o asyncbuf) : m.id = i /\ m.e = "EPIPE"
  BY DEF HeldIsLocked
<1>1. i \in Ids
  BY DEF Live
<1>2. open /\ LockTypes /\ Cells /\ Agree(data, 0)
  BY <1>1 DEF LockInv, Ending
<1>3. ~Done("<", i) /\ ~Done(">", i)
  BY <1>2 DEF Cells, Done
<1>4. Expecting(data, i) /\ Granting(data, 0, i) /\ Request(i) = asked[i]
  BY <1>3 DEF Expecting, Granting, Request
<1>5. CASE \E p \in Behind(0, i) : Msgs[p].e # "0"
  <2>1. PICK p \in Behind(0, i) : TRUE
    BY <1>5
  <2>2. Msgs[p].e = "EPIPE"
    BY <1>1, <1>2, <2>1 DEF Agree, MessagesTrue
  <2>3. Msgs[p].id = i /\ Msgs[p] \in Range(Msgs)
    BY <2>1 DEF Behind, Range
  <2> QED
    BY <2>2, <2>3 DEF Msgs
<1>6. CASE \E k \in DOMAIN a : a[k].id = i
  <2>1. PICK k \in DOMAIN a : a[k].id = i
    BY <1>6
  <2>2. /\ helper[a[k].h].file = asked[i].file /\ helper[a[k].h].ex = asked[i].ex
        /\ helper[a[k].h].st \in {"told", "dead"}
    BY <1>2, <1>4, <2>1 DEF Agree, EntriesTrue
  <2> QED
    BY <2>1, <2>2 DEF Holds, Alive
<1> QED
  BY <1>1, <1>2, <1>4, <1>5, <1>6 DEF Agree, Had

\* What s6lockd has entries for.
LEMMA LeakFacts ==
  ASSUME LockInv
  PROVE  NoLeak
<1>1. CASE pc = "gone"
  BY <1>1 DEF LockInv, NoLeak
<1>2. CASE pc # "gone" /\ open
  BY <1>2, EntriesLive
<1>3. CASE pc # "gone" /\ ~open
  BY <1>3 DEF LockInv, Ending
<1> QED
  BY <1>1, <1>2, <1>3

\* What the client and s6lockd think of a lock agrees, whatever is on its way: a lock
\* it has been told it holds is held, or it will be told of the end, and nothing is
\* left of one that has been given back (s6lock_update, s6lockd).  The client must not
\* release a lock that it has not been told it holds: then it is not so.
THEOREM InStepAlways ==
  ASSUME ~GivesUp
  PROVE  Spec => []InStep
<1>1. Init => LockInv
  BY LockInit
<1>2. LockInv /\ [Next]_vars => LockInv'
  BY LockNext
<1>3. LockInv => InStep
  BY HeldFacts, LeakFacts DEF InStep
<1> QED
  BY <1>1, <1>2, <1>3, PTL DEF Spec

=============================================================================
