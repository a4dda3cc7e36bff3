------------------------------- MODULE Ftrig --------------------------------
(***************************************************************************)
(* The events of libftrig.  A fifodir holds one fifo for each listener;    *)
(* ftrigw_notify() writes a byte to all of them and removes those without  *)
(* reader, and ftrigw_clean() only does the latter.  A listener is an      *)
(* entry in the array of an s6-ftrigrd, whose client has subscribed with a *)
(* regular expression: requests are answered one by one on the first pipe, *)
(* and what matches is reported on the second.                             *)
(*                                                                         *)
(* A regular expression is the finite set of the words it stands for.  The *)
(* deadlines of the calls do not pass (see S6lock).                        *)
(***************************************************************************)
EXTENDS Naturals, Sequences, FiniteSets, SequencesExt

CONSTANTS
  Ids,           \* the cells of the gensetdyn: 0 .. n - 1
  Subs,          \* the regular expressions, with FTRIGR_REPEAT or not
  Bytes,         \* what is notified
  Writers,       \* programs that notify, or clean the fifodir
  FifoSize,      \* the capacity of a fifo
  MaxSubscribe,  \* bound: calls of ftrigr_subscribe()
  MaxNotify,     \* bound: calls of ftrigw_notify() and ftrigw_clean()
  MaxFails,      \* bound: system calls that fail
  MaxKills       \* bound: SIGKILL of s6-ftrigrd, ftrigr_end()

ASSUME FtrigAssumption ==
  /\ IsFiniteSet(Ids) /\ Ids = 0 .. Cardinality(Ids) - 1
  /\ \A s \in Subs : s.re \subseteq Seq(Bytes) \ {<<>>} /\ s.repeat \in BOOLEAN
  /\ FifoSize \in Nat \ {0}
  /\ {MaxSubscribe, MaxNotify, MaxFails, MaxKills} \subseteq Nat

VARIABLES
  data, freelist,      \* the gensetdyn of the client
  call,                \* the call that waits for its answer
  asked,               \* history: the regular expression of an id
  open,                \* the session has not been ended
  req, acks, async,    \* what is in the pipes
  a, ackbuf, asyncbuf, \* the array of s6-ftrigrd and its buffers
  pc, x,               \* what poll() has found
  fifo,                \* the fifos, in the order they are made
  writer,              \* the programs that notify
  owed,                \* history: how many events an id has still to hear of
  notified, fails, kills,
  wasKilled            \* history: by SIGKILL

client == <<data, freelist, call, asked, open>>
pipes == <<req, acks, async>>
server == <<a, ackbuf, asyncbuf, pc, x>>
bounds == <<notified, fails, kills, wasKilled>>
vars == <<client, pipes, server, fifo, writer, owed, bounds>>

NoCall == [op |-> "none"]
NoEvent == [fifos |-> {}, req |-> FALSE]
Zero == [state |-> "ERROR", repeat |-> FALSE, count |-> 0]     \* ftrigr1_zero
AtRest == [at |-> "rest", todo |-> {}, c |-> "none", n |-> 0]

Init ==
  /\ data = [i \in Ids |-> Zero]
  /\ freelist = [k \in 1 .. Cardinality(Ids) |-> Cardinality(Ids) - k]
  /\ call = NoCall /\ open = TRUE
  /\ asked = [i \in Ids |-> {}]
  /\ req = <<>> /\ acks = <<>> /\ async = <<>>
  /\ a = <<>> /\ ackbuf = <<>> /\ asyncbuf = <<>>
  /\ pc = "pause" /\ x = NoEvent
  /\ fifo = <<>>
  /\ writer = [w \in Writers |-> AtRest]
  /\ owed = [i \in Ids |-> 0]
  /\ notified = 0 /\ fails = 0 /\ kills = 0 /\ wasKilled = FALSE

Minus(k, m) == IF k > m THEN k - m ELSE 0

-----------------------------------------------------------------------------
(* The writers.  A scan finds the names that stay, and perhaps some that   *)
(* come later.                                                             *)

Shown == {n \in DOMAIN fifo : fifo[n].name = "shown"}

Unlink(n) == fifo' = [fifo EXCEPT ![n].name = IF @ = "shown" THEN "none" ELSE @]

\* The client is told so, and has not asked for an end.
Listening(i) ==
  /\ open /\ pc # "gone"
  /\ data[i].state = "LISTENING" /\ ~(call.op = "U" /\ call.id = i)

\* One byte is enough to say whether it matches.
Decided(re) == \A b \in Bytes : <<b>> \in re \/ \A word \in re : word[1] # b

ftrigw_notify(w, c) ==
  /\ writer[w].at = "rest" /\ notified < MaxNotify
  /\ writer' = [writer EXCEPT ![w] = [AtRest EXCEPT !.at = "open", !.todo = Shown, !.c = c]]
  /\ owed' = [i \in Ids |-> IF Listening(i) /\ Decided(asked[i]) THEN owed[i] + 1
                            ELSE owed[i]]
  /\ notified' = notified + 1
  /\ UNCHANGED fifo

ftrigw_clean(w) ==
  /\ writer[w].at = "rest" /\ notified < MaxNotify
  /\ writer' = [writer EXCEPT ![w] = [AtRest EXCEPT !.at = "clean", !.todo = Shown]]
  /\ notified' = notified + 1
  /\ UNCHANGED <<fifo, owed>>

\* open_write(), and unlink() at ENXIO.
OpenFifo(w) ==
  /\ writer[w].at # "rest" /\ writer[w].n = 0
  /\ \E n \in writer[w].todo :
       LET there == fifo[n].name = "shown"
       IN  /\ IF there /\ ~fifo[n].reader THEN Unlink(n) ELSE UNCHANGED fifo
           /\ writer' = [writer EXCEPT
                ![w].todo = @ \ {n},
                ![w].n = IF there /\ fifo[n].reader /\ writer[w].at = "open" THEN n ELSE 0]
  /\ UNCHANGED <<owed, notified>>

\* At EPIPE the fifo is unlinked; the byte is dropped when the fifo is full.
WriteFifo(w) ==
  /\ writer[w].n # 0
  /\ LET n == writer[w].n
     IN  /\ IF ~fifo[n].reader THEN Unlink(n) /\ UNCHANGED owed
            ELSE IF Len(fifo[n].bytes) < FifoSize
            THEN fifo' = [fifo EXCEPT ![n].bytes = Append(@, writer[w].c)] /\ UNCHANGED owed
            ELSE /\ owed' = [i \in Ids |-> IF \E k \in DOMAIN a : a[k].n = n /\ a[k].id = i
                                           THEN Minus(owed[i], 1) ELSE owed[i]]
                 /\ UNCHANGED fifo
  /\ writer' = [writer EXCEPT ![w].n = 0]
  /\ UNCHANGED notified

WriterDone(w) ==
  /\ writer[w].at # "rest" /\ writer[w].n = 0 /\ writer[w].todo = {}
  /\ writer' = [writer EXCEPT ![w] = AtRest]
  /\ UNCHANGED <<fifo, owed, notified>>

WriterStep(w) ==
  /\ OpenFifo(w) \/ WriteFifo(w) \/ WriterDone(w)
  /\ UNCHANGED <<client, pipes, server, fails, kills, wasKilled>>

WriterNext(w) ==
  /\ (\E c \in Bytes : ftrigw_notify(w, c)) \/ ftrigw_clean(w)
  /\ UNCHANGED <<client, pipes, server, fails, kills, wasKilled>>

-----------------------------------------------------------------------------
(* The client.  Its ids are one more than the cells.                       *)

Idle == open /\ call = NoCall

ftrigr_subscribe(s) ==
  /\ Idle /\ pc # "gone" /\ freelist # <<>>
  /\ Len(fifo) < MaxSubscribe
  /\ call' = [op |-> "L", id |-> Last(freelist), re |-> s.re,
              repeat |-> s.repeat]
  /\ freelist' = Front(freelist)
  /\ req' = Append(req, call')
  /\ UNCHANGED <<data, asked, open, acks, async, owed>>

Settle(i) ==
  /\ data' = [data EXCEPT ![i] = Zero] /\ asked' = [asked EXCEPT ![i] = {}]
  /\ freelist' = Append(freelist, i)
  /\ UNCHANGED <<call, open>>

\* Also what ftrigr_unsubscribe() does with a subscription that has ended.
ftrigr_check(i) ==
  /\ Idle
  /\ \/ data[i].state \in {"WAITACK", "WAITACKDATA"} /\ Settle(i)
     \/ /\ data[i].state = "LISTENING" /\ data[i].count > 0
        /\ data' = [data EXCEPT ![i].count = 0]
        /\ UNCHANGED <<freelist, call, asked, open>>
  /\ UNCHANGED <<pipes, owed>>

ftrigr_unsubscribe(i) ==
  /\ Idle /\ pc # "gone" /\ data[i].state = "LISTENING"
  /\ call' = [op |-> "U", id |-> i]
  /\ req' = Append(req, call')
  /\ owed' = [owed EXCEPT ![i] = 0]
  /\ UNCHANGED <<data, freelist, asked, open, acks, async>>

\* The second half of both calls.
GetAck ==
  /\ call # NoCall /\ (acks # <<>> \/ pc = "gone")
  /\ LET ok == acks # <<>> /\ Head(acks)
         i == call.id
     IN  CASE call.op = "L" /\ ok ->
                /\ data' = [data EXCEPT ![i] = [Zero EXCEPT !.state = "LISTENING",
                                                            !.repeat = call.repeat]]
                /\ asked' = [asked EXCEPT ![i] = call.re]
                /\ UNCHANGED freelist
           [] call.op = "L" /\ ~ok -> freelist' = Append(freelist, i) /\ UNCHANGED <<data, asked>>
           [] call.op = "U" /\ ok ->
                /\ data' = [data EXCEPT ![i] = Zero] /\ asked' = [asked EXCEPT ![i] = {}]
                /\ freelist' = Append(freelist, i)
           [] OTHER -> UNCHANGED <<data, freelist, asked>>
  /\ acks' = IF acks = <<>> THEN acks ELSE Tail(acks)
  /\ call' = NoCall
  /\ UNCHANGED <<open, req, async, owed>>

Ends(d, m) == m.what = "d" \/ ~d.repeat

\* What the messages ns make of the cell they are for, which listens until the last.
msghandler(d, ns) ==
  LET last == {n \in ns : Ends(d, async[n])}
  IN  IF last = {} THEN [d EXCEPT !.count = @ + Cardinality(ns)]
      ELSE [d EXCEPT !.count = @ + Cardinality(ns) - 1,
                     !.state = IF \E n \in last : async[n].what = "d" THEN "WAITACK"
                               ELSE "WAITACKDATA"]

\* The messages before the next, or all, for the id.
For(i, next) == {n \in DOMAIN async : n < next /\ async[n].id = i}

\* The message is for an id that is not listening, or not any more.
Invalid(n) ==
  LET i == async[n].id
  IN  data[i].state # "LISTENING" \/ \E k \in For(i, n) : Ends(data[i], async[k])

\* Such a message ends the call; the others stay.
ftrigr_update ==
  /\ Idle /\ async # <<>>
  /\ \E next \in 1 .. Len(async) + 1 :
       /\ \A n \in 1 .. next - 1 : ~Invalid(n)
       /\ next <= Len(async) => Invalid(next)
       /\ data' = [i \in Ids |-> msghandler(data[i], For(i, next))]
       /\ async' = SubSeq(async, next + 1, Len(async))
       /\ owed' = [i \in Ids |-> IF data'[i].state = "LISTENING"
                                 THEN Minus(owed[i], Cardinality(For(i, next))) ELSE 0]
  /\ UNCHANGED <<freelist, call, asked, open, req, acks>>

ClientNext ==
  /\ \/ \E s \in Subs : ftrigr_subscribe(s)
     \/ \E i \in Ids : ftrigr_check(i) \/ ftrigr_unsubscribe(i)
     \/ GetAck
     \/ ftrigr_update
  /\ UNCHANGED <<server, fifo, writer, bounds>>

ftrigr_end ==
  /\ Idle /\ kills < MaxKills
  /\ open' = FALSE /\ kills' = kills + 1
  /\ data' = [i \in Ids |-> Zero] /\ asked' = [i \in Ids |-> {}]
  /\ acks' = <<>> /\ async' = <<>>
  /\ owed' = [i \in Ids |-> 0]
  /\ UNCHANGED <<freelist, call, req, server, fifo, writer, notified, fails, wasKilled>>

-----------------------------------------------------------------------------
(* s6-ftrigrd.                                                             *)

Readable == {a[k].n : k \in {j \in DOMAIN a : fifo[a[j].n].bytes # <<>>}}
Ready == req # <<>> \/ ~open \/ ackbuf # <<>> \/ asyncbuf # <<>> \/ Readable # {}

\* Slip: the name stays.
FreedShown(fs, ns) ==
  [n \in DOMAIN fs |-> IF n \in ns THEN [fs[n] EXCEPT !.reader = FALSE, !.bytes = <<>>]
                       ELSE fs[n]]

\* ftrig1_free(): the name goes first.
Freed(fs, ns) ==
  [n \in DOMAIN fs |-> IF n \in ns THEN [name |-> "none", reader |-> FALSE, bytes |-> <<>>]
                       ELSE fs[n]]

cleanup ==
  /\ fifo' = Freed(fifo, {a[k].n : k \in DOMAIN a})
  /\ a' = <<>> /\ pc' = "gone" /\ x' = NoEvent
  /\ UNCHANGED <<ackbuf, asyncbuf, pipes>>

Iopause ==
  /\ pc = "pause" /\ Ready
  /\ IF ~open THEN cleanup
     ELSE /\ acks' = acks \o ackbuf /\ async' = async \o asyncbuf
          /\ ackbuf' = <<>> /\ asyncbuf' = <<>>
          /\ x' = [fifos |-> Readable, req |-> req # <<>>]
          /\ pc' = "scan"
          /\ UNCHANGED <<a, req, fifo>>
  /\ UNCHANGED writer

\* Slip: the last entry goes.
WithoutLast(k) == Front(a)

\* The last entry takes the place of the one that is removed.
Without(k) == Front([a EXCEPT ![k] = a[Len(a)]])

trig(i, what) == asyncbuf' = Append(asyncbuf, [id |-> i, what |-> what])

\* sredfa_feed(): the bytes read since the last match, against the words.
Feed(k, read) ==
  IF read \in a[k].re
  THEN /\ trig(a[k].id, "!")
       /\ a' = IF a[k].repeat THEN [a EXCEPT ![k].dfa = <<>>] ELSE Without(k)
  ELSE IF \E word \in a[k].re : IsPrefix(read, word)
  THEN a' = [a EXCEPT ![k].dfa = read] /\ UNCHANGED asyncbuf
  ELSE trig(a[k].id, "d") /\ a' = Without(k)

Scan ==
  /\ pc = "scan"
  /\ \E k \in DOMAIN a :
       LET n == a[k].n
       IN  /\ n \in x.fifos
           /\ \A j \in 1 .. k - 1 : a[j].n \notin x.fifos
           /\ Feed(k, Append(a[k].dfa, Head(fifo[n].bytes)))
           /\ x' = [x EXCEPT !.fifos = @ \ {n}]
           /\ fifo' = IF \E j \in DOMAIN a' : a'[j].n = n
                      THEN [fifo EXCEPT ![n].bytes = Tail(@)] ELSE Freed(fifo, {n})
  /\ UNCHANGED <<ackbuf, pc, pipes, writer>>

ScanDone ==
  /\ pc = "scan" /\ x.fifos = {}
  /\ pc' = IF x.req THEN "parse" ELSE "pause"
  /\ x' = NoEvent
  /\ UNCHANGED <<a, ackbuf, asyncbuf, pipes, fifo, writer>>

answer(ok) == ackbuf' = Append(ackbuf, ok)

Unsubscribe ==
  /\ pc = "parse" /\ req # <<>> /\ Head(req).op = "U"
  /\ LET mine == {k \in DOMAIN a : a[k].id = Head(req).id}
     IN  IF mine = {} THEN UNCHANGED <<a, fifo>>
         ELSE \E k \in mine :
                /\ \A j \in mine : j <= k
                /\ a' = Without(k) /\ fifo' = Freed(fifo, {a[k].n})
  /\ answer(TRUE)
  /\ req' = Tail(req)
  /\ UNCHANGED <<asyncbuf, pc, x, acks, async, writer>>

Subscribing == pc = "parse" /\ req # <<>> /\ Head(req).op = "L"

\* Slip: the fifo is made under its name.
MakeFifoShown ==
  /\ Subscribing
  /\ fifo' = Append(fifo, [name |-> "shown", reader |-> FALSE, bytes |-> <<>>])
  /\ pc' = "open"
  /\ UNCHANGED <<a, ackbuf, asyncbuf, x, pipes, writer>>

\* ftrig1_make(): the fifo is made under a name that writers pass over,
MakeFifo ==
  /\ Subscribing
  /\ fifo' = Append(fifo, [name |-> "hidden", reader |-> FALSE, bytes |-> <<>>])
  /\ pc' = "open"
  /\ UNCHANGED <<a, ackbuf, asyncbuf, x, pipes, writer>>

\* opened for reading and for writing,
MakeOpen ==
  /\ pc = "open"
  /\ fifo' = [fifo EXCEPT ![Len(fifo)].reader = TRUE]
  /\ pc' = "rename"
  /\ UNCHANGED <<a, ackbuf, asyncbuf, x, pipes, writer>>

\* and renamed. A scan that goes on may find it or not.
MakeRename ==
  /\ pc = "rename"
  /\ LET r == Head(req)
         n == Len(fifo)
     IN  /\ fifo' = [fifo EXCEPT ![n].name = IF @ = "hidden" THEN "shown" ELSE @]
         /\ \E found \in SUBSET {w \in Writers : writer[w].at # "rest"} :
              writer' = [w \in Writers |-> IF w \in found
                           THEN [writer[w] EXCEPT !.todo = @ \cup {n}] ELSE writer[w]]
         /\ a' = Append(a, [id |-> r.id, n |-> n, re |-> r.re, repeat |-> r.repeat,
                            dfa |-> <<>>])
  /\ answer(TRUE)
  /\ req' = Tail(req) /\ pc' = "parse"
  /\ UNCHANGED <<asyncbuf, x, acks, async>>

\* One of the calls fails; what has been made is removed.
MakeFails ==
  /\ Subscribing \/ pc \in {"open", "rename"}
  /\ fails < MaxFails /\ fails' = fails + 1
  /\ fifo' = IF pc = "parse" THEN fifo ELSE Freed(fifo, {Len(fifo)})
  /\ answer(FALSE)
  /\ req' = Tail(req) /\ pc' = "parse"
  /\ UNCHANGED <<a, asyncbuf, x, acks, async, writer>>

ParseDone ==
  /\ pc = "parse" /\ req = <<>>
  /\ IF open THEN pc' = "pause" /\ UNCHANGED <<a, ackbuf, asyncbuf, x, pipes, fifo>>
             ELSE cleanup
  /\ UNCHANGED writer

ServerNext ==
  /\ \/ Iopause \/ Scan \/ ScanDone \/ Unsubscribe \/ MakeFifo \/ MakeOpen
     \/ MakeRename \/ ParseDone
  /\ UNCHANGED <<client, owed, bounds>>

MakeFailsNext == MakeFails /\ UNCHANGED <<client, owed, notified, kills, wasKilled>>

\* A SIGKILL leaves the fifos behind.
Kill ==
  /\ pc # "gone" /\ kills < MaxKills
  /\ fifo' = [n \in DOMAIN fifo |-> [fifo[n] EXCEPT !.reader = FALSE, !.bytes = <<>>]]
  /\ a' = <<>> /\ pc' = "gone" /\ x' = NoEvent
  /\ kills' = kills + 1 /\ wasKilled' = TRUE /\ owed' = [i \in Ids |-> 0]
  /\ UNCHANGED <<client, pipes, ackbuf, asyncbuf, writer, notified, fails>>

-----------------------------------------------------------------------------

Next ==
  \/ \E w \in Writers : WriterStep(w) \/ WriterNext(w)
  \/ ClientNext
  \/ ftrigr_end
  \/ ServerNext
  \/ MakeFailsNext
  \/ Kill

Spec == Init /\ [][Next]_vars

-----------------------------------------------------------------------------

\* What the variables are.
TypeOK ==
  /\ data \in [Ids -> [state : {"WAITACK", "WAITACKDATA", "LISTENING", "ERROR"},
                       repeat : BOOLEAN, count : Nat]]
  /\ freelist \in Seq(Ids) /\ IsInjective(freelist)
  /\ call \in {NoCall} \cup [op : {"U"}, id : Ids]
              \cup [op : {"L"}, id : Ids, re : {s.re : s \in Subs}, repeat : BOOLEAN]
  /\ asked \in [Ids -> {{}} \cup {s.re : s \in Subs}]
  /\ async \o asyncbuf \in Seq([id : Ids, what : {"!", "d"}])
  /\ fifo \in Seq([name : {"hidden", "shown", "none"}, reader : BOOLEAN,
                   bytes : Seq(Bytes)])
  /\ a \in Seq([id : Ids, n : DOMAIN fifo, re : {s.re : s \in Subs}, repeat : BOOLEAN,
                dfa : Seq(Bytes)])
  /\ pc \in {"pause", "scan", "parse", "open", "rename", "gone"}
  /\ x.fifos \subseteq DOMAIN fifo /\ {x.req, open, wasKilled} \subseteq BOOLEAN
  /\ writer \in [Writers -> [at : {"rest", "open", "clean"}, todo : SUBSET (DOMAIN fifo),
                             c : Bytes \cup {"none"}, n : {0} \cup DOMAIN fifo]]
  /\ owed \in [Ids -> Nat]
  /\ notified \in 0 .. MaxNotify /\ fails \in 0 .. MaxFails /\ kills \in 0 .. MaxKills

\* From the return of ftrigr_subscribe() on there is a fifo that writers find and
\* that is read, or a message that ends the subscription is on its way
\* (libftrigr.html: "guaranteed to be listening").
GuaranteedToListen ==
  \A i \in Ids : Listening(i) =>
    \/ \E k \in DOMAIN a :
         a[k].id = i /\ fifo[a[k].n].name = "shown" /\ fifo[a[k].n].reader
    \/ \E m \in Range(async \o asyncbuf) : m.id = i /\ (m.what = "d" \/ ~data[i].repeat)

\* Where an event for the fifo n can be: with a writer that has not come to it;
Carriers(n) == {w \in Writers : writer[w].at = "open" /\ n \in writer[w].todo \cup {writer[w].n}}

\* and for the id i: in the messages.
Told(i) == {p \in DOMAIN (async \o asyncbuf) : (async \o asyncbuf)[p].id = i}

\* An event that is notified after the subscription gets to the client, unless the
\* fifo was full: until then there is a writer, a byte or a message for it, each
\* for one event, all on the way through one entry of the array.
NoEventLost ==
  \A i \in Ids : Listening(i) =>
    \/ \E k \in DOMAIN a :
         LET n == a[k].n
         IN  /\ a[k].id = i
             /\ owed[i] <= Cardinality(Carriers(n)) + Len(fifo[n].bytes) + Cardinality(Told(i))
    \/ \E m \in Range(async \o asyncbuf) : m.id = i /\ (m.what = "d" \/ ~data[i].repeat)

\* What s6-ftrigrd makes it removes, unless it is killed: a fifo is that of a
\* subscription, or about to be.
NoLitter ==
  ~wasKilled => \A n \in DOMAIN fifo :
    fifo[n].name # "none" =>
      (\E k \in DOMAIN a : a[k].n = n) \/ (pc \in {"open", "rename"} /\ n = Len(fifo))

=============================================================================
