------------------------------- MODULE S6lock -------------------------------
(***************************************************************************)
(* One session of the s6lock library: the client's side of it, its         *)
(* s6lockd, and the s6lockd-helper processes that wait for the locks, one  *)
(* for each.  Requests are answered one by one on the first pipe; what     *)
(* becomes of a lock is reported later, on the second, where the client    *)
(* reads it in s6lock_update().                                            *)
(*                                                                         *)
(* A call waits for its answer: the deadline of the calls, which is there  *)
(* against malicious servers, does not pass.  Process ids are not used     *)
(* again.                                                                  *)
(***************************************************************************)
EXTENDS Naturals, Sequences, FiniteSets, SequencesExt

CONSTANTS
  Ids,           \* the cells of the gensetdyn: 0 .. n - 1
  Files,         \* lock files
  Exs,           \* shared or exclusive: a subset of BOOLEAN
  Limits,        \* whether a lock has a limit: a subset of BOOLEAN
  GivesUp,       \* whether the client releases what it has not been granted yet
  MaxAcquire,    \* bound: calls of s6lock_acquire()
  MaxFails,      \* bound: failing forks, and helpers that die by themselves
  MaxForeign,    \* bound: how often another program takes a lock
  MaxKills       \* bound: SIGTERM or SIGKILL of s6lockd, s6lock_end()

ASSUME S6lockAssumption ==
  /\ IsFiniteSet(Ids) /\ Ids = 0 .. Cardinality(Ids) - 1
  /\ Exs \subseteq BOOLEAN /\ Limits \subseteq BOOLEAN /\ GivesUp \in BOOLEAN
  /\ {MaxAcquire, MaxFails, MaxForeign, MaxKills} \subseteq Nat

VARIABLES
  data, freelist,      \* the gensetdyn of the client
  call,                \* the call that waits for its answer
  asked,               \* history: the request that was made for an id
  open,                \* the session has not been ended
  req, acks, async,    \* what is in the pipes
  a, ackbuf, asyncbuf, \* the array of s6lockd and its buffers
  pc, x,               \* what poll() has found
  term,                \* SIGTERM is pending
  helper,              \* the helpers, in the order of their start
  killed,              \* those that have been sent SIGTERM
  foreign,             \* the files that another program has locked
  fails, foreigns, kills

client == <<data, freelist, call, asked, open>>
pipes == <<req, acks, async>>
server == <<a, ackbuf, asyncbuf, pc, x, term>>
bounds == <<fails, foreigns, kills>>
vars == <<client, pipes, server, helper, killed, foreign, bounds>>

NoCall == [op |-> "none"]
NoEvent == [child |-> {}, req |-> FALSE, term |-> FALSE]

Init ==
  /\ data = [i \in Ids |-> "EINVAL"]
  /\ freelist = [k \in 1 .. Cardinality(Ids) |-> Cardinality(Ids) - k]
  /\ call = NoCall /\ asked = [i \in Ids |-> NoCall]
  /\ open = TRUE
  /\ req = <<>> /\ acks = <<>> /\ async = <<>>
  /\ a = <<>> /\ ackbuf = <<>> /\ asyncbuf = <<>>
  /\ pc = "pause" /\ x = NoEvent /\ term = FALSE
  /\ helper = <<>> /\ killed = {} /\ foreign = {}
  /\ fails = 0 /\ foreigns = 0 /\ kills = 0

-----------------------------------------------------------------------------
(* The helpers.                                                            *)

Alive(h) == helper[h].st # "dead"
Holds(h) == helper[h].st \in {"locked", "told"}

\* Slip: helpers inherit the pipes of those before them.
ServedInherited(h) ==
  \/ \E k \in DOMAIN a : a[k].h = h
  \/ \E g \in DOMAIN helper : g > h /\ Alive(g)

\* s6lockd, and nobody else, has its pipes open.
Served(h) == \E k \in DOMAIN a : a[k].h = h

Free(f, ex) ==
  /\ f \notin foreign
  /\ \A h \in DOMAIN helper :
       Holds(h) /\ helper[h].file = f => ~ex /\ ~helper[h].ex

HelperLock(h) ==
  /\ helper[h].st = "waiting" /\ Free(helper[h].file, helper[h].ex)
  /\ helper' = [helper EXCEPT ![h].st = "locked"]
  /\ UNCHANGED <<killed, bounds>>

\* SIGPIPE is ignored, as s6lockd has it: without reader the write fails.
HelperTell(h) ==
  /\ helper[h].st = "locked"
  /\ helper' = [helper EXCEPT ![h].st = IF Served(h) THEN "told" ELSE "dead",
                              ![h].bang = Served(h)]
  /\ killed' = IF Served(h) THEN killed ELSE killed \ {h}
  /\ UNCHANGED bounds

\* The end of standard input.
HelperEof(h) ==
  /\ helper[h].st = "told" /\ ~Served(h)
  /\ helper' = [helper EXCEPT ![h].st = "dead"]
  /\ killed' = killed \ {h}
  /\ UNCHANGED bounds

HelperTermed(h) ==
  /\ h \in killed
  /\ helper' = [helper EXCEPT ![h].st = "dead"]
  /\ killed' = killed \ {h}
  /\ UNCHANGED bounds

HelperFails(h) ==
  /\ Alive(h) /\ fails < MaxFails
  /\ helper' = [helper EXCEPT ![h].st = "dead"]
  /\ killed' = killed \ {h} /\ fails' = fails + 1
  /\ UNCHANGED <<foreigns, kills>>

HelperNext(h) ==
  /\ \/ HelperLock(h) \/ HelperTell(h) \/ HelperEof(h) \/ HelperTermed(h)
     \/ HelperFails(h)
  /\ UNCHANGED <<client, pipes, server, foreign>>

Foreign(f) ==
  /\ \/ /\ Free(f, TRUE) /\ foreigns < MaxForeign
        /\ foreign' = foreign \cup {f} /\ foreigns' = foreigns + 1
     \/ /\ f \in foreign
        /\ foreign' = foreign \ {f} /\ UNCHANGED foreigns
  /\ UNCHANGED <<client, pipes, server, helper, killed, fails, kills>>

-----------------------------------------------------------------------------
(* The client.  Live: the ids it has got and not given back.               *)

Live == {i \in Ids : ~Contains(freelist, i)} \
          (IF call.op = "<" THEN {call.id} ELSE {})

Idle == open /\ call = NoCall

\* Without s6lockd the calls fail and change nothing.
s6lock_acquire(f, ex, limit) ==
  /\ Idle /\ pc # "gone" /\ freelist # <<>> 
  /\ Len(helper) + fails < MaxAcquire
  /\ call' = [op |-> "<", id |-> Last(freelist), file |-> f, ex |-> ex, limit |-> limit]
  /\ freelist' = Front(freelist)
  /\ req' = Append(req, call')
  /\ UNCHANGED <<data, asked, open, acks, async>>

\* s6lock_check() of what is neither granted nor waited for.
Settle(i) ==
  /\ data' = [data EXCEPT ![i] = "EINVAL"] /\ asked' = [asked EXCEPT ![i] = NoCall]
  /\ freelist' = Append(freelist, i)
  /\ UNCHANGED <<call, open>>

s6lock_check(i) ==
  /\ Idle /\ i \in Live /\ data[i] \notin {"EBUSY", "EAGAIN", "EINVAL"}
  /\ Settle(i) /\ UNCHANGED pipes

s6lock_release(i) ==
  /\ Idle /\ pc # "gone" /\ i \in Live
  /\ data[i] = "EBUSY" \/ (data[i] = "EAGAIN" /\ GivesUp)
  /\ call' = [op |-> ">", id |-> i]
  /\ req' = Append(req, call')
  /\ UNCHANGED <<data, freelist, asked, open, acks, async>>

\* The second half of both calls.  0 is the answer of success.
Acquired(ok) ==
  IF ok THEN /\ data' = [data EXCEPT ![call.id] = "EAGAIN"]
             /\ asked' = [asked EXCEPT ![call.id] = call]
             /\ UNCHANGED freelist
        ELSE /\ freelist' = Append(freelist, call.id)
             /\ UNCHANGED <<data, asked>>

Released(ok) ==
  IF ok THEN /\ data' = [data EXCEPT ![call.id] = "EINVAL"]
             /\ asked' = [asked EXCEPT ![call.id] = NoCall]
             /\ freelist' = Append(freelist, call.id)
        ELSE UNCHANGED <<data, freelist, asked>>

GetAck ==
  /\ call # NoCall /\ (acks # <<>> \/ pc = "gone")
  /\ LET ok == acks # <<>> /\ Head(acks)
     IN  IF call.op = "<" THEN Acquired(ok) ELSE Released(ok)
  /\ acks' = IF acks = <<>> THEN acks ELSE Tail(acks)
  /\ call' = NoCall
  /\ UNCHANGED <<open, req, async>>

\* Slip: a lock that is known to be held keeps its state.
msghandlerHeld(d, m) ==
  CASE d[m.id] = "EAGAIN" -> [d EXCEPT ![m.id] = IF m.e = "0" THEN "EBUSY" ELSE m.e]
    [] OTHER -> d

\* A message for an id that is neither granted nor waited for ends the call
\* with EPROTO; the messages behind it stay.
msghandler(d, m) ==
  CASE d[m.id] = "EBUSY" -> [d EXCEPT ![m.id] = m.e]
    [] d[m.id] = "EAGAIN" -> [d EXCEPT ![m.id] = IF m.e = "0" THEN "EBUSY" ELSE m.e]
    [] OTHER -> d

Expected(d, m) == d[m.id] \in {"EBUSY", "EAGAIN"}

\* What the client has of the ids after n of the messages.
handled[n \in 0 .. Len(async)] ==
  IF n = 0 THEN data ELSE msghandler(handled[n - 1], async[n])

Unexpected == {n \in 1 .. Len(async) : ~Expected(handled[n - 1], async[n])}

s6lock_update ==
  /\ Idle /\ async # <<>>
  /\ LET upto == IF Unexpected = {} THEN Len(async)
                 ELSE CHOOSE n \in Unexpected : \A k \in Unexpected : n <= k
     IN  /\ data' = handled[upto]
         /\ async' = SubSeq(async, upto + 1, Len(async))
  /\ UNCHANGED <<freelist, call, asked, open, req, acks>>

s6lock_end ==
  /\ Idle /\ kills < MaxKills
  /\ open' = FALSE /\ kills' = kills + 1
  /\ data' = [i \in Ids |-> "EINVAL"] /\ asked' = [i \in Ids |-> NoCall]
  /\ acks' = <<>> /\ async' = <<>>
  /\ UNCHANGED <<freelist, call, req, server, helper, killed, foreign, fails, foreigns>>

ClientNext ==
  /\ \/ \E f \in Files, ex \in Exs, limit \in Limits : s6lock_acquire(f, ex, limit)
     \/ \E i \in Ids : s6lock_check(i) \/ s6lock_release(i)
     \/ GetAck
     \/ s6lock_update
  /\ UNCHANGED <<server, helper, killed, foreign, bounds>>

-----------------------------------------------------------------------------
(* s6lockd.                                                                *)

trig(i, e) == asyncbuf' = Append(asyncbuf, [id |-> i, e |-> e])
answer(ok) == ackbuf' = Append(ackbuf, ok)

\* Slip: the last entry is dropped along with the one that is removed.
removeBoth(k) ==
  /\ killed' = killed \cup {h \in {a[k].h} : Alive(h)}
  /\ a' = SubSeq([a EXCEPT ![k] = a[Len(a)]], 1, Len(a) - (IF k < Len(a) THEN 2 ELSE 1))

\* The pipes are closed, the helper is sent SIGTERM, and the last entry takes
\* the place of the one that is removed.
remove(k) ==
  /\ killed' = killed \cup {h \in {a[k].h} : Alive(h)}
  /\ a' = Front([a EXCEPT ![k] = a[Len(a)]])

cleanup ==
  /\ killed' = killed \cup {h \in {a[k].h : k \in DOMAIN a} : Alive(h)}
  /\ a' = <<>> /\ pc' = "gone" /\ x' = NoEvent
  /\ UNCHANGED <<ackbuf, asyncbuf, term, pipes, helper>>

Readable == {a[k].h : k \in {j \in DOMAIN a : helper[a[j].h].bang \/ ~Alive(a[j].h)}}

Ready ==
  \/ req # <<>> \/ ~open \/ ackbuf # <<>> \/ asyncbuf # <<>> \/ term
  \/ Readable # {}

Iopause ==
  /\ pc = "pause" /\ Ready
  /\ IF ~open THEN cleanup
     ELSE /\ acks' = acks \o ackbuf /\ async' = async \o asyncbuf
          /\ ackbuf' = <<>> /\ asyncbuf' = <<>>
          /\ x' = [child |-> Readable, req |-> req # <<>>, term |-> term]
          /\ pc' = "scan"
          /\ UNCHANGED <<a, term, req, helper, killed>>

\* Only a poll() that finds nothing else looks at the limits, and removes one.
TimedOut ==
  /\ pc = "pause" /\ ~Ready
  /\ \E k \in DOMAIN a :
       /\ a[k].limit = "over"
       /\ \A j \in 1 .. k - 1 : a[j].limit # "over"
       /\ trig(a[k].id, "ETIMEDOUT") /\ remove(k)
  /\ UNCHANGED <<ackbuf, pc, x, term, pipes, helper>>

Granted(k) ==
  /\ helper[a[k].h].bang
  /\ trig(a[k].id, "0")
  /\ helper' = [helper EXCEPT ![a[k].h].bang = FALSE]
  /\ a' = [a EXCEPT ![k].limit = "none"]
  /\ UNCHANGED killed

Lost(k) ==
  /\ ~helper[a[k].h].bang
  /\ trig(a[k].id, "EPIPE") /\ remove(k)
  /\ UNCHANGED helper

Scan ==
  /\ pc = "scan"
  /\ \E k \in DOMAIN a :
       /\ a[k].h \in x.child
       /\ \A j \in 1 .. k - 1 : a[j].h \notin x.child
       /\ Granted(k) \/ Lost(k)
       /\ x' = [x EXCEPT !.child = @ \ {a[k].h}]
  /\ UNCHANGED <<ackbuf, pc, term, pipes>>

handle_signals ==
  /\ pc = "scan" /\ x.child = {}
  /\ IF x.term THEN cleanup
     ELSE /\ pc' = IF x.req THEN "parse" ELSE "pause"
          /\ x' = NoEvent
          /\ UNCHANGED <<a, ackbuf, asyncbuf, term, pipes, helper, killed>>

Release ==
  /\ LET r == Head(req)
         mine == {k \in DOMAIN a : a[k].id = r.id}
     IN  IF mine = {} THEN answer(FALSE) /\ UNCHANGED <<a, killed>>
         ELSE remove(CHOOSE k \in mine : \A j \in mine : j <= k) /\ answer(TRUE)
  /\ UNCHANGED <<helper, fails>>

Lock ==
  LET r == Head(req)
  IN  \/ /\ fails < MaxFails /\ fails' = fails + 1
         /\ answer(FALSE) /\ UNCHANGED <<a, helper>>
      \/ /\ helper' = Append(helper, [st |-> "waiting", bang |-> FALSE,
                                      file |-> r.file, ex |-> r.ex])
         /\ a' = Append(a, [id |-> r.id, h |-> Len(helper'),
                            limit |-> IF r.limit THEN "armed" ELSE "none"])
         /\ answer(TRUE) /\ UNCHANGED fails

Parse ==
  /\ pc = "parse" /\ req # <<>>
  /\ IF Head(req).op = ">" THEN Release ELSE Lock /\ UNCHANGED killed
  /\ req' = Tail(req)
  /\ UNCHANGED <<asyncbuf, pc, x, term, acks, async>>

ParseDone ==
  /\ pc = "parse" /\ req = <<>>
  /\ IF open THEN pc' = "pause" /\ UNCHANGED <<a, ackbuf, asyncbuf, x, term, pipes, helper, killed>>
             ELSE cleanup

ServerNext ==
  /\ Iopause \/ TimedOut \/ Scan \/ handle_signals \/ ParseDone
  /\ UNCHANGED <<client, foreign, bounds>>

ParseNext ==
  /\ Parse /\ UNCHANGED <<client, foreign, foreigns, kills>>

\* The limit of a lock passes.
LimitOver(k) ==
  /\ k \in DOMAIN a /\ a[k].limit = "armed"
  /\ a' = [a EXCEPT ![k].limit = "over"]
  /\ UNCHANGED <<client, pipes, ackbuf, asyncbuf, pc, x, term, helper, killed, foreign, bounds>>

\* SIGTERM is caught; SIGKILL only closes the pipes.
Terminate ==
  /\ pc # "gone" /\ kills < MaxKills /\ ~term
  /\ term' = TRUE /\ kills' = kills + 1
  /\ UNCHANGED <<client, pipes, a, ackbuf, asyncbuf, pc, x, helper, killed, foreign, fails, foreigns>>

Kill ==
  /\ pc # "gone" /\ kills < MaxKills
  /\ pc' = "gone" /\ a' = <<>> /\ x' = NoEvent /\ kills' = kills + 1
  /\ UNCHANGED <<client, pipes, ackbuf, asyncbuf, term, helper, killed, foreign, fails, foreigns>>

-----------------------------------------------------------------------------

Next ==
  \/ \E h \in DOMAIN helper : HelperNext(h)
  \/ \E f \in Files : Foreign(f)
  \/ ClientNext
  \/ s6lock_end
  \/ ServerNext
  \/ ParseNext
  \/ \E k \in DOMAIN a : LimitOver(k)
  \/ Terminate
  \/ Kill

Spec == Init /\ [][Next]_vars

\* The programs run, and the client calls s6lock_update() when there is something
\* to read; another program gives the lock back; limits pass.  Nothing says that
\* the client ever releases a lock.
Fairness ==
  /\ WF_vars(ServerNext) /\ WF_vars(ParseNext)
  /\ WF_vars(GetAck /\ UNCHANGED <<server, helper, killed, foreign, bounds>>)
  /\ SF_vars(s6lock_update /\ UNCHANGED <<server, helper, killed, foreign, bounds>>)
  /\ \A h \in 1 .. MaxAcquire :
       WF_vars(/\ h \in DOMAIN helper
               /\ HelperLock(h) \/ HelperTell(h) \/ HelperEof(h) \/ HelperTermed(h)
               /\ UNCHANGED <<client, pipes, server, foreign>>)
  /\ \A k \in 1 .. Cardinality(Ids) : WF_vars(LimitOver(k))
  /\ \A f \in Files : WF_vars(f \in foreign /\ Foreign(f))

FairSpec == Spec /\ Fairness

-----------------------------------------------------------------------------

\* What the variables are.
TypeOK ==
  /\ data \in [Ids -> {"EINVAL", "EAGAIN", "EBUSY", "ETIMEDOUT", "EPIPE"}]
  /\ freelist \in Seq(Ids) /\ IsInjective(freelist)
  /\ LET Calls == [op : {"<"}, id : Ids, file : Files, ex : Exs, limit : Limits]
                   \cup [op : {">"}, id : Ids]
     IN  /\ call \in Calls \cup {NoCall} /\ req \in Seq(Calls)
         /\ asked \in [Ids -> Calls \cup {NoCall}]
  /\ {open, term} \subseteq BOOLEAN
  /\ async \o asyncbuf \in Seq([id : Ids, e : {"0", "ETIMEDOUT", "EPIPE"}])
  /\ helper \in Seq([st : {"waiting", "locked", "told", "dead"}, bang : BOOLEAN,
                     file : Files, ex : Exs])
  /\ a \in Seq([id : Ids, h : DOMAIN helper, limit : {"none", "armed", "over"}])
  /\ pc \in {"pause", "scan", "parse", "gone"}
  /\ x.child \subseteq DOMAIN helper /\ {x.req, x.term} \subseteq BOOLEAN
  /\ killed \subseteq DOMAIN helper /\ foreign \subseteq Files
  /\ fails \in 0 .. MaxFails /\ foreigns \in 0 .. MaxForeign /\ kills \in 0 .. MaxKills

\* A lock the client has been told it holds is held by its helper, on the file
\* it was asked for, unless that helper has died since, which the client is to
\* be told (s6lock_check: "If the lock has been acquired, returns 1").
HeldIsLocked ==
  \A i \in Live : data[i] = "EBUSY" /\ pc # "gone" /\ call.op # ">" =>
    \/ \E k \in DOMAIN a :
         /\ a[k].id = i
         /\ helper[a[k].h].file = asked[i].file /\ helper[a[k].h].ex = asked[i].ex
         /\ Holds(a[k].h) \/ ~Alive(a[k].h)
    \/ \E m \in Range(async \o asyncbuf) : m.id = i /\ m.e = "EPIPE"

\* s6lockd keeps nothing for an id the client has given back, and one entry at
\* most for each: what it is left with would never be released.
NoLeak ==
  /\ \A j, k \in DOMAIN a : a[j].id = a[k].id => j = k
  /\ \A k \in DOMAIN a : a[k].id \in Live \/ (call.op = "<" /\ call.id = a[k].id)

\* What the client and s6lockd think of a lock agrees, whatever is on its way.
InStep == HeldIsLocked /\ NoLeak

\* A lock with a limit is granted or fails at last, whoever holds it.
Answered ==
  \A i \in Ids :
    i \in Live /\ data[i] = "EAGAIN" /\ asked[i].limit
      ~> data[i] # "EAGAIN" \/ pc = "gone"

\* However s6lockd ends, the locks are free at last.
Freed == pc = "gone" ~> \A h \in DOMAIN helper : ~Alive(h)

=============================================================================
