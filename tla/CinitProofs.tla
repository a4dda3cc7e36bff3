---------------------------- MODULE CinitProofs ----------------------------
(***************************************************************************)
(* Proofs about cinit, for every services directory, number of clients and *)
(* length of the queues: the answers first, then the tree and the starts.  *)
(***************************************************************************)
EXTENDS CinitCmd, FiniteSetTheorems, SequenceTheorems, TLAPS

-----------------------------------------------------------------------------
(* The answer is the client's own.                                         *)

IpcTypes ==
  /\ mq_in \in Seq(Qsn) /\ qsn \in Seq(Qsn)
  /\ mq_out \in Seq(Asr) /\ asr \in Seq(Asr)
  /\ lspid \subseteq Clients
  /\ answer \in [Clients -> Seq(Asr)]
  /\ mixed \in BOOLEAN

\* Where cinit is in cinit_ipc_listen() says what it has at hand.
AtHand ==
  /\ pc = "stat" => qsn # <<>>
  /\ pc = "answer" => asr # <<>>

\* Who asked wrote last, until msgctl() has been called for the question; and after
\* that the answer is addressed to who asked.
Addressed ==
  ~mixed =>
    /\ \A k \in DOMAIN mq_in : lspid = {mq_in[k].who}
    /\ \A k \in DOMAIN qsn : lspid = {qsn[k].who}
    /\ \A k \in DOMAIN asr : asr[k].to = asr[k].who
    /\ \A k \in DOMAIN mq_out : mq_out[k].to = mq_out[k].who

IpcInv == IpcTypes /\ AtHand /\ Addressed /\ OwnAnswer

LEMMA RemoveAtFacts ==
  ASSUME NEW S, NEW s \in Seq(S), NEW i \in 1 .. Len(s)
  PROVE  /\ RemoveAt(s, i) \in Seq(S)
         /\ \A j \in DOMAIN RemoveAt(s, i) : \E k \in DOMAIN s : RemoveAt(s, i)[j] = s[k]
<1> DEFINE f == SubSeq(s, 1, i - 1)
           g == SubSeq(s, i + 1, Len(s))
           n == Len(s)
<1>1. n \in Nat /\ i \in 1 .. n /\ DOMAIN s = 1 .. n /\ \A j \in 1 .. n : s[j] \in S
  OBVIOUS
<1>4. RemoveAt(s, i) = f \o g
  BY DEF RemoveAt
<1> HIDE DEF n
<1>2. /\ f \in Seq(S) /\ Len(f) = i - 1
      /\ \A j \in 1 .. i - 1 : f[j] = s[j]
  <2>1. \A j \in 1 .. i - 1 : s[j] \in S
    BY <1>1
  <2> QED
    BY <1>1, <2>1, SubSeqProperties
<1>3. /\ g \in Seq(S) /\ Len(g) = n - i
      /\ \A j \in 1 .. n - i : g[j] = s[i + j]
  <2>1. \A j \in i + 1 .. n : s[j] \in S
    BY <1>1
  <2>2. /\ g \in Seq(S) /\ Len(g) = IF i + 1 <= n THEN n - (i + 1) + 1 ELSE 0
        /\ \A j \in 1 .. n - (i + 1) + 1 : g[j] = s[(i + 1) + j - 1]
    BY <1>1, <2>1, SubSeqProperties
  <2> HIDE DEF g
  <2>3. \A j \in 1 .. n - i : j \in 1 .. n - (i + 1) + 1 /\ (i + 1) + j - 1 = i + j
    BY <1>1
  <2>4. (IF i + 1 <= n THEN n - (i + 1) + 1 ELSE 0) = n - i
    BY <1>1
  <2> QED
    BY <2>2, <2>3, <2>4
<1> HIDE DEF f, g
<1>5. /\ f \o g \in Seq(S) /\ Len(f \o g) = n - 1
      /\ \A j \in 1 .. n - 1 : (f \o g)[j] = s[IF j <= i - 1 THEN j ELSE j + 1]
  <2>1. /\ f \o g \in Seq(S) /\ Len(f \o g) = n - 1
        /\ \A j \in 1 .. n - 1 : (f \o g)[j] = IF j <= i - 1 THEN f[j] ELSE g[j - (i - 1)]
    <3>1. Len(f) + Len(g) = n - 1
      BY <1>1, <1>2, <1>3
    <3> QED
      BY <1>2, <1>3, <3>1, ConcatProperties
  <2>2. ASSUME NEW j \in 1 .. n - 1, j > i - 1
        PROVE  g[j - (i - 1)] = s[j + 1]
    <3>1. j - (i - 1) \in 1 .. n - i /\ i + (j - (i - 1)) = j + 1
      BY <1>1, <2>2
    <3> QED
      BY <1>3, <3>1
  <2>3. ASSUME NEW j \in 1 .. n - 1
        PROVE  (f \o g)[j] = s[IF j <= i - 1 THEN j ELSE j + 1]
    <3>1. CASE j <= i - 1
      BY <1>1, <1>2, <2>1, <3>1
    <3>2. CASE ~(j <= i - 1)
      BY <1>1, <2>1, <2>2, <3>2
    <3> QED
      BY <3>1, <3>2
  <2> QED
    BY <2>1, <2>3
<1>6. \A j \in 1 .. n - 1 : \E k \in 1 .. n : (f \o g)[j] = s[k]
  <2> SUFFICES ASSUME NEW j \in 1 .. n - 1
               PROVE  \E k \in 1 .. n : (f \o g)[j] = s[k]
    OBVIOUS
  <2>1. (IF j <= i - 1 THEN j ELSE j + 1) \in 1 .. n
    BY <1>1
  <2> QED
    BY <1>5, <2>1
<1>7. DOMAIN (f \o g) = 1 .. n - 1
  BY <1>1, <1>5
<1> QED
  BY <1>1, <1>4, <1>5, <1>6, <1>7

\* What the core does leaves the questions and answers alone.
LEMMA CoreKeepsIpc ==
  ASSUME IpcInv, UNCHANGED ipcvars,
         pc' = "stat" => pc = "stat", pc' = "answer" => pc = "answer"
  PROVE  IpcInv'
BY DEF IpcInv, IpcTypes, AtHand, Addressed, OwnAnswer, ipcvars

LEMMA IpcStart == CmdInit => IpcInv
<1> SUFFICES ASSUME CmdInit PROVE IpcInv
  OBVIOUS
<1>1. IpcTypes
  <2>1. answer = [c \in Clients |-> <<>>] /\ lspid = {} /\ mixed = FALSE
    BY DEF CmdInit
  <2>2. mq_in = <<>> /\ qsn = <<>> /\ mq_out = <<>> /\ asr = <<>>
    BY DEF CmdInit
  <2>3. <<>> \in Seq(Qsn) /\ <<>> \in Seq(Asr)
    OBVIOUS
  <2>4. answer \in [Clients -> Seq(Asr)]
    BY <2>1, <2>3
  <2> QED
    BY <2>1, <2>2, <2>3, <2>4 DEF IpcTypes
<1> QED
  BY <1>1 DEF CmdInit, Init, IpcInv, AtHand, Addressed, OwnAnswer

LEMMA ReceiveStep == IpcInv /\ Receive => IpcInv'
<1> SUFFICES ASSUME IpcInv, Receive PROVE IpcInv'
  OBVIOUS
<1>1. /\ mq_in # <<>> /\ mq_in \in Seq(Qsn)
      /\ qsn' = <<Head(mq_in)>> /\ mq_in' = Tail(mq_in) /\ pc' = "stat"
      /\ UNCHANGED <<mq_out, lspid, asr, client, answer, qsns, kills, mixed>>
  BY DEF Receive, IpcInv, IpcTypes
<1>2. /\ Head(mq_in) = mq_in[1] /\ 1 \in DOMAIN mq_in /\ mq_in[1] \in Qsn
      /\ mq_in' \in Seq(Qsn)
      /\ \A k \in DOMAIN mq_in' : k + 1 \in DOMAIN mq_in /\ mq_in'[k] = mq_in[k + 1]
  BY <1>1
<1>3. qsn' \in Seq(Qsn) /\ qsn' # <<>> /\ \A k \in DOMAIN qsn' : qsn'[k] = mq_in[1]
  BY <1>1, <1>2
<1>4. IpcTypes' /\ AtHand'
  BY <1>1, <1>2, <1>3 DEF IpcInv, IpcTypes, AtHand
<1>5. Addressed'
  BY <1>1, <1>2, <1>3 DEF IpcInv, Addressed
<1> QED
  BY <1>1, <1>4, <1>5 DEF IpcInv, OwnAnswer

LEMMA StatStep == IpcInv /\ Stat => IpcInv'
<1> SUFFICES ASSUME IpcInv, Stat PROVE IpcInv'
  OBVIOUS
<1>1. PICK to \in lspid : ReadCommand(qsn[1], to)
  BY DEF Stat
<1>2. /\ pc = "stat" /\ qsn' = <<>> /\ pc' = "answer"
      /\ UNCHANGED <<mq_in, mq_out, lspid, client, answer, qsns, kills, mixed>>
  BY DEF Stat
<1>3. qsn \in Seq(Qsn) /\ qsn # <<>> /\ to \in Clients
  BY <1>2 DEF IpcInv, IpcTypes, AtHand
<1>4. qsn[1] \in Qsn /\ 1 \in DOMAIN qsn
  BY <1>3
<1>5. qsn[1].who \in Clients /\ qsn[1].cmd \in AllCmds
  BY <1>4 DEF Qsn
<1>6. PICK ret \in {"OK", "UNKNOWN", "INTERN"} : asr' = <<Reply(qsn[1], ret, to)>>
  <2> DEFINE q == qsn[1]
  <2>1. CASE q.cmd = "ENABLE"
    BY <1>1, <2>1 DEF ReadCommand
  <2>2. CASE q.cmd = "VERSION"
    BY <1>1, <2>2 DEF ReadCommand
  <2>3. CASE q.cmd \notin {"ENABLE", "VERSION"} /\ ~Known(q.svc)
    BY <1>1, <2>3 DEF ReadCommand
  <2>4. CASE q.cmd \in {"STATUS", "PID"} /\ Known(q.svc)
    BY <1>1, <2>4 DEF ReadCommand
  <2>5. CASE q.cmd = "DISABLE" /\ Known(q.svc)
    BY <1>1, <2>5 DEF ReadCommand
  <2> QED
    BY <1>5, <2>1, <2>2, <2>3, <2>4, <2>5 DEF AllCmds
<1> DEFINE r == Reply(qsn[1], ret, to)
<1>7. r \in Asr /\ r.to = to /\ r.who = qsn[1].who
  BY <1>3, <1>5 DEF Reply, Asr
<1> HIDE DEF r
<1>8. asr' \in Seq(Asr) /\ asr' # <<>> /\ \A k \in DOMAIN asr' : asr'[k] = r
  BY <1>6, <1>7 DEF r
<1>9. IpcTypes' /\ AtHand'
  BY <1>2, <1>8 DEF IpcInv, IpcTypes, AtHand
<1>10. ~mixed => r.to = r.who
  BY <1>1, <1>4, <1>7 DEF IpcInv, Addressed
<1>11. Addressed'
  BY <1>2, <1>8, <1>10 DEF IpcInv, Addressed
<1> QED
  BY <1>2, <1>9, <1>11 DEF IpcInv, OwnAnswer

LEMMA AnswerStep == IpcInv /\ Answer => IpcInv'
<1> SUFFICES ASSUME IpcInv, Answer PROVE IpcInv'
  OBVIOUS
<1>1. /\ pc = "answer" /\ pc' = "changed" /\ mq_out' = Append(mq_out, asr[1]) /\ asr' = <<>>
      /\ UNCHANGED <<mq_in, lspid, qsn, client, answer, qsns, kills, mixed>>
  BY DEF Answer, Put
<1>2. asr \in Seq(Asr) /\ asr # <<>> /\ mq_out \in Seq(Asr)
  BY <1>1 DEF IpcInv, IpcTypes, AtHand
<1>3. 1 \in DOMAIN asr /\ asr[1] \in Asr
  BY <1>2
<1>4. /\ mq_out' \in Seq(Asr)
      /\ \A k \in DOMAIN mq_out' : \/ k \in DOMAIN mq_out /\ mq_out'[k] = mq_out[k]
                                   \/ mq_out'[k] = asr[1]
  BY <1>1, <1>2, <1>3
<1>5. IpcTypes' /\ AtHand'
  BY <1>1, <1>4 DEF IpcInv, IpcTypes, AtHand
<1>6. Addressed'
  BY <1>1, <1>3, <1>4 DEF IpcInv, Addressed
<1> QED
  BY <1>1, <1>5, <1>6 DEF IpcInv, OwnAnswer

\* The only answer that is lost is the one that the queue has no room for.
LEMMA ChildDiesStep == IpcInv /\ (\E p \in Pids : ChildDies(p)) => IpcInv'
<1> SUFFICES ASSUME IpcInv, NEW p \in Pids, ChildDies(p) PROVE IpcInv'
  OBVIOUS
<1>1. /\ UNCHANGED <<mq_in, mq_out, lspid, qsn, client, answer, qsns, kills, mixed>>
      /\ pc' = "changed" \/ pc' = pc
      /\ \/ pc' = "changed" /\ asr' = <<>>
         \/ asr' = asr
  BY DEF ChildDies
<1>2. IpcTypes'
  <2>1. asr' \in Seq(Asr)
    BY <1>1, EmptySeq DEF IpcInv, IpcTypes
  <2> QED
    BY <1>1, <2>1 DEF IpcInv, IpcTypes
<1>3. AtHand'
  BY <1>1 DEF IpcInv, AtHand
<1>4. Addressed'
  <2>1. \A k \in DOMAIN asr' : k \in DOMAIN asr /\ asr'[k] = asr[k]
    BY <1>1
  <2> QED
    BY <1>1, <2>1 DEF IpcInv, Addressed
<1> QED
  BY <1>1, <1>2, <1>3, <1>4 DEF IpcInv, OwnAnswer

LEMMA SendStep ==
  ASSUME IpcInv, NEW c \in Clients, Send(c), UNCHANGED cvars
  PROVE  IpcInv'
<1>1. PICK cmd \in Cmds, s \in Svcs :
        mq_in' = Append(mq_in, [who |-> c, cmd |-> cmd, svc |-> s])
  BY DEF Send
<1> DEFINE q == [who |-> c, cmd |-> cmd, svc |-> s]
<1>2. /\ lspid' = {c} /\ mixed' = (mixed \/ mq_in # <<>> \/ qsn # <<>>)
      /\ pc' = pc /\ UNCHANGED <<mq_out, qsn, asr, answer>>
  BY DEF Send, cvars
<1>3. q \in Qsn /\ q.who = c
  BY CinitCmdAssumption DEF Qsn
<1> HIDE DEF q
<1>4. /\ mq_in' \in Seq(Qsn)
      /\ mq_in = <<>> => \A k \in DOMAIN mq_in' : mq_in'[k] = q
  BY <1>1, <1>3 DEF IpcInv, IpcTypes, q
<1>5. IpcTypes' /\ AtHand'
  BY <1>2, <1>4 DEF IpcInv, IpcTypes, AtHand
<1>6. Addressed'
  <2> SUFFICES ASSUME ~mixed' PROVE Addressed'
    BY DEF Addressed
  <2>1. ~mixed /\ mq_in = <<>> /\ qsn = <<>>
    BY <1>2
  <2>2. \A k \in DOMAIN mq_in' : lspid' = {mq_in'[k].who}
    BY <1>2, <1>3, <1>4, <2>1
  <2>3. \A k \in DOMAIN qsn' : lspid' = {qsn'[k].who}
    BY <1>2, <2>1
  <2> QED
    BY <1>2, <2>1, <2>2, <2>3 DEF IpcInv, Addressed
<1> QED
  BY <1>2, <1>5, <1>6 DEF IpcInv, OwnAnswer

LEMMA ReadStep ==
  ASSUME IpcInv, NEW c \in Clients, Read(c), UNCHANGED cvars
  PROVE  IpcInv'
<1>1. PICK i \in Mine(c) : /\ answer' = [answer EXCEPT ![c] = <<mq_out[i]>>]
                           /\ mq_out' = RemoveAt(mq_out, i)
  BY DEF Read
<1>2. pc' = pc /\ UNCHANGED <<mq_in, lspid, qsn, asr, mixed>>
  BY DEF Read, cvars
<1>3. /\ mq_out \in Seq(Asr) /\ i \in 1 .. Len(mq_out) /\ i \in DOMAIN mq_out
      /\ mq_out[i] \in Asr /\ mq_out[i].to = c
  BY DEF Mine, IpcInv, IpcTypes
<1>4. /\ mq_out' \in Seq(Asr)
      /\ \A j \in DOMAIN mq_out' : \E k \in DOMAIN mq_out : mq_out'[j] = mq_out[k]
  BY <1>1, <1>3, RemoveAtFacts
<1>5. <<mq_out[i]>> \in Seq(Asr) /\ \A j \in DOMAIN <<mq_out[i]>> : <<mq_out[i]>>[j] = mq_out[i]
  BY <1>3
<1>6. IpcTypes' /\ AtHand'
  BY <1>1, <1>2, <1>4, <1>5 DEF IpcInv, IpcTypes, AtHand
<1>7. Addressed'
  BY <1>2, <1>4 DEF IpcInv, Addressed
<1>8. ~mixed => mq_out[i].who = c
  BY <1>3 DEF IpcInv, Addressed
<1>9. \A d \in Clients : answer'[d] = IF d = c THEN <<mq_out[i]>> ELSE answer[d]
  BY <1>1 DEF IpcInv, IpcTypes
<1>10. OwnAnswer'
  BY <1>2, <1>5, <1>8, <1>9 DEF IpcInv, OwnAnswer
<1> QED
  BY <1>6, <1>7, <1>10 DEF IpcInv

LEMMA LeaveStep ==
  ASSUME IpcInv, NEW c \in Clients, ReadFails(c) \/ Leave(c), UNCHANGED cvars
  PROVE  IpcInv'
<1>1. pc' = pc /\ UNCHANGED <<mq_in, mq_out, lspid, qsn, asr>>
  BY DEF ReadFails, Leave, cvars
<1>2. /\ mixed' = mixed \/ mixed' = TRUE
      /\ answer' = answer \/ answer' = [answer EXCEPT ![c] = <<>>]
  BY DEF ReadFails, Leave
<1>3. IpcTypes' /\ AtHand'
  <2>1. answer' \in [Clients -> Seq(Asr)]
    BY <1>2, EmptySeq DEF IpcInv, IpcTypes
  <2>2. mixed' \in BOOLEAN
    BY <1>2 DEF IpcInv, IpcTypes
  <2> QED
    BY <1>1, <2>1, <2>2 DEF IpcInv, IpcTypes, AtHand
<1>4. Addressed'
  BY <1>1, <1>2 DEF IpcInv, Addressed
<1>5. \A d \in Clients : answer'[d] = answer[d] \/ answer'[d] = <<>>
  BY <1>2 DEF IpcInv, IpcTypes
<1>6. OwnAnswer'
  BY <1>2, <1>5 DEF IpcInv, OwnAnswer
<1> QED
  BY <1>3, <1>4, <1>6 DEF IpcInv

\* Nobody reads the answer to another's question, whatever the services, their
\* ends and their failures: as long as no question overtakes the msgctl() of
\* another and no client is killed.
THEOREM AnswersOwn == Spec => []OwnAnswer
<1>1. IpcInv /\ [Next]_vars => IpcInv'
  <2> SUFFICES ASSUME IpcInv, [Next]_vars PROVE IpcInv'
    OBVIOUS
  <2>1. CASE Main /\ UNCHANGED ipcvars
    <3>1. pc' \notin {"stat", "answer"}
      BY <2>1 DEF Main, Gen, GenRoot, GenEntry, GenWants, GenReturn, GenFails, Exec,
                  Changed, ChangedDone, HandlePending, Down
    <3> QED
      BY <2>1, <3>1, CoreKeepsIpc
  <2>2. CASE DoReboot /\ UNCHANGED ipcvars
    BY <2>2, CoreKeepsIpc DEF DoReboot
  <2>3. CASE UNCHANGED vars
    BY <2>3, CoreKeepsIpc DEF vars, cvars
  <2> QED
    BY <2>1, <2>2, <2>3, ReceiveStep, StatStep, AnswerStep, ChildDiesStep, SendStep,
       ReadStep, LeaveStep DEF Next, Step
<1>2. IpcInv => OwnAnswer
  BY DEF IpcInv
<1> QED
  BY <1>1, <1>2, IpcStart, PTL DEF Spec

-----------------------------------------------------------------------------
(* The tree, and the starts: while gen_svc_tree() reads the directories,   *)
(* each of its calls knows which entries it has entered, and a service     *)
(* that no call is for has them all; what svc_tree_exec() starts has what  *)
(* it needs behind it.                                                     *)

Kinds == {"needs", "wants"}
Back(k) == IF k = "needs" THEN "needed_by" ELSE "wanted_by"

TreeTypes ==
  /\ conf \in Confs
  /\ svc_list \in Seq(Svcs)
  /\ dep \in [Lists -> [Svcs -> Seq(Svcs)]]
  /\ status \in [Svcs -> SUBSET Bits]
  /\ begun \in [Svcs -> Nat]
  /\ pending \in Seq(Svcs)

FrameType == [svc : Svcs, type : Kinds, left : SUBSET Link, wait : SUBSET Link]

\* Every service is created once.
Once == IsInjective(svc_list)

\* A service is told of each that depends on it, as often as it is entered.
Mirrored ==
  /\ \A k \in Kinds, s, t \in Svcs : Times(dep[k][s], t) = Times(dep[Back(k)][t], s)
  /\ \A k \in Kinds, s, t \in Svcs : t \in ToSet(dep[k][s]) <=> s \in ToSet(dep[Back(k)][t])
  /\ \A k \in Kinds, s, t \in Svcs : t \in ToSet(dep[k][s]) => Known(s) /\ Known(t)

\* What is in the list is to be started, and is there once.
PendingOnce ==
  /\ IsInjective(pending)
  /\ \A s \in ToSet(pending) : Known(s) /\ Virgin(s, status) /\ "IN_LIST" \in status[s]

\* The links of the kind that a call of gen_svc_tree() has not entered yet.
ToCome(f, k) ==
  IF k = f.type THEN f.left \cup f.wait ELSE IF k = "wants" THEN conf.wants[f.svc] ELSE {}

\* The service of the call has an entry for each link but those to come.
Reads(f) ==
  \A k \in Kinds : /\ ToCome(f, k) \subseteq conf[k][f.svc]
                   /\ Holds(dep[k][f.svc], conf[k][f.svc] \ ToCome(f, k))

\* The call waits for the one that was made for s.
Waits(f, s) == \E l \in Link : f.wait = {l} /\ l.to = s

\* Each call of gen_svc_tree() waits for the one above it, is for another service,
\* and has not entered that in the list.
Frames ==
  /\ stack \in Seq(FrameType)
  /\ \A i \in DOMAIN stack :
       /\ IF i = 1 THEN stack[i].wait = {} ELSE Waits(stack[i], stack[i - 1].svc)
       /\ stack[i].left \cap stack[i].wait = {}
       /\ \A j \in DOMAIN stack : stack[i].svc = stack[j].svc => i = j
       /\ Known(stack[i].svc)
       /\ "IN_LIST" \notin status[stack[i].svc]
       /\ Reads(stack[i])

\* The others have all their entries.
Entered ==
  \A s \in Svcs : Known(s) /\ (\A i \in DOMAIN stack : stack[i].svc # s) =>
    \A k \in Kinds : Holds(dep[k][s], conf[k][s])

\* Only what the root depends on is read; it is the first.
RootFirst ==
  /\ \A s \in Svcs : Known(s) => s \in Reached
  /\ svc_list # <<>> => Known(Root)

\* The state of gen_svc_tree().
TreeInv ==
  /\ TreeTypes /\ Once /\ Mirrored /\ PendingOnce /\ Frames /\ Entered /\ RootFirst
  /\ \A s \in Svcs : begun[s] = 0 /\ (Known(s) => Virgin(s, status))

\* A service that has not begun is to be started, or will not be.
Begun ==
  \A s \in Svcs : /\ begun[s] > 0 => Known(s) /\ ~Virgin(s, status)
                  /\ Known(s) /\ begun[s] = 0 =>
                       \/ Virgin(s, status)
                       \/ status[s] \cap {"NEED_FAILD", "BAD_ERR"} # {}

\* The state of svc_tree_exec().
ExecInv ==
  /\ TreeTypes /\ Once /\ Mirrored /\ PendingOnce /\ RootFirst /\ Begun /\ NeedsFirst
  /\ svc_list # <<>> /\ pending # <<>> /\ stack = <<>>
  /\ \A s \in Svcs : Known(s) => \A k \in Kinds : Holds(dep[k][s], conf[k][s])

StartInv ==
  /\ pc = "tree" => TreeInv
  /\ pc = "exec" => ExecInv

-----------------------------------------------------------------------------
(* Sequences                                                               *)

LEMMA AppendFacts ==
  ASSUME NEW S, NEW s \in Seq(S), NEW e \in S
  PROVE  /\ Append(s, e) \in Seq(S)
         /\ ToSet(Append(s, e)) = ToSet(s) \cup {e}
         /\ IsInjective(s) /\ e \notin ToSet(s) => IsInjective(Append(s, e))
<1> DEFINE t == Append(s, e)
           n == Len(s)
<1>1. /\ t \in Seq(S) /\ Len(t) = n + 1 /\ n \in Nat
      /\ DOMAIN s = 1 .. n /\ DOMAIN t = 1 .. n + 1
      /\ \A i \in 1 .. n : t[i] = s[i]
      /\ t[n + 1] = e
  OBVIOUS
<1> HIDE DEF t, n
<1>2. \A i \in 1 .. n + 1 : i \in 1 .. n \/ i = n + 1
  BY <1>1
<1>3. n + 1 \in 1 .. n + 1 /\ \A i \in 1 .. n : i \in 1 .. n + 1
  BY <1>1
<1>4. ToSet(t) = ToSet(s) \cup {e}
  BY <1>1, <1>2, <1>3 DEF ToSet
<1>5. ASSUME IsInjective(s), e \notin ToSet(s)
      PROVE  IsInjective(t)
  <2>1. \A i \in 1 .. n : s[i] # e
    BY <1>1, <1>5 DEF ToSet
  <2>2. \A i, j \in 1 .. n : s[i] = s[j] => i = j
    BY <1>1, <1>5 DEF IsInjective
  <2> QED
    BY <1>1, <1>2, <2>1, <2>2 DEF IsInjective
<1> QED
  BY <1>1, <1>4, <1>5 DEF t

LEMMA TailFacts ==
  ASSUME NEW S, NEW s \in Seq(S), s # <<>>
  PROVE  /\ Head(s) \in S /\ Head(s) \in ToSet(s)
         /\ Tail(s) \in Seq(S)
         /\ ToSet(Tail(s)) \subseteq ToSet(s)
         /\ IsInjective(s) => IsInjective(Tail(s)) /\ Head(s) \notin ToSet(Tail(s))
<1> DEFINE t == Tail(s)
           n == Len(s)
<1>1. /\ t \in Seq(S) /\ Len(t) = n - 1 /\ n \in Nat /\ n >= 1
      /\ DOMAIN s = 1 .. n /\ DOMAIN t = 1 .. n - 1
      /\ \A i \in 1 .. n - 1 : t[i] = s[i + 1]
      /\ Head(s) = s[1] /\ s[1] \in S
  OBVIOUS
<1> HIDE DEF t, n
<1>2. 1 \in 1 .. n /\ \A i \in 1 .. n - 1 : i + 1 \in 1 .. n /\ i + 1 # 1
  BY <1>1
<1>3. ToSet(t) \subseteq ToSet(s)
  BY <1>1, <1>2 DEF ToSet
<1>4. ASSUME IsInjective(s)
      PROVE  IsInjective(t) /\ s[1] \notin ToSet(t)
  <2>1. \A i, j \in 1 .. n : s[i] = s[j] => i = j
    BY <1>1, <1>4 DEF IsInjective
  <2>2. \A i, j \in 1 .. n - 1 : t[i] = t[j] => i = j
    <3> TAKE i, j \in 1 .. n - 1
    <3> HAVE t[i] = t[j]
    <3>1. i + 1 = j + 1
      BY <1>1, <1>2, <2>1
    <3> QED
      BY <1>1, <3>1
  <2>3. \A i \in 1 .. n - 1 : t[i] # s[1]
    BY <1>1, <1>2, <2>1
  <2> QED
    BY <1>1, <2>2, <2>3 DEF IsInjective, ToSet
<1> QED
  BY <1>1, <1>2, <1>3, <1>4 DEF t, ToSet

LEMMA ConcatFacts ==
  ASSUME NEW S, NEW s \in Seq(S), NEW t \in Seq(S)
  PROVE  /\ s \o t \in Seq(S)
         /\ ToSet(s \o t) = ToSet(s) \cup ToSet(t)
         /\ IsInjective(s) /\ IsInjective(t) /\ ToSet(s) \cap ToSet(t) = {}
              => IsInjective(s \o t)
<1> DEFINE u == s \o t
           m == Len(s)
           n == Len(t)
<1>1. /\ u \in Seq(S) /\ Len(u) = m + n /\ m \in Nat /\ n \in Nat
      /\ DOMAIN s = 1 .. m /\ DOMAIN t = 1 .. n /\ DOMAIN u = 1 .. m + n
      /\ \A i \in 1 .. m + n : u[i] = IF i <= m THEN s[i] ELSE t[i - m]
  <2>1. /\ u \in Seq(S) /\ Len(u) = m + n
        /\ \A i \in 1 .. m + n : u[i] = IF i <= m THEN s[i] ELSE t[i - m]
    BY ConcatProperties
  <2> QED
    BY <2>1
<1> HIDE DEF u, m, n
<1>2. \A i \in 1 .. m : i \in 1 .. m + n /\ u[i] = s[i]
  BY <1>1
<1>3. ASSUME NEW i \in 1 .. n
      PROVE  m + i \in 1 .. m + n /\ u[m + i] = t[i]
  <2>1. m + i \in 1 .. m + n /\ ~(m + i <= m) /\ (m + i) - m = i
    BY <1>1
  <2> QED
    BY <1>1, <2>1
<1>4. ASSUME NEW i \in 1 .. m + n
      PROVE  i \in 1 .. m \/ \E j \in 1 .. n : i = m + j
  <2>1. CASE i <= m
    BY <1>1, <2>1
  <2>2. CASE i > m
    <3>1. i - m \in 1 .. n /\ i = m + (i - m)
      BY <1>1, <2>2
    <3> QED
      BY <3>1
  <2> QED
    BY <1>1, <2>1, <2>2
<1>5. ToSet(u) = ToSet(s) \cup ToSet(t)
  <2>1. ASSUME NEW x \in ToSet(u) PROVE x \in ToSet(s) \cup ToSet(t)
    <3>1. PICK i \in 1 .. m + n : x = u[i]
      BY <1>1 DEF ToSet
    <3> QED
      BY <1>1, <1>2, <1>3, <1>4, <3>1 DEF ToSet
  <2>2. ToSet(s) \subseteq ToSet(u)
    BY <1>1, <1>2 DEF ToSet
  <2>3. ASSUME NEW x \in ToSet(t) PROVE x \in ToSet(u)
    <3>1. PICK i \in 1 .. n : x = t[i]
      BY <1>1 DEF ToSet
    <3> QED
      BY <1>1, <1>3, <3>1 DEF ToSet
  <2> QED
    BY <2>1, <2>2, <2>3
<1>6. ASSUME IsInjective(s), IsInjective(t), ToSet(s) \cap ToSet(t) = {}
      PROVE  IsInjective(u)
  <2>1. /\ \A i, j \in 1 .. m : s[i] = s[j] => i = j
        /\ \A i, j \in 1 .. n : t[i] = t[j] => i = j
    BY <1>1, <1>6 DEF IsInjective
  <2>3. \A i \in 1 .. m, j \in 1 .. n : s[i] # t[j]
    <3> SUFFICES ASSUME NEW i \in 1 .. m, NEW j \in 1 .. n PROVE s[i] # t[j]
      OBVIOUS
    <3>1. s[i] \in ToSet(s) /\ t[j] \in ToSet(t)
      BY <1>1 DEF ToSet
    <3> QED
      BY <1>6, <3>1
  <2>2. \A i, j \in 1 .. m + n : u[i] = u[j] => i = j
    BY <1>2, <1>3, <1>4, <2>1, <2>3
  <2> QED
    BY <1>1, <2>2 DEF IsInjective
<1> QED
  BY <1>1, <1>5, <1>6 DEF u

\* What is taken from a list.
LEMMA TakenFacts ==
  ASSUME NEW S, NEW s \in Seq(S), NEW is \in SUBSET DOMAIN s, NEW new \in Taken(s, is),
         \A i, j \in is : s[i] = s[j] => i = j
  PROVE  /\ new \in Seq(S) /\ IsInjective(new)
         /\ \A x \in ToSet(new) : \E i \in is : x = s[i]
<1> DEFINE n == Cardinality(is)
<1>1. DOMAIN s = 1 .. Len(s) /\ Len(s) \in Nat /\ \A i \in DOMAIN s : s[i] \in S
  OBVIOUS
<1>2. n \in Nat
  <2>1. IsFiniteSet(1 .. Len(s))
    BY <1>1, FS_Interval
  <2>2. IsFiniteSet(is)
    BY <1>1, <2>1, FS_Subset
  <2> QED
    BY <2>2, FS_CardinalityType
<1>3. PICK g \in [1 .. n -> is] : /\ \A i, j \in 1 .. n : i < j => g[i] < g[j]
                                  /\ new = [i \in DOMAIN g |-> s[g[i]]]
  BY DEF Taken
<1> HIDE DEF n
<1>4. \A i \in 1 .. n : g[i] \in is /\ g[i] \in Nat /\ new[i] = s[g[i]]
  BY <1>1, <1>3
<1>5. new \in [1 .. n -> S] /\ DOMAIN new = 1 .. n
  BY <1>1, <1>3, <1>4
<1>6. new \in Seq(S)
  BY <1>2, <1>5
<1>7. \A i, j \in 1 .. n : new[i] = new[j] => i = j
  <2> SUFFICES ASSUME NEW i \in 1 .. n, NEW j \in 1 .. n, new[i] = new[j]
               PROVE  i = j
    OBVIOUS
  <2>1. g[i] = g[j]
    BY <1>4
  <2>2. g[i] < g[j] \/ g[j] < g[i] \/ i = j
    BY <1>2, <1>3
  <2> QED
    BY <1>4, <2>1, <2>2
<1> QED
  BY <1>4, <1>5, <1>6, <1>7 DEF IsInjective, ToSet

\* How often something is in a list.
LEMMA TimesFacts ==
  ASSUME NEW S, NEW s \in Seq(S), NEW d
  PROVE  Times(s, d) \in Nat /\ (Times(s, d) # 0 <=> d \in ToSet(s))
<1> DEFINE at == {i \in DOMAIN s : s[i] = d}
<1>1. DOMAIN s = 1 .. Len(s) /\ Len(s) \in Nat
  OBVIOUS
<1>2. IsFiniteSet(at)
  <2>1. IsFiniteSet(1 .. Len(s)) /\ at \in SUBSET (1 .. Len(s))
    BY <1>1, FS_Interval
  <2> QED
    BY <2>1, FS_Subset
<1>3. at = {} <=> d \notin ToSet(s)
  BY DEF ToSet
<1> HIDE DEF at
<1>4. Cardinality(at) \in Nat /\ (Cardinality(at) = 0 <=> at = {})
  BY <1>2, FS_CardinalityType, FS_EmptySet
<1> QED
  BY <1>3, <1>4 DEF Times, at

LEMMA TimesAppend ==
  ASSUME NEW S, NEW s \in Seq(S), NEW e \in S, NEW d
  PROVE  Times(Append(s, e), d) = IF d = e THEN Times(s, d) + 1 ELSE Times(s, d)
<1> DEFINE t == Append(s, e)
           n == Len(s)
           at == {i \in 1 .. n : s[i] = d}
<1>1. /\ n \in Nat /\ DOMAIN s = 1 .. n /\ DOMAIN t = 1 .. n + 1
      /\ \A i \in 1 .. n : t[i] = s[i]
      /\ t[n + 1] = e
  OBVIOUS
<1> HIDE DEF t, n
<1>2. IsFiniteSet(at) /\ n + 1 \notin at
  <2>1. IsFiniteSet(1 .. n) /\ at \in SUBSET (1 .. n) /\ n + 1 \notin 1 .. n
    BY <1>1, FS_Interval
  <2> QED
    BY <2>1, FS_Subset
<1>3. {i \in 1 .. n + 1 : t[i] = d} = IF d = e THEN at \cup {n + 1} ELSE at
  <2>1. \A i : i \in 1 .. n + 1 <=> i \in 1 .. n \/ i = n + 1
    BY <1>1
  <2> QED
    BY <1>1, <2>1
<1>4. Cardinality(at \cup {n + 1}) = Cardinality(at) + 1
  BY <1>2, FS_AddElement
<1>5. Times(s, d) = Cardinality(at) /\ Times(t, d) = Cardinality({i \in 1 .. n + 1 : t[i] = d})
  BY <1>1 DEF Times
<1> QED
  BY <1>3, <1>4, <1>5 DEF t

\* A list that has an entry for each of the links.
LEMMA HoldsFacts ==
  ASSUME NEW list \in Seq(Svcs), NEW links \in SUBSET Link, IsFiniteSet(links),
         Holds(list, links)
  PROVE  ToSet(list) = To(links)
<1>1. ASSUME NEW d \in Svcs
      PROVE  d \in ToSet(list) <=> d \in To(links)
  <2> DEFINE at == {l \in links : l.to = d}
  <2>1. IsFiniteSet(at)
    BY FS_Subset
  <2>2. at = {} <=> d \notin To(links)
    BY DEF To
  <2>3. Times(list, d) = Cardinality(at)
    BY DEF Holds
  <2> HIDE DEF at
  <2>4. Cardinality(at) = 0 <=> at = {}
    BY <2>1, FS_EmptySet
  <2> QED
    BY <2>2, <2>3, <2>4, TimesFacts
<1>2. ToSet(list) \subseteq Svcs
  BY DEF ToSet
<1>3. To(links) \subseteq Svcs
  BY DEF To, Link
<1> QED
  BY <1>1, <1>2, <1>3

LEMMA HoldsNone == Holds(<<>>, {})
<1>1. \A d : {i \in DOMAIN <<>> : <<>>[i] = d} = {} /\ {l \in {} : l.to = d} = {}
  OBVIOUS
<1> QED
  BY <1>1 DEF Holds, Times

LEMMA HoldsMore ==
  ASSUME NEW list \in Seq(Svcs), NEW links \in SUBSET Link, IsFiniteSet(links),
         NEW l \in Link, l \notin links, Holds(list, links)
  PROVE  Holds(Append(list, l.to), links \cup {l})
<1>1. l.to \in Svcs
  BY DEF Link
<1>2. SUFFICES ASSUME NEW d \in Svcs
               PROVE  Times(Append(list, l.to), d)
                        = Cardinality({m \in links \cup {l} : m.to = d})
  BY DEF Holds
<1> DEFINE at == {m \in links : m.to = d}
<1>3. IsFiniteSet(at) /\ l \notin at
  BY FS_Subset
<1>4. {m \in links \cup {l} : m.to = d} = IF d = l.to THEN at \cup {l} ELSE at
  OBVIOUS
<1>5. Times(list, d) = Cardinality(at)
  BY DEF Holds
<1> HIDE DEF at
<1>6. Cardinality(at \cup {l}) = Cardinality(at) + 1
  BY <1>3, FS_AddElement
<1> DEFINE e == l.to
<1>7. e \in Svcs
  BY <1>1
<1> HIDE DEF e
<1>8. Times(Append(list, e), d) = IF d = e THEN Times(list, d) + 1 ELSE Times(list, d)
  BY <1>7, TimesAppend
<1> QED
  BY <1>4, <1>5, <1>6, <1>8 DEF e

\* What becomes of the stack.
LEMMA TopFacts ==
  ASSUME NEW S, NEW s \in Seq(S), s # <<>>, NEW f \in S
  PROVE  /\ <<f>> \o Tail(s) \in Seq(S)
         /\ DOMAIN (<<f>> \o Tail(s)) = DOMAIN s
         /\ (<<f>> \o Tail(s))[1] = f
         /\ \A i \in DOMAIN s : i # 1 => (<<f>> \o Tail(s))[i] = s[i]
<1> DEFINE t == Tail(s)
           n == Len(s)
<1>1. /\ t \in Seq(S) /\ Len(t) = n - 1 /\ n \in Nat /\ n >= 1 /\ DOMAIN s = 1 .. n
      /\ \A i \in 1 .. n - 1 : t[i] = s[i + 1]
  OBVIOUS
<1>2. <<f>> \in Seq(S) /\ Len(<<f>>) = 1 /\ <<f>>[1] = f
  OBVIOUS
<1> HIDE DEF t, n
<1>3. /\ <<f>> \o t \in Seq(S) /\ Len(<<f>> \o t) = n
      /\ \A i \in 1 .. n : (<<f>> \o t)[i] = IF i <= 1 THEN <<f>>[i] ELSE t[i - 1]
  <2>1. Len(<<f>>) + Len(t) = n
    BY <1>1, <1>2
  <2> QED
    BY <1>1, <1>2, <2>1, ConcatProperties
<1>4. DOMAIN (<<f>> \o t) = 1 .. n
  BY <1>1, <1>3
<1>5. \A i \in 1 .. n : i # 1 => (<<f>> \o t)[i] = s[i]
  <2> SUFFICES ASSUME NEW i \in 1 .. n, i # 1 PROVE (<<f>> \o t)[i] = s[i]
    OBVIOUS
  <2>1. i - 1 \in 1 .. n - 1 /\ (i - 1) + 1 = i /\ ~(i <= 1)
    BY <1>1
  <2> QED
    BY <1>1, <1>3, <2>1
<1> QED
  BY <1>1, <1>2, <1>3, <1>4, <1>5 DEF t

LEMMA PushFacts ==
  ASSUME NEW S, NEW s \in Seq(S), s # <<>>, NEW f \in S, NEW g \in S
  PROVE  /\ <<g, f>> \o Tail(s) \in Seq(S)
         /\ DOMAIN (<<g, f>> \o Tail(s)) = 1 .. Len(s) + 1
         /\ (<<g, f>> \o Tail(s))[1] = g /\ (<<g, f>> \o Tail(s))[2] = f
         /\ \A i \in 3 .. Len(s) + 1 : (<<g, f>> \o Tail(s))[i] = s[i - 1]
<1> DEFINE t == Tail(s)
           n == Len(s)
           u == <<g, f>>
<1>1. /\ t \in Seq(S) /\ Len(t) = n - 1 /\ n \in Nat /\ n >= 1 /\ DOMAIN s = 1 .. n
      /\ \A i \in 1 .. n - 1 : t[i] = s[i + 1]
  OBVIOUS
<1>2. u \in Seq(S) /\ Len(u) = 2 /\ u[1] = g /\ u[2] = f
  OBVIOUS
<1> HIDE DEF t, n, u
<1>3. /\ u \o t \in Seq(S) /\ Len(u \o t) = n + 1
      /\ \A i \in 1 .. n + 1 : (u \o t)[i] = IF i <= 2 THEN u[i] ELSE t[i - 2]
  <2>1. Len(u) + Len(t) = n + 1
    BY <1>1, <1>2
  <2>2. /\ u \o t \in Seq(S) /\ Len(u \o t) = Len(u) + Len(t)
        /\ \A i \in 1 .. Len(u) + Len(t) : (u \o t)[i] = IF i <= Len(u) THEN u[i]
                                                      ELSE t[i - Len(u)]
    BY <1>1, <1>2, ConcatProperties
  <2> QED
    BY <1>2, <2>1, <2>2
<1>4. DOMAIN (u \o t) = 1 .. n + 1 /\ 1 \in 1 .. n + 1 /\ 2 \in 1 .. n + 1
  BY <1>1, <1>3
<1>5. \A i \in 3 .. n + 1 : (u \o t)[i] = s[i - 1]
  <2> SUFFICES ASSUME NEW i \in 3 .. n + 1 PROVE (u \o t)[i] = s[i - 1]
    OBVIOUS
  <2>1. i \in 1 .. n + 1 /\ i - 2 \in 1 .. n - 1 /\ (i - 2) + 1 = i - 1 /\ ~(i <= 2)
    BY <1>1
  <2> QED
    BY <1>1, <1>3, <2>1
<1> QED
  BY <1>2, <1>3, <1>4, <1>5 DEF t, n, u

LEMMA PopFacts ==
  ASSUME NEW S, NEW s \in Seq(S), Len(s) >= 2, NEW f \in S
  PROVE  /\ <<f>> \o SubSeq(s, 3, Len(s)) \in Seq(S)
         /\ DOMAIN (<<f>> \o SubSeq(s, 3, Len(s))) = 1 .. Len(s) - 1
         /\ (<<f>> \o SubSeq(s, 3, Len(s)))[1] = f
         /\ \A i \in 2 .. Len(s) - 1 : (<<f>> \o SubSeq(s, 3, Len(s)))[i] = s[i + 1]
<1> DEFINE n == Len(s)
           t == SubSeq(s, 3, n)
           u == <<f>>
<1>1. n \in Nat /\ n >= 2 /\ \A i \in 1 .. n : s[i] \in S
  OBVIOUS
<1>2. u \in Seq(S) /\ Len(u) = 1 /\ u[1] = f
  OBVIOUS
<1> HIDE DEF n, u
<1>3. t \in Seq(S) /\ Len(t) = n - 2 /\ \A i \in 1 .. n - 2 : t[i] = s[i + 2]
  <2>1. \A i \in 3 .. n : s[i] \in S
    BY <1>1
  <2>2. /\ t \in Seq(S) /\ Len(t) = IF 3 <= n THEN n - 3 + 1 ELSE 0
        /\ \A i \in 1 .. n - 3 + 1 : t[i] = s[3 + i - 1]
    BY <1>1, <2>1, SubSeqProperties
  <2> HIDE DEF t
  <2>3. /\ (IF 3 <= n THEN n - 3 + 1 ELSE 0) = n - 2
        /\ \A i \in 1 .. n - 2 : i \in 1 .. n - 3 + 1 /\ 3 + i - 1 = i + 2
    BY <1>1
  <2> QED
    BY <2>2, <2>3
<1> HIDE DEF t
<1>4. /\ u \o t \in Seq(S) /\ Len(u \o t) = n - 1
      /\ \A i \in 1 .. n - 1 : (u \o t)[i] = IF i <= 1 THEN u[i] ELSE t[i - 1]
  <2>1. Len(u) + Len(t) = n - 1
    BY <1>1, <1>2, <1>3
  <2>2. /\ u \o t \in Seq(S) /\ Len(u \o t) = Len(u) + Len(t)
        /\ \A i \in 1 .. Len(u) + Len(t) : (u \o t)[i] = IF i <= Len(u) THEN u[i]
                                                      ELSE t[i - Len(u)]
    BY <1>2, <1>3, ConcatProperties
  <2> QED
    BY <1>2, <2>1, <2>2
<1>5. DOMAIN (u \o t) = 1 .. n - 1 /\ 1 \in 1 .. n - 1
  BY <1>1, <1>4
<1>6. \A i \in 2 .. n - 1 : (u \o t)[i] = s[i + 1]
  <2> SUFFICES ASSUME NEW i \in 2 .. n - 1 PROVE (u \o t)[i] = s[i + 1]
    OBVIOUS
  <2>1. i \in 1 .. n - 1 /\ i - 1 \in 1 .. n - 2 /\ (i - 1) + 2 = i + 1 /\ ~(i <= 1)
    BY <1>1
  <2> QED
    BY <1>3, <1>4, <2>1
<1> QED
  BY <1>2, <1>4, <1>5, <1>6 DEF t, n, u

-----------------------------------------------------------------------------
(* gen_svc_tree()                                                          *)

LEMMA ListFacts ==
  ASSUME TreeTypes
  PROVE  /\ \A l \in Lists, s \in Svcs : dep[l][s] \in Seq(Svcs) /\ ToSet(dep[l][s]) \subseteq Svcs
         /\ \A s : Known(s) => s \in Svcs
         /\ \A k \in Kinds, s \in Svcs : /\ conf[k][s] \subseteq Link /\ IsFiniteSet(conf[k][s])
                                         /\ To(conf[k][s]) \subseteq Svcs
         /\ \A k \in Kinds : k \in Lists /\ Back(k) \in Lists
         /\ \A s \in ToSet(pending) : s \in Svcs
<1>1. \A s \in Seq(Svcs) : ToSet(s) \subseteq Svcs
  BY DEF ToSet
<1>2. conf["needs"] \in [Svcs -> SUBSET Link] /\ conf["wants"] \in [Svcs -> SUBSET Link]
  <2>1. conf \in Conf
    BY CinitAssumption DEF TreeTypes
  <2>2. Dir \subseteq SUBSET Link
    BY DEF Dir
  <2>3. conf["needs"] \in [Svcs -> Dir] /\ conf["wants"] \in [Svcs -> Dir]
    BY <2>1 DEF Conf
  <2> QED
    BY <2>2, <2>3
<1>3. \A s \in Svcs : IsFiniteSet(conf["needs"][s]) /\ IsFiniteSet(conf["wants"][s])
  BY CinitAssumption DEF TreeTypes
<1>4. \A links \in SUBSET Link : To(links) \subseteq Svcs
  BY DEF To, Link
<1>5. \A k \in Kinds, s \in Svcs : /\ conf[k][s] \subseteq Link /\ IsFiniteSet(conf[k][s])
                                  /\ To(conf[k][s]) \subseteq Svcs
  BY <1>2, <1>3, <1>4 DEF Kinds
<1> QED
  BY <1>1, <1>5 DEF TreeTypes, Known, Kinds, Back, Lists

\* check_add_deps() enters the other among the dependencies and the service among
\* the dependents, and nowhere else.
LEMMA EnterFacts ==
  ASSUME TreeTypes, Mirrored, NEW k \in Kinds, NEW s \in Svcs, NEW t \in Svcs,
         Known(s), Known(t),
         dep' = DepAdded(s, t, k), svc_list' = svc_list
  PROVE  /\ dep' \in [Lists -> [Svcs -> Seq(Svcs)]]
         /\ Mirrored'
         /\ dep'[k][s] = Append(dep[k][s], t)
         /\ \A c \in Kinds, u \in Svcs : c # k \/ u # s => dep'[c][u] = dep[c][u]
<1>1. /\ k \in Lists /\ Back(k) \in Lists /\ Back(k) # k
      /\ \A c \in Kinds : Back(c) \notin Kinds
      /\ \A c \in Kinds : Back(c) = Back(k) => c = k
      /\ \A l \in Lists : l \in Kinds \/ \E c \in Kinds : l = Back(c)
  BY DEF Lists, Kinds, Back
<1>2. dep' = [dep EXCEPT ![k][s] = Append(@, t), ![Back(k)][t] = Append(@, s)]
  BY DEF DepAdded, Back
<1>3. dep \in [Lists -> [Svcs -> Seq(Svcs)]]
  BY DEF TreeTypes
<1>4. \A l \in Lists, u \in Svcs :
        dep'[l][u] = IF l = k /\ u = s THEN Append(dep[l][u], t)
                     ELSE IF l = Back(k) /\ u = t THEN Append(dep[l][u], s)
                     ELSE dep[l][u]
  <2>1. /\ DOMAIN dep' = Lists
        /\ dep'[k] = [dep[k] EXCEPT ![s] = Append(dep[k][s], t)]
        /\ dep'[Back(k)] = [dep[Back(k)] EXCEPT ![t] = Append(dep[Back(k)][t], s)]
        /\ \A l \in Lists : l # k /\ l # Back(k) => dep'[l] = dep[l]
    BY <1>1, <1>2, <1>3
  <2>2. \A l \in Lists : dep[l] \in [Svcs -> Seq(Svcs)]
    BY <1>3
  <2>3. \A u \in Svcs : dep'[k][u] = IF u = s THEN Append(dep[k][u], t) ELSE dep[k][u]
    BY <1>1, <2>1, <2>2
  <2>4. \A u \in Svcs : dep'[Back(k)][u] = IF u = t THEN Append(dep[Back(k)][u], s)
                                           ELSE dep[Back(k)][u]
    BY <1>1, <2>1, <2>2
  <2>5. \A l \in Lists, u \in Svcs : l # k /\ l # Back(k) => dep'[l][u] = dep[l][u]
    BY <2>1
  <2> QED
    BY <1>1, <2>3, <2>4, <2>5
<1>5. \A l \in Lists, u \in Svcs : dep[l][u] \in Seq(Svcs)
  BY <1>3
<1>6. dep' \in [Lists -> [Svcs -> Seq(Svcs)]]
  <2>1. /\ Append(dep[k][s], t) \in Seq(Svcs)
        /\ Append(dep[Back(k)][t], s) \in Seq(Svcs)
    BY <1>1, <1>5, AppendFacts
  <2>2. \A l \in Lists : dep[l] \in [Svcs -> Seq(Svcs)]
    BY <1>3
  <2>3. /\ [dep[k] EXCEPT ![s] = Append(dep[k][s], t)] \in [Svcs -> Seq(Svcs)]
        /\ [dep[Back(k)] EXCEPT ![t] = Append(dep[Back(k)][t], s)] \in [Svcs -> Seq(Svcs)]
    BY <1>1, <2>1, <2>2
  <2> QED
    BY <1>1, <1>2, <1>3, <2>3
<1>7. /\ dep'[k][s] = Append(dep[k][s], t)
      /\ dep'[Back(k)][t] = Append(dep[Back(k)][t], s)
  BY <1>1, <1>4
<1>8. /\ ToSet(dep'[k][s]) = ToSet(dep[k][s]) \cup {t}
      /\ \A v : Times(dep'[k][s], v)
                 = IF v = t THEN Times(dep[k][s], v) + 1 ELSE Times(dep[k][s], v)
  BY <1>1, <1>5, <1>7, AppendFacts, TimesAppend
<1>9. /\ ToSet(dep'[Back(k)][t]) = ToSet(dep[Back(k)][t]) \cup {s}
      /\ \A v : Times(dep'[Back(k)][t], v)
                 = IF v = s THEN Times(dep[Back(k)][t], v) + 1 ELSE Times(dep[Back(k)][t], v)
  BY <1>1, <1>5, <1>7, AppendFacts, TimesAppend
<1>10. /\ \A c \in Kinds, u \in Svcs : c # k \/ u # s => dep'[c][u] = dep[c][u]
       /\ \A c \in Kinds, u \in Svcs : c # k \/ u # t => dep'[Back(c)][u] = dep[Back(c)][u]
  BY <1>1, <1>4 DEF Kinds, Lists, Back
<1>11. \A c \in Kinds, u, v \in Svcs : Times(dep'[c][u], v) = Times(dep'[Back(c)][v], u)
  <2> SUFFICES ASSUME NEW c \in Kinds, NEW u \in Svcs, NEW v \in Svcs
               PROVE  Times(dep'[c][u], v) = Times(dep'[Back(c)][v], u)
    OBVIOUS
  <2>1. Times(dep[c][u], v) = Times(dep[Back(c)][v], u)
    BY DEF Mirrored
  <2>2. Times(dep'[c][u], v) = IF c = k /\ u = s /\ v = t THEN Times(dep[c][u], v) + 1
                               ELSE Times(dep[c][u], v)
    BY <1>8, <1>10
  <2>3. Times(dep'[Back(c)][v], u) = IF c = k /\ u = s /\ v = t
                                     THEN Times(dep[Back(c)][v], u) + 1
                                     ELSE Times(dep[Back(c)][v], u)
    BY <1>9, <1>10
  <2> QED
    BY <2>1, <2>2, <2>3
<1>12. \A c \in Kinds, u, v \in Svcs :
         /\ v \in ToSet(dep'[c][u]) <=> v \in ToSet(dep[c][u]) \/ (c = k /\ u = s /\ v = t)
         /\ u \in ToSet(dep'[Back(c)][v]) <=>
              u \in ToSet(dep[Back(c)][v]) \/ (c = k /\ u = s /\ v = t)
  BY <1>8, <1>9, <1>10
<1>13. Mirrored'
  BY <1>11, <1>12 DEF Mirrored, Known
<1> QED
  BY <1>6, <1>7, <1>10, <1>13

\* A new service, before it is entered anywhere.
LEMMA CreateFacts ==
  ASSUME TreeInv, NEW d \in Svcs, ~Known(d), SvcCreate(d), d \in Reached,
         svc_list = <<>> => d = Root, UNCHANGED <<conf, dep, pending, begun>>
  PROVE  /\ TreeTypes' /\ Once' /\ Mirrored' /\ PendingOnce' /\ RootFirst'
         /\ \A s : Known(s)' <=> Known(s) \/ s = d
         /\ \A s \in Svcs : s # d => status'[s] = status[s]
         /\ "IN_LIST" \notin status'[d]
         /\ \A s \in Svcs : begun'[s] = 0 /\ (Known(s)' => Virgin(s, status'))
<1> DEFINE new == {IF d \in conf.respawn THEN "SH_RESPAWN" ELSE "SH_ONCE"}
<1>1. svc_list' = Append(svc_list, d) /\ status' = [status EXCEPT ![d] = new]
  BY DEF SvcCreate, ListInsert
<1>2. /\ new \subseteq Bits /\ "IN_LIST" \notin new
      /\ new \cap {"SH_ONCE", "SH_RESPAWN"} # {}
  BY DEF Bits
<1> HIDE DEF new
<1>3. /\ svc_list \in Seq(Svcs) /\ status \in [Svcs -> SUBSET Bits]
      /\ d \notin ToSet(svc_list) /\ IsInjective(svc_list)
  BY DEF TreeInv, TreeTypes, Known, Once
<1>4. /\ svc_list' \in Seq(Svcs)
      /\ ToSet(svc_list') = ToSet(svc_list) \cup {d}
      /\ IsInjective(svc_list')
  BY <1>1, <1>3, AppendFacts
<1>5. /\ status' \in [Svcs -> SUBSET Bits]
      /\ status'[d] = new
      /\ \A s \in Svcs : s # d => status'[s] = status[s]
  BY <1>1, <1>2, <1>3
<1>6. \A s : Known(s)' <=> Known(s) \/ s = d
  BY <1>4 DEF Known
<1>7. TreeTypes' /\ Once'
  BY <1>4, <1>5 DEF TreeInv, TreeTypes, Once
<1>8. Mirrored'
  BY <1>6 DEF TreeInv, Mirrored
<1>9. PendingOnce'
  <2>1. \A s \in ToSet(pending) : s \in Svcs /\ s # d /\ Known(s) /\ Virgin(s, status)
                                  /\ "IN_LIST" \in status[s]
    BY ListFacts DEF TreeInv, PendingOnce
  <2> QED
    BY <1>5, <1>6, <2>1 DEF TreeInv, PendingOnce, Virgin
<1>10. RootFirst'
  <2>1. Reached' = Reached
    BY DEF Reached
  <2>2. Known(Root)'
    BY <1>6 DEF TreeInv, RootFirst
  <2> QED
    BY <1>6, <2>1, <2>2 DEF TreeInv, RootFirst
<1>11. \A s \in Svcs : begun'[s] = 0 /\ (Known(s)' => Virgin(s, status'))
  BY <1>2, <1>5, <1>6 DEF TreeInv, Virgin
<1> QED
  BY <1>2, <1>5, <1>6, <1>7, <1>8, <1>9, <1>10, <1>11

\* The same after the step.
StillReads(f) ==
  \A k \in Kinds : /\ ToCome(f, k) \subseteq conf[k][f.svc]
                   /\ Holds(dep'[k][f.svc], conf[k][f.svc] \ ToCome(f, k))

LEMMA FrameFacts ==
  ASSUME Frames
  PROVE  /\ DOMAIN stack = 1 .. Len(stack) /\ Len(stack) \in Nat
         /\ stack # <<>> => Head(stack) = stack[1] /\ 1 \in DOMAIN stack
         /\ \A i \in DOMAIN stack : /\ stack[i] \in FrameType
                                    /\ stack[i].svc \in Svcs /\ stack[i].type \in Kinds
                                    /\ i # 1 => i - 1 \in DOMAIN stack
<1>1. stack \in Seq(FrameType)
  BY DEF Frames
<1>2. DOMAIN stack = 1 .. Len(stack) /\ Len(stack) \in Nat
  BY <1>1
<1>3. stack # <<>> => Head(stack) = stack[1] /\ 1 \in DOMAIN stack
  BY <1>1
<1>4. \A i \in DOMAIN stack : stack[i] \in FrameType
  BY <1>1
<1>5. \A f \in FrameType : f.svc \in Svcs /\ f.type \in Kinds
  BY DEF FrameType
<1> QED
  BY <1>2, <1>3, <1>4, <1>5

\* The topmost call has read an entry, or gone over to the other directory.
LEMMA TopStep ==
  ASSUME TreeInv, stack # <<>>, Head(stack).wait = {},
         NEW f \in FrameType, f.svc = Head(stack).svc, f.wait = {},
         stack' = <<f>> \o Tail(stack), UNCHANGED <<conf, svc_list, status>>,
         \A k \in Kinds, s \in Svcs : s # f.svc => dep'[k][s] = dep[k][s],
         StillReads(f)
  PROVE  Frames' /\ Entered'
<1>1. /\ stack' \in Seq(FrameType) /\ DOMAIN stack' = DOMAIN stack
      /\ stack'[1] = f /\ \A i \in DOMAIN stack : i # 1 => stack'[i] = stack[i]
  BY TopFacts DEF TreeInv, Frames
<1>2. Frames /\ Entered
  BY DEF TreeInv
<1>3. \A i \in DOMAIN stack : stack'[i].svc = stack[i].svc
  BY <1>1, <1>2, FrameFacts
<1>4. \A s : Known(s)' <=> Known(s)
  BY DEF Known
<1>5. ASSUME NEW i \in DOMAIN stack, i # 1
      PROVE  StillReads(stack[i])
  <2>1. Reads(stack[i]) /\ stack[i].svc # f.svc /\ stack[i].svc \in Svcs
    BY <1>2, <1>5, FrameFacts DEF Frames
  <2> QED
    BY <2>1 DEF Reads, StillReads
<1>6. ASSUME NEW i \in DOMAIN stack
      PROVE  Reads(stack[i])'
  <2>1. StillReads(stack'[i])
    BY <1>1, <1>5
  <2> QED
    BY <2>1 DEF Reads, StillReads, ToCome
<1>7. ASSUME NEW i \in DOMAIN stack
      PROVE  /\ IF i = 1 THEN stack'[i].wait = {} ELSE Waits(stack'[i], stack'[i - 1].svc)
             /\ stack'[i].left \cap stack'[i].wait = {}
             /\ \A j \in DOMAIN stack : stack'[i].svc = stack'[j].svc => i = j
             /\ Known(stack[i].svc)'
             /\ "IN_LIST" \notin status'[stack'[i].svc]
  <2>1. \A j \in DOMAIN stack : stack'[i].svc = stack'[j].svc => i = j
    BY <1>2, <1>3 DEF Frames
  <2>2. "IN_LIST" \notin status'[stack'[i].svc]
    BY <1>2, <1>3 DEF Frames
  <2>3. Known(stack[i].svc)'
    BY <1>2, <1>3 DEF Frames, Known
  <2>4. CASE i = 1
    BY <1>1, <2>1, <2>2, <2>3, <2>4
  <2>5. CASE i # 1
    <3>1. i - 1 \in DOMAIN stack
      BY <1>2, <2>5, FrameFacts
    <3>2. Waits(stack[i], stack[i - 1].svc) /\ stack[i].left \cap stack[i].wait = {}
      BY <1>2, <2>5 DEF Frames
    <3>3. stack'[i] = stack[i] /\ stack'[i - 1].svc = stack[i - 1].svc
      BY <1>1, <1>3, <2>5, <3>1
    <3> QED
      BY <2>1, <2>2, <2>3, <2>5, <3>2, <3>3
  <2> QED
    BY <2>4, <2>5
<1>8. Frames'
  BY <1>1, <1>6, <1>7 DEF Frames
<1>9. Entered'
  <2> SUFFICES ASSUME NEW s \in Svcs, Known(s), \A i \in DOMAIN stack : stack[i].svc # s,
                      NEW k \in Kinds
               PROVE  Holds(dep'[k][s], conf[k][s])
    BY <1>1, <1>3, <1>4 DEF Entered
  <2>1. s # f.svc
    BY <1>2, FrameFacts
  <2> QED
    BY <1>2, <2>1 DEF Entered
<1> QED
  BY <1>8, <1>9

\* A service that is not in the tree has no entries.
LEMMA NothingYet ==
  ASSUME TreeTypes, Mirrored, NEW d \in Svcs, ~Known(d), NEW k \in Kinds
  PROVE  dep[k][d] = <<>>
<1>1. dep[k][d] \in Seq(Svcs) /\ ToSet(dep[k][d]) \subseteq Svcs
  BY ListFacts
<1>2. ToSet(dep[k][d]) = {}
  BY <1>1 DEF Mirrored
<1> DEFINE list == dep[k][d]
<1>3. list \in Seq(Svcs) /\ ToSet(list) = {}
  BY <1>1, <1>2
<1> HIDE DEF list
<1>4. DOMAIN list = 1 .. Len(list) /\ Len(list) \in Nat
  BY <1>3
<1>5. Len(list) = 0
  <2>1. 1 \notin DOMAIN list
    BY <1>3 DEF ToSet
  <2> QED
    BY <1>4, <2>1
<1> QED
  BY <1>3, <1>5 DEF list

\* The topmost call has found a new service and calls gen_svc_tree() for it.
LEMMA PushStep ==
  ASSUME TreeInv, stack # <<>>, NEW d \in Svcs, ~Known(d), Head(stack).wait = {},
         NEW l \in Link, l.to = d, l \in Head(stack).left,
         NEW f \in FrameType, f.svc = Head(stack).svc, f.type = Head(stack).type,
         f.left = Head(stack).left \ {l}, f.wait = {l},
         stack' = <<Frame(d), f>> \o Tail(stack), UNCHANGED <<conf, dep>>,
         \A s : Known(s)' <=> Known(s) \/ s = d,
         \A s \in Svcs : s # d => status'[s] = status[s],
         "IN_LIST" \notin status'[d]
  PROVE  Frames' /\ Entered'
<1> DEFINE n == Len(stack)
<1>1. Frames /\ Entered /\ TreeTypes /\ Mirrored
  BY DEF TreeInv
<1>2. /\ DOMAIN stack = 1 .. n /\ n \in Nat /\ n >= 1
      /\ Head(stack) = stack[1] /\ 1 \in DOMAIN stack /\ stack[1] \in FrameType
  BY <1>1, FrameFacts
<1>3. /\ f.svc = stack[1].svc /\ f.type = stack[1].type
      /\ f.left = stack[1].left \ {l} /\ f.wait = {l}
  BY <1>2
<1>4. /\ Frame(d) \in FrameType /\ Frame(d).svc = d /\ Frame(d).wait = {}
      /\ Frame(d).type = "needs" /\ Frame(d).left = conf.needs[d]
  <2>1. conf["needs"][d] \subseteq Link
    BY <1>1, ListFacts DEF Kinds
  <2> QED
    BY <2>1 DEF Frame, FrameType, Kinds
<1>5. stack \in Seq(FrameType)
  BY <1>1 DEF Frames
<1>6. /\ stack' \in Seq(FrameType) /\ DOMAIN stack' = 1 .. n + 1
      /\ stack'[1] = Frame(d) /\ stack'[2] = f
      /\ \A i \in 3 .. n + 1 : stack'[i] = stack[i - 1]
  BY <1>3, <1>4, <1>5, PushFacts
<1> HIDE DEF n
<1>7. /\ \A i \in 2 .. n + 1 : i - 1 \in DOMAIN stack /\ stack'[i].svc = stack[i - 1].svc
      /\ \A i \in 1 .. n + 1 : i # 1 => i \in 2 .. n + 1
      /\ \A i \in 2 .. n + 1 : i # 2 => i \in 3 .. n + 1
  <2>1. ASSUME NEW i \in 2 .. n + 1 PROVE i - 1 \in DOMAIN stack
    BY <1>2
  <2>2. ASSUME NEW i \in 2 .. n + 1 PROVE stack'[i].svc = stack[i - 1].svc
    <3>1. CASE i = 2
      <4>1. stack'[2].svc = stack[1].svc
        BY <1>3, <1>6
      <4>2. 2 - 1 = 1
        OBVIOUS
      <4> QED
        BY <3>1, <4>1, <4>2
    <3>2. CASE i # 2
      <4>1. i \in 3 .. n + 1
        BY <1>2, <3>2
      <4> QED
        BY <1>6, <4>1
    <3> QED
      BY <3>1, <3>2
  <2> QED
    BY <1>2, <2>1, <2>2
<1>8. \A i \in DOMAIN stack : /\ stack[i].svc \in Svcs /\ Known(stack[i].svc)
                              /\ stack[i].svc # d
  <2>1. \A i \in DOMAIN stack : stack[i].svc \in Svcs
    BY <1>1, FrameFacts
  <2>2. \A i \in DOMAIN stack : Known(stack[i].svc)
    BY <1>1 DEF Frames
  <2> QED
    BY <2>1, <2>2
<1>9. \A k \in Kinds : dep[k][d] = <<>>
  BY <1>1, NothingYet
<1>10. ASSUME NEW i \in 1 .. n + 1
       PROVE  StillReads(stack'[i])
  <2>1. StillReads(Frame(d))
    <3> SUFFICES ASSUME NEW k \in Kinds
                 PROVE  ToCome(Frame(d), k) = conf[k][d]
      <4>1. \A k \in Kinds : conf[k][d] \ conf[k][d] = {} /\ dep'[k][d] = <<>>
        BY <1>9
      <4> QED
        BY <1>4, <4>1, HoldsNone DEF StillReads
    <3>1. CASE k = "needs"
      BY <1>4, <3>1 DEF ToCome
    <3>2. CASE k = "wants"
      BY <1>4, <3>2 DEF ToCome
    <3> QED
      BY <3>1, <3>2 DEF Kinds
  <2>2. \A j \in DOMAIN stack : StillReads(stack[j])
    <3>1. \A j \in DOMAIN stack : Reads(stack[j])
      BY <1>1 DEF Frames
    <3> QED
      BY <3>1 DEF Reads, StillReads
  <2>3. StillReads(f)
    <3>1. f.left \cup f.wait = stack[1].left \cup stack[1].wait
      BY <1>2, <1>3
    <3>2. \A k : ToCome(f, k) = ToCome(stack[1], k)
      BY <1>3, <3>1 DEF ToCome
    <3>3. StillReads(stack[1])
      BY <1>2, <2>2
    <3> QED
      BY <1>3, <3>2, <3>3 DEF StillReads
  <2>4. CASE i = 1
    BY <1>6, <2>1, <2>4
  <2>5. CASE i = 2
    BY <1>6, <2>3, <2>5
  <2>6. CASE i \in 3 .. n + 1
    <3>1. i - 1 \in DOMAIN stack
      BY <1>2, <2>6
    <3> QED
      BY <1>6, <2>2, <2>6, <3>1
  <2> QED
    BY <1>7, <2>4, <2>5, <2>6
<1>11. ASSUME NEW i \in 1 .. n + 1
       PROVE  Reads(stack[i])'
  <2>1. StillReads(stack'[i])
    BY <1>10
  <2> QED
    BY <2>1 DEF Reads, StillReads, ToCome
<1>12. ASSUME NEW i \in 1 .. n + 1
       PROVE  /\ IF i = 1 THEN stack'[i].wait = {} ELSE Waits(stack'[i], stack'[i - 1].svc)
              /\ stack'[i].left \cap stack'[i].wait = {}
  <2>1. CASE i = 1
    BY <1>4, <1>6, <2>1
  <2>2. CASE i = 2
    <3>1. Waits(stack'[2], stack'[1].svc) /\ stack'[2].left \cap stack'[2].wait = {}
      BY <1>3, <1>4, <1>6 DEF Waits
    <3>2. 2 - 1 = 1
      OBVIOUS
    <3> QED
      BY <2>2, <3>1, <3>2
  <2>3. CASE i \in 3 .. n + 1
    <3>1. /\ i - 1 \in DOMAIN stack /\ i - 1 # 1 /\ i - 1 \in 2 .. n + 1 /\ i # 1
      BY <1>2, <2>3
    <3>2. /\ Waits(stack[i - 1], stack[(i - 1) - 1].svc)
          /\ stack[i - 1].left \cap stack[i - 1].wait = {}
      BY <1>1, <3>1 DEF Frames
    <3>3. stack'[i - 1].svc = stack[(i - 1) - 1].svc
      BY <1>7, <3>1
    <3> QED
      BY <1>6, <2>3, <3>1, <3>2, <3>3
  <2> QED
    BY <1>7, <2>1, <2>2, <2>3
<1>13. ASSUME NEW i \in 1 .. n + 1
       PROVE  /\ \A j \in 1 .. n + 1 : stack'[i].svc = stack'[j].svc => i = j
              /\ Known(stack[i].svc)'
              /\ "IN_LIST" \notin status'[stack'[i].svc]
  <2>1. CASE i = 1
    <3>1. stack'[1].svc = d
      BY <1>4, <1>6
    <3>2. \A j \in 1 .. n + 1 : stack'[j].svc = d => j = 1
      BY <1>7, <1>8
    <3>3. Known(stack[i].svc)' <=> stack'[i].svc \in ToSet(svc_list')
      BY DEF Known
    <3>4. d \in ToSet(svc_list')
      BY DEF Known
    <3> QED
      BY <2>1, <3>1, <3>2, <3>3, <3>4
  <2>2. CASE i \in 2 .. n + 1
    <3>1. /\ i - 1 \in DOMAIN stack /\ stack'[i].svc = stack[i - 1].svc
          /\ stack[i - 1].svc \in Svcs /\ stack[i - 1].svc # d
          /\ Known(stack[i - 1].svc) /\ "IN_LIST" \notin status[stack[i - 1].svc]
      BY <1>1, <1>7, <1>8, <2>2 DEF Frames
    <3>2. Known(stack[i].svc)' <=> stack'[i].svc \in ToSet(svc_list')
      BY DEF Known
    <3>3. stack[i - 1].svc \in ToSet(svc_list')
      BY <3>1 DEF Known
    <3>4. ASSUME NEW j \in 1 .. n + 1, stack'[i].svc = stack'[j].svc
          PROVE  i = j
      <4>1. j # 1
        BY <1>4, <1>6, <3>1, <3>4
      <4>2. j \in 2 .. n + 1 /\ j - 1 \in DOMAIN stack /\ stack'[j].svc = stack[j - 1].svc
        BY <1>7, <4>1
      <4>3. \A h, m \in DOMAIN stack : stack[h].svc = stack[m].svc => h = m
        BY <1>1 DEF Frames
      <4>4. i - 1 = j - 1
        BY <3>1, <3>4, <4>2, <4>3
      <4> QED
        BY <1>2, <4>4
    <3> QED
      BY <3>1, <3>2, <3>3, <3>4
  <2> QED
    BY <1>7, <2>1, <2>2
<1>14. Frames'
  BY <1>6, <1>11, <1>12, <1>13 DEF Frames
<1>15. Entered'
  <2> SUFFICES ASSUME NEW s \in Svcs, Known(s)', \A i \in 1 .. n + 1 : stack'[i].svc # s,
                      NEW k \in Kinds
               PROVE  Holds(dep[k][s], conf[k][s])
    BY <1>6 DEF Entered
  <2>1. s # d /\ Known(s)
    <3>1. 1 \in 1 .. n + 1 /\ stack'[1].svc = d
      BY <1>2, <1>4, <1>6
    <3> QED
      BY <3>1
  <2>2. ASSUME NEW i \in DOMAIN stack PROVE stack[i].svc # s
    <3>1. i + 1 \in 2 .. n + 1 /\ (i + 1) - 1 = i /\ i + 1 \in 1 .. n + 1
      BY <1>2
    <3>2. stack'[i + 1].svc = stack[i].svc
      BY <1>7, <3>1
    <3> QED
      BY <3>1, <3>2
  <2> QED
    BY <1>1, <2>1, <2>2 DEF Entered
<1> QED
  BY <1>14, <1>15

\* t is entered last of the dependencies of s.
EnteredLast(k, s, t) == dep'[k][s] = Append(dep[k][s], t)

\* The topmost call returns, its service s complete, to the one that waited for it.
LEMMA PopStep ==
  ASSUME TreeInv, Len(stack) >= 2, Head(stack).wait = {}, Head(stack).left = {},
         Head(stack).type = "wants",
         NEW f \in FrameType, f.svc = stack[2].svc, f.type = stack[2].type,
         f.left = stack[2].left, f.wait = {},
         stack' = <<f>> \o SubSeq(stack, 3, Len(stack)), UNCHANGED <<conf, svc_list>>,
         \A s \in Svcs : s # Head(stack).svc => status'[s] = status[s],
         \A k \in Kinds, s \in Svcs : k # f.type \/ s # f.svc => dep'[k][s] = dep[k][s],
         EnteredLast(f.type, f.svc, Head(stack).svc)
  PROVE  Frames' /\ Entered'
<1> DEFINE n == Len(stack)
           s0 == Head(stack).svc
<1>1. Frames /\ Entered
  BY DEF TreeInv
<1>2. /\ DOMAIN stack = 1 .. n /\ n \in Nat /\ n >= 2
      /\ Head(stack) = stack[1] /\ 1 \in DOMAIN stack /\ 2 \in DOMAIN stack
  BY <1>1, FrameFacts
<1>3. /\ stack' \in Seq(FrameType) /\ DOMAIN stack' = 1 .. n - 1 /\ stack'[1] = f
      /\ \A i \in 2 .. n - 1 : stack'[i] = stack[i + 1]
  BY PopFacts DEF TreeInv, Frames
<1>4. /\ s0 \in Svcs /\ f.svc \in Svcs /\ f.svc # s0 /\ stack[1].svc = s0
      /\ f.type \in Kinds
  <2>1. /\ stack[1].svc \in Svcs /\ stack[2].svc \in Svcs /\ stack[2].type \in Kinds
    BY <1>1, <1>2, FrameFacts
  <2>2. stack[1].svc = stack[2].svc => 1 = 2
    BY <1>1, <1>2 DEF Frames
  <2> QED
    BY <1>2, <2>1, <2>2
<1>5. /\ \A h, m \in DOMAIN stack : stack[h].svc = stack[m].svc => h = m
      /\ \A i \in DOMAIN stack : /\ stack[i].svc \in Svcs /\ Known(stack[i].svc)
                                 /\ "IN_LIST" \notin status[stack[i].svc]
  BY <1>1, FrameFacts DEF Frames
<1> HIDE DEF n, s0
<1>6. /\ \A i \in 1 .. n - 1 : i + 1 \in DOMAIN stack /\ stack'[i].svc = stack[i + 1].svc
      /\ \A i \in 1 .. n - 1 : stack[i + 1].svc # s0
      /\ \A i \in 1 .. n - 1 : i # 1 => i \in 2 .. n - 1
      /\ 1 \in 1 .. n - 1
  <2>1. ASSUME NEW i \in 1 .. n - 1 PROVE i + 1 \in DOMAIN stack /\ i + 1 # 1
    BY <1>2
  <2>2. \A i \in 1 .. n - 1 : i # 1 => i \in 2 .. n - 1
    BY <1>2
  <2>3. ASSUME NEW i \in 1 .. n - 1 PROVE stack'[i].svc = stack[i + 1].svc
    <3>1. CASE i = 1
      <4>1. 1 + 1 = 2
        OBVIOUS
      <4> QED
        BY <1>3, <3>1, <4>1
    <3>2. CASE i # 1
      BY <1>3, <2>2, <3>2
    <3> QED
      BY <3>1, <3>2
  <2>4. \A i \in 1 .. n - 1 : stack[i + 1].svc # s0
    BY <1>2, <1>4, <1>5, <2>1
  <2>5. 1 \in 1 .. n - 1
    BY <1>2
  <2> QED
    BY <2>1, <2>2, <2>3, <2>4, <2>5
<1>7. ASSUME NEW i \in 1 .. n - 1
      PROVE  StillReads(stack'[i])
  <2>1. \A j \in DOMAIN stack : Reads(stack[j])
    BY <1>1 DEF Frames
  <2>2. CASE i = 1
    <3>1. Reads(stack[2]) /\ Waits(stack[2], s0) /\ stack[2].left \cap stack[2].wait = {}
      <4>1. 2 # 1 /\ 2 - 1 = 1
        OBVIOUS
      <4> QED
        BY <1>1, <1>2, <1>4, <4>1 DEF Frames
    <3>3. PICK l \in Link : stack[2].wait = {l} /\ l.to = s0
      BY <3>1 DEF Waits
    <3>4. l \notin stack[2].left
      BY <3>1, <3>3
    <3>5. TreeTypes
      BY DEF TreeInv
    <3>2. ASSUME NEW k \in Kinds
          PROVE  /\ ToCome(f, k) \subseteq conf[k][f.svc]
                 /\ Holds(dep'[k][f.svc], conf[k][f.svc] \ ToCome(f, k))
      <4>1. /\ ToCome(stack[2], k) \subseteq conf[k][f.svc]
            /\ Holds(dep[k][f.svc], conf[k][f.svc] \ ToCome(stack[2], k))
        BY <3>1 DEF Reads
      <4>2. CASE k = f.type
        <5> DEFINE had == conf[k][f.svc] \ ToCome(stack[2], k)
        <5>1. ToCome(f, k) = stack[2].left /\ ToCome(stack[2], k) = stack[2].left \cup {l}
          BY <3>3, <4>2 DEF ToCome
        <5>2. dep'[k][f.svc] = Append(dep[k][f.svc], l.to)
          BY <3>3, <4>2 DEF s0, EnteredLast
        <5>3. /\ dep[k][f.svc] \in Seq(Svcs) /\ had \in SUBSET Link /\ IsFiniteSet(had)
              /\ l \notin had /\ Holds(dep[k][f.svc], had)
          <6>1. /\ dep[k][f.svc] \in Seq(Svcs) /\ conf[k][f.svc] \subseteq Link
                /\ IsFiniteSet(conf[k][f.svc])
            BY <1>4, <3>5, ListFacts
          <6> QED
            BY <4>1, <5>1, <6>1, FS_Subset
        <5>4. conf[k][f.svc] \ ToCome(f, k) = had \cup {l}
          BY <3>4, <4>1, <5>1
        <5> HIDE DEF had
        <5> DEFINE list == dep[k][f.svc]
        <5>5. list \in Seq(Svcs) /\ Holds(list, had) /\ dep'[k][f.svc] = Append(list, l.to)
          BY <5>2, <5>3
        <5> HIDE DEF list
        <5>6. Holds(Append(list, l.to), had \cup {l})
          BY <5>3, <5>5, HoldsMore
        <5> QED
          BY <4>1, <5>1, <5>4, <5>5, <5>6
      <4>3. CASE k # f.type
        <5>1. ToCome(f, k) = ToCome(stack[2], k)
          BY <4>3 DEF ToCome
        <5>2. dep'[k][f.svc] = dep[k][f.svc]
          BY <1>4, <4>3
        <5> QED
          BY <4>1, <5>1, <5>2
      <4> QED
        BY <4>2, <4>3
    <3> QED
      BY <1>3, <2>2, <3>2 DEF StillReads
  <2>3. CASE i # 1
    <3>1. i + 1 \in DOMAIN stack /\ stack'[i] = stack[i + 1] /\ i + 1 # 2
      BY <1>2, <1>3, <1>6, <2>3
    <3>2. stack[i + 1].svc # f.svc /\ stack[i + 1].svc \in Svcs
      BY <1>2, <1>5, <3>1
    <3>3. Reads(stack[i + 1])
      BY <2>1, <3>1
    <3>4. \A k \in Kinds : dep'[k][stack[i + 1].svc] = dep[k][stack[i + 1].svc]
      BY <3>2
    <3>5. StillReads(stack[i + 1])
      <4> DEFINE g == stack[i + 1]
      <4>1. Reads(g) /\ \A k \in Kinds : dep'[k][g.svc] = dep[k][g.svc]
        BY <3>3, <3>4
      <4> HIDE DEF g
      <4>2. StillReads(g)
        BY <4>1 DEF Reads, StillReads
      <4> QED
        BY <4>2 DEF g
    <3> QED
      BY <3>1, <3>5
  <2> QED
    BY <2>2, <2>3
<1>8. ASSUME NEW i \in 1 .. n - 1
      PROVE  Reads(stack[i])'
  <2>1. StillReads(stack'[i])
    BY <1>7
  <2> QED
    BY <2>1 DEF Reads, StillReads, ToCome
<1>9. ASSUME NEW i \in 1 .. n - 1
      PROVE  /\ IF i = 1 THEN stack'[i].wait = {} ELSE Waits(stack'[i], stack'[i - 1].svc)
             /\ stack'[i].left \cap stack'[i].wait = {}
  <2>1. CASE i = 1
    BY <1>3, <2>1
  <2>2. CASE i # 1
    <3>1. /\ i + 1 \in DOMAIN stack /\ i + 1 # 1 /\ (i + 1) - 1 = i /\ i \in DOMAIN stack
          /\ i - 1 \in 1 .. n - 1 /\ (i - 1) + 1 = i /\ i \in 2 .. n - 1
      BY <1>2, <1>6, <2>2
    <3>2. /\ Waits(stack[i + 1], stack[(i + 1) - 1].svc)
          /\ stack[i + 1].left \cap stack[i + 1].wait = {}
      BY <1>1, <3>1 DEF Frames
    <3>3. stack'[i - 1].svc = stack[i].svc /\ stack'[i] = stack[i + 1]
      BY <1>3, <1>6, <3>1
    <3> QED
      BY <2>2, <3>1, <3>2, <3>3
  <2> QED
    BY <2>1, <2>2
<1>10. ASSUME NEW i \in 1 .. n - 1
       PROVE  /\ \A j \in 1 .. n - 1 : stack'[i].svc = stack'[j].svc => i = j
              /\ Known(stack[i].svc)'
              /\ "IN_LIST" \notin status'[stack'[i].svc]
  <2>1. /\ i + 1 \in DOMAIN stack /\ stack'[i].svc = stack[i + 1].svc
        /\ stack[i + 1].svc # s0
    BY <1>6
  <2>2. Known(stack[i].svc)' <=> stack'[i].svc \in ToSet(svc_list')
    BY DEF Known
  <2>3. stack[i + 1].svc \in ToSet(svc_list')
    BY <1>5, <2>1 DEF Known
  <2>4. "IN_LIST" \notin status'[stack'[i].svc]
    BY <1>5, <2>1 DEF s0
  <2>5. ASSUME NEW j \in 1 .. n - 1, stack'[i].svc = stack'[j].svc
        PROVE  i = j
    <3>1. j + 1 \in DOMAIN stack /\ stack'[j].svc = stack[j + 1].svc
      BY <1>6
    <3>2. i + 1 = j + 1
      BY <1>5, <2>1, <2>5, <3>1
    <3> QED
      BY <1>2, <3>2
  <2> QED
    BY <2>1, <2>2, <2>3, <2>4, <2>5
<1>11. Frames'
  BY <1>3, <1>8, <1>9, <1>10 DEF Frames
<1>12. Entered'
  <2> SUFFICES ASSUME NEW s \in Svcs, Known(s), \A i \in 1 .. n - 1 : stack'[i].svc # s,
                      NEW k \in Kinds
               PROVE  Holds(dep'[k][s], conf[k][s])
    BY <1>3 DEF Entered, Known
  <2>1. s # f.svc
    BY <1>3, <1>6
  <2>2. CASE s = s0
    <3>1. Reads(stack[1])
      BY <1>1, <1>2 DEF Frames
    <3>2. stack[1].wait = {} /\ stack[1].left = {} /\ stack[1].type = "wants"
      BY <1>2
    <3>3. ToCome(stack[1], k) = {}
      BY <3>2 DEF ToCome
    <3>4. Holds(dep[k][stack[1].svc], conf[k][stack[1].svc])
      <4>1. conf[k][stack[1].svc] \ {} = conf[k][stack[1].svc]
        OBVIOUS
      <4> QED
        BY <3>1, <3>3, <4>1 DEF Reads
    <3>5. dep'[k][s] = dep[k][s]
      BY <2>1
    <3> QED
      BY <1>4, <2>2, <3>4, <3>5
  <2>3. CASE s # s0
    <3>1. ASSUME NEW i \in DOMAIN stack PROVE stack[i].svc # s
      <4>1. CASE i = 1
        BY <1>4, <2>3, <4>1
      <4>2. CASE i # 1
        <5>1. i - 1 \in 1 .. n - 1 /\ (i - 1) + 1 = i
          BY <1>2, <4>2
        <5>2. stack'[i - 1].svc = stack[i].svc
          BY <1>6, <5>1
        <5> QED
          BY <5>1, <5>2
      <4> QED
        BY <4>1, <4>2
    <3> QED
      BY <1>1, <2>1, <3>1 DEF Entered
  <2> QED
    BY <2>2, <2>3
<1> QED
  BY <1>11, <1>12

LEMMA ReachedFacts ==
  ASSUME TreeTypes
  PROVE  /\ Root \in Reached /\ Reached \subseteq Svcs
         /\ \A s \in Reached, k \in Kinds : To(conf[k][s]) \subseteq Reached
         /\ \A all \in SUBSET Svcs :
              Root \in all /\ (\A s \in all, k \in Kinds : To(conf[k][s]) \subseteq all)
                => Reached \subseteq all
<1>1. Root \in Svcs
  BY CinitAssumption
<1>2. Root \in Reached /\ Reached \subseteq Svcs
  BY <1>1 DEF Reached
<1>3. ASSUME NEW s \in Reached, NEW k \in Kinds, NEW d \in To(conf[k][s])
      PROVE  d \in Reached
  <2>1. d \in Svcs /\ s \in Svcs
    BY <1>2, ListFacts
  <2>2. To(conf[k][s]) \subseteq To(conf.needs[s] \cup conf.wants[s])
    BY DEF Kinds, To
  <2>3. ASSUME NEW all \in SUBSET Svcs, Root \in all,
               \A t \in all : To(conf.needs[t] \cup conf.wants[t]) \subseteq all
        PROVE  d \in all
    <3>1. s \in all
      BY <2>3 DEF Reached
    <3> QED
      BY <2>2, <2>3, <3>1
  <2> QED
    BY <2>1, <2>3 DEF Reached
<1>4. ASSUME NEW all \in SUBSET Svcs, Root \in all,
             \A s \in all, k \in Kinds : To(conf[k][s]) \subseteq all
      PROVE  Reached \subseteq all
  <2>1. \A t \in all : To(conf["needs"][t]) \subseteq all /\ To(conf["wants"][t]) \subseteq all
    BY <1>4 DEF Kinds
  <2>2. \A t \in all : To(conf.needs[t] \cup conf.wants[t]) \subseteq all
    BY <2>1 DEF To
  <2> QED
    BY <1>4, <2>2 DEF Reached
<1> QED
  BY <1>2, <1>3, <1>4

\* gen_svc_tree() is called for CINIT_INIT.
LEMMA GenRootStep ==
  ASSUME TreeInv, GenRoot, UNCHANGED <<conf, begun>>
  PROVE  TreeInv'
<1>1. /\ stack = <<>> /\ svc_list = <<>> /\ SvcCreate(Root) /\ stack' = <<Frame(Root)>>
      /\ UNCHANGED <<dep, pending>>
  BY DEF GenRoot
<1>2. TreeTypes /\ Root \in Svcs /\ Root \in Reached /\ \A s : ~Known(s)
  BY <1>1, CinitAssumption, ReachedFacts DEF TreeInv, Known, ToSet
<1>3. /\ TreeTypes' /\ Once' /\ Mirrored' /\ PendingOnce' /\ RootFirst'
      /\ \A s : Known(s)' <=> s = Root
      /\ "IN_LIST" \notin status'[Root]
      /\ \A s \in Svcs : begun'[s] = 0 /\ (Known(s)' => Virgin(s, status'))
  BY <1>1, <1>2, CreateFacts
<1>4. /\ Frame(Root) \in FrameType /\ Frame(Root).svc = Root /\ Frame(Root).wait = {}
      /\ Frame(Root).type = "needs" /\ Frame(Root).left = conf.needs[Root]
  <2>1. conf["needs"][Root] \subseteq Link
    BY <1>2, ListFacts DEF Kinds
  <2> QED
    BY <1>2, <2>1 DEF Frame, FrameType, Kinds
<1>5. /\ stack' \in Seq(FrameType) /\ DOMAIN stack' = {1} /\ stack'[1] = Frame(Root)
  BY <1>1, <1>4
<1>6. \A k \in Kinds : dep[k][Root] = <<>>
  BY <1>2, NothingYet DEF TreeInv
<1>7. StillReads(Frame(Root))
  <2> SUFFICES ASSUME NEW k \in Kinds
               PROVE  ToCome(Frame(Root), k) = conf[k][Root]
    BY <1>1, <1>4, <1>6, HoldsNone DEF StillReads
  <2>1. CASE k = "needs"
    BY <1>4, <2>1 DEF ToCome
  <2>2. CASE k = "wants"
    BY <1>4, <2>2 DEF ToCome
  <2> QED
    BY <2>1, <2>2 DEF Kinds
<1>8. Reads(stack[1])'
  BY <1>5, <1>7 DEF Reads, StillReads, ToCome
<1>9. Known(stack[1].svc)'
  BY <1>3, <1>4, <1>5 DEF Known
<1>10. Frames'
  BY <1>3, <1>4, <1>5, <1>8, <1>9 DEF Frames
<1>11. Entered'
  BY <1>3, <1>4, <1>5 DEF Entered
<1> QED
  BY <1>3, <1>10, <1>11 DEF TreeInv

LEMMA GenEntryStep ==
  ASSUME TreeInv, GenEntry, UNCHANGED <<conf, begun>>
  PROVE  TreeInv'
<1> DEFINE h == Head(stack)
<1>1. stack # <<>> /\ h.wait = {}
  BY DEF GenEntry
<1>2. /\ h = stack[1] /\ 1 \in DOMAIN stack /\ h \in FrameType
      /\ h.svc \in Svcs /\ h.type \in Kinds /\ h.left \subseteq Link
      /\ Known(h.svc) /\ Reads(h)
      /\ h = [svc |-> h.svc, type |-> h.type, left |-> h.left, wait |-> h.wait]
  <2>1. h = stack[1] /\ 1 \in DOMAIN stack /\ h \in FrameType
    BY <1>1, FrameFacts DEF TreeInv
  <2>2. Known(h.svc) /\ Reads(h)
    BY <2>1 DEF TreeInv, Frames
  <2> HIDE DEF h
  <2> QED
    BY <2>1, <2>2 DEF FrameType
<1> HIDE DEF h
<1>3. PICK l \in h.left :
        LET f == [h EXCEPT !.left = @ \ {l}]
        IN  IF Known(l.to)
            THEN /\ dep' = DepAdded(f.svc, l.to, f.type)
                 /\ stack' = <<f>> \o Tail(stack)
                 /\ UNCHANGED <<svc_list, status>>
            ELSE /\ SvcCreate(l.to)
                 /\ stack' = <<Frame(l.to), [f EXCEPT !.wait = {l}]>> \o Tail(stack)
                 /\ UNCHANGED dep
  BY DEF GenEntry, h
<1> DEFINE d == l.to
           f == [svc |-> h.svc, type |-> h.type, left |-> h.left \ {l}, wait |-> h.wait]
           g == [svc |-> h.svc, type |-> h.type, left |-> h.left \ {l}, wait |-> {l}]
<1>4. [h EXCEPT !.left = @ \ {l}] = f /\ [f EXCEPT !.wait = {l}] = g
  BY <1>2
<1>5. /\ f \in FrameType /\ g \in FrameType
      /\ f.svc = h.svc /\ f.type = h.type /\ f.left = h.left \ {l} /\ f.wait = {}
      /\ g.svc = h.svc /\ g.type = h.type /\ g.left = h.left \ {l} /\ g.wait = {l}
  BY <1>1, <1>2 DEF FrameType
<1>6. UNCHANGED pending
  BY DEF GenEntry
<1>7. /\ IF Known(d)
         THEN /\ dep' = DepAdded(h.svc, d, h.type)
              /\ stack' = <<f>> \o Tail(stack)
              /\ UNCHANGED <<svc_list, status>>
         ELSE /\ SvcCreate(d)
              /\ stack' = <<Frame(d), g>> \o Tail(stack)
              /\ UNCHANGED dep
  BY <1>3, <1>4, <1>5
<1> HIDE DEF f, g
<1>8. /\ TreeTypes /\ Mirrored /\ Once /\ PendingOnce /\ RootFirst /\ d \in Svcs /\ l \in Link
  BY <1>2 DEF TreeInv, Link
<1> HIDE DEF d
<1>9. ToCome(h, h.type) = h.left
  BY <1>1 DEF ToCome
<1>10. l \in conf[h.type][h.svc] /\ d \in To(conf[h.type][h.svc])
  BY <1>2, <1>9 DEF Reads, To, d
<1>11. CASE Known(d)
  <2>1. /\ dep' = DepAdded(h.svc, d, h.type) /\ stack' = <<f>> \o Tail(stack)
        /\ UNCHANGED <<svc_list, status>>
    BY <1>7, <1>11
  <2>2. /\ dep' \in [Lists -> [Svcs -> Seq(Svcs)]]
        /\ Mirrored'
        /\ dep'[h.type][h.svc] = Append(dep[h.type][h.svc], d)
        /\ \A c \in Kinds, u \in Svcs : c # h.type \/ u # h.svc => dep'[c][u] = dep[c][u]
    BY <1>2, <1>8, <1>11, <2>1, EnterFacts
  <2>3. StillReads(f)
    <3> SUFFICES ASSUME NEW k \in Kinds
                 PROVE  /\ ToCome(f, k) \subseteq conf[k][h.svc]
                        /\ Holds(dep'[k][h.svc], conf[k][h.svc] \ ToCome(f, k))
      BY <1>5 DEF StillReads
    <3>1. /\ ToCome(h, k) \subseteq conf[k][h.svc]
          /\ Holds(dep[k][h.svc], conf[k][h.svc] \ ToCome(h, k))
      BY <1>2 DEF Reads
    <3>2. CASE k = h.type
      <4> DEFINE had == conf[k][h.svc] \ ToCome(h, k)
      <4>1. ToCome(f, k) = h.left \ {l}
        BY <1>5, <3>2 DEF ToCome
      <4>2. dep'[k][h.svc] = Append(dep[k][h.svc], l.to)
        BY <2>2, <3>2 DEF d
      <4>3. ToCome(h, k) = h.left /\ l \in h.left
        BY <1>9, <3>2
      <4>4. /\ dep[k][h.svc] \in Seq(Svcs) /\ had \in SUBSET Link /\ IsFiniteSet(had)
            /\ l \notin had /\ Holds(dep[k][h.svc], had)
        <5>1. /\ dep[k][h.svc] \in Seq(Svcs) /\ conf[k][h.svc] \subseteq Link
              /\ IsFiniteSet(conf[k][h.svc])
          BY <1>2, <1>8, ListFacts
        <5> QED
          BY <3>1, <4>3, <5>1, FS_Subset
      <4>5. conf[k][h.svc] \ ToCome(f, k) = had \cup {l}
        BY <3>1, <4>1, <4>3
      <4> HIDE DEF had
      <4>6. Holds(dep'[k][h.svc], had \cup {l})
        BY <1>8, <4>2, <4>4, HoldsMore
      <4> QED
        BY <3>1, <4>1, <4>3, <4>5, <4>6
    <3>3. CASE k # h.type
      <4>1. ToCome(f, k) = ToCome(h, k)
        BY <1>5, <3>3 DEF ToCome
      <4>2. dep'[k][h.svc] = dep[k][h.svc]
        BY <1>2, <2>2, <3>3
      <4> QED
        BY <3>1, <4>1, <4>2
    <3> QED
      BY <3>2, <3>3
  <2>4. \A k \in Kinds, s \in Svcs : s # f.svc => dep'[k][s] = dep[k][s]
    BY <1>5, <2>2
  <2>5. Frames' /\ Entered'
    BY <1>1, <1>5, <2>1, <2>3, <2>4, TopStep DEF h
  <2>6. TreeTypes' /\ Once'
    BY <1>6, <1>8, <2>1, <2>2 DEF TreeTypes, Once
  <2>7. PendingOnce'
    BY <1>6, <1>8, <2>1 DEF PendingOnce, Known
  <2>8. RootFirst'
    BY <1>8, <2>1 DEF RootFirst, Reached, Known
  <2> QED
    BY <2>1, <2>2, <2>5, <2>6, <2>7, <2>8 DEF TreeInv, Known
<1>12. CASE ~Known(d)
  <2>1. SvcCreate(d) /\ stack' = <<Frame(d), g>> \o Tail(stack) /\ UNCHANGED dep
    BY <1>7, <1>12
  <2>2. d \in Reached
    BY <1>2, <1>8, <1>10, ReachedFacts DEF RootFirst
  <2>3. svc_list # <<>>
    BY <1>2 DEF Known, ToSet
  <2>4. /\ TreeTypes' /\ Once' /\ Mirrored' /\ PendingOnce' /\ RootFirst'
        /\ \A s : Known(s)' <=> Known(s) \/ s = d
        /\ \A s \in Svcs : s # d => status'[s] = status[s]
        /\ "IN_LIST" \notin status'[d]
        /\ \A s \in Svcs : begun'[s] = 0 /\ (Known(s)' => Virgin(s, status'))
    BY <1>6, <1>8, <1>12, <2>1, <2>2, <2>3, CreateFacts
  <2>5. Frames' /\ Entered'
    BY <1>1, <1>5, <1>8, <1>12, <2>1, <2>4, PushStep DEF h, d
  <2> QED
    BY <2>4, <2>5 DEF TreeInv
<1> QED
  BY <1>11, <1>12

LEMMA GenWantsStep ==
  ASSUME TreeInv, GenWants, UNCHANGED <<conf, begun>>
  PROVE  TreeInv'
<1> DEFINE h == Head(stack)
<1>1. /\ stack # <<>> /\ h.wait = {} /\ h.left = {} /\ h.type = "needs"
      /\ stack' = <<[h EXCEPT !.type = "wants", !.left = conf.wants[h.svc]]>> \o Tail(stack)
      /\ UNCHANGED <<svc_list, dep, status, pending>>
  BY DEF GenWants
<1>2. /\ h = stack[1] /\ 1 \in DOMAIN stack /\ h \in FrameType
      /\ h.svc \in Svcs /\ Known(h.svc) /\ Reads(h)
      /\ h = [svc |-> h.svc, type |-> h.type, left |-> h.left, wait |-> h.wait]
  <2>1. h = stack[1] /\ 1 \in DOMAIN stack /\ h \in FrameType
    BY <1>1, FrameFacts DEF TreeInv
  <2>2. Known(h.svc) /\ Reads(h)
    BY <2>1 DEF TreeInv, Frames
  <2> HIDE DEF h
  <2> QED
    BY <2>1, <2>2 DEF FrameType
<1> HIDE DEF h
<1> DEFINE f == [h EXCEPT !.type = "wants", !.left = conf.wants[h.svc]]
<1>3. conf.wants[h.svc] \in SUBSET Link
  <2>1. conf["wants"][h.svc] \subseteq Link
    BY <1>2, ListFacts DEF TreeInv, Kinds
  <2> QED
    BY <2>1
<1>4. /\ f \in FrameType /\ f.svc = h.svc /\ f.type = "wants" /\ f.wait = {}
      /\ f.left = conf.wants[h.svc]
  <2> DEFINE l == conf.wants[h.svc]
  <2>1. l \in SUBSET Link
    BY <1>3
  <2> HIDE DEF l
  <2>2. "wants" \in Kinds
    BY DEF Kinds
  <2>3. [h EXCEPT !.type = "wants", !.left = l] \in FrameType
    BY <1>2, <2>1, <2>2 DEF FrameType
  <2>4. /\ [h EXCEPT !.type = "wants", !.left = l].svc = h.svc
        /\ [h EXCEPT !.type = "wants", !.left = l].type = "wants"
        /\ [h EXCEPT !.type = "wants", !.left = l].wait = h.wait
        /\ [h EXCEPT !.type = "wants", !.left = l].left = l
    BY <1>2, <2>1, <2>2 DEF FrameType
  <2> QED
    BY <1>1, <2>3, <2>4 DEF l
<1>5. stack' = <<f>> \o Tail(stack)
  BY <1>1
<1> HIDE DEF f
<1>6. StillReads(f)
  <2> SUFFICES ASSUME NEW k \in Kinds
               PROVE  ToCome(f, k) = ToCome(h, k)
    BY <1>1, <1>2, <1>4 DEF StillReads, Reads
  <2>1. CASE k = "needs"
    BY <1>1, <1>4, <2>1 DEF ToCome
  <2>2. CASE k = "wants"
    BY <1>1, <1>4, <2>2 DEF ToCome
  <2> QED
    BY <2>1, <2>2 DEF Kinds
<1>7. Frames' /\ Entered'
  BY <1>1, <1>4, <1>5, <1>6, TopStep DEF h
<1>8. /\ TreeTypes' /\ Once' /\ Mirrored' /\ PendingOnce' /\ RootFirst'
      /\ \A s \in Svcs : begun'[s] = 0 /\ (Known(s)' => Virgin(s, status'))
  BY <1>1 DEF TreeInv, TreeTypes, Once, Mirrored, PendingOnce, RootFirst, Reached, Known
<1> QED
  BY <1>7, <1>8 DEF TreeInv

\* A call returns: to the caller, which enters its service, or for CINIT_INIT to main().
LEMMA GenReturnStep ==
  ASSUME TreeInv, GenReturn, UNCHANGED <<conf, begun>>, pc = "tree"
  PROVE  StartInv'
<1> DEFINE h == Head(stack)
           s0 == h.svc
           start == dep.needs[s0] = <<>> /\ dep.wants[s0] = <<>>
<1>1. /\ stack # <<>> /\ h.wait = {} /\ h.left = {} /\ h.type = "wants"
      /\ pending' = IF start THEN Append(pending, s0) ELSE pending
      /\ status' = IF start THEN [status EXCEPT ![s0] = @ \cup {"IN_LIST"}] ELSE status
      /\ IF Len(stack) = 1
         THEN /\ stack' = <<>> /\ UNCHANGED dep
              /\ pc' = IF pending' = <<>> THEN "dead" ELSE "exec"
         ELSE /\ stack' = <<[stack[2] EXCEPT !.wait = {}]>> \o SubSeq(stack, 3, Len(stack))
              /\ dep' = DepAdded(stack[2].svc, s0, stack[2].type)
              /\ UNCHANGED pc
      /\ UNCHANGED svc_list
  BY DEF GenReturn
<1> HIDE DEF start
<1>2. /\ h = stack[1] /\ 1 \in DOMAIN stack /\ s0 \in Svcs /\ Known(s0)
      /\ "IN_LIST" \notin status[s0] /\ Virgin(s0, status)
  BY <1>1, FrameFacts DEF TreeInv, Frames
<1> HIDE DEF h, s0
<1>3. /\ TreeTypes /\ Mirrored /\ Once /\ PendingOnce /\ RootFirst
      /\ Frames /\ Entered
  BY DEF TreeInv
<1>4. /\ pending \in Seq(Svcs) /\ IsInjective(pending) /\ s0 \notin ToSet(pending)
      /\ status \in [Svcs -> SUBSET Bits]
  BY <1>2, <1>3 DEF TreeTypes, PendingOnce
<1>5. /\ pending' \in Seq(Svcs) /\ IsInjective(pending')
      /\ ToSet(pending') = ToSet(pending) \cup IF start THEN {s0} ELSE {}
  <2>1. CASE start
    BY <1>1, <1>2, <1>4, <2>1, AppendFacts
  <2>2. CASE ~start
    BY <1>1, <1>4, <2>2
  <2> QED
    BY <2>1, <2>2
<1>6. /\ status' \in [Svcs -> SUBSET Bits]
      /\ \A s \in Svcs : s # s0 => status'[s] = status[s]
      /\ status'[s0] = status[s0] \cup IF start THEN {"IN_LIST"} ELSE {}
  <2>1. CASE start
    BY <1>1, <1>2, <1>4, <2>1 DEF Bits
  <2>2. CASE ~start
    BY <1>1, <1>4, <2>2
  <2> QED
    BY <2>1, <2>2
<1>7. \A s \in Svcs : Virgin(s, status) => Virgin(s, status')
  BY <1>2, <1>6 DEF Virgin
<1>8. PendingOnce'
  <2>1. \A s \in ToSet(pending) : s \in Svcs
    BY <1>3, ListFacts
  <2>2. ASSUME NEW s \in ToSet(pending')
        PROVE  Known(s)' /\ Virgin(s, status') /\ "IN_LIST" \in status'[s]
    <3>1. CASE s \in ToSet(pending)
      <4>1. s \in Svcs /\ s # s0 /\ Known(s) /\ Virgin(s, status) /\ "IN_LIST" \in status[s]
        BY <1>3, <1>4, <2>1, <3>1 DEF PendingOnce
      <4> QED
        BY <1>1, <1>6, <1>7, <4>1 DEF Known
    <3>2. CASE s \notin ToSet(pending)
      <4>1. start /\ s = s0
        BY <1>5, <2>2, <3>2
      <4> QED
        BY <1>1, <1>2, <1>6, <1>7, <4>1 DEF Known
    <3> QED
      BY <3>1, <3>2
  <2> QED
    BY <1>5, <2>2 DEF PendingOnce
<1>9. /\ Once' /\ RootFirst'
      /\ \A s \in Svcs : begun'[s] = 0 /\ (Known(s)' => Virgin(s, status'))
  BY <1>1, <1>3, <1>7 DEF TreeInv, Once, RootFirst, Reached, Known
<1>10. CASE Len(stack) = 1
  <2>1. stack' = <<>> /\ UNCHANGED dep /\ pc' = IF pending' = <<>> THEN "dead" ELSE "exec"
    BY <1>1, <1>10
  <2>2. TreeTypes' /\ Mirrored'
    BY <1>1, <1>3, <1>5, <1>6, <2>1 DEF TreeTypes, Mirrored, Known
  <2>3. svc_list' # <<>>
    BY <1>1, <1>2 DEF Known, ToSet
  <2>4. ASSUME NEW s \in Svcs, Known(s), NEW k \in Kinds
        PROVE  Holds(dep[k][s], conf[k][s])
    <3>1. DOMAIN stack = {1}
      BY <1>3, <1>10, FrameFacts
    <3>2. CASE s = s0
      <4>1. Reads(stack[1]) /\ stack[1].svc = s0
        BY <1>2, <1>3 DEF Frames, s0
      <4>2. stack[1].wait = {} /\ stack[1].left = {} /\ stack[1].type = "wants"
        BY <1>1, <1>2
      <4>3. ToCome(stack[1], k) = {}
        BY <4>2 DEF ToCome
      <4>4. Holds(dep[k][stack[1].svc], conf[k][stack[1].svc])
        <5>1. conf[k][stack[1].svc] \ {} = conf[k][stack[1].svc]
          OBVIOUS
        <5> QED
          BY <4>1, <4>3, <5>1 DEF Reads
      <4> QED
        BY <3>2, <4>1, <4>4
    <3>3. CASE s # s0
      BY <1>2, <1>3, <2>4, <3>1, <3>3 DEF Entered, s0
    <3> QED
      BY <3>2, <3>3
  <2>5. Begun'
    BY <1>9 DEF Begun
  <2>6. NeedsFirst'
    BY <1>9 DEF NeedsFirst
  <2>7. pc' = "exec" => ExecInv'
    <3>1. \A s \in Svcs : Known(s)' => \A k \in Kinds : Holds(dep'[k][s], conf'[k][s])
      BY <1>1, <2>1, <2>4 DEF Known
    <3> QED
      BY <1>8, <1>9, <2>1, <2>2, <2>3, <2>5, <2>6, <3>1 DEF ExecInv
  <2> QED
    BY <2>1, <2>7 DEF StartInv
<1>11. CASE Len(stack) # 1
  <2> DEFINE g == stack[2]
             f == [svc |-> g.svc, type |-> g.type, left |-> g.left, wait |-> {}]
  <2>1. Len(stack) >= 2 /\ 2 \in DOMAIN stack /\ 2 - 1 = 1 /\ Len(stack) \in Nat
    BY <1>2, <1>3, <1>11, FrameFacts
  <2>2. /\ g \in FrameType /\ g.svc \in Svcs /\ g.type \in Kinds /\ Known(g.svc) /\ Reads(g)
        /\ Waits(g, s0) /\ g.left \cap g.wait = {}
    <3>1. g \in FrameType /\ g.svc \in Svcs /\ g.type \in Kinds
      BY <1>3, <2>1, FrameFacts
    <3>2. Known(g.svc) /\ Reads(g) /\ g.left \cap g.wait = {}
      BY <1>3, <2>1 DEF Frames
    <3>3. \A i \in DOMAIN stack : i # 1 => Waits(stack[i], stack[i - 1].svc)
      BY <1>3 DEF Frames
    <3>4. Waits(g, stack[1].svc)
      BY <2>1, <3>3
    <3> QED
      BY <1>2, <3>1, <3>2, <3>4 DEF s0
  <2> HIDE DEF g
  <2>3. /\ [g EXCEPT !.wait = {}] = f /\ f \in FrameType
        /\ f.svc = g.svc /\ f.type = g.type /\ f.left = g.left /\ f.wait = {}
    BY <2>2 DEF FrameType
  <2>4. /\ stack' = <<f>> \o SubSeq(stack, 3, Len(stack))
        /\ dep' = DepAdded(g.svc, s0, g.type) /\ pc' = pc
    BY <1>1, <1>11, <2>3 DEF g
  <2> HIDE DEF f
  <2>6. /\ dep' \in [Lists -> [Svcs -> Seq(Svcs)]]
        /\ Mirrored'
        /\ dep'[g.type][g.svc] = Append(dep[g.type][g.svc], s0)
        /\ \A c \in Kinds, u \in Svcs : c # g.type \/ u # g.svc => dep'[c][u] = dep[c][u]
    BY <1>1, <1>2, <1>3, <2>2, <2>4, EnterFacts
  <2>7. Frames' /\ Entered'
    <3>1. /\ Head(stack).wait = {} /\ Head(stack).left = {} /\ Head(stack).type = "wants"
          /\ Head(stack).svc = s0
      BY <1>1 DEF h, s0
    <3>2. /\ f \in FrameType /\ f.svc = stack[2].svc /\ f.type = stack[2].type
          /\ f.left = stack[2].left /\ f.wait = {}
      BY <2>3 DEF g
    <3>3. stack' = <<f>> \o SubSeq(stack, 3, Len(stack)) /\ UNCHANGED <<conf, svc_list>>
      BY <1>1, <2>4
    <3>4. \A s \in Svcs : s # Head(stack).svc => status'[s] = status[s]
      BY <1>6, <3>1
    <3>5. \A k \in Kinds, s \in Svcs : k # f.type \/ s # f.svc => dep'[k][s] = dep[k][s]
      BY <2>3, <2>6
    <3>6. EnteredLast(f.type, f.svc, Head(stack).svc)
      BY <2>3, <2>6, <3>1 DEF EnteredLast
    <3> QED
      BY <2>1, <3>1, <3>2, <3>3, <3>4, <3>5, <3>6, PopStep
  <2>8. TreeTypes'
    BY <1>1, <1>3, <1>5, <1>6, <2>6 DEF TreeTypes
  <2>9. TreeInv'
    BY <1>8, <1>9, <2>6, <2>7, <2>8 DEF TreeInv
  <2> QED
    BY <2>4, <2>9 DEF StartInv
<1> QED
  BY <1>10, <1>11

LEMMA GenStep ==
  ASSUME StartInv, Gen
  PROVE  StartInv'
<1>1. pc = "tree" /\ TreeInv /\ UNCHANGED <<conf, begun>>
  BY DEF Gen, StartInv
<1>2. CASE GenRoot
  <2>1. TreeInv' /\ pc' = pc
    BY <1>1, <1>2, GenRootStep DEF GenRoot
  <2> QED
    BY <1>1, <2>1 DEF StartInv
<1>3. CASE GenEntry
  <2>1. TreeInv' /\ pc' = pc
    BY <1>1, <1>3, GenEntryStep DEF GenEntry
  <2> QED
    BY <1>1, <2>1 DEF StartInv
<1>4. CASE GenWants
  <2>1. TreeInv' /\ pc' = pc
    BY <1>1, <1>4, GenWantsStep DEF GenWants
  <2> QED
    BY <1>1, <2>1 DEF StartInv
<1>5. CASE GenReturn
  BY <1>1, <1>5, GenReturnStep
<1>6. CASE GenFails
  BY <1>6 DEF GenFails, StartInv
<1> QED
  BY <1>2, <1>3, <1>4, <1>5, <1>6 DEF Gen

-----------------------------------------------------------------------------
(* svc_tree_exec()                                                         *)

\* What the head of the list may become: started with all it needs behind it, or
\* never to be.
Ends(s) ==
  \/ /\ begun'[s] > 0
     /\ \A n \in To(conf.needs[s]) :
          status[n] \cap {"SH_ONCE", "SH_RESPAWN", "ONCE_RUN", "BAD_ERR", "NEED_FAILD"} = {}
  \/ begun'[s] = 0 /\ status'[s] \cap {"NEED_FAILD", "BAD_ERR"} # {}

\* The dependencies of a service are what its links lead to.
LEMMA EntriesOf ==
  ASSUME TreeTypes, NEW k \in Kinds, NEW s \in Svcs, Holds(dep[k][s], conf[k][s])
  PROVE  ToSet(dep[k][s]) = To(conf[k][s])
BY ListFacts, HoldsFacts

\* A round that takes the head from the list and adds others that are to be started.
LEMMA TakeStep ==
  ASSUME ExecInv, NEW new \in Seq(Svcs), IsInjective(new), NEW tmp, tmp = Head(pending),
         \A x \in ToSet(new) : /\ x # tmp /\ Known(x) /\ Virgin(x, status)
                              /\ "IN_LIST" \notin status[x],
         pending' = Tail(pending) \o new,
         status' \in [Svcs -> SUBSET Bits],
         \A s \in Svcs : s # tmp => status'[s] = status[s] \cup
                            IF s \in ToSet(new) THEN {"IN_LIST"} ELSE {},
         ~Virgin(tmp, status'),
         begun' \in [Svcs -> Nat], \A s \in Svcs : s # tmp => begun'[s] = begun[s],
         Ends(tmp), UNCHANGED <<conf, svc_list, dep, stack>>, pending' # <<>>, pc = "exec"
  PROVE  ExecInv'
<1>1. /\ TreeTypes /\ Once /\ Mirrored /\ PendingOnce /\ RootFirst /\ Begun /\ NeedsFirst
      /\ pending # <<>> /\ pending \in Seq(Svcs) /\ IsInjective(pending)
      /\ \A s \in Svcs : Known(s) => \A k \in Kinds : Holds(dep[k][s], conf[k][s])
  BY DEF ExecInv, TreeTypes, PendingOnce
<1>2. /\ tmp \in Svcs /\ tmp \in ToSet(pending)
      /\ Tail(pending) \in Seq(Svcs) /\ IsInjective(Tail(pending))
      /\ tmp \notin ToSet(Tail(pending)) /\ ToSet(Tail(pending)) \subseteq ToSet(pending)
  BY <1>1, TailFacts
<1>3. /\ Known(tmp) /\ Virgin(tmp, status)
      /\ \A s \in ToSet(Tail(pending)) : /\ s \in Svcs /\ s # tmp /\ Known(s)
                                         /\ Virgin(s, status) /\ "IN_LIST" \in status[s]
  BY <1>1, <1>2, ListFacts DEF PendingOnce
<1>4. \A s : Known(s)' <=> Known(s)
  BY DEF Known
<1>5. \A s \in Svcs : s # tmp => (Virgin(s, status') <=> Virgin(s, status))
  BY DEF Virgin
<1>6. begun[tmp] = 0
  BY <1>1, <1>2, <1>3 DEF Begun, TreeTypes
<1>7. /\ pending' \in Seq(Svcs) /\ IsInjective(pending')
      /\ ToSet(pending') = ToSet(Tail(pending)) \cup ToSet(new)
  <2>1. ToSet(Tail(pending)) \cap ToSet(new) = {}
    BY <1>3
  <2>2. /\ Tail(pending) \o new \in Seq(Svcs) /\ IsInjective(Tail(pending) \o new)
        /\ ToSet(Tail(pending) \o new) = ToSet(Tail(pending)) \cup ToSet(new)
    <3> DEFINE t == Tail(pending)
    <3>1. /\ t \in Seq(Svcs) /\ new \in Seq(Svcs) /\ IsInjective(t) /\ IsInjective(new)
          /\ ToSet(t) \cap ToSet(new) = {}
      BY <1>2, <2>1
    <3> HIDE DEF t
    <3>2. /\ t \o new \in Seq(Svcs) /\ IsInjective(t \o new)
          /\ ToSet(t \o new) = ToSet(t) \cup ToSet(new)
      BY <3>1, ConcatFacts
    <3> QED
      BY <3>2 DEF t
  <2> QED
    BY <2>2
<1>8. TreeTypes' /\ Once' /\ RootFirst'
  BY <1>1, <1>4, <1>7 DEF TreeTypes, Once, RootFirst, Reached
<1>9. Mirrored'
  BY <1>1, <1>4 DEF Mirrored
<1>10. PendingOnce'
  <2> SUFFICES ASSUME NEW s \in ToSet(pending')
               PROVE  Known(s) /\ Virgin(s, status') /\ "IN_LIST" \in status'[s]
    BY <1>4, <1>7 DEF PendingOnce
  <2>1. s \in Svcs /\ s # tmp /\ Known(s) /\ Virgin(s, status)
    BY <1>1, <1>3, <1>7, ListFacts
  <2>2. "IN_LIST" \in status'[s]
    BY <1>3, <1>7, <2>1
  <2> QED
    BY <1>5, <2>1, <2>2
<1>11. Begun'
  <2> SUFFICES ASSUME NEW s \in Svcs
               PROVE  /\ begun'[s] > 0 => Known(s) /\ ~Virgin(s, status')
                      /\ Known(s) /\ begun'[s] = 0 =>
                           \/ Virgin(s, status')
                           \/ status'[s] \cap {"NEED_FAILD", "BAD_ERR"} # {}
    BY <1>4 DEF Begun
  <2>1. CASE s = tmp
    BY <1>3, <2>1 DEF Ends
  <2>2. CASE s # tmp
    <3>1. begun'[s] = begun[s] /\ (Virgin(s, status') <=> Virgin(s, status))
          /\ status[s] \subseteq status'[s]
      BY <1>5, <2>2
    <3> QED
      BY <1>1, <3>1 DEF Begun
  <2> QED
    BY <2>1, <2>2
<1>12. NeedsFirst'
  <2> SUFFICES ASSUME NEW s \in Svcs, NEW n \in Svcs, begun'[s] > 0, n \in To(conf.needs[s])
               PROVE  /\ begun'[n] > 0
                      /\ status'[n] \cap {"ONCE_RUN", "BAD_ERR", "NEED_FAILD"} = {}
    BY DEF NeedsFirst
  <2>1. begun[n] > 0 /\ status[n] \cap {"ONCE_RUN", "BAD_ERR", "NEED_FAILD"} = {}
    <3>1. CASE s = tmp
      <4>1. status[n] \cap {"SH_ONCE", "SH_RESPAWN", "ONCE_RUN", "BAD_ERR", "NEED_FAILD"} = {}
        BY <3>1 DEF Ends
      <4>2. Known(n)
        <5>1. ToSet(dep["needs"][tmp]) = To(conf["needs"][tmp])
          BY <1>1, <1>2, <1>3, EntriesOf DEF Kinds
        <5> QED
          BY <1>1, <1>2, <3>1, <5>1 DEF Mirrored, Kinds
      <4>3. ~Virgin(n, status) /\ status[n] \cap {"NEED_FAILD", "BAD_ERR"} = {}
        BY <4>1 DEF Virgin
      <4>4. begun[n] # 0 /\ begun[n] \in Nat
        BY <1>1, <4>2, <4>3 DEF Begun, TreeTypes
      <4> QED
        BY <4>1, <4>4
    <3>2. CASE s # tmp
      <4>1. begun[s] > 0 /\ Starting
        BY <3>2 DEF Starting
      <4> QED
        BY <1>1, <4>1 DEF NeedsFirst
    <3> QED
      BY <3>1, <3>2
  <2>2. n # tmp
    BY <1>6, <2>1
  <2>3. begun'[n] = begun[n] /\ status'[n] \subseteq status[n] \cup {"IN_LIST"}
    BY <2>2
  <2> QED
    BY <2>1, <2>3
<1> QED
  BY <1>1, <1>4, <1>8, <1>9, <1>10, <1>11, <1>12 DEF ExecInv

\* fork() for ./on succeeds or fails.
LEMMA StartFacts ==
  ASSUME ExecInv, NEW tmp \in Svcs, begun[tmp] = 0, NEW f \in SvcStart(tmp)
  PROVE  /\ f.status \in [Svcs -> SUBSET Bits] /\ f.begun \in [Svcs -> Nat]
         /\ \A s \in Svcs : s # tmp => f.status[s] = status[s] /\ f.begun[s] = begun[s]
         /\ ~Virgin(tmp, f.status)
         /\ \/ f.begun[tmp] > 0
            \/ f.begun[tmp] = 0 /\ f.status[tmp] = {"BAD_ERR"}
<1> DEFINE b == IF "SH_ONCE" \in status[tmp] THEN "ONCE_RUN" ELSE "RESPAWNING"
<1>1. b \in Bits /\ b \notin {"SH_ONCE", "SH_RESPAWN"}
  BY DEF Bits
<1>2. /\ status \in [Svcs -> SUBSET Bits] /\ begun \in [Svcs -> Nat]
  BY DEF ExecInv, TreeTypes
<1>3. f \in Forks(tmp, "on", {b})
  BY DEF SvcStart
<1> HIDE DEF b
<1>4. \/ f.status = [status EXCEPT ![tmp] = {b}] /\ f.begun = [begun EXCEPT ![tmp] = begun[tmp] + 1]
      \/ f.status = [status EXCEPT ![tmp] = {"BAD_ERR"}] /\ f.begun = begun
  <2>1. CASE \E p \in Pids :
               f = [procs |-> [procs EXCEPT ![p] = [svc |-> tmp, prog |-> "on", st |-> "live"]],
                    pid |-> [pid EXCEPT ![tmp] = p], fails |-> fails,
                    status |-> [status EXCEPT ![tmp] = {b}],
                    begun |-> [begun EXCEPT ![tmp] = begun[tmp] + 1]]
    BY <2>1
  <2>2. CASE /\ f.status = [status EXCEPT ![tmp] = {"BAD_ERR"}]
             /\ f.begun = begun
    BY <2>2
  <2> QED
    BY <1>3, <2>1, <2>2 DEF Forks, Free
<1>5. "BAD_ERR" \in Bits
  BY DEF Bits
<1>6. CASE f.status = [status EXCEPT ![tmp] = {b}] /\ f.begun = [begun EXCEPT ![tmp] = begun[tmp] + 1]
  <2>1. begun[tmp] + 1 = 1
    OBVIOUS
  <2> QED
    BY <1>1, <1>2, <1>6, <2>1 DEF Virgin
<1>7. CASE f.status = [status EXCEPT ![tmp] = {"BAD_ERR"}] /\ f.begun = begun
  BY <1>2, <1>5, <1>7 DEF Virgin
<1> QED
  BY <1>4, <1>6, <1>7

\* Those that are added to the list: once each, to be started, and not in it yet.
LEMMA AddedFacts ==
  ASSUME TreeTypes, Mirrored, NEW tmp \in Svcs, NEW st, NEW new \in DepNeedsWantsAdd(tmp, st)
  PROVE  /\ new \in Seq(Svcs) /\ IsInjective(new)
         /\ \A x \in ToSet(new) : /\ x \in Svcs /\ Known(x)
                                  /\ Virgin(x, st) /\ "IN_LIST" \notin st[x]
<1> DEFINE list == dep.needed_by[tmp] \o dep.wanted_by[tmp]
           is == {i \in DOMAIN list : /\ Virgin(list[i], st) /\ "IN_LIST" \notin st[list[i]]
                                      /\ \A j \in 1 .. i - 1 : list[j] # list[i]}
<1>1. /\ dep["needed_by"][tmp] \in Seq(Svcs) /\ dep["wanted_by"][tmp] \in Seq(Svcs)
      /\ \A x \in ToSet(dep["needed_by"][tmp]) \cup ToSet(dep["wanted_by"][tmp]) :
           x \in Svcs /\ Known(x)
  <2>1. /\ dep["needed_by"][tmp] \in Seq(Svcs) /\ ToSet(dep["needed_by"][tmp]) \subseteq Svcs
        /\ dep["wanted_by"][tmp] \in Seq(Svcs) /\ ToSet(dep["wanted_by"][tmp]) \subseteq Svcs
    BY ListFacts DEF Lists
  <2>2. /\ \A s, t \in Svcs : t \in ToSet(dep["needs"][s]) <=> s \in ToSet(dep["needed_by"][t])
        /\ \A s, t \in Svcs : t \in ToSet(dep["wants"][s]) <=> s \in ToSet(dep["wanted_by"][t])
    BY DEF Mirrored, Kinds, Back
  <2>3. /\ \A s, t \in Svcs : t \in ToSet(dep["needs"][s]) => Known(s)
        /\ \A s, t \in Svcs : t \in ToSet(dep["wants"][s]) => Known(s)
    BY DEF Mirrored, Kinds
  <2> QED
    BY <2>1, <2>2, <2>3
<1>2. /\ list \in Seq(Svcs)
      /\ ToSet(list) = ToSet(dep["needed_by"][tmp]) \cup ToSet(dep["wanted_by"][tmp])
  BY <1>1, ConcatFacts
<1>3. new \in Taken(list, is)
  BY DEF DepNeedsWantsAdd, IdleOf
<1> HIDE DEF list
<1>4. DOMAIN list = 1 .. Len(list) /\ Len(list) \in Nat
  BY <1>2
<1>5. /\ is \in SUBSET DOMAIN list
      /\ \A i \in is : /\ Virgin(list[i], st) /\ "IN_LIST" \notin st[list[i]]
                        /\ list[i] \in ToSet(list)
  BY DEF ToSet
<1>6. \A i, j \in is : list[i] = list[j] => i = j
  <2> SUFFICES ASSUME NEW i \in is, NEW j \in is, list[i] = list[j], i # j
               PROVE  FALSE
    OBVIOUS
  <2>1. i \in Nat /\ j \in Nat /\ 1 <= i /\ 1 <= j
    BY <1>4, <1>5
  <2>2. CASE i < j
    <3>1. i \in 1 .. j - 1
      BY <2>1, <2>2
    <3> QED
      BY <3>1
  <2>3. CASE j < i
    <3>1. j \in 1 .. i - 1
      BY <2>1, <2>3
    <3> QED
      BY <3>1
  <2> QED
    BY <2>1, <2>2, <2>3
<1> HIDE DEF is
<1>7. /\ new \in Seq(Svcs) /\ IsInjective(new)
      /\ \A x \in ToSet(new) : \E i \in is : x = list[i]
  BY <1>2, <1>3, <1>5, <1>6, TakenFacts
<1> QED
  BY <1>1, <1>2, <1>5, <1>7

LEMMA ExecStep ==
  ASSUME StartInv, Exec
  PROVE  StartInv'
<1> DEFINE tmp == Head(pending)
<1>1. pc = "exec" /\ ExecInv /\ UNCHANGED <<conf, svc_list, dep, stack>>
  BY DEF Exec, StartInv, treevars
<1>2. pc' = IF pending' = <<>> THEN "changed" ELSE "exec"
  BY <1>1 DEF Exec
<1>3. SUFFICES ASSUME pending' # <<>>
               PROVE  ExecInv'
  BY <1>2 DEF StartInv
<1>4. /\ tmp \in Svcs /\ tmp \in ToSet(pending)
      /\ pending # <<>> /\ pending \in Seq(Svcs) /\ IsInjective(pending)
      /\ Tail(pending) \in Seq(Svcs) /\ IsInjective(Tail(pending))
      /\ tmp \notin ToSet(Tail(pending)) /\ ToSet(Tail(pending)) \subseteq ToSet(pending)
  <2>1. pending # <<>> /\ pending \in Seq(Svcs) /\ IsInjective(pending)
    BY <1>1 DEF ExecInv, TreeTypes, PendingOnce
  <2> QED
    BY <2>1, TailFacts
<1>5. /\ TreeTypes /\ Mirrored /\ Known(tmp) /\ Virgin(tmp, status)
      /\ status \in [Svcs -> SUBSET Bits] /\ begun \in [Svcs -> Nat]
  BY <1>1, <1>4 DEF ExecInv, PendingOnce, TreeTypes
<1>6. begun[tmp] = 0
  BY <1>1, <1>4, <1>5 DEF ExecInv, Begun
<1>7. \/ SvcNeedsStatus(tmp) = "STARTED"
      \/ SvcNeedsStatus(tmp) = "FAILED"
      \/ SvcNeedsStatus(tmp) = "UNFINISHED"
  BY DEF SvcNeedsStatus
<1>8. CASE SvcNeedsStatus(tmp) = "STARTED"
  <2>1. PICK f \in SvcStart(tmp) : \E new \in DepNeedsWantsAdd(tmp, f.status) :
          /\ Forked(f)
          /\ pending' = Tail(pending) \o new
          /\ status' = [s \in Svcs |->
                IF s \in ToSet(new) THEN f.status[s] \cup {"IN_LIST"} ELSE f.status[s]]
    BY <1>8 DEF Exec
  <2>2. PICK new \in DepNeedsWantsAdd(tmp, f.status) :
          /\ Forked(f)
          /\ pending' = Tail(pending) \o new
          /\ status' = [s \in Svcs |->
                IF s \in ToSet(new) THEN f.status[s] \cup {"IN_LIST"} ELSE f.status[s]]
    BY <2>1
  <2>3. begun' = f.begun
    BY <2>2 DEF Forked
  <2>4. /\ f.status \in [Svcs -> SUBSET Bits] /\ f.begun \in [Svcs -> Nat]
        /\ \A s \in Svcs : s # tmp => f.status[s] = status[s] /\ f.begun[s] = begun[s]
        /\ ~Virgin(tmp, f.status)
        /\ \/ f.begun[tmp] > 0
           \/ f.begun[tmp] = 0 /\ f.status[tmp] = {"BAD_ERR"}
    BY <1>1, <1>4, <1>6, StartFacts
  <2>5. /\ new \in Seq(Svcs) /\ IsInjective(new)
        /\ \A x \in ToSet(new) : /\ x \in Svcs /\ Known(x)
                                 /\ Virgin(x, f.status) /\ "IN_LIST" \notin f.status[x]
    BY <1>4, <1>5, <2>2, AddedFacts
  <2>6. /\ tmp \notin ToSet(new)
        /\ \A x \in ToSet(new) : /\ x # tmp /\ Known(x) /\ Virgin(x, status)
                                 /\ "IN_LIST" \notin status[x]
    BY <2>4, <2>5 DEF Virgin
  <2>7. /\ status' \in [Svcs -> SUBSET Bits] /\ status'[tmp] = f.status[tmp]
        /\ \A s \in Svcs : s # tmp => status'[s] = status[s] \cup
                            IF s \in ToSet(new) THEN {"IN_LIST"} ELSE {}
    <3>1. "IN_LIST" \in Bits
      BY DEF Bits
    <3> QED
      BY <1>4, <2>2, <2>4, <2>6, <3>1
  <2>8. ~Virgin(tmp, status')
    BY <2>4, <2>7 DEF Virgin
  <2>9. begun' \in [Svcs -> Nat] /\ \A s \in Svcs : s # tmp => begun'[s] = begun[s]
    BY <2>3, <2>4
  <2>10. Ends(tmp)
    <3>1. CASE f.begun[tmp] > 0
      <4> DEFINE bits == UNION {status[n] : n \in ToSet(dep.needs[tmp])}
                 none == {"SH_ONCE", "SH_RESPAWN", "ONCE_RUN", "BAD_ERR", "NEED_FAILD"}
      <4>1. /\ bits \cap none = {}
            /\ \A n \in ToSet(dep.needs[tmp]) : status[n] \subseteq bits
        <5>1. SvcNeedsStatus(tmp) =
                IF bits \cap {"NEED_FAILD", "ONCE_FAIL", "BAD_ERR"} # {} THEN "FAILED"
                ELSE IF bits \cap {"SH_ONCE", "SH_RESPAWN", "ONCE_RUN"} # {} THEN "UNFINISHED"
                     ELSE "STARTED"
          BY DEF SvcNeedsStatus
        <5>2. \A n \in ToSet(dep.needs[tmp]) : status[n] \subseteq bits
          OBVIOUS
        <5> HIDE DEF bits
        <5>3. /\ bits \cap {"NEED_FAILD", "ONCE_FAIL", "BAD_ERR"} = {}
              /\ bits \cap {"SH_ONCE", "SH_RESPAWN", "ONCE_RUN"} = {}
          BY <1>8, <5>1
        <5> QED
          BY <5>2, <5>3
      <4> HIDE DEF bits
      <4>2. ToSet(dep["needs"][tmp]) = To(conf["needs"][tmp])
        BY <1>1, <1>4, <1>5, EntriesOf DEF ExecInv, Kinds
      <4>3. \A n \in To(conf.needs[tmp]) :
              status[n] \cap {"SH_ONCE", "SH_RESPAWN", "ONCE_RUN", "BAD_ERR", "NEED_FAILD"} = {}
        BY <4>1, <4>2
      <4> QED
        BY <2>3, <3>1, <4>3 DEF Ends
    <3>2. CASE f.begun[tmp] = 0 /\ f.status[tmp] = {"BAD_ERR"}
      BY <2>3, <2>7, <3>2 DEF Ends
    <3> QED
      BY <2>4, <3>1, <3>2
  <2> HIDE DEF tmp
  <2>11. tmp = Head(pending)
    BY DEF tmp
  <2> QED
    BY <1>1, <1>3, <2>2, <2>5, <2>6, <2>7, <2>8, <2>9, <2>10, <2>11, TakeStep
<1>9. CASE SvcNeedsStatus(tmp) = "FAILED"
  <2>1. /\ status' = [status EXCEPT ![tmp] = {"NEED_FAILD"}]
        /\ pending' = Tail(pending) /\ UNCHANGED begun
    BY <1>9 DEF Exec
  <2> DEFINE new == <<>>
  <2>2. new \in Seq(Svcs) /\ IsInjective(new) /\ ToSet(new) = {}
    BY DEF IsInjective, ToSet
  <2>3. pending' = Tail(pending) \o new
    BY <1>4, <2>1
  <2> HIDE DEF new
  <2>4. /\ status' \in [Svcs -> SUBSET Bits] /\ status'[tmp] = {"NEED_FAILD"}
        /\ \A s \in Svcs : s # tmp => status'[s] = status[s] \cup
                            IF s \in ToSet(new) THEN {"IN_LIST"} ELSE {}
    <3>1. "NEED_FAILD" \in Bits
      BY DEF Bits
    <3> QED
      BY <1>4, <1>5, <2>1, <2>2, <3>1
  <2>5. ~Virgin(tmp, status') /\ Ends(tmp)
    BY <1>6, <2>1, <2>4 DEF Virgin, Ends
  <2>6. \A x \in ToSet(new) : /\ x # tmp /\ Known(x) /\ Virgin(x, status)
                               /\ "IN_LIST" \notin status[x]
    BY <2>2
  <2>7. begun' \in [Svcs -> Nat] /\ \A s \in Svcs : s # tmp => begun'[s] = begun[s]
    BY <1>5, <2>1
  <2> HIDE DEF tmp
  <2>8. tmp = Head(pending)
    BY DEF tmp
  <2> QED
    BY <1>1, <1>3, <2>2, <2>3, <2>4, <2>5, <2>6, <2>7, <2>8, TakeStep
<1>10. CASE SvcNeedsStatus(tmp) = "UNFINISHED"
  <2>1. pending' = Append(Tail(pending), tmp) /\ UNCHANGED <<status, begun>>
    BY <1>10 DEF Exec, svcvars
  <2>2. /\ Append(Tail(pending), tmp) \in Seq(Svcs)
        /\ IsInjective(Append(Tail(pending), tmp))
        /\ ToSet(Append(Tail(pending), tmp)) = ToSet(Tail(pending)) \cup {tmp}
    <3> DEFINE t == Tail(pending)
    <3>1. t \in Seq(Svcs) /\ tmp \in Svcs /\ IsInjective(t) /\ tmp \notin ToSet(t)
      BY <1>4
    <3> HIDE DEF t, tmp
    <3>2. /\ Append(t, tmp) \in Seq(Svcs) /\ IsInjective(Append(t, tmp))
          /\ ToSet(Append(t, tmp)) = ToSet(t) \cup {tmp}
      BY <3>1, AppendFacts
    <3> QED
      BY <3>2 DEF t
  <2>3. /\ pending' \in Seq(Svcs) /\ IsInjective(pending') /\ ToSet(pending') \subseteq ToSet(pending)
    BY <1>4, <2>1, <2>2
  <2>4. PendingOnce'
    BY <1>1, <2>1, <2>3 DEF ExecInv, PendingOnce, Known
  <2>5. Begun' /\ RootFirst' /\ Mirrored' /\ Once'
    BY <1>1, <2>1 DEF ExecInv, Begun, RootFirst, Mirrored, Once, Known, Reached
  <2>6. NeedsFirst'
    BY <1>1, <2>1 DEF ExecInv, NeedsFirst, Starting
  <2>7. TreeTypes'
    BY <1>1, <2>1, <2>3 DEF ExecInv, TreeTypes
  <2> QED
    BY <1>1, <1>3, <2>1, <2>4, <2>5, <2>6, <2>7 DEF ExecInv, Known
<1> QED
  BY <1>7, <1>8, <1>9, <1>10

-----------------------------------------------------------------------------
(* The rest of cinit                                                       *)

LEMMA StartInit ==
  ASSUME CmdInit
  PROVE  StartInv
<1>1. /\ conf \in Confs /\ svc_list = <<>> /\ stack = <<>> /\ pending = <<>>
      /\ dep = [l \in Lists |-> [s \in Svcs |-> <<>>]]
      /\ status = [s \in Svcs |-> {}] /\ begun = [s \in Svcs |-> 0] /\ pc = "tree"
  BY DEF CmdInit, Init
<1>2. ToSet(<<>>) = {} /\ IsInjective(<<>>) /\ DOMAIN <<>> = {}
  BY DEF ToSet, IsInjective
<1>3. \A S : <<>> \in Seq(S)
  OBVIOUS
<1>5. \A l \in Lists, s \in Svcs : dep[l][s] = <<>>
  BY <1>1
<1>6. TreeTypes
  <2>1. dep \in [Lists -> [Svcs -> Seq(Svcs)]]
    BY <1>1, <1>3
  <2>2. status \in [Svcs -> SUBSET Bits] /\ begun \in [Svcs -> Nat]
    BY <1>1
  <2> QED
    BY <1>1, <1>3, <2>1, <2>2 DEF TreeTypes
<1>7. \A s : ~Known(s)
  BY <1>1, <1>2 DEF Known
<1>8. Mirrored
  <2>1. \A k \in Kinds : k \in Lists /\ Back(k) \in Lists
    BY DEF Kinds, Lists, Back
  <2>2. \A k \in Kinds, s \in Svcs : ToSet(dep[k][s]) = {} /\ ToSet(dep[Back(k)][s]) = {}
    BY <1>2, <1>5, <2>1
  <2>3. \A s, t : Times(<<>>, s) = Times(<<>>, t)
    <3>1. \A s : {i \in DOMAIN <<>> : <<>>[i] = s} = {}
      OBVIOUS
    <3> QED
      BY <3>1 DEF Times
  <2>4. \A k \in Kinds, s, t \in Svcs : Times(dep[k][s], t) = Times(dep[Back(k)][t], s)
    BY <1>5, <2>1, <2>3
  <2> QED
    BY <2>2, <2>4 DEF Mirrored
<1>9. Once /\ PendingOnce
  BY <1>1, <1>2 DEF Once, PendingOnce
<1>10. Frames /\ Entered
  BY <1>1, <1>2, <1>3, <1>7 DEF Frames, Entered
<1>11. RootFirst
  BY <1>1, <1>7 DEF RootFirst
<1>12. \A s \in Svcs : begun[s] = 0 /\ (Known(s) => Virgin(s, status))
  BY <1>1, <1>7
<1> QED
  BY <1>1, <1>6, <1>8, <1>9, <1>10, <1>11, <1>12 DEF StartInv, TreeInv

\* The steps that leave the tree, the list and the statuses alone.
LEMMA StartKept ==
  ASSUME StartInv, pc' \in {"tree", "exec"} => pc' = pc,
         UNCHANGED <<conf, svc_list, dep, stack, pending, status, begun>>
  PROVE  StartInv'
<1>1. ASSUME TreeInv
      PROVE  TreeInv'
  <2>1. TreeTypes' /\ Once' /\ Mirrored' /\ PendingOnce' /\ RootFirst'
    BY <1>1 DEF TreeInv, TreeTypes, Once, Mirrored, PendingOnce, RootFirst, Reached, Known
  <2>2. Frames'
    <3>1. ASSUME NEW i \in DOMAIN stack
          PROVE  Reads(stack[i])'
      <4>1. Reads(stack[i])
        BY <1>1 DEF TreeInv, Frames
      <4>2. StillReads(stack[i])
        BY <4>1 DEF Reads, StillReads
      <4> QED
        BY <4>2 DEF StillReads, Reads, ToCome
    <3>2. \A i \in DOMAIN stack : Known(stack[i].svc)'
      BY <1>1 DEF TreeInv, Frames, Known
    <3> QED
      BY <1>1, <3>1, <3>2 DEF TreeInv, Frames
  <2>3. Entered'
    BY <1>1 DEF TreeInv, Entered, Known
  <2> QED
    BY <1>1, <2>1, <2>2, <2>3 DEF TreeInv, Known
<1>2. ASSUME pc = "exec", pc' = "exec", ExecInv
      PROVE  ExecInv'
  <2>1. TreeTypes' /\ Once' /\ Mirrored' /\ PendingOnce' /\ RootFirst' /\ Begun'
    BY <1>2
    DEF ExecInv, TreeTypes, Once, Mirrored, PendingOnce, RootFirst, Reached, Known, Begun
  <2>2. NeedsFirst'
    BY <1>2 DEF ExecInv, NeedsFirst, Starting
  <2> QED
    BY <1>2, <2>1, <2>2 DEF ExecInv, Known
<1> QED
  BY <1>1, <1>2 DEF StartInv

LEMMA StartNext ==
  ASSUME StartInv, [Next]_vars
  PROVE  StartInv'
<1>1. CASE Step
  <2>1. CASE Gen
    BY <2>1, GenStep
  <2>2. CASE Exec
    BY <2>2, ExecStep
  <2>3. CASE Changed \/ ChangedDone \/ HandlePending \/ Down
    BY <2>3 DEF Changed, ChangedDone, HandlePending, Down, StartInv
  <2>4. CASE Receive \/ Stat \/ Answer
    BY <2>4 DEF Receive, Stat, Answer, StartInv
  <2> QED
    BY <1>1, <2>1, <2>2, <2>3, <2>4 DEF Step, Main
<1>2. ASSUME NEW p \in Pids, ChildDies(p)
      PROVE  StartInv'
  <2>1. UNCHANGED <<conf, svc_list, dep, stack, pending, status, begun>>
    BY <1>2 DEF ChildDies, Die, treevars
  <2>2. pc' \in {"tree", "exec"} => pc' = pc
    BY <1>2 DEF ChildDies
  <2> QED
    BY <2>1, <2>2, StartKept
<1>3. CASE DoReboot
  BY <1>3 DEF DoReboot, StartInv
<1>4. CASE UNCHANGED cvars
  BY <1>4, StartKept DEF cvars
<1> QED
  BY <1>1, <1>2, <1>3, <1>4 DEF Next, vars

\* At each entry that is read and at each service that is started, the lists of
\* gen_svc_tree(), the calls of it that have not returned and the list of
\* svc_tree_exec() fit each other.
THEOREM StartInvariant == Spec => []StartInv
<1>1. CmdInit => StartInv
  BY StartInit
<1>2. StartInv /\ [Next]_vars => StartInv'
  BY StartNext
<1> QED
  BY <1>1, <1>2, PTL DEF Spec

\* README of cinit: "D will only be started, if B is successfully started". While the
\* tree is started, nothing was begun before what it needs was, and no needed service
\* that is to end first, or has failed, is taken for started (svc_needs_status).
THEOREM NeedsBegunFirst == Spec => []NeedsFirst
<1>1. StartInv => NeedsFirst
  BY DEF StartInv, TreeInv, ExecInv, NeedsFirst, Starting
<1> QED
  BY <1>1, StartInvariant, PTL

\* As many services as are reached.
LEMMA ListLength ==
  ASSUME svc_list \in Seq(Svcs), Once, ToSet(svc_list) = Reached
  PROVE  Len(svc_list) = Cardinality(Reached)
<1> DEFINE n == Len(svc_list)
<1>1. n \in Nat /\ DOMAIN svc_list = 1 .. n
  OBVIOUS
<1>2. svc_list \in [1 .. n -> Reached]
  <2>1. \A i \in 1 .. n : svc_list[i] \in Reached
    BY <1>1 DEF ToSet
  <2>2. svc_list \in [1 .. n -> Svcs]
    OBVIOUS
  <2> QED
    BY <2>1, <2>2
<1>3. \A t \in Reached : \E i \in 1 .. n : svc_list[i] = t
  BY <1>1 DEF ToSet
<1>4. svc_list \in Bijection(1 .. n, Reached)
  BY <1>1, <1>2, <1>3 DEF Bijection, Injection, Surjection, IsInjective, Once
<1>5. ExistsBijection(1 .. n, Reached)
  BY <1>4 DEF ExistsBijection
<1> QED
  BY <1>1, <1>5, FS_CountingElements

\* When the tree has been read every service CINIT_INIT leads to is there once, with an
\* entry for each link of its directories, and each service is told who depends on it as
\* often as links lead to it, for every services directory, with links of any name to
\* any service, and every order it is read in (gen_svc_tree, check_add_deps).
THEOREM TreeMirrored == Spec => []TreeIsMirrored
<1>1. ASSUME StartInv
      PROVE  TreeIsMirrored
  <2>1. SUFFICES ASSUME pc = "exec"
                 PROVE  TreeIsMirrored
    BY DEF TreeIsMirrored
  <2>2. /\ TreeTypes /\ Once /\ Mirrored /\ RootFirst /\ svc_list # <<>>
        /\ \A s \in Svcs : Known(s) => \A k \in Kinds : Holds(dep[k][s], conf[k][s])
    BY <1>1, <2>1 DEF StartInv, ExecInv
  <2>3. /\ svc_list \in Seq(Svcs) /\ \A s : Known(s) => s \in Svcs
        /\ \A k \in Kinds : k \in Lists /\ Back(k) \in Lists
        /\ \A l \in Lists, s \in Svcs : ToSet(dep[l][s]) \subseteq Svcs
    BY <2>2, ListFacts DEF TreeTypes
  <2>4. ToSet(svc_list) = Reached
    <3> DEFINE all == {s \in Svcs : Known(s)}
    <3>1. Root \in all
      BY <2>2, <2>3 DEF RootFirst
    <3>2. \A s \in all, k \in Kinds : To(conf[k][s]) \subseteq all
      <4> SUFFICES ASSUME NEW s \in Svcs, Known(s), NEW k \in Kinds, NEW t \in To(conf[k][s])
                   PROVE  t \in Svcs /\ Known(t)
        OBVIOUS
      <4>1. t \in ToSet(dep[k][s])
        BY <2>2, EntriesOf
      <4>2. t \in Svcs
        BY <2>3, <4>1
      <4> QED
        BY <2>2, <4>1, <4>2 DEF Mirrored
    <3>3. Reached \subseteq all
      <4>1. all \in SUBSET Svcs
        OBVIOUS
      <4> HIDE DEF all
      <4> QED
        BY <2>2, <3>1, <3>2, <4>1, ReachedFacts
    <3>4. all \subseteq Reached
      BY <2>2 DEF RootFirst
    <3>5. ToSet(svc_list) = all
      BY <2>3 DEF Known
    <3> QED
      BY <3>3, <3>4, <3>5
  <2>5. Len(svc_list) = Cardinality(Reached)
    BY <2>2, <2>3, <2>4, ListLength
  <2>6. \A s : Known(s) <=> s \in Reached
    BY <2>4 DEF Known
  <2>7. ASSUME NEW s \in Reached, NEW k \in Kinds
        PROVE  /\ Holds(dep[k][s], conf[k][s])
               /\ ToSet(dep[Back(k)][s]) \subseteq Reached
               /\ \A t \in Reached :
                    Times(dep[Back(k)][s], t) = Cardinality({l \in conf[k][t] : l.to = s})
    <3>1. s \in Svcs /\ Holds(dep[k][s], conf[k][s])
      BY <2>2, <2>3, <2>6
    <3>2. ASSUME NEW t \in ToSet(dep[Back(k)][s])
          PROVE  t \in Reached
      <4>1. t \in Svcs
        BY <2>3, <3>1
      <4>2. s \in ToSet(dep[k][t])
        BY <2>2, <3>1, <4>1 DEF Mirrored
      <4> QED
        BY <2>2, <2>6, <3>1, <4>1, <4>2 DEF Mirrored
    <3>3. ASSUME NEW t \in Reached
          PROVE  Times(dep[Back(k)][s], t) = Cardinality({l \in conf[k][t] : l.to = s})
      <4>1. t \in Svcs /\ Holds(dep[k][t], conf[k][t])
        BY <2>2, <2>3, <2>6
      <4>2. Times(dep[k][t], s) = Times(dep[Back(k)][s], t)
        BY <2>2, <3>1, <4>1 DEF Mirrored
      <4> QED
        BY <3>1, <4>1, <4>2 DEF Holds
    <3> QED
      BY <3>1, <3>2, <3>3
  <2>8. ASSUME NEW s \in Reached
        PROVE  /\ Holds(dep["needs"][s], conf["needs"][s])
               /\ Holds(dep["wants"][s], conf["wants"][s])
               /\ ToSet(dep["needed_by"][s]) \cup ToSet(dep["wanted_by"][s]) \subseteq Reached
               /\ \A t \in Reached :
                    /\ Times(dep["needed_by"][s], t)
                         = Cardinality({l \in conf["needs"][t] : l.to = s})
                    /\ Times(dep["wanted_by"][s], t)
                         = Cardinality({l \in conf["wants"][t] : l.to = s})
    <3>1. /\ "needs" \in Kinds /\ "wants" \in Kinds
          /\ Back("needs") = "needed_by" /\ Back("wants") = "wanted_by"
      BY DEF Kinds, Back
    <3>2. /\ Holds(dep["needs"][s], conf["needs"][s])
          /\ ToSet(dep["needed_by"][s]) \subseteq Reached
          /\ \A t \in Reached : Times(dep["needed_by"][s], t)
                                 = Cardinality({l \in conf["needs"][t] : l.to = s})
      BY <2>7, <3>1
    <3>3. /\ Holds(dep["wants"][s], conf["wants"][s])
          /\ ToSet(dep["wanted_by"][s]) \subseteq Reached
          /\ \A t \in Reached : Times(dep["wanted_by"][s], t)
                                 = Cardinality({l \in conf["wants"][t] : l.to = s})
      BY <2>7, <3>1
    <3> QED
      BY <3>2, <3>3
  <2> QED
    BY <2>4, <2>5, <2>8 DEF TreeIsMirrored
<1> QED
  BY <1>1, StartInvariant, PTL

=============================================================================
