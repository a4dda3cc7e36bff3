------------------------------ MODULE CinitCmd ------------------------------
(***************************************************************************)
(* cinit and its clients, the processes cmd(1), over two System V message  *)
(* queues.  A question is put into one queue by cinit_ipc_csend; cinit     *)
(* takes it in cinit_ipc_listen, asks the kernel who wrote to the queue    *)
(* last, and addresses its answer to that process in the other queue,      *)
(* where cinit_ipc_cread waits for its own.                                *)
(***************************************************************************)
EXTENDS Cinit

CONSTANTS
  Clients,       \* their process ids
  Askers(_),     \* those that ask questions, with what is in the directories
  Cmds,          \* what they ask
  QueueLen,      \* the messages a queue holds: 16 kB, of which each takes 4
  MaxQsns,       \* bound: questions
  MaxKills       \* bound: clients that are killed

AllCmds == {"VERSION", "STATUS", "PID", "DISABLE", "ENABLE"}

ASSUME CinitCmdAssumption ==
  /\ \A k \in Confs : Askers(k) \subseteq Clients
  /\ Cmds \subseteq AllCmds
  /\ QueueLen \in Nat \ {0} /\ MaxQsns \in Nat /\ MaxKills \in Nat

VARIABLES
  mq_in, mq_out, \* the queues, as cinit names them
  lspid,         \* msg_lspid of mq_in, as a set
  qsn, asr,      \* what cinit is at
  client,        \* what each client is at
  answer,        \* the answer each client has got, as a sequence
  qsns, kills,   \* counters of the bounded events
  mixed,         \* history: a question came while another was not stat'ed, or
                 \* a client left its answer behind
  dropped        \* history: those whose answer there was no room for

ipcvars == <<mq_in, mq_out, lspid, qsn, asr, client, answer, qsns, kills, mixed,
             dropped>>
vars == <<cvars, ipcvars>>

\* who is not in the message: it is the client that asked, for the properties.
Qsn == [who : Clients, cmd : AllCmds, svc : Svcs]
Asr == [who : Clients, to : Clients, ret : {"OK", "UNKNOWN", "INTERN"}]

CmdInit ==
  /\ Init
  /\ mq_in = <<>> /\ mq_out = <<>> /\ lspid = {}
  /\ qsn = <<>> /\ asr = <<>>
  /\ client = [c \in Clients |-> "idle"]
  /\ answer = [c \in Clients |-> <<>>]
  /\ qsns = 0 /\ kills = 0 /\ mixed = FALSE /\ dropped = {}

Running == pc \notin Final
Queues == Running /\ pc # "down"     \* cinit_ipc_destroy() comes first

-----------------------------------------------------------------------------
(* cinit: cinit_ipc_listen()                                               *)

Receive ==
  /\ pc = "listen" /\ mq_in # <<>>
  /\ qsn' = <<Head(mq_in)>> /\ mq_in' = Tail(mq_in)
  /\ pc' = "stat"
  /\ UNCHANGED <<conf, treevars, pending, svcvars, svc_exited, fails, halts,
                 mq_out, lspid, asr, client, answer, qsns, kills, mixed, dropped>>

\* read_command(): what it does to the service, and what it answers.
Reply(q, ret, to) == [who |-> q.who, to |-> to, ret |-> ret]

ReadCommand(q, to) ==
  CASE q.cmd = "ENABLE" ->
         asr' = <<Reply(q, "INTERN", to)>> /\ UNCHANGED <<svcvars, fails>>
    [] q.cmd = "VERSION" ->
         asr' = <<Reply(q, "OK", to)>> /\ UNCHANGED <<svcvars, fails>>
    [] q.cmd \notin {"ENABLE", "VERSION"} /\ ~Known(q.svc) ->
         asr' = <<Reply(q, "UNKNOWN", to)>> /\ UNCHANGED <<svcvars, fails>>
    [] q.cmd \in {"STATUS", "PID"} /\ Known(q.svc) ->
         asr' = <<Reply(q, "OK", to)>> /\ UNCHANGED <<svcvars, fails>>
    [] q.cmd = "DISABLE" /\ Known(q.svc) ->
         \E f \in Forks(q.svc, "off", {"SH_STOP"}) :
           /\ Forked(f) /\ status' = f.status
           /\ asr' = <<Reply(q, IF f.status[q.svc] = {"SH_STOP"} THEN "OK" ELSE "INTERN", to)>>

\* msgctl(IPC_STAT) and read_command(): the answer goes to who wrote last.
Stat ==
  /\ pc = "stat"
  /\ \E to \in lspid : ReadCommand(qsn[1], to)
  /\ qsn' = <<>> /\ pc' = "answer"
  /\ UNCHANGED <<conf, treevars, pending, svc_exited, halts,
                 mq_in, mq_out, lspid, client, answer, qsns, kills, mixed, dropped>>

\* Slip: a command that failed is not answered.
PutOk == IF asr[1].ret = "INTERN" THEN mq_out ELSE Append(mq_out, asr[1])

Put == Append(mq_out, asr[1])

\* msgsnd() waits while the queue is full.
Answer ==
  /\ pc = "answer" /\ Len(mq_out) < QueueLen
  /\ mq_out' = Put /\ asr' = <<>>
  /\ pc' = "changed"
  /\ UNCHANGED <<conf, treevars, pending, svcvars, svc_exited, fails, halts,
                 mq_in, lspid, qsn, client, answer, qsns, kills, mixed, dropped>>

\* SIGCHLD ends the wait for a message, and the one for room in the queue, whose
\* answer is lost.
ChildDies(p) ==
  /\ Die(p)
  /\ LET full == pc = "answer" /\ Len(mq_out) >= QueueLen
     IN  /\ pc' = IF pc = "listen" \/ full THEN "changed" ELSE pc
         /\ asr' = IF full THEN <<>> ELSE asr
         /\ dropped' = IF full THEN dropped \cup {asr[1].who} ELSE dropped
  /\ UNCHANGED <<mq_in, mq_out, lspid, qsn, client, answer, qsns, kills, mixed>>

-----------------------------------------------------------------------------
(* A client                                                                *)

\* cinit_ipc_logon() and cinit_ipc_csend(). A question sent before the main loop
\* is one sent in its first round: nothing reads the queue before.
Send(c) ==
  /\ pc \in Looping /\ client[c] = "idle" /\ c \in Askers(conf)
  /\ qsns < MaxQsns /\ Len(mq_in) < QueueLen
  /\ \E cmd \in Cmds, s \in Svcs :
       mq_in' = Append(mq_in, [who |-> c, cmd |-> cmd, svc |-> s])
  /\ lspid' = {c}
  /\ client' = [client EXCEPT ![c] = "sent"]
  /\ qsns' = qsns + 1
  /\ mixed' = (mixed \/ mq_in # <<>> \/ qsn # <<>>)
  /\ dropped' = dropped \ {c}
  /\ UNCHANGED <<mq_out, qsn, asr, answer, kills>>

\* Slip: a client takes the first answer there is.
MineAny(c) == {1} \cap DOMAIN mq_out

\* The message msgrcv() with the own pid as its type takes.
Mine(c) ==
  {i \in 1 .. Len(mq_out) : /\ mq_out[i].to = c
                            /\ \A j \in 1 .. i - 1 : mq_out[j].to # c}

\* cinit_ipc_cread()
Read(c) ==
  /\ Queues /\ client[c] = "sent"
  /\ \E i \in Mine(c) :
       /\ answer' = [answer EXCEPT ![c] = <<mq_out[i]>>]
       /\ mq_out' = RemoveAt(mq_out, i)
  /\ client' = [client EXCEPT ![c] = "done"]
  /\ UNCHANGED <<mq_in, lspid, qsn, asr, qsns, kills, mixed, dropped>>

\* The queues are gone: CINIT_ASW_IPC_ERROR.
ReadFails(c) ==
  /\ pc = "down" /\ client[c] = "sent"
  /\ client' = [client EXCEPT ![c] = "done"]
  /\ UNCHANGED <<mq_in, mq_out, lspid, qsn, asr, answer, qsns, kills, mixed, dropped>>

\* The process is over, and its pid is another's; or it is killed and its answer
\* will not be read by it.
Leave(c) ==
  /\ Running
  /\ \/ client[c] = "done" /\ UNCHANGED <<kills, mixed>>
     \/ /\ client[c] = "sent" /\ kills < MaxKills
        /\ kills' = kills + 1 /\ mixed' = TRUE
  /\ client' = [client EXCEPT ![c] = "idle"]
  /\ answer' = [answer EXCEPT ![c] = <<>>]
  /\ UNCHANGED <<mq_in, mq_out, lspid, qsn, asr, qsns, dropped>>

-----------------------------------------------------------------------------

Step == (Main /\ UNCHANGED ipcvars) \/ Receive \/ Stat \/ Answer

Next ==
  \/ Step
  \/ \E p \in Pids : ChildDies(p)
  \/ DoReboot /\ UNCHANGED ipcvars
  \/ \E c \in Clients : (Send(c) \/ Read(c) \/ ReadFails(c) \/ Leave(c))
                        /\ UNCHANGED cvars

Spec == CmdInit /\ [][Next]_vars

\* cinit goes on, and so do its clients.
Fairness ==
  /\ WF_vars(Step)
  /\ \A c \in Clients : WF_vars(Read(c) /\ UNCHANGED cvars)

FairSpec == Spec /\ Fairness

-----------------------------------------------------------------------------

\* What the variables are.
TypeOK ==
  /\ conf \in Conf
  /\ svc_list \in Seq(Svcs) /\ pending \in Seq(Svcs)
  /\ dep \in [Lists -> [Svcs -> Seq(Svcs)]]
  /\ stack \in Seq([svc : Svcs, type : {"needs", "wants"}, left : SUBSET Link,
                    wait : SUBSET Link])
  /\ status \in [Svcs -> SUBSET Bits]
  /\ \A s \in Svcs : Cardinality(status[s] \ {"IN_LIST"}) <= 1
  /\ pid \in [Svcs -> Pids \cup {NoPid}]
  /\ procs \in [Pids -> Proc]
  /\ svc_exited \in BOOLEAN /\ pc \in Places
  /\ fails \in 0 .. MaxFails /\ halts \in 0 .. MaxHalts
  /\ begun \in [Svcs -> Nat]
  /\ mq_in \in Seq(Qsn) /\ mq_out \in Seq(Asr) /\ lspid \subseteq Clients
  /\ qsn \in Seq(Qsn) /\ asr \in Seq(Asr)
  /\ client \in [Clients -> {"idle", "sent", "done"}]
  /\ answer \in [Clients -> Seq(Asr)]
  /\ qsns \in 0 .. MaxQsns /\ kills \in 0 .. MaxKills /\ mixed \in BOOLEAN
  /\ dropped \subseteq Clients

Starting == pc \in {"tree", "exec"}

\* The services the root depends on, directly or not, and itself: what is in every
\* set that has the root and what its members depend on.
Reached ==
  {s \in Svcs : \A all \in SUBSET Svcs :
     (Root \in all /\ \A t \in all : To(conf.needs[t] \cup conf.wants[t]) \subseteq all)
       => s \in all}

Times(list, d) == Cardinality({i \in DOMAIN list : list[i] = d})

\* The list has an entry for each of the links, and no other.
Holds(list, links) == \A d \in Svcs : Times(list, d) = Cardinality({l \in links : l.to = d})

\* The tree has every service once. A service is among the dependencies of another as
\* often as links lead to it, once for each, and is told so as often, whatever order
\* and cycles the directories are read in (gen_svc_tree, check_add_deps).
TreeIsMirrored ==
  pc = "exec" =>
    /\ ToSet(svc_list) = Reached /\ Len(svc_list) = Cardinality(Reached)
    /\ \A s \in Reached :
         /\ Holds(dep.needs[s], conf.needs[s]) /\ Holds(dep.wants[s], conf.wants[s])
         /\ ToSet(dep.needed_by[s]) \cup ToSet(dep.wanted_by[s]) \subseteq Reached
         /\ \A t \in Reached :
              /\ Times(dep.needed_by[s], t) = Cardinality({l \in conf.needs[t] : l.to = s})
              /\ Times(dep.wanted_by[s], t) = Cardinality({l \in conf.wants[t] : l.to = s})

\* README: "D will only be started, if B is successfully started". While the tree
\* is started no service runs before what it needs, and none that is started once
\* is taken for started while it still runs (svc_needs_status).
NeedsFirst ==
  Starting => \A s \in Svcs, n \in Svcs :
    begun[s] > 0 /\ n \in To(conf.needs[s]) =>
      begun[n] > 0 /\ status[n] \cap {"ONCE_RUN", "BAD_ERR", "NEED_FAILD"} = {}

\* A client that asks is answered, unless cinit ends, a question came while another
\* was on its way to cinit's msgctl(), a client was killed, or a child ended while
\* cinit waited for room for this answer.
Answered ==
  \A c \in Clients :
    client[c] = "sent" ~> client[c] # "sent" \/ mixed \/ c \in dropped \/ ~Running

\* The answer a client reads is the one to its own question, as long as no
\* question is sent while another is on its way to cinit's msgctl(), and no client
\* is killed.
OwnAnswer == ~mixed => \A c \in Clients : \A i \in DOMAIN answer[c] :
                         answer[c][i].who = c

Acyclic ==
  LET below[n \in 0 .. Cardinality(Svcs), s \in Svcs] ==
        IF n = 0 THEN {s} ELSE UNION {below[n - 1, t] : t \in To(conf.needs[s] \cup conf.wants[s])}
  IN  \A s \in Svcs : below[Cardinality(Svcs), s] = {}

\* Every service is started, if no needed one is to be started once, the tree has
\* no cycle, nothing fails and no signal comes.
AllStarted ==
  (Acyclic /\ \A s \in Svcs : To(conf.needs[s]) \subseteq conf.respawn)
    => <>(fails > 0 \/ halts > 0 \/ \A s \in Reached : begun[s] > 0)

=============================================================================
