-------------------------------- MODULE Cinit --------------------------------
(***************************************************************************)
(* cinit 0.3 as process no 1: it reads the services directory into a tree  *)
(* (gen_svc_tree), starts the services along their dependencies            *)
(* (svc_tree_exec), and then loops over ended children, the pending list   *)
(* and the questions of its clients, which module CinitCmd adds.  A signal *)
(* makes its handler shut everything down.                                 *)
(*                                                                         *)
(* Circular lists are sequences that begin where the code's pointer is, so *)
(* that dep_entry_add() appends and tmp = tmp->next rotates.               *)
(***************************************************************************)
EXTENDS Naturals, Sequences, FiniteSets, SequencesExt

CONSTANTS
  Svcs, Root,    \* the service directories, and CINIT_INIT
  Names,         \* names of links in the directories needs and wants
  Confs,         \* what may be in them
  Pids, NoPid,   \* numbers
  MaxFails,      \* bound: calls that fail (fork, and those of check_add_deps)
  MaxStarts,     \* bound: starts of a service
  MaxHalts       \* bound: signals that ask for the end

\* What is in a directory needs or wants: links to services. Their names can be
\* freely chosen, so that several may lead to the same service. An entry that
\* path_absolute() cannot follow is skipped; it is not in the set.
Link == [name : Names, to : Svcs]
Dir == {ls \in SUBSET Link : \A l, m \in ls : l.name = m.name => l = m}

Conf == [needs : [Svcs -> Dir], wants : [Svcs -> Dir], respawn : SUBSET Svcs]

\* The services that links lead to.
To(links) == {l.to : l \in links}

ASSUME CinitAssumption ==
  /\ Root \in Svcs /\ Pids \subseteq Nat /\ NoPid \notin Pids
  /\ Confs \subseteq Conf
  /\ \A k \in Confs, s \in Svcs : IsFiniteSet(k.needs[s]) /\ IsFiniteSet(k.wants[s])
  /\ MaxFails \in Nat /\ MaxStarts \in Nat /\ MaxHalts \in Nat

VARIABLES
  conf,          \* the services directory
  svc_list,      \* the services that exist, in the order of list_insert()
  dep,           \* their lists needs, wants, needed_by, wanted_by
  stack,         \* the calls of gen_svc_tree() that have not returned
  pending,       \* deps_pending, in svc_tree_exec() from tmp on
  status,        \* the bits of status
  pid,           \* the field pid
  procs,         \* cinit's children
  svc_exited,
  pc,            \* where main() is, or the handler that does not return
  fails, halts,  \* counters of the bounded events
  begun          \* history: how often ./on was started

treevars == <<svc_list, dep, stack>>
svcvars == <<status, pid, procs, begun>>
cvars == <<conf, svc_list, dep, stack, pending, status, pid, procs, svc_exited,
           pc, fails, halts, begun>>

Lists == {"needs", "wants", "needed_by", "wanted_by"}

\* cinit_svc_status, without the bits that nothing sets.
Bits == {"SH_ONCE", "SH_RESPAWN", "ONCE_OK", "ONCE_FAIL", "RESPAWNING",
         "NEED_FAILD", "IN_LIST", "BAD_ERR", "ONCE_RUN", "SH_STOP"}

Proc == [svc : Svcs, prog : {"on", "off"}, st : {"free", "live", "zombie"}]

\* dead is a fault of the processor in process no 1, which ends the kernel.
Final == {"dead", "panic", "off"}
Looping == {"changed", "pending", "listen", "stat", "answer"}
Places == {"tree", "exec", "down"} \cup Looping \cup Final

Init ==
  /\ conf \in Confs
  /\ svc_list = <<>> /\ stack = <<>> /\ pending = <<>>
  /\ dep = [l \in Lists |-> [s \in Svcs |-> <<>>]]
  /\ status = [s \in Svcs |-> {}] /\ pid = [s \in Svcs |-> NoPid]
  /\ procs = [p \in Pids |-> [svc |-> Root, prog |-> "on", st |-> "free"]]
  /\ svc_exited = FALSE
  /\ pc = "tree" /\ fails = 0 /\ halts = 0
  /\ begun = [s \in Svcs |-> 0]

-----------------------------------------------------------------------------
(* The tree. A frame of the stack is a call of gen_svc_tree(): its service,*)
(* the directory check_add_deps() reads, the links left of it, and the     *)
(* link whose gen_svc_tree() it waits for, as a set.                       *)

Frame(s) == [svc |-> s, type |-> "needs", left |-> conf.needs[s], wait |-> {}]

Known(s) == s \in ToSet(svc_list)

ListInsert(s) == svc_list' = Append(svc_list, s)

\* svc_create(): a respawn file decides what the service should be.
SvcCreate(s) ==
  /\ ListInsert(s)
  /\ status' = [status EXCEPT ![s] =
                  {IF s \in conf.respawn THEN "SH_RESPAWN" ELSE "SH_ONCE"}]

\* Slip: a service that exists already is not told who depends on it.
DepAddedOneWay(svc, other, type) == [dep EXCEPT ![type][svc] = Append(@, other)]

\* check_add_deps(): svc depends on other, and both are told.
DepAdded(svc, other, type) ==
  LET back == IF type = "needs" THEN "needed_by" ELSE "wanted_by"
  IN  [dep EXCEPT ![type][svc] = Append(@, other),
                  ![back][other] = Append(@, svc)]

GenRoot ==
  /\ stack = <<>> /\ svc_list = <<>>
  /\ SvcCreate(Root)
  /\ stack' = <<Frame(Root)>>
  /\ UNCHANGED <<dep, pending, pc, fails>>

\* The next entry of readdir(): its service is known, or first to be read itself.
GenEntry ==
  /\ stack # <<>> /\ Head(stack).wait = {}
  /\ \E l \in Head(stack).left :
       LET f == [Head(stack) EXCEPT !.left = @ \ {l}]
       IN  IF Known(l.to)
           THEN /\ dep' = DepAdded(f.svc, l.to, f.type)
                /\ stack' = <<f>> \o Tail(stack)
                /\ UNCHANGED <<svc_list, status>>
           ELSE /\ SvcCreate(l.to)
                /\ stack' = <<Frame(l.to), [f EXCEPT !.wait = {l}]>> \o Tail(stack)
                /\ UNCHANGED dep
  /\ UNCHANGED <<pending, pc, fails>>

GenWants ==
  /\ stack # <<>> /\ Head(stack).wait = {} /\ Head(stack).left = {}
  /\ Head(stack).type = "needs"
  /\ stack' = <<[Head(stack) EXCEPT !.type = "wants",
                    !.left = conf.wants[Head(stack).svc]]>> \o Tail(stack)
  /\ UNCHANGED <<svc_list, dep, status, pending, pc, fails>>

\* gen_svc_tree() returns: a service without dependencies is to be started, and
\* the caller enters the service among its dependencies. With nothing to start
\* svc_tree_exec() reads a NULL pointer.
GenReturn ==
  /\ stack # <<>> /\ Head(stack).wait = {} /\ Head(stack).left = {}
  /\ Head(stack).type = "wants"
  /\ LET s == Head(stack).svc
         start == dep.needs[s] = <<>> /\ dep.wants[s] = <<>>
     IN  /\ pending' = IF start THEN Append(pending, s) ELSE pending
         /\ status' = IF start THEN [status EXCEPT ![s] = @ \cup {"IN_LIST"}]
                      ELSE status
         /\ IF Len(stack) = 1
            THEN /\ stack' = <<>> /\ UNCHANGED dep
                 /\ pc' = IF pending' = <<>> THEN "dead" ELSE "exec"
            ELSE /\ stack' = <<[stack[2] EXCEPT !.wait = {}]>>
                                \o SubSeq(stack, 3, Len(stack))
                 /\ dep' = DepAdded(stack[2].svc, s, stack[2].type)
                 /\ UNCHANGED pc
  /\ UNCHANGED <<svc_list, fails>>

\* Memory, the respawn file's stat(), or the getcwd(), opendir() or chdir() of
\* check_add_deps() fails, and so does all the rest.
GenFails ==
  /\ fails < MaxFails
  /\ fails' = fails + 1 /\ pc' = "panic"
  /\ UNCHANGED <<treevars, pending, status>>

Gen ==
  /\ pc = "tree"
  /\ GenRoot \/ GenEntry \/ GenWants \/ GenReturn \/ GenFails
  /\ UNCHANGED <<conf, pid, procs, svc_exited, halts, begun>>

-----------------------------------------------------------------------------
(* Starting                                                                *)

Free == {p \in Pids : procs[p].st = "free"}

\* fork() of the program prog of s: what becomes of the fields and the children,
\* st being the status if it succeeds. The lowest free pid stands for any.
Forks(s, prog, st) ==
  {[procs |-> [procs EXCEPT ![p] = [svc |-> s, prog |-> prog, st |-> "live"]],
    pid |-> [pid EXCEPT ![s] = p], fails |-> fails,
    status |-> [status EXCEPT ![s] = st],
    begun |-> [begun EXCEPT ![s] = IF prog = "on" THEN @ + 1 ELSE @]] :
      p \in {q \in Free : \A x \in Free : q <= x}}
  \cup
  IF fails < MaxFails \/ Free = {}
  THEN {[procs |-> procs, pid |-> [pid EXCEPT ![s] = NoPid],
         fails |-> IF fails < MaxFails THEN fails + 1 ELSE fails,
         status |-> [status EXCEPT ![s] = {"BAD_ERR"}], begun |-> begun]}
  ELSE {}

Forked(f) ==
  procs' = f.procs /\ pid' = f.pid /\ fails' = f.fails /\ begun' = f.begun

\* svc_start(); the child executes ./on if there is one.
SvcStart(s) ==
  Forks(s, "on", {IF "SH_ONCE" \in status[s] THEN "ONCE_RUN" ELSE "RESPAWNING"})

\* Slip: a need that is running once is taken for started.
SvcNeedsStatusOnceRun(s) ==
  LET bits == UNION {status[n] : n \in ToSet(dep.needs[s])}
  IN  IF bits \cap {"NEED_FAILD", "ONCE_FAIL", "BAD_ERR"} # {} THEN "FAILED"
      ELSE IF bits \cap {"SH_ONCE", "SH_RESPAWN"} # {} THEN "UNFINISHED"
      ELSE "STARTED"

SvcNeedsStatus(s) ==
  LET bits == UNION {status[n] : n \in ToSet(dep.needs[s])}
  IN  IF bits \cap {"NEED_FAILD", "ONCE_FAIL", "BAD_ERR"} # {} THEN "FAILED"
      ELSE IF bits \cap {"SH_ONCE", "SH_RESPAWN", "ONCE_RUN"} # {} THEN "UNFINISHED"
          ELSE "STARTED"

Virgin(t, st) == st[t] \cap {"SH_ONCE", "SH_RESPAWN"} # {}

\* The elements of s at the places is, in their order; a set of one sequence.
Taken(s, is) ==
  {[i \in DOMAIN g |-> s[g[i]]] :
     g \in {h \in [1 .. Cardinality(is) -> is] :
             \A i, j \in 1 .. Cardinality(is) : i < j => h[i] < h[j]}}

\* Those of a list that are to be started and not in the list yet, each once.
IdleOf(list, st) ==
  Taken(list, {i \in DOMAIN list : /\ Virgin(list[i], st) /\ "IN_LIST" \notin st[list[i]]
                                  /\ \A j \in 1 .. i - 1 : list[j] # list[i]})

\* Slip: only those that need the service are added.
DepNeedsAdd(s, st) == IdleOf(dep.needed_by[s], st)

\* dep_needs_wants_add() for both types: those that are added to the list once s
\* was started.
DepNeedsWantsAdd(s, st) == IdleOf(dep.needed_by[s] \o dep.wanted_by[s], st)

\* One round of svc_tree_exec()'s loop, whose head is tmp.
Exec ==
  /\ pc = "exec"
  /\ LET tmp == Head(pending)
     IN  CASE SvcNeedsStatus(tmp) = "STARTED" ->
              \E f \in SvcStart(tmp) : \E new \in DepNeedsWantsAdd(tmp, f.status) :
                /\ Forked(f)
                /\ pending' = Tail(pending) \o new
                /\ status' = [s \in Svcs |->
                     IF s \in ToSet(new) THEN f.status[s] \cup {"IN_LIST"}
                     ELSE f.status[s]]
           [] SvcNeedsStatus(tmp) = "FAILED" ->
              /\ status' = [status EXCEPT ![tmp] = {"NEED_FAILD"}]
              /\ pending' = Tail(pending)
              /\ UNCHANGED <<pid, procs, fails, begun>>
           [] OTHER ->
              /\ pending' = Append(Tail(pending), tmp)
              /\ UNCHANGED <<svcvars, fails>>
  /\ pc' = IF pending' = <<>> THEN "changed" ELSE pc
  /\ UNCHANGED <<conf, treevars, svc_exited, halts>>

-----------------------------------------------------------------------------
(* The main loop                                                           *)

Zombies == {p \in Pids : procs[p].st = "zombie"}

\* The service list_search_pid() finds: from the head of the list backwards, and
\* whatever the pid was when it was written.
ListSearchPid(p) ==
  LET has == {i \in 1 .. Len(svc_list) : pid[svc_list[i]] = p}
  IN  IF has = {} THEN {}
      ELSE IF 1 \in has THEN {svc_list[1]}
      ELSE {svc_list[CHOOSE i \in has : \A j \in has : j <= i]}

\* svc->waitpid is 0 from list_insert()'s memset on, so that every end is a
\* success.
Ended(bits) ==
  IF "ONCE_RUN" \in bits THEN {"ONCE_OK"}
  ELSE IF "RESPAWNING" \in bits THEN {"SH_RESPAWN"} ELSE bits

\* One round of the loop of svc_status_changed().
Changed ==
  /\ pc = "changed" /\ svc_exited /\ Zombies # {}
  /\ \E p \in Zombies :
       /\ procs' = [procs EXCEPT ![p].st = "free"]
       /\ status' = [s \in Svcs |-> IF s \in ListSearchPid(p)
                                    THEN Ended(status[s]) ELSE status[s]]
  /\ UNCHANGED <<conf, treevars, pending, pid, svc_exited, pc, fails, halts, begun>>

ChangedDone ==
  /\ pc = "changed" /\ (svc_exited => Zombies = {})
  /\ pc' = "pending"
  /\ UNCHANGED <<conf, treevars, pending, svcvars, svc_exited, fails, halts>>

\* svc_handle_pending(): deps_pending still points to the first entry there ever
\* was, which svc_tree_exec() has freed. What is read there depends on malloc(3);
\* the outcomes here are a fault, nothing, and the entry as it was, whose
\* service is started again.
HandlePending ==
  /\ pc = "pending"
  /\ \/ pc' = "dead" /\ UNCHANGED <<svcvars, fails>>
     \/ pc' = "listen" /\ UNCHANGED <<svcvars, fails>>
     \/ \E s \in {t \in ToSet(svc_list) : begun[t] < MaxStarts} : \E f \in SvcStart(s) :
          Forked(f) /\ status' = f.status /\ pc' = "listen"
  /\ UNCHANGED <<conf, treevars, pending, svc_exited, halts>>

-----------------------------------------------------------------------------
(* Signals                                                                 *)

\* A child ends: sig_child(), and in the end SIGCHLD is ignored. A call that waits
\* returns with EINTR; CinitCmd says so.
Die(p) ==
  /\ procs[p].st = "live" /\ pc \notin Final
  /\ procs' = [procs EXCEPT ![p].st = IF pc = "down" THEN "free" ELSE "zombie"]
  /\ svc_exited' = (svc_exited \/ pc # "down")
  /\ UNCHANGED <<conf, treevars, pending, status, pid, fails, halts, begun>>

\* do_reboot(): the handler starts, and does not return.
DoReboot ==
  /\ halts < MaxHalts /\ pc \notin Final \cup {"down"}
  /\ halts' = halts + 1 /\ pc' = "down"
  /\ UNCHANGED <<conf, treevars, pending, svcvars, svc_exited, fails>>

Dependents(s) == ToSet(dep.needed_by[s]) \cup ToSet(dep.wanted_by[s])

Stopped(s) == "SH_STOP" \in status[s]

\* svc_stop_deps(): the loops read tmp->svc before they look whether there is a
\* tmp, and nothing ends the recursion in a cycle.
StopDepsFaults ==
  LET faults[n \in 0 .. Cardinality(Svcs), s \in Svcs] ==
        ~Stopped(s) /\ (\/ n = 0
                        \/ dep.needed_by[s] = <<>> \/ dep.wanted_by[s] = <<>>
                        \/ \E t \in Dependents(s) : faults[n - 1, t])
  IN  {s \in Svcs : faults[Cardinality(Svcs), s]}

\* The services svc_stop_deps() disables: those that depend on s and s itself.
StopDeps(s) ==
  LET up[n \in 0 .. Cardinality(Svcs)] ==
        IF n = 0 THEN {s} ELSE up[n - 1] \cup UNION {Dependents(t) : t \in up[n - 1]}
  IN  {t \in up[Cardinality(Svcs)] : ~Stopped(t)}

\* One round of shutdown_services(); svc_list begins where svc points to. The loop
\* does not end with the list: it goes on in the item it has freed. Without
\* services the rest of do_reboot() follows. The children are not looked at again.
Down ==
  /\ pc = "down"
  /\ IF svc_list = <<>> THEN pc' = "off" /\ UNCHANGED <<svc_list, status, fails>>
     ELSE IF Head(svc_list) \in StopDepsFaults
     THEN pc' = "dead" /\ UNCHANGED <<svc_list, status, fails>>
     ELSE /\ svc_list' = Tail(svc_list)
          /\ pc' = IF svc_list' = <<>> THEN "dead" ELSE pc
          /\ \E bad \in SUBSET StopDeps(Head(svc_list)) :
               /\ fails + Cardinality(bad) <= MaxFails
               /\ fails' = fails + Cardinality(bad)
               /\ status' = [s \in Svcs |->
                    IF s \in bad THEN {"BAD_ERR"}
                    ELSE IF s \in StopDeps(Head(svc_list)) THEN {"SH_STOP"}
                    ELSE status[s]]
  /\ UNCHANGED <<conf, dep, stack, pending, pid, procs, svc_exited, halts, begun>>

Main == Gen \/ Exec \/ Changed \/ ChangedDone \/ HandlePending \/ Down

=============================================================================
