------------------------------ MODULE MCCinit ------------------------------
(* Values of Cinit's and CinitCmd's constants for TLC.                      *)
EXTENDS CinitCmd

CONSTANTS r, a, b, c1, c2

Edges == {<<r, a>>, <<r, b>>, <<a, b>>, <<b, a>>} \cap (Svcs \X Svcs)

\* The links of a service: one, or two with different names.
LinkNames == Svcs \X {1, 2}
Links(t, n) == {[name |-> <<t, i>>, to |-> t] : i \in 1 .. n}

Conf3(kind, respawn) ==
  LET Of(s, k) == UNION {Links(t, kind[<<s, t>>][k]) : t \in {u \in Svcs : <<s, u>> \in Edges}}
  IN  [needs |-> [s \in Svcs |-> Of(s, "needs")],
       wants |-> [s \in Svcs |-> Of(s, "wants")],
       respawn |-> respawn]

\* Every way for the services to depend on each other, with cycles: not at all, by a
\* need, by a want, and one of two by two needs (a and b may change places).
Kind(n, w) == [needs |-> n, wants |-> w]
Kinds == {kind \in [Edges -> {Kind(0, 0), Kind(1, 0), Kind(0, 1), Kind(2, 0)}] :
            \/ \A e \in Edges : kind[e].needs < 2
            \/ \E e \in {<<r, a>>, <<a, b>>} : {d \in Edges : kind[d].needs = 2} = {e}}

AllConfs == {Conf3(kind, respawn) : kind \in Kinds, respawn \in SUBSET Svcs}

\* Clients ask where only the root is a service, and about another one too.
RootOnly == {k \in AllConfs : /\ k.respawn = {Root}
                              /\ \A s \in Svcs : k.needs[s] = {} /\ k.wants[s] = {}}
RootAskers(k) == IF k \in RootOnly THEN Clients ELSE {}

=============================================================================
