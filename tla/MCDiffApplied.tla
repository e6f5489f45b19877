---------------------------- MODULE MCDiffApplied ----------------------------
(* Every outline against every tree over the same ids.  The operations do   *)
(* not depend on the names of the nodes, so the outlines have their nodes   *)
(* in the array order 1, 2, ...; their parents are any.                     *)
EXTENDS DiffApplied

CONSTANTS v1, v2, MaxDocument

InArrayOrder(n) ==
  {w \in {[node |-> [i \in 1..n |-> [parent |-> p[i], val |-> v1, changedAt |-> 1]],
           order |-> [i \in 1..n |-> i], tombs |-> <<>>] :
            p \in [1..n -> 1..n \cup {Root}]} : Acyclic(w.node)}
Documents == UNION {InArrayOrder(n) : n \in 0..MaxDocument}

TreesOf(S, v) ==
  {d \in {[node |-> [n \in S |-> [parent |-> p[n], val |-> v]], order |-> s] :
            p \in [S -> S \cup {Root}], s \in SetToSeqs(S)} :
     Acyclic(d.node) /\ DepthFirst(d) = d.order}
Trees == UNION {TreesOf(S, v) : S \in SUBSET Id, v \in {v1, v2}}
=============================================================================
