---------------------------- MODULE OutlineHistory ----------------------------
(***************************************************************************)
(* What the outline store promises its callers: a history that grows by    *)
(* whole batches.  Each step is one request, taken in one piece; a request *)
(* that cannot be taken leaves no trace.                                   *)
(***************************************************************************)
EXTENDS OutlineOps

CONSTANTS RequestId, NoRequest, Batch, Nothing

VARIABLE history   \* the outline, its proposals and the log of its batches

\* All operations of a batch or none: the outline after them, and whether
\* every one of them was accepted.
ApplyBatch(outline, ops, base, rev) ==
  FoldLeft(LAMBDA r, op :
             IF r.ok /\ Accepts(op, r.w, outline.node, base)
             THEN [ok |-> TRUE, w |-> Effect(op, r.w, rev)]
             ELSE [ok |-> FALSE, w |-> outline],
           [ok |-> TRUE, w |-> outline], ops)

Current == history.snapshot
Proposals == Current.proposals

Fits(ops, base) ==
  /\ history # Nothing
  /\ ops # <<>> /\ base <= Current.revision
  /\ ApplyBatch(Current.outline, ops, base, Current.revision + 1).ok

Grown(req, base, ops, proposal, proposals) ==
  [snapshot |-> [revision |-> Current.revision + 1,
                 outline |-> ApplyBatch(Current.outline, ops, base,
                                        Current.revision + 1).w,
                 proposals |-> proposals],
   log |-> Append(history.log,
             [req |-> req, base |-> base, ops |-> ops,
              revision |-> Current.revision + 1, proposal |-> proposal])]

Init == history = Nothing

Create ==
  /\ history = Nothing
  /\ history' = [snapshot |-> [revision |-> 0, outline |-> EmptyOutline,
                               proposals |-> <<>>],
                 log |-> <<>>]

Apply(req, base, ops) ==
  /\ Fits(ops, base)
  /\ req # NoRequest => \A k \in DOMAIN history.log : history.log[k].req # req
  /\ history' = Grown(req, base, ops, 0, Proposals)

Propose(base, ops) ==
  /\ Fits(ops, base)
  /\ history' = [history EXCEPT !.snapshot.proposals =
        Append(@, [base |-> base, ops |-> ops,
                   pending |-> {op.id : op \in ToSet(ops)},
                   accepted |-> {}, rejected |-> {}])]

Accept(p, ids) ==
  LET q == Proposals[p]
      ops == OperationsOn(q.ops, ids)
  IN  /\ ids # {} /\ ids \subseteq q.pending
      /\ Fits(ops, q.base)
      /\ history' = Grown(NoRequest, q.base, ops, p,
           [Proposals EXCEPT ![p].pending = @ \ ids, ![p].accepted = @ \cup ids])

Reject(p, ids) ==
  /\ ids # {} /\ ids \subseteq Proposals[p].pending
  /\ history' = [history EXCEPT !.snapshot.proposals[p].pending = @ \ ids,
                                !.snapshot.proposals[p].rejected = @ \cup ids]

Next ==
  \/ Create
  \/ /\ history # Nothing
     /\ \/ \E ops \in Batch, base \in 0..Current.revision :
             \/ \E req \in RequestId \cup {NoRequest} : Apply(req, base, ops)
             \/ Propose(base, ops)
        \/ \E p \in DOMAIN Proposals : \E ids \in SUBSET Proposals[p].pending :
             Accept(p, ids) \/ Reject(p, ids)

\* [Next]_history, with the comparison first: most steps of an implementation
\* leave the history alone.
Spec == Init /\ [][history' # history => Next]_history
=============================================================================
