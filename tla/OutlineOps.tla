------------------------------ MODULE OutlineOps ------------------------------
(***************************************************************************)
(* The outline of nodes and what one operation of a batch does to it: the  *)
(* body of applyOperations in OutlineStore.ts.                             *)
(*                                                                         *)
(* The code keeps one array of nodes.  Here it is a function from node ids *)
(* to what a node holds, and the sequence of the ids in array order; text  *)
(* and done of a node are one abstract value, replaced as a whole.         *)
(***************************************************************************)
EXTENDS Naturals, Sequences, SequencesExt

CONSTANTS
  Id,      \* node ids
  Val,     \* contents of a node
  Root,    \* parent: null
  AtStart, \* after: null, first sibling
  AtEnd    \* after omitted, last sibling

ASSUME RootAssumption == Root \notin Id
ASSUME AfterAssumption == AtStart \notin Id /\ AtEnd \notin Id /\ AtStart # AtEnd

Rev == Nat
Parent == Id \cup {Root}
After == Id \cup {AtStart, AtEnd}
Node == [parent : Parent, val : Val, changedAt : Rev]

InsertOp == [type : {"insert"}, id : Id, parent : Parent, after : After, val : Val]
UpdateOp == [type : {"update"}, id : Id, val : Val]
MoveOp == [type : {"move"}, id : Id, parent : Parent, after : After]
DeleteOp == [type : {"delete"}, id : Id]
Op == InsertOp \cup UpdateOp \cup MoveOp \cup DeleteOp

\* An outline: the nodes, their order in the array, and for each deleted id
\* the revision that deleted it.
EmptyOutline == [node |-> <<>>, order |-> <<>>, tombs |-> <<>>]

-----------------------------------------------------------------------------
(* Helpers of applyOperations *)

\* A set that has the children of each of its members among its members.
ClosedUnderChildren(node, C) ==
  \A n \in DOMAIN node : node[n].parent \in C => n \in C

\* The loop of descendantIds ends with the smallest such set around id.
DescendantIds(node, id) ==
  {d \in DOMAIN node \cup {id} :
     \A C \in SUBSET (DOMAIN node \cup {id}) :
       id \in C /\ ClosedUnderChildren(node, C) => d \in C}

\* unchanged(id) throws exactly when this holds; `initial` are the nodes the
\* batch started from, so an id the batch itself inserted never conflicts.
Conflicts(initial, id, base) ==
  id \in DOMAIN initial /\ initial[id].changedAt > base

Without(node, ids) == [n \in DOMAIN node \ ids |-> node[n]]
With(node, id, n) == [m \in DOMAIN node \cup {id} |-> IF m = id THEN n ELSE node[m]]

\* The array without some nodes: filter.
Rest(order, ids) ==
  FoldLeft(LAMBDA kept, n : IF n \in ids THEN kept ELSE Append(kept, n), <<>>, order)

Position(order, id) == SelectInSeq(order, LAMBDA x : x = id)

\* place(): the parent exists and the anchor is another of its children.
CanPlace(node, id, parent, after) ==
  /\ parent # Root => parent \in DOMAIN node
  /\ after \in Id => /\ after \in DOMAIN node
                     /\ node[after].parent = parent
                     /\ after # id

\* place(): after the anchor, before the first sibling, or at the end of an
\* empty family; an omitted anchor is the last sibling.
Place(node, order, id, parent, after) ==
  LET sibling(x) == node[x].parent = parent
      at == CASE after \in Id  -> Position(order, after) + 1
              [] after = AtEnd  -> SelectLastInSeq(order, sibling) + 1
              [] OTHER -> SelectInSeq(order, sibling)
  IN  IF ~\E j \in DOMAIN order : sibling(order[j])
      THEN Append(order, id)
      ELSE InsertAt(order, at, id)

-----------------------------------------------------------------------------
(* One turn of the loop over batch.operations, on the outline w *)

\* Mutant: a deletion checks the deleted node only.
CheckedSelf(op, w) == IF op.type = "insert" THEN {} ELSE {op.id}

\* The ids whose revision the operation checks against the batch's base.
Checked(op, w) ==
  CASE op.type = "insert" -> {}
    [] op.type = "delete" -> {op.id} \cup DescendantIds(w.node, op.id)
    [] OTHER -> {op.id}

\* Mutant: no test for cycles.
AcceptsCycle(op, w, initial, base) ==
  /\ \A id \in Checked(op, w) : ~Conflicts(initial, id, base)
  /\ IF op.type = "insert"
     THEN /\ op.id \notin DOMAIN w.node \cup DOMAIN w.tombs
          /\ CanPlace(w.node, op.id, op.parent, op.after)
     ELSE /\ op.id \in DOMAIN w.node
          /\ op.type = "move" =>
               CanPlace(Without(w.node, {op.id}), op.id, op.parent, op.after)

\* Mutant: the id of a deleted node may be used again.
AcceptsReuse(op, w, initial, base) ==
  /\ \A id \in Checked(op, w) : ~Conflicts(initial, id, base)
  /\ IF op.type = "insert"
     THEN /\ op.id \notin DOMAIN w.node
          /\ CanPlace(w.node, op.id, op.parent, op.after)
     ELSE /\ op.id \in DOMAIN w.node
          /\ op.type = "move" =>
               /\ op.parent \notin DescendantIds(w.node, op.id)
               /\ CanPlace(Without(w.node, {op.id}), op.id, op.parent, op.after)

Accepts(op, w, initial, base) ==
  /\ \A id \in Checked(op, w) : ~Conflicts(initial, id, base)
  /\ \/ /\ op.type = "insert"
        /\ op.id \notin DOMAIN w.node \cup DOMAIN w.tombs
        /\ CanPlace(w.node, op.id, op.parent, op.after)
     \/ /\ op.type \in {"update", "delete"}
        /\ op.id \in DOMAIN w.node
     \/ /\ op.type = "move"
        /\ op.id \in DOMAIN w.node
        /\ op.parent \notin DescendantIds(w.node, op.id)
        /\ CanPlace(Without(w.node, {op.id}), op.id, op.parent, op.after)

Inserted(op, w, rev) ==
  [w EXCEPT !.node = With(w.node, op.id,
              [parent |-> op.parent, val |-> op.val, changedAt |-> rev]),
            !.order = Place(w.node, w.order, op.id, op.parent, op.after)]

Updated(op, w, rev) ==
  [w EXCEPT !.node = With(w.node, op.id,
              [w.node[op.id] EXCEPT !.val = op.val, !.changedAt = rev])]

Moved(op, w, rev) ==
  LET rest == Without(w.node, {op.id})
  IN  [w EXCEPT !.node = With(rest, op.id,
                  [w.node[op.id] EXCEPT !.parent = op.parent, !.changedAt = rev]),
                !.order = Place(rest, Rest(w.order, {op.id}), op.id, op.parent, op.after)]

Deleted(op, w, rev) ==
  LET ids == DescendantIds(w.node, op.id)
  IN  [node  |-> Without(w.node, ids),
       order |-> Rest(w.order, ids),
       tombs |-> [t \in DOMAIN w.tombs \cup ids |->
                    IF t \in ids THEN rev ELSE w.tombs[t]]]

Effect(op, w, rev) ==
  CASE op.type = "insert" -> Inserted(op, w, rev)
    [] op.type = "update" -> Updated(op, w, rev)
    [] op.type = "move"   -> Moved(op, w, rev)
    [] op.type = "delete" -> Deleted(op, w, rev)

\* The operations of a batch on some of its nodes, in their order: filter in
\* review.
OperationsOn(ops, ids) ==
  FoldLeft(LAMBDA kept, op : IF op.id \in ids THEN Append(kept, op) ELSE kept,
           <<>>, ops)

\* What makes the array an outline a reader can walk from the root: every
\* parent is a node, and no set of nodes is its own set of parents.
ParentsExist(node) == \A n \in DOMAIN node : node[n].parent \in DOMAIN node \cup {Root}
Acyclic(node) ==
  \A S \in SUBSET DOMAIN node :
    S # {} => \E n \in S : node[n].parent \notin S
Forest(node) == ParentsExist(node) /\ Acyclic(node)

=============================================================================
