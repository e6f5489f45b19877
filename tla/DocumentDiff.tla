----------------------------- MODULE DocumentDiff -----------------------------
(***************************************************************************)
(* What the browser and the room do with a document before the store sees  *)
(* it (outline-protocol, document.ts): toItems and asNodes turn the array  *)
(* of nodes into the tree that is edited and back, replay applies          *)
(* operations without any check, and diff finds the operations that lead   *)
(* from an array to a tree.                                                *)
(*                                                                         *)
(* A document has the ids in array order and what each node holds.  A tree *)
(* (Items) is a document whose order is the depth-first one; collapsed     *)
(* rows are left out, and text and done are one value as in OutlineOps.    *)
(***************************************************************************)
EXTENDS OutlineOps

CONSTANT Undefined   \* the id, and the content, of the copy of a missing node

ASSUME UndefinedAssumption == Undefined \notin Id \cup Val \cup {Root}

\* visit() of toItems, depth first from the root: next comes the first child
\* left of the latest node that has one.  A node whose parent is missing and
\* the nodes of a cycle are not visited.
Unvisited(doc, seen, p) ==
  {k \in DOMAIN doc.order : /\ doc.node[doc.order[k]].parent = p
                            /\ doc.order[k] \notin ToSet(seen)}

Visit(doc, seen) ==
  LET path == <<Root>> \o seen
      open == {i \in DOMAIN path : Unvisited(doc, seen, path[i]) # {}}
  IN  IF open = {} THEN seen
      ELSE Append(seen, doc.order[Min(Unvisited(doc, seen, path[Max(open)]))])

DepthFirst(doc) == FoldLeft(LAMBDA seen, n : Visit(doc, seen), <<>>, doc.order)

ToItems(doc) ==
  LET seen == DepthFirst(doc)
  IN  [node |-> [n \in ToSet(seen) |->
                   [parent |-> doc.node[n].parent, val |-> doc.node[n].val]],
       order |-> seen]

EmptyItems == [node |-> <<>>, order |-> <<>>]

-----------------------------------------------------------------------------
(* replay *)

Drop(doc, ids) ==
  [node |-> Without(doc.node, ids),
   order |-> Rest(doc.order, ids)]

\* Mutant: the place of the anchor instead of the one after it.
PutBeforeAnchor(doc, parent, after) ==
  LET sibling(n) == doc.node[n].parent = parent
  IN  CASE after \in Id -> Position(doc.order, after)
        [] after \notin Id /\ SelectLastInSeq(doc.order, sibling) # 0 ->
             SelectInSeq(doc.order, sibling)
        [] OTHER -> Len(doc.order) + 1

\* The array position: after the anchor, or first or last among the children
\* of the parent.  Nothing is refused: an anchor that is missing counts as
\* position 0, one with another parent as where it is.
PutAt(doc, parent, after) ==
  LET sibling(n) == doc.node[n].parent = parent
      last == SelectLastInSeq(doc.order, sibling)
      anchor == IF after = AtEnd /\ last # 0 THEN doc.order[last] ELSE after
  IN  CASE anchor \in Id -> Position(doc.order, anchor) + 1
        [] anchor \notin Id /\ last # 0 -> SelectInSeq(doc.order, sibling)
        [] OTHER -> Len(doc.order) + 1

Put(doc, id, parent, val, after) ==
  LET rest == Drop(doc, {id})
  IN  [node |-> With(rest.node, id, [parent |-> parent, val |-> val]),
       order |-> InsertAt(rest.order, PutAt(rest, parent, after), id)]

ReplayOp(doc, op) ==
  CASE op.type = "update" ->
         IF op.id \in DOMAIN doc.node
         THEN [doc EXCEPT !.node[op.id].val = op.val] ELSE doc
    [] op.type = "delete" -> Drop(doc, DescendantIds(doc.node, op.id))
    [] op.type = "insert" -> Put(doc, op.id, op.parent, op.val, op.after)
    [] op.type = "move" ->
         IF op.id \in DOMAIN doc.node
         THEN Put(doc, op.id, op.parent, doc.node[op.id].val, op.after)
         ELSE Put(doc, Undefined, op.parent, Undefined, op.after)

Replay(doc, ops) == FoldLeft(ReplayOp, doc, ops)

-----------------------------------------------------------------------------
(* diff *)

Children(doc, p) ==
  Rest(doc.order, {n \in DOMAIN doc.node : doc.node[n].parent # p})

\* The sibling before a node, as flatten and the search in diff find it.
Before(doc, id) ==
  LET siblings == Children(doc, doc.node[id].parent)
      k == Position(siblings, id)
  IN  IF k = 1 THEN AtStart ELSE siblings[k - 1]

\* The array so far, and the operations that led to it.
Add(d, op) == [working |-> ReplayOp(d.working, op), ops |-> Append(d.ops, op)]

InsertInto(d, items, id) ==
  Add(d, [type |-> "insert", id |-> id, parent |-> items.node[id].parent,
          after |-> Before(items, id), val |-> items.node[id].val])
UpdateIn(d, items, id) ==
  IF d.working.node[id].val = items.node[id].val THEN d
  ELSE Add(d, [type |-> "update", id |-> id, val |-> items.node[id].val])

MoveIn(d, items, id) ==
  IF /\ d.working.node[id].parent = items.node[id].parent
     /\ Before(d.working, id) = Before(items, id)
  THEN d
  ELSE Add(d, [type |-> "move", id |-> id, parent |-> items.node[id].parent,
               after |-> Before(items, id)])

Want(d, items, id) ==
  IF id \notin DOMAIN d.working.node THEN InsertInto(d, items, id)
  ELSE MoveIn(UpdateIn(d, items, id), items, id)

DeleteUnwanted(d, items, id) ==
  IF id \in DOMAIN d.working.node \ DOMAIN items.node
  THEN Add(d, [type |-> "delete", id |-> id]) ELSE d

\* Mutant: the deletions come first.
DeletesFirst(doc, items) ==
  LET pruned == FoldLeft(LAMBDA d, id : DeleteUnwanted(d, items, id),
                         [working |-> doc, ops |-> <<>>], doc.order)
  IN  FoldLeft(LAMBDA d, id : Want(d, items, id), pruned, items.order).ops

Diff(doc, items) ==
  LET wanted == FoldLeft(LAMBDA d, id : Want(d, items, id),
                         [working |-> doc, ops |-> <<>>], items.order)
  IN  FoldLeft(LAMBDA d, id : DeleteUnwanted(d, items, id),
               wanted, wanted.working.order).ops
=============================================================================
