--------------------------- MODULE MCOutlineStore ---------------------------
(* Instances of OutlineStore for TLC.  Three ids are enough for a chain, for *)
(* a move between families and for a deletion that takes a descendant along. *)
EXTENDS OutlineStore

CONSTANTS a, b, c, v1, v2

Insert(id, parent, after) ==
  [type |-> "insert", id |-> id, parent |-> parent, after |-> after, val |-> v1]
Update(id) == [type |-> "update", id |-> id, val |-> v2]
Move(id, parent, after) ==
  [type |-> "move", id |-> id, parent |-> parent, after |-> after]
Delete(id) == [type |-> "delete", id |-> id]

\* A family of two, a node below it, an edit of the child, the same edit with
\* the deletion of its parent, and parent and child that change places.
Family == <<Insert(a, Root, AtEnd), Insert(b, a, AtEnd)>>

Batches ==
  {Family, <<Insert(c, b, AtStart)>>, <<Update(b)>>, <<Update(b), Delete(a)>>,
   <<Move(b, Root, AtStart), Move(a, b, AtEnd)>>}
=============================================================================
