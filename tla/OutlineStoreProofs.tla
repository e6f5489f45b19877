-------------------------- MODULE OutlineStoreProofs --------------------------
(***************************************************************************)
(* Proofs about the outline store, for any set of ids, any batches and     *)
(* proposals of any length, and any number of requests and crashes.        *)
(*                                                                         *)
(* First lemmas about the operations of a batch: each turns a forest into  *)
(* a forest, keeps the deleted ids apart from the nodes, and reaches only  *)
(* nodes whose revision was checked; and what the folds over a batch do.   *)
(* Then the invariant of the store, what follows from it for the batches   *)
(* and the log, that each step implements one of OutlineHistory, and what  *)
(* this means for the history: that the log replays to the outline, and    *)
(* what became of the proposals.                                           *)
(***************************************************************************)
EXTENDS OutlineStore, SequenceTheorems, WellFoundedInduction, TLAPS

-----------------------------------------------------------------------------
(* Induction over the natural numbers, for a set that has 0 and with each    *)
(* number the next: the least number outside would have a predecessor inside.*)
LEMMA NatSetInduction ==
  ASSUME NEW S, 0 \in S, \A n \in Nat : n \in S => n + 1 \in S
  PROVE  Nat \subseteq S
<1>1. SUFFICES ASSUME NEW T, T = Nat \ S, T # {} PROVE FALSE
  OBVIOUS
<1>2. PICK R : R = {ss \in Nat \X Nat : ss[1] < ss[2]}
  OBVIOUS
<1>3. IsWellFoundedOn(R, Nat) /\ T \subseteq Nat
  BY <1>1, <1>2, NatLessThanWellFounded DEF OpToRel
<1>4. PICK x \in T : \A y \in T : ~(<<y, x>> \in R)
  BY <1>1, <1>3, WFMin
<1>5. PICK y : y = x - 1
  OBVIOUS
<1>6. x \in Nat /\ x # 0
  BY <1>1
<1>7. y \in Nat /\ y + 1 = x /\ y < x
  BY <1>5, <1>6
<1>8. <<y, x>> \in R
  BY <1>2, <1>6, <1>7
<1> QED BY <1>1, <1>4, <1>7, <1>8

-----------------------------------------------------------------------------
(* One operation, and the operations of a batch                             *)

\* The nodes an outline is made of, without the order of the array.
GoodNodes(node) == node \in [DOMAIN node -> Node] /\ DOMAIN node \subseteq Id

GoodOutline(w) ==
  /\ DOMAIN w = {"node", "order", "tombs"}
  /\ GoodNodes(w.node)
  /\ Forest(w.node)
  /\ DOMAIN w.node \cap DOMAIN w.tombs = {}

-----------------------------------------------------------------------------
(* The set descendantIds returns has id in it, only nodes besides it, and    *)
(* with each node the node's children.                                       *)
LEMMA Descendants ==
  ASSUME NEW node, NEW id
  PROVE  /\ id \in DescendantIds(node, id)
         /\ DescendantIds(node, id) \subseteq DOMAIN node \cup {id}
         /\ ClosedUnderChildren(node, DescendantIds(node, id))
<1>1. id \in DescendantIds(node, id)
  BY DEF DescendantIds
<1>2. DescendantIds(node, id) \subseteq DOMAIN node \cup {id}
  BY DEF DescendantIds
<1>3. ASSUME NEW n \in DOMAIN node, node[n].parent \in DescendantIds(node, id)
      PROVE  n \in DescendantIds(node, id)
  <2>1. ASSUME NEW C \in SUBSET (DOMAIN node \cup {id}),
               id \in C, ClosedUnderChildren(node, C)
        PROVE  n \in C
    <3>1. node[n].parent \in C
      BY <1>3, <2>1 DEF DescendantIds
    <3>2. QED
      BY <2>1, <3>1 DEF ClosedUnderChildren
  <2>2. QED
    BY <2>1 DEF DescendantIds
<1>4. QED
  BY <1>1, <1>2, <1>3 DEF ClosedUnderChildren

-----------------------------------------------------------------------------
(* A new node under a node of the forest, or under the root, is a leaf. *)
LEMMA GrowForest ==
  ASSUME NEW node, GoodNodes(node), Forest(node),
         NEW id \in Id, id \notin DOMAIN node,
         NEW n \in Node, n.parent \in DOMAIN node \cup {Root}
  PROVE  GoodNodes(With(node, id, n)) /\ Forest(With(node, id, n))
<1> DEFINE grown == With(node, id, n)
<1>1. /\ DOMAIN grown = DOMAIN node \cup {id}
      /\ grown[id] = n
      /\ \A m \in DOMAIN node : grown[m] = node[m]
  BY DEF With
<1>2. GoodNodes(grown)
  BY DEF GoodNodes, With
<1>3. ParentsExist(grown)
  BY <1>1 DEF Forest, ParentsExist
<1>4. Acyclic(grown)
  <2> SUFFICES ASSUME NEW S \in SUBSET DOMAIN grown, S # {}
               PROVE  \E m \in S : grown[m].parent \notin S
    BY DEF Acyclic
  <2>1. CASE S \ {id} = {}
    <3>1. S = {id} /\ n.parent # id
      BY <2>1, RootAssumption
    <3>2. QED
      BY <3>1, <1>1
  <2>2. CASE S \ {id} # {}
    <3>1. S \ {id} \in SUBSET DOMAIN node
      BY <1>1
    <3>2. PICK m \in S \ {id} : node[m].parent \notin S \ {id}
      BY <2>2, <3>1 DEF Forest, Acyclic
    <3>3. node[m].parent # id
      BY <3>1, <3>2, RootAssumption DEF Forest, ParentsExist
    <3>4. QED
      BY <1>1, <3>1, <3>2, <3>3
  <2>3. QED
    BY <2>1, <2>2
<1>5. QED
  BY <1>2, <1>3, <1>4 DEF Forest

(* Only the parents matter. *)
LEMMA SameParents ==
  ASSUME NEW node, GoodNodes(node), Forest(node),
         NEW id \in DOMAIN node, NEW n \in Node, n.parent = node[id].parent
  PROVE  GoodNodes(With(node, id, n)) /\ Forest(With(node, id, n))
<1> DEFINE same == With(node, id, n)
<1>1. /\ DOMAIN same = DOMAIN node
      /\ \A m \in DOMAIN node : same[m].parent = node[m].parent
  BY DEF With
<1>2. GoodNodes(same)
  BY DEF GoodNodes, With
<1>3. QED
  BY <1>1, <1>2 DEF Forest, ParentsExist, Acyclic

(* Moving a node anywhere but under one of its descendants makes no cycle: a *)
(* set of nodes closed under parents would, without the descendants of the   *)
(* moved node, have been one before the move.                                *)
LEMMA MoveInForest ==
  ASSUME NEW node, GoodNodes(node), Forest(node),
         NEW id \in DOMAIN node, NEW n \in Node,
         n.parent \in DOMAIN node \cup {Root},
         n.parent \notin DescendantIds(node, id)
  PROVE  GoodNodes(With(node, id, n)) /\ Forest(With(node, id, n))
<1> DEFINE moved == With(node, id, n)
           D == DescendantIds(node, id)
<1>1. /\ DOMAIN moved = DOMAIN node
      /\ moved[id] = n
      /\ \A m \in DOMAIN node : m # id => moved[m] = node[m]
  BY DEF With
<1>2. GoodNodes(moved)
  BY DEF GoodNodes, With
<1>3. ParentsExist(moved)
  BY <1>1 DEF Forest, ParentsExist
<1>4. Acyclic(moved)
  <2> SUFFICES ASSUME NEW S \in SUBSET DOMAIN node, S # {},
                      \A m \in S : moved[m].parent \in S
               PROVE  FALSE
    BY <1>1 DEF Acyclic
  <2>1. id \in S
    <3>1. PICK m \in S : node[m].parent \notin S
      BY DEF Forest, Acyclic
    <3>2. QED
      BY <3>1, <1>1
  <2>2. n.parent \in S \ D
    BY <2>1, <1>1
  <2>3. PICK m \in S \ D : node[m].parent \notin S \ D
    <3>1. S \ D \in SUBSET DOMAIN node /\ S \ D # {}
      BY <2>2
    <3>2. QED
      BY <3>1 DEF Forest, Acyclic
  <2>4. m # id /\ moved[m].parent = node[m].parent
    BY <2>3, <1>1, Descendants
  <2>5. node[m].parent \in D
    BY <2>3, <2>4
  <2>6. m \in D
    BY <2>3, <2>5, Descendants DEF ClosedUnderChildren
  <2>7. QED
    BY <2>3, <2>6
<1>5. QED
  BY <1>2, <1>3, <1>4 DEF Forest

(* Taking out a node with all its descendants leaves no orphan. *)
LEMMA PruneForest ==
  ASSUME NEW node, GoodNodes(node), Forest(node), NEW id \in DOMAIN node
  PROVE  LET rest == Without(node, DescendantIds(node, id))
         IN  GoodNodes(rest) /\ Forest(rest)
<1> DEFINE D == DescendantIds(node, id)
           rest == Without(node, D)
<1>1. DOMAIN rest = DOMAIN node \ D /\ \A m \in DOMAIN rest : rest[m] = node[m]
  BY DEF Without
<1>2. GoodNodes(rest)
  BY DEF GoodNodes, Without
<1>3. ParentsExist(rest)
  BY <1>1, Descendants DEF Forest, ParentsExist, ClosedUnderChildren
<1>4. Acyclic(rest)
  BY <1>1 DEF Forest, Acyclic
<1>5. QED
  BY <1>2, <1>3, <1>4 DEF Forest

-----------------------------------------------------------------------------
(* Whatever operation a batch contains, a turn of the loop that does not     *)
(* throw leaves a forest and keeps the deleted ids out of it.                *)
LEMMA EffectIsGood ==
  ASSUME NEW op \in Op, NEW w, GoodOutline(w), NEW rev \in Rev,
         NEW initial, NEW base, Accepts(op, w, initial, base)
  PROVE  GoodOutline(Effect(op, w, rev))
<1> USE DEF Rev
<1>1. CASE op.type = "insert"
  <2>1. op \in InsertOp
    BY <1>1 DEF Op, InsertOp, UpdateOp, MoveOp, DeleteOp
  <2> DEFINE n == [parent |-> op.parent, val |-> op.val, changedAt |-> rev]
  <2>2. op.id \in Id /\ n \in Node
    BY <2>1 DEF InsertOp, Node
  <2>3. op.id \notin DOMAIN w.node \cup DOMAIN w.tombs
        /\ op.parent \in DOMAIN w.node \cup {Root}
    BY <1>1 DEF Accepts, CanPlace
  <2>4. GoodNodes(With(w.node, op.id, n)) /\ Forest(With(w.node, op.id, n))
    BY <2>2, <2>3, GrowForest DEF GoodOutline
  <2>5. /\ Effect(op, w, rev).node = With(w.node, op.id, n)
        /\ Effect(op, w, rev).tombs = w.tombs
        /\ DOMAIN Effect(op, w, rev) = {"node", "order", "tombs"}
    BY <1>1 DEF Effect, Inserted, GoodOutline
  <2>6. DOMAIN With(w.node, op.id, n) = DOMAIN w.node \cup {op.id}
    BY DEF With
  <2>7. QED
    BY <2>3, <2>4, <2>5, <2>6 DEF GoodOutline
<1>2. CASE op.type = "update"
  <2>1. op \in UpdateOp
    BY <1>2 DEF Op, InsertOp, UpdateOp, MoveOp, DeleteOp
  <2> DEFINE n == [w.node[op.id] EXCEPT !.val = op.val, !.changedAt = rev]
  <2>2. op.id \in DOMAIN w.node
    BY <1>2 DEF Accepts
  <2>3. n \in Node /\ n.parent = w.node[op.id].parent
    BY <2>1, <2>2 DEF UpdateOp, Node, GoodOutline, GoodNodes
  <2>4. GoodNodes(With(w.node, op.id, n)) /\ Forest(With(w.node, op.id, n))
    BY <2>2, <2>3, SameParents DEF GoodOutline
  <2>5. /\ Effect(op, w, rev).node = With(w.node, op.id, n)
        /\ Effect(op, w, rev).tombs = w.tombs
        /\ DOMAIN Effect(op, w, rev) = {"node", "order", "tombs"}
    BY <1>2 DEF Effect, Updated, GoodOutline
  <2>6. DOMAIN With(w.node, op.id, n) = DOMAIN w.node
    BY <2>2 DEF With
  <2>7. QED
    BY <2>4, <2>5, <2>6 DEF GoodOutline
<1>3. CASE op.type = "move"
  <2>1. op \in MoveOp
    BY <1>3 DEF Op, InsertOp, UpdateOp, MoveOp, DeleteOp
  <2> DEFINE n == [w.node[op.id] EXCEPT !.parent = op.parent, !.changedAt = rev]
             rest == Without(w.node, {op.id})
  <2>2. /\ op.id \in DOMAIN w.node
        /\ op.parent \notin DescendantIds(w.node, op.id)
        /\ op.parent \in DOMAIN w.node \cup {Root}
    BY <1>3 DEF Accepts, CanPlace, Without
  <2>3. n \in Node /\ n.parent = op.parent
    BY <2>1, <2>2 DEF MoveOp, Node, GoodOutline, GoodNodes
  <2>4. GoodNodes(With(w.node, op.id, n)) /\ Forest(With(w.node, op.id, n))
    BY <2>2, <2>3, MoveInForest DEF GoodOutline
  <2>5. With(rest, op.id, n) = With(w.node, op.id, n)
    <3>1. DOMAIN rest \cup {op.id} = DOMAIN w.node \cup {op.id}
          /\ \A m \in DOMAIN w.node : m # op.id => rest[m] = w.node[m]
      BY DEF Without
    <3>2. QED
      BY <3>1 DEF With
  <2>6. /\ Effect(op, w, rev).node = With(w.node, op.id, n)
        /\ Effect(op, w, rev).tombs = w.tombs
        /\ DOMAIN Effect(op, w, rev) = {"node", "order", "tombs"}
    BY <1>3, <2>5 DEF Effect, Moved, GoodOutline
  <2>7. DOMAIN With(w.node, op.id, n) = DOMAIN w.node
    BY <2>2 DEF With
  <2>8. QED
    BY <2>4, <2>6, <2>7 DEF GoodOutline
<1>4. CASE op.type = "delete"
  <2> DEFINE D == DescendantIds(w.node, op.id)
  <2>1. op.id \in DOMAIN w.node
    BY <1>4 DEF Accepts
  <2>2. GoodNodes(Without(w.node, D)) /\ Forest(Without(w.node, D))
    BY <2>1, PruneForest DEF GoodOutline
  <2>3. /\ Effect(op, w, rev).node = Without(w.node, D)
        /\ DOMAIN Effect(op, w, rev).tombs = DOMAIN w.tombs \cup D
        /\ DOMAIN Effect(op, w, rev) = {"node", "order", "tombs"}
    BY <1>4 DEF Effect, Deleted
  <2>4. DOMAIN Without(w.node, D) = DOMAIN w.node \ D
    BY DEF Without
  <2>5. QED
    BY <2>2, <2>3, <2>4 DEF GoodOutline
<1>5. QED
  BY <1>1, <1>2, <1>3, <1>4 DEF Op, InsertOp, UpdateOp, MoveOp, DeleteOp

-----------------------------------------------------------------------------
(* The outline w may follow the outline `from` after operations of a batch   *)
(* made at revision base: a node that is gone, moved or rewritten had not    *)
(* changed since, and what was deleted stays deleted.                        *)

Differs(w, from, id) ==
  \/ id \notin DOMAIN w.node
  \/ w.node[id].parent # from.node[id].parent
  \/ w.node[id].val # from.node[id].val

Follows(w, from, base) ==
  /\ \A id \in DOMAIN from.node :
        Differs(w, from, id) => from.node[id].changedAt <= base
  /\ \A id \in DOMAIN from.tombs :
        id \in DOMAIN w.tombs /\ w.tombs[id] = from.tombs[id]

LEMMA EffectFollows ==
  ASSUME NEW op \in Op, NEW w, GoodOutline(w), NEW rev \in Rev,
         NEW from, GoodNodes(from.node), NEW base \in Rev,
         Accepts(op, w, from.node, base),
         Follows(w, from, base)
  PROVE  Follows(Effect(op, w, rev), from, base)
<1> DEFINE v == Effect(op, w, rev)
<1>1. \A id \in Checked(op, w) :
        id \in DOMAIN from.node => from.node[id].changedAt <= base
  BY DEF Accepts, Conflicts, GoodNodes, Node, Rev
<1>2. ASSUME NEW id \in DOMAIN from.node, Differs(v, from, id)
      PROVE  id \in Checked(op, w) \/ Differs(w, from, id)
  <2>1. CASE op.type = "insert"
    <3>1. op.id \notin DOMAIN w.node
      BY <2>1 DEF Accepts
    <3>2. \A m \in DOMAIN w.node : m \in DOMAIN v.node /\ v.node[m] = w.node[m]
      BY <2>1, <3>1 DEF Effect, Inserted, With, GoodOutline
    <3>3. QED
      BY <1>2, <3>2 DEF Differs
  <2>2. CASE op.type = "update"
    <3>1. \A m \in DOMAIN w.node : m # op.id =>
             m \in DOMAIN v.node /\ v.node[m] = w.node[m]
      BY <2>2 DEF Effect, Updated, With, GoodOutline
    <3>2. op.id \in Checked(op, w)
      BY <2>2 DEF Checked
    <3>3. QED
      BY <1>2, <3>1, <3>2 DEF Differs
  <2>3. CASE op.type = "move"
    <3>1. \A m \in DOMAIN w.node : m # op.id =>
             m \in DOMAIN v.node /\ v.node[m] = w.node[m]
      BY <2>3 DEF Effect, Moved, With, Without, GoodOutline
    <3>2. op.id \in Checked(op, w)
      BY <2>3 DEF Checked
    <3>3. QED
      BY <1>2, <3>1, <3>2 DEF Differs
  <2>4. CASE op.type = "delete"
    <3>1. \A m \in DOMAIN w.node : m \notin DescendantIds(w.node, op.id) =>
             m \in DOMAIN v.node /\ v.node[m] = w.node[m]
      BY <2>4 DEF Effect, Deleted, Without
    <3>2. DescendantIds(w.node, op.id) \subseteq Checked(op, w)
      BY <2>4 DEF Checked
    <3>3. QED
      BY <1>2, <3>1, <3>2 DEF Differs
  <2>5. QED
    BY <2>1, <2>2, <2>3, <2>4 DEF Op, InsertOp, UpdateOp, MoveOp, DeleteOp
<1>3. ASSUME NEW id \in DOMAIN from.tombs
      PROVE  id \in DOMAIN v.tombs /\ v.tombs[id] = from.tombs[id]
  <2>1. id \in DOMAIN w.tombs /\ w.tombs[id] = from.tombs[id]
    BY <1>3 DEF Follows
  <2>2. CASE op.type \in {"insert", "update", "move"}
    BY <2>1, <2>2 DEF Effect, Inserted, Updated, Moved, GoodOutline
  <2>3. CASE op.type = "delete"
    <3>1. DescendantIds(w.node, op.id) \subseteq DOMAIN w.node
      BY <2>3, Descendants DEF Accepts
    <3>2. id \notin DescendantIds(w.node, op.id)
      BY <2>1, <3>1 DEF GoodOutline
    <3>3. QED
      BY <2>1, <2>3, <3>2 DEF Effect, Deleted
  <2>4. QED
    BY <2>2, <2>3 DEF Op, InsertOp, UpdateOp, MoveOp, DeleteOp
<1>4. QED
  BY <1>1, <1>2, <1>3 DEF Follows

-----------------------------------------------------------------------------
(* Folds over the operations of a batch. *)

KeepOp(ids, kept, op) == IF op.id \in ids THEN Append(kept, op) ELSE kept
Keeping == INSTANCE Folding WITH Step <- KeepOp

EffectAt(rev, w, op) == Effect(op, w, rev)
Applying == INSTANCE Folding WITH Step <- EffectAt

(* What has been gone through of a sequence, with the next element. *)
LEMMA NextPrefix ==
  ASSUME NEW S, NEW s \in Seq(S), NEW k \in 1..Len(s)
  PROVE  /\ SubSeq(s, 1, k - 1) \in Seq(S) /\ s[k] \in S
         /\ SubSeq(s, 1, k) = Append(SubSeq(s, 1, k - 1), s[k])
<1>1. PICK n \in Nat : n = Len(s) /\ DOMAIN s = 1..n
  BY LenProperties
<1>2. \A j \in 1..n : s[j] \in S
  BY <1>1, ElementOfSeq
<1>3. PICK a : a = SubSeq(s, 1, k - 1)
  OBVIOUS
<1>4. PICK b : b = SubSeq(s, 1, k)
  OBVIOUS
<1>5. a \in Seq(S) /\ Len(a) = k - 1 /\ \A j \in 1..(k - 1) : a[j] = s[j]
  <2>1. \A j \in 1..(k - 1) : s[j] \in S
    BY <1>1, <1>2
  <2>2. /\ SubSeq(s, 1, k - 1) \in Seq(S)
        /\ Len(SubSeq(s, 1, k - 1)) = IF 1 <= k - 1 THEN (k - 1) - 1 + 1 ELSE 0
        /\ \A j \in 1..((k - 1) - 1 + 1) : SubSeq(s, 1, k - 1)[j] = s[1 + j - 1]
    BY <1>1, <2>1, SubSeqProperties
  <2>3. QED
    BY <1>1, <1>3, <2>2
<1>6. b \in Seq(S) /\ Len(b) = k /\ \A j \in 1..k : b[j] = s[j]
  <2>1. \A j \in 1..k : s[j] \in S
    BY <1>1, <1>2
  <2>2. /\ SubSeq(s, 1, k) \in Seq(S)
        /\ Len(SubSeq(s, 1, k)) = IF 1 <= k THEN k - 1 + 1 ELSE 0
        /\ \A j \in 1..(k - 1 + 1) : SubSeq(s, 1, k)[j] = s[1 + j - 1]
    BY <1>1, <2>1, SubSeqProperties
  <2>3. QED
    BY <1>1, <1>4, <2>2
<1>7. PICK c : c = Append(a, s[k])
  OBVIOUS
<1>8. /\ c \in Seq(S) /\ Len(c) = k /\ c[k] = s[k]
      /\ \A j \in 1..(k - 1) : c[j] = s[j]
  BY <1>1, <1>2, <1>5, <1>7, AppendProperties
<1>9. b = c
  <2>1. \A j \in 1..Len(b) : b[j] = c[j]
    BY <1>6, <1>8
  <2>2. QED
    BY <1>6, <1>8, <2>1, SeqEqual
<1>10. QED
  BY <1>1, <1>2, <1>3, <1>4, <1>5, <1>7, <1>9

(* The operations on some nodes are operations, and those of exactly the     *)
(* nodes that are in the batch and were selected.                            *)
IdsOf(ops) == {op.id : op \in ToSet(ops)}

LEMMA IdsOfAppend ==
  ASSUME NEW ops \in Seq(Op), NEW op \in Op
  PROVE  IdsOf(Append(ops, op)) = IdsOf(ops) \cup {op.id}
<1>1. PICK n \in Nat : n = Len(ops) /\ DOMAIN ops = 1..n
  BY LenProperties
<1>2. PICK a : a = Append(ops, op)
  OBVIOUS
<1>3. /\ a \in Seq(Op) /\ DOMAIN a = 1..(n+1) /\ a[n+1] = op
      /\ \A k \in 1..n : a[k] = ops[k]
  BY <1>1, <1>2, AppendProperties, LenProperties
<1>4. ToSet(a) = ToSet(ops) \cup {op}
  BY <1>1, <1>3 DEF ToSet
<1>5. QED
  BY <1>2, <1>4 DEF IdsOf

LEMMA OperationsOnIs ==
  ASSUME NEW ops \in Seq(Op), NEW ids
  PROVE  /\ OperationsOn(ops, ids) \in Seq(Op)
         /\ IdsOf(OperationsOn(ops, ids)) = IdsOf(ops) \cap ids
<1>1. \A s, S : OperationsOn(s, S) = Keeping!Folded(S, <<>>, s)
  BY DEF OperationsOn, FoldLeft, MapThenFoldSet, Max, Keeping!Folded,
         Keeping!Greatest, KeepOp
<1>2. PICK n \in Nat : n = Len(ops) /\ DOMAIN ops = 1..n
  BY LenProperties
<1>3. PICK g : /\ Keeping!Goes(g, ids, <<>>, ops, n)
               /\ Keeping!Folded(ids, <<>>, ops) = g[n]
  BY <1>2, Keeping!FoldValues, NatSetInduction DEF Keeping!Induction
<1>4. \A k \in 1..n : ops[k] \in Op
  BY <1>2, ElementOfSeq
<1>5. PICK T : T = {k \in Nat : k <= n =>
                      /\ g[k] \in Seq(Op)
                      /\ IdsOf(g[k]) = {ops[j].id : j \in 1..k} \cap ids}
  OBVIOUS
<1>6. 0 \in T
  <2>1. g[0] = <<>>
    BY <1>3 DEF Keeping!Goes
  <2>2. <<>> \in Seq(Op) /\ IdsOf(<<>>) = {}
    <3>1. DOMAIN <<>> = {}
      OBVIOUS
    <3>2. QED
      BY <3>1, EmptySeq DEF IdsOf, ToSet
  <2>3. 1..0 = {}
    OBVIOUS
  <2>4. QED
    BY <1>5, <2>1, <2>2, <2>3
<1>7. ASSUME NEW k \in Nat, k \in T PROVE k + 1 \in T
  <2>1. CASE k + 1 <= n
    <3>1. k + 1 \in 1..n /\ (k + 1) - 1 = k
      BY <2>1
    <3>2. g[k+1] = IF ops[k+1].id \in ids THEN Append(g[k], ops[k+1]) ELSE g[k]
      BY <1>3, <3>1 DEF Keeping!Goes, KeepOp
    <3>3. ops[k+1] \in Op /\ g[k] \in Seq(Op)
          /\ IdsOf(g[k]) = {ops[j].id : j \in 1..k} \cap ids
      BY <1>4, <1>5, <1>7, <2>1, <3>1
    <3>4. {ops[j].id : j \in 1..(k+1)} = {ops[j].id : j \in 1..k} \cup {ops[k+1].id}
      <4>1. 1..(k+1) = (1..k) \cup {k+1}
        OBVIOUS
      <4>2. QED
        BY <4>1
    <3>5. Append(g[k], ops[k+1]) \in Seq(Op)
          /\ IdsOf(Append(g[k], ops[k+1])) = IdsOf(g[k]) \cup {ops[k+1].id}
      BY <3>3, IdsOfAppend, AppendProperties
    <3>6. g[k+1] \in Seq(Op) /\ IdsOf(g[k+1]) = {ops[j].id : j \in 1..(k+1)} \cap ids
      BY <3>2, <3>3, <3>4, <3>5
    <3>7. QED
      BY <1>5, <3>6
  <2>2. CASE ~(k + 1 <= n)
    BY <1>5, <2>2
  <2>3. QED
    BY <2>1, <2>2
<1>8. n \in T
  BY <1>6, <1>7, NatSetInduction
<1>9. IdsOf(ops) = {ops[j].id : j \in 1..n}
  BY <1>2 DEF IdsOf, ToSet
<1>10. QED
  BY <1>1, <1>3, <1>5, <1>8, <1>9

-----------------------------------------------------------------------------
(* The inductive invariant.  A committed triple is good; a request carries    *)
(* a good working copy that follows the committed outline, and from the end   *)
(* of the loop on a good triple that extends the committed log, of which each *)
(* file written so far is in the worktree.                                    *)

GoodSnapshot(s) ==
  /\ DOMAIN s = {"revision", "outline", "proposals"}
  /\ s.revision \in Nat
  /\ GoodOutline(s.outline)
  /\ s.proposals \in Seq(Proposal)

IsLog(log) == \E S : log \in Seq(S)

InLog(req, log) == \E k \in DOMAIN log : log[k].req = req

GoodLog(log) ==
  /\ IsLog(log)
  /\ \A k \in DOMAIN log : log[k].revision = k
  /\ \A k, m \in DOMAIN log :
       log[k].req = log[m].req /\ log[k].req # NoRequest => k = m

GoodFiles(f) ==
  /\ DOMAIN f = {"snapshot", "log", "markdown"}
  /\ GoodSnapshot(f.snapshot)
  /\ GoodLog(f.log)
  /\ Len(f.log) = f.snapshot.revision
  /\ f.markdown = Render(f.snapshot.outline)

\* f may be the next commit after `from` for a batch made at revision base.
Succeeds(f, from, base) ==
  /\ Follows(f.snapshot.outline, from.snapshot.outline, base)
  /\ \A req : InLog(req, from.log) => InLog(req, f.log)

Writing == {"snapshot", "log", "markdown", "commit"}

HeadInv == head # NoFile => GoodFiles(head)

JobInv ==
  /\ job.base \in Nat /\ job.ops \in Seq(Op) /\ job.ids \subseteq Id
  /\ i \in Nat \ {0}
  /\ job.kind # "apply" => job.req = NoRequest

LoopInv ==
  at = "ops" =>
    /\ head # NoFile
    /\ job.kind \in {"apply", "propose", "accept"}
    /\ job.kind = "apply" => ~Applied(job.req)
    /\ job.kind = "accept" => job.proposal \in DOMAIN Snapshot.proposals
    /\ job.base = MadeAt
    /\ GoodOutline(work)
    /\ Follows(work, Snapshot.outline, job.base)

NextInv ==
  at \in Writing =>
    /\ GoodFiles(next)
    /\ head # NoFile => job.base = MadeAt /\ Succeeds(next, head, job.base)
    /\ job.req # NoRequest => InLog(job.req, next.log)

TreeInv ==
  /\ DOMAIN tree = {"snapshot", "log", "markdown"}
  /\ at \in {"log", "markdown", "commit"} => tree.snapshot = next.snapshot
  /\ at \in {"markdown", "commit"} => tree.log = next.log
  /\ at = "commit" => tree.markdown = next.markdown

AckInv ==
  /\ at = "respond" => head # NoFile /\ (job.req # NoRequest => InLog(job.req, Log))
  /\ AckedIsDurable

IInv == HeadInv /\ JobInv /\ LoopInv /\ NextInv /\ TreeInv /\ AckInv

-----------------------------------------------------------------------------
(* Lemmas *)

(* One more record at the end of the log. *)
LEMMA LongerLog ==
  ASSUME NEW log, IsLog(log), NEW e
  PROVE  LET longer == Append(log, e)
         IN  /\ IsLog(longer)
             /\ Len(log) \in Nat /\ Len(longer) = Len(log) + 1
             /\ DOMAIN log = 1..Len(log) /\ DOMAIN longer = 1..(Len(log) + 1)
             /\ \A k \in DOMAIN log : longer[k] = log[k]
             /\ longer[Len(log) + 1] = e
<1>1. PICK S : log \in Seq(S)
  BY DEF IsLog
<1>2. log \in Seq(S \cup {e})
  BY <1>1, SeqMonotonic
<1>3. QED
  BY <1>2, AppendProperties, LenProperties DEF IsLog

LEMMA RecordedLog ==
  ASSUME NEW log, GoodLog(log), NEW e,
         e.revision = Len(log) + 1,
         e.req # NoRequest => ~InLog(e.req, log)
  PROVE  /\ GoodLog(Append(log, e))
         /\ InLog(e.req, Append(log, e))
         /\ \A req : InLog(req, log) => InLog(req, Append(log, e))
BY LongerLog DEF GoodLog, InLog

(* An outline follows itself. *)
LEMMA FollowsItself ==
  ASSUME NEW w, NEW base PROVE Follows(w, w, base)
BY DEF Follows, Differs

LEMMA NoOps == <<>> \in Seq(Op)
BY EmptySeq

(* A triple of files is not the lack of one. *)
LEMMA FilesExist ==
  ASSUME NEW f, DOMAIN f = {"snapshot", "log", "markdown"} PROVE f # NoFile
<1>1. DOMAIN <<>> = {}
  OBVIOUS
<1>2. QED
  BY <1>1 DEF NoFile

(* The first commit. *)
LEMMA FirstFiles == GoodFiles(Files(EmptySnapshot, <<>>))
<1>1. GoodOutline(EmptyOutline)
  BY DEF GoodOutline, EmptyOutline, GoodNodes, Forest, ParentsExist, Acyclic
<1>2. GoodLog(<<>>) /\ Len(<<>>) = 0 /\ <<>> \in Seq(Proposal)
  BY EmptySeq DEF GoodLog, IsLog
<1>3. GoodSnapshot(EmptySnapshot)
  <2>1. /\ DOMAIN EmptySnapshot = {"revision", "outline", "proposals"}
        /\ EmptySnapshot.revision = 0
        /\ EmptySnapshot.outline = EmptyOutline
        /\ EmptySnapshot.proposals = <<>>
    BY DEF EmptySnapshot
  <2>2. QED
    BY <2>1, <1>1, <1>2 DEF GoodSnapshot
<1>4. QED
  BY <1>2, <1>3 DEF GoodFiles, Files, EmptySnapshot

(* The triple a request that got to the end of its loop is going to write. *)
LEMMA ResultIsGood ==
  ASSUME IInv, at = "ops"
  PROVE  /\ GoodFiles(Result)
         /\ Succeeds(Result, head, job.base)
         /\ job.req # NoRequest => InLog(job.req, Result.log)
<1> USE DEF Snapshot, Log
<1>1. /\ head # NoFile /\ GoodFiles(head) /\ GoodOutline(work)
      /\ Follows(work, Snapshot.outline, job.base)
      /\ job.base \in Nat /\ job.ops \in Seq(Op) /\ job.ids \subseteq Id
      /\ job.kind \in {"apply", "propose", "accept"}
  BY DEF IInv, HeadInv, LoopInv, JobInv
<1>2. GoodSnapshot(Snapshot) /\ GoodLog(Log)
      /\ Snapshot.revision \in Nat /\ Len(Log) = Snapshot.revision
  BY <1>1 DEF GoodFiles, GoodSnapshot
<1> DEFINE longer == Append(Log, Record)
<1>3. ASSUME job.kind \in {"apply", "accept"}
      PROVE  /\ GoodLog(longer) /\ InLog(job.req, longer)
             /\ \A req : InLog(req, Log) => InLog(req, longer)
             /\ Len(longer) = Snapshot.revision + 1
  <2>1. Record.revision = Len(Log) + 1 /\ Record.req = job.req
    BY <1>2 DEF Record
  <2>2. job.req # NoRequest => ~InLog(job.req, Log)
    BY <1>3 DEF IInv, LoopInv, JobInv, Applied, InLog
  <2>3. Len(longer) = Len(Log) + 1
    BY <1>2, LongerLog DEF GoodLog
  <2>4. QED
    BY <1>2, <2>1, <2>2, <2>3, RecordedLog
<1>4. /\ DOMAIN NewSnapshot = {"revision", "outline", "proposals"}
      /\ NewSnapshot.revision = Snapshot.revision + 1
      /\ NewSnapshot.outline = work
      /\ NewSnapshot.proposals = Snapshot.proposals
  BY <1>2 DEF NewSnapshot, GoodSnapshot
<1>5. CASE job.kind = "apply"
  <2>1. Result = Files(NewSnapshot, longer)
    BY <1>5 DEF Result
  <2>2. GoodSnapshot(NewSnapshot)
    BY <1>1, <1>2, <1>4 DEF GoodSnapshot
  <2>3. /\ DOMAIN Result = {"snapshot", "log", "markdown"}
        /\ Result.snapshot = NewSnapshot /\ Result.log = longer
        /\ Result.markdown = Render(work)
    BY <2>1, <1>4 DEF Files
  <2>4. QED
    BY <1>1, <1>3, <1>4, <1>5, <2>2, <2>3 DEF GoodFiles, Succeeds
<1>6. CASE job.kind = "accept"
  <2> DEFINE p == job.proposal
             q == Snapshot.proposals[p]
             r == Accepted(q, job.ids)
             s == [NewSnapshot EXCEPT !.proposals[p] = Accepted(@, job.ids)]
  <2>1. Result = Files(s, longer)
    BY <1>6 DEF Result
  <2>2. p \in 1..Len(Snapshot.proposals) /\ Snapshot.proposals \in Seq(Proposal)
    BY <1>2, <1>6, LenProperties DEF IInv, LoopInv, GoodSnapshot
  <2>3. r \in Proposal
    <3>1. q \in Proposal
      BY <2>2, ElementOfSeq
    <3>2. QED
      BY <3>1, <1>1 DEF Proposal, Accepted
  <2>4. s.proposals \in Seq(Proposal)
    <3>1. s.proposals = [Snapshot.proposals EXCEPT ![p] = r]
      BY <1>4, <2>2
    <3> HIDE DEF p, r, s
    <3>2. QED
      BY <3>1, <2>2, <2>3, ExceptSeq
  <2>5. /\ DOMAIN s = {"revision", "outline", "proposals"}
        /\ s.revision = Snapshot.revision + 1
        /\ s.outline = work
    BY <1>4
  <2>6. GoodSnapshot(s)
    BY <1>1, <1>2, <2>4, <2>5 DEF GoodSnapshot
  <2>7. /\ DOMAIN Result = {"snapshot", "log", "markdown"}
        /\ Result.snapshot = s /\ Result.log = longer
        /\ Result.markdown = Render(work)
    BY <2>1, <2>5 DEF Files
  <2>8. QED
    BY <1>1, <1>3, <1>6, <2>5, <2>6, <2>7 DEF GoodFiles, Succeeds
<1>7. CASE job.kind = "propose"
  <2> DEFINE q == [base |-> job.base, ops |-> job.ops, pending |-> OpIds(job.ops),
                   accepted |-> {}, rejected |-> {}]
             s == [Snapshot EXCEPT !.proposals = Append(@, q)]
  <2>1. Result = Files(s, Log)
    BY <1>7 DEF Result
  <2>2. q \in Proposal
    <3>1. OpIds(job.ops) \subseteq Id
      <4>1. \A k \in DOMAIN job.ops : job.ops[k] \in Op
        BY <1>1, ElementOfSeq, LenProperties
      <4>2. \A op \in Op : op.id \in Id
        BY DEF Op, InsertOp, UpdateOp, MoveOp, DeleteOp
      <4>3. QED
        BY <4>1, <4>2 DEF OpIds, ToSet
    <3>2. QED
      BY <3>1, <1>1 DEF Proposal, Rev
  <2>3. /\ DOMAIN s = {"revision", "outline", "proposals"}
        /\ s.revision = Snapshot.revision
        /\ s.outline = Snapshot.outline
        /\ s.proposals = Append(Snapshot.proposals, q)
    BY <1>2 DEF GoodSnapshot
  <2>4. GoodSnapshot(s)
    BY <1>2, <2>2, <2>3, AppendProperties DEF GoodSnapshot
  <2>5. /\ DOMAIN Result = {"snapshot", "log", "markdown"}
        /\ Result.snapshot = s /\ Result.log = Log
        /\ Result.markdown = Render(Snapshot.outline)
    BY <2>1, <2>3 DEF Files
  <2>6. Follows(Snapshot.outline, Snapshot.outline, job.base)
    BY FollowsItself
  <2>7. job.req = NoRequest
    BY <1>7 DEF IInv, JobInv
  <2>8. QED
    BY <1>2, <2>3, <2>4, <2>5, <2>6, <2>7 DEF GoodFiles, Succeeds
<1>8. QED
  BY <1>1, <1>5, <1>6, <1>7

(* A rejection writes another list of proposals and the same outline. *)
LEMMA RejectIsGood ==
  ASSUME IInv, NEW p, NEW ids \in SUBSET Id, Reject(p, ids)
  PROVE  GoodFiles(next') /\ Succeeds(next', head, job'.base)
<1> USE DEF Snapshot, Log
<1> DEFINE q == Snapshot.proposals[p]
           r == Rejected(q, ids)
           s == [Snapshot EXCEPT !.proposals[p] = Rejected(@, ids)]
<1>1. GoodFiles(head) /\ GoodSnapshot(Snapshot) /\ GoodLog(Log)
      /\ Len(Log) = Snapshot.revision
  BY DEF IInv, HeadInv, Reject, GoodFiles
<1>2. p \in 1..Len(Snapshot.proposals) /\ Snapshot.proposals \in Seq(Proposal)
  BY <1>1, LenProperties DEF Reject, Selectable, GoodSnapshot
<1>3. r \in Proposal
  <2>1. q \in Proposal
    BY <1>2, ElementOfSeq
  <2>2. QED
    BY <2>1 DEF Proposal, Rejected
<1>4. s.proposals \in Seq(Proposal)
  <2>1. s.proposals = [Snapshot.proposals EXCEPT ![p] = r]
    BY <1>1, <1>2 DEF GoodSnapshot
  <2>2. QED
    BY <2>1, <1>2, <1>3, ExceptSeq
<1>5. /\ DOMAIN s = {"revision", "outline", "proposals"}
      /\ s.revision = Snapshot.revision
      /\ s.outline = Snapshot.outline
  BY <1>1 DEF GoodSnapshot
<1>6. next' = Files(s, Log)
  BY DEF Reject
<1>7. /\ DOMAIN next' = {"snapshot", "log", "markdown"}
      /\ next'.snapshot = s /\ next'.log = Log
      /\ next'.markdown = Render(Snapshot.outline)
  BY <1>5, <1>6 DEF Files
<1>8. GoodSnapshot(s)
  BY <1>1, <1>4, <1>5 DEF GoodSnapshot
<1>9. QED
  BY <1>1, <1>5, <1>7, <1>8, FollowsItself DEF GoodFiles, Succeeds

-----------------------------------------------------------------------------
(* The invariant holds at the start and through every action. *)

LEMMA InitIsGood == Init => IInv
BY DEF Init, IInv, HeadInv, JobInv, LoopInv, NextInv, TreeInv, AckInv,
       AckedIsDurable, Writing, Idle, NoFiles

(* A batch from a client, or a proposal, starts its loop. *)
LEMMA ServeKeeps ==
  ASSUME IInv, NEW request, Serve(request),
         request.base \in Nat, request.ops \in Seq(Op), request.ids \subseteq Id,
         request.kind \in {"apply", "propose", "accept"},
         request.kind # "apply" => request.req = NoRequest,
         request.kind = "apply" => ~Applied(request.req),
         request.kind = "accept" =>
           /\ request.proposal \in DOMAIN Snapshot.proposals
           /\ request.base = Snapshot.proposals[request.proposal].base
  PROVE  IInv'
<1>1. HeadInv' /\ JobInv' /\ NextInv' /\ TreeInv' /\ AckInv'
  BY DEF IInv, Serve, HeadInv, JobInv, NextInv, TreeInv, AckInv,
         AckedIsDurable, Writing, Log
<1>2. LoopInv'
  <2>1. GoodOutline(Snapshot.outline)
    BY DEF IInv, HeadInv, Serve, GoodFiles, GoodSnapshot, Snapshot
  <2>2. Follows(Snapshot.outline, Snapshot.outline, request.base)
    BY FollowsItself
  <2>3. QED
    BY <2>1, <2>2 DEF Serve, LoopInv, Applied, MadeAt, Snapshot, Log
<1>3. QED
  BY <1>1, <1>2 DEF IInv

LEMMA RequestKeeps == ASSUME IInv, Request PROVE IInv'
<1> USE DEF Rev
<1>1. CASE InitStore
  <2>1. CASE head # NoFile
    BY <1>1, <2>1 DEF InitStore, IInv, HeadInv, JobInv, LoopInv, NextInv,
       TreeInv, AckInv, AckedIsDurable, Writing, Log, GoodFiles
  <2>2. CASE head = NoFile
    <3>1. /\ job'.req = NoRequest /\ job'.kind = "init" /\ job'.base = 0
          /\ job'.ops = <<>> /\ job'.ids = {} /\ i' = i /\ head' = head
          /\ at' = "snapshot" /\ next' = Files(EmptySnapshot, <<>>)
          /\ acked' = acked /\ tree' = tree
      BY <1>1, <2>2 DEF InitStore, Idle
    <3>2. JobInv'
      BY <3>1, NoOps DEF IInv, JobInv
    <3>3. NextInv'
      BY <3>1, <2>2, FirstFiles DEF NextInv
    <3>4. HeadInv' /\ LoopInv' /\ TreeInv' /\ AckInv'
      BY <3>1 DEF IInv, HeadInv, LoopInv, TreeInv, AckInv, AckedIsDurable, Log
    <3>5. QED
      BY <3>2, <3>3, <3>4 DEF IInv
  <2>3. QED
    BY <2>1, <2>2
<1>2. ASSUME NEW ops \in Batch, NEW base \in 0..(MaxRevision + 1),
             NEW req \in RequestId \cup {NoRequest}, BeginApply(req, base, ops)
      PROVE  IInv'
  <2> DEFINE r == [Idle EXCEPT !.kind = "apply", !.req = req, !.base = base,
                               !.ops = ops]
  <2>1. /\ r.base \in Nat /\ r.ops \in Seq(Op) /\ r.ids \subseteq Id
        /\ r.kind = "apply" /\ r.req = req
    BY StoreBounds, BatchAssumption DEF Idle
  <2>2. Serve(r) /\ ~Applied(req)
    BY <1>2 DEF BeginApply
  <2> HIDE DEF r
  <2>3. QED
    BY <2>1, <2>2, ServeKeeps
<1>3. ASSUME NEW ops \in Batch, NEW base \in 0..(MaxRevision + 1),
             BeginPropose(base, ops)
      PROVE  IInv'
  <2> DEFINE r == [Idle EXCEPT !.kind = "propose", !.base = base, !.ops = ops]
  <2>1. /\ r.base \in Nat /\ r.ops \in Seq(Op) /\ r.ids \subseteq Id
        /\ r.kind = "propose" /\ r.req = NoRequest
    BY StoreBounds, BatchAssumption DEF Idle
  <2>2. Serve(r)
    BY <1>3 DEF BeginPropose
  <2> HIDE DEF r
  <2>3. QED
    BY <2>1, <2>2, ServeKeeps
<1>4. ASSUME NEW req \in RequestId, NEW ops \in Batch, Retry(req, ops)
      PROVE  IInv'
  <2>1. InLog(req, Log)
    BY <1>4 DEF Retry, InLog
  <2>2. AckInv'
    BY <1>4, <2>1 DEF Retry, IInv, AckInv, AckedIsDurable, InLog, Log
  <2>3. QED
    BY <1>4, <2>2 DEF Retry, IInv, HeadInv, JobInv, LoopInv, NextInv, TreeInv,
       Writing
<1>5. ASSUME NEW p \in 1..MaxProposals, NEW ids \in SUBSET Id, BeginAccept(p, ids)
      PROVE  IInv'
  <2> DEFINE q == Snapshot.proposals[p]
             r == [Idle EXCEPT !.kind = "accept", !.base = q.base,
                               !.ops = OperationsOn(q.ops, ids),
                               !.proposal = p, !.ids = ids]
  <2>1. p \in DOMAIN Snapshot.proposals /\ q \in Proposal
    <3>1. Snapshot.proposals \in Seq(Proposal) /\ p \in DOMAIN Snapshot.proposals
      BY <1>5 DEF BeginAccept, Selectable, IInv, HeadInv, GoodFiles,
                  GoodSnapshot, Snapshot
    <3>2. QED
      BY <3>1, ElementOfSeq, LenProperties
  <2>2. /\ r.base \in Nat /\ r.ops \in Seq(Op) /\ r.ids \subseteq Id
        /\ r.kind = "accept" /\ r.req = NoRequest /\ r.proposal = p /\ r.base = q.base
    BY <2>1, OperationsOnIs DEF Idle, Proposal
  <2>3. Serve(r)
    BY <1>5 DEF BeginAccept
  <2> HIDE DEF r
  <2>4. QED
    BY <2>1, <2>2, <2>3, ServeKeeps
<1>6. ASSUME NEW p \in 1..MaxProposals, NEW ids \in SUBSET Id, Reject(p, ids)
      PROVE  IInv'
  <2>1. GoodFiles(next') /\ Succeeds(next', head, job'.base)
    BY <1>6, RejectIsGood
  <2>2. /\ job'.req = NoRequest /\ job'.kind = "reject" /\ job'.base = 0
        /\ job'.ops = <<>> /\ job'.ids = ids /\ i' = i
    BY <1>6 DEF Reject, Idle
  <2>3. HeadInv' /\ LoopInv' /\ TreeInv' /\ AckInv'
    BY <1>6 DEF Reject, IInv, HeadInv, LoopInv, TreeInv, AckInv,
       AckedIsDurable, Log
  <2>4. JobInv'
    BY <2>2, NoOps DEF IInv, JobInv
  <2>5. NextInv'
    BY <1>6, <2>1, <2>2 DEF Reject, NextInv, MadeAt, Writing
  <2>6. QED
    BY <2>3, <2>4, <2>5 DEF IInv
<1>7. QED
  BY <1>1, <1>2, <1>3, <1>4, <1>5, <1>6 DEF Request

(* The next operation of the batch, on the working copy. *)
LEMMA ApplyNextKeeps == ASSUME IInv, ApplyNext PROVE IInv'
<1>1. /\ head # NoFile /\ GoodFiles(head)
      /\ GoodOutline(work) /\ Follows(work, Snapshot.outline, job.base)
      /\ job.base \in Rev
  BY DEF ApplyNext, IInv, HeadInv, LoopInv, JobInv, Rev
<1>2. ThisOp \in Op
  <2>1. i \in 1..Len(job.ops) /\ job.ops \in Seq(Op)
    BY LenProperties DEF ApplyNext, IInv, JobInv
  <2>2. QED
    BY <2>1, ElementOfSeq DEF ThisOp
<1>3. Snapshot.revision + 1 \in Rev /\ GoodNodes(Snapshot.outline.node)
  BY <1>1 DEF GoodFiles, GoodSnapshot, GoodOutline, Snapshot, Rev
<1>4. Accepts(ThisOp, work, Snapshot.outline.node, job.base)
  BY DEF ApplyNext, AcceptsThis
<1>5. GoodOutline(work')
  BY <1>1, <1>2, <1>3, <1>4, EffectIsGood DEF ApplyNext
<1>6. Follows(work', Snapshot.outline, job.base)
  BY <1>1, <1>2, <1>3, <1>4, EffectFollows DEF ApplyNext
<1>7. LoopInv'
  BY <1>5, <1>6 DEF ApplyNext, IInv, LoopInv, Applied, MadeAt, Snapshot, Log
<1>8. JobInv'
  BY DEF ApplyNext, IInv, JobInv
<1>9. HeadInv' /\ NextInv' /\ TreeInv' /\ AckInv'
  BY DEF ApplyNext, IInv, HeadInv, NextInv, TreeInv, AckInv, AckedIsDurable,
         Writing, Log
<1>10. QED
  BY <1>7, <1>8, <1>9 DEF IInv

LEMMA ServeStepKeeps == ASSUME IInv, ServeStep PROVE IInv'
<1> USE DEF Writing
<1>1. CASE ApplyNext
  BY <1>1, ApplyNextKeeps
<1>2. CASE RefuseBatch
  BY <1>2, NoOps DEF RefuseBatch, IInv, HeadInv, JobInv, LoopInv, NextInv,
     TreeInv, AckInv, AckedIsDurable, Log, Idle
<1>3. CASE EndBatch
  <2>1. /\ GoodFiles(Result) /\ Succeeds(Result, head, job.base)
        /\ job.req # NoRequest => InLog(job.req, Result.log)
    BY <1>3, ResultIsGood DEF EndBatch
  <2>2. NextInv'
    BY <1>3, <2>1 DEF EndBatch, IInv, LoopInv, NextInv, MadeAt, Snapshot
  <2>3. HeadInv' /\ JobInv' /\ LoopInv' /\ TreeInv' /\ AckInv'
    BY <1>3 DEF EndBatch, IInv, HeadInv, JobInv, LoopInv, TreeInv, AckInv,
       AckedIsDurable, Log
  <2>4. QED
    BY <2>2, <2>3 DEF IInv
<1>4. CASE WriteSnapshot \/ WriteLog \/ WriteMarkdown
  <2>1. TreeInv'
    BY <1>4 DEF WriteSnapshot, WriteLog, WriteMarkdown, IInv, TreeInv
  <2>2. HeadInv' /\ JobInv' /\ LoopInv' /\ NextInv' /\ AckInv'
    BY <1>4 DEF WriteSnapshot, WriteLog, WriteMarkdown, IInv, HeadInv, JobInv,
       LoopInv, NextInv, AckInv, AckedIsDurable, MadeAt, Snapshot, Log
  <2>3. QED
    BY <2>1, <2>2 DEF IInv
<1>5. CASE Commit
  <2>1. /\ GoodFiles(next) /\ DOMAIN tree = {"snapshot", "log", "markdown"}
        /\ tree.snapshot = next.snapshot /\ tree.log = next.log
        /\ tree.markdown = next.markdown
        /\ head # NoFile => Succeeds(next, head, job.base)
        /\ job.req # NoRequest => InLog(job.req, next.log)
    BY <1>5 DEF Commit, IInv, NextInv, TreeInv
  <2>2. GoodFiles(tree) /\ tree # NoFile
    BY <2>1, FilesExist DEF GoodFiles
  <2>3. AckedIsDurable'
    <3>1. ASSUME NEW req \in acked PROVE InLog(req, next.log)
      BY <2>1, <3>1 DEF IInv, AckInv, AckedIsDurable, Succeeds, InLog, Log
    <3>2. QED
      BY <1>5, <2>1, <2>2, <3>1 DEF Commit, AckedIsDurable, InLog, Log
  <2>4. AckInv'
    BY <1>5, <2>1, <2>2, <2>3 DEF Commit, AckInv, Log
  <2>5. HeadInv' /\ JobInv' /\ LoopInv' /\ NextInv' /\ TreeInv'
    BY <1>5, <2>2 DEF Commit, IInv, HeadInv, JobInv, LoopInv, NextInv, TreeInv
  <2>6. QED
    BY <2>4, <2>5 DEF IInv
<1>6. CASE Respond
  BY <1>6, NoOps DEF Respond, IInv, HeadInv, JobInv, LoopInv, NextInv,
     TreeInv, AckInv, AckedIsDurable, InLog, Log, Idle
<1>7. QED
  BY <1>1, <1>2, <1>3, <1>4, <1>5, <1>6 DEF ServeStep

LEMMA CrashKeeps == ASSUME IInv, Crash PROVE IInv'
BY NoOps DEF Crash, IInv, HeadInv, JobInv, LoopInv, NextInv, TreeInv,
   AckInv, AckedIsDurable, Writing, Log, Idle

LEMMA StutterKeeps == ASSUME IInv, UNCHANGED vars PROVE IInv'
BY DEF vars, IInv, HeadInv, JobInv, LoopInv, NextInv, TreeInv, AckInv,
   AckedIsDurable, Writing, Applied, MadeAt, Snapshot, Log

LEMMA Inductive == Spec => []IInv
<1>1. IInv /\ [Next]_vars => IInv'
  BY RequestKeeps, ServeStepKeeps, CrashKeeps, StutterKeeps DEF Next
<1>2. QED
  BY InitIsGood, <1>1, PTL DEF Spec

-----------------------------------------------------------------------------
(* What follows from it, for every instance of the store. *)

(* The committed nodes always form a forest: batches, partial acceptances and *)
(* crashes never leave an orphan or a cycle.                                  *)
THEOREM CommittedForestHolds == Spec => []CommittedForest
<1>1. IInv => CommittedForest
  BY DEF IInv, HeadInv, GoodFiles, GoodSnapshot, GoodOutline, CommittedForest,
         Snapshot
<1>2. QED
  BY <1>1, Inductive, PTL

(* The three files of a commit are of one write, wherever a writer died. *)
THEOREM CommitsAreWholeHolds == Spec => []CommitsAreWhole
<1>1. IInv => CommitsAreWhole
  BY DEF IInv, HeadInv, GoodFiles, GoodLog, CommitsAreWhole, Snapshot, Log
<1>2. QED
  BY <1>1, Inductive, PTL

(* A batch with a request id is applied at most once, however often it is     *)
(* sent and whatever crash hid the answer.                                    *)
THEOREM AppliedOnceHolds == Spec => []AppliedOnce
<1>1. IInv => AppliedOnce
  BY DEF IInv, HeadInv, GoodFiles, GoodLog, AppliedOnce, Log
<1>2. QED
  BY <1>1, Inductive, PTL

(* A batch that was reported as applied is in the log for ever. *)
THEOREM AckedIsDurableHolds == Spec => []AckedIsDurable
<1>1. IInv => AckedIsDurable
  BY DEF IInv, AckInv
<1>2. QED
  BY <1>1, Inductive, PTL

(* Only a commit changes what readers see, and it commits the next triple. *)
LEMMA CommitStep ==
  ASSUME IInv, [Next]_vars, head # NoFile, head' # head
  PROVE  Follows(head'.snapshot.outline, Snapshot.outline, MadeAt)
         /\ GoodOutline(head'.snapshot.outline)
<1>1. CASE Commit
  <2>1. /\ head' = tree /\ tree.snapshot = next.snapshot
        /\ GoodFiles(next) /\ Succeeds(next, head, MadeAt)
    BY <1>1 DEF Commit, IInv, NextInv, TreeInv, Writing
  <2>2. QED
    BY <2>1 DEF Succeeds, GoodFiles, GoodSnapshot, Snapshot
<1>2. CASE Request
  BY <1>2 DEF Request, InitStore, BeginApply, BeginPropose, BeginAccept, Retry,
     Reject, Serve
<1>3. CASE ServeStep /\ ~Commit
  BY <1>3 DEF ServeStep, ApplyNext, RefuseBatch, EndBatch,
     WriteSnapshot, WriteLog, WriteMarkdown, Respond
<1>4. CASE Crash
  BY <1>4 DEF Crash
<1>5. QED
  BY <1>1, <1>2, <1>3, <1>4 DEF Next, vars

(* No batch overwrites, moves or deletes a node that changed after the        *)
(* revision the batch was made at, be it from a client or an old proposal.    *)
THEOREM NoStaleOverwriteHolds == Spec => NoStaleOverwrite
<1>1. ASSUME IInv, [Next]_vars, head # NoFile, head' # head,
             NEW id \in DOMAIN Snapshot.outline.node, Touched(id)
      PROVE  Snapshot.outline.node[id].changedAt <= MadeAt
  <2>1. Follows(head'.snapshot.outline, Snapshot.outline, MadeAt)
    BY <1>1, CommitStep
  <2>2. Differs(head'.snapshot.outline, Snapshot.outline, id)
    BY <1>1 DEF Touched, Holds, Differs
  <2>3. QED
    BY <2>1, <2>2 DEF Follows
<1>2. IInv /\ [Next]_vars => [RespectsRevisions]_vars
  BY <1>1 DEF RespectsRevisions
<1>3. QED
  BY <1>2, Inductive, PTL DEF NoStaleOverwrite, Spec

(* An id that was deleted never names a node again. *)
THEOREM DeletedForGoodHolds == Spec => DeletedForGood
<1>1. ASSUME IInv, [Next]_vars, head # NoFile,
             NEW id \in DOMAIN Snapshot.outline.tombs
      PROVE  /\ id \in DOMAIN head'.snapshot.outline.tombs
             /\ head'.snapshot.outline.tombs[id] = Snapshot.outline.tombs[id]
             /\ id \notin DOMAIN head'.snapshot.outline.node
  <2>1. CASE head' = head
    BY <1>1, <2>1 DEF IInv, HeadInv, GoodFiles, GoodSnapshot, GoodOutline, Snapshot
  <2>2. CASE head' # head
    BY <1>1, <2>2, CommitStep DEF Follows, GoodOutline
  <2>3. QED
    BY <2>1, <2>2
<1>2. IInv /\ [Next]_vars => [RespectsTombstones]_vars
  BY <1>1 DEF RespectsTombstones
<1>3. QED
  BY <1>2, Inductive, PTL DEF DeletedForGood, Spec

-----------------------------------------------------------------------------
(* The store implements OutlineHistory.  Operators of the instance History   *)
(* are those of OutlineOps under another name.                               *)

LEMMA SameAccepts ==
  \A op, w, initial, base :
    Accepts(op, w, initial, base) <=> History!Accepts(op, w, initial, base)
BY DEF Accepts, Checked, Conflicts, CanPlace, Without, DescendantIds,
       ClosedUnderChildren, History!Accepts, History!Checked, History!Conflicts,
       History!CanPlace, History!Without, History!DescendantIds,
       History!ClosedUnderChildren

LEMMA SameEffect ==
  \A op, w, rev : Effect(op, w, rev) = History!Effect(op, w, rev)
BY DEF Effect, Inserted, Updated, Moved, Deleted, With, Without, Place, Position,
       DescendantIds, ClosedUnderChildren, SelectInSeq, SelectLastInSeq,
       InsertAt, Max, Min, History!Effect, History!Inserted, History!Updated,
       History!Moved, History!Deleted, History!With, History!Without,
       History!Place, History!Position, History!DescendantIds,
       History!ClosedUnderChildren, History!SelectInSeq,
       History!SelectLastInSeq, History!InsertAt, History!Max, History!Min

LEMMA SameOperationsOn ==
  \A ops, ids : OperationsOn(ops, ids) = History!OperationsOn(ops, ids)
BY DEF OperationsOn, FoldLeft, MapThenFoldSet, Max, History!OperationsOn,
       History!FoldLeft, History!MapThenFoldSet, History!Max

(* One step of ApplyBatch, for the batch b, as a fold of its operations. *)
BatchStep(b, r, op) ==
  IF r.ok /\ History!Accepts(op, r.w, b.outline.node, b.base)
  THEN [ok |-> TRUE, w |-> History!Effect(op, r.w, b.rev)]
  ELSE [ok |-> FALSE, w |-> b.outline]
Batching == INSTANCE Folding WITH Step <- BatchStep

BatchAt(outline, base, rev) == [outline |-> outline, base |-> base, rev |-> rev]
Untouched(outline) == [ok |-> TRUE, w |-> outline]

LEMMA ApplyBatchIs ==
  \A outline, ops, base, rev :
    History!ApplyBatch(outline, ops, base, rev) =
      Batching!Folded(BatchAt(outline, base, rev), Untouched(outline), ops)
<1>1. \A b, ops : History!ApplyBatch(b.outline, ops, b.base, b.rev) =
                    Batching!Folded(b, [ok |-> TRUE, w |-> b.outline], ops)
  BY DEF History!ApplyBatch, History!FoldLeft, History!MapThenFoldSet,
         History!Max, Batching!Folded, Batching!Greatest, BatchStep
<1> SUFFICES ASSUME NEW outline, NEW ops, NEW base, NEW rev
             PROVE  History!ApplyBatch(outline, ops, base, rev) =
               Batching!Folded(BatchAt(outline, base, rev), Untouched(outline), ops)
  OBVIOUS
<1>2. PICK b : b = BatchAt(outline, base, rev)
  OBVIOUS
<1>3. b.outline = outline /\ b.base = base /\ b.rev = rev
  BY <1>2 DEF BatchAt
<1>4. QED
  BY <1>1, <1>2, <1>3 DEF Untouched

(* Nothing done yet, and one operation more. *)
LEMMA BatchStarts ==
  \A outline, base, rev :
    History!ApplyBatch(outline, <<>>, base, rev) = Untouched(outline)
BY ApplyBatchIs, Batching!FoldEmpty, NatSetInduction DEF Batching!Induction

LEMMA BatchGoesOn ==
  ASSUME NEW outline, NEW ops \in Seq(Op), NEW base, NEW rev,
         NEW k \in 1..Len(ops), NEW w,
         History!ApplyBatch(outline, SubSeq(ops, 1, k - 1), base, rev) =
           [ok |-> TRUE, w |-> w],
         Accepts(ops[k], w, outline.node, base)
  PROVE  History!ApplyBatch(outline, SubSeq(ops, 1, k), base, rev) =
           [ok |-> TRUE, w |-> Effect(ops[k], w, rev)]
<1>1. PICK b : b = BatchAt(outline, base, rev)
  OBVIOUS
<1>2. b.outline = outline /\ b.base = base /\ b.rev = rev
  BY <1>1 DEF BatchAt
<1>3. PICK d : d = SubSeq(ops, 1, k - 1)
  OBVIOUS
<1>4. d \in Seq(Op) /\ ops[k] \in Op /\ SubSeq(ops, 1, k) = Append(d, ops[k])
  BY <1>3, NextPrefix
<1>5. Batching!Folded(b, Untouched(outline), d) = [ok |-> TRUE, w |-> w]
  BY <1>1, <1>3, ApplyBatchIs
<1>6. Batching!Folded(b, Untouched(outline), Append(d, ops[k])) =
        BatchStep(b, Batching!Folded(b, Untouched(outline), d), ops[k])
  BY <1>4, Batching!FoldAppend, NatSetInduction DEF Batching!Induction
<1>7. BatchStep(b, [ok |-> TRUE, w |-> w], ops[k]) =
        [ok |-> TRUE, w |-> Effect(ops[k], w, rev)]
  BY <1>2, SameAccepts, SameEffect DEF BatchStep
<1>8. QED
  BY <1>1, <1>4, <1>5, <1>6, <1>7, ApplyBatchIs

(* A batch that can be applied does to the outline what its operations do    *)
(* one after another: that is what replaying its record does.                *)
LEMMA ReplayRecordIs ==
  \A w, record : ReplayRecord(w, record) =
                   Applying!Folded(record.revision, w, record.ops)
BY DEF ReplayRecord, FoldLeft, MapThenFoldSet, Max, Applying!Folded,
       Applying!Greatest, EffectAt

LEMMA BatchIsReplay ==
  ASSUME NEW outline, NEW ops \in Seq(Op), NEW base, NEW rev,
         History!ApplyBatch(outline, ops, base, rev).ok
  PROVE  History!ApplyBatch(outline, ops, base, rev).w =
           Applying!Folded(rev, outline, ops)
<1>1. PICK b : b = BatchAt(outline, base, rev)
  OBVIOUS
<1>2. b.outline = outline /\ b.base = base /\ b.rev = rev
  BY <1>1 DEF BatchAt
<1>3. PICK n \in Nat : n = Len(ops)
  BY LenProperties
<1>4. PICK h : /\ Batching!Goes(h, b, Untouched(outline), ops, n)
               /\ Batching!Folded(b, Untouched(outline), ops) = h[n]
  BY <1>3, Batching!FoldValues, NatSetInduction DEF Batching!Induction
<1>5. PICK g : /\ Applying!Goes(g, rev, outline, ops, n)
               /\ Applying!Folded(rev, outline, ops) = g[n]
  BY <1>3, Applying!FoldValues, NatSetInduction DEF Applying!Induction
<1>6. PICK T : T = {k \in Nat : k <= n /\ h[k].ok => h[k].w = g[k]}
  OBVIOUS
<1>7. 0 \in T
  BY <1>4, <1>5, <1>6 DEF Batching!Goes, Applying!Goes, Untouched
<1>8. ASSUME NEW k \in Nat, k \in T PROVE k + 1 \in T
  <2> SUFFICES ASSUME k + 1 <= n, h[k+1].ok PROVE h[k+1].w = g[k+1]
    BY <1>6
  <2>1. k + 1 \in 1..n /\ (k + 1) - 1 = k
    OBVIOUS
  <2>2. h[k+1] = BatchStep(b, h[k], ops[k+1])
    BY <1>4, <2>1 DEF Batching!Goes
  <2>3. g[k+1] = Effect(ops[k+1], g[k], rev)
    BY <1>5, <2>1 DEF Applying!Goes, EffectAt
  <2>4. h[k].ok /\ h[k+1].w = Effect(ops[k+1], h[k].w, rev)
    BY <1>2, <2>2, SameEffect DEF BatchStep
  <2>5. h[k].w = g[k]
    BY <1>6, <1>8, <2>4
  <2>6. QED
    BY <2>3, <2>4, <2>5
<1>9. n \in T
  BY <1>7, <1>8, NatSetInduction
<1>10. QED
  BY <1>1, <1>3, <1>4, <1>5, <1>6, <1>9, ApplyBatchIs

-----------------------------------------------------------------------------
(* What the refinement needs besides IInv: the working copy is what the      *)
(* operations done so far make of the committed outline, and what is being   *)
(* written is a step of OutlineHistory from the commit.                      *)

Pair(f) == [snapshot |-> f.snapshot, log |-> f.log]
Result0(ops, base) ==
  History!ApplyBatch(Snapshot.outline, ops, base, Snapshot.revision + 1)
Done == SubSeq(job.ops, 1, i - 1)

Asked ==
  /\ job.ops # <<>> /\ job.base <= Snapshot.revision
  /\ job.kind \in {"apply", "propose"} => job.ops \in Batch
  /\ job.kind = "apply" => job.req \in RequestId \cup {NoRequest} /\ job.proposal = 0
  /\ job.kind = "accept" =>
       /\ Selectable(job.proposal, job.ids)
       /\ job.ops = OperationsOn(Snapshot.proposals[job.proposal].ops, job.ids)

ServedInv ==
  at = "ops" =>
    /\ Asked
    /\ i <= Len(job.ops) + 1
    /\ Result0(Done, job.base) = [ok |-> TRUE, w |-> work]

Fitting(ops, base) ==
  ops # <<>> /\ base <= Snapshot.revision /\ Result0(ops, base).ok
GrownBy(req, base, ops, proposal, proposals) ==
  [snapshot |-> [revision |-> Snapshot.revision + 1,
                 outline |-> Result0(ops, base).w, proposals |-> proposals],
   log |-> Append(Log, [req |-> req, base |-> base, ops |-> ops,
                        revision |-> Snapshot.revision + 1, proposal |-> proposal])]
With0(proposals) ==
  [snapshot |-> [revision |-> Snapshot.revision, outline |-> Snapshot.outline,
                 proposals |-> proposals], log |-> Log]
Submitted(base, ops) ==
  [base |-> base, ops |-> ops, pending |-> OpIds(ops), accepted |-> {}, rejected |-> {}]

\* h is the history after one request, from the last commit.
AppliedTo(h, req, base, ops) ==
  /\ ops \in Batch /\ base \in Nat /\ req \in RequestId \cup {NoRequest}
  /\ Fitting(ops, base)
  /\ req # NoRequest => ~InLog(req, Log)
  /\ h = GrownBy(req, base, ops, 0, Snapshot.proposals)
ProposedTo(h, base, ops) ==
  /\ ops \in Batch /\ base \in Nat
  /\ Fitting(ops, base)
  /\ h = With0(Append(Snapshot.proposals, Submitted(base, ops)))
AcceptedFrom(h, p, ids) ==
  LET q == Snapshot.proposals[p]
      ops == OperationsOn(q.ops, ids)
  IN  /\ Selectable(p, ids)
      /\ Fitting(ops, q.base)
      /\ h = GrownBy(NoRequest, q.base, ops, p,
               [Snapshot.proposals EXCEPT ![p] = Accepted(q, ids)])
RejectedFrom(h, p, ids) ==
  /\ Selectable(p, ids)
  /\ h = With0([Snapshot.proposals EXCEPT ![p] = Rejected(Snapshot.proposals[p], ids)])

Moves(h) ==
  \/ \E req, base, ops : AppliedTo(h, req, base, ops)
  \/ \E base, ops : ProposedTo(h, base, ops)
  \/ \E p, ids : AcceptedFrom(h, p, ids) \/ RejectedFrom(h, p, ids)

\* What the last commit allows does not change while it is the last.
LEMMA MovesStay ==
  ASSUME head' = head, NEW h
  PROVE  Moves(h) => Moves(h)'
<1>1. Snapshot' = Snapshot /\ Log' = Log
  BY DEF Snapshot, Log
<1>2. \A ops, base : Fitting(ops, base)' = Fitting(ops, base)
  BY <1>1 DEF Fitting, Result0
<1>3. \A req, base, ops, proposal, proposals :
        GrownBy(req, base, ops, proposal, proposals)'
          = GrownBy(req, base, ops, proposal, proposals)
  BY <1>1 DEF GrownBy, Result0
<1>4. \A proposals : With0(proposals)' = With0(proposals)
  BY <1>1 DEF With0
<1>5. \A p, ids : Selectable(p, ids)' = Selectable(p, ids)
  BY <1>1 DEF Selectable
<1>6. ASSUME NEW req, NEW base, NEW ops, AppliedTo(h, req, base, ops)
      PROVE  AppliedTo(h, req, base, ops)'
  BY <1>1, <1>2, <1>3, <1>6 DEF AppliedTo
<1>7. ASSUME NEW base, NEW ops, ProposedTo(h, base, ops)
      PROVE  ProposedTo(h, base, ops)'
  BY <1>1, <1>2, <1>4, <1>7 DEF ProposedTo
<1>8. ASSUME NEW p, NEW ids, AcceptedFrom(h, p, ids)
      PROVE  AcceptedFrom(h, p, ids)'
  BY <1>1, <1>2, <1>3, <1>5, <1>8 DEF AcceptedFrom
<1>9. ASSUME NEW p, NEW ids, RejectedFrom(h, p, ids)
      PROVE  RejectedFrom(h, p, ids)'
  BY <1>1, <1>4, <1>5, <1>9 DEF RejectedFrom
<1> QED BY <1>6, <1>7, <1>8, <1>9 DEF Moves

LEMMA NextMoves ==
  ASSUME head' = head, Moves(Pair(next'))
  PROVE  Moves(Pair(next))'
<1>1. PICK h : h = Pair(next')
  OBVIOUS
<1>2. Moves(h)'
  BY <1>1, MovesStay
<1>3. h = Pair(next)'
  BY <1>1 DEF Pair
<1> QED BY <1>2, <1>3

PlanInv ==
  at \in Writing =>
    IF head = NoFile THEN Pair(next) = Pair(Files(EmptySnapshot, <<>>))
                     ELSE Moves(Pair(next))

HInv == ServedInv /\ PlanInv

(* The triple that EndBatch is going to write is a step of the history. *)
LEMMA NewSnapshotIs ==
  ASSUME NEW s, DOMAIN s = {"revision", "outline", "proposals"}, NEW r, NEW w
  PROVE  [s EXCEPT !.revision = r, !.outline = w] =
           [revision |-> r, outline |-> w, proposals |-> s.proposals]
<1>1. PICK a : a = [s EXCEPT !.revision = r]
  OBVIOUS
<1>2. /\ DOMAIN a = {"revision", "outline", "proposals"}
      /\ a.revision = r /\ a.proposals = s.proposals
  BY <1>1
<1>3. [a EXCEPT !.outline = w] =
        [revision |-> r, outline |-> w, proposals |-> s.proposals]
  BY <1>2
<1>4. [s EXCEPT !.revision = r, !.outline = w] = [a EXCEPT !.outline = w]
  BY <1>1
<1>5. QED
  BY <1>3, <1>4

LEMMA EndIsMove ==
  ASSUME IInv, HInv, at = "ops", i > Len(job.ops)
  PROVE  Moves(Pair(Result))
<1>1. /\ head # NoFile /\ GoodFiles(head) /\ GoodSnapshot(Snapshot)
      /\ job.base \in Nat /\ job.ops \in Seq(Op)
      /\ job.kind \in {"apply", "propose", "accept"}
      /\ Asked
  BY DEF IInv, HeadInv, LoopInv, JobInv, HInv, ServedInv, GoodFiles, Snapshot
<1>2. Result0(job.ops, job.base) = [ok |-> TRUE, w |-> work]
  <2>1. Len(job.ops) \in Nat /\ i \in Nat
    BY <1>1, LenProperties DEF IInv, JobInv
  <2>2. i - 1 = Len(job.ops)
    BY <2>1 DEF HInv, ServedInv
  <2>3. Done = job.ops
    BY <1>1, <2>2, SubSeqFull DEF Done
  <2>4. QED
    BY <2>3 DEF HInv, ServedInv
<1>3. Fitting(job.ops, job.base)
  BY <1>1, <1>2 DEF Fitting, Asked
<1>4. Record = [req |-> job.req, base |-> job.base, ops |-> job.ops,
                revision |-> Snapshot.revision + 1, proposal |-> job.proposal]
  BY DEF Record
<1>5. CASE job.kind = "apply"
  <2>1. Result.snapshot = NewSnapshot /\ Result.log = Append(Log, Record)
    BY <1>5 DEF Result, Files
  <2>2. NewSnapshot = [revision |-> Snapshot.revision + 1, outline |-> work,
                       proposals |-> Snapshot.proposals]
    BY <1>1, NewSnapshotIs DEF NewSnapshot, GoodSnapshot
  <2>3. Pair(Result) = GrownBy(job.req, job.base, job.ops, 0, Snapshot.proposals)
    <3>1. Result0(job.ops, job.base).w = work
      BY <1>2
    <3>2. Record = [req |-> job.req, base |-> job.base, ops |-> job.ops,
                    revision |-> Snapshot.revision + 1, proposal |-> 0]
      BY <1>1, <1>4, <1>5 DEF Asked
    <3>3. QED
      BY <2>1, <2>2, <3>1, <3>2 DEF Pair, GrownBy
  <2>4. job.req # NoRequest => ~InLog(job.req, Log)
    BY <1>5 DEF IInv, LoopInv, Applied, InLog
  <2>5. AppliedTo(Pair(Result), job.req, job.base, job.ops)
    BY <1>1, <1>3, <1>5, <2>3, <2>4 DEF AppliedTo, Asked
  <2>6. QED
    BY <2>5 DEF Moves
<1>6. CASE job.kind = "propose"
  <2> DEFINE q == [base |-> job.base, ops |-> job.ops, pending |-> OpIds(job.ops),
                   accepted |-> {}, rejected |-> {}]
  <2>1. Result.snapshot = [Snapshot EXCEPT !.proposals = Append(@, q)]
        /\ Result.log = Log
    BY <1>6 DEF Result, Files
  <2>2. Result.snapshot = [revision |-> Snapshot.revision, outline |-> Snapshot.outline,
                           proposals |-> Append(Snapshot.proposals, q)]
    BY <1>1, <2>1 DEF GoodSnapshot
  <2>3. Pair(Result) = With0(Append(Snapshot.proposals, Submitted(job.base, job.ops)))
    BY <2>1, <2>2 DEF Pair, With0, Submitted
  <2>4. ProposedTo(Pair(Result), job.base, job.ops)
    BY <1>1, <1>3, <1>6, <2>3 DEF ProposedTo, Asked
  <2>5. QED
    BY <2>4 DEF Moves
<1>7. CASE job.kind = "accept"
  <2> DEFINE p == job.proposal
             s == [NewSnapshot EXCEPT !.proposals[p] = Accepted(@, job.ids)]
  <2>1. Result.snapshot = s /\ Result.log = Append(Log, Record)
    BY <1>7 DEF Result, Files
  <2>2. NewSnapshot = [revision |-> Snapshot.revision + 1, outline |-> work,
                       proposals |-> Snapshot.proposals]
    BY <1>1, NewSnapshotIs DEF NewSnapshot, GoodSnapshot
  <2>3. s = [revision |-> Snapshot.revision + 1, outline |-> work,
             proposals |-> [Snapshot.proposals EXCEPT
                              ![p] = Accepted(Snapshot.proposals[p], job.ids)]]
    BY <2>2
  <2>4. /\ job.req = NoRequest /\ Selectable(p, job.ids)
        /\ job.ops = OperationsOn(Snapshot.proposals[p].ops, job.ids)
        /\ job.base = Snapshot.proposals[p].base
    BY <1>1, <1>7 DEF IInv, JobInv, LoopInv, MadeAt, Asked
  <2> HIDE DEF p, s
  <2>5. Pair(Result) = GrownBy(NoRequest, job.base, job.ops, p,
           [Snapshot.proposals EXCEPT ![p] = Accepted(Snapshot.proposals[p], job.ids)])
    <3>1. Result0(job.ops, job.base).w = work
      BY <1>2
    <3>2. Record = [req |-> NoRequest, base |-> job.base, ops |-> job.ops,
                    revision |-> Snapshot.revision + 1, proposal |-> p]
      BY <1>4, <2>4 DEF p
    <3>3. QED
      BY <2>1, <2>3, <3>1, <3>2 DEF Pair, GrownBy
  <2>6. AcceptedFrom(Pair(Result), p, job.ids)
    BY <1>3, <2>4, <2>5 DEF AcceptedFrom
  <2>7. QED
    BY <2>6 DEF Moves
<1>8. QED
  BY <1>1, <1>5, <1>6, <1>7

LEMMA HInit == Init => HInv
BY DEF Init, HInv, ServedInv, PlanInv, Writing

(* The loop starts with nothing done. *)
LEMMA HServe ==
  ASSUME IInv, NEW request, Serve(request), request.ops \in Seq(Op), Asked'
  PROVE  HInv'
<1>1. /\ at' = "ops" /\ i' = 1 /\ job' = request /\ work' = Snapshot.outline
      /\ head' = head
  BY DEF Serve
<1>2. Done' = <<>>
  BY <1>1, SubSeqEmpty DEF Done
<1>3. Result0(Done, job.base)' = [ok |-> TRUE, w |-> work']
  BY <1>1, <1>2, BatchStarts DEF Result0, Untouched, Snapshot
<1>4. 1 <= Len(request.ops) + 1
  BY LenProperties
<1>5. ServedInv'
  BY <1>1, <1>3, <1>4 DEF ServedInv
<1>6. PlanInv'
  BY <1>1 DEF PlanInv, Writing
<1>7. QED
  BY <1>5, <1>6 DEF HInv

LEMMA HRequest == ASSUME IInv, HInv, Request PROVE HInv'
<1>1. CASE InitStore
  <2>1. CASE head # NoFile
    BY <1>1, <2>1 DEF InitStore, HInv, ServedInv, PlanInv, Writing
  <2>2. CASE head = NoFile
    BY <1>1, <2>2 DEF InitStore, HInv, ServedInv, PlanInv
  <2>3. QED
    BY <2>1, <2>2
<1>2. ASSUME NEW ops \in Batch, NEW base \in 0..(MaxRevision + 1),
             NEW req \in RequestId \cup {NoRequest}, BeginApply(req, base, ops)
      PROVE  HInv'
  <2> DEFINE r == [Idle EXCEPT !.kind = "apply", !.req = req, !.base = base,
                               !.ops = ops]
  <2>1. /\ r.ops = ops /\ r.kind = "apply" /\ r.req = req /\ r.proposal = 0
        /\ r.base = base
    BY DEF Idle
  <2>2. Serve(r)
    BY <1>2 DEF BeginApply
  <2> HIDE DEF r
  <2>3. r.ops \in Seq(Op)
    BY <2>1, BatchAssumption
  <2>4. Asked'
    BY <2>1, <2>2 DEF Asked, Serve, Snapshot
  <2>5. QED
    BY <2>2, <2>3, <2>4, HServe
<1>3. ASSUME NEW ops \in Batch, NEW base \in 0..(MaxRevision + 1),
             BeginPropose(base, ops)
      PROVE  HInv'
  <2> DEFINE r == [Idle EXCEPT !.kind = "propose", !.base = base, !.ops = ops]
  <2>1. r.ops = ops /\ r.kind = "propose" /\ r.base = base
    BY DEF Idle
  <2>2. Serve(r)
    BY <1>3 DEF BeginPropose
  <2> HIDE DEF r
  <2>3. r.ops \in Seq(Op)
    BY <2>1, BatchAssumption
  <2>4. Asked'
    BY <2>1, <2>2 DEF Asked, Serve, Snapshot
  <2>5. QED
    BY <2>2, <2>3, <2>4, HServe
<1>4. ASSUME NEW req \in RequestId, NEW ops \in Batch, Retry(req, ops)
      PROVE  HInv'
  BY <1>4 DEF Retry, HInv, ServedInv, PlanInv, Writing
<1>5. ASSUME NEW p \in 1..MaxProposals, NEW ids \in SUBSET Id, BeginAccept(p, ids)
      PROVE  HInv'
  <2> DEFINE q == Snapshot.proposals[p]
             r == [Idle EXCEPT !.kind = "accept", !.base = q.base,
                               !.ops = OperationsOn(q.ops, ids),
                               !.proposal = p, !.ids = ids]
  <2>1. /\ r.ops = OperationsOn(q.ops, ids) /\ r.kind = "accept" /\ r.base = q.base
        /\ r.proposal = p /\ r.ids = ids
    BY DEF Idle
  <2>2. Serve(r) /\ Selectable(p, ids)
    BY <1>5 DEF BeginAccept
  <2>3. q \in Proposal
    <3>1. Snapshot.proposals \in Seq(Proposal) /\ p \in DOMAIN Snapshot.proposals
      BY <1>5 DEF BeginAccept, Selectable, IInv, HeadInv, GoodFiles,
                  GoodSnapshot, Snapshot
    <3>2. QED
      BY <3>1, ElementOfSeq, LenProperties
  <2>4. OperationsOn(q.ops, ids) \in Seq(Op)
    BY <2>3, OperationsOnIs DEF Proposal
  <2> HIDE DEF r
  <2>5. Asked'
    BY <2>1, <2>2 DEF Asked, Serve, Snapshot, Selectable
  <2>6. QED
    BY <2>1, <2>2, <2>4, <2>5, HServe
<1>6. ASSUME NEW p \in 1..MaxProposals, NEW ids \in SUBSET Id, Reject(p, ids)
      PROVE  HInv'
  <2> DEFINE s == [Snapshot EXCEPT !.proposals[p] = Rejected(@, ids)]
  <2>1. GoodSnapshot(Snapshot)
    BY <1>6 DEF Reject, IInv, HeadInv, GoodFiles, Snapshot
  <2>2. next' = Files(s, Log) /\ head' = head /\ at' = "snapshot" /\ head # NoFile
        /\ Selectable(p, ids)
    BY <1>6 DEF Reject
  <2>3. s = [revision |-> Snapshot.revision, outline |-> Snapshot.outline,
             proposals |-> [Snapshot.proposals EXCEPT
                              ![p] = Rejected(Snapshot.proposals[p], ids)]]
    BY <2>1 DEF GoodSnapshot
  <2> HIDE DEF s
  <2>4. Pair(next') = With0([Snapshot.proposals EXCEPT
                              ![p] = Rejected(Snapshot.proposals[p], ids)])
    BY <2>2, <2>3 DEF Files, Pair, With0
  <2>5. RejectedFrom(Pair(next'), p, ids)
    BY <2>2, <2>4 DEF RejectedFrom
  <2>6. Moves(Pair(next'))
    BY <2>5 DEF Moves
  <2>7. head' = head
    BY <2>2
  <2>8. Moves(Pair(next))'
    BY <2>6, <2>7, NextMoves
  <2>9. QED
    BY <2>2, <2>8 DEF HInv, ServedInv, PlanInv
<1>7. QED
  BY <1>1, <1>2, <1>3, <1>4, <1>5, <1>6 DEF Request

LEMMA HApplyNext == ASSUME IInv, HInv, ApplyNext PROVE HInv'
<1>1. /\ at = "ops" /\ at' = "ops" /\ i' = i + 1 /\ head' = head /\ job' = job
      /\ work' = Effect(job.ops[i], work, Snapshot.revision + 1)
      /\ i <= Len(job.ops)
      /\ Accepts(job.ops[i], work, Snapshot.outline.node, job.base)
  BY DEF ApplyNext, AcceptsThis, ThisOp
<1>2. job.ops \in Seq(Op) /\ Len(job.ops) \in Nat /\ i \in 1..Len(job.ops)
  BY <1>1, LenProperties DEF IInv, JobInv
<1>3. Result0(Done, job.base) = [ok |-> TRUE, w |-> work]
  BY <1>1 DEF HInv, ServedInv
<1>4. Done' = SubSeq(job.ops, 1, i)
  BY <1>1, <1>2 DEF Done
<1>5. Result0(SubSeq(job.ops, 1, i), job.base) = [ok |-> TRUE, w |-> work']
  BY <1>1, <1>2, <1>3, BatchGoesOn DEF Result0, Done
<1>6. Result0(Done, job.base)' = [ok |-> TRUE, w |-> work']
  BY <1>1, <1>4, <1>5 DEF Result0, Snapshot
<1>7. Asked'
  BY <1>1 DEF HInv, ServedInv, Asked, Selectable, Snapshot
<1>8. i' <= Len(job'.ops) + 1
  BY <1>1, <1>2
<1>9. QED
  BY <1>1, <1>6, <1>7, <1>8 DEF HInv, ServedInv, PlanInv, Writing

LEMMA HServeStep == ASSUME IInv, HInv, ServeStep PROVE HInv'
<1>1. CASE ApplyNext
  BY <1>1, HApplyNext
<1>2. CASE RefuseBatch
  BY <1>2 DEF RefuseBatch, HInv, ServedInv, PlanInv, Writing
<1>3. CASE EndBatch
  <2>1. /\ at = "ops" /\ at' = "snapshot" /\ head' = head /\ next' = Result
        /\ head # NoFile
    BY <1>3 DEF EndBatch, IInv, LoopInv
  <2>2. Moves(Pair(Result))
    BY <1>3, EndIsMove DEF EndBatch
  <2>3. head' = head /\ next' = Result
    BY <2>1
  <2>4. Moves(Pair(next'))
    BY <2>2, <2>3
  <2>5. Moves(Pair(next))'
    BY <2>3, <2>4, NextMoves
  <2>6. QED
    BY <2>1, <2>5 DEF HInv, ServedInv, PlanInv
<1>4. CASE WriteSnapshot \/ WriteLog \/ WriteMarkdown
  <2>1. at \in Writing /\ at' # "ops" /\ head' = head /\ next' = next
    BY <1>4 DEF WriteSnapshot, WriteLog, WriteMarkdown, Writing
  <2>2. IF head = NoFile THEN Pair(next) = Pair(Files(EmptySnapshot, <<>>))
                         ELSE Moves(Pair(next))
    BY <2>1 DEF HInv, PlanInv
  <2>3. CASE head = NoFile
    BY <2>1, <2>2, <2>3 DEF HInv, ServedInv, PlanInv, Pair
  <2>4. CASE head # NoFile
    <3>1. Moves(Pair(next')) /\ head' = head
      BY <2>1, <2>2, <2>4
    <3>2. Moves(Pair(next))'
      BY <3>1, NextMoves
    <3>3. QED
      BY <2>1, <2>4, <3>2 DEF HInv, ServedInv, PlanInv
  <2>5. QED
    BY <2>3, <2>4
<1>5. CASE Commit
  BY <1>5 DEF Commit, HInv, ServedInv, PlanInv, Writing
<1>6. CASE Respond
  BY <1>6 DEF Respond, HInv, ServedInv, PlanInv, Writing
<1>7. QED
  BY <1>1, <1>2, <1>3, <1>4, <1>5, <1>6 DEF ServeStep

LEMMA HCrash == ASSUME HInv, Crash PROVE HInv'
BY DEF Crash, HInv, ServedInv, PlanInv, Writing

LEMMA HStutter == ASSUME HInv, UNCHANGED vars PROVE HInv'
<1>1. ServedInv'
  BY DEF vars, HInv, ServedInv, Asked, Done, Result0, Selectable, Snapshot
<1>2. PlanInv'
  BY DEF vars, HInv, PlanInv, Writing, Moves, AppliedTo, ProposedTo, AcceptedFrom,
         RejectedFrom, Fitting, Result0, GrownBy, With0, Snapshot, Log, Selectable
<1>3. QED
  BY <1>1, <1>2 DEF HInv

LEMMA InductiveH == Spec => [](IInv /\ HInv)
<1>1. IInv /\ HInv /\ [Next]_vars => HInv'
  BY HRequest, HServeStep, HCrash, HStutter DEF Next
<1>2. QED
  BY HInit, Inductive, <1>1, PTL DEF Spec

(* The one step that changes what readers see is a step of the history. *)
LEMMA HeadMoves ==
  ASSUME IInv, HInv, [Next]_vars, head' # head
  PROVE  /\ head' # NoFile /\ GoodFiles(head')
         /\ IF head = NoFile THEN Committed' = Pair(Files(EmptySnapshot, <<>>))
                             ELSE Moves(Committed')
<1>1. Commit
  <2>1. CASE Request
    BY <2>1 DEF Request, InitStore, BeginApply, BeginPropose, BeginAccept, Retry,
       Reject, Serve
  <2>2. CASE ServeStep
    BY <2>2 DEF ServeStep, ApplyNext, RefuseBatch, EndBatch,
       WriteSnapshot, WriteLog, WriteMarkdown, Respond
  <2>3. CASE Crash
    BY <2>3 DEF Crash
  <2>4. QED
    BY <2>1, <2>2, <2>3 DEF Next, vars
<1>2. /\ head' = tree /\ tree.snapshot = next.snapshot /\ tree.log = next.log
      /\ tree.markdown = next.markdown
      /\ GoodFiles(next) /\ DOMAIN tree = {"snapshot", "log", "markdown"}
      /\ IF head = NoFile THEN Pair(next) = Pair(Files(EmptySnapshot, <<>>))
                          ELSE Moves(Pair(next))
  BY <1>1 DEF Commit, IInv, HInv, PlanInv, NextInv, TreeInv, Writing
<1>3. head' # NoFile /\ GoodFiles(head')
  BY <1>2, FilesExist DEF GoodFiles
<1>4. Committed' = Pair(next)
  BY <1>2, <1>3 DEF Committed, Pair
<1>5. QED
  BY <1>2, <1>3, <1>4

LEMMA MoveIsNext ==
  ASSUME GoodFiles(head), head # NoFile, Committed' # NoFile, Moves(Committed')
  PROVE  History!Next
<1>1. /\ Committed = [snapshot |-> Snapshot, log |-> Log] /\ Committed # NoFile
      /\ GoodSnapshot(Snapshot)
      /\ History!Current = Snapshot /\ History!Proposals = Snapshot.proposals
  <2>1. Committed = [snapshot |-> Snapshot, log |-> Log]
    BY DEF Committed, Snapshot, Log
  <2>2. Committed # NoFile
    <3>1. DOMAIN <<>> = {}
      OBVIOUS
    <3>2. DOMAIN Committed = {"snapshot", "log"}
      BY <2>1
    <3>3. QED
      BY <3>1, <3>2 DEF NoFile
  <2>3. QED
    BY <2>1, <2>2 DEF GoodFiles, Snapshot, History!Current, History!Proposals
<1>2. ASSUME NEW ops, NEW base, Fitting(ops, base)
      PROVE  History!Fits(ops, base)
  BY <1>1, <1>2 DEF Fitting, Result0, History!Fits
<1>3. ASSUME NEW req, NEW base, NEW ops, NEW p, NEW proposals
      PROVE  GrownBy(req, base, ops, p, proposals) =
             History!Grown(req, base, ops, p, proposals)
  BY <1>1 DEF GrownBy, Result0, History!Grown
<1>4. ASSUME NEW proposals
      PROVE  With0(proposals) = [Committed EXCEPT !.snapshot.proposals = proposals]
  <2>1. [Snapshot EXCEPT !.proposals = proposals] =
          [revision |-> Snapshot.revision, outline |-> Snapshot.outline,
           proposals |-> proposals]
    BY <1>1 DEF GoodSnapshot
  <2>2. [Committed EXCEPT !.snapshot.proposals = proposals] =
          [snapshot |-> [Snapshot EXCEPT !.proposals = proposals], log |-> Log]
    BY <1>1
  <2>3. QED
    BY <2>1, <2>2 DEF With0
<1>5. ASSUME NEW req, NEW base, NEW ops, AppliedTo(Committed', req, base, ops)
      PROVE  History!Next
  <2>1. History!Apply(req, base, ops)
    BY <1>1, <1>2, <1>3, <1>5 DEF AppliedTo, InLog, History!Apply
  <2>2. ops \in Batch /\ base \in 0..History!Current.revision
        /\ req \in RequestId \cup {NoRequest}
    BY <1>1, <1>5 DEF AppliedTo, Fitting, GoodSnapshot
  <2>3. QED
    BY <1>1, <2>1, <2>2 DEF History!Next
<1>6. ASSUME NEW base, NEW ops, ProposedTo(Committed', base, ops)
      PROVE  History!Next
  <2>1. Committed' = [Committed EXCEPT !.snapshot.proposals =
                        Append(Snapshot.proposals, Submitted(base, ops))]
    BY <1>4, <1>6 DEF ProposedTo
  <2>2. History!Propose(base, ops)
    BY <1>1, <1>2, <1>6, <2>1 DEF ProposedTo, Submitted, OpIds, ToSet,
       History!Propose, History!ToSet
  <2>3. ops \in Batch /\ base \in 0..History!Current.revision
    BY <1>1, <1>6 DEF ProposedTo, Fitting, GoodSnapshot
  <2>4. QED
    BY <1>1, <2>2, <2>3 DEF History!Next
<1>7. ASSUME NEW p, NEW ids, AcceptedFrom(Committed', p, ids)
      PROVE  History!Next
  <2>1. /\ p \in DOMAIN Snapshot.proposals /\ ids # {}
        /\ ids \in SUBSET Snapshot.proposals[p].pending
    BY <1>7 DEF AcceptedFrom, Selectable
  <2>2. [Snapshot.proposals EXCEPT ![p] = Accepted(Snapshot.proposals[p], ids)] =
        [Snapshot.proposals EXCEPT ![p].pending = @ \ ids, ![p].accepted = @ \cup ids]
    BY <2>1 DEF Accepted
  <2>3. History!Accept(p, ids)
    BY <1>1, <1>2, <1>3, <1>7, <2>1, <2>2, SameOperationsOn DEF AcceptedFrom,
       History!Accept
  <2>4. QED
    BY <1>1, <2>1, <2>3 DEF History!Next
<1>8. ASSUME NEW p, NEW ids, RejectedFrom(Committed', p, ids)
      PROVE  History!Next
  <2>1. /\ p \in DOMAIN Snapshot.proposals /\ ids # {}
        /\ ids \in SUBSET Snapshot.proposals[p].pending
    BY <1>8 DEF RejectedFrom, Selectable
  <2>2. Committed' = [Committed EXCEPT !.snapshot.proposals =
          [Snapshot.proposals EXCEPT ![p] = Rejected(Snapshot.proposals[p], ids)]]
    BY <1>4, <1>8 DEF RejectedFrom
  <2>3. Committed' = [Committed EXCEPT !.snapshot.proposals[p].pending = @ \ ids,
                                       !.snapshot.proposals[p].rejected = @ \cup ids]
    BY <1>1, <2>1, <2>2 DEF Rejected
  <2>4. History!Reject(p, ids)
    BY <1>1, <2>1, <2>3 DEF History!Reject
  <2>5. QED
    BY <1>1, <2>1, <2>4 DEF History!Next
<1>9. QED
  BY <1>5, <1>6, <1>7, <1>8 DEF Moves

(* Seen through the last commit, a request is one indivisible step: the loop  *)
(* over the operations, the three file writes, the crashes between them and   *)
(* the retries implement module OutlineHistory.                               *)
THEOREM WholeBatchesHolds == Spec => WholeBatches
<1>1. Init => History!Init
  BY DEF Init, Committed, History!Init
<1>2. IInv /\ HInv /\ [Next]_vars => [Committed' # Committed => History!Next]_Committed
  <2> SUFFICES ASSUME IInv, HInv, [Next]_vars, Committed' # Committed
               PROVE  History!Next
    OBVIOUS
  <2>1. head' # head
    BY DEF Committed
  <2>2. CASE head = NoFile
    <3>1. Committed = NoFile /\ Committed' = Pair(Files(EmptySnapshot, <<>>))
      BY <2>1, <2>2, HeadMoves DEF Committed
    <3>2. Pair(Files(EmptySnapshot, <<>>)) = [snapshot |-> EmptySnapshot, log |-> <<>>]
      BY DEF Pair, Files
    <3>3. History!Create
      BY <3>1, <3>2 DEF EmptySnapshot, EmptyOutline, History!Create,
         History!EmptyOutline
    <3>4. QED
      BY <3>3 DEF History!Next
  <2>3. CASE head # NoFile
    <3>1. GoodFiles(head) /\ Moves(Committed') /\ head' # NoFile
      BY <2>1, <2>3, HeadMoves DEF IInv, HeadInv
    <3>2. Committed' # NoFile
      <4>1. DOMAIN <<>> = {}
        OBVIOUS
      <4>2. DOMAIN Committed' = {"snapshot", "log"}
        BY <3>1 DEF Committed
      <4>3. QED
        BY <4>1, <4>2 DEF NoFile
    <3>3. QED
      BY <2>3, <3>1, <3>2, MoveIsNext
  <2>4. QED
    BY <2>2, <2>3
<1>3. QED
  BY <1>1, <1>2, InductiveH, PTL DEF Spec, WholeBatches, History!Spec

-----------------------------------------------------------------------------
(* What every step of the history keeps: the log replays to the outline, and *)
(* the proposals account for what was accepted of them.                      *)

ReplayOn(p, w, record) == ReplayRecord(w, record)
Replaying == INSTANCE Folding WITH Step <- ReplayOn

Replays(h) == FoldLeft(ReplayRecord, EmptyOutline, h.log) = h.snapshot.outline

LEMMA ReplayIs ==
  \A w, log : FoldLeft(ReplayRecord, w, log) = Replaying!Folded(0, w, log)
BY DEF ReplayOn, FoldLeft, MapThenFoldSet, Max, Replaying!Folded, Replaying!Greatest

LEMMA ReplayLonger ==
  ASSUME NEW w, NEW log, IsLog(log), NEW record
  PROVE  FoldLeft(ReplayRecord, w, Append(log, record)) =
           Applying!Folded(record.revision, FoldLeft(ReplayRecord, w, log), record.ops)
<1>1. PICK S : log \in Seq(S)
  BY DEF IsLog
<1>2. PICK R : R = S \cup {record}
  OBVIOUS
<1>3. log \in Seq(R) /\ record \in R
  BY <1>1, <1>2, SeqMonotonic
<1>4. Replaying!Folded(0, w, Append(log, record)) =
        ReplayOn(0, Replaying!Folded(0, w, log), record)
  BY <1>3, Replaying!FoldAppend, NatSetInduction DEF Replaying!Induction
<1>5. QED
  BY <1>4, ReplayIs, ReplayRecordIs DEF ReplayOn

LEMMA GrownReplays ==
  ASSUME GoodFiles(head), Replays(head), NEW req, NEW base, NEW ops \in Seq(Op),
         NEW p, NEW proposals, Fitting(ops, base)
  PROVE  Replays(GrownBy(req, base, ops, p, proposals))
<1>1. PICK record : record = [req |-> req, base |-> base, ops |-> ops,
                        revision |-> Snapshot.revision + 1, proposal |-> p]
  OBVIOUS
<1>2. PICK h : h = GrownBy(req, base, ops, p, proposals)
  OBVIOUS
<1>3. h.log = Append(Log, record) /\ h.snapshot.outline = Result0(ops, base).w
  BY <1>1, <1>2 DEF GrownBy
<1>4. Result0(ops, base).w = Applying!Folded(Snapshot.revision + 1, Snapshot.outline, ops)
  BY BatchIsReplay DEF Fitting, Result0
<1>5. IsLog(Log) /\ FoldLeft(ReplayRecord, EmptyOutline, Log) = Snapshot.outline
  BY DEF GoodFiles, GoodLog, Replays, Log, Snapshot
<1>6. record.revision = Snapshot.revision + 1 /\ record.ops = ops
  BY <1>1
<1>7. FoldLeft(ReplayRecord, EmptyOutline, h.log) = h.snapshot.outline
  BY <1>3, <1>4, <1>5, <1>6, ReplayLonger
<1>8. QED
  BY <1>2, <1>7 DEF Replays

LEMMA MoveReplays ==
  ASSUME GoodFiles(head), Replays(head), NEW h, Moves(h)
  PROVE  Replays(h)
<1>1. GoodSnapshot(Snapshot) /\ FoldLeft(ReplayRecord, EmptyOutline, Log) = Snapshot.outline
  BY DEF GoodFiles, Replays, Log, Snapshot
<1>2. ASSUME NEW proposals PROVE Replays(With0(proposals))
  BY <1>1 DEF Replays, With0
<1>3. ASSUME NEW req, NEW base, NEW ops, AppliedTo(h, req, base, ops)
      PROVE  Replays(h)
  BY <1>3, BatchAssumption, GrownReplays DEF AppliedTo
<1>4. ASSUME NEW p, NEW ids, AcceptedFrom(h, p, ids)
      PROVE  Replays(h)
  <2>1. Snapshot.proposals[p] \in Proposal
    BY <1>1, <1>4, ElementOfSeq, LenProperties DEF AcceptedFrom, Selectable, GoodSnapshot
  <2>2. OperationsOn(Snapshot.proposals[p].ops, ids) \in Seq(Op)
    BY <2>1, OperationsOnIs DEF Proposal
  <2>3. QED
    BY <1>4, <2>2, GrownReplays DEF AcceptedFrom
<1>5. QED
  BY <1>2, <1>3, <1>4 DEF Moves, ProposedTo, RejectedFrom

Accounts(h) ==
  /\ \A k \in DOMAIN h.log : h.log[k].proposal \in 0..Len(h.snapshot.proposals)
  /\ \A p \in DOMAIN h.snapshot.proposals :
       LET q == h.snapshot.proposals[p]
           from == {k \in DOMAIN h.log : h.log[k].proposal = p}
       IN  /\ q.pending \cup q.accepted \cup q.rejected = OpIds(q.ops)
           /\ q.pending \cap (q.accepted \cup q.rejected) = {}
           /\ q.accepted \cap q.rejected = {}
           /\ q.accepted = UNION {OpIds(h.log[k].ops) : k \in from}
           /\ \A k, m \in from : k # m => OpIds(h.log[k].ops) \cap OpIds(h.log[m].ops) = {}

\* The conjunct of Accounts about proposal p, which is q, in the log.
AccountsFor(q, p, log) ==
  /\ q.pending \cup q.accepted \cup q.rejected = OpIds(q.ops)
  /\ q.pending \cap (q.accepted \cup q.rejected) = {}
  /\ q.accepted \cap q.rejected = {}
  /\ \A id : id \in q.accepted <=>
       \E k \in DOMAIN log : log[k].proposal = p /\ id \in OpIds(log[k].ops)
  /\ \A k, m \in DOMAIN log : log[k].proposal = p /\ log[m].proposal = p /\ k # m =>
       OpIds(log[k].ops) \cap OpIds(log[m].ops) = {}

LEMMA AccountsIs ==
  ASSUME NEW h
  PROVE  Accounts(h) <=>
           /\ \A k \in DOMAIN h.log : h.log[k].proposal \in 0..Len(h.snapshot.proposals)
           /\ \A p \in DOMAIN h.snapshot.proposals :
                AccountsFor(h.snapshot.proposals[p], p, h.log)
<1>1. ASSUME NEW p \in DOMAIN h.snapshot.proposals
      PROVE  AccountsFor(h.snapshot.proposals[p], p, h.log) <=>
       LET q == h.snapshot.proposals[p]
           from == {k \in DOMAIN h.log : h.log[k].proposal = p}
       IN  /\ q.pending \cup q.accepted \cup q.rejected = OpIds(q.ops)
           /\ q.pending \cap (q.accepted \cup q.rejected) = {}
           /\ q.accepted \cap q.rejected = {}
           /\ q.accepted = UNION {OpIds(h.log[k].ops) : k \in from}
           /\ \A k, m \in from : k # m => OpIds(h.log[k].ops) \cap OpIds(h.log[m].ops) = {}
  <2> DEFINE q == h.snapshot.proposals[p]
             from == {k \in DOMAIN h.log : h.log[k].proposal = p}
  <2>1. (q.accepted = UNION {OpIds(h.log[k].ops) : k \in from}) <=>
        (\A id : id \in q.accepted <=> 
           \E k \in DOMAIN h.log : h.log[k].proposal = p /\ id \in OpIds(h.log[k].ops))
    OBVIOUS
  <2>2. (\A k, m \in from : k # m => OpIds(h.log[k].ops) \cap OpIds(h.log[m].ops) = {}) <=>
        (\A k, m \in DOMAIN h.log : h.log[k].proposal = p /\ h.log[m].proposal = p /\ k # m =>
           OpIds(h.log[k].ops) \cap OpIds(h.log[m].ops) = {})
    OBVIOUS
  <2>3. QED
    BY <2>1, <2>2 DEF AccountsFor
<1>2. QED
  BY <1>1 DEF Accounts

-----------------------------------------------------------------------------
(* A record of no proposal, or of another one, leaves a proposal's account.  *)
LEMMA AccountsLonger ==
  ASSUME NEW q, NEW p, NEW log, IsLog(log), NEW record, record.proposal # p,
         AccountsFor(q, p, log)
  PROVE  AccountsFor(q, p, Append(log, record))
<1>1. PICK n \in Nat : n = Len(log) /\ DOMAIN log = 1..n
  BY LongerLog
<1>2. PICK l : l = Append(log, record)
  OBVIOUS
<1>3. DOMAIN l = 1..(n + 1) /\ l[n + 1] = record /\ \A k \in 1..n : l[k] = log[k]
  BY <1>1, <1>2, LongerLog
<1>4. \A k : (k \in DOMAIN l /\ l[k].proposal = p) <=>
             (k \in DOMAIN log /\ log[k].proposal = p)
  BY <1>1, <1>3
<1>5. \A k : k \in DOMAIN log => l[k] = log[k]
  BY <1>1, <1>3
<1>6. AccountsFor(q, p, l)
  BY <1>4, <1>5 DEF AccountsFor
<1>7. QED
  BY <1>2, <1>6

(* A record of accepted nodes that were pending is one more from a proposal. *)
LEMMA AccountsAccepted ==
  ASSUME NEW q \in Proposal, NEW p, NEW log, IsLog(log), NEW record,
         record.proposal = p, AccountsFor(q, p, log),
         NEW ids, ids \subseteq q.pending, OpIds(record.ops) = ids
  PROVE  AccountsFor(Accepted(q, ids), p, Append(log, record))
<1>1. PICK n \in Nat : n = Len(log) /\ DOMAIN log = 1..n
  BY LongerLog
<1>2. PICK l : l = Append(log, record)
  OBVIOUS
<1>3. DOMAIN l = 1..(n + 1) /\ l[n + 1] = record /\ \A k \in 1..n : l[k] = log[k]
  BY <1>1, <1>2, LongerLog
<1>4. PICK r : r = Accepted(q, ids)
  OBVIOUS
<1>5. /\ r.ops = q.ops /\ r.rejected = q.rejected
      /\ r.pending = q.pending \ ids /\ r.accepted = q.accepted \cup ids
  BY <1>4 DEF Accepted, Proposal
<1>6. \A id : id \in q.accepted <=>
        \E k \in 1..n : log[k].proposal = p /\ id \in OpIds(log[k].ops)
  BY <1>1 DEF AccountsFor
<1>7. \A id : id \in r.accepted <=>
        \E k \in DOMAIN l : l[k].proposal = p /\ id \in OpIds(l[k].ops)
  <2>1. ASSUME NEW id \in r.accepted
        PROVE  \E k \in DOMAIN l : l[k].proposal = p /\ id \in OpIds(l[k].ops)
    <3>1. CASE id \in ids
      <4>1. n + 1 \in DOMAIN l /\ l[n + 1].proposal = p /\ id \in OpIds(l[n + 1].ops)
        BY <1>3, <3>1
      <4>2. QED
        BY <4>1
    <3>2. CASE id \in q.accepted
      <4>1. PICK k \in 1..n : log[k].proposal = p /\ id \in OpIds(log[k].ops)
        BY <1>6, <3>2
      <4>2. k \in DOMAIN l /\ l[k] = log[k]
        BY <1>3
      <4>3. QED
        BY <4>1, <4>2
    <3>3. QED
      BY <1>5, <3>1, <3>2
  <2>2. ASSUME NEW id, NEW k \in DOMAIN l, l[k].proposal = p, id \in OpIds(l[k].ops)
        PROVE  id \in r.accepted
    <3>1. CASE k = n + 1
      BY <1>3, <1>5, <2>2, <3>1
    <3>2. CASE k \in 1..n
      <4>1. l[k] = log[k]
        BY <1>3, <3>2
      <4>2. id \in q.accepted
        BY <1>6, <2>2, <3>2, <4>1
      <4>3. QED
        BY <1>5, <4>2
    <3>3. QED
      BY <1>3, <3>1, <3>2
  <2>3. QED
    BY <2>1, <2>2
<1>8. ASSUME NEW k \in 1..n, log[k].proposal = p
      PROVE  OpIds(log[k].ops) \cap ids = {}
  <2>1. OpIds(log[k].ops) \subseteq q.accepted
    BY <1>6, <1>8
  <2>2. q.pending \cap q.accepted = {}
    BY DEF AccountsFor
  <2>3. QED
    BY <2>1, <2>2
<1>9. ASSUME NEW k \in DOMAIN l, NEW m \in DOMAIN l,
             l[k].proposal = p, l[m].proposal = p, k # m
      PROVE  OpIds(l[k].ops) \cap OpIds(l[m].ops) = {}
  <2>1. CASE k \in 1..n /\ m \in 1..n
    <3>1. l[k] = log[k] /\ l[m] = log[m]
      BY <1>3, <2>1
    <3>2. QED
      BY <1>1, <1>9, <2>1, <3>1 DEF AccountsFor
  <2>2. CASE k = n + 1
    <3>1. m \in 1..n
      BY <1>3, <1>9, <2>2
    <3>2. l[m] = log[m] /\ OpIds(l[k].ops) = ids
      BY <1>3, <2>2, <3>1
    <3>3. QED
      BY <1>8, <1>9, <3>1, <3>2
  <2>3. CASE m = n + 1
    <3>1. k \in 1..n
      BY <1>3, <1>9, <2>3
    <3>2. l[k] = log[k] /\ OpIds(l[m].ops) = ids
      BY <1>3, <2>3, <3>1
    <3>3. QED
      BY <1>8, <1>9, <3>1, <3>2
  <2>4. QED
    BY <1>3, <2>1, <2>2, <2>3
<1>10. /\ r.pending \cup r.accepted \cup r.rejected = OpIds(r.ops)
       /\ r.pending \cap (r.accepted \cup r.rejected) = {}
       /\ r.accepted \cap r.rejected = {}
  <2>1. /\ q.pending \cup q.accepted \cup q.rejected = OpIds(q.ops)
        /\ q.pending \cap (q.accepted \cup q.rejected) = {}
        /\ q.accepted \cap q.rejected = {}
    BY DEF AccountsFor
  <2>2. OpIds(r.ops) = OpIds(q.ops)
    BY <1>5
  <2>3. QED
    BY <1>5, <2>1, <2>2
<1>11. AccountsFor(r, p, l)
  BY <1>7, <1>9, <1>10 DEF AccountsFor
<1>12. QED
  BY <1>2, <1>4, <1>11

LEMMA AccountsRejected ==
  ASSUME NEW q \in Proposal, NEW p, NEW log, AccountsFor(q, p, log),
         NEW ids, ids \subseteq q.pending
  PROVE  AccountsFor(Rejected(q, ids), p, log)
<1>1. PICK r : r = Rejected(q, ids)
  OBVIOUS
<1>2. /\ r.ops = q.ops /\ r.accepted = q.accepted
      /\ r.pending = q.pending \ ids /\ r.rejected = q.rejected \cup ids
  BY <1>1 DEF Rejected, Proposal
<1>3. AccountsFor(r, p, log)
  <2>1. /\ q.pending \cup q.accepted \cup q.rejected = OpIds(q.ops)
        /\ q.pending \cap (q.accepted \cup q.rejected) = {}
        /\ q.accepted \cap q.rejected = {}
    BY DEF AccountsFor
  <2>2. OpIds(r.ops) = OpIds(q.ops)
    BY <1>2
  <2>3. /\ r.pending \cup r.accepted \cup r.rejected = OpIds(r.ops)
        /\ r.pending \cap (r.accepted \cup r.rejected) = {}
        /\ r.accepted \cap r.rejected = {}
    BY <1>2, <2>1, <2>2
  <2>4. QED
    BY <1>2, <2>3 DEF AccountsFor
<1>4. QED
  BY <1>1, <1>3

LEMMA AccountsMatch ==
  ASSUME NEW h, Accounts(h), NEW p \in DOMAIN h.snapshot.proposals
  PROVE  AccountsFor(h.snapshot.proposals[p], p, h.log)
BY AccountsIs

LEMMA GrownFields ==
  ASSUME NEW req, NEW base, NEW ops, NEW p, NEW proposals, NEW h,
         h = GrownBy(req, base, ops, p, proposals)
  PROVE  /\ h.snapshot.proposals = proposals
         /\ \E record : /\ h.log = Append(Log, record)
                        /\ record.proposal = p /\ record.ops = ops
<1>1. PICK record : record = [req |-> req, base |-> base, ops |-> ops,
                        revision |-> Snapshot.revision + 1, proposal |-> p]
  OBVIOUS
<1>2. h.log = Append(Log, record) /\ record.proposal = p /\ record.ops = ops
  BY <1>1 DEF GrownBy
<1>3. QED
  BY <1>2 DEF GrownBy

LEMMA MoveAccounts ==
  ASSUME GoodFiles(head), Accounts(head), NEW h, Moves(h)
  PROVE  Accounts(h)
<1>1. PICK ps : ps = Snapshot.proposals
  OBVIOUS
<1>2. PICK log : log = Log
  OBVIOUS
<1>3. IsLog(log) /\ ps \in Seq(Proposal)
  BY <1>1, <1>2 DEF GoodFiles, GoodSnapshot, GoodLog, Log, Snapshot
<1>4. PICK n \in Nat : n = Len(ps) /\ DOMAIN ps = 1..n
  BY <1>3, LenProperties
<1>5. PICK m \in Nat : m = Len(log) /\ DOMAIN log = 1..m
  BY <1>3, LongerLog
<1>6. /\ \A k \in 1..m : log[k].proposal \in 0..n
      /\ \A p \in 1..n : AccountsFor(ps[p], p, log) /\ ps[p] \in Proposal
  BY <1>1, <1>2, <1>3, <1>4, <1>5, AccountsIs, ElementOfSeq DEF Snapshot, Log
<1>7. ASSUME NEW req, NEW base, NEW ops, AppliedTo(h, req, base, ops)
      PROVE  Accounts(h)
  <2>1. PICK record : /\ h.log = Append(log, record) /\ h.snapshot.proposals = ps
                      /\ record.proposal = 0
    BY <1>1, <1>2, <1>7, GrownFields DEF AppliedTo
  <2>2. \A p \in 1..n : AccountsFor(ps[p], p, h.log)
    BY <1>3, <1>6, <2>1, AccountsLonger
  <2>3. \A k \in DOMAIN h.log : h.log[k].proposal \in 0..n
    BY <1>3, <1>5, <1>6, <2>1, LongerLog
  <2>4. QED
    BY <1>4, <2>1, <2>2, <2>3, AccountsIs
<1>8. ASSUME NEW base, NEW ops, ProposedTo(h, base, ops)
      PROVE  Accounts(h)
  <2>1. PICK q : q = Submitted(base, ops)
    OBVIOUS
  <2>2. h.log = log /\ h.snapshot.proposals = Append(ps, q)
    BY <1>1, <1>2, <1>8, <2>1 DEF ProposedTo, With0
  <2>3. PICK longer : longer = Append(ps, q)
    OBVIOUS
  <2>4. /\ Len(longer) = n + 1 /\ DOMAIN longer = 1..(n + 1)
        /\ longer[n + 1] = q /\ \A p \in 1..n : longer[p] = ps[p]
    BY <1>3, <1>4, <2>3, LongerLog DEF IsLog
  <2>5. AccountsFor(q, n + 1, log)
    <3>1. \A k \in DOMAIN log : log[k].proposal # n + 1
      BY <1>5, <1>6
    <3>2. /\ q.pending = OpIds(q.ops) /\ q.accepted = {} /\ q.rejected = {}
      BY <2>1 DEF Submitted
    <3>3. QED
      BY <3>1, <3>2 DEF AccountsFor
  <2>6. \A p \in 1..(n + 1) : AccountsFor(longer[p], p, log)
    BY <1>6, <2>4, <2>5
  <2>7. \A k \in DOMAIN log : log[k].proposal \in 0..(n + 1)
    BY <1>5, <1>6
  <2>8. QED
    BY <2>2, <2>3, <2>4, <2>6, <2>7, AccountsIs
<1>9. ASSUME NEW p, NEW ids, AcceptedFrom(h, p, ids)
      PROVE  Accounts(h)
  <2>1. p \in 1..n /\ ids \subseteq ps[p].pending
    BY <1>1, <1>4, <1>9 DEF AcceptedFrom, Selectable
  <2>2. PICK qs : qs = [ps EXCEPT ![p] = Accepted(ps[p], ids)]
    OBVIOUS
  <2>3. PICK record : /\ h.log = Append(log, record) /\ h.snapshot.proposals = qs
                      /\ record.proposal = p /\ record.ops = OperationsOn(ps[p].ops, ids)
    <3>1. PICK ops : ops = OperationsOn(ps[p].ops, ids)
      OBVIOUS
    <3>2. h = GrownBy(NoRequest, ps[p].base, ops, p, qs)
      BY <1>1, <1>9, <2>2, <3>1 DEF AcceptedFrom
    <3>3. QED
      BY <1>2, <3>1, <3>2, GrownFields
  <2>4. OpIds(record.ops) = ids
    <3>1. ps[p].ops \in Seq(Op)
      BY <1>6, <2>1 DEF Proposal
    <3>2. OpIds(record.ops) = OpIds(ps[p].ops) \cap ids
      BY <2>3, <3>1, OperationsOnIs DEF OpIds, IdsOf
    <3>3. ps[p].pending \subseteq OpIds(ps[p].ops)
      BY <1>6, <2>1 DEF AccountsFor
    <3>4. QED
      BY <2>1, <3>2, <3>3
  <2>5. /\ DOMAIN qs = 1..n /\ qs[p] = Accepted(ps[p], ids)
        /\ \A k \in 1..n : k # p => qs[k] = ps[k]
    BY <1>4, <2>1, <2>2
  <2>6. Len(qs) = n
    <3>1. Accepted(ps[p], ids) \in Proposal
      <4>1. ids \subseteq Id
        BY <1>6, <2>1 DEF Proposal
      <4>2. QED
        BY <1>6, <2>1, <4>1 DEF Accepted, Proposal
    <3>2. QED
      BY <1>3, <1>4, <2>1, <2>2, <3>1, ExceptSeq
  <2>7. AccountsFor(qs[p], p, h.log)
    BY <1>3, <1>6, <2>1, <2>3, <2>4, <2>5, AccountsAccepted
  <2>8. \A k \in 1..n : k # p => AccountsFor(qs[k], k, h.log)
    BY <1>3, <1>6, <2>3, <2>5, AccountsLonger
  <2>9. \A k \in DOMAIN h.log : h.log[k].proposal \in 0..n
    BY <1>3, <1>5, <1>6, <2>1, <2>3, LongerLog
  <2>10. QED
    BY <2>3, <2>5, <2>6, <2>7, <2>8, <2>9, AccountsIs
<1>10. ASSUME NEW p, NEW ids, RejectedFrom(h, p, ids)
       PROVE  Accounts(h)
  <2>1. p \in 1..n /\ ids \subseteq ps[p].pending
    BY <1>1, <1>4, <1>10 DEF RejectedFrom, Selectable
  <2>2. PICK qs : qs = [ps EXCEPT ![p] = Rejected(ps[p], ids)]
    OBVIOUS
  <2>3. h.log = log /\ h.snapshot.proposals = qs
    BY <1>1, <1>2, <1>10, <2>2 DEF RejectedFrom, With0
  <2>4. /\ DOMAIN qs = 1..n /\ qs[p] = Rejected(ps[p], ids)
        /\ \A k \in 1..n : k # p => qs[k] = ps[k]
    BY <1>4, <2>1, <2>2
  <2>5. Len(qs) = n
    <3>1. Rejected(ps[p], ids) \in Proposal
      <4>1. ids \subseteq Id
        BY <1>6, <2>1 DEF Proposal
      <4>2. QED
        BY <1>6, <2>1, <4>1 DEF Rejected, Proposal
    <3>2. QED
      BY <1>3, <1>4, <2>1, <2>2, <3>1, ExceptSeq
  <2>6. \A k \in 1..n : AccountsFor(qs[k], k, log)
    BY <1>6, <2>1, <2>4, AccountsRejected
  <2>7. QED
    BY <1>5, <1>6, <2>3, <2>4, <2>5, <2>6, AccountsIs
<1>11. QED
  BY <1>7, <1>8, <1>9, <1>10 DEF Moves

-----------------------------------------------------------------------------
HistInv == head # NoFile => Replays(head) /\ Accounts(head)

LEMMA NothingYet ==
  ASSUME NEW h, h.snapshot = EmptySnapshot, h.log = <<>>
  PROVE  Replays(h) /\ Accounts(h)
<1>1. Replays(h)
  BY ReplayIs, Replaying!FoldEmpty, NatSetInduction DEF Replaying!Induction, Replays, EmptySnapshot
<1>2. DOMAIN h.log = {} /\ DOMAIN h.snapshot.proposals = {}
  BY DEF EmptySnapshot
<1>3. QED
  BY <1>1, <1>2 DEF Accounts

LEMMA PairAgrees ==
  ASSUME NEW f
  PROVE  (Replays(Pair(f)) <=> Replays(f)) /\ (Accounts(Pair(f)) <=> Accounts(f))
<1>1. Pair(f).snapshot = f.snapshot /\ Pair(f).log = f.log
  BY DEF Pair
<1>2. QED
  BY <1>1 DEF Replays, Accounts

LEMMA InductiveHist == Spec => []HistInv
<1>1. Init => HistInv
  BY DEF Init, HistInv
<1>2. IInv /\ HInv /\ HistInv /\ [Next]_vars => HistInv'
  <2> SUFFICES ASSUME IInv, HInv, HistInv, [Next]_vars PROVE HistInv'
    OBVIOUS
  <2>1. CASE head' = head
    BY <2>1 DEF HistInv
  <2>2. CASE head' # head
    <3>1. PICK h : h = head'
      OBVIOUS
    <3>2. Committed' = Pair(h)
      BY <2>2, <3>1, HeadMoves DEF Committed, Pair
    <3>3. Replays(Pair(h)) /\ Accounts(Pair(h))
      <4>1. CASE head = NoFile
        <5>1. Pair(h) = Pair(Files(EmptySnapshot, <<>>))
          BY <2>2, <3>2, <4>1, HeadMoves
        <5>2. Pair(h).snapshot = EmptySnapshot /\ Pair(h).log = <<>>
          BY <5>1 DEF Pair, Files
        <5>3. QED
          BY <5>2, NothingYet
      <4>2. CASE head # NoFile
        <5>1. Moves(Pair(h)) /\ GoodFiles(head)
          BY <2>2, <3>2, <4>2, HeadMoves DEF IInv, HeadInv
        <5>2. Replays(head) /\ Accounts(head)
          BY <4>2 DEF HistInv
        <5>3. QED
          BY <5>1, <5>2, MoveReplays, MoveAccounts
      <4>3. QED
        BY <4>1, <4>2
    <3>4. Replays(h) /\ Accounts(h)
      BY <3>3, PairAgrees
    <3>5. QED
      BY <3>1, <3>4 DEF HistInv
  <2>3. QED
    BY <2>1, <2>2
<1>3. QED
  BY <1>1, <1>2, InductiveH, PTL DEF Spec

(* Applying the records of the committed ops.jsonl in order, each operation   *)
(* at the revision of its record, gives the committed outline.                *)
THEOREM LogReplaysHolds == Spec => []LogReplays
<1>1. HistInv => LogReplays
  BY DEF HistInv, Replays, LogReplays, Log, Snapshot
<1>2. QED
  BY <1>1, InductiveHist, PTL

(* Every node of a proposal is pending, accepted or rejected, one of the      *)
(* three, and the log has the operations of the accepted ones, each once.     *)
THEOREM ReviewAccountingHolds == Spec => []ReviewAccounting
<1>1. HistInv => ReviewAccounting
  BY DEF HistInv, Accounts, ReviewAccounting, Log, Snapshot
<1>2. QED
  BY <1>1, InductiveHist, PTL
=============================================================================
