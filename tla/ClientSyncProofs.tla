--------------------------- MODULE ClientSyncProofs ---------------------------
(***************************************************************************)
(* The tabs and their saves, for any number of tabs, edits, undos, retries,*)
(* broken connections, failures and writes of other programs: a save names *)
(* the document it was made on, a tab with nothing unsaved shows what the  *)
(* room sent, the room takes back nothing the user typed, and it refuses a *)
(* save only because of what others committed.                             *)
(*                                                                         *)
(* For the first every message on its way to a tab must say what the       *)
(* document was at the revision it names, every tab must hold such a pair, *)
(* and so must the save it waits for.  What holds of a log goes on to hold *)
(* of a longer one: nothing the room sent is made wrong by a later commit. *)
(* For the others every document, wherever it is, must be one whose ids    *)
(* were given out before, and what is sent a tree without a deleted id.    *)
(*                                                                         *)
(* The last part is about saves that others may interfere with: the store  *)
(* holds a forest in which no node changed after the last commit (Firm),   *)
(* so it accepts the operations of a save made on the latest document, if  *)
(* no bullet of the tree was deleted (DiffAccepted).  It remains to show   *)
(* that a save which meets a later commit meets one of somebody else       *)
(* (OInv): of its own saves a tab has at most one that it does not know    *)
(* committed, and what is on its way twice is the same save.               *)
(***************************************************************************)
EXTENDS ClientSync, DocumentProofs

-----------------------------------------------------------------------------
(* The invariant *)

\* The ids given out so far, and what a tree of a tab may have for an id: the
\* copy of a missing bullet has none.
Ids(n) == {k \in Nat : k < n}
Drafts(n) == Ids(n) \cup {Undefined}

\* The replay of the log, as a fold whose steps can be named.
RedoneOn(p, outline, r) == Redone(outline, r)
Replaying == INSTANCE Folding WITH Step <- RedoneOn

\* The document as it was at a revision.
Tree(log, rev) == ToItems(Replaying!Folded(0, First, SubSeq(log, 2, rev)))

\* The items are those of the revision.
Knows(log, items, rev) == rev \in 1..Len(log) /\ items = Tree(log, rev)

IsTab(m) ==
  m = [items |-> m.items, past |-> m.past, dirty |-> m.dirty,
       canonical |-> m.canonical, revision |-> m.revision,
       inFlight |-> m.inFlight, saves |-> m.saves, error |-> m.error,
       saveRejected |-> m.saveRejected, synced |-> m.synced, online |-> m.online]

\* The documents of a tab: the server's has no bullet without an id.
IsPast(N, doc) == doc # NoPast => IsDoc(doc, Drafts(N))
Drawn(N, m) ==
  /\ IsDoc(m.items, Drafts(N)) /\ IsDoc(m.canonical, Ids(N)) /\ IsPast(N, m.past)
  /\ m.inFlight # NoSave => /\ IsDoc(m.inFlight.items, Drafts(N))
                            /\ IsDoc(m.inFlight.baseItems, Ids(N))

\* What a tab holds and what it waits to save rest on the log.
Founded(log, N, m) ==
  /\ m.synced => Knows(log, m.canonical, m.revision)
  /\ m.inFlight # NoSave => Knows(log, m.inFlight.baseItems, m.inFlight.base)
  /\ Drawn(N, m)

\* With nothing unsaved and nothing on its way a tab shows the server's document.
Shows(m) == m.synced /\ ~m.dirty /\ m.inFlight = NoSave => m.items = m.canonical

\* The document of a message: a tree, none of whose bullets was deleted.
Plain(N, msg) ==
  /\ IsTree(msg.items) /\ IsDoc(msg.items, Ids(N)) /\ ToItems(msg.items) = msg.items
  /\ msg.tombs \subseteq Ids(N) /\ DOMAIN msg.items.node \cap msg.tombs = {}

\* A message with a document says what it was at the revision it names.
Faithful(log, N, msg) ==
  msg.kind # "Error" => Knows(log, msg.items, msg.revision) /\ Plain(N, msg)
Carries(log, N, d) == \E S : d \in Seq(S) /\ \A msg \in S : Faithful(log, N, msg)

\* What is on its way up.
IsSave(N, save) == IsDoc(save.items, Ids(N)) /\ IsDoc(save.baseItems, Ids(N))
Posts(N, u) == \E S : u \in Seq(S) /\ \A save \in S : IsSave(N, save)

\* The outline of the store is what its log, committed batch by batch, leads to.
Kept(N, s) ==
  /\ \E S : s.log \in Seq(S)
  /\ s.log # <<>>
  /\ s.snapshot.revision = Len(s.log)
  /\ s.snapshot.outline = Replaying!Folded(0, First, SubSeq(s.log, 2, Len(s.log)))
  /\ IsOutline(s.snapshot.outline, Ids(N))

Fresh(n) == n \in Nat /\ Unknown(n)
Tabs ==
  /\ tab = [t \in Tab |-> tab[t]]
  /\ \A t \in Tab : IsTab(tab[t]) /\ Founded(Log, nextId, tab[t]) /\ Shows(tab[t])
WayDown ==
  /\ down = [t \in Tab |-> down[t]]
  /\ \A t \in Tab : Carries(Log, nextId, down[t])
WayUp ==
  /\ up = [t \in Tab |-> up[t]]
  /\ \A t \in Tab : Posts(nextId, up[t])
  /\ \A save \in orphans : IsSave(nextId, save)

IInv == Fresh(nextId) /\ Kept(nextId, store) /\ Tabs /\ WayDown /\ WayUp

-----------------------------------------------------------------------------
(* Ids *)

\* A later set of ids holds the earlier ones.
LEMMA IdsMore ==
  ASSUME NEW n \in Nat, NEW m \in Nat, n <= m
  PROVE  Ids(n) \subseteq Ids(m) /\ Drafts(n) \subseteq Drafts(m)
BY DEF Ids, Drafts

LEMMA IdsFinite ==
  ASSUME NEW n \in Nat, NEW dead, dead \subseteq Ids(n)
  PROVE  /\ IsFiniteSet(dead) /\ Cardinality(dead) \in Nat
         /\ \A d \in dead : /\ Cardinality({e \in dead : e < d}) \in Nat
                            /\ Cardinality({e \in dead : e < d}) < Cardinality(dead)
<1>1. IsFiniteSet(0..n)
  BY FS_Interval
<1>2. dead \in SUBSET (0..n)
  BY DEF Ids
<1>3. IsFiniteSet(dead) /\ Cardinality(dead) \in Nat
  BY Zenon, <1>1, <1>2, FS_Subset, FS_CardinalityType
<1>4. ASSUME NEW d \in dead
      PROVE  /\ Cardinality({e \in dead : e < d}) \in Nat
             /\ Cardinality({e \in dead : e < d}) < Cardinality(dead)
  BY <1>2, <1>3, FS_Subset, FS_CardinalityType
<1> QED BY <1>3, <1>4

\* What holds with the ids given out so far holds when more are.
LEMMA DrawnMore ==
  ASSUME NEW n \in Nat, NEW k \in Nat, n <= k
  PROVE  /\ \A m : Drawn(n, m) => Drawn(k, m)
         /\ \A msg : Plain(n, msg) => Plain(k, msg)
         /\ \A save : IsSave(n, save) => IsSave(k, save)
         /\ \A w : IsOutline(w, Ids(n)) => IsOutline(w, Ids(k))
BY IdsMore, IsDocMore DEF Drawn, IsPast, Plain, IsSave, IsOutline

LEMMA HoldsMore ==
  ASSUME NEW n \in Nat, NEW k \in Nat, n <= k
  PROVE  /\ \A s : Kept(n, s) => Kept(k, s)
         /\ \A log, m : Founded(log, n, m) => Founded(log, k, m)
         /\ \A log, d : Carries(log, n, d) => Carries(log, k, d)
         /\ \A u : Posts(n, u) => Posts(k, u)
BY DrawnMore DEF Kept, Founded, Faithful, Carries, Posts

-----------------------------------------------------------------------------
(* renewDeletedIds and the retry of an edit *)

\* A name that was not given out before, for a deleted id; any other is kept.
LEMMA AliasIs ==
  ASSUME nextId \in Nat, NEW dead, dead \subseteq Ids(nextId), NEW n
  PROVE  /\ n \notin dead => Alias(dead, n) = n
         /\ n \in dead => /\ Alias(dead, n) \in Ids(nextId + Cardinality(dead))
                          /\ Alias(dead, n) \notin Ids(nextId)
<1>1. CASE n \in dead
  <2>1. PICK c, a : c = Cardinality({d \in dead : d < n}) /\ a = Cardinality(dead)
    OBVIOUS
  <2>2. c \in Nat /\ a \in Nat /\ c < a
    BY <1>1, <2>1, IdsFinite
  <2>3. Alias(dead, n) = nextId + c
    BY <1>1, <2>1 DEF Alias
  <2> QED BY <1>1, <2>1, <2>2, <2>3 DEF Ids
<1>2. CASE n \notin dead
  BY <1>2 DEF Alias
<1> QED BY <1>1, <1>2

LEMMA RenamedIs ==
  ASSUME nextId \in Nat, NEW dead, dead \subseteq Ids(nextId),
         NEW doc, doc # NoPast, IsDoc(doc, Drafts(nextId))
  PROVE  LET d == Renamed(doc, dead)
         IN  /\ IsDoc(d, Drafts(nextId + Cardinality(dead)))
             /\ \A n \in DOMAIN d.node : n \in Ids(nextId) \ dead =>
                  n \in DOMAIN doc.node /\ d.node[n].val = doc.node[n].val
<1>1. PICK d, s, node : d = Renamed(doc, dead) /\ s = doc.order /\ node = doc.node
  OBVIOUS
<1>2. PICK K, L : K = Drafts(nextId) /\ L = Drafts(nextId + Cardinality(dead))
  OBVIOUS
<1>3. /\ s \in Seq(K) /\ DOMAIN node = ToSet(s) /\ ToSet(s) \subseteq K
      /\ \A n \in ToSet(s) : node[n] = [parent |-> node[n].parent, val |-> node[n].val]
  BY <1>1, <1>2, IsDocIn DEF IsDoc
<1>4. PICK m : m = Len(s) /\ m \in Nat /\ DOMAIN s = 1..m /\ \A k \in 1..m : s[k] \in K
  BY <1>3, LenProperties
<1>5. \A n \in K : Alias(dead, n) \in L
  <2> SUFFICES ASSUME NEW n \in K PROVE Alias(dead, n) \in L
    OBVIOUS
  <2>1. CASE n \in dead
    BY <1>2, <2>1, AliasIs DEF Drafts
  <2>2. CASE n \notin dead
    <3>1. Alias(dead, n) = n
      BY Zenon, <2>2, AliasIs
    <3>2. K \subseteq L
      BY IdsFinite, <1>2, IdsMore
    <3> QED BY <3>1, <3>2
  <2> QED BY <2>1, <2>2
<1>6. PICK x, z :
        /\ x = [n \in {Alias(dead, y) : y \in DOMAIN node} |->
                  LET y == CHOOSE w \in DOMAIN node : Alias(dead, w) = n
                  IN  [node[y] EXCEPT !.parent = Alias(dead, @)]]
        /\ z = [k \in DOMAIN s |-> Alias(dead, s[k])]
  BY Zenon
<1>7. d = [node |-> x, order |-> z]
  BY <1>1, <1>6 DEF Renamed
<1>8. z \in Seq(L) /\ DOMAIN z = 1..m
  BY <1>4, <1>5, <1>6
<1>9. ToSet(z) = {Alias(dead, y) : y \in ToSet(s)}
  BY <1>4, <1>6, <1>8 DEF ToSet
<1>10. ASSUME NEW n \in ToSet(z)
       PROVE  \E y \in ToSet(s) : /\ Alias(dead, y) = n
                                  /\ x[n] = [parent |-> Alias(dead, node[y].parent),
                                             val |-> node[y].val]
  <2>1. PICK y : y = CHOOSE w \in DOMAIN node : Alias(dead, w) = n
    OBVIOUS
  <2>2. y \in DOMAIN node /\ Alias(dead, y) = n
    BY <1>3, <1>9, <2>1
  <2>3. PICK e : e = node[y]
    OBVIOUS
  <2>4. e = [parent |-> e.parent, val |-> e.val]
    BY <1>3, <2>2, <2>3
  <2>5. x[n] = [e EXCEPT !.parent = Alias(dead, @)]
    BY <1>3, <1>6, <1>9, <2>1, <2>3
  <2>6. x[n] = [parent |-> Alias(dead, e.parent), val |-> e.val]
    BY <2>4, <2>5
  <2> QED BY <1>3, <2>2, <2>3, <2>6
<1>11. ASSUME NEW n \in ToSet(z)
       PROVE  x[n] = [parent |-> x[n].parent, val |-> x[n].val]
  <2>1. PICK e, p, v : e = x[n] /\ e = [parent |-> p, val |-> v]
    BY <1>10
  <2> QED BY <2>1
<1>12. x = [n \in ToSet(z) |-> [parent |-> x[n].parent, val |-> x[n].val]]
  <2>1. DOMAIN x = ToSet(z) /\ x = [n \in ToSet(z) |-> x[n]]
    BY <1>3, <1>6, <1>9
  <2> QED BY <1>11, <2>1
<1>13. IsDoc(d, L)
  BY <1>7, <1>8, <1>12 DEF IsDoc
<1>14. ASSUME NEW n \in DOMAIN d.node, n \in Ids(nextId) \ dead
       PROVE  n \in DOMAIN doc.node /\ d.node[n].val = doc.node[n].val
  <2>1. d.node = x /\ n \in ToSet(z)
    BY <1>7, <1>12
  <2>2. PICK y \in ToSet(s) : /\ Alias(dead, y) = n
                              /\ x[n] = [parent |-> Alias(dead, node[y].parent),
                                         val |-> node[y].val]
    BY Zenon, <1>10, <2>1
  <2>3. y = n
    BY <1>14, <2>2, AliasIs
  <2>4. x[n].val = node[n].val
    BY <2>2, <2>3
  <2> QED BY <1>1, <1>3, <2>1, <2>2, <2>3, <2>4
<1> QED BY <1>1, <1>2, <1>13, <1>14

\* A tree without deleted ids is left as it is.
LEMMA RenamedSame ==
  ASSUME NEW doc, IsTree(doc), NEW dead, dead \cap DOMAIN doc.node = {}, Root \notin dead
  PROVE  Renamed(doc, dead) = doc
<1>1. PICK s, node : s = doc.order /\ node = doc.node
  OBVIOUS
<1>2. /\ doc = [node |-> node, order |-> s]
      /\ node = [n \in ToSet(s) |-> [parent |-> node[n].parent, val |-> node[n].val]]
      /\ s \in Seq(ToSet(s)) /\ DOMAIN node = ToSet(s)
      /\ \A n \in ToSet(s) : node[n].parent \in {Root} \cup ToSet(s)
  BY <1>1 DEF IsTree
<1>3. \A n \in {Root} \cup ToSet(s) : Alias(dead, n) = n
  BY <1>1, <1>2 DEF Alias
<1>4. {Alias(dead, y) : y \in DOMAIN node} = ToSet(s)
  BY <1>2, <1>3
<1>5. PICK x, z :
        /\ x = [n \in {Alias(dead, y) : y \in DOMAIN node} |->
                  LET y == CHOOSE w \in DOMAIN node : Alias(dead, w) = n
                  IN  [node[y] EXCEPT !.parent = Alias(dead, @)]]
        /\ z = [k \in DOMAIN s |-> Alias(dead, s[k])]
  BY Zenon
<1>6. ASSUME NEW n \in ToSet(s) PROVE x[n] = node[n]
  <2>1. PICK y : y = CHOOSE w \in DOMAIN node : Alias(dead, w) = n
    OBVIOUS
  <2>2. y = n
    BY <1>2, <1>3, <1>6, <2>1
  <2>3. PICK e : e = node[n]
    OBVIOUS
  <2>4. e = [parent |-> e.parent, val |-> e.val] /\ Alias(dead, e.parent) = e.parent
    BY <1>2, <1>3, <1>6, <2>3
  <2>5. x[n] = [e EXCEPT !.parent = Alias(dead, @)]
    BY Zenon, <1>4, <1>5, <1>6, <2>1, <2>2, <2>3
  <2>6. [e EXCEPT !.parent = Alias(dead, @)] = [parent |-> Alias(dead, e.parent), val |-> e.val]
    BY <2>4
  <2> QED BY <2>3, <2>4, <2>5, <2>6
<1>7. x = node
  <2>1. x = [n \in ToSet(s) |-> x[n]] /\ node = [n \in ToSet(s) |-> node[n]]
    BY <1>2, <1>4, <1>5
  <2> QED BY <1>6, <2>1
<1>8. z = s
  BY <1>2, <1>3, <1>5 DEF ToSet
<1>9. doc = NoPast \/ Renamed(doc, dead) = [node |-> x, order |-> z]
  BY <1>1, <1>5 DEF Renamed
<1>10. doc = NoPast => Renamed(doc, dead) = doc
  BY DEF Renamed
<1> QED BY <1>2, <1>7, <1>8, <1>9, <1>10

StayOn(known, kept, op) ==
  IF op.type = "delete" /\ op.id \notin known THEN kept ELSE Append(kept, op)
Staying == INSTANCE Folding WITH Step <- StayOn

LEMMA StillThereIs ==
  ASSUME NEW items, NEW K, NEW ops, LeadsTo(ops, items, K), NEW known
  PROVE  LeadsTo(StillThere(ops, known), items, K)
<1>1. StillThere(ops, known) = Staying!Folded(known, <<>>, ops)
  BY DEF StillThere, FoldLeft, MapThenFoldSet, Max, Staying!Folded, Staying!Greatest, StayOn
<1>2. PICK S : ops \in Seq(S) /\ \A op \in S : Wants(op, items, K)
  BY DEF LeadsTo
<1>3. PICK m : m = Len(ops) /\ m \in Nat /\ \A i \in 1..m : ops[i] \in S
  BY <1>2, LenProperties
<1>4. PICK g : Staying!Goes(g, known, <<>>, ops, m) /\ Staying!Folded(known, <<>>, ops) = g[m]
  BY <1>2, <1>3, Staying!FoldValues, NatSetInduction DEF Staying!Induction
<1>5. PICK U : U = {k \in Nat : k <= m => g[k] \in Seq(S)}
  BY Zenon
<1>6. 0 \in U
  BY Zenon, <1>4, <1>5, EmptySeq DEF Staying!Goes
<1>7. ASSUME NEW k \in Nat, k \in U PROVE k + 1 \in U
  <2>1. CASE k + 1 <= m
    <3>1. k + 1 \in 1..m /\ (k + 1) - 1 = k
      BY <1>3, <2>1
    <3>2. PICK x, y, op : x = g[k] /\ y = g[k+1] /\ op = ops[k+1]
      OBVIOUS
    <3>3. g[k+1] = StayOn(known, g[(k + 1) - 1], ops[k+1])
      BY <1>4, <3>1 DEF Staying!Goes
    <3>4. y = x \/ y = Append(x, op)
      BY <3>1, <3>2, <3>3 DEF StayOn
    <3>5. x \in Seq(S) /\ op \in S
      BY <1>3, <1>5, <1>7, <2>1, <3>1, <3>2
    <3>6. y \in Seq(S)
      BY <3>4, <3>5, AppendProperties
    <3> QED BY <1>5, <3>2, <3>6
  <2> QED BY <1>5, <2>1
<1>8. m \in U
  BY <1>3, <1>6, <1>7, NatSetInduction
<1> QED BY <1>1, <1>2, <1>3, <1>4, <1>5, <1>8 DEF LeadsTo

-----------------------------------------------------------------------------
(* Batches *)

\* The operations of a batch are on ids that were given out.
NamesIn(ops, K) == \E S : ops \in Seq(S) /\ \A op \in S : IsOp(op, K)

LEMMA LeadsToNames ==
  \A ops, items, K : LeadsTo(ops, items, K) => NamesIn(ops, K)
BY DEF LeadsTo, NamesIn, Wants

\* The helpers of the history are those of OutlineOps under another name.
LEMMA SameAccepts ==
  \A op, w, initial, base :
    Accepts(op, w, initial, base) <=> History!Accepts(op, w, initial, base)
BY DEF Accepts, Checked, Conflicts, CanPlace, Without, DescendantIds,
       ClosedUnderChildren, History!Accepts, History!Checked, History!Conflicts,
       History!CanPlace, History!Without, History!DescendantIds,
       History!ClosedUnderChildren

LEMMA SameEffect ==
  \A op, w, rev : Effect(op, w, rev) = History!Effect(op, w, rev)
BY DEF Effect, Inserted, Updated, Moved, Deleted, With, Without, Place, Position, Rest,
       DescendantIds, ClosedUnderChildren, SelectInSeq, SelectLastInSeq,
       InsertAt, Max, Min, FoldLeft, MapThenFoldSet, History!Effect, History!Inserted,
       History!Updated, History!Moved, History!Deleted, History!With, History!Without,
       History!Place, History!Position, History!Rest, History!DescendantIds,
       History!ClosedUnderChildren, History!SelectInSeq, History!SelectLastInSeq,
       History!InsertAt, History!Max, History!Min, History!FoldLeft,
       History!MapThenFoldSet

ApplyOn(b, r, op) ==
  IF r.ok /\ History!Accepts(op, r.w, b.outline.node, b.base)
  THEN [ok |-> TRUE, w |-> History!Effect(op, r.w, b.rev)]
  ELSE [ok |-> FALSE, w |-> b.outline]
Applying == INSTANCE Folding WITH Step <- ApplyOn

LEMMA ApplyBatchAsFold ==
  \A outline, ops, base, rev :
    History!ApplyBatch(outline, ops, base, rev) =
      Applying!Folded([outline |-> outline, base |-> base, rev |-> rev],
                      [ok |-> TRUE, w |-> outline], ops)
BY DEF History!ApplyBatch, History!FoldLeft, History!MapThenFoldSet, History!Max,
       FoldLeft, MapThenFoldSet, Max, Applying!Folded, Applying!Greatest, ApplyOn

\* A batch, taken or refused, leaves an outline.
LEMMA ApplyBatchIs ==
  ASSUME NEW K, NEW w, IsOutline(w, K), NEW ops, NamesIn(ops, K), NEW base, NEW rev
  PROVE  IsOutline(History!ApplyBatch(w, ops, base, rev).w, K)
<1>1. PICK b, r : /\ b = [outline |-> w, base |-> base, rev |-> rev]
                  /\ r = [ok |-> TRUE, w |-> w]
  BY Zenon
<1>2. History!ApplyBatch(w, ops, base, rev) = Applying!Folded(b, r, ops)
  BY <1>1, ApplyBatchAsFold
<1>3. PICK S : ops \in Seq(S) /\ \A op \in S : IsOp(op, K)
  BY DEF NamesIn
<1>4. PICK m : m = Len(ops) /\ m \in Nat /\ \A i \in 1..m : ops[i] \in S
  BY <1>3, LenProperties
<1>5. PICK g : Applying!Goes(g, b, r, ops, m) /\ Applying!Folded(b, r, ops) = g[m]
  BY <1>3, <1>4, Applying!FoldValues, NatSetInduction DEF Applying!Induction
<1>6. PICK U : U = {k \in Nat : k <= m => IsOutline(g[k].w, K)}
  BY Zenon
<1>7. 0 \in U
  <2>1. g[0] = r /\ r.w = w
    BY <1>1, <1>5 DEF Applying!Goes
  <2> QED BY <1>6, <2>1
<1>8. ASSUME NEW k \in Nat, k \in U PROVE k + 1 \in U
  <2>1. CASE k + 1 <= m
    <3>1. k + 1 \in 1..m /\ (k + 1) - 1 = k
      BY <1>4, <2>1
    <3>2. PICK x, y, op : x = g[k] /\ y = g[k+1] /\ op = ops[k+1]
      OBVIOUS
    <3>3. g[k+1] = ApplyOn(b, g[(k + 1) - 1], ops[k+1])
      BY <1>5, <3>1 DEF Applying!Goes
    <3>4. y = ApplyOn(b, x, op)
      BY <3>1, <3>2, <3>3
    <3>5. PICK v : v = x.w
      OBVIOUS
    <3>6. IsOutline(v, K) /\ IsOp(op, K)
      BY <1>3, <1>4, <1>6, <1>8, <2>1, <3>1, <3>2, <3>5
    <3>7. CASE x.ok /\ History!Accepts(op, v, b.outline.node, b.base)
      <4>1. Accepts(op, v, b.outline.node, b.base)
        BY <3>7, SameAccepts
      <4>2. y.w = Effect(op, v, b.rev)
        BY <3>4, <3>5, <3>7, SameEffect DEF ApplyOn
      <4>3. IsOutline(Effect(op, v, b.rev), K)
        BY <3>6, <4>1, EffectIs
      <4> QED BY <1>6, <3>2, <4>2, <4>3
    <3>8. CASE ~(x.ok /\ History!Accepts(op, v, b.outline.node, b.base))
      <4>1. y.w = w
        BY <1>1, <3>4, <3>5, <3>8 DEF ApplyOn
      <4> QED BY <1>6, <3>2, <4>1
    <3> QED BY <3>7, <3>8
  <2> QED BY <1>6, <2>1
<1>9. m \in U
  BY <1>4, <1>7, <1>8, NatSetInduction
<1> QED BY <1>2, <1>4, <1>5, <1>6, <1>9

-----------------------------------------------------------------------------
(* The log and its prefixes *)

\* At, as a fold.
LEMMA AtIs == \A rev : At(rev) = Tree(Log, rev)
BY DEF FoldLeft, MapThenFoldSet, Max, Replaying!Folded, Replaying!Greatest,
   RedoneOn, At, Tree

LEMMA LongerPrefix ==
  ASSUME NEW S, NEW log \in Seq(S), NEW x, NEW rev \in 1..Len(log)
  PROVE  /\ SubSeq(Append(log, x), 2, rev) = SubSeq(log, 2, rev)
         /\ Len(Append(log, x)) = Len(log) + 1
BY LenProperties

LEMMA LongerSuffix ==
  ASSUME NEW S, NEW log \in Seq(S), log # <<>>, NEW x \in S
  PROVE  /\ SubSeq(log, 2, Len(log)) \in Seq(S)
         /\ SubSeq(Append(log, x), 2, Len(log) + 1) = Append(SubSeq(log, 2, Len(log)), x)
<1>1. PICK n \in Nat \ {0} : n = Len(log) /\ DOMAIN log = 1..n
  BY LenProperties, EmptySeq
<1>2. PICK a : a = Append(log, x)
  BY Zenon
<1>3. a \in Seq(S) /\ Len(a) = n + 1 /\ a[n + 1] = x /\ \A i \in 1..n : log[i] \in S
  BY <1>1, <1>2
<1>4. SubSeq(a, 2, n + 1) = SubSeq(a, 2, n) \o <<x>>
  BY <1>3, SubSeqRecursiveSecond
<1>5. SubSeq(a, 2, n) = SubSeq(log, 2, n)
  BY <1>1, <1>2, LongerPrefix
<1>6. SubSeq(log, 2, n) \in Seq(S)
  <2>1. \A i \in 2..n : log[i] \in S
    BY <1>3
  <2> QED BY <2>1, SubSeqProperties
<1>7. SubSeq(log, 2, n) \o <<x>> = Append(SubSeq(log, 2, n), x)
  BY <1>6, AppendIsConcat
<1> QED BY <1>1, <1>2, <1>4, <1>5, <1>6, <1>7

LEMMA KnowsStill ==
  ASSUME NEW S, NEW log \in Seq(S), NEW x
  PROVE  \A items, rev : Knows(log, items, rev) => Knows(Append(log, x), items, rev)
<1> SUFFICES ASSUME NEW items, NEW rev, Knows(log, items, rev)
             PROVE  Knows(Append(log, x), items, rev)
  OBVIOUS
<1>1. rev \in 1..Len(log) /\ Len(log) \in Nat
  BY DEF Knows
<1>2. /\ SubSeq(Append(log, x), 2, rev) = SubSeq(log, 2, rev)
      /\ Len(Append(log, x)) = Len(log) + 1
  BY <1>1, LongerPrefix
<1>3. Tree(Append(log, x), rev) = Tree(log, rev)
  BY <1>2 DEF Tree
<1> QED BY <1>1, <1>2, <1>3 DEF Knows

-----------------------------------------------------------------------------
(* The log grows *)

\* The store is left alone, or a batch is committed on top.
Grows(N, s, z) ==
  \/ z = s
  \/ \E r : /\ z.log = Append(s.log, r)
            /\ z.snapshot.revision = s.snapshot.revision + 1
            /\ z.snapshot.outline = Redone(s.snapshot.outline, r)
            /\ NamesIn(r.ops, Ids(N))

LEMMA GrowsKept ==
  ASSUME NEW N, NEW s, NEW z, Kept(N, s), Grows(N, s, z)
  PROVE  Kept(N, z)
<1>1. CASE z = s
  BY <1>1
<1>2. CASE z # s
  <2>1. PICK r : /\ z.log = Append(s.log, r)
                 /\ z.snapshot.revision = s.snapshot.revision + 1
                 /\ z.snapshot.outline = Redone(s.snapshot.outline, r)
                 /\ NamesIn(r.ops, Ids(N))
    BY <1>2 DEF Grows
  <2>2. PICK S : s.log \in Seq(S)
    BY DEF Kept
  <2>3. PICK R : R = S \cup {r}
    BY Zenon
  <2>4. PICK log, n : log = s.log /\ n = Len(log)
    BY Zenon
  <2>5. log \in Seq(R) /\ r \in R /\ n \in Nat /\ log # <<>>
    BY <2>2, <2>3, <2>4 DEF Kept
  <2>6. /\ SubSeq(log, 2, n) \in Seq(R)
        /\ SubSeq(Append(log, r), 2, n + 1) = Append(SubSeq(log, 2, n), r)
    BY <2>4, <2>5, LongerSuffix
  <2>7. /\ Append(log, r) \in Seq(R) /\ Len(Append(log, r)) = n + 1
        /\ Append(log, r) # <<>>
    BY <2>4, <2>5, AppendProperties
  <2>8. Replaying!Folded(0, First, Append(SubSeq(log, 2, n), r)) =
          RedoneOn(0, Replaying!Folded(0, First, SubSeq(log, 2, n)), r)
    <3>1. PICK d : d = SubSeq(log, 2, n)
      OBVIOUS
    <3>2. d \in Seq(R) /\ r \in R
      BY <2>5, <2>6, <3>1
    <3>3. Replaying!Folded(0, First, Append(d, r)) =
            RedoneOn(0, Replaying!Folded(0, First, d), r)
      BY <3>2, Replaying!FoldAppend, NatSetInduction DEF Replaying!Induction
    <3> QED BY <3>1, <3>3
  <2>9. /\ s.snapshot.revision = n
        /\ s.snapshot.outline = Replaying!Folded(0, First, SubSeq(log, 2, n))
    BY <2>4 DEF Kept
  <2>10. z.snapshot.outline = Replaying!Folded(0, First, SubSeq(z.log, 2, Len(z.log)))
    BY Zenon, <2>1, <2>4, <2>6, <2>7, <2>8, <2>9 DEF RedoneOn
  <2>11. IsOutline(z.snapshot.outline, Ids(N))
    <3>1. IsOutline(s.snapshot.outline, Ids(N)) /\ NamesIn(r.ops, Ids(N))
      BY <2>1 DEF Kept
    <3>2. IsOutline(Redone(s.snapshot.outline, r), Ids(N))
      BY <3>1, ApplyBatchIs DEF Redone
    <3> QED BY <2>1, <3>2
  <2> QED BY <2>1, <2>4, <2>7, <2>9, <2>10, <2>11 DEF Kept
<1> QED BY <1>1, <1>2

\* What was known of the log is known of the longer one.
LEMMA GrowsStill ==
  ASSUME NEW N, NEW s, NEW z, Kept(N, s), Grows(N, s, z)
  PROVE  /\ \A items, rev : Knows(s.log, items, rev) => Knows(z.log, items, rev)
         /\ \A m : Founded(s.log, N, m) => Founded(z.log, N, m)
         /\ \A msg : Faithful(s.log, N, msg) => Faithful(z.log, N, msg)
         /\ \A d : Carries(s.log, N, d) => Carries(z.log, N, d)
<1>1. \A items, rev : Knows(s.log, items, rev) => Knows(z.log, items, rev)
  <2>1. CASE z = s
    BY <2>1
  <2>2. CASE z # s
    BY Zenon, <2>2, KnowsStill DEF Grows, Kept
  <2> QED BY <2>1, <2>2
<1>2. \A m : Founded(s.log, N, m) => Founded(z.log, N, m)
  BY <1>1 DEF Founded
<1>3. \A msg : Faithful(s.log, N, msg) => Faithful(z.log, N, msg)
  BY <1>1 DEF Faithful
<1>4. \A d : Carries(s.log, N, d) => Carries(z.log, N, d)
  BY <1>3 DEF Carries
<1> QED BY <1>1, <1>2, <1>3, <1>4

LEMMA ApplyGrows ==
  ASSUME NEW N, NEW req, NEW base, NEW ops, History!Apply(req, base, ops),
         NamesIn(ops, Ids(N))
  PROVE  Grows(N, store, store')
<1>1. PICK r : r = [req |-> req, base |-> base, ops |-> ops,
                    revision |-> store.snapshot.revision + 1, proposal |-> 0]
  OBVIOUS
<1>2. /\ r.base = base /\ r.ops = ops /\ r.revision = store.snapshot.revision + 1
  BY <1>1
<1>3. PICK w : w = Redone(store.snapshot.outline, r)
  OBVIOUS
<1>4. w = History!ApplyBatch(store.snapshot.outline, ops, base,
                             store.snapshot.revision + 1).w
  BY <1>2, <1>3 DEF Redone
<1>5. store' = [snapshot |-> [revision |-> store.snapshot.revision + 1,
                              outline |-> w, proposals |-> store.snapshot.proposals],
                log |-> Append(store.log, r)]
  BY <1>1, <1>4 DEF History!Apply, History!Grown, History!Current, History!Proposals
<1>6. /\ store'.log = Append(store.log, r)
      /\ store'.snapshot.revision = store.snapshot.revision + 1
      /\ store'.snapshot.outline = w
  BY <1>5
<1>7. NamesIn(r.ops, Ids(N))
  BY <1>2
<1> QED BY <1>3, <1>6, <1>7 DEF Grows

\* The batch of a save names ids of its documents.
LEMMA SaveNames ==
  ASSUME NEW N, NEW save, IsSave(N, save)
  PROVE  NamesIn(Diff(save.baseItems, save.items), Ids(N))
<1>1. IsDoc(save.baseItems, Ids(N)) /\ IsDoc(save.items, Ids(N))
  BY DEF IsSave
<1>2. LeadsTo(Diff(save.baseItems, save.items), save.items, Ids(N))
  BY <1>1, DiffIs
<1> QED BY <1>2, LeadsToNames

LEMMA SaveGrows ==
  ASSUME NEW N, NEW save, IsSave(N, save), ApplySave(save)
  PROVE  Grows(N, store, store')
<1>1. CASE UNCHANGED store
  BY <1>1 DEF Grows
<1>2. CASE ~UNCHANGED store
  BY <1>2, SaveNames, ApplyGrows DEF ApplySave
<1> QED BY <1>1, <1>2

\* What the other programs write names ids that were there before.
LEMMA OtherNames ==
  ASSUME Fresh(nextId), NEW ops \in OtherBatch
  PROVE  NamesIn(ops, Ids(nextId))
<1>1. PICK S : S = ToSet(ops)
  OBVIOUS
<1>2. ops \in Seq(Op)
  BY OtherAssumption
<1>3. ops \in Seq(S) /\ S \subseteq Op
  BY <1>1, <1>2, SeqOfItsElements, ToSetIn
<1>4. ASSUME NEW op \in S
      PROVE  IsOp(op, Ids(nextId))
  <2>1. /\ op \in InsertOp \cup UpdateOp \cup MoveOp \cup DeleteOp
        /\ op.id \in Known
    BY <1>1, <1>3 DEF Op, Known
  <2>2. op.type \in {"insert", "update", "move", "delete"}
    BY <2>1 DEF InsertOp, UpdateOp, MoveOp, DeleteOp
  <2>3. op.id \in Ids(nextId)
    BY Zenon, <2>1, FreshAssumption DEF Fresh, Unknown, Ids
  <2> QED BY <2>2, <2>3 DEF IsOp
<1> QED BY <1>3, <1>4 DEF NamesIn

-----------------------------------------------------------------------------
(* What is on its way down *)

LEMMA CarriesNothing == \A log, N : Carries(log, N, <<>>)
<1>1. PICK S : S = {}
  OBVIOUS
<1>2. <<>> \in Seq(S) /\ \A x : x \notin S
  BY <1>1
<1> QED BY <1>2 DEF Carries

LEMMA CarriesOne ==
  ASSUME NEW log, NEW N, NEW msg, Faithful(log, N, msg)
  PROVE  Carries(log, N, <<msg>>)
<1>1. PICK S : S = {msg}
  OBVIOUS
<1>2. <<msg>> \in Seq(S)
  BY <1>1
<1>3. \A x \in S : Faithful(log, N, x)
  BY <1>1
<1> QED BY <1>2, <1>3 DEF Carries

LEMMA CarriesBoth ==
  ASSUME NEW log, NEW N, NEW d, NEW e, Carries(log, N, d), Carries(log, N, e)
  PROVE  Carries(log, N, d \o e)
<1>1. PICK S : d \in Seq(S) /\ \A msg \in S : Faithful(log, N, msg)
  BY DEF Carries
<1>2. PICK R : e \in Seq(R) /\ \A msg \in R : Faithful(log, N, msg)
  BY DEF Carries
<1>3. PICK T : T = S \cup R
  OBVIOUS
<1>4. d \in Seq(T) /\ e \in Seq(T) /\ \A msg \in T : Faithful(log, N, msg)
  BY <1>1, <1>2, <1>3
<1>5. d \o e \in Seq(T)
  BY <1>4, ConcatProperties
<1> QED BY <1>4, <1>5 DEF Carries

LEMMA CarriesOn ==
  ASSUME NEW log, NEW N, NEW d, Carries(log, N, d), d # <<>>
  PROVE  Faithful(log, N, Head(d)) /\ Carries(log, N, Tail(d))
<1>1. PICK S : d \in Seq(S) /\ \A msg \in S : Faithful(log, N, msg)
  BY DEF Carries
<1>2. Head(d) \in S /\ Tail(d) \in Seq(S)
  BY <1>1, HeadTailProperties
<1> QED BY <1>1, <1>2 DEF Carries

LEMMA SentIsFaithful ==
  ASSUME NEW N, NEW s, Kept(N, s)
  PROVE  \A kind, req : Faithful(s.log, N, Sent(kind, req, s))
<1>1. Len(s.log) \in 1..Len(s.log)
  BY EmptySeq DEF Kept
<1>2. ToItems(s.snapshot.outline) = Tree(s.log, Len(s.log))
  BY DEF Kept, Tree
<1>3. Knows(s.log, ToItems(s.snapshot.outline), s.snapshot.revision)
  BY <1>1, <1>2 DEF Knows, Kept
<1>4. ASSUME NEW kind, NEW req
      PROVE  Plain(N, Sent(kind, req, s))
  BY Zenon, OutlineTree DEF Sent, Kept, IsOutline, Plain
<1> QED BY <1>3, <1>4 DEF Faithful, Sent

LEMMA FailedIsFaithful == \A log, N, req : Faithful(log, N, Failed(req))
BY DEF Faithful, Failed

LEMMA UnseenIsFaithful ==
  ASSUME NEW N, NEW s, Kept(N, s)
  PROVE  Carries(s.log, N, Unseen(s))
<1>1. CASE shown = s.snapshot.revision
  BY <1>1, CarriesNothing DEF Unseen
<1>2. CASE shown # s.snapshot.revision
  BY SentIsFaithful, <1>2, CarriesOne DEF Unseen
<1> QED BY <1>1, <1>2

-----------------------------------------------------------------------------
(* What is on its way up *)

LEMMA PostsNothing == \A N : Posts(N, <<>>)
<1>1. PICK S : S = {}
  OBVIOUS
<1>2. <<>> \in Seq(S) /\ \A x : x \notin S
  BY <1>1
<1> QED BY <1>2 DEF Posts

LEMMA PostsBoth ==
  ASSUME NEW N, NEW u, NEW v, Posts(N, u), Posts(N, v)
  PROVE  Posts(N, u \o v)
<1>1. PICK S : u \in Seq(S) /\ \A save \in S : IsSave(N, save)
  BY DEF Posts
<1>2. PICK R : v \in Seq(R) /\ \A save \in R : IsSave(N, save)
  BY DEF Posts
<1>3. PICK T : T = S \cup R
  OBVIOUS
<1>4. u \in Seq(T) /\ v \in Seq(T) /\ \A save \in T : IsSave(N, save)
  BY <1>1, <1>2, <1>3
<1>5. u \o v \in Seq(T)
  BY <1>4, ConcatProperties
<1> QED BY <1>4, <1>5 DEF Posts

LEMMA PostsOn ==
  ASSUME NEW N, NEW u, Posts(N, u), u # <<>>
  PROVE  IsSave(N, Head(u)) /\ Posts(N, Tail(u))
BY HeadTailProperties DEF Posts

\* The first of what is on its way up: what a broken connection leaves.
LEMMA PostsFirst ==
  ASSUME NEW N, NEW u, Posts(N, u), NEW k \in 0..Len(u)
  PROVE  \A save \in ToSet(SubSeq(u, 1, k)) : IsSave(N, save)
<1>1. PICK S : u \in Seq(S) /\ \A save \in S : IsSave(N, save)
  BY DEF Posts
<1>2. PICK n \in Nat : n = Len(u) /\ DOMAIN u = 1..n
  BY <1>1, LenProperties
<1>3. \A i \in 1..k : u[i] \in S
  BY <1>1, <1>2
<1>4. SubSeq(u, 1, k) \in Seq(S)
  BY <1>2, <1>3, SubSeqProperties
<1>5. ToSet(SubSeq(u, 1, k)) \subseteq S
  BY <1>4, ToSetIn
<1> QED BY <1>1, <1>5

\* What is sent has an id for every bullet.
LEMMA EncodedPosts ==
  ASSUME NEW N, NEW save, IsDoc(save.items, Drafts(N)), IsDoc(save.baseItems, Ids(N))
  PROVE  Posts(N, Posted(save))
<1>1. CASE Undefined \in DOMAIN save.items.node
  BY <1>1, PostsNothing DEF Posted
<1>2. CASE Undefined \notin DOMAIN save.items.node
  <2>1. DOMAIN save.items.node \subseteq Drafts(N)
    BY IsDocIn
  <2>2. DOMAIN save.items.node \subseteq Ids(N)
    BY <1>2, <2>1 DEF Drafts
  <2>3. IsDoc(save.items, Ids(N))
    BY <2>2, IsDocFewer
  <2>4. IsSave(N, save)
    BY <2>3 DEF IsSave
  <2>5. PICK S : S = {save}
    OBVIOUS
  <2>6. <<save>> \in Seq(S) /\ \A x \in S : IsSave(N, x)
    BY <2>4, <2>5
  <2>7. Posted(save) = <<save>>
    BY <1>2 DEF Posted
  <2> QED BY <2>6, <2>7 DEF Posts
<1> QED BY <1>1, <1>2

-----------------------------------------------------------------------------
(* The tabs *)

\* A save made from a document the tab knows.
LEMMA SavingFounded ==
  ASSUME NEW log, NEW N, NEW t, NEW m, IsTab(m), Founded(log, N, m), NEW base,
         Knows(log, base.canonical, base.revision), IsDoc(base.canonical, Ids(N)),
         NEW n, n = Saving(t, m, base)
  PROVE  /\ IsTab(n) /\ Founded(log, N, n) /\ Posts(N, Posted(n.inFlight))
         /\ n.items = m.items /\ n.canonical = m.canonical /\ n.dirty = m.dirty
<1>1. PICK b, save :
        /\ b = [m EXCEPT !.canonical = base.canonical, !.revision = base.revision]
        /\ save = NewSave(t, b)
  OBVIOUS
<1>2. /\ b.canonical = base.canonical /\ b.revision = base.revision
      /\ b.items = m.items
  BY <1>1 DEF IsTab
<1>3. /\ save.baseItems = base.canonical /\ save.base = base.revision
      /\ save.items = m.items
  BY <1>1, <1>2 DEF NewSave
<1>4. n = [m EXCEPT !.inFlight = save, !.saves = @ + 1]
  BY <1>1 DEF Saving
<1>5. n = [items |-> m.items, past |-> m.past, dirty |-> m.dirty,
           canonical |-> m.canonical, revision |-> m.revision,
           inFlight |-> save, saves |-> m.saves + 1, error |-> m.error,
           saveRejected |-> m.saveRejected, synced |-> m.synced, online |-> m.online]
  BY <1>4 DEF IsTab
<1>6. /\ IsTab(n) /\ n.inFlight = save /\ n.synced = m.synced
      /\ n.canonical = m.canonical /\ n.revision = m.revision
      /\ n.items = m.items /\ n.past = m.past /\ n.dirty = m.dirty
  BY <1>5 DEF IsTab
<1>7. IsDoc(save.items, Drafts(N)) /\ IsDoc(save.baseItems, Ids(N))
  BY <1>3 DEF Founded, Drawn
<1>8. Founded(log, N, n)
  BY <1>3, <1>6, <1>7 DEF Founded, Drawn
<1>9. Posts(N, Posted(save))
  BY <1>7, EncodedPosts
<1> QED BY <1>1, <1>6, <1>8, <1>9

\* The end of an update: what is left is a tab as it should be, and so is what
\* it sends.  It shows and remembers what it did.
LEMMA UpdateFounded ==
  ASSUME NEW log, NEW N, NEW t, NEW m, IsTab(m), Founded(log, N, m), Shows(m),
         Update(t, m)
  PROVE  \E n, out : /\ IsTab(n) /\ Founded(log, N, n) /\ Shows(n) /\ Posts(N, out)
                     /\ Post(t, n, out)
                     /\ n.items = m.items /\ n.canonical = m.canonical
<1>1. CASE MaySave(m)
  <2>1. Knows(log, m.canonical, m.revision) /\ IsDoc(m.canonical, Ids(N))
    BY <1>1 DEF MaySave, Founded, Drawn
  <2>2. PICK n : n = Saving(t, m, m)
    OBVIOUS
  <2>3. /\ IsTab(n) /\ Founded(log, N, n) /\ Posts(N, Posted(n.inFlight))
        /\ n.items = m.items /\ n.canonical = m.canonical /\ n.dirty = m.dirty
    BY <2>1, <2>2, SavingFounded
  <2>4. Shows(n)
    BY <1>1, <2>3 DEF Shows, MaySave
  <2>5. Post(t, n, Posted(n.inFlight))
    BY <1>1, <2>2 DEF Update
  <2> QED BY <2>3, <2>4, <2>5
<1>2. CASE ~MaySave(m)
  <2>1. Post(t, m, <<>>)
    BY <1>2 DEF Update
  <2> QED BY <2>1, PostsNothing
<1> QED BY <1>1, <1>2

\* A step of one tab that leaves the store alone.
LEMMA TabStepIInv ==
  ASSUME IInv, NEW t \in Tab, UNCHANGED store, nextId' \in Nat, nextId <= nextId',
         NEW n, IsTab(n), Founded(Log, nextId', n), Shows(n),
         tab' = [tab EXCEPT ![t] = n], WayDown', WayUp'
  PROVE  IInv'
BY HoldsMore, FreshAssumption DEF IInv, Fresh, Unknown, Log, Tabs

\* What is on its way when a tab sends something.
LEMMA PostedWayUp ==
  ASSUME IInv, NEW t \in Tab, nextId' \in Nat, nextId <= nextId',
         NEW n, NEW out, Posts(nextId', out), Post(t, n, out), UNCHANGED orphans
  PROVE  WayUp'
BY Zenon, HoldsMore, DrawnMore, PostsBoth DEF IInv, Fresh, WayUp, Post

LEMMA SameWayDown ==
  ASSUME IInv, nextId' \in Nat, nextId <= nextId', UNCHANGED <<store, down>>
  PROVE  WayDown'
BY HoldsMore DEF IInv, Fresh, WayDown, Log

\* Steps in which the tab receives nothing.
LEMMA OwnStepIInv ==
  ASSUME IInv, NEW t \in Tab, UNCHANGED <<store, down, orphans>>,
         nextId' \in Nat, nextId <= nextId',
         NEW m, IsTab(m), Founded(Log, nextId', m), Shows(m), Update(t, m)
  PROVE  IInv'
<1>1. PICK n, out : /\ IsTab(n) /\ Founded(Log, nextId', n) /\ Shows(n)
                    /\ Posts(nextId', out) /\ Post(t, n, out)
  BY UpdateFounded
<1>2. WayUp' /\ WayDown'
  BY <1>1, PostedWayUp, SameWayDown
<1>3. tab' = [tab EXCEPT ![t] = n]
  BY <1>1 DEF Post
<1> QED BY <1>1, <1>2, <1>3, TabStepIInv

\* What is known of a tab that keeps the server's document and its save.
LEMMA KeepsFounded ==
  ASSUME NEW log, NEW N, NEW m, Founded(log, N, m), NEW n,
         n.synced = m.synced, n.canonical = m.canonical, n.revision = m.revision,
         n.inFlight = NoSave \/ n.inFlight = m.inFlight,
         IsDoc(n.items, Drafts(N)), IsPast(N, n.past)
  PROVE  Founded(log, N, n)
BY DEF Founded, Drawn

\* What is known of a tab.
LEMMA TabIs ==
  ASSUME IInv, NEW t \in Tab
  PROVE  /\ IsTab(tab[t]) /\ Founded(Log, nextId, tab[t]) /\ Shows(tab[t])
         /\ IsDoc(tab[t].items, Drafts(nextId)) /\ IsDoc(tab[t].canonical, Ids(nextId))
         /\ IsDoc(tab[t].canonical, Drafts(nextId)) /\ IsPast(nextId, tab[t].past)
         /\ nextId \in Nat
BY IsDocMore DEF IInv, Tabs, Fresh, Founded, Drawn, Drafts

-----------------------------------------------------------------------------
(* The user, and the connection *)

LEMMA UserOpIs ==
  ASSUME nextId \in Nat, NEW items, IsDoc(items, Drafts(nextId)),
         NEW op \in UserOps(items), NEW k,
         k = IF op.type = "insert" THEN nextId + 1 ELSE nextId
  PROVE  /\ k \in Nat /\ nextId <= k
         /\ IsOp(op, Drafts(k)) /\ IsDoc(items, Drafts(k)) /\ Undefined \in Drafts(k)
BY IdsMore, IsDocMore, IsDocIn DEF UserOps, Drafts, Ids, IsOp

LEMMA EditIInv ==
  ASSUME IInv, NEW t \in Tab, Edit(t)
  PROVE  IInv'
<1>1. PICK m : m = tab[t]
  OBVIOUS
<1>2. PICK op \in UserOps(m.items) :
        /\ Update(t, Edited(m, ToItems(ReplayOp(m.items, op))))
        /\ nextId' = IF op.type = "insert" THEN nextId + 1 ELSE nextId
  BY <1>1 DEF Edit
<1>3. PICK k, d, items, n :
        /\ k = nextId' /\ d = ReplayOp(m.items, op) /\ items = ToItems(d)
        /\ n = Edited(m, items)
  OBVIOUS
<1>4. /\ IsTab(m) /\ Founded(Log, nextId, m) /\ IsDoc(m.items, Drafts(nextId))
      /\ nextId \in Nat
  BY <1>1, TabIs
<1>5. /\ k \in Nat /\ nextId <= k
      /\ IsOp(op, Drafts(k)) /\ IsDoc(m.items, Drafts(k)) /\ Undefined \in Drafts(k)
  BY <1>2, <1>3, <1>4, UserOpIs
<1>6. IsDoc(d, Drafts(k))
  BY <1>3, <1>5, ReplayOpIs
<1>7. IsDoc(items, Drafts(k))
  BY <1>3, <1>6, ToItemsIsDoc
<1>8. n = [m EXCEPT !.items = items, !.past = m.items, !.dirty = TRUE]
  BY <1>3 DEF Edited
<1>9. n = [items |-> items, past |-> m.items, dirty |-> TRUE,
           canonical |-> m.canonical, revision |-> m.revision,
           inFlight |-> m.inFlight, saves |-> m.saves, error |-> m.error,
           saveRejected |-> m.saveRejected, synced |-> m.synced, online |-> m.online]
  BY Zenon, <1>4, <1>8 DEF IsTab
<1>10. IsTab(n)
  BY <1>9 DEF IsTab
<1>11. /\ n.synced = m.synced /\ n.canonical = m.canonical /\ n.revision = m.revision
       /\ n.inFlight = m.inFlight /\ n.items = items /\ n.past = m.items
  BY <1>9
<1>12. Founded(Log, k, m)
  BY <1>4, <1>5, HoldsMore
<1>13. IsDoc(n.items, Drafts(k)) /\ IsPast(k, n.past)
  BY <1>5, <1>7, <1>11 DEF IsPast
<1>14. Founded(Log, k, n)
  BY <1>11, <1>12, <1>13, KeepsFounded
<1>15. Shows(n)
  BY <1>9 DEF Shows
<1>16. Update(t, n) /\ UNCHANGED <<store, down, orphans>>
  BY <1>2, <1>3 DEF Edit
<1> QED BY <1>3, <1>5, <1>10, <1>14, <1>15, <1>16, OwnStepIInv

\* The same id is next.
LEMMA IdleStepIInv ==
  ASSUME IInv, NEW t \in Tab, UNCHANGED <<store, down, orphans, nextId>>,
         NEW m, IsTab(m), Founded(Log, nextId, m), Shows(m), Update(t, m)
  PROVE  IInv'
BY OwnStepIInv DEF IInv, Fresh

LEMMA UndoIInv ==
  ASSUME IInv, NEW t \in Tab, Undo(t)
  PROVE  IInv'
<1>1. PICK m, n : m = tab[t]
                  /\ n = [m EXCEPT !.items = m.past, !.past = NoPast, !.dirty = TRUE]
  OBVIOUS
<1>2. IsTab(m) /\ Founded(Log, nextId, m) /\ IsPast(nextId, m.past)
  BY <1>1, TabIs
<1>3. n = [items |-> m.past, past |-> NoPast, dirty |-> TRUE,
           canonical |-> m.canonical, revision |-> m.revision,
           inFlight |-> m.inFlight, saves |-> m.saves, error |-> m.error,
           saveRejected |-> m.saveRejected, synced |-> m.synced, online |-> m.online]
  BY <1>1, <1>2 DEF IsTab
<1>4. IsTab(n)
  BY <1>3 DEF IsTab
<1>5. /\ n.synced = m.synced /\ n.canonical = m.canonical /\ n.revision = m.revision
      /\ n.inFlight = m.inFlight /\ n.items = m.past /\ n.past = NoPast
  BY <1>3
<1>6. m.past # NoPast
  BY <1>1 DEF Undo
<1>7. IsDoc(n.items, Drafts(nextId)) /\ IsPast(nextId, n.past)
  BY <1>2, <1>5, <1>6 DEF IsPast
<1>8. Founded(Log, nextId, n)
  BY <1>2, <1>5, <1>7, KeepsFounded
<1>9. Shows(n)
  BY <1>3 DEF Shows
<1>10. Update(t, n) /\ UNCHANGED <<store, down, orphans, nextId>>
  BY <1>1 DEF Undo
<1> QED BY <1>4, <1>8, <1>9, <1>10, IdleStepIInv

\* What is left of the edits of a rejected save leads to the tree of the tab.
LEMMA RetryIsDoc ==
  ASSUME NEW N, NEW m, IsDoc(m.inFlight.baseItems, Drafts(N)), IsDoc(m.items, Drafts(N)),
         IsDoc(m.canonical, Drafts(N)), NEW known
  PROVE  IsDoc(ToItems(Replay(m.canonical,
                 StillThere(Diff(m.inFlight.baseItems, m.items), known))), Drafts(N))
BY DiffIs, StillThereIs, ReplayIs, ToItemsIsDoc DEF Drafts

LEMMA RetriedEditIInv ==
  ASSUME IInv, NEW t \in Tab, RetriedEdit(t)
  PROVE  IInv'
<1>1. PICK m : m = tab[t]
  OBVIOUS
<1>2. PICK known :
        Update(t, [Edited(m, ToItems(Replay(m.canonical,
                     StillThere(Diff(m.inFlight.baseItems, m.items), known)))) EXCEPT
                     !.inFlight = NoSave, !.error = FALSE, !.saveRejected = FALSE])
  BY Zenon, <1>1 DEF RetriedEdit
<1>3. PICK items, e, n :
        /\ items = ToItems(Replay(m.canonical,
                     StillThere(Diff(m.inFlight.baseItems, m.items), known)))
        /\ e = Edited(m, items)
        /\ n = [e EXCEPT !.inFlight = NoSave, !.error = FALSE, !.saveRejected = FALSE]
  BY Zenon
<1>4. /\ IsTab(m) /\ Founded(Log, nextId, m)
      /\ IsDoc(m.items, Drafts(nextId)) /\ IsDoc(m.canonical, Drafts(nextId))
  BY <1>1, TabIs
<1>5. IsDoc(items, Drafts(nextId))
  <2>1. m.inFlight # NoSave
    BY <1>1 DEF RetriedEdit
  <2>2. IsDoc(m.inFlight.baseItems, Ids(nextId))
    BY <1>4, <2>1 DEF Founded, Drawn
  <2>3. IsDoc(m.inFlight.baseItems, Drafts(nextId))
    BY <2>2, IsDocMore DEF Drafts
  <2> QED BY <1>3, <1>4, <2>3, RetryIsDoc
<1>6. e = [items |-> items, past |-> m.items, dirty |-> TRUE,
           canonical |-> m.canonical, revision |-> m.revision,
           inFlight |-> m.inFlight, saves |-> m.saves, error |-> m.error,
           saveRejected |-> m.saveRejected, synced |-> m.synced, online |-> m.online]
  BY Zenon, <1>3, <1>4 DEF IsTab, Edited
<1>7. /\ IsTab(e) /\ e.synced = m.synced /\ e.canonical = m.canonical
      /\ e.revision = m.revision /\ e.items = items /\ e.past = m.items /\ e.dirty = TRUE
  BY <1>6 DEF IsTab
<1>8. n = [items |-> e.items, past |-> e.past, dirty |-> e.dirty,
           canonical |-> e.canonical, revision |-> e.revision,
           inFlight |-> NoSave, saves |-> e.saves, error |-> FALSE,
           saveRejected |-> FALSE, synced |-> e.synced, online |-> e.online]
  BY Zenon, <1>3, <1>7 DEF IsTab
<1>9. /\ IsTab(n)
      /\ n.synced = m.synced /\ n.canonical = m.canonical /\ n.revision = m.revision
      /\ n.inFlight = NoSave /\ n.items = items /\ n.past = m.items
  BY <1>7, <1>8 DEF IsTab
<1>10. IsDoc(n.items, Drafts(nextId)) /\ IsPast(nextId, n.past)
  BY <1>4, <1>5, <1>9 DEF IsPast
<1>11. Founded(Log, nextId, n)
  BY <1>4, <1>9, <1>10, KeepsFounded
<1>12. Shows(n)
  BY <1>7, <1>8 DEF Shows
<1>13. UNCHANGED <<store, down, orphans, nextId>> /\ Update(t, n)
  BY <1>2, <1>3 DEF RetriedEdit
<1> QED BY <1>9, <1>11, <1>12, <1>13, IdleStepIInv

LEMMA DiscardedEditIInv ==
  ASSUME IInv, NEW t \in Tab, DiscardedEdit(t)
  PROVE  IInv'
<1>1. PICK m, e, n : /\ m = tab[t] /\ e = Loaded(m, m.canonical)
                     /\ n = [e EXCEPT !.inFlight = NoSave, !.error = FALSE,
                                      !.saveRejected = FALSE]
  OBVIOUS
<1>2. IsTab(m) /\ Founded(Log, nextId, m) /\ IsDoc(m.canonical, Drafts(nextId))
  BY <1>1, TabIs
<1>3. e = [items |-> m.canonical, past |-> NoPast, dirty |-> FALSE,
           canonical |-> m.canonical, revision |-> m.revision,
           inFlight |-> m.inFlight, saves |-> m.saves, error |-> m.error,
           saveRejected |-> m.saveRejected, synced |-> m.synced, online |-> m.online]
  BY <1>1, <1>2 DEF IsTab, Loaded
<1>4. /\ IsTab(e) /\ e.synced = m.synced /\ e.canonical = m.canonical
      /\ e.revision = m.revision /\ e.items = m.canonical /\ e.past = NoPast
  BY <1>3 DEF IsTab
<1>5. n = [items |-> e.items, past |-> e.past, dirty |-> e.dirty,
           canonical |-> e.canonical, revision |-> e.revision,
           inFlight |-> NoSave, saves |-> e.saves, error |-> FALSE,
           saveRejected |-> FALSE, synced |-> e.synced, online |-> e.online]
  BY <1>1, <1>4 DEF IsTab
<1>6. /\ IsTab(n)
      /\ n.synced = m.synced /\ n.canonical = m.canonical /\ n.revision = m.revision
      /\ n.inFlight = NoSave /\ n.items = m.canonical /\ n.past = NoPast
  BY <1>4, <1>5 DEF IsTab
<1>7. Founded(Log, nextId, n) /\ Shows(n)
  BY <1>2, <1>6, KeepsFounded DEF IsPast, Shows
<1>8. Update(t, n) /\ UNCHANGED <<store, down, orphans, nextId>>
  BY <1>1 DEF DiscardedEdit
<1> QED BY <1>6, <1>7, <1>8, IdleStepIInv

\* Steps that change only whether the tab is online, an error or unsaved edits.
LEMMA FlagIInv ==
  ASSUME IInv, NEW t \in Tab, OpenedSocket(t) \/ SendFailed(t) \/ ReceiveThread(t)
  PROVE  IInv'
<1>1. PICK m : m = tab[t]
  OBVIOUS
<1>2. /\ IsTab(m) /\ Founded(Log, nextId, m) /\ Shows(m)
      /\ IsDoc(m.items, Drafts(nextId)) /\ IsPast(nextId, m.past) /\ nextId \in Nat
  BY <1>1, TabIs
<1>3. UNCHANGED <<store, down, orphans, nextId>>
  BY DEF OpenedSocket, SendFailed, ReceiveThread
<1>4. ASSUME NEW n, NEW d \in {TRUE, m.dirty}, NEW o, NEW e,
             n = [items |-> m.items, past |-> m.past, dirty |-> d,
                  canonical |-> m.canonical, revision |-> m.revision,
                  inFlight |-> m.inFlight, saves |-> m.saves, error |-> e,
                  saveRejected |-> m.saveRejected, synced |-> m.synced, online |-> o]
      PROVE  IsTab(n) /\ Founded(Log, nextId, n) /\ Shows(n)
  <2>1. IsTab(n)
    BY <1>4 DEF IsTab
  <2>2. /\ n.synced = m.synced /\ n.canonical = m.canonical /\ n.revision = m.revision
        /\ n.inFlight = m.inFlight /\ n.items = m.items /\ n.past = m.past
    BY <1>4
  <2>3. n.dirty = TRUE \/ n.dirty = m.dirty
    BY <1>4
  <2>4. Founded(Log, nextId, n)
    BY <1>2, <2>2, KeepsFounded
  <2>5. Shows(n)
    BY <1>2, <2>2, <2>3 DEF Shows
  <2> QED BY <2>1, <2>4, <2>5
<1>5. CASE OpenedSocket(t)
  BY <1>2, <1>4, <1>1, <1>5, <1>3, IdleStepIInv DEF IsTab, OpenedSocket
<1>6. CASE ReceiveThread(t)
  BY <1>2, <1>4, <1>1, <1>6, <1>3, IdleStepIInv DEF IsTab, ReceiveThread
<1>7. CASE SendFailed(t)
  <2>1. PICK n : n = [m EXCEPT !.dirty = TRUE]
    BY Zenon
  <2>2. n = [items |-> m.items, past |-> m.past, dirty |-> TRUE,
             canonical |-> m.canonical, revision |-> m.revision,
             inFlight |-> m.inFlight, saves |-> m.saves, error |-> m.error,
             saveRejected |-> m.saveRejected, synced |-> m.synced, online |-> m.online]
    BY Zenon, <1>2, <2>1 DEF IsTab
  <2>3. IsTab(n) /\ Founded(Log, nextId, n) /\ Shows(n)
    BY <1>4, <2>2
  <2>4. tab' = [tab EXCEPT ![t] = n] /\ UNCHANGED up
    BY <1>1, <1>7, <2>1 DEF SendFailed
  <2>5. WayDown' /\ WayUp'
    BY <1>3, <2>4 DEF IInv, WayDown, WayUp, Log
  <2>6. nextId' \in Nat /\ nextId <= nextId' /\ Founded(Log, nextId', n)
    BY <1>2, <1>3, <2>3
  <2> QED BY Zenon, <1>3, <2>3, <2>4, <2>5, <2>6, TabStepIInv
<1> QED BY <1>5, <1>6, <1>7

LEMMA ClosedSocketIInv ==
  ASSUME IInv, NEW t \in Tab, ClosedSocket(t)
  PROVE  IInv'
<1>1. PICK m, n : m = tab[t] /\ n = [m EXCEPT !.online = FALSE]
  BY Zenon
<1>2. /\ IsTab(m) /\ Founded(Log, nextId, m) /\ Shows(m)
      /\ IsDoc(m.items, Drafts(nextId)) /\ IsPast(nextId, m.past) /\ nextId \in Nat
  BY <1>1, TabIs
<1>3. n = [items |-> m.items, past |-> m.past, dirty |-> m.dirty,
           canonical |-> m.canonical, revision |-> m.revision,
           inFlight |-> m.inFlight, saves |-> m.saves, error |-> m.error,
           saveRejected |-> m.saveRejected, synced |-> m.synced, online |-> FALSE]
  BY Zenon, <1>1, <1>2 DEF IsTab
<1>4. /\ IsTab(n)
      /\ n.synced = m.synced /\ n.canonical = m.canonical /\ n.revision = m.revision
      /\ n.inFlight = m.inFlight /\ n.items = m.items /\ n.past = m.past
      /\ n.dirty = m.dirty
  BY <1>3 DEF IsTab
<1>5. Founded(Log, nextId, n)
  BY <1>2, <1>4, KeepsFounded
<1>6. Shows(n)
  BY <1>2, <1>4 DEF Shows
<1>7. /\ tab' = [tab EXCEPT ![t] = n] /\ UNCHANGED <<store, nextId>>
      /\ down' = [down EXCEPT ![t] = <<>>] /\ up' = [up EXCEPT ![t] = <<>>]
  BY <1>1 DEF ClosedSocket
<1>8. WayDown'
  BY <1>7, CarriesNothing DEF IInv, WayDown, Log
<1>9. \A save \in orphans' : IsSave(nextId, save)
  BY PostsFirst DEF ClosedSocket, IInv, WayUp
<1>10. WayUp'
  BY <1>7, <1>9, PostsNothing DEF IInv, WayUp
<1>11. nextId' \in Nat /\ nextId <= nextId' /\ Founded(Log, nextId', n)
  BY <1>2, <1>5, <1>7
<1> QED BY Zenon, <1>4, <1>6, <1>7, <1>8, <1>10, <1>11, TabStepIInv

-----------------------------------------------------------------------------
(* What a tab does with a message *)

LEMMA TakenOverFounded ==
  ASSUME NEW log, NEW N, NEW m, IsTab(m), Founded(log, N, m),
         NEW msg, Faithful(log, N, msg), msg.kind # "Error",
         NEW n, n = TakenOver(m, msg)
  PROVE  /\ IsTab(n) /\ Founded(log, N, n) /\ Knows(log, n.canonical, n.revision)
         /\ n.inFlight = m.inFlight /\ n.synced = m.synced /\ n.canonical = msg.items
         /\ n.items = m.items /\ n.past = m.past /\ n.dirty = m.dirty
         /\ n.saves = m.saves /\ n.revision = msg.revision /\ n.saveRejected = m.saveRejected
BY Zenon DEF TakenOver, IsTab, Faithful, Plain, Founded, Drawn

LEMMA ReceivesFacts ==
  ASSUME IInv, NEW t \in Tab, Receives(t)
  PROVE  /\ Faithful(Log, nextId, Next0(t)) /\ UNCHANGED <<store, orphans>>
         /\ nextId' \in Nat /\ nextId <= nextId' => WayDown'
<1>1. Carries(Log, nextId, down[t]) /\ down[t] # <<>> /\ nextId \in Nat
  BY DEF IInv, WayDown, Receives, Fresh
<1>2. Faithful(Log, nextId, Next0(t)) /\ Carries(Log, nextId, Tail(down[t]))
  BY Zenon, <1>1, CarriesOn DEF Next0
<1>3. down' = [down EXCEPT ![t] = Tail(down[t])] /\ UNCHANGED <<store, orphans>>
  BY DEF Receives
<1>4. /\ down' = [x \in Tab |-> down'[x]]
      /\ \A x \in Tab : Carries(Log, nextId, down'[x])
  BY Zenon, <1>2, <1>3 DEF IInv, WayDown
<1>5. ASSUME nextId' \in Nat, nextId <= nextId'
      PROVE  WayDown'
  BY <1>1, <1>5, HoldsMore, <1>3, <1>4 DEF Log, WayDown
<1> QED BY <1>2, <1>3, <1>5

\* A tab that has done something with a message.
LEMMA ReceivedIInv ==
  ASSUME IInv, NEW t \in Tab, Receives(t), nextId' \in Nat, nextId <= nextId',
         NEW n, NEW out, IsTab(n), Founded(Log, nextId', n), Shows(n),
         Posts(nextId', out), Post(t, n, out)
  PROVE  IInv'
<1>1. UNCHANGED <<store, orphans>> /\ WayDown'
  BY ReceivesFacts
<1>2. WayUp'
  BY <1>1, PostedWayUp
<1>3. tab' = [tab EXCEPT ![t] = n]
  BY DEF Post
<1> QED BY <1>1, <1>2, <1>3, TabStepIInv

LEMMA UpdatedIInv ==
  ASSUME IInv, NEW t \in Tab, Receives(t), nextId' \in Nat, nextId <= nextId',
         NEW m, IsTab(m), Founded(Log, nextId', m), Shows(m), Update(t, m)
  PROVE  IInv'
BY UpdateFounded, ReceivedIInv

\* The same id is next.
LEMMA IdleFacts ==
  ASSUME IInv, UNCHANGED nextId
  PROVE  /\ nextId' \in Nat /\ nextId <= nextId'
         /\ \A m : Founded(Log, nextId, m) => Founded(Log, nextId', m)
         /\ \A u : Posts(nextId, u) => Posts(nextId', u)
BY DEF IInv, Fresh

LEMMA ReceiveErrorIInv ==
  ASSUME IInv, NEW t \in Tab, ReceiveError(t)
  PROVE  IInv'
<1>1. Receives(t) /\ UNCHANGED nextId
  BY DEF ReceiveError
<1>2. PICK m : m = tab[t]
  OBVIOUS
<1>3. PICK rejected : Update(t, [m EXCEPT !.error = TRUE, !.saveRejected = rejected])
  BY <1>2 DEF ReceiveError
<1>4. /\ IsTab(m) /\ Founded(Log, nextId, m) /\ Shows(m)
      /\ IsDoc(m.items, Drafts(nextId)) /\ IsPast(nextId, m.past)
  BY <1>2, TabIs
<1>5. PICK n : n = [m EXCEPT !.error = TRUE, !.saveRejected = rejected]
  OBVIOUS
<1>6. n = [items |-> m.items, past |-> m.past, dirty |-> m.dirty,
           canonical |-> m.canonical, revision |-> m.revision,
           inFlight |-> m.inFlight, saves |-> m.saves, error |-> TRUE,
           saveRejected |-> rejected, synced |-> m.synced, online |-> m.online]
  BY <1>4, <1>5 DEF IsTab
<1>7. /\ IsTab(n) /\ n.synced = m.synced /\ n.canonical = m.canonical
      /\ n.revision = m.revision /\ n.inFlight = m.inFlight
      /\ n.items = m.items /\ n.past = m.past /\ n.dirty = m.dirty
  BY <1>6 DEF IsTab
<1>8. Founded(Log, nextId, n)
  BY <1>4, <1>7, KeepsFounded
<1>9. Shows(n)
  BY <1>4, <1>7 DEF Shows
<1>10. Update(t, n)
  BY <1>3, <1>5
<1>11. nextId' \in Nat /\ nextId <= nextId' /\ Founded(Log, nextId', n)
  BY <1>1, <1>8, IdleFacts
<1> QED BY <1>1, <1>7, <1>9, <1>10, <1>11, UpdatedIInv

\* The save on its way stays there.
LEMMA ReceiveWaitingIInv ==
  ASSUME IInv, NEW t \in Tab, ReceiveSnapshotWaiting(t) \/ ReceiveOtherChange(t)
  PROVE  IInv'
<1>1. /\ Receives(t) /\ Next0(t).kind # "Error" /\ UNCHANGED nextId
      /\ tab[t].inFlight # NoSave
  BY DEF ReceiveSnapshotWaiting, ReceiveOtherChange, Waiting
<1>2. PICK m, msg, n : m = tab[t] /\ msg = Next0(t) /\ n = TakenOver(m, msg)
  OBVIOUS
<1>3. /\ IsTab(m) /\ Founded(Log, nextId, m)
      /\ Faithful(Log, nextId, msg) /\ msg.kind # "Error"
  BY <1>1, <1>2, TabIs, ReceivesFacts
<1>4. IsTab(n) /\ Founded(Log, nextId, n) /\ n.inFlight = m.inFlight
  BY <1>2, <1>3, TakenOverFounded
<1>5. m.inFlight # NoSave
  BY <1>1, <1>2
<1>6. Shows(n)
  BY <1>4, <1>5 DEF Shows
<1>7. Posts(nextId, Posted(m.inFlight)) /\ Posts(nextId, <<>>)
  BY <1>3, <1>5, EncodedPosts, PostsNothing DEF Founded, Drawn
<1>8. PICK out : Post(t, n, out) /\ out \in {<<>>, Posted(m.inFlight)}
  BY <1>2 DEF ReceiveSnapshotWaiting, ReceiveOtherChange
<1>9. Posts(nextId, out)
  BY <1>7, <1>8
<1>10. /\ nextId' \in Nat /\ nextId <= nextId'
       /\ Founded(Log, nextId', n) /\ Posts(nextId', out)
  BY <1>1, <1>4, <1>9, IdleFacts
<1> QED BY <1>1, <1>4, <1>6, <1>8, <1>10, ReceivedIInv

LEMMA ReceiveWithEditsIInv ==
  ASSUME IInv, NEW t \in Tab, ReceiveWithEdits(t)
  PROVE  IInv'
<1>1. /\ Receives(t) /\ Next0(t).kind # "Error" /\ tab[t].synced /\ tab[t].dirty
      /\ UNCHANGED nextId
  BY DEF ReceiveWithEdits
<1>2. PICK m, msg, n, o : /\ m = tab[t] /\ msg = Next0(t) /\ n = TakenOver(m, msg)
                          /\ o = Saving(t, n, m)
  OBVIOUS
<1>3. /\ IsTab(m) /\ Founded(Log, nextId, m) /\ IsDoc(m.canonical, Ids(nextId))
      /\ Faithful(Log, nextId, msg) /\ msg.kind # "Error"
  BY <1>1, <1>2, TabIs, ReceivesFacts
<1>4. IsTab(n) /\ Founded(Log, nextId, n) /\ n.dirty = m.dirty
  BY <1>2, <1>3, TakenOverFounded
<1>5. Knows(Log, m.canonical, m.revision)
  BY <1>1, <1>2, <1>3 DEF Founded
<1>6. /\ IsTab(o) /\ Founded(Log, nextId, o) /\ Posts(nextId, Posted(o.inFlight))
      /\ o.dirty = n.dirty
  BY <1>2, <1>3, <1>4, <1>5, SavingFounded
<1>7. Shows(o)
  BY <1>1, <1>2, <1>4, <1>6 DEF Shows
<1>8. Post(t, o, Posted(o.inFlight))
  BY <1>2 DEF ReceiveWithEdits
<1>9. /\ nextId' \in Nat /\ nextId <= nextId'
      /\ Founded(Log, nextId', o) /\ Posts(nextId', Posted(o.inFlight))
  BY <1>1, <1>6, IdleFacts
<1> QED BY <1>1, <1>6, <1>7, <1>8, <1>9, ReceivedIInv

LEMMA ReceiveDocumentIInv ==
  ASSUME IInv, NEW t \in Tab, ReceiveDocument(t)
  PROVE  IInv'
<1>1. Receives(t) /\ Next0(t).kind # "Error" /\ UNCHANGED nextId
  BY DEF ReceiveDocument
<1>2. PICK m, msg, n : m = tab[t] /\ msg = Next0(t) /\ n = TakenOver(m, msg)
  OBVIOUS
<1>3. /\ IsTab(m) /\ Founded(Log, nextId, m)
      /\ Faithful(Log, nextId, msg) /\ msg.kind # "Error"
  BY <1>1, <1>2, TabIs, ReceivesFacts
<1>4. /\ IsTab(n) /\ Founded(Log, nextId, n) /\ Knows(Log, n.canonical, n.revision)
      /\ n.canonical = msg.items
  BY <1>2, <1>3, TakenOverFounded
<1>5. PICK l, o : l = Loaded(n, msg.items) /\ o = [l EXCEPT !.synced = TRUE]
  BY Zenon
<1>6. l = [items |-> msg.items, past |-> NoPast, dirty |-> FALSE,
           canonical |-> n.canonical, revision |-> n.revision,
           inFlight |-> n.inFlight, saves |-> n.saves, error |-> n.error,
           saveRejected |-> n.saveRejected, synced |-> n.synced, online |-> n.online]
  BY Zenon, <1>4, <1>5 DEF IsTab, Loaded
<1>7. /\ IsTab(l) /\ l.canonical = n.canonical /\ l.revision = n.revision
      /\ l.inFlight = n.inFlight /\ l.items = msg.items /\ l.past = NoPast
  BY <1>6 DEF IsTab
<1>8. o = [items |-> l.items, past |-> l.past, dirty |-> l.dirty,
           canonical |-> l.canonical, revision |-> l.revision,
           inFlight |-> l.inFlight, saves |-> l.saves, error |-> l.error,
           saveRejected |-> l.saveRejected, synced |-> TRUE, online |-> l.online]
  BY Zenon, <1>5, <1>7 DEF IsTab
<1>9. /\ IsTab(o) /\ o.canonical = n.canonical /\ o.revision = n.revision
      /\ o.inFlight = n.inFlight /\ o.items = msg.items /\ o.past = NoPast
  BY <1>7, <1>8 DEF IsTab
<1>10. IsDoc(o.items, Drafts(nextId))
  BY <1>3, <1>9, IsDocMore DEF Faithful, Plain, Drafts
<1>11. Founded(Log, nextId, o)
  BY <1>4, <1>9, <1>10 DEF Founded, Drawn, IsPast
<1>12. Shows(o)
  BY <1>4, <1>9 DEF Shows
<1>13. Update(t, o)
  BY <1>2, <1>5 DEF ReceiveDocument
<1>14. nextId' \in Nat /\ nextId <= nextId' /\ Founded(Log, nextId', o)
  BY <1>1, <1>11, IdleFacts
<1> QED BY <1>1, <1>9, <1>12, <1>13, <1>14, UpdatedIInv

-----------------------------------------------------------------------------
(* The answer to a save *)

\* A text that differs from the one that was saved is kept.
KeepsText(before, mine, doc) ==
  \A n \in DOMAIN before.node \cap DOMAIN mine.node \cap DOMAIN doc.node :
    n # Undefined /\ mine.node[n].val # before.node[n].val =>
      doc.node[n].val = mine.node[n].val

\* The edits since the save, replayed on the document of the answer.
LEMMA ReplayedIs ==
  ASSUME NEW N, NEW before, IsDoc(before, Drafts(N)), NEW mine, IsDoc(mine, Drafts(N)),
         NEW msg, Plain(N, msg), NEW ops, ops = Diff(before, mine),
         NEW doc, doc = ToItems(Replay(msg.items, ops))
  PROVE  /\ IsDoc(doc, Drafts(N)) /\ Grown(doc) /\ KeepsText(before, mine, doc)
         /\ ops # <<>> \/ doc = msg.items
<1>1. PICK K, d : K = Drafts(N) /\ d = Replay(msg.items, ops)
  OBVIOUS
<1>2. Undefined \in K /\ IsDoc(before, K) /\ IsDoc(mine, K)
  BY <1>1 DEF Drafts
<1>3. IsDoc(msg.items, K)
  BY <1>1, IsDocMore DEF Plain, Drafts
<1>4. /\ LeadsTo(ops, mine, K)
      /\ \A n \in DOMAIN before.node \cap DOMAIN mine.node :
           n # Undefined /\ before.node[n].val # mine.node[n].val => Updates(ops, n)
  BY <1>2, DiffIs
<1>5. /\ IsDoc(d, K)
      /\ \A n \in DOMAIN d.node : n # Undefined =>
           d.node[n].val = mine.node[n].val \/ ~Updates(ops, n)
  <2>1. LeadsTo(ops, mine, K)
    BY <1>4
  <2> QED BY <1>1, <1>2, <1>3, <2>1, ReplayIs
<1>6. /\ IsDoc(doc, K) /\ Grown(doc)
      /\ \A n \in DOMAIN doc.node : n \in DOMAIN d.node /\ doc.node[n].val = d.node[n].val
  <2>1. IsDoc(d, K)
    BY <1>5
  <2>2. Grown(doc)
    BY <1>1, <2>1, GrownWalk DEF IsDoc
  <2> QED BY <1>1, <2>1, <2>2, ToItemsIsDoc
<1>7. KeepsText(before, mine, doc)
  BY <1>4, <1>5, <1>6 DEF KeepsText
<1>8. ASSUME ops = <<>>
      PROVE  doc = msg.items
  BY ReplayNothing, <1>8 DEF Plain
<1> QED BY <1>1, <1>6, <1>7, <1>8

\* What a renaming leaves of it.
LEMMA RenewedIs ==
  ASSUME nextId \in Nat, NEW dead, dead \subseteq Ids(nextId),
         NEW doc, IsDoc(doc, Drafts(nextId))
  PROVE  /\ IsDoc(Renamed(doc, dead), Drafts(nextId + Cardinality(dead)))
         /\ \A n \in DOMAIN Renamed(doc, dead).node : n \in Ids(nextId) \ dead =>
              n \in DOMAIN doc.node /\ Renamed(doc, dead).node[n].val = doc.node[n].val
<1>1. CASE doc = NoPast
  <2>1. Renamed(doc, dead) = doc
    BY <1>1 DEF Renamed
  <2>2. Cardinality(dead) \in Nat
    BY IdsFinite
  <2>3. PICK k \in Nat : k = nextId + Cardinality(dead)
    BY <2>2
  <2>4. IsDoc(doc, Drafts(k))
    BY <2>2, <2>3, IdsMore, IsDocMore
  <2> QED BY <2>1, <2>3, <2>4
<1>2. CASE doc # NoPast
  <2>1. IsDoc(Renamed(doc, dead), Drafts(nextId + Cardinality(dead)))
    BY <1>2, RenamedIs
  <2>2. \A n \in DOMAIN Renamed(doc, dead).node : n \in Ids(nextId) \ dead =>
          n \in DOMAIN doc.node /\ Renamed(doc, dead).node[n].val = doc.node[n].val
    BY <1>2, RenamedIs
  <2> QED BY <2>1, <2>2
<1> QED BY <1>1, <1>2

\* The tab after the answer, before what it sends next.
Answered(m, msg, o) ==
  /\ o.saves = m.saves /\ o.inFlight = NoSave /\ o.saveRejected = FALSE
  /\ o.synced = TRUE /\ o.canonical = msg.items /\ o.revision = msg.revision
  /\ \E items, dead :
       /\ Grown(items) /\ IsDoc(items, Drafts(nextId))
       /\ dead = (NamesOf(items) \cup NamesOf(m.past)) \cap msg.tombs
       /\ o.items = Renamed(items, dead) /\ o.past = Renamed(m.past, dead)

LEMMA AnswerIs ==
  ASSUME IInv, NEW t \in Tab, ReceiveAnswer(t)
  PROVE  \E o : /\ Update(t, o) /\ nextId' \in Nat /\ nextId <= nextId'
                /\ IsTab(o) /\ Founded(Log, nextId', o) /\ Shows(o)
                /\ Answered(tab[t], Next0(t), o)
                /\ \A n \in Id :
                     /\ n \in DOMAIN tab[t].items.node \cap DOMAIN tab[t].inFlight.items.node
                     /\ tab[t].items.node[n].val # tab[t].inFlight.items.node[n].val
                     /\ n \in DOMAIN o.canonical.node \cap DOMAIN o.items.node
                     => o.items.node[n].val = tab[t].items.node[n].val
<1>1. /\ Receives(t) /\ Next0(t).kind # "Error" /\ tab[t].inFlight # NoSave
  BY DEF ReceiveAnswer, Waiting
<1>2. PICK m, msg, n, ops, items :
        /\ m = tab[t] /\ msg = Next0(t) /\ n = TakenOver(m, msg)
        /\ ops = Diff(m.inFlight.items, m.items)
        /\ items = ToItems(Replay(msg.items, ops))
  OBVIOUS
<1>3. /\ IsTab(m) /\ Founded(Log, nextId, m) /\ nextId \in Nat
      /\ IsDoc(m.items, Drafts(nextId)) /\ IsPast(nextId, m.past)
      /\ Faithful(Log, nextId, msg) /\ msg.kind # "Error"
  BY <1>1, <1>2, TabIs, ReceivesFacts
<1>4. /\ IsTab(n) /\ Founded(Log, nextId, n) /\ Knows(Log, n.canonical, n.revision)
      /\ n.canonical = msg.items /\ n.past = m.past
      /\ n.saves = m.saves /\ n.revision = msg.revision
  BY <1>2, <1>3, TakenOverFounded
<1>5. Plain(nextId, msg)
  BY <1>3 DEF Faithful
<1>6. IsDoc(m.inFlight.items, Drafts(nextId))
  BY <1>1, <1>2, <1>3 DEF Founded, Drawn
<1>7. /\ IsDoc(items, Drafts(nextId)) /\ Grown(items)
      /\ KeepsText(m.inFlight.items, m.items, items)
      /\ ops # <<>> \/ items = msg.items
  <2>1. PICK before, mine : before = m.inFlight.items /\ mine = m.items
    OBVIOUS
  <2>2. /\ IsDoc(before, Drafts(nextId)) /\ IsDoc(mine, Drafts(nextId))
        /\ ops = Diff(before, mine)
    BY <1>2, <1>3, <1>6, <2>1
  <2>3. /\ IsDoc(items, Drafts(nextId)) /\ Grown(items) /\ KeepsText(before, mine, items)
        /\ ops # <<>> \/ items = msg.items
    <3>1. items = ToItems(Replay(msg.items, ops))
      BY <1>2
    <3> QED BY <1>5, <2>2, <3>1, ReplayedIs, ZenonT(30)
  <2> QED BY <2>1, <2>3
<1>8. PICK r, dead, o :
        /\ r = [n EXCEPT !.items = items, !.inFlight = NoSave, !.saveRejected = FALSE,
                         !.synced = TRUE, !.dirty = ops # <<>>]
        /\ dead = Dead(r, msg.tombs) /\ o = Renewed(r, msg.tombs)
  OBVIOUS
<1>9. /\ Update(t, o) /\ nextId' = nextId + Cardinality(dead)
  BY <1>2, <1>8 DEF ReceiveAnswer
<1>10. PICK dirty \in BOOLEAN : dirty <=> ops # <<>>
  BY Zenon
<1>11. r = [n EXCEPT !.items = items, !.inFlight = NoSave, !.saveRejected = FALSE,
                     !.synced = TRUE, !.dirty = dirty]
  BY <1>8, <1>10, Zenon
<1>12. r = [items |-> items, past |-> n.past, dirty |-> dirty,
            canonical |-> n.canonical, revision |-> n.revision,
            inFlight |-> NoSave, saves |-> n.saves, error |-> n.error,
            saveRejected |-> FALSE, synced |-> TRUE, online |-> n.online]
  BY Zenon, <1>4, <1>11 DEF IsTab
<1>13. /\ IsTab(r) /\ r.canonical = msg.items /\ r.revision = n.revision
       /\ r.inFlight = NoSave /\ r.items = items /\ r.past = m.past
  BY <1>4, <1>12 DEF IsTab
<1>14. dead \subseteq Ids(nextId) /\ dead \subseteq msg.tombs
  BY <1>5, <1>8 DEF Dead, Plain
<1>15. Cardinality(dead) \in Nat
  BY <1>3, <1>14, IdsFinite
<1>16. PICK k \in Nat : k = nextId' /\ k = nextId + Cardinality(dead) /\ nextId <= k
  BY <1>3, <1>9, <1>15
<1>17. PICK kept, past : kept = Renamed(r.items, dead) /\ past = Renamed(r.past, dead)
  OBVIOUS
<1>18. o = [r EXCEPT !.items = kept, !.past = past]
  BY <1>8, <1>17 DEF Renewed
<1>19. o = [items |-> kept, past |-> past, dirty |-> r.dirty,
            canonical |-> r.canonical, revision |-> r.revision,
            inFlight |-> r.inFlight, saves |-> r.saves, error |-> r.error,
            saveRejected |-> r.saveRejected, synced |-> r.synced, online |-> r.online]
  BY Zenon, <1>13, <1>18 DEF IsTab
<1>20. /\ IsTab(o) /\ o.canonical = msg.items /\ o.revision = n.revision
       /\ o.inFlight = NoSave /\ o.items = kept /\ o.past = past /\ o.dirty = r.dirty
  BY <1>13, <1>19 DEF IsTab
<1>21. /\ IsDoc(kept, Drafts(k))
       /\ \A x \in DOMAIN kept.node : x \in Ids(nextId) \ dead =>
            x \in DOMAIN items.node /\ kept.node[x].val = items.node[x].val
  BY <1>3, <1>7, <1>13, <1>14, <1>16, <1>17, RenewedIs
<1>22. IsPast(k, past)
  <2>1. CASE m.past = NoPast
    BY <1>13, <1>17, <2>1 DEF IsPast, Renamed
  <2>2. CASE m.past # NoPast
    BY <1>3, <1>13, <2>2, <1>14, <1>16, <1>17, RenewedIs DEF IsPast
  <2> QED BY <2>1, <2>2
<1>23. Founded(Log, k, o)
  <2>1. Knows(Log, o.canonical, o.revision)
    BY <1>4, <1>20
  <2>2. Ids(nextId) \subseteq Ids(k)
    BY <1>3, <1>16, IdsMore
  <2>3. IsDoc(msg.items, Ids(nextId))
    BY <1>5 DEF Plain
  <2>4. IsDoc(o.canonical, Ids(k))
    BY <1>20, <2>2, <2>3, IsDocMore
  <2> QED BY <1>20, <1>21, <1>22, <2>1, <2>4 DEF Founded, Drawn
<1>24. Shows(o)
  <2> SUFFICES ASSUME ~o.dirty PROVE o.items = o.canonical
    BY DEF Shows
  <2>1. ~dirty
    BY <1>12, <1>20
  <2>2. items = msg.items
    BY <1>7, <1>10, <2>1
  <2>3. IsTree(items) /\ dead \cap DOMAIN items.node = {}
    BY <1>5, <1>14, <2>2 DEF Plain
  <2>4. Root \notin dead
    BY Zenon, <1>14, IdAssumption DEF Ids
  <2>5. Renamed(items, dead) = items
    BY <2>3, <2>4, RenamedSame
  <2> QED BY <1>13, <1>17, <1>20, <2>2, <2>5
<1>25. ASSUME NEW x \in Id,
              x \in DOMAIN m.items.node \cap DOMAIN m.inFlight.items.node,
              m.items.node[x].val # m.inFlight.items.node[x].val,
              x \in DOMAIN o.canonical.node \cap DOMAIN o.items.node
       PROVE  o.items.node[x].val = m.items.node[x].val
  <2>1. x \in DOMAIN msg.items.node /\ x \in DOMAIN kept.node /\ x # Undefined
    BY <1>20, <1>25, UndefinedAssumption
  <2>2. x \in Ids(nextId) \ dead
    BY <1>5, IsDocIn, <1>14, <2>1 DEF Plain
  <2>3. x \in DOMAIN items.node /\ kept.node[x].val = items.node[x].val
    BY <1>21, <2>1, <2>2
  <2>4. items.node[x].val = m.items.node[x].val
    BY <1>7, <1>25, <2>1, <2>3 DEF KeepsText
  <2> QED BY <1>20, <2>3, <2>4
<1>26. Answered(m, msg, o)
  <2>1. /\ r.synced = TRUE /\ r.saveRejected = FALSE
        /\ r.saves = m.saves /\ r.revision = msg.revision
    BY <1>4, <1>12
  <2>2. /\ o.synced = TRUE /\ o.saveRejected = FALSE
        /\ o.saves = m.saves /\ o.revision = msg.revision
    BY <1>19, <2>1
  <2>3. dead = (NamesOf(items) \cup NamesOf(m.past)) \cap msg.tombs
    BY <1>8, <1>13 DEF Dead
  <2> QED BY <1>7, <1>13, <1>17, <1>20, <2>2, <2>3 DEF Answered
<1> QED BY <1>2, <1>3, <1>9, <1>16, <1>20, <1>23, <1>24, <1>25, <1>26

LEMMA ReceiveAnswerIInv ==
  ASSUME IInv, NEW t \in Tab, ReceiveAnswer(t)
  PROVE  IInv'
<1>1. Receives(t)
  BY DEF ReceiveAnswer
<1>2. PICK o : /\ Update(t, o) /\ nextId' \in Nat /\ nextId <= nextId'
               /\ IsTab(o) /\ Founded(Log, nextId', o) /\ Shows(o)
  BY AnswerIs
<1> QED BY <1>1, <1>2, UpdatedIInv

-----------------------------------------------------------------------------
(* The room, and what other programs write *)

\* A step that leaves the tabs alone.
LEMMA RoomStepIInv ==
  ASSUME IInv, UNCHANGED <<tab, nextId>>, Grows(nextId, store, store'), WayUp',
         down' = [x \in Tab |-> down'[x]],
         \A x \in Tab : Carries(store'.log, nextId, down'[x])
  PROVE  IInv'
BY GrowsKept, GrowsStill DEF IInv, Tabs, Log, WayDown

\* What the room sends of the store it has read, to those who listen.
LEMMA SendsOn ==
  ASSUME IInv, Grows(nextId, store, store')
  PROVE  /\ Kept(nextId, store')
         /\ \A x \in Tab : Carries(store'.log, nextId, down[x])
         /\ Carries(store'.log, nextId, Unseen(store))
         /\ \A kind, req : Faithful(store'.log, nextId, Sent(kind, req, store'))
BY GrowsKept, GrowsStill, UnseenIsFaithful, SentIsFaithful DEF IInv, WayDown, Log

LEMMA SameWayUp ==
  ASSUME IInv, UNCHANGED <<up, orphans, nextId>>
  PROVE  WayUp'
BY DEF IInv, WayUp

LEMMA BroadcastCarries ==
  ASSUME NEW log, NEW N, NEW messages, Carries(log, N, messages), Broadcast(messages),
         \A x \in Tab : Carries(log, N, down[x])
  PROVE  down' = [x \in Tab |-> down'[x]] /\ \A x \in Tab : Carries(log, N, down'[x])
BY CarriesBoth DEF Broadcast

LEMMA AcceptIInv ==
  ASSUME IInv, NEW save, IsSave(nextId, save), Accept(save), UNCHANGED <<tab, nextId>>,
         WayUp'
  PROVE  IInv'
<1>1. Grows(nextId, store, store')
  BY SaveGrows DEF Accept
<1>2. PICK log, answer, messages :
        /\ log = store'.log /\ answer = Sent("DocumentChanged", save.req, store')
        /\ messages = Unseen(store) \o <<answer>>
  OBVIOUS
<1>3. /\ Carries(log, nextId, Unseen(store)) /\ Faithful(log, nextId, answer)
      /\ \A x \in Tab : Carries(log, nextId, down[x])
  BY <1>1, <1>2, SendsOn
<1>4. Carries(log, nextId, messages)
  BY <1>2, <1>3, CarriesOne, CarriesBoth
<1>5. Broadcast(messages)
  BY <1>2 DEF Accept
<1>6. down' = [x \in Tab |-> down'[x]] /\ \A x \in Tab : Carries(log, nextId, down'[x])
  BY <1>3, <1>4, <1>5, BroadcastCarries
<1> QED BY <1>1, <1>2, <1>6, RoomStepIInv

LEMMA RefuseIInv ==
  ASSUME IInv, NEW save, IsSave(nextId, save), NEW sender, Refuse(save, sender),
         UNCHANGED <<tab, nextId>>, WayUp'
  PROVE  IInv'
<1>1. Grows(nextId, store, store')
  <2>1. UNCHANGED store \/ ApplySave(save)
    BY DEF Refuse, Fails
  <2>2. CASE UNCHANGED store
    BY <2>2 DEF Grows
  <2>3. CASE ApplySave(save)
    BY <2>3, SaveGrows
  <2> QED BY <2>1, <2>2, <2>3
<1>2. PICK log : log = store'.log
  OBVIOUS
<1>3. Carries(log, nextId, Unseen(store)) /\ \A x \in Tab : Carries(log, nextId, down[x])
  BY <1>1, <1>2, SendsOn
<1>4. Carries(log, nextId, <<Failed(save.req)>>) /\ Carries(log, nextId, <<>>)
  BY CarriesOne, FailedIsFaithful, CarriesNothing
<1>5. PICK first, second :
        /\ first = [x \in Tab |-> IF x \in listening /\ shown' = Revision
                                  THEN down[x] \o Unseen(store) ELSE down[x]]
        /\ second = [x \in Tab |-> IF x \in sender THEN <<Failed(save.req)>> ELSE <<>>]
  OBVIOUS
<1>6. \A x \in Tab : Carries(log, nextId, down[x] \o Unseen(store))
  BY <1>3, CarriesBoth
<1>7. \A x \in Tab : Carries(log, nextId, first[x]) /\ Carries(log, nextId, second[x])
  BY <1>3, <1>4, <1>5, <1>6
<1>8. \A x \in Tab : Carries(log, nextId, first[x] \o second[x])
  BY <1>7, CarriesBoth
<1>9. down' = [x \in Tab |-> first[x] \o second[x]]
  <2>1. down' = [x \in Tab |->
          (IF x \in listening /\ shown' = Revision THEN down[x] \o Unseen(store) ELSE down[x])
          \o (IF x \in sender THEN <<Failed(save.req)>> ELSE <<>>)]
    BY Zenon DEF Refuse
  <2> QED BY <1>5, <2>1
<1>10. down' = [x \in Tab |-> down'[x]] /\ \A x \in Tab : Carries(log, nextId, down'[x])
  BY <1>8, <1>9
<1> QED BY <1>1, <1>2, <1>10, RoomStepIInv

LEMMA ConnectIInv ==
  ASSUME IInv, NEW t \in Tab, Connect(t)
  PROVE  IInv'
<1>1. /\ Grows(nextId, store, store') /\ store' = store
      /\ UNCHANGED <<tab, nextId, up, orphans>>
  BY DEF Connect, Grows
<1>2. PICK log, first : log = store'.log /\ first = Sent("Snapshot", NoRequest, store)
  OBVIOUS
<1>3. /\ Carries(log, nextId, Unseen(store)) /\ \A x \in Tab : Carries(log, nextId, down[x])
      /\ Faithful(log, nextId, first)
  BY <1>1, <1>2, SendsOn
<1>4. Carries(log, nextId, <<first>>)
  BY <1>3, CarriesOne
<1>5. \A x \in Tab : Carries(log, nextId, down[x] \o Unseen(store))
  BY <1>3, CarriesBoth
<1>6. down' = [u \in Tab |->
        CASE u = t -> <<first>>
          [] u \in listening -> down[u] \o Unseen(store)
          [] OTHER -> down[u]]
  BY <1>2 DEF Connect
<1>7. \A x \in Tab : down'[x] \in {<<first>>, down[x] \o Unseen(store), down[x]}
  BY <1>6
<1>8. down' = [x \in Tab |-> down'[x]] /\ \A x \in Tab : Carries(log, nextId, down'[x])
  BY <1>3, <1>4, <1>5, <1>6, <1>7
<1> QED BY <1>1, <1>2, <1>8, SameWayUp, RoomStepIInv

LEMMA TickIInv ==
  ASSUME IInv, Tick \/ TickFails
  PROVE  IInv'
<1>1. /\ Grows(nextId, store, store') /\ store' = store
      /\ UNCHANGED <<tab, nextId, up, orphans>>
  BY DEF Tick, TickFails, Grows
<1>2. PICK log : log = store'.log
  OBVIOUS
<1>3. Carries(log, nextId, Unseen(store)) /\ \A x \in Tab : Carries(log, nextId, down[x])
  BY <1>1, <1>2, SendsOn
<1>4. Carries(log, nextId, <<Failed(NoRequest)>>)
  BY CarriesOne, FailedIsFaithful
<1>5. Broadcast(Unseen(store)) \/ Broadcast(<<Failed(NoRequest)>>)
  BY DEF Tick, TickFails
<1>6. down' = [x \in Tab |-> down'[x]] /\ \A x \in Tab : Carries(log, nextId, down'[x])
  BY <1>3, <1>4, <1>5, BroadcastCarries
<1> QED BY <1>1, <1>2, <1>6, SameWayUp, RoomStepIInv

LEMMA OtherWritesIInv ==
  ASSUME IInv, OtherWrites
  PROVE  IInv'
<1>1. /\ Grows(nextId, store, store') /\ UNCHANGED <<tab, down, up, orphans, nextId>>
  BY OtherNames, ApplyGrows DEF OtherWrites, IInv
<1>2. down' = [x \in Tab |-> down'[x]] /\ \A x \in Tab : Carries(store'.log, nextId, down'[x])
  BY <1>1, SendsOn DEF IInv, WayDown
<1>3. WayUp'
  BY <1>1, SameWayUp
<1> QED BY <1>1, <1>2, <1>3, RoomStepIInv

-----------------------------------------------------------------------------
(* Every step *)

LEMMA SaveDocumentIInv ==
  ASSUME IInv, NEW t \in Tab, SaveDocument(t)
  PROVE  IInv'
<1>1. IsSave(nextId, Head(up[t])) /\ WayUp' /\ UNCHANGED <<tab, nextId>>
  BY PostsOn DEF SaveDocument, IInv, WayUp
<1> QED BY Zenon, <1>1, AcceptIInv, RefuseIInv DEF SaveDocument

LEMMA SaveOrphanIInv ==
  ASSUME IInv, SaveOrphan
  PROVE  IInv'
BY AcceptIInv, RefuseIInv DEF SaveOrphan, IInv, WayUp

\* The first id that is given out is one nobody knows.
LEMMA FirstIsOutline ==
  /\ \E n \in Id : Unknown(n)
  /\ \A n \in Id : Unknown(n) => Fresh(n) /\ IsOutline(First, Ids(n))
<1>1. ASSUME NEW n \in Id, Unknown(n)
      PROVE  Fresh(n) /\ IsOutline(First, Ids(n))
  BY IdAssumption, <1>1, FreshAssumption, FirstAssumption DEF Unknown, Ids, Known,
     Fresh, IsOutline
<1> QED BY <1>1, FreshAssumption

LEMMA EmptyIsDoc == \A K : IsDoc(EmptyItems, K)
BY DEF EmptyItems, ToSet, IsDoc

LEMMA InitIInv == Init => IInv
<1> SUFFICES ASSUME Init PROVE IInv
  OBVIOUS
<1>1. PICK log, r : log = store.log /\ log = <<r>>
  BY DEF Init, FirstLog
<1>2. PICK S : S = {r}
  BY Zenon
<1>3. log \in Seq(S) /\ log # <<>> /\ Len(log) = 1
  BY <1>1, <1>2
<1>4. SubSeq(log, 2, Len(log)) = <<>>
  BY <1>3, SubSeqEmpty
<1>5. store.snapshot.revision = 1 /\ store.snapshot.outline = First
  BY DEF Init
<1>6. Replaying!Folded(0, First, <<>>) = First
  BY Replaying!FoldEmpty, NatSetInduction DEF Replaying!Induction
<1>7. Fresh(nextId) /\ IsOutline(First, Ids(nextId))
  BY FirstIsOutline DEF Init
<1>8. Kept(nextId, store)
  BY Zenon, <1>1, <1>3, <1>4, <1>5, <1>6, <1>7 DEF Kept
<1>9. /\ IsTab(NewTab) /\ NewTab.synced = FALSE /\ NewTab.inFlight = NoSave
      /\ NewTab.items = EmptyItems /\ NewTab.canonical = EmptyItems
      /\ NewTab.past = NoPast
  BY DEF IsTab, NewTab
<1>10. Drawn(nextId, NewTab)
  BY <1>9, EmptyIsDoc DEF Drawn, IsPast
<1>11. Founded(Log, nextId, NewTab) /\ Shows(NewTab)
  BY <1>9, <1>10 DEF Founded, Shows
<1>12. Tabs
  BY Zenon, <1>9, <1>11 DEF Init, Tabs
<1>13. WayDown /\ WayUp
  BY CarriesNothing, PostsNothing DEF Init, WayDown, WayUp
<1> QED BY <1>7, <1>8, <1>12, <1>13 DEF IInv

LEMMA NextIInv == IInv /\ [Next]_vars => IInv'
<1> SUFFICES ASSUME IInv, [Next]_vars PROVE IInv'
  OBVIOUS
<1>1. CASE UNCHANGED vars
  BY <1>1 DEF vars, IInv, Tabs, WayDown, WayUp, Log
<1>2. ASSUME NEW t \in Tab, Edit(t) \/ Undo(t) \/ RetriedEdit(t) \/ DiscardedEdit(t)
      PROVE  IInv'
  BY <1>2, EditIInv, UndoIInv, RetriedEditIInv, DiscardedEditIInv
<1>3. ASSUME NEW t \in Tab, Receive(t)
      PROVE  IInv'
  BY <1>3, ReceiveErrorIInv, ReceiveWaitingIInv, ReceiveAnswerIInv,
     ReceiveWithEditsIInv, ReceiveDocumentIInv DEF Receive
<1>4. ASSUME NEW t \in Tab,
             ReceiveThread(t) \/ OpenedSocket(t) \/ ClosedSocket(t) \/ SendFailed(t)
      PROVE  IInv'
  BY <1>4, FlagIInv, ClosedSocketIInv
<1>5. ASSUME NEW t \in Tab, Connect(t) \/ SaveDocument(t)
      PROVE  IInv'
  BY <1>5, ConnectIInv, SaveDocumentIInv
<1>6. CASE SaveOrphan \/ Tick \/ TickFails \/ OtherWrites
  BY <1>6, SaveOrphanIInv, TickIInv, OtherWritesIInv
<1> QED BY <1>1, <1>2, <1>3, <1>4, <1>5, <1>6 DEF Next

\* A save is a difference from the document as it was at its base revision,
\* through lost answers, other programs' writes and saves sent again: that is
\* what the store's check of a batch relies on (update.ts, afterUpdate).
THEOREM SavesNameTheirBaseHolds == Spec => []SavesNameTheirBase
<1>1. IInv => SavesNameTheirBase
  BY AtIs DEF SavesNameTheirBase, IInv, Tabs, Waiting, Founded, Knows
<1> QED BY <1>1, InitIInv, NextIInv, PTL DEF Spec

\* A tab with nothing unsaved and nothing on its way shows the document the room
\* sent last: an answer that leaves nothing to replay neither adds nor renames a
\* bullet (update.ts, acceptServerDocument; history.ts, renewDeletedIds).
THEOREM SavedIsShownHolds == Spec => []SavedIsShown
<1>1. IInv => SavedIsShown
  BY DEF IInv, Tabs, Shows, SavedIsShown, Waiting
<1> QED BY <1>1, InitIInv, NextIInv, PTL DEF Spec

-----------------------------------------------------------------------------
(* What the user typed *)

\* An update of a tab ends with the tree it was given.
LEMMA UpdateItems ==
  ASSUME IInv, NEW u \in Tab, NEW m, IsTab(m), Update(u, m)
  PROVE  \E n : /\ n.items = m.items /\ n.canonical = m.canonical
                /\ tab' = [tab EXCEPT ![u] = n]
<1>1. CASE MaySave(m)
  BY Zenon, <1>1 DEF Saving, IsTab, Update, Post
<1>2. CASE ~MaySave(m)
  BY Zenon, <1>2 DEF Update, Post
<1> QED BY <1>1, <1>2

LEMMA ReceiveKeeps ==
  ASSUME IInv, NEW t \in Tab, Receive(t), NEW n \in Id, Typed(t, n),
         n \in DOMAIN tab'[t].canonical.node, n \in DOMAIN tab'[t].items.node
  PROVE  tab'[t].items.node[n].val = tab[t].items.node[n].val
<1>1. PICK m : m = tab[t]
  OBVIOUS
<1>2. IsTab(m) /\ tab = [x \in Tab |-> tab[x]] /\ Founded(Log, nextId, m)
  BY <1>1 DEF IInv, Tabs
<1>3. CASE ReceiveError(t)
  <2>1. PICK rejected : Update(t, [m EXCEPT !.error = TRUE, !.saveRejected = rejected])
    BY Zenon, <1>1, <1>3 DEF ReceiveError
  <2>2. PICK o : o = [m EXCEPT !.error = TRUE, !.saveRejected = rejected]
    OBVIOUS
  <2>3. o = [items |-> m.items, past |-> m.past, dirty |-> m.dirty,
             canonical |-> m.canonical, revision |-> m.revision,
             inFlight |-> m.inFlight, saves |-> m.saves, error |-> TRUE,
             saveRejected |-> rejected, synced |-> m.synced, online |-> m.online]
    BY Zenon, <1>2, <2>2 DEF IsTab
  <2>4. IsTab(o) /\ o.items = m.items
    BY <2>3 DEF IsTab
  <2>5. tab'[t].items = o.items
    <3>1. Update(t, o)
      BY <2>1, <2>2
    <3>2. PICK x : x.items = o.items /\ tab' = [tab EXCEPT ![t] = x]
      BY <2>4, <3>1, UpdateItems
    <3> QED BY <1>2, <3>2
  <2> QED BY <1>1, <2>4, <2>5
<1>4. CASE ReceiveSnapshotWaiting(t) \/ ReceiveOtherChange(t) \/ ReceiveWithEdits(t)
  <2>1. Next0(t).kind # "Error" /\ Receives(t)
    BY <1>4 DEF ReceiveSnapshotWaiting, ReceiveOtherChange, ReceiveWithEdits
  <2>2. PICK msg, o : msg = Next0(t) /\ o = TakenOver(m, msg)
    OBVIOUS
  <2>3. Faithful(Log, nextId, msg) /\ msg.kind # "Error"
    BY <2>1, <2>2, ReceivesFacts
  <2>4. IsTab(o) /\ o.items = m.items
    BY <1>2, <2>2, <2>3, TakenOverFounded
  <2>5. PICK save, k : Saving(t, o, m) = [o EXCEPT !.inFlight = save, !.saves = k]
    BY Zenon DEF Saving
  <2>6. Saving(t, o, m) =
          [items |-> o.items, past |-> o.past, dirty |-> o.dirty,
           canonical |-> o.canonical, revision |-> o.revision,
           inFlight |-> save, saves |-> k, error |-> o.error,
           saveRejected |-> o.saveRejected, synced |-> o.synced, online |-> o.online]
    BY Zenon, <2>4, <2>5 DEF IsTab
  <2>7. Saving(t, o, m).items = o.items
    BY <2>6
  <2>8. \/ tab' = [tab EXCEPT ![t] = o]
        \/ tab' = [tab EXCEPT ![t] = Saving(t, o, m)]
    BY Zenon, <1>1, <1>4, <2>2
       DEF ReceiveSnapshotWaiting, ReceiveOtherChange, ReceiveWithEdits, Post
  <2>9. tab'[t].items = m.items
    BY <1>2, <2>4, <2>7, <2>8
  <2> QED BY <1>1, <2>9
<1>5. CASE ReceiveAnswer(t)
  <2>1. PICK o : /\ Update(t, o) /\ IsTab(o)
                 /\ \A x \in Id :
                     /\ x \in DOMAIN m.items.node \cap DOMAIN m.inFlight.items.node
                     /\ m.items.node[x].val # m.inFlight.items.node[x].val
                     /\ x \in DOMAIN o.canonical.node \cap DOMAIN o.items.node
                     => o.items.node[x].val = m.items.node[x].val
    BY <1>1, <1>5, AnswerIs
  <2>2. tab'[t].items = o.items /\ tab'[t].canonical = o.canonical
    BY <1>2, <2>1, UpdateItems
  <2>3. /\ n \in DOMAIN m.items.node \cap DOMAIN m.inFlight.items.node
        /\ m.items.node[n].val # m.inFlight.items.node[n].val
    BY <1>1, <1>5 DEF Typed, ReceiveAnswer, Waiting
  <2> QED BY <1>1, <2>1, <2>2, <2>3
<1>6. CASE ReceiveDocument(t)
  BY <1>6 DEF ReceiveDocument, Typed, Waiting
<1> QED BY <1>3, <1>4, <1>5, <1>6 DEF Receive

\* What a tab receives, it receives itself, or its connection is closed.
LEMMA OnlyReceives ==
  ASSUME IInv, [Next]_vars, NEW t \in Tab, down'[t] # down[t], tab'[t] # tab[t]
  PROVE  Receive(t) \/ tab'[t].items = tab[t].items
<1>1. /\ tab = [x \in Tab |-> tab[x]] /\ down = [x \in Tab |-> down[x]]
      /\ \A x \in Tab : IsTab(tab[x])
  BY DEF IInv, Tabs, WayDown
<1>2. ASSUME NEW u \in Tab, Receive(u)
      PROVE  u = t
  <2>1. down' = [down EXCEPT ![u] = Tail(down[u])]
    BY <1>2 DEF Receive, ReceiveError, ReceiveSnapshotWaiting, ReceiveOtherChange,
                ReceiveAnswer, ReceiveWithEdits, ReceiveDocument, Receives
  <2> QED BY <1>1, <2>1
<1>3. ASSUME NEW u \in Tab, ClosedSocket(u)
      PROVE  tab'[t].items = tab[t].items
  <2>1. PICK m, n : /\ m = tab[u] /\ n = [m EXCEPT !.online = FALSE]
                    /\ tab' = [tab EXCEPT ![u] = n]
    BY Zenon, <1>3 DEF ClosedSocket
  <2>2. n = [items |-> m.items, past |-> m.past, dirty |-> m.dirty,
             canonical |-> m.canonical, revision |-> m.revision,
             inFlight |-> m.inFlight, saves |-> m.saves, error |-> m.error,
             saveRejected |-> m.saveRejected, synced |-> m.synced, online |-> FALSE]
    <3>1. IsTab(m)
      BY <1>1, <2>1
    <3> QED BY Zenon, <2>1, <3>1 DEF IsTab
  <2>3. n.items = m.items
    BY <2>2
  <2> QED BY <1>1, <2>1, <2>3
<1>4. ASSUME NEW u \in Tab,
             \/ Edit(u) \/ Undo(u) \/ RetriedEdit(u) \/ DiscardedEdit(u)
             \/ ReceiveThread(u) \/ OpenedSocket(u) \/ SendFailed(u)
      PROVE  UNCHANGED down
  BY <1>4 DEF Edit, Undo, RetriedEdit, DiscardedEdit, ReceiveThread, OpenedSocket,
              SendFailed
<1>5. ASSUME NEW u \in Tab, Connect(u) \/ SaveDocument(u)
      PROVE  UNCHANGED tab
  BY <1>5 DEF Connect, SaveDocument
<1>6. CASE SaveOrphan \/ Tick \/ TickFails \/ OtherWrites
  BY <1>6 DEF SaveOrphan, Tick, TickFails, OtherWrites
<1>7. CASE UNCHANGED vars
  BY <1>7 DEF vars
<1> QED BY <1>2, <1>3, <1>4, <1>5, <1>6, <1>7 DEF Next

\* A message never takes back what the user typed: a text that is not saved is
\* updated by one of the operations that diffDocuments finds, and their replay
\* on the server's document writes it again (update.ts, acceptServerDocument).
THEOREM KeystrokesKeptHolds == Spec => KeystrokesKept
<1>1. IInv /\ [Next]_vars => KeepsTyped
  BY OnlyReceives, ReceiveKeeps DEF KeepsTyped
<1> QED BY <1>1, InitIInv, NextIInv, PTL DEF Spec, KeystrokesKept

-----------------------------------------------------------------------------
(* From here on: a save is refused only because of what others committed,  *)
(* first what a store without interference does with one (DiffAccepted),   *)
(* then whose commits there can be between a save and its base (OInv).     *)

-----------------------------------------------------------------------------
(* Forests *)

\* What the walk of descendantIds finds: the node, only nodes besides it, and
\* the children of each.
LEMMA DescendantsAre ==
  ASSUME NEW f, NEW id
  PROVE  /\ id \in DescendantIds(f, id)
         /\ DescendantIds(f, id) \subseteq DOMAIN f \cup {id}
         /\ \A n \in DOMAIN f :
              f[n].parent \in DescendantIds(f, id) => n \in DescendantIds(f, id)
<1>1. id \in DescendantIds(f, id) /\ DescendantIds(f, id) \subseteq DOMAIN f \cup {id}
  BY DEF DescendantIds
<1>2. ASSUME NEW n \in DOMAIN f, f[n].parent \in DescendantIds(f, id)
      PROVE  n \in DescendantIds(f, id)
  BY <1>2 DEF DescendantIds, ClosedUnderChildren
<1> QED BY <1>1, <1>2

\* A node is put, with all below it, under a node that is not below it:
PutUnder(h, f, id) ==
  /\ DOMAIN h = DOMAIN f \cup {id}
  /\ \A n \in DOMAIN f \ {id} : h[n].parent = f[n].parent
  /\ h[id].parent \in DOMAIN f \cup {Root}
  /\ h[id].parent \notin DescendantIds(f, id)

\* a forest stays one.
LEMMA ForestPut ==
  ASSUME NEW f, Forest(f), Root \notin DOMAIN f, NEW id, id # Root,
         NEW h, PutUnder(h, f, id)
  PROVE  Forest(h)
<1> USE DEF PutUnder
<1>1. PICK D, U : D = DOMAIN f /\ U = DescendantIds(f, id)
  OBVIOUS
<1>2. /\ \A n \in D : f[n].parent \in D \cup {Root}
      /\ \A S \in SUBSET D : S # {} => \E n \in S : f[n].parent \notin S
  BY <1>1 DEF Forest, ParentsExist, Acyclic
<1>3. id \in U /\ U \subseteq D \cup {id} /\ \A n \in D : f[n].parent \in U => n \in U
  BY <1>1, DescendantsAre
<1>4. ParentsExist(h)
  BY <1>1, <1>2 DEF ParentsExist
<1>5. ASSUME NEW S \in SUBSET (D \cup {id}), S # {}, \A n \in S : h[n].parent \in S
      PROVE  FALSE
  <2>1. PICK T : T = S \ U
    OBVIOUS
  <2>2. T \in SUBSET D /\ \A n \in T : n # id /\ h[n].parent = f[n].parent
    BY <1>1, <1>3, <2>1
  <2>3. \A n \in T : f[n].parent \in T
    BY <1>3, <1>5, <2>1, <2>2
  <2>4. T = {}
    BY <1>2, <2>2, <2>3
  <2>5. id \notin S
    BY <1>1, <1>5, <2>1, <2>4
  <2>6. S \in SUBSET D /\ \A n \in S : h[n].parent = f[n].parent
    BY <1>1, <2>5
  <2> QED BY <1>2, <1>5, <2>6
<1>6. Acyclic(h)
  BY <1>1, <1>5 DEF Acyclic
<1> QED BY <1>4, <1>6 DEF Forest

\* A forest without a node and all below it.
LEMMA ForestPruned ==
  ASSUME NEW f, Forest(f), NEW id, NEW h, DOMAIN h = DOMAIN f \ DescendantIds(f, id),
         \A n \in DOMAIN h : h[n].parent = f[n].parent
  PROVE  Forest(h)
BY DescendantsAre DEF Forest, ParentsExist, Acyclic

-----------------------------------------------------------------------------
(* What the store holds *)

\* An array of a forest, none of whose nodes was changed later.
Firm(w, rev) ==
  /\ IsArray(w) /\ Forest(w.node)
  /\ \A n \in DOMAIN w.node : w.node[n].changedAt <= rev

\* What an accepted operation makes of it.
LEMMA EffectFirm ==
  ASSUME NEW w, NEW rev \in Nat, Firm(w, rev), NEW op, Said(op), NEW initial, NEW base,
         Accepts(op, w, initial, base)
  PROVE  /\ Firm(Effect(op, w, rev), rev)
         /\ DOMAIN w.tombs \subseteq DOMAIN Effect(op, w, rev).tombs
<1>1. PICK node, tombs, D : node = w.node /\ tombs = w.tombs /\ D = DOMAIN node
  OBVIOUS
<1>2. /\ w = [node |-> node, order |-> w.order, tombs |-> tombs]
      /\ D \subseteq Id /\ Holds(node, D)
  BY <1>1 DEF Firm, IsArray, IsOutline
<1>3. Forest(node) /\ Root \notin D /\ \A n \in D : node[n].changedAt <= rev
  BY <1>1, <1>2, RootAssumption DEF Firm
<1>4. PICK z, id : z = Effect(op, w, rev) /\ id = op.id
  OBVIOUS
<1>5. IsArray(z)
  BY <1>4, EffectIsArray DEF Firm
<1>6. id \in Id /\ id # Root
  BY <1>4, RootAssumption DEF Said, IsOp
<1>7. rev <= rev
  OBVIOUS
<1>8. CASE op.type \in {"insert", "move"}
  <2>1. PICK v, x, y : /\ v.parent = op.parent /\ v.changedAt = rev
                       /\ x = With(node, id, v)
                       /\ z.node = x /\ z.tombs = tombs
    <3>1. PICK val, v, x : /\ val = IF op.type = "insert" THEN op.val ELSE w.node[op.id].val
                           /\ v = [parent |-> op.parent, val |-> val, changedAt |-> rev]
                           /\ x = With(node, id, v)
      BY Zenon
    <3>2. z.node = x
      BY Zenon, <1>1, <1>4, <1>8, <3>1, EffectPlaces DEF Firm
    <3>3. z.tombs = tombs
      BY <1>4, <1>8, <1>2 DEF Effect, Inserted, Moved
    <3> QED BY <3>1, <3>2, <3>3
  <2>2. /\ DOMAIN x = D \cup {id} /\ x[id] = v
        /\ \A n \in D \ {id} : x[n] = node[n]
    BY <1>1, <2>1 DEF With
  <2>3. op.parent \in D \cup {Root} /\ op.parent \notin DescendantIds(node, id)
    <3>1. CASE op.type = "insert"
      <4>1. id \notin D /\ op.parent \in D \cup {Root}
        BY <1>1, <1>4, <3>1 DEF Accepts, CanPlace
      <4>2. PICK C : C = {id}
        BY Zenon
      <4>3. \A n \in D : node[n].parent \notin C
        BY <1>1, <1>3, <1>6, <4>1, <4>2 DEF Forest, ParentsExist
      <4>4. DescendantIds(node, id) \subseteq C
        BY <1>1, <4>2, <4>3 DEF DescendantIds, ClosedUnderChildren
      <4> QED BY <1>6, <4>1, <4>2, <4>4
    <3>2. CASE op.type = "move"
      <4>1. CanPlace(Without(node, {id}), id, op.parent, op.after)
            /\ op.parent \notin DescendantIds(node, id)
        BY <1>1, <1>4, <3>2 DEF Accepts
      <4>2. op.parent # Root => op.parent \in DOMAIN Without(node, {id})
        BY <4>1 DEF CanPlace
      <4> QED BY <1>1, <4>1, <4>2 DEF Without
    <3> QED BY <1>8, <3>1, <3>2
  <2>4. Forest(x)
    <3>1. PutUnder(x, node, id)
      BY <1>1, <2>1, <2>2, <2>3 DEF PutUnder
    <3> QED BY <1>1, <1>3, <1>6, <3>1, ForestPut
  <2>5. \A n \in DOMAIN x : x[n].changedAt <= rev
    BY <1>3, <1>7, <2>1, <2>2
  <2> QED BY <1>1, <1>4, <1>5, <2>1, <2>4, <2>5 DEF Firm
<1>9. CASE op.type = "update"
  <2>1. id \in D
    BY <1>1, <1>4, <1>9 DEF Accepts
  <2>2. PICK v, x : /\ v = [node[id] EXCEPT !.val = op.val, !.changedAt = rev]
                    /\ x = With(node, id, v)
    OBVIOUS
  <2>3. z = [w EXCEPT !.node = x]
    BY <1>1, <1>4, <1>9, <2>2 DEF Effect, Updated
  <2>4. z.node = x /\ z.tombs = tombs
    BY <1>2, <2>3
  <2>5. PICK x1, x2, x3 : node[id] = [parent |-> x1, val |-> x2, changedAt |-> x3]
    BY <1>2, <2>1 DEF Holds
  <2>6. v.parent = node[id].parent /\ v.changedAt = rev
    BY <2>2, <2>5
  <2>7. DOMAIN x = D /\ x[id] = v /\ \A n \in D \ {id} : x[n] = node[n]
    BY <1>1, <2>1, <2>2 DEF With
  <2>8. \A n \in D : x[n].parent = node[n].parent
    BY <2>6, <2>7
  <2>9. Forest(x)
    BY <1>1, <1>3, <2>7, <2>8 DEF Forest, ParentsExist, Acyclic
  <2>10. \A n \in D : x[n].changedAt <= rev
    BY <1>3, <1>7, <2>6, <2>7
  <2> QED BY <1>1, <1>4, <1>5, <2>4, <2>7, <2>9, <2>10 DEF Firm
<1>10. CASE op.type = "delete"
  <2>1. PICK ids, x, y, e :
          /\ ids = DescendantIds(node, id) /\ x = Without(node, ids)
          /\ e = [n \in DOMAIN tombs \cup ids |-> IF n \in ids THEN rev ELSE tombs[n]]
          /\ z = [node |-> x, order |-> y, tombs |-> e]
    BY Zenon, <1>1, <1>4, <1>10 DEF Effect, Deleted
  <2>2. z.node = x /\ z.tombs = e
    BY <2>1
  <2>3. DOMAIN x = D \ ids /\ \A n \in D \ ids : x[n] = node[n]
    BY <1>1, <2>1 DEF Without
  <2>4. Forest(x)
    <3>1. DOMAIN x = DOMAIN node \ DescendantIds(node, id)
      BY <1>1, <2>1, <2>3
    <3>2. \A n \in DOMAIN x : x[n].parent = node[n].parent
      BY <2>3
    <3> QED BY <1>3, <3>1, <3>2, ForestPruned
  <2>5. DOMAIN tombs \subseteq DOMAIN e
    BY <2>1
  <2> QED BY <1>1, <1>3, <1>4, <1>5, <2>2, <2>3, <2>4, <2>5 DEF Firm
<1> QED BY <1>8, <1>9, <1>10 DEF Said, IsOp

\* All operations of a batch have places among the ids.
SaysAll(ops) == \E S : ops \in Seq(S) /\ \A op \in S : Said(op)

\* And what a batch makes of it, taken or refused.
LEMMA BatchFirm ==
  ASSUME NEW w, NEW rev \in Nat, Firm(w, rev), NEW ops, SaysAll(ops), NEW base
  PROVE  LET z == History!ApplyBatch(w, ops, base, rev).w
         IN  Firm(z, rev) /\ DOMAIN w.tombs \subseteq DOMAIN z.tombs
<1>1. PICK b, r : /\ b = [outline |-> w, base |-> base, rev |-> rev]
                  /\ r = [ok |-> TRUE, w |-> w]
  BY Zenon
<1>2. History!ApplyBatch(w, ops, base, rev) = Applying!Folded(b, r, ops)
  BY <1>1, ApplyBatchAsFold
<1>3. PICK S : ops \in Seq(S) /\ \A op \in S : Said(op)
  BY DEF SaysAll
<1>4. PICK m : m = Len(ops) /\ m \in Nat /\ \A i \in 1..m : ops[i] \in S
  BY <1>3, LenProperties
<1>5. PICK g : Applying!Goes(g, b, r, ops, m) /\ Applying!Folded(b, r, ops) = g[m]
  BY <1>3, <1>4, Applying!FoldValues, NatSetInduction DEF Applying!Induction
<1> DEFINE Fine(z) == Firm(z, rev) /\ DOMAIN w.tombs \subseteq DOMAIN z.tombs
<1> HIDE DEF Fine
<1>6. PICK U : U = {k \in Nat : k <= m => Fine(g[k].w)}
  BY Zenon
<1>7. Fine(w)
  BY DEF Fine
<1>8. 0 \in U
  <2>1. g[0] = r /\ r.w = w
    BY <1>1, <1>5 DEF Applying!Goes
  <2> QED BY <1>6, <1>7, <2>1
<1>9. ASSUME NEW k \in Nat, k \in U PROVE k + 1 \in U
  <2>1. CASE k + 1 <= m
    <3>1. k + 1 \in 1..m /\ (k + 1) - 1 = k
      BY <1>4, <2>1
    <3>2. PICK x, y, op : x = g[k] /\ y = g[k+1] /\ op = ops[k+1]
      OBVIOUS
    <3>3. g[k+1] = ApplyOn(b, g[(k + 1) - 1], ops[k+1])
      BY <1>5, <3>1 DEF Applying!Goes
    <3>4. y = ApplyOn(b, x, op)
      BY <3>1, <3>2, <3>3
    <3>5. PICK v : v = x.w
      OBVIOUS
    <3>6. Fine(v) /\ Said(op)
      BY <1>3, <1>4, <1>6, <1>9, <2>1, <3>1, <3>2, <3>5
    <3>7. CASE x.ok /\ History!Accepts(op, v, b.outline.node, b.base)
      <4>1. Accepts(op, v, b.outline.node, b.base)
        BY <3>7, SameAccepts
      <4>2. y.w = Effect(op, v, rev)
        BY <1>1, <3>4, <3>5, <3>7, SameEffect DEF ApplyOn
      <4>3. Fine(Effect(op, v, rev))
        BY <3>6, <4>1, EffectFirm DEF Fine
      <4> QED BY <1>6, <3>2, <4>2, <4>3
    <3>8. CASE ~(x.ok /\ History!Accepts(op, v, b.outline.node, b.base))
      <4>1. y.w = w
        BY <1>1, <3>4, <3>5, <3>8 DEF ApplyOn
      <4> QED BY <1>6, <1>7, <3>2, <4>1
    <3> QED BY <3>7, <3>8
  <2> QED BY <1>6, <2>1
<1>10. m \in U
  BY <1>4, <1>8, <1>9, NatSetInduction
<1> QED BY <1>2, <1>4, <1>5, <1>6, <1>10 DEF Fine

\* What diff finds has places among the ids,
LEMMA DiffSays ==
  ASSUME NEW doc, IsDoc(doc, Id), Distinct(doc.order), NEW items, IsSent(items)
  PROVE  SaysAll(Diff(doc, items))
<1>1. PICK ops : ops = Diff(doc, items)
  OBVIOUS
<1>2. PICK v : Leads(doc, ops, v, items)
  BY <1>1, DiffLeads
<1>3. PICK S : ops \in Seq(S)
  BY <1>2 DEF Leads
<1>4. DOMAIN ops = 1..Len(ops) /\ \A j \in 1..Len(ops) : Said(ops[j])
  <2>1. DOMAIN ops = 1..Len(ops)
    BY <1>2, LeadsReplay
  <2>2. ASSUME NEW j \in 1..Len(ops) PROVE Said(ops[j])
    BY Zenon, <1>2, LeadsReplay DEF Good, Fits
  <2> QED BY <2>1, <2>2
<1>5. ops \in Seq(ToSet(ops)) /\ \A op \in ToSet(ops) : Said(op)
  <2>1. ops \in Seq(ToSet(ops))
    BY <1>3, SeqOfItsElements
  <2> QED BY <1>4, <2>1 DEF ToSet
<1> QED BY <1>1, <1>5 DEF SaysAll

\* and the store accepts all of it, if the document is what it holds and no
\* bullet of the tree was deleted.
LEMMA DiffAccepted ==
  ASSUME NEW w, NEW rev \in Nat, Firm(w, rev), NEW items, IsSent(items),
         DOMAIN w.tombs \cap ToSet(items.order) = {}, NEW next \in Nat
  PROVE  History!ApplyBatch(w, Diff(ToItems(w), items), rev, next).ok
<1>1. PICK doc, ops : doc = ToItems(w) /\ ops = Diff(doc, items)
  OBVIOUS
<1>2. Neat(doc, Id) /\ Alike(doc, w)
  BY <1>1, ForestTree DEF Firm, IsArray
<1>3. IsDoc(doc, Id) /\ Distinct(doc.order)
  <2>1. IsDoc(doc, Id)
    BY <1>1, OutlineTree DEF Firm, IsArray
  <2> QED BY <1>2, <2>1 DEF Neat
<1>4. PICK v : Leads(doc, ops, v, items)
  BY <1>1, <1>3, DiffLeads
<1>5. PICK S : ops \in Seq(S)
  BY <1>4 DEF Leads
<1>6. PICK m \in Nat : m = Len(ops) /\ DOMAIN ops = 1..m
  BY <1>5, LenProperties
<1>7. /\ Replay(doc, SubSeq(ops, 1, 0)) = doc
      /\ \A j \in 1..m : LET d == Replay(doc, SubSeq(ops, 1, j - 1))
                         IN  /\ Good(ops[j], d, items)
                             /\ Replay(doc, SubSeq(ops, 1, j)) = ReplayOp(d, ops[j])
  BY <1>4, <1>6, LeadsReplay
<1>8. PICK b, r : /\ b = [outline |-> w, base |-> rev, rev |-> next]
                  /\ r = [ok |-> TRUE, w |-> w]
  BY Zenon
<1>9. History!ApplyBatch(w, ops, rev, next) = Applying!Folded(b, r, ops)
  BY <1>8, ApplyBatchAsFold
<1>10. PICK g : Applying!Goes(g, b, r, ops, m) /\ Applying!Folded(b, r, ops) = g[m]
  BY <1>5, <1>6, Applying!FoldValues, NatSetInduction DEF Applying!Induction
<1>11. \A id \in DOMAIN w.node : ~(w.node[id].changedAt > rev)
  <2>1. \A id \in DOMAIN w.node : w.node[id].changedAt \in Nat /\ w.node[id].changedAt <= rev
    BY DEF Firm, IsArray, Holds, Rev
  <2> QED BY <2>1
<1> DEFINE Fine(d, z) ==
      /\ IsDoc(d, Id) /\ Distinct(d.order) /\ IsArray(z) /\ Alike(d, z)
      /\ DOMAIN z.tombs \cap ToSet(items.order) = {}
<1> HIDE DEF Fine
<1>12. PICK U : U = {k \in Nat : k <= m => g[k].ok /\ Fine(Replay(doc, SubSeq(ops, 1, k)), g[k].w)}
  BY Zenon
<1>13. 0 \in U
  BY <1>8, <1>10, <1>2, <1>3, <1>7, <1>12 DEF Applying!Goes, Fine, Firm
<1>14. ASSUME NEW k \in Nat, k \in U PROVE k + 1 \in U
  <2>1. CASE k + 1 <= m
    <3>1. k + 1 \in 1..m /\ (k + 1) - 1 = k
      BY <1>6, <2>1
    <3>2. PICK x, y, op, d, e : /\ x = g[k] /\ y = g[k+1] /\ op = ops[k+1]
                                /\ d = Replay(doc, SubSeq(ops, 1, k))
                                /\ e = Replay(doc, SubSeq(ops, 1, k + 1))
      OBVIOUS
    <3>3. g[k+1] = ApplyOn(b, g[(k + 1) - 1], ops[k+1])
      BY <1>10, <3>1 DEF Applying!Goes
    <3>4. y = ApplyOn(b, x, op)
      BY <3>1, <3>2, <3>3
    <3>5. PICK z : z = x.w
      OBVIOUS
    <3>6. x.ok /\ Fine(d, z)
      BY <1>12, <1>14, <2>1, <3>2, <3>5
    <3>7. Good(op, d, items) /\ e = ReplayOp(d, op)
      BY <1>7, <3>1, <3>2
    <3>8. /\ Accepts(op, z, w.node, rev)
          /\ DOMAIN Effect(op, z, next).tombs \cap ToSet(items.order) = {}
      BY Zenon, <1>11, <3>6, <3>7, GoodAccepted DEF Fine
    <3>9. History!Accepts(op, z, w.node, rev)
      BY <3>8, SameAccepts
    <3>10. y.ok /\ y.w = Effect(op, z, next)
      BY <1>8, <3>4, <3>5, <3>6, <3>9, SameEffect DEF ApplyOn
    <3>11. Said(op)
      BY <3>7 DEF Good, Fits
    <3>12. LET h == ReplayOp(d, op)
               f == Effect(op, z, next)
           IN  IsDoc(h, Id) /\ Distinct(h.order) /\ IsArray(f) /\ Alike(h, f)
      BY <3>6, <3>8, <3>11, AlikeStep DEF Fine
    <3>13. Fine(e, y.w)
      BY <3>7, <3>8, <3>10, <3>12 DEF Fine
    <3> QED BY <1>12, <3>2, <3>10, <3>13
  <2> QED BY <1>12, <2>1
<1>15. m \in U
  BY <1>13, <1>14, NatSetInduction
<1> QED BY <1>1, <1>9, <1>10, <1>12, <1>15

-----------------------------------------------------------------------------
(* Whose saves the log has *)

\* The ids of the saves the tabs have made.
Given == {q \in Tab \X Nat : q[2] \in 1..tab[q[1]].saves}

\* What a tab's part of the invariant depends on besides the tab.
Env == [log |-> Log, gone |-> abandoned, given |-> Given,
        fail |-> count["fail"], retry |-> count["retry"], next |-> nextId]

\* What a save asks for, the ids that were deleted by a revision, and the
\* requests of a tab that its user has not given up.
Mends(x) == Diff(x.baseItems, x.items)
Buried(log, rev) == DOMAIN Replaying!Folded(0, First, SubSeq(log, 2, rev)).tombs
Mine(e, t, q) == q # NoRequest /\ q[1] = t /\ q \notin e.gone

\* Nothing is left to do for the save.
Over(e, x) == Mends(x) = <<>> \/ \E r \in DOMAIN e.log : e.log[r].req = x.req

\* There is a reason to refuse it that is not of the tab's making.
Excused(e, t, x) ==
  \/ \E r \in (x.base + 1)..Len(e.log) : ~Mine(e, t, e.log[r].req)
  \/ e.retry # 0 /\ DOMAIN x.items.node \cap Buried(e.log, x.base) # {}

\* A tab without a save on its way knows all its batches, and has no bullet
\* that was deleted by the revision it knows.
Rests(e, t, m) ==
  /\ ~m.saveRejected
  /\ \A r \in DOMAIN e.log : Mine(e, t, e.log[r].req) => r <= m.revision
  /\ e.retry = 0 /\ m.synced =>
       (DOMAIN m.items.node \cup NamesOf(m.past)) \cap Buried(e.log, m.revision) = {}

\* One with a save on its way knew all its batches but the one of that save.
Sound(x) == Grown(x.items) /\ IsTree(x.baseItems)
Waits(e, t, m) ==
  LET x == m.inFlight
  IN  /\ m.synced /\ m.saves # 0 /\ x.req = <<t, m.saves>> /\ x.req \notin e.gone
      /\ x.base \in 1..m.revision /\ Sound(x)
      /\ \A r \in DOMAIN e.log :
           Mine(e, t, e.log[r].req) => r <= x.base \/ e.log[r].req = x.req
      /\ \A r \in DOMAIN e.log : e.log[r].req = x.req => e.log[r].ops = Mends(x)
      /\ m.saveRejected /\ e.fail = 0 => Excused(e, t, x)
      /\ e.retry = 0 => DOMAIN x.items.node \cap Buried(e.log, x.base) = {}

\* The documents of a tab are trees with a parent before its children.
Basic(e, m) ==
  /\ m.saves \in Nat /\ m.revision \in 0..Len(e.log)
  /\ Grown(m.items) /\ Grown(m.canonical) /\ (m.past # NoPast => Grown(m.past))
  /\ m.synced =>
       /\ m.revision # 0 /\ Buried(e.log, m.revision) \subseteq Ids(e.next)
       /\ DOMAIN m.canonical.node \cap Buried(e.log, m.revision) = {}
Owns(e, t, m) ==
  Basic(e, m) /\ IF m.inFlight = NoSave THEN Rests(e, t, m) ELSE Waits(e, t, m)

\* A save on its way to the room is the one its tab waits for, or is of no
\* interest any more.
Due(e, T, x) ==
  /\ Sound(x) /\ x.req \in e.given
  /\ \/ x = T[x.req[1]].inFlight
     \/ x.req # T[x.req[1]].inFlight.req /\ (x.req \in e.gone \/ Over(e, x))

\* A message to a tab names a revision no older than the tab's, with what was
\* deleted by then; an answer to the save of the tab comes after its batch, a
\* refusal for a reason.
Tells(e, t, m, msg) ==
  /\ msg.req = NoRequest \/ msg.req \in e.given
  /\ LET answers == m.inFlight # NoSave /\ msg.req = m.inFlight.req
     IN  IF msg.kind = "Error"
         THEN answers /\ e.fail = 0 => Excused(e, t, m.inFlight)
         ELSE /\ m.revision <= msg.revision
              /\ msg.tombs = Buried(e.log, msg.revision)
              /\ answers => /\ Over(e, m.inFlight)
                            /\ \A r \in DOMAIN e.log :
                                 e.log[r].req = msg.req => r <= msg.revision

\* Messages come in the order of their revisions.
Rising(d) ==
  \A i, j \in DOMAIN d : i < j /\ d[i].kind # "Error" /\ d[j].kind # "Error" =>
    d[i].revision <= d[j].revision

Counts ==
  /\ count = [k \in {"edit", "undo", "retry", "other", "drop", "fail"} |-> count[k]]
  /\ \A k \in {"edit", "undo", "retry", "other", "drop", "fail"} : count[k] \in Nat

OInv ==
  /\ Counts /\ abandoned \subseteq Given /\ store # <<>> /\ Firm(Outline0, Revision)
  /\ \A r \in DOMAIN Log : Log[r].req = NoRequest \/ Log[r].req \in Given
  /\ \A t \in Tab : Owns(Env, t, tab[t])
  /\ \A t \in Tab : \A i \in DOMAIN up[t] : Due(Env, tab, up[t][i])
  /\ \A x \in orphans : Due(Env, tab, x)
  /\ \A t \in Tab : Rising(down[t])
  /\ \A t \in Tab : \A i \in DOMAIN down[t] : Tells(Env, t, tab[t], down[t][i])

-----------------------------------------------------------------------------
(* What stays so *)

\* A later log has at most one entry more, and nothing is taken back.
Later(e, f) ==
  /\ \E S : e.log \in Seq(S)
  /\ f.log = e.log \/ \E r : f.log = Append(e.log, r)
  /\ e.gone \subseteq f.gone /\ e.given \subseteq f.given
  /\ f.fail = 0 => e.fail = 0
  /\ f.retry = 0 => e.retry = 0
  /\ e.next \in Nat /\ f.next \in Nat /\ e.next <= f.next

LEMMA LaterLog ==
  ASSUME NEW e, NEW f, Later(e, f)
  PROVE  /\ Len(e.log) \in Nat /\ DOMAIN e.log = 1..Len(e.log)
         /\ Len(f.log) \in Nat /\ DOMAIN f.log = 1..Len(f.log)
         /\ Len(e.log) <= Len(f.log)
         /\ \A r \in 1..Len(e.log) : f.log[r] = e.log[r]
         /\ \A rev \in 0..Len(e.log) : Buried(f.log, rev) = Buried(e.log, rev)
<1>1. PICK log, n : log = e.log /\ n = Len(log)
  BY Zenon
<1>2. PICK S : log \in Seq(S)
  BY <1>1 DEF Later
<1>3. n \in Nat /\ DOMAIN log = 1..n
  BY <1>1, <1>2
<1>4. CASE f.log = log
  BY <1>1, <1>3, <1>4
<1>5. CASE f.log # log
  <2>1. PICK r : f.log = Append(log, r)
    BY Zenon, <1>1, <1>5 DEF Later
  <2>2. PICK a : a = Append(log, r)
    BY Zenon
  <2>3. Len(a) = n + 1 /\ DOMAIN a = 1..(n + 1) /\ \A i \in 1..n : a[i] = log[i]
    BY <1>1, <1>2, <1>3, <2>2
  <2>4. ASSUME NEW rev \in 0..n PROVE Buried(a, rev) = Buried(log, rev)
    <3>1. SubSeq(a, 2, rev) = SubSeq(log, 2, rev)
      BY <1>1, <1>2, <1>3, <2>2, <2>3
    <3> QED BY <3>1 DEF Buried
  <2> QED BY <1>1, <1>3, <2>1, <2>2, <2>3, <2>4
<1> QED BY <1>4, <1>5

LEMMA ExcusedStill ==
  ASSUME NEW e, NEW f, Later(e, f), NEW x, x.base \in 0..Len(e.log), NEW t, Excused(e, t, x)
  PROVE  Excused(f, t, x)
<1>1. /\ Len(e.log) \in Nat /\ Len(f.log) \in Nat /\ Len(e.log) <= Len(f.log)
      /\ \A r \in 1..Len(e.log) : f.log[r] = e.log[r]
      /\ Buried(f.log, x.base) = Buried(e.log, x.base)
  BY LaterLog
<1>2. CASE \E r \in (x.base + 1)..Len(e.log) : ~Mine(e, t, e.log[r].req)
  <2>1. PICK r \in (x.base + 1)..Len(e.log) : ~Mine(e, t, e.log[r].req)
    BY <1>2
  <2>2. r \in (x.base + 1)..Len(f.log) /\ f.log[r] = e.log[r]
    BY <1>1, <2>1
  <2>3. ~Mine(f, t, e.log[r].req)
    BY <2>1 DEF Mine, Later
  <2> QED BY <2>2, <2>3 DEF Excused
<1>3. CASE e.retry # 0 /\ DOMAIN x.items.node \cap Buried(e.log, x.base) # {}
  <2>1. f.retry # 0
    BY <1>3 DEF Later
  <2> QED BY <1>1, <1>3, <2>1 DEF Excused
<1> QED BY <1>2, <1>3 DEF Excused

LEMMA OverStill ==
  ASSUME NEW e, NEW f, Later(e, f), NEW x, Over(e, x)
  PROVE  Over(f, x)
BY LaterLog DEF Over

\* The entry a later log has more is of the save the tab waits for, or is none
\* of the tab's.
Suits(e, f, t, m) ==
  \A r \in DOMAIN f.log \ DOMAIN e.log :
    /\ Mine(f, t, f.log[r].req) => m.inFlight # NoSave /\ f.log[r].req = m.inFlight.req
    /\ m.inFlight # NoSave /\ f.log[r].req = m.inFlight.req =>
         f.log[r].ops = Mends(m.inFlight) /\ ~Over(e, m.inFlight)

LEMMA OwnsStill ==
  ASSUME NEW e, NEW f, Later(e, f), NEW t, NEW m, Owns(e, t, m), Suits(e, f, t, m),
         m.inFlight # NoSave => m.inFlight.req \notin f.gone
  PROVE  Owns(f, t, m)
<1>1. /\ Len(e.log) \in Nat /\ DOMAIN e.log = 1..Len(e.log)
      /\ Len(f.log) \in Nat /\ DOMAIN f.log = 1..Len(f.log)
      /\ Len(e.log) <= Len(f.log)
      /\ \A r \in DOMAIN e.log : r \in DOMAIN f.log /\ f.log[r] = e.log[r]
      /\ \A rev \in 0..Len(e.log) : Buried(f.log, rev) = Buried(e.log, rev)
  BY LaterLog
<1>2. \A q : Mine(f, t, q) => Mine(e, t, q)
  BY DEF Later, Mine
<1>3. Basic(f, m)
  BY <1>1, IdsMore DEF Owns, Basic, Later
<1>4. CASE m.inFlight = NoSave
  <2>1. Rests(e, t, m) /\ m.revision \in 0..Len(e.log)
    BY <1>4 DEF Owns, Basic
  <2>2. \A r \in DOMAIN f.log : Mine(f, t, f.log[r].req) => r <= m.revision
    BY <1>4, <1>1, <1>2, <2>1 DEF Suits, Rests
  <2>3. Rests(f, t, m)
    BY <1>1, <2>1, <2>2 DEF Rests, Later
  <2> QED BY <1>3, <1>4, <2>3 DEF Owns
<1>5. CASE m.inFlight # NoSave
  <2>1. PICK x : x = m.inFlight
    OBVIOUS
  <2>2. Waits(e, t, m) /\ m.revision \in 0..Len(e.log)
    BY <1>5 DEF Owns, Basic
  <2>3. x.base \in 0..Len(e.log)
    BY <1>1, <2>1, <2>2 DEF Waits
  <2>4. ASSUME NEW r \in DOMAIN f.log
        PROVE  /\ Mine(f, t, f.log[r].req) => r <= x.base \/ f.log[r].req = x.req
               /\ f.log[r].req = x.req => f.log[r].ops = Mends(x)
    <3>1. CASE r \in DOMAIN e.log
      BY <1>1, <1>2, <2>1, <2>2, <3>1 DEF Waits
    <3>2. CASE r \notin DOMAIN e.log
      BY <1>5, <2>1, <3>2 DEF Suits
    <3> QED BY <3>1, <3>2
  <2>5. m.saveRejected /\ f.fail = 0 => Excused(f, t, x)
    BY Zenon, <2>1, <2>2, <2>3, ExcusedStill DEF Waits, Later
  <2>6. f.retry = 0 => DOMAIN x.items.node \cap Buried(f.log, x.base) = {}
    BY <1>1, <2>1, <2>2, <2>3 DEF Waits, Later
  <2>7. /\ m.synced /\ m.saves # 0 /\ x.req = <<t, m.saves>> /\ x.req \notin f.gone
        /\ x.base \in 1..m.revision /\ Sound(x)
    BY <1>5, <2>1, <2>2 DEF Waits
  <2>8. Waits(f, t, m)
    BY <2>1, <2>4, <2>5, <2>6, <2>7 DEF Waits
  <2> QED BY <1>3, <1>5, <2>8 DEF Owns
<1> QED BY <1>4, <1>5

\* A message a tab has not received: its save is the same, or a new one.
LEMMA TellsStill ==
  ASSUME NEW e, NEW f, Later(e, f), NEW t, NEW m, NEW msg, Tells(e, t, m, msg),
         msg.kind # "Error" => msg.revision \in 0..Len(e.log),
         NEW n, msg.kind # "Error" => n.revision <= msg.revision,
         \/ n.inFlight = m.inFlight
         \/ n.inFlight = NoSave
         \/ n.inFlight.req # NoRequest /\ n.inFlight.req \notin e.given,
         m.inFlight # NoSave => m.inFlight.base \in 0..Len(e.log),
         Suits(e, f, t, m)
  PROVE  Tells(f, t, n, msg)
<1>1. /\ DOMAIN e.log = 1..Len(e.log)
      /\ \A r \in DOMAIN e.log : r \in DOMAIN f.log /\ f.log[r] = e.log[r]
      /\ \A rev \in 0..Len(e.log) : Buried(f.log, rev) = Buried(e.log, rev)
  BY LaterLog
<1>2. msg.req = NoRequest \/ msg.req \in f.given
  BY DEF Tells, Later
<1>3. PICK x, y : x = m.inFlight /\ y = n.inFlight
  OBVIOUS
<1>4. ASSUME y # NoSave, msg.req = y.req
      PROVE  y = x /\ x # NoSave /\ msg.req = x.req
  BY <1>3, <1>4 DEF Tells
<1>5. CASE msg.kind = "Error"
  <2>1. ASSUME y # NoSave, msg.req = y.req, f.fail = 0
        PROVE  Excused(f, t, y)
    BY Zenon, <1>3, <1>4, <1>5, <2>1, ExcusedStill DEF Tells, Later
  <2> QED BY <1>2, <1>3, <1>5, <2>1 DEF Tells
<1>6. CASE msg.kind # "Error"
  <2>1. msg.tombs = Buried(f.log, msg.revision)
    BY <1>1, <1>6 DEF Tells
  <2>2. ASSUME y # NoSave, msg.req = y.req
        PROVE  Over(f, y) /\ \A r \in DOMAIN f.log : f.log[r].req = msg.req => r <= msg.revision
    BY <1>3, <1>4, <1>6, <2>2, OverStill, <1>1 DEF Tells, Suits
  <2> QED BY <1>2, <1>3, <1>6, <2>1, <2>2 DEF Tells
<1> QED BY <1>5, <1>6

\* A save on its way up.
LEMMA DueStill ==
  ASSUME NEW e, NEW f, Later(e, f), NEW T, NEW V, NEW x, Due(e, T, x),
         LET y == T[x.req[1]].inFlight
             z == V[x.req[1]].inFlight
         IN  \/ z = y
             \/ /\ y = x => x.req \in f.gone \/ Over(e, x)
                /\ z.req \notin e.given
  PROVE  Due(f, V, x)
<1>1. x.req \in f.given /\ Sound(x)
  BY DEF Due, Later
<1>2. x.req \in e.gone \/ Over(e, x) => x.req \in f.gone \/ Over(f, x)
  BY OverStill DEF Later
<1>3. Over(e, x) => Over(f, x)
  BY OverStill
<1> QED BY <1>1, <1>2, <1>3 DEF Due

-----------------------------------------------------------------------------
(* A step of a tab *)

\* A tab goes on waiting for its save, or is done with it and may make another.
Follows(e, gone, t, m, n) ==
  \/ n.inFlight = m.inFlight /\ n.saves = m.saves
  \/ /\ m.inFlight = NoSave \/ m.inFlight.req \in gone \/ Over(e, m.inFlight)
     /\ \/ n.inFlight = NoSave /\ n.saves = m.saves
        \/ n.inFlight.req = <<t, m.saves + 1>> /\ n.saves = m.saves + 1

LEMMA GivenGrows ==
  ASSUME IInv, NEW t \in Tab, NEW m, m = tab[t], m.saves \in Nat,
         NEW n, tab' = [tab EXCEPT ![t] = n], n.saves \in {m.saves, m.saves + 1}
  PROVE  /\ Given \subseteq Given' /\ <<t, m.saves + 1>> \notin Given
         /\ n.saves # 0 => <<t, n.saves>> \in Given'
         /\ \A q \in Given : q \in Tab \X Nat /\ q # NoRequest
<1>1. tab = [x \in Tab |-> tab[x]]
  BY DEF IInv, Tabs
<1>2. tab'[t] = n /\ \A x \in Tab \ {t} : tab'[x] = tab[x]
  BY <1>1
<1>3. ASSUME NEW x \in Tab, NEW k \in Nat
      PROVE  /\ <<x, k>> \in Given <=> k \in 1..tab[x].saves
             /\ <<x, k>> \in Given' <=> k \in 1..tab'[x].saves
  BY DEF Given
<1>4. \A q \in Given : q \in Tab \X Nat
  BY DEF Given
<1>5. ASSUME NEW x \in Tab, NEW k \in Nat, <<x, k>> \in Given
      PROVE  <<x, k>> \in Given'
  BY <1>2, <1>3, <1>5
<1>6. Given \subseteq Given'
  BY <1>4, <1>5
<1>7. <<t, m.saves + 1>> \notin Given
  BY <1>3
<1>8. n.saves # 0 => <<t, n.saves>> \in Given'
  BY <1>2, <1>3
<1> QED BY <1>4, <1>6, <1>7, <1>8, RequestAssumption

\* What the other counts do does not matter.
Calmer ==
  /\ Counts'
  /\ count'["fail"] = 0 => count["fail"] = 0
  /\ count'["retry"] = 0 => count["retry"] = 0

LEMMA StepIsLater ==
  ASSUME IInv, Calmer, nextId' \in Nat, nextId <= nextId', abandoned \subseteq abandoned',
         Given \subseteq Given', Log' = Log \/ \E r : Log' = Append(Log, r)
  PROVE  Later(Env, Env')
BY Zenon DEF IInv, Kept, Log, Fresh, Env, Later, Calmer

\* The request of a save is its tab's.
LEMMA WaitsIs ==
  ASSUME IInv, OInv, NEW t \in Tab
  PROVE  /\ Owns(Env, t, tab[t]) /\ tab[t].saves \in Nat
         /\ tab[t].revision \in 0..Len(Log)
         /\ tab[t].inFlight # NoSave =>
              /\ Waits(Env, t, tab[t]) /\ tab[t].inFlight.req = <<t, tab[t].saves>>
              /\ tab[t].inFlight.req \in Given /\ tab[t].inFlight.base \in 0..Len(Log)
<1>1. PICK m : m = tab[t]
  OBVIOUS
<1>2. Owns(Env, t, m)
  BY <1>1 DEF OInv
<1>3. Env.log = Log /\ Len(Log) \in Nat
  BY DEF Env, IInv, Kept, Log
<1>4. m.saves \in Nat /\ m.revision \in 0..Len(Log)
  BY <1>2, <1>3 DEF Owns, Basic
<1>5. ASSUME m.inFlight # NoSave
      PROVE  /\ Waits(Env, t, m) /\ m.inFlight.req = <<t, m.saves>>
             /\ m.inFlight.req \in Given /\ m.inFlight.base \in 0..Len(Log)
  <2>1. Waits(Env, t, m)
    BY <1>2, <1>5 DEF Owns
  <2>2. m.inFlight.req = <<t, m.saves>> /\ m.saves # 0 /\ m.inFlight.base \in 1..m.revision
    BY <2>1 DEF Waits
  <2>3. <<t, m.saves>> \in Given
    BY <1>1, <1>4, <2>2 DEF Given
  <2>4. m.inFlight.base \in 0..Len(Log)
    BY <1>3, <1>4, <2>2
  <2> QED BY <2>1, <2>2, <2>3, <2>4
<1> QED BY <1>1, <1>2, <1>4, <1>5

LEMMA DownIs ==
  ASSUME IInv, NEW t \in Tab, NEW j \in DOMAIN down[t], down[t][j].kind # "Error"
  PROVE  down[t][j].revision \in 0..Len(Log)
BY DEF IInv, WayDown, Carries, Faithful, Kept, Log, Knows

\* What users give up is the save on its way.
GivesUp(m) ==
  \/ UNCHANGED abandoned
  \/ m.inFlight # NoSave /\ abandoned' = abandoned \cup {m.inFlight.req}

\* What is left of what was on its way to a tab is not older than the tab knows.
Hears(t, revision) ==
  \E d : /\ down' = [down EXCEPT ![t] = d] /\ Rising(d)
         /\ \A i \in DOMAIN d : \E j \in DOMAIN down[t] : d[i] = down[t][j]
         /\ \A i \in DOMAIN d : d[i].kind # "Error" => revision <= d[i].revision

\* All that a tab sends is its save.
Says(t, x) ==
  \E u : /\ up' = [up EXCEPT ![t] = u]
         /\ \A i \in DOMAIN u : \/ x # NoSave /\ u[i] = x
                                \/ \E j \in DOMAIN up[t] : u[i] = up[t][j]

LEMMA TabStepOInv ==
  ASSUME IInv, OInv, NEW t \in Tab, UNCHANGED store, nextId' \in Nat, nextId <= nextId',
         Calmer, NEW m, m = tab[t], GivesUp(m), NEW n, tab' = [tab EXCEPT ![t] = n],
         Follows(Env, abandoned', t, m, n), Owns(Env', t, n),
         Hears(t, n.revision), Says(t, n.inFlight),
         \A x \in orphans' : x \in orphans \/ \E j \in DOMAIN up[t] : x = up[t][j]
  PROVE  OInv'
<1>a. PICK d : /\ down' = [down EXCEPT ![t] = d] /\ Rising(d)
               /\ \A i \in DOMAIN d : \E j \in DOMAIN down[t] : d[i] = down[t][j]
               /\ \A i \in DOMAIN d : d[i].kind # "Error" => n.revision <= d[i].revision
  BY Zenon DEF Hears
<1>b. PICK u : /\ up' = [up EXCEPT ![t] = u]
               /\ \A i \in DOMAIN u : \/ n.inFlight # NoSave /\ u[i] = n.inFlight
                                      \/ \E j \in DOMAIN up[t] : u[i] = up[t][j]
  BY Zenon DEF Says
<1>c. \/ UNCHANGED abandoned
      \/ m.inFlight # NoSave /\ abandoned' = abandoned \cup {m.inFlight.req}
  BY DEF GivesUp
<1>1. /\ tab = [x \in Tab |-> tab[x]] /\ down = [x \in Tab |-> down[x]]
      /\ up = [x \in Tab |-> up[x]]
  BY DEF IInv, Tabs, WayDown, WayUp
<1>2. /\ tab'[t] = n /\ \A x \in Tab \ {t} : tab'[x] = tab[x]
      /\ down'[t] = d /\ \A x \in Tab \ {t} : down'[x] = down[x]
      /\ up'[t] = u /\ \A x \in Tab \ {t} : up'[x] = up[x]
  BY <1>1, <1>a, <1>b
<1>3. PICK e, f : e = Env /\ f = Env'
  OBVIOUS
<1>4. /\ e.log = Log /\ f.log = Log /\ e.gone = abandoned /\ f.gone = abandoned'
      /\ e.given = Given /\ f.given = Given'
  BY <1>3 DEF Env, Log
<1>5. m.saves \in Nat /\ n.saves \in {m.saves, m.saves + 1}
  BY WaitsIs DEF Follows
<1>6. /\ Given \subseteq Given' /\ <<t, m.saves + 1>> \notin Given
      /\ n.saves # 0 => <<t, n.saves>> \in Given'
      /\ \A q \in Given : q \in Tab \X Nat /\ q # NoRequest
  BY Zenon, <1>5, GivenGrows
<1>7. NoRequest \notin Given /\ NoSave.req = NoRequest
  BY <1>6 DEF NoSave
<1>8. Later(e, f)
  <2>1. Log' = Log
    BY DEF Log
  <2> QED BY <1>c, <1>3, <1>6, <2>1, StepIsLater
<1>9. \A x \in Tab : Suits(e, f, x, tab[x])
  BY <1>4 DEF Suits
<1>10. Counts' /\ Firm(Outline0', Revision')
  <2>1. Outline0' = Outline0 /\ Revision' = Revision
    BY DEF Outline0, Revision
  <2> QED BY <2>1 DEF Calmer, OInv
<1>11. abandoned' \subseteq Given'
  BY <1>c, <1>6, WaitsIs DEF OInv
<1>12. \A r \in DOMAIN Log' : Log'[r].req = NoRequest \/ Log'[r].req \in Given'
  BY <1>6 DEF OInv, Log
<1>13. ASSUME NEW x \in Tab PROVE Owns(f, x, tab'[x])
  <2>1. CASE x = t
    BY <1>2, <1>3, <2>1
  <2>2. CASE x # t
    <3>1. tab[x].inFlight # NoSave => tab[x].inFlight.req \notin f.gone
      BY <1>3, WaitsIs, <1>c, <1>4, <2>2 DEF Waits
    <3>2. Owns(e, x, tab[x])
      BY <1>3, WaitsIs
    <3>3. Owns(f, x, tab[x])
      BY <1>8, <1>9, <3>1, <3>2, OwnsStill
    <3> QED BY <1>2, <2>2, <3>3
  <2> QED BY <2>1, <2>2
<1>14. ASSUME NEW x, Due(e, tab, x)
       PROVE  Due(f, tab', x)
  <2>0. PICK T, V : T = tab /\ V = tab' /\ Due(e, T, x)
    BY <1>14
  <2>1. x.req \in Given
    BY <1>4, <1>14 DEF Due
  <2>2. PICK v \in Tab : v = x.req[1]
    BY <1>6, <2>1
  <2>3. PICK y, z : /\ y = tab[v].inFlight /\ z = tab'[v].inFlight
                    /\ y = T[x.req[1]].inFlight /\ z = V[x.req[1]].inFlight
    BY <2>0, <2>2, Zenon
  <2>4. CASE v # t
    <3>1. z = y
      BY <1>2, <2>3, <2>4
    <3>2. Due(f, V, x)
      BY <1>8, <2>0, <2>3, <3>1, DueStill
    <3> QED BY <2>0, <3>2
  <2>5. CASE v = t
    <3>1. y = m.inFlight /\ z = n.inFlight
      BY Zenon, <1>2, <2>3, <2>5
    <3>2. CASE z = y
      <4>1. Due(f, V, x)
        BY Zenon, <1>8, <2>0, <2>3, <3>2, DueStill
      <4> QED BY <2>0, <4>1
    <3>3. CASE z # y
      <4>1. /\ y = NoSave \/ y.req \in abandoned' \/ Over(e, y)
            /\ z = NoSave \/ z.req = <<t, m.saves + 1>>
        BY <1>3, <3>1, <3>3 DEF Follows
      <4>2. z.req \notin e.given
        BY <1>4, <1>6, <1>7, <4>1
      <4>3. y = x => x.req \in f.gone \/ Over(e, x)
        BY <1>4, <1>7, <2>1, <4>1
      <4>4. Due(f, V, x)
        BY Zenon, <1>8, <2>0, <2>3, <4>2, <4>3, DueStill
      <4> QED BY <2>0, <4>4
    <3> QED BY <3>2, <3>3
  <2> QED BY <2>4, <2>5
<1>15. n.inFlight # NoSave => Due(f, tab', n.inFlight)
  BY <1>3, <1>4, <1>6, <1>2 DEF Owns, Waits, Due
<1>16. \A x \in Tab : \A i \in DOMAIN up'[x] : Due(f, tab', up'[x][i])
  <2> SUFFICES ASSUME NEW x \in Tab, NEW i \in DOMAIN up'[x] PROVE Due(f, tab', up'[x][i])
    BY Zenon
  <2>1. \A j \in DOMAIN up[x] : Due(e, tab, up[x][j])
    BY <1>3 DEF OInv
  <2>2. CASE x = t
    <3>1. PICK y : y = up'[x][i]
      OBVIOUS
    <3>2. \/ n.inFlight # NoSave /\ y = n.inFlight
          \/ \E j \in DOMAIN up[t] : y = up[t][j]
      BY <1>b, <1>2, <2>2, <3>1
    <3> QED BY <1>14, <1>15, <2>1, <2>2, <3>1, <3>2
  <2>3. CASE x # t
    BY Zenon, <1>2, <1>14, <2>1, <2>3
  <2> QED BY <2>2, <2>3
<1>17. \A x \in orphans' : Due(f, tab', x)
  BY Zenon, <1>3, <1>14 DEF OInv
<1>18. \A x \in Tab : Rising(down'[x])
  BY <1>a, <1>2 DEF OInv
<1>19. ASSUME NEW x \in Tab, NEW i \in DOMAIN down'[x]
       PROVE  Tells(f, x, tab'[x], down'[x][i])
  <2>1. \A j \in DOMAIN down[x] : Tells(e, x, tab[x], down[x][j])
    BY <1>3 DEF OInv
  <2>2. PICK j \in DOMAIN down[x] : down'[x][i] = down[x][j]
    BY <1>a, <1>2, <1>19
  <2>3. PICK msg : msg = down[x][j] /\ msg = down'[x][i] /\ Tells(e, x, tab[x], msg)
    BY <2>1, <2>2
  <2>4. msg.kind # "Error" => msg.revision \in 0..Len(e.log)
    BY Zenon, <1>4, <2>3, DownIs
  <2>5. tab[x].inFlight # NoSave => tab[x].inFlight.base \in 0..Len(e.log)
    BY <1>4, WaitsIs
  <2>6. /\ msg.kind # "Error" => tab'[x].revision <= msg.revision
        /\ \/ tab'[x].inFlight = tab[x].inFlight
           \/ tab'[x].inFlight = NoSave
           \/ tab'[x].inFlight.req # NoRequest /\ tab'[x].inFlight.req \notin e.given
    <3>1. CASE x = t
      <4>1. msg.kind # "Error" => n.revision <= msg.revision
        BY <1>a, <1>2, <1>19, <2>3, <3>1
      <4>2. \/ n.inFlight = m.inFlight
            \/ n.inFlight = NoSave
            \/ n.inFlight.req = <<t, m.saves + 1>>
        BY DEF Follows
      <4>3. <<t, m.saves + 1>> # NoRequest
        BY <1>5, RequestAssumption
      <4> QED BY <1>2, <1>4, <1>6, <3>1, <4>1, <4>2, <4>3
    <3>2. CASE x # t
      BY <1>2, <2>3, <3>2 DEF Tells
    <3> QED BY <3>1, <3>2
  <2>7. Suits(e, f, x, tab[x])
    BY <1>9
  <2>8. Tells(f, x, tab'[x], msg)
    BY <1>8, <2>3, <2>4, <2>5, <2>6, <2>7, TellsStill
  <2> QED BY <2>3, <2>8
<1> QED BY Zenon, <1>3, <1>10, <1>11, <1>12, <1>13, <1>16, <1>17, <1>18, <1>19 DEF OInv

-----------------------------------------------------------------------------
(* A step of the room *)

\* What a commit adds to the log: the batch of a save on its way that was not
\* committed before, or somebody else's.
Adds(r) ==
  /\ store' # <<>> /\ store'.log = Append(store.log, r)
  /\ r.revision = Revision + 1 /\ store'.snapshot.revision = Revision + 1
  /\ store'.snapshot.outline = Redone(Outline0, r) /\ SaysAll(r.ops)
  /\ \/ r.req = NoRequest
     \/ \E x : /\ Due(Env, tab, x) /\ ~Over(Env, x)
               /\ r.req = x.req /\ r.ops = Mends(x)

\* A tab cannot be mistaken about the batch.
LEMMA AddsSuits ==
  ASSUME IInv, OInv, NEW r, Adds(r), UNCHANGED abandoned, NEW t \in Tab
  PROVE  Suits(Env, Env', t, tab[t])
<1>1. PICK e, f, x : e = Env /\ f = Env' /\ x = tab[t].inFlight
  OBVIOUS
<1>2. /\ e.log = Log /\ f.log = Append(Log, r) /\ e.gone = abandoned
      /\ f.gone = abandoned /\ e.given = Given
  BY <1>1 DEF Env, Log, Adds
<1>3. /\ x # NoSave => x.req = <<t, tab[t].saves>> /\ x.req \in Given
      /\ \A q \in Given : q # NoRequest /\ q \in Tab \X Nat
  BY <1>1, WaitsIs, RequestAssumption DEF Given
<1>4. \A i \in DOMAIN f.log \ DOMAIN e.log : f.log[i] = r
  <2>1. PICK S : Log \in Seq(S)
    BY DEF IInv, Kept, Log
  <2>2. PICK log, n : log = Log /\ n = Len(log) /\ n \in Nat /\ DOMAIN log = 1..n
    BY <2>1
  <2>3. PICK a : a = Append(log, r)
    OBVIOUS
  <2>4. DOMAIN a = 1..(n + 1) /\ a[n + 1] = r
    BY <2>1, <2>2, <2>3
  <2> QED BY <1>2, <2>2, <2>3, <2>4
<1>5. ASSUME r.req # NoRequest, r.req[1] = t, r.req \notin abandoned
      PROVE  x # NoSave /\ r.req = x.req
  <2>1. PICK y : /\ Due(e, tab, y) /\ ~Over(e, y)
                 /\ r.req = y.req /\ r.ops = Mends(y)
    BY <1>1, <1>5 DEF Adds
  <2>2. y = tab[y.req[1]].inFlight
    BY <1>2, <1>5, <2>1 DEF Due
  <2>3. y = x
    BY <1>1, <1>5, <2>1, <2>2
  <2>4. x # NoSave
    BY <1>5, <2>1, <2>3 DEF NoSave
  <2> QED BY <2>1, <2>3, <2>4
<1>6. ASSUME x # NoSave, r.req = x.req
      PROVE  r.ops = Mends(x) /\ ~Over(e, x)
  <2>1. r.req # NoRequest /\ r.req[1] = t
    BY <1>3, <1>6
  <2>2. PICK y : /\ Due(e, tab, y) /\ ~Over(e, y)
                 /\ r.req = y.req /\ r.ops = Mends(y)
    BY <1>1, <2>1 DEF Adds
  <2>3. y.req[1] = t /\ tab[t].inFlight.req = y.req
    BY <1>1, <1>6, <2>1, <2>2
  <2>4. y = x
    BY <1>1, <2>2, <2>3 DEF Due
  <2> QED BY <2>2, <2>4
<1>7. Suits(e, f, t, tab[t])
  BY <1>1, <1>2, <1>4, <1>5, <1>6 DEF Suits, Mine
<1> QED BY <1>1, <1>7

LEMMA RoomStepOInv ==
  ASSUME IInv, OInv, UNCHANGED <<tab, abandoned, nextId>>, Calmer,
         store' = store \/ \E r : Adds(r),
         \A t \in Tab :
           /\ Rising(down'[t])
           /\ \A i \in DOMAIN down'[t] :
                \/ \E j \in DOMAIN down[t] : down'[t][i] = down[t][j]
                \/ Tells(Env', t, tab[t], down'[t][i]),
         \A t \in Tab : \A i \in DOMAIN up'[t] : \E j \in DOMAIN up[t] : up'[t][i] = up[t][j],
         orphans' \subseteq orphans
  PROVE  OInv'
<1>1. PICK e, f : e = Env /\ f = Env'
  OBVIOUS
<1>2. /\ e.log = Log /\ f.log = Log' /\ e.gone = abandoned /\ f.gone = abandoned
      /\ e.given = Given /\ f.given = Given
  BY <1>1 DEF Env, Given
<1>3. Given' = Given
  BY DEF Given
<1>4. Log' = Log \/ \E r : Log' = Append(Log, r)
  BY Zenon DEF Log, Adds
<1>5. Later(e, f)
  BY <1>1, <1>3, <1>4, StepIsLater DEF IInv, Fresh
<1>6. ASSUME NEW t \in Tab PROVE Suits(e, f, t, tab[t])
  <2>1. CASE store' = store
    <3>1. f.log = e.log
      BY <1>2, <2>1 DEF Log
    <3> QED BY <3>1 DEF Suits
  <2>2. CASE \E r : Adds(r)
    BY <1>1, <2>2, AddsSuits
  <2> QED BY <2>1, <2>2
<1>7. Counts' /\ abandoned' \subseteq Given' /\ store' # <<>>
  BY <1>3 DEF Calmer, OInv, Adds
<1>8. Firm(Outline0', Revision')
  <2>1. CASE store' = store
    BY <2>1 DEF Outline0, Revision, OInv
  <2>2. CASE \E r : Adds(r)
    <3>1. PICK r : Adds(r)
      BY <2>2
    <3>2. PICK w, rev : w = Outline0 /\ rev = Revision
      OBVIOUS
    <3>3. rev \in Nat
      BY <3>2 DEF IInv, Kept, Revision
    <3>4. Firm(w, rev + 1)
      <4>1. Firm(w, rev)
        BY <3>2 DEF OInv
      <4>2. \A n \in DOMAIN w.node : w.node[n].changedAt \in Nat
        BY <4>1 DEF Firm, IsArray, Holds, Rev
      <4>3. \A n \in DOMAIN w.node : w.node[n].changedAt <= rev + 1
        BY <3>3, <4>1, <4>2 DEF Firm
      <4> QED BY <4>1, <4>3 DEF Firm
    <3>5. rev + 1 \in Nat /\ SaysAll(r.ops)
      BY <3>1, <3>3 DEF Adds
    <3>6. Firm(History!ApplyBatch(w, r.ops, r.base, rev + 1).w, rev + 1)
      BY <3>4, <3>5, BatchFirm
    <3>7. Outline0' = Redone(w, r) /\ Revision' = rev + 1 /\ r.revision = rev + 1
      BY <3>1, <3>2 DEF Adds, Outline0, Revision
    <3> QED BY <3>6, <3>7 DEF Redone
  <2> QED BY <2>1, <2>2
<1>9. \A r \in DOMAIN f.log : f.log[r].req = NoRequest \/ f.log[r].req \in Given
  <2>1. \A r \in DOMAIN e.log : e.log[r].req = NoRequest \/ e.log[r].req \in Given
    BY <1>2 DEF OInv
  <2>2. CASE store' = store
    BY <1>2, <2>1, <2>2 DEF Log
  <2>3. CASE \E r : Adds(r)
    <3>1. PICK r : Adds(r)
      BY <2>3
    <3>2. r.req = NoRequest \/ r.req \in Given
      BY <1>1, <1>2, <3>1 DEF Adds, Due
    <3>3. PICK S : Log \in Seq(S)
      BY DEF IInv, Kept, Log
    <3>4. \A i \in DOMAIN f.log : f.log[i] = r \/ (i \in DOMAIN e.log /\ f.log[i] = e.log[i])
      <4>1. PICK log, a : log = Log /\ a = Append(log, r)
        OBVIOUS
      <4>2. PICK n \in Nat : n = Len(log) /\ DOMAIN log = 1..n
        BY <3>3, <4>1
      <4>3. DOMAIN a = 1..(n + 1) /\ a[n + 1] = r /\ \A i \in 1..n : a[i] = log[i]
        BY <3>3, <4>1, <4>2
      <4>4. f.log = a /\ e.log = log
        BY <1>2, <3>1, <4>1 DEF Adds, Log
      <4> QED BY <4>2, <4>3, <4>4
    <3> QED BY <2>1, <3>2, <3>4
  <2> QED BY <2>2, <2>3
<1>10. ASSUME NEW t \in Tab PROVE Owns(f, t, tab'[t])
  <2>1. Owns(e, t, tab[t]) /\ tab[t].inFlight # NoSave => tab[t].inFlight.req \notin f.gone
    <3>1. Owns(e, t, tab[t])
      BY <1>1, WaitsIs
    <3> QED BY <1>2, <3>1 DEF Owns, Waits
  <2>2. Owns(f, t, tab[t])
    BY <1>1, <1>2, WaitsIs, <1>5, <1>6, OwnsStill DEF Waits
  <2> QED BY <2>2
<1>11. ASSUME NEW x, Due(e, tab, x) PROVE Due(f, tab, x)
  BY <1>5, <1>11, DueStill
<1>12. /\ \A t \in Tab : \A i \in DOMAIN up'[t] : Due(f, tab', up'[t][i])
       /\ \A x \in orphans' : Due(f, tab', x)
  BY <1>1, <1>11 DEF OInv
<1>13. ASSUME NEW t \in Tab, NEW i \in DOMAIN down'[t]
       PROVE  Tells(f, t, tab'[t], down'[t][i])
  <2>1. CASE Tells(Env', t, tab[t], down'[t][i])
    BY <1>1, <2>1
  <2>2. CASE \E j \in DOMAIN down[t] : down'[t][i] = down[t][j]
    <3>1. PICK j \in DOMAIN down[t] : down'[t][i] = down[t][j]
      BY <2>2
    <3>2. PICK msg : msg = down[t][j] /\ msg = down'[t][i]
      BY <3>1
    <3>3. Tells(e, t, tab[t], msg)
      BY Zenon, <1>1, <3>2 DEF OInv
    <3>4. msg.kind # "Error" => msg.revision \in 0..Len(e.log)
      BY Zenon, <1>2, <3>2, DownIs
    <3>5. tab[t].inFlight # NoSave => tab[t].inFlight.base \in 0..Len(e.log)
      BY <1>2, WaitsIs
    <3>6. msg.kind # "Error" => tab[t].revision <= msg.revision
      BY <3>3 DEF Tells
    <3>7. Tells(f, t, tab[t], msg)
      BY <1>5, <1>6, <3>3, <3>4, <3>5, <3>6, TellsStill
    <3> QED BY <3>2, <3>7
  <2> QED BY <1>13, <2>1, <2>2
<1>14. \A r \in DOMAIN Log' : Log'[r].req = NoRequest \/ Log'[r].req \in Given'
  BY <1>2, <1>3, <1>9
<1> QED BY <1>1, <1>7, <1>8, <1>10, <1>12, <1>13, <1>14 DEF OInv

-----------------------------------------------------------------------------
(* What the room sends *)

\* A document sent now suits every tab, if the answer it may be is one.
LEMMA SentTells ==
  ASSUME IInv, OInv, UNCHANGED <<tab, abandoned, nextId>>, Calmer, Kept(nextId, store'),
         store' = store \/ \E r : Adds(r), NEW z \in {store, store'}, NEW kind, kind # "Error",
         NEW req,
         \/ req = NoRequest
         \/ /\ z = store' /\ req \in Given
            /\ \A t \in Tab : tab[t].inFlight # NoSave /\ req = tab[t].inFlight.req =>
                 Over(Env', tab[t].inFlight),
         NEW t \in Tab
  PROVE  Tells(Env', t, tab[t], Sent(kind, req, z))
<1>1. PICK f, m, msg : f = Env' /\ m = tab[t] /\ msg = Sent(kind, req, z)
  OBVIOUS
<1>2. /\ msg.kind = kind /\ msg.req = req /\ msg.revision = z.snapshot.revision
      /\ msg.tombs = DOMAIN z.snapshot.outline.tombs
  BY <1>1 DEF Sent
<1>3. f.log = store'.log /\ f.given = Given
  BY <1>1 DEF Env, Given, Log
<1>4. PICK S : store.log \in Seq(S)
  BY DEF IInv, Kept
<1>5. PICK old, n : old = store.log /\ n = Len(old)
  BY Zenon
<1>5a. n \in Nat /\ n = Revision /\ Log = old /\ old \in Seq(S) /\ old # <<>> /\ store.snapshot.revision = n
  BY <1>4, <1>5 DEF IInv, Kept, Revision, Log
<1>6. PICK k \in Nat : k = z.snapshot.revision /\ n <= k /\ msg.tombs = Buried(f.log, k)
                       /\ (z = store' => DOMAIN f.log = 1..k)
  <2>1. Kept(nextId, z)
    BY DEF IInv
  <2>2. /\ z.snapshot.revision = Len(z.log)
        /\ msg.tombs = Buried(z.log, Len(z.log))
    BY <1>2, <2>1 DEF Kept, Buried
  <2>3. PICK R : store'.log \in Seq(R)
    BY DEF Kept
  <2>4. CASE z = store'
    <3>1. PICK log : log = store'.log
      OBVIOUS
    <3>2. PICK l \in Nat : l = Len(log) /\ DOMAIN log = 1..l
      BY <2>3, <3>1
    <3>3. n <= l
      <4>1. CASE log = old
        <5>1. l = n
          BY <1>5, <3>2, <4>1
        <5> QED BY <3>2, <5>1
      <4>2. CASE log # old
        <5>1. PICK r : log = Append(old, r)
          BY <1>5, <3>1, <4>2 DEF Adds
        <5>2. PICK a : a = Append(old, r)
          OBVIOUS
        <5>3. old \in Seq(S)
          BY <1>5a
        <5>4. Len(a) = n + 1
          BY <1>5, <5>2, <5>3
        <5>5. l = n + 1 /\ n \in Nat
          BY <1>5a, <3>2, <5>1, <5>2, <5>4
        <5> QED BY <5>5
      <4> QED BY <4>1, <4>2
    <3>4. /\ z.snapshot.revision = l /\ msg.tombs = Buried(f.log, l)
          /\ DOMAIN f.log = 1..l
      BY <1>3, <2>2, <2>4, <3>1, <3>2
    <3> QED BY <3>2, <3>3, <3>4
  <2>5. CASE z # store'
    <3>1. z = store
      BY <2>5
    <3>2. PICK r : store'.log = Append(old, r)
      BY Zenon, <1>5, <2>5, <3>1 DEF Adds
    <3>3. SubSeq(Append(old, r), 2, n) = SubSeq(old, 2, n)
      <4>1. n \in 1..Len(old)
        <5>1. n # 0
          BY Zenon, <1>5, <1>5a, EmptySeq
        <5> QED BY <1>5, <1>5a, <5>1
      <4> QED BY <1>5a, <4>1, LongerPrefix
    <3>4. Buried(f.log, n) = Buried(old, n)
      BY Zenon, <1>3, <3>2, <3>3 DEF Buried
    <3>5. z.snapshot.revision = n /\ msg.tombs = Buried(f.log, n) /\ n <= n
      BY <1>5, <1>5a, <2>2, <3>1, <3>4
    <3> QED BY <1>5a, <2>5, <3>5
  <2> QED BY <2>4, <2>5
<1>7. m.revision <= k
  <2>1. m.revision \in 0..n
    BY Zenon, <1>1, <1>5, <1>5a, WaitsIs
  <2> QED BY <1>5a, <1>6, <2>1
<1>8. ASSUME m.inFlight # NoSave, req = m.inFlight.req
      PROVE  Over(f, m.inFlight) /\ \A r \in DOMAIN f.log : r <= k
  <2>1. req # NoRequest
    <3>1. req \in Given
      BY <1>1, <1>8, WaitsIs
    <3> QED BY <3>1, RequestAssumption DEF Given
  <2> QED BY <1>1, <1>6, <1>8, <2>1
<1>9. Tells(f, t, m, msg)
  BY <1>2, <1>3, <1>6, <1>7, <1>8 DEF Tells
<1> QED BY <1>1, <1>9

\* What is on its way down to a tab after a step of the room, up to a revision.
Sends(t, d, low) ==
  /\ low \in Nat /\ (\E S : d \in Seq(S)) /\ Rising(d)
  /\ \A i \in DOMAIN d :
       /\ d[i].kind # "Error" => d[i].revision \in 0..low
       /\ \/ \E j \in DOMAIN down[t] : d[i] = down[t][j]
          \/ Tells(Env', t, tab[t], d[i])

LEMMA SendsFirst ==
  ASSUME IInv, OInv, NEW t \in Tab
  PROVE  Sends(t, down[t], Len(Log)) /\ Sends(t, <<>>, Len(Log))
BY DownIs DEF IInv, Kept, Log, WayDown, Carries, OInv, Sends, Rising

LEMMA SendsMore ==
  ASSUME NEW t, NEW d, NEW low, Sends(t, d, low), NEW msg, Tells(Env', t, tab[t], msg),
         NEW high \in Nat, low <= high,
         msg.kind # "Error" => msg.revision \in Nat /\ low <= msg.revision /\ msg.revision <= high
  PROVE  Sends(t, d \o <<msg>>, high)
<1>1. PICK S : d \in Seq(S)
  BY DEF Sends
<1>2. PICK n \in Nat : n = Len(d) /\ DOMAIN d = 1..n
  BY <1>1, LenProperties
<1>3. PICK z, R : z = Append(d, msg) /\ R = S \cup {msg}
  BY Zenon
<1>4. d \in Seq(R) /\ msg \in R
  BY <1>1, <1>3
<1>5. z = d \o <<msg>>
  BY <1>3, <1>4, AppendIsConcat
<1>6. /\ z \in Seq(R) /\ DOMAIN z = 1..(n + 1) /\ z[n + 1] = msg
      /\ \A i \in 1..n : z[i] = d[i]
  BY <1>2, <1>3, <1>4, AppendProperties
<1>7. low \in Nat
  BY DEF Sends
<1>8. ASSUME NEW i \in 1..(n + 1)
      PROVE  /\ z[i].kind # "Error" => z[i].revision \in 0..high
             /\ \/ \E j \in DOMAIN down[t] : z[i] = down[t][j]
                \/ Tells(Env', t, tab[t], z[i])
  <2>1. CASE i = n + 1
    BY <1>6, <2>1
  <2>2. CASE i \in 1..n
    BY <1>2, <2>2, <1>7, <1>6 DEF Sends
  <2> QED BY <1>2, <2>1, <2>2
<1>9. Rising(z)
  <2> SUFFICES ASSUME NEW i \in 1..(n + 1), NEW j \in 1..(n + 1), i < j,
                      z[i].kind # "Error", z[j].kind # "Error"
               PROVE  z[i].revision <= z[j].revision
    BY <1>6 DEF Rising
  <2>1. i \in 1..n /\ z[i] = d[i]
    BY <1>2, <1>6
  <2>2. d[i].revision \in 0..low
    BY <1>2, <2>1 DEF Sends
  <2>3. CASE j = n + 1
    BY <1>6, <1>7, <2>1, <2>2, <2>3
  <2>4. CASE j \in 1..n
    BY <1>2, <1>6, <2>1, <2>4 DEF Sends, Rising
  <2> QED BY <1>2, <2>3, <2>4
<1>10. Sends(t, z, high)
  BY <1>6, <1>8, <1>9 DEF Sends
<1> QED BY <1>5, <1>10

\* The step of the store, as the room does it.
Saves ==
  /\ UNCHANGED <<tab, abandoned, nextId>> /\ Calmer /\ Grows(nextId, store, store')
  /\ store' = store \/ \E r : Adds(r)

LEMMA SendsUnseen ==
  ASSUME IInv, OInv, Saves, NEW t \in Tab, NEW d, Sends(t, d, Len(Log))
  PROVE  Sends(t, d \o Unseen(store), Len(Log))
<1>1. Kept(nextId, store') /\ Kept(nextId, store)
  BY GrowsKept DEF IInv, Saves
<1>2. CASE shown = store.snapshot.revision
  BY <1>2 DEF Unseen, Sends
<1>3. CASE shown # store.snapshot.revision
  <2>1. PICK msg : msg = Sent("DocumentChanged", NoRequest, store)
    OBVIOUS
  <2>2. Unseen(store) = <<msg>>
    BY <1>3, <2>1 DEF Unseen
  <2>3. Tells(Env', t, tab[t], msg)
    BY <1>1, <2>1, SentTells DEF Saves
  <2>4. PICK low : low = Len(Log) /\ low \in Nat
    BY DEF Sends
  <2>5. msg.revision = low /\ low <= low
    BY <1>1, <2>1, <2>4 DEF Sent, Kept, Log
  <2>6. Sends(t, d \o <<msg>>, low)
    BY <2>3, <2>4, <2>5, SendsMore
  <2> QED BY <2>2, <2>4, <2>6
<1> QED BY <1>2, <1>3

LEMMA SavesOInv ==
  ASSUME IInv, OInv, Saves, \A t \in Tab : \E low : Sends(t, down'[t], low),
         \A t \in Tab : \A i \in DOMAIN up'[t] : \E j \in DOMAIN up[t] : up'[t][i] = up[t][j],
         orphans' \subseteq orphans
  PROVE  OInv'
BY RoomStepOInv DEF Sends, Saves

-----------------------------------------------------------------------------
(* The counts *)

LEMMA CountsSame ==
  ASSUME OInv, UNCHANGED count
  PROVE  Calmer
BY DEF OInv, Counts, Calmer

LEMMA CountedIs ==
  ASSUME OInv, NEW kind \in {"edit", "undo", "retry", "other", "drop", "fail"},
         NEW max, Counted(kind, max)
  PROVE  Calmer /\ count'[kind] # 0
<1>1. PICK K : K = {"edit", "undo", "retry", "other", "drop", "fail"}
  BY Zenon
<1>2. count = [k \in K |-> count[k]] /\ \A k \in K : count[k] \in Nat
  BY <1>1 DEF OInv, Counts
<1>3. count' = [count EXCEPT ![kind] = count[kind] + 1]
  BY Zenon DEF Counted
<1>4. /\ count'[kind] = count[kind] + 1 /\ \A k \in K \ {kind} : count'[k] = count[k]
      /\ count' = [k \in K |-> count'[k]]
  BY Zenon, <1>1, <1>2, <1>3
<1>5. \A k \in K : count'[k] \in Nat /\ (count'[k] = 0 => count[k] = 0)
  BY <1>1, <1>2, <1>4
<1>6. Counts' /\ Calmer
  BY <1>1, <1>4, <1>5 DEF Counts, Calmer
<1> QED BY <1>1, <1>2, <1>4, <1>6

-----------------------------------------------------------------------------
(* A save *)

\* The documents of a save, when any number may be an id.
LEMMA SaveIsSent ==
  ASSUME Id = Nat, NEW N, NEW x, Sound(x), IsSave(N, x)
  PROVE  /\ IsSent(x.items) /\ IsDoc(x.baseItems, Id) /\ Distinct(x.baseItems.order)
         /\ ToSet(x.items.order) = DOMAIN x.items.node
BY IsDocMore, IsDocIn DEF Sound, Grown, IsSave, Ids, IsTree, IsSent

\* A save on its way with the id of the save of a tab is that save.
LEMMA DueIs ==
  ASSUME IInv, OInv, NEW x, Due(Env, tab, x), NEW t \in Tab, tab[t].inFlight # NoSave,
         x.req = tab[t].inFlight.req
  PROVE  x = tab[t].inFlight
<1>1. x.req[1] = t
  BY WaitsIs
<1> QED BY <1>1 DEF Due

\* An answer is sent once there is nothing left to do for the save, and what is
\* committed for it is its batch.
LEMMA SaveAdds ==
  ASSUME Id = Nat, IInv, OInv, NEW x, Due(Env, tab, x), IsSave(nextId, x), ApplySave(x),
         UNCHANGED <<tab, abandoned, nextId>>, Calmer
  PROVE  /\ Saves
         /\ \A t \in Tab : tab[t].inFlight # NoSave /\ x.req = tab[t].inFlight.req =>
              Over(Env', tab[t].inFlight)
<1>1. Grows(nextId, store, store')
  BY SaveGrows
<1>2. PICK e, f : e = Env /\ f = Env'
  OBVIOUS
<1>3. e.log = store.log /\ f.log = store'.log
  BY <1>2 DEF Env, Log
<1>4. PICK ops : ops = Mends(x) /\ ops = Diff(x.baseItems, x.items)
  BY DEF Mends
<1>5. Over(f, x) /\ (store' = store \/ \E r : Adds(r))
  <2>1. CASE UNCHANGED store /\ (ops = <<>> \/ \E k \in Prior(x.req) : Log[k].ops = ops)
    BY <1>3, <1>4, <2>1 DEF Over, Prior, Log
  <2>2. CASE ops # <<>> /\ Prior(x.req) = {} /\ History!Apply(x.req, x.base, ops)
    <3>1. PICK r : r = [req |-> x.req, base |-> x.base, ops |-> ops,
                        revision |-> store.snapshot.revision + 1, proposal |-> 0]
      BY Zenon
    <3>2. r.req = x.req /\ r.ops = ops /\ r.base = x.base /\ r.revision = store.snapshot.revision + 1
      BY <3>1
    <3>3. PICK w, a : /\ w = Redone(store.snapshot.outline, r) /\ a = Append(store.log, r)
                      /\ w = History!ApplyBatch(store.snapshot.outline, ops, x.base,
                                                store.snapshot.revision + 1).w
      BY Zenon, <3>2 DEF Redone
    <3>4. store' = [snapshot |-> [revision |-> store.snapshot.revision + 1,
                                  outline |-> w, proposals |-> store.snapshot.proposals],
                    log |-> a]
      BY Zenon, <2>2, <3>1, <3>3 DEF History!Apply, History!Grown, History!Current, History!Proposals
    <3>5. /\ store'.log = a
          /\ store'.snapshot.revision = store.snapshot.revision + 1
          /\ store'.snapshot.outline = w
      BY <3>4
    <3>6. store' # <<>>
      BY <3>4
    <3>7. SaysAll(ops)
      BY SaveIsSent, <1>4, DiffSays DEF Due
    <3>8. ~Over(e, x)
      BY <1>3, <1>4, <2>2 DEF Over, Prior, Log
    <3>9. Adds(r)
      BY Zenon, <1>2, <1>4, <3>2, <3>3, <3>5, <3>6, <3>7, <3>8 DEF Adds, Revision, Outline0
    <3>10. \E k \in DOMAIN a : a[k].req = x.req
      BY <3>3, <3>2 DEF IInv, Kept
    <3> QED BY <1>3, <3>5, <3>9, <3>10 DEF Over
  <2> QED BY <1>4, <2>1, <2>2 DEF ApplySave
<1>6. Saves
  BY <1>1, <1>5 DEF Saves
<1> QED BY <1>2, <1>5, <1>6, DueIs

\* A refusal has a reason that is not of the tab's making.
LEMMA RefusedExcused ==
  ASSUME Id = Nat, IInv, OInv, NEW t \in Tab, NEW x, x = tab[t].inFlight, x # NoSave,
         Sound(x), IsSave(nextId, x), Refuses(x)
  PROVE  Excused(Env, t, x)
<1> SUFFICES ASSUME ~Excused(Env, t, x) PROVE FALSE
  OBVIOUS
<1>1. PICK log, n, base, ops :
        /\ log = Log /\ n = Len(log) /\ base = x.base
        /\ ops = Mends(x) /\ ops = Diff(x.baseItems, x.items)
  BY Zenon DEF Mends
<1>2. PICK S : log \in Seq(S)
  BY <1>1 DEF IInv, Kept, Log
<1>3. n \in Nat /\ DOMAIN log = 1..n
  BY <1>1, <1>2
<1>4. /\ Waits(Env, t, tab[t]) /\ tab[t].revision \in 0..n
      /\ Env.log = log
  BY <1>1, WaitsIs DEF Env
<1>5. /\ base \in 1..tab[t].revision
      /\ \A r \in DOMAIN log : Mine(Env, t, log[r].req) => r <= base \/ log[r].req = x.req
      /\ \A r \in DOMAIN log : log[r].req = x.req => log[r].ops = ops
      /\ Env.retry = 0 => DOMAIN x.items.node \cap Buried(log, base) = {}
  BY <1>1, <1>4 DEF Waits
<1>6. base \in 1..n
  BY <1>3, <1>4, <1>5
<1>7. /\ \A r \in (base + 1)..n : Mine(Env, t, log[r].req)
      /\ DOMAIN x.items.node \cap Buried(log, base) = {}
  BY <1>1, <1>4, <1>5 DEF Excused
<1>8. \A r \in (base + 1)..n : log[r].req = x.req
  BY <1>3, <1>6, <1>5, <1>7
<1>9. ops # <<>>
  BY <1>1 DEF Refuses
<1>10. CASE Prior(x.req) # {}
  BY <1>1, <1>10, <1>5 DEF Refuses, Prior
<1>11. CASE Prior(x.req) = {}
  <2>1. base = n
    <3>1. \A r \in 1..n : log[r].req # x.req
      BY <1>1, <1>3, <1>11 DEF Prior
    <3>2. ASSUME base # n PROVE FALSE
      BY <1>3, <1>6, <3>2, <1>8, <3>1
    <3> QED BY <3>2
  <2>2. PICK w, rev, items : w = Outline0 /\ rev = Revision /\ items = x.items
    OBVIOUS
  <2>3. /\ Kept(nextId, store) /\ rev = n /\ rev \in Nat /\ log = store.log
        /\ w = Replaying!Folded(0, First, SubSeq(log, 2, n))
    BY <1>1, <1>3, <2>2 DEF IInv, Kept, Revision, Outline0, Log
  <2>4. x.baseItems = ToItems(w)
    BY Zenon, <1>1, <2>1, <2>3 DEF IInv, Tabs, Founded, Knows, Tree
  <2>5. IsSent(items) /\ ToSet(items.order) = DOMAIN items.node
    BY <2>2, SaveIsSent
  <2>6. DOMAIN w.tombs \cap ToSet(items.order) = {}
    BY <1>7, <2>1, <2>2, <2>3, <2>5 DEF Buried
  <2>7. Firm(w, rev)
    BY <2>2 DEF OInv
  <2>8. rev + 1 \in Nat
    BY <2>3
  <2>9. History!ApplyBatch(w, Diff(ToItems(w), items), rev, rev + 1).ok
    BY <2>3, <2>5, <2>6, <2>7, <2>8, DiffAccepted
  <2>10. History!ApplyBatch(w, ops, base, rev + 1).ok /\ base <= rev
    BY <1>1, <2>1, <2>2, <2>3, <2>4, <2>9
  <2>11. History!Fits(ops, base)
    BY <1>9, <2>2, <2>10 DEF History!Fits, History!Current, OInv, Revision, Outline0
  <2> QED BY <1>1, <1>11, <2>11 DEF Refuses
<1> QED BY <1>10, <1>11

-----------------------------------------------------------------------------
(* The room *)

\* A save on its way to the room.
Sure(x) == Due(Env, tab, x) /\ IsSave(nextId, x)

LEMMA AcceptOInv ==
  ASSUME Id = Nat, IInv, OInv, NEW x, Sure(x), Accept(x),
         UNCHANGED <<tab, abandoned, nextId, count>>,
         \A t \in Tab : \A i \in DOMAIN up'[t] : \E j \in DOMAIN up[t] : up'[t][i] = up[t][j],
         orphans' \subseteq orphans
  PROVE  OInv'
<1>1. /\ Saves
      /\ \A t \in Tab : tab[t].inFlight # NoSave /\ x.req = tab[t].inFlight.req =>
           Over(Env', tab[t].inFlight)
  BY SaveAdds, CountsSame DEF Accept, Sure
<1>2. PICK msg, high : /\ msg = Sent("DocumentChanged", x.req, store')
                       /\ high = store'.snapshot.revision
  OBVIOUS
<1>3. Kept(nextId, store') /\ Kept(nextId, store)
  BY <1>1, GrowsKept DEF IInv, Saves
<1>4. high \in Nat /\ Len(Log) <= high /\ Len(Log) \in Nat
  BY <1>3, <1>1, <1>2 DEF Kept, Log, Saves, Grows
<1>5. ASSUME NEW t \in Tab
      PROVE  /\ Tells(Env', t, tab[t], msg)
             /\ Sends(t, down[t] \o Unseen(store), Len(Log))
  <2>1. Tells(Env', t, tab[t], msg)
    BY <1>1, <1>2, <1>3, SentTells DEF Saves, Sure, Due, Env
  <2>2. Sends(t, down[t] \o Unseen(store), Len(Log))
    BY <1>1, SendsFirst, SendsUnseen
  <2> QED BY <2>1, <2>2
<1>6. ASSUME NEW t \in Tab PROVE \E low : Sends(t, down'[t], low)
  <2>1. PICK d, u : d = down[t] /\ u = Unseen(store)
    OBVIOUS
  <2>2. /\ msg.kind # "Error" => /\ msg.revision \in Nat /\ Len(Log) <= msg.revision
                                 /\ msg.revision <= high
    BY <1>2, <1>4 DEF Sent
  <2>3. Sends(t, (d \o u) \o <<msg>>, high)
    BY <1>4, <1>5, <2>1, <2>2, SendsMore
  <2>4. (d \o u) \o <<msg>> = d \o (u \o <<msg>>)
    <3>1. PICK S : d \in Seq(S)
      BY <2>1 DEF IInv, WayDown, Carries
    <3>2. PICK s, R : /\ s = Sent("DocumentChanged", NoRequest, store)
                      /\ R = S \cup {msg, s}
      OBVIOUS
    <3>3. d \in Seq(R) /\ <<msg>> \in Seq(R) /\ <<s>> \in Seq(R) /\ <<>> \in Seq(R)
      BY <3>1, <3>2
    <3>4. u = <<>> \/ u = <<s>>
      BY <2>1, <3>2 DEF Unseen
    <3> QED BY <3>3, <3>4, ConcatAssociative
  <2>5. down'[t] = IF t \in listening THEN d \o (u \o <<msg>>) ELSE d
    BY <1>2, <2>1 DEF Accept, Broadcast
  <2>6. Sends(t, d, Len(Log))
    BY <2>1, SendsFirst
  <2> QED BY Zenon, <2>3, <2>4, <2>5, <2>6
<1> QED BY <1>1, <1>6, SavesOInv

\* A step that leaves the store alone.
LEMMA QuietSaves ==
  ASSUME UNCHANGED <<store, tab, abandoned, nextId>>, Calmer
  PROVE  Saves
BY DEF Saves, Grows

LEMMA FailedTells ==
  ASSUME Saves, NEW t \in Tab, NEW req, req = NoRequest \/ req \in Given,
         tab[t].inFlight # NoSave /\ req = tab[t].inFlight.req /\ count'["fail"] = 0 =>
           UNCHANGED <<store, count>> /\ Excused(Env, t, tab[t].inFlight)
  PROVE  Tells(Env', t, tab[t], Failed(req))
<1>1. PICK e, f, m, msg : e = Env /\ f = Env' /\ m = tab[t] /\ msg = Failed(req)
  OBVIOUS
<1>2. msg.kind = "Error" /\ msg.req = req
  BY <1>1 DEF Failed
<1>3. f.given = e.given /\ e.given = Given /\ f.fail = count'["fail"]
  BY <1>1 DEF Env, Given, Saves
<1>4. UNCHANGED <<store, count>> => f = e
  BY <1>1 DEF Env, Given, Log, Saves
<1>5. m.inFlight # NoSave /\ req = m.inFlight.req /\ f.fail = 0 => Excused(f, t, m.inFlight)
  BY <1>1, <1>3, <1>4
<1>6. Tells(f, t, m, msg)
  BY <1>2, <1>3, <1>5 DEF Tells
<1> QED BY <1>1, <1>6

LEMMA RefuseOInv ==
  ASSUME Id = Nat, IInv, OInv, NEW x, Sure(x), NEW sender, Refuse(x, sender),
         UNCHANGED <<tab, abandoned, nextId>>,
         \A t \in Tab : \A i \in DOMAIN up'[t] : \E j \in DOMAIN up[t] : up'[t][i] = up[t][j],
         orphans' \subseteq orphans
  PROVE  OInv'
<1>1. Calmer /\ (count'["fail"] = 0 => UNCHANGED <<store, count>> /\ Refuses(x))
  BY CountsSame, CountedIs DEF Refuse, Fails
<1>2. Saves
  <2>1. UNCHANGED store \/ ApplySave(x)
    BY DEF Refuse, Fails
  <2>2. CASE UNCHANGED store
    BY <1>1, <2>2, QuietSaves
  <2>3. CASE ApplySave(x)
    BY <1>1, <2>3, SaveAdds DEF Sure
  <2> QED BY <2>1, <2>2, <2>3
<1>3. ASSUME NEW t \in Tab PROVE \E low : Sends(t, down'[t], low)
  <2>1. PICK d, u, msg, low : d = down[t] /\ u = Unseen(store) /\ msg = Failed(x.req)
                              /\ low = Len(Log)
    BY Zenon
  <2>2. Sends(t, d, low) /\ Sends(t, d \o u, low) /\ low \in Nat
    BY Zenon, <1>2, <2>1, SendsFirst, SendsUnseen DEF Sends
  <2>3. Tells(Env', t, tab[t], msg)
    <3>1. x.req \in Given
      BY DEF Sure, Due, Env
    <3>2. ASSUME tab[t].inFlight # NoSave, x.req = tab[t].inFlight.req, count'["fail"] = 0
          PROVE  UNCHANGED <<store, count>> /\ Excused(Env, t, tab[t].inFlight)
      BY <3>2, DueIs, <1>1, RefusedExcused DEF Sure, Due
    <3> QED BY <1>2, <2>1, <3>1, <3>2, FailedTells
  <2>4. msg.kind = "Error" /\ low <= low
    BY <2>1, <2>2 DEF Failed
  <2>5. Sends(t, d \o <<msg>>, low) /\ Sends(t, (d \o u) \o <<msg>>, low)
    BY <2>2, <2>3, <2>4, SendsMore
  <2>6. PICK first, second :
          /\ first = (IF t \in listening /\ shown' = Revision THEN d \o u ELSE d)
          /\ second = (IF t \in sender THEN <<msg>> ELSE <<>>)
          /\ down'[t] = first \o second
    BY Zenon, <2>1 DEF Refuse
  <2>7. d \o <<>> = d /\ (d \o u) \o <<>> = d \o u
    BY <2>2 DEF Sends
  <2> QED BY Zenon, <2>2, <2>5, <2>6, <2>7
<1> QED BY <1>2, <1>3, SavesOInv

LEMMA ConnectOInv ==
  ASSUME IInv, OInv, NEW t \in Tab, Connect(t)
  PROVE  OInv'
<1>1. UNCHANGED <<store, abandoned, tab, up, orphans, nextId, count>>
  BY DEF Connect
<1>2. Calmer /\ Saves
  BY <1>1, CountsSame, QuietSaves
<1>3. ASSUME NEW x \in Tab PROVE \E low : Sends(x, down'[x], low)
  <2>1. PICK d, u, msg, low : /\ d = down[x] /\ u = Unseen(store) /\ low = Len(Log)
                              /\ msg = Sent("Snapshot", NoRequest, store)
    BY Zenon
  <2>2. Sends(x, d, low) /\ Sends(x, d \o u, low) /\ Sends(x, <<>>, low) /\ low \in Nat
    BY Zenon, <1>2, <2>1, SendsFirst, SendsUnseen DEF Sends
  <2>3. Tells(Env', x, tab[x], msg)
    BY <1>1, <1>2, <2>1, SentTells DEF IInv
  <2>4. msg.revision = low /\ low <= low
    BY <2>1, <2>2 DEF Sent, IInv, Kept, Log
  <2>5. Sends(x, <<>> \o <<msg>>, low)
    BY Zenon, <2>2, <2>3, <2>4, SendsMore
  <2>6. <<>> \o <<msg>> = <<msg>>
    OBVIOUS
  <2>7. down'[x] = CASE x = t -> <<msg>>
                     [] x \in listening -> d \o u
                     [] OTHER -> d
    BY <2>1 DEF Connect
  <2>8. down'[x] \in {<<msg>>, d \o u, d}
    BY <2>7
  <2> QED BY Zenon, <2>2, <2>5, <2>6, <2>8
<1> QED BY <1>1, <1>2, <1>3, SavesOInv

LEMMA TickOInv ==
  ASSUME IInv, OInv, Tick \/ TickFails
  PROVE  OInv'
<1>1. UNCHANGED <<store, abandoned, tab, up, orphans, nextId>>
  BY DEF Tick, TickFails
<1>2. Calmer /\ Saves
  BY <1>1, CountsSame, CountedIs, QuietSaves DEF Tick, TickFails
<1>3. ASSUME NEW x \in Tab PROVE \E low : Sends(x, down'[x], low)
  <2>1. PICK d, u, msg, low : /\ d = down[x] /\ u = Unseen(store) /\ low = Len(Log)
                              /\ msg = Failed(NoRequest)
    BY Zenon
  <2>2. Sends(x, d, low) /\ Sends(x, d \o u, low) /\ low \in Nat
    BY Zenon, <1>2, <2>1, SendsFirst, SendsUnseen DEF Sends
  <2>3. Tells(Env', x, tab[x], msg)
    BY WaitsIs, RequestAssumption, <1>1, <1>2, <2>1, FailedTells DEF Given
  <2>4. msg.kind = "Error" /\ low <= low
    BY <2>1, <2>2 DEF Failed
  <2>5. Sends(x, d \o <<msg>>, low)
    BY <2>2, <2>3, <2>4, SendsMore
  <2>6. down'[x] \in {d, d \o u, d \o <<msg>>}
    BY <2>1 DEF Tick, TickFails, Broadcast
  <2> QED BY Zenon, <2>2, <2>5, <2>6
<1> QED BY <1>1, <1>2, <1>3, SavesOInv

LEMMA OtherWritesOInv ==
  ASSUME IInv, OInv, OtherWrites
  PROVE  OInv'
<1>1. PICK ops \in OtherBatch : History!Apply(NoRequest, Revision, ops)
  BY DEF OtherWrites
<1>2. UNCHANGED <<abandoned, tab, up, down, orphans, nextId>> /\ Calmer
  BY CountedIs DEF OtherWrites
<1>3. Grows(nextId, store, store')
  BY <1>1, OtherNames, ApplyGrows DEF IInv
<1>4. \E r : Adds(r)
  <2>1. PICK r : r = [req |-> NoRequest, base |-> Revision, ops |-> ops,
                      revision |-> store.snapshot.revision + 1, proposal |-> 0]
    BY Zenon
  <2>2. /\ r.req = NoRequest /\ r.ops = ops /\ r.base = Revision
        /\ r.revision = store.snapshot.revision + 1
    BY <2>1
  <2>3. PICK w, a : /\ w = Redone(store.snapshot.outline, r) /\ a = Append(store.log, r)
                    /\ w = History!ApplyBatch(store.snapshot.outline, ops, Revision,
                                              store.snapshot.revision + 1).w
    BY Zenon, <2>2 DEF Redone
  <2>4. store' = [snapshot |-> [revision |-> store.snapshot.revision + 1,
                                outline |-> w, proposals |-> store.snapshot.proposals],
                  log |-> a]
    BY Zenon, <1>1, <2>1, <2>3 DEF History!Apply, History!Grown, History!Current, History!Proposals
  <2>5. /\ store'.log = a
        /\ store'.snapshot.revision = store.snapshot.revision + 1
        /\ store'.snapshot.outline = w
    BY <2>4
  <2>6. store' # <<>>
    BY <2>4
  <2>7. SaysAll(ops)
    BY OtherAssumption, OpSaid DEF SaysAll
  <2>8. Adds(r)
    BY <2>2, <2>3, <2>5, <2>6, <2>7 DEF Adds, Revision, Outline0
  <2> QED BY <2>8
<1>5. Saves
  BY <1>2, <1>3, <1>4 DEF Saves
<1>6. \A t \in Tab : \E low : Sends(t, down'[t], low)
  BY <1>2, SendsFirst
<1> QED BY <1>2, <1>5, <1>6, SavesOInv

LEMMA SaveDocumentOInv ==
  ASSUME Id = Nat, IInv, OInv, NEW t \in Tab, SaveDocument(t)
  PROVE  OInv'
<1>1. /\ up[t] # <<>> /\ up' = [up EXCEPT ![t] = Tail(up[t])]
      /\ UNCHANGED <<tab, abandoned, orphans, nextId>>
      /\ \/ Accept(Head(up[t])) /\ UNCHANGED count
         \/ Refuse(Head(up[t]), {t})
  BY DEF SaveDocument
<1>2. PICK u, x : u = up[t] /\ x = Head(u)
  OBVIOUS
<1>3. PICK S : u \in Seq(S)
  BY <1>2 DEF IInv, WayUp, Posts
<1>4. /\ 1 \in DOMAIN u /\ x = u[1]
      /\ \A i \in DOMAIN Tail(u) : i + 1 \in DOMAIN u /\ Tail(u)[i] = u[i + 1]
  BY <1>1, <1>2, <1>3
<1>5. Sure(x)
  <2>1. Due(Env, tab, x)
    BY <1>2, <1>4 DEF OInv
  <2>2. Posts(nextId, u) /\ u # <<>>
    BY <1>1, <1>2 DEF IInv, WayUp
  <2> QED BY <1>2, <2>1, <2>2, PostsOn DEF Sure
<1>6. \A v \in Tab : \A i \in DOMAIN up'[v] : \E j \in DOMAIN up[v] : up'[v][i] = up[v][j]
  <2>1. up = [v \in Tab |-> up[v]]
    BY DEF IInv, WayUp
  <2>2. up'[t] = Tail(u) /\ \A v \in Tab \ {t} : up'[v] = up[v]
    BY <1>1, <1>2, <2>1
  <2>3. \A i \in DOMAIN up'[t] : \E j \in DOMAIN up[t] : up'[t][i] = up[t][j]
    BY <2>2, <1>4, <1>2
  <2> QED BY Zenon, <2>2, <2>3
<1> QED BY <1>1, <1>2, <1>5, <1>6, AcceptOInv, RefuseOInv

LEMMA SaveOrphanOInv ==
  ASSUME Id = Nat, IInv, OInv, SaveOrphan
  PROVE  OInv'
<1>1. PICK x \in orphans : /\ orphans' = orphans \ {x}
                           /\ \/ Accept(x) /\ UNCHANGED count
                              \/ Refuse(x, {})
  BY DEF SaveOrphan
<1>2. UNCHANGED <<tab, abandoned, up, nextId>>
  BY DEF SaveOrphan
<1>3. Sure(x)
  BY DEF Sure, OInv, IInv, WayUp
<1> QED BY <1>1, <1>2, <1>3, AcceptOInv, RefuseOInv

-----------------------------------------------------------------------------
(* What a tab makes of its document *)

\* The document of a message, too.
LEMMA GrownMessage ==
  ASSUME NEW N, NEW msg, Plain(N, msg)
  PROVE  Grown(msg.items)
BY ParentFirst DEF Plain, Grown

\* A tab may save what it has, on the document some tab knows of, with a
\* request that was not made before.
Unmade(f, q) == q \notin f.gone /\ \A r \in DOMAIN f.log : f.log[r].req # q
SavesOn(f, t, m, b) ==
  /\ IsTab(m) /\ Basic(f, m) /\ m.synced /\ ~m.saveRejected
  /\ Unmade(f, <<t, m.saves + 1>>)
  /\ Basic(f, b) /\ Rests(f, t, b) /\ b.synced /\ b.items = m.items
  /\ b.revision <= m.revision

Saved(t, m, n) ==
  /\ n.saves = m.saves + 1 /\ n.revision = m.revision
  /\ n.inFlight # NoSave /\ n.inFlight.req = <<t, m.saves + 1>>

LEMMA SavingOwns ==
  ASSUME NEW f, NEW t \in Tab, NEW m, NEW b, SavesOn(f, t, m, b), NEW n, n = Saving(t, m, b)
  PROVE  Owns(f, t, n) /\ Saved(t, m, n)
<1> USE DEF SavesOn, Saved
<1>0. PICK q : q = <<t, m.saves + 1>> /\ q \notin f.gone /\ \A r \in DOMAIN f.log : f.log[r].req # q
  BY DEF Unmade
<1>1. PICK c, x : /\ c = [m EXCEPT !.canonical = b.canonical, !.revision = b.revision]
                  /\ x = NewSave(t, c)
  OBVIOUS
<1>2. /\ c.canonical = b.canonical /\ c.revision = b.revision
      /\ c.items = m.items /\ c.saves = m.saves
  BY <1>1 DEF IsTab
<1>3. /\ x.baseItems = b.canonical /\ x.base = b.revision
      /\ x.items = m.items /\ x.req = q
  BY <1>0, <1>1, <1>2 DEF NewSave
<1>4. n = [m EXCEPT !.inFlight = x, !.saves = @ + 1]
  BY <1>1 DEF Saving
<1>5. n = [items |-> m.items, past |-> m.past, dirty |-> m.dirty,
           canonical |-> m.canonical, revision |-> m.revision,
           inFlight |-> x, saves |-> m.saves + 1, error |-> m.error,
           saveRejected |-> m.saveRejected, synced |-> m.synced, online |-> m.online]
  BY Zenon, <1>4 DEF IsTab
<1>6. /\ n.inFlight = x /\ n.synced = m.synced /\ n.saves = m.saves + 1
      /\ n.canonical = m.canonical /\ n.revision = m.revision
      /\ n.items = m.items /\ n.past = m.past /\ n.saveRejected = m.saveRejected
  BY <1>5
<1>7. m.saves \in Nat /\ m.saves + 1 # 0 /\ m.saves + 1 \in Nat
  BY DEF Basic
<1>8. x # NoSave
  <2>1. q # NoRequest
    BY <1>0, <1>7, RequestAssumption
  <2> QED BY <1>3, <2>1 DEF NoSave
<1>9. Basic(f, n)
  BY <1>6, <1>7 DEF Basic
<1>10. x.base \in 1..m.revision
  BY <1>3 DEF Basic
<1>11. Sound(x)
  BY <1>3 DEF Basic, Sound, Grown
<1>12. \A r \in DOMAIN f.log : Mine(f, t, f.log[r].req) => r <= x.base
  BY <1>3 DEF Rests
<1>13. f.retry = 0 => DOMAIN x.items.node \cap Buried(f.log, x.base) = {}
  BY <1>3 DEF Rests
<1>14. Waits(f, t, n)
  BY <1>0, <1>3, <1>6, <1>7, <1>10, <1>11, <1>12, <1>13 DEF Waits
<1> QED BY <1>0, <1>3, <1>6, <1>8, <1>9, <1>14 DEF Owns

-----------------------------------------------------------------------------
(* The end of a step of a tab *)

LEMMA HearsNothing ==
  ASSUME IInv, OInv, NEW t \in Tab, UNCHANGED down
  PROVE  Hears(t, tab[t].revision)
<1>1. down = [x \in Tab |-> down[x]]
  BY DEF IInv, WayDown
<1>2. PICK d : d = down[t]
  OBVIOUS
<1>3. down' = [down EXCEPT ![t] = d]
  BY <1>1, <1>2
<1>4. Rising(d)
  BY <1>2 DEF OInv
<1>5. \A i \in DOMAIN d : d[i].kind # "Error" => tab[t].revision <= d[i].revision
  BY <1>2 DEF OInv, Tells
<1> QED BY <1>2, <1>3, <1>4, <1>5 DEF Hears

LEMMA HearsOne ==
  ASSUME IInv, OInv, NEW t \in Tab, Receives(t), NEW revision,
         \/ revision = tab[t].revision
         \/ Next0(t).kind # "Error" /\ revision = Next0(t).revision
  PROVE  /\ Hears(t, revision) /\ Tells(Env, t, tab[t], Next0(t))
         /\ Next0(t).kind # "Error" => /\ tab[t].revision <= Next0(t).revision
                                       /\ Next0(t).revision \in 0..Len(Log)
<1>1. PICK d : d = down[t]
  OBVIOUS
<1>2. PICK S : d \in Seq(S)
  BY <1>1 DEF IInv, WayDown, Carries
<1>3. PICK k \in Nat : k = Len(d) /\ DOMAIN d = 1..k
  BY <1>2, LenProperties
<1>4. d # <<>> /\ down' = [down EXCEPT ![t] = Tail(d)]
  BY <1>1 DEF Receives
<1>5. k # 0
  BY <1>2, <1>3, <1>4, EmptySeq
<1>6. PICK z : z = Tail(d)
  BY Zenon
<1>7. Next0(t) = d[1] /\ 1 \in DOMAIN d
  BY <1>1, <1>3, <1>5 DEF Next0
<1>8. DOMAIN z = 1..(k - 1) /\ \A i \in 1..(k - 1) : z[i] = d[i + 1]
  BY <1>2, <1>3, <1>4, <1>6
<1>9. \A i \in DOMAIN d : Tells(Env, t, tab[t], d[i])
  BY <1>1 DEF OInv
<1>10. Rising(d)
  BY <1>1 DEF OInv
<1>11. ASSUME NEW i \in 1..(k - 1)
       PROVE  /\ i + 1 \in DOMAIN d /\ 1 < i + 1 /\ z[i] = d[i + 1]
              /\ d[i + 1].kind # "Error" => revision <= d[i + 1].revision
  BY <1>3, <1>8, <1>9, <1>7, <1>10 DEF Tells, Rising
<1>12. Rising(z)
  <2> SUFFICES ASSUME NEW i \in 1..(k - 1), NEW j \in 1..(k - 1), i < j,
                      z[i].kind # "Error", z[j].kind # "Error"
               PROVE  z[i].revision <= z[j].revision
    BY <1>8 DEF Rising
  <2>1. i + 1 < j + 1
    OBVIOUS
  <2> QED BY <1>10, <1>11, <2>1 DEF Rising
<1>13. Hears(t, revision)
  <2>1. down' = [down EXCEPT ![t] = z]
    BY <1>4, <1>6
  <2>2. \A i \in DOMAIN z : \E j \in DOMAIN down[t] : z[i] = down[t][j]
    BY <1>1, <1>8, <1>11
  <2>3. \A i \in DOMAIN z : z[i].kind # "Error" => revision <= z[i].revision
    BY <1>8, <1>11
  <2> QED BY <1>12, <2>1, <2>2, <2>3 DEF Hears
<1>14. Next0(t).kind # "Error" => Next0(t).revision \in 0..Len(Log)
  BY <1>1, <1>7, DownIs
<1> QED BY <1>7, <1>9, <1>13, <1>14 DEF Tells

\* The end of an update: the tab goes on as it was, or with a new save.
Goes(t, b, n) ==
  /\ n.revision = b.revision
  /\ \/ n.inFlight = b.inFlight /\ n.saves = b.saves
     \/ b.inFlight = NoSave /\ n.inFlight.req = <<t, b.saves + 1>> /\ n.saves = b.saves + 1
SendsOwn(n, out) == out = <<>> \/ (n.inFlight # NoSave /\ out = Posted(n.inFlight))

LEMMA PostStepOInv ==
  ASSUME IInv, OInv, NEW t \in Tab, UNCHANGED <<store, orphans>>,
         nextId' \in Nat, nextId <= nextId', Calmer, NEW m, m = tab[t], GivesUp(m),
         NEW n, NEW out, Post(t, n, out),
         SendsOwn(n, out),
         Follows(Env, abandoned', t, m, n), Owns(Env', t, n), Hears(t, n.revision)
  PROVE  OInv'
<1>2. PICK w, x, u : w = up[t] /\ x = n.inFlight /\ u = w \o out
  BY Zenon
<1>3. tab' = [tab EXCEPT ![t] = n] /\ up' = [up EXCEPT ![t] = u]
  BY <1>2 DEF Post
<1>4. PICK S : w \in Seq(S)
  BY <1>2 DEF IInv, WayUp, Posts
<1>5. out = <<>> \/ (x # NoSave /\ out = <<x>>)
  BY <1>2 DEF Posted, SendsOwn
<1>6. \A i \in DOMAIN u : \/ x # NoSave /\ u[i] = x
                          \/ \E j \in DOMAIN w : u[i] = w[j]
  <2>1. PICK R : R = S \cup {x}
    BY Zenon
  <2>2. w \in Seq(R)
    BY <1>4, <2>1, SeqMonotonic
  <2>3. CASE out = <<>>
    <3>1. u = w
      BY <1>2, <1>4, <2>3
    <3> QED BY <3>1
  <2>4. CASE x # NoSave /\ out = <<x>>
    <3>1. x \in R
      BY <2>1
    <3>2. u = Append(w, x)
      BY <1>2, <2>2, <2>4, <3>1, AppendIsConcat
    <3>3. PICK k \in Nat : k = Len(w) /\ DOMAIN w = 1..k
      BY <2>2, LenProperties
    <3>4. DOMAIN u = 1..(k + 1) /\ u[k + 1] = x /\ \A i \in 1..k : u[i] = w[i]
      BY <2>2, <3>1, <3>2, <3>3, AppendProperties
    <3>5. ASSUME NEW i \in 1..(k + 1)
          PROVE  \/ x # NoSave /\ u[i] = x
                 \/ \E j \in DOMAIN w : u[i] = w[j]
      <4>1. CASE i = k + 1
        BY <2>4, <3>4, <4>1
      <4>2. CASE i \in 1..k
        BY <3>3, <3>4, <4>2
      <4> QED BY <3>3, <4>1, <4>2
    <3> QED BY <3>4, <3>5
  <2> QED BY <1>5, <2>3, <2>4
<1>7. Says(t, x)
  <2>1. \A i \in DOMAIN u : \/ x # NoSave /\ u[i] = x
                            \/ \E j \in DOMAIN up[t] : u[i] = up[t][j]
    BY <1>2, <1>6
  <2>2. up' = [up EXCEPT ![t] = u]
    BY <1>3
  <2> QED BY <2>1, <2>2, Zenon DEF Says
<1>8. Says(t, n.inFlight) /\ tab' = [tab EXCEPT ![t] = n]
  BY <1>2, <1>3, <1>7
<1>9. UNCHANGED store /\ \A z \in orphans' : z \in orphans
  OBVIOUS
<1> QED BY Zenon, <1>8, <1>9, TabStepOInv

\* A request that was not made before.
LEMMA NextRequest ==
  ASSUME IInv, OInv, NEW t \in Tab, UNCHANGED store, NEW m, m = tab[t], GivesUp(m),
         NEW f, f = Env'
  PROVE  Unmade(f, <<t, m.saves + 1>>)
<1>1. f.gone = abandoned' /\ f.log = Log /\ Len(Log) \in Nat
  BY DEF Env, Log, IInv, Kept
<1>2. PICK q : q = <<t, m.saves + 1>>
  BY Zenon
<1>3. m.saves \in Nat /\ (m.inFlight # NoSave => m.inFlight.req \in Given)
  BY WaitsIs
<1>4. q \notin Given /\ q # NoRequest
  BY <1>2, <1>3, RequestAssumption DEF Given
<1>5. q \notin abandoned'
  BY <1>3, <1>4 DEF GivesUp, OInv
<1>6. \A r \in DOMAIN Log : Log[r].req # q
  BY <1>4 DEF OInv
<1> QED BY <1>1, <1>2, <1>5, <1>6 DEF Unmade

LEMMA UpdateEnds ==
  ASSUME NEW f, Len(f.log) \in Nat, NEW t \in Tab, NEW b, IsTab(b), Owns(f, t, b),
         Unmade(f, <<t, b.saves + 1>>), Update(t, b)
  PROVE  \E n, out : Post(t, n, out) /\ SendsOwn(n, out) /\ Goes(t, b, n) /\ Owns(f, t, n)
<1>1. CASE MaySave(b)
  <2>1. PICK n : n = Saving(t, b, b)
    OBVIOUS
  <2>2. b.inFlight = NoSave /\ b.synced
    BY <1>1 DEF MaySave
  <2>3. Basic(f, b) /\ Rests(f, t, b)
    BY <2>2 DEF Owns
  <2>4. ~b.saveRejected /\ b.revision \in Nat
    BY <2>3 DEF Rests, Basic
  <2>5. SavesOn(f, t, b, b)
    BY <2>2, <2>3, <2>4 DEF SavesOn
  <2>6. /\ Owns(f, t, n) /\ n.saves = b.saves + 1 /\ n.inFlight # NoSave
        /\ n.inFlight.req = <<t, b.saves + 1>> /\ n.revision = b.revision
    <3>1. Owns(f, t, n) /\ Saved(t, b, n)
      BY <2>1, <2>5, SavingOwns
    <3> QED BY <3>1 DEF Saved
  <2>7. PICK out : out = Posted(n.inFlight) /\ Post(t, n, out)
    BY <1>1, <2>1 DEF Update
  <2>8. Goes(t, b, n) /\ SendsOwn(n, out)
    BY <2>2, <2>6, <2>7 DEF Goes, SendsOwn
  <2> QED BY <2>6, <2>7, <2>8
<1>2. CASE ~MaySave(b)
  BY <1>2 DEF Update, Goes, SendsOwn
<1> QED BY <1>1, <1>2

\* A tab as it is before the end of an update.
LEMMA UpdateOInv ==
  ASSUME IInv, OInv, NEW t \in Tab, UNCHANGED <<store, orphans>>,
         nextId' \in Nat, nextId <= nextId', Calmer, NEW m, m = tab[t], GivesUp(m),
         NEW b, IsTab(b), Update(t, b), b.saves = m.saves,
         Follows(Env, abandoned', t, m, b), Owns(Env', t, b), Hears(t, b.revision)
  PROVE  OInv'
<1>1. PICK f : f = Env'
  OBVIOUS
<1>2. Unmade(f, <<t, b.saves + 1>>) /\ Len(f.log) \in Nat
  <2>1. Unmade(f, <<t, m.saves + 1>>)
    BY <1>1, NextRequest
  <2>2. Log' = Log /\ Len(Log) \in Nat
    BY DEF Log, IInv, Kept
  <2> QED BY <1>1, <2>1, <2>2 DEF Env
<1>3. PICK n, out : Post(t, n, out) /\ SendsOwn(n, out) /\ Goes(t, b, n) /\ Owns(f, t, n)
  <2>1. Owns(f, t, b)
    BY <1>1
  <2> QED BY <1>2, <2>1, UpdateEnds
<1>4. Follows(Env, abandoned', t, m, n) /\ n.revision = b.revision
  BY <1>3 DEF Follows, Goes
<1>5. Owns(Env', t, n) /\ Hears(t, n.revision)
  BY <1>1, <1>3, <1>4
<1> QED BY <1>3, <1>4, <1>5, PostStepOInv

\* The number of the saves of a tab does not go down.
Becomes(t, saves, n) == n.saves \in {saves, saves + 1} /\ tab' = [tab EXCEPT ![t] = n]

\* An update goes on from what it was before.
LEMMA UpdateLater ==
  ASSUME IInv, OInv, NEW t \in Tab, UNCHANGED store,
         nextId' \in Nat, nextId <= nextId', Calmer, abandoned \subseteq abandoned',
         NEW m, m = tab[t], NEW n, Becomes(t, m.saves, n)
  PROVE  /\ Later(Env, Env')
         /\ UNCHANGED abandoned => Owns(Env', t, m)
<1>1. m.saves \in Nat /\ Owns(Env, t, m)
  BY WaitsIs
<1>2. Given \subseteq Given'
  BY Zenon, <1>1, GivenGrows DEF Becomes
<1>3. Log' = Log
  BY DEF Log
<1>4. Later(Env, Env')
  BY <1>2, <1>3, StepIsLater
<1>5. ASSUME UNCHANGED abandoned
      PROVE  Owns(Env', t, m)
  BY <1>3, <1>5, WaitsIs, <1>1, <1>4, OwnsStill DEF Env, Suits, Waits
<1> QED BY <1>4, <1>5

LEMMA UpdateIs ==
  ASSUME NEW t, NEW b, IsTab(b), Update(t, b)
  PROVE  \E n : Becomes(t, b.saves, n)
<1>1. CASE MaySave(b)
  <2>1. PICK n, save : n = Saving(t, b, b) /\ n = [b EXCEPT !.inFlight = save, !.saves = @ + 1]
    BY DEF Saving
  <2>2. n = [items |-> b.items, past |-> b.past, dirty |-> b.dirty,
             canonical |-> b.canonical, revision |-> b.revision,
             inFlight |-> save, saves |-> b.saves + 1, error |-> b.error,
             saveRejected |-> b.saveRejected, synced |-> b.synced, online |-> b.online]
    BY <2>1 DEF IsTab
  <2>3. n.saves = b.saves + 1
    BY <2>2
  <2>4. tab' = [tab EXCEPT ![t] = n]
    BY <1>1, <2>1 DEF Update, Post
  <2>5. Becomes(t, b.saves, n)
    BY <2>3, <2>4 DEF Becomes
  <2> QED BY <2>5
<1>2. CASE ~MaySave(b)
  <2>1. tab' = [tab EXCEPT ![t] = b]
    BY <1>2 DEF Update, Post
  <2>2. Becomes(t, b.saves, b)
    BY <2>1 DEF Becomes
  <2> QED BY <2>2
<1> QED BY <1>1, <1>2

\* A tab with the same save.
LEMMA SameSaveOwns ==
  ASSUME NEW f, NEW t, NEW m, Owns(f, t, m), NEW n,
         n.saves = m.saves, n.revision = m.revision, n.synced = m.synced,
         n.canonical = m.canonical, n.inFlight = m.inFlight, n.saveRejected = m.saveRejected,
         Grown(n.items), n.past # NoPast => Grown(n.past),
         f.retry = 0 /\ m.synced /\ m.inFlight = NoSave =>
           (DOMAIN n.items.node \cup NamesOf(n.past)) \cap Buried(f.log, m.revision) = {}
  PROVE  Owns(f, t, n)
<1>1. Basic(f, n)
  BY DEF Owns, Basic
<1>2. CASE m.inFlight = NoSave
  BY <1>1, <1>2 DEF Owns, Rests
<1>3. CASE m.inFlight # NoSave
  <2>1. PICK x : x = m.inFlight /\ x = n.inFlight
    OBVIOUS
  <2>2. Waits(f, t, m)
    BY <1>3 DEF Owns
  <2>3. Waits(f, t, n)
    BY <2>1, <2>2 DEF Waits
  <2> QED BY <1>1, <1>3, <2>3 DEF Owns
<1> QED BY <1>2, <1>3

-----------------------------------------------------------------------------
(* The user *)

LEMMA BasicStill ==
  ASSUME NEW e, NEW f, Later(e, f), NEW m, Basic(e, m)
  PROVE  Basic(f, m)
<1>1. /\ Len(e.log) \in Nat /\ Len(f.log) \in Nat /\ Len(e.log) <= Len(f.log)
      /\ \A rev \in 0..Len(e.log) : Buried(f.log, rev) = Buried(e.log, rev)
  BY LaterLog
<1>2. m.revision \in 0..Len(e.log) /\ m.revision \in 0..Len(f.log)
  BY <1>1 DEF Basic
<1>3. Ids(e.next) \subseteq Ids(f.next)
  BY IdsMore DEF Later
<1> QED BY <1>1, <1>2, <1>3 DEF Basic

\* What is known after an update of a tab.
LEMMA UpdateStill ==
  ASSUME IInv, OInv, NEW t \in Tab, UNCHANGED store,
         nextId' \in Nat, nextId <= nextId', Calmer, abandoned \subseteq abandoned',
         NEW m, m = tab[t], NEW b, IsTab(b), b.saves = m.saves, Update(t, b)
  PROVE  /\ Later(Env, Env') /\ Basic(Env, m) /\ Basic(Env', m)
         /\ UNCHANGED abandoned => Owns(Env', t, m)
BY UpdateIs, UpdateLater, WaitsIs, BasicStill DEF Owns

\* An update that leaves the save alone and the message queue, too.
LEMMA OwnUpdateOInv ==
  ASSUME IInv, OInv, NEW t \in Tab, UNCHANGED <<store, orphans, abandoned, down>>,
         nextId' \in Nat, nextId <= nextId', Calmer, NEW m, m = tab[t],
         NEW b, IsTab(b), Update(t, b), b.saves = m.saves, b.inFlight = m.inFlight,
         b.revision = m.revision, Owns(Env', t, b)
  PROVE  OInv'
BY HearsNothing, UpdateOInv DEF Follows, GivesUp

\* One that may give the save up.
LEMMA GiveUpOInv ==
  ASSUME IInv, OInv, NEW t \in Tab, UNCHANGED <<store, orphans, down, nextId>>, Calmer,
         NEW m, m = tab[t], m.inFlight # NoSave, abandoned' = abandoned \cup {m.inFlight.req},
         NEW b, IsTab(b), Update(t, b), b.saves = m.saves, b.inFlight = NoSave,
         b.revision = m.revision, b.synced = m.synced, b.canonical = m.canonical,
         ~b.saveRejected, Grown(b.items), b.past # NoPast => Grown(b.past),
         count'["retry"] # 0 \/ (b.items = m.canonical /\ b.past = NoPast)
  PROVE  OInv'
<1>1. nextId' \in Nat /\ nextId <= nextId'
  BY IdleFacts
<1>2. PICK e, f, x : e = Env /\ f = Env' /\ x = m.inFlight
  OBVIOUS
<1>3. Later(e, f) /\ Basic(e, m) /\ Basic(f, m)
  BY <1>1, <1>2, UpdateStill
<1>4. Waits(e, t, m) /\ m.saves \in Nat /\ m.revision \in 0..Len(Log) /\ Len(Log) \in Nat
  BY <1>2, WaitsIs DEF IInv, Kept, Log
<1>5. /\ f.log = e.log /\ e.log = Log /\ e.gone = abandoned /\ f.gone = abandoned'
      /\ f.retry = count'["retry"]
  BY <1>2 DEF Env, Log
<1>6. Basic(f, b)
  BY <1>3 DEF Basic
<1>7. \A r \in DOMAIN f.log : Mine(f, t, f.log[r].req) => r <= b.revision
  <2> SUFFICES ASSUME NEW r \in DOMAIN f.log, Mine(f, t, f.log[r].req)
               PROVE  r <= b.revision
    OBVIOUS
  <2>1. Mine(e, t, e.log[r].req) /\ e.log[r].req # x.req
    BY <1>2, <1>5 DEF Mine
  <2>2. r <= x.base /\ x.base \in 1..m.revision
    BY <1>2, <1>4, <1>5, <2>1 DEF Waits
  <2>3. r \in Nat
    <3>1. \E S : Log \in Seq(S)
      BY DEF IInv, Kept, Log
    <3> QED BY <1>5, <3>1
  <2> QED BY <1>4, <2>2, <2>3
<1>8. f.retry = 0 /\ b.synced =>
        (DOMAIN b.items.node \cup NamesOf(b.past)) \cap Buried(f.log, b.revision) = {}
  BY <1>3, <1>5 DEF Basic, NamesOf
<1>9. Owns(f, t, b)
  BY <1>6, <1>7, <1>8 DEF Owns, Rests
<1>10. Follows(Env, abandoned', t, m, b)
  BY DEF Follows
<1>11. Hears(t, b.revision)
  BY HearsNothing
<1>12. GivesUp(m)
  BY DEF GivesUp
<1>13. Owns(Env', t, b)
  BY <1>2, <1>9
<1> QED BY <1>1, <1>10, <1>11, <1>12, <1>13, UpdateOInv

\* An edit brings no id but a new one.
LEMMA EditNames ==
  ASSUME nextId \in Nat, NEW items, IsDoc(items, Drafts(nextId)),
         NEW op \in UserOps(items), NEW k,
         k = IF op.type = "insert" THEN nextId + 1 ELSE nextId,
         NEW doc, doc = ToItems(ReplayOp(items, op))
  PROVE  /\ Grown(doc) /\ k \in Nat /\ nextId <= k
         /\ DOMAIN doc.node \subseteq DOMAIN items.node \cup {nextId, Undefined}
<1>1. PICK d, K : d = ReplayOp(items, op) /\ K = Drafts(k)
  OBVIOUS
<1>2. /\ k \in Nat /\ nextId <= k
      /\ IsOp(op, K) /\ IsDoc(items, K) /\ Undefined \in K
  BY <1>1, UserOpIs
<1>3. /\ IsDoc(d, K)
      /\ \A n \in DOMAIN d.node : n # Undefined =>
           \/ op.type \in {"insert", "update"} /\ op.id = n
           \/ n \in DOMAIN items.node
  BY <1>1, <1>2, ReplayOpIs
<1>4. DOMAIN doc.node \subseteq DOMAIN d.node
  BY <1>1, <1>3, ToItemsIsDoc
<1>5. Grown(doc)
  BY <1>1, <1>3, GrownWalk DEF IsDoc
<1>6. op.type \in {"insert", "update"} => op.id \in DOMAIN items.node \cup {nextId}
  BY DEF UserOps
<1> QED BY <1>2, <1>3, <1>4, <1>5, <1>6

LEMMA EditOInv ==
  ASSUME Id = Nat, IInv, OInv, NEW t \in Tab, Edit(t)
  PROVE  OInv'
<1>1. PICK m : m = tab[t]
  OBVIOUS
<1>2. PICK op \in UserOps(m.items) :
        /\ Update(t, Edited(m, ToItems(ReplayOp(m.items, op))))
        /\ nextId' = IF op.type = "insert" THEN nextId + 1 ELSE nextId
  BY <1>1 DEF Edit
<1>3. PICK items, n : items = ToItems(ReplayOp(m.items, op)) /\ n = Edited(m, items)
  OBVIOUS
<1>4. IsTab(m) /\ IsDoc(m.items, Drafts(nextId)) /\ nextId \in Nat
  BY <1>1, TabIs
<1>5. /\ Grown(items) /\ nextId' \in Nat /\ nextId <= nextId'
      /\ DOMAIN items.node \subseteq DOMAIN m.items.node \cup {nextId, Undefined}
  BY <1>2, <1>3, <1>4, EditNames
<1>6. n = [m EXCEPT !.items = items, !.past = m.items, !.dirty = TRUE]
  BY <1>3 DEF Edited
<1>7. n = [items |-> items, past |-> m.items, dirty |-> TRUE,
           canonical |-> m.canonical, revision |-> m.revision,
           inFlight |-> m.inFlight, saves |-> m.saves, error |-> m.error,
           saveRejected |-> m.saveRejected, synced |-> m.synced, online |-> m.online]
  BY Zenon, <1>4, <1>6 DEF IsTab
<1>8. /\ IsTab(n) /\ n.saves = m.saves /\ n.revision = m.revision /\ n.synced = m.synced
      /\ n.canonical = m.canonical /\ n.inFlight = m.inFlight
      /\ n.saveRejected = m.saveRejected /\ n.items = items /\ n.past = m.items
  BY <1>7 DEF IsTab
<1>9. Update(t, n) /\ UNCHANGED <<store, orphans, abandoned, down>>
  BY <1>2, <1>3 DEF Edit
<1>10. Calmer
  BY CountedIs DEF Edit
<1>11. PICK e, f : e = Env /\ f = Env'
  OBVIOUS
<1>12. Basic(e, m) /\ Owns(f, t, m)
  BY <1>1, <1>5, <1>8, <1>9, <1>10, <1>11, UpdateStill
<1>13. f.log = e.log /\ e.next = nextId
  BY <1>9, <1>11 DEF Env, Log
<1>14. ASSUME f.retry = 0, m.synced, m.inFlight = NoSave
       PROVE  (DOMAIN n.items.node \cup NamesOf(n.past)) \cap Buried(f.log, m.revision) = {}
  <2>1. PICK B : B = Buried(f.log, m.revision)
    OBVIOUS
  <2>2. B \subseteq Ids(nextId)
    BY <1>12, <1>13, <1>14, <2>1 DEF Basic
  <2>3. nextId \notin B /\ Undefined \notin B
    <3>1. nextId \notin Ids(nextId) /\ Ids(nextId) \subseteq Nat
      BY <1>4 DEF Ids
    <3>2. Undefined \notin Nat
      BY UndefinedAssumption
    <3> QED BY <2>2, <3>1, <3>2
  <2>4. DOMAIN m.items.node \cap B = {}
    BY <1>12, <1>14, <2>1 DEF Owns, Rests
  <2>5. NamesOf(n.past) \subseteq DOMAIN m.items.node
    BY <1>8 DEF NamesOf
  <2> QED BY <1>5, <1>8, <2>1, <2>3, <2>4, <2>5
<1>15. Grown(n.items) /\ Grown(n.past)
  BY <1>5, <1>8, <1>12 DEF Basic
<1>16. Owns(f, t, n)
  BY <1>8, <1>12, <1>14, <1>15, SameSaveOwns
<1>17. Owns(Env', t, n)
  BY <1>11, <1>16
<1> QED BY <1>1, <1>5, <1>8, <1>9, <1>10, <1>17, OwnUpdateOInv

LEMMA UndoOInv ==
  ASSUME IInv, OInv, NEW t \in Tab, Undo(t)
  PROVE  OInv'
<1>1. PICK m, n : m = tab[t]
                  /\ n = [m EXCEPT !.items = m.past, !.past = NoPast, !.dirty = TRUE]
  BY Zenon
<1>2. IsTab(m)
  BY <1>1, TabIs
<1>3. n = [items |-> m.past, past |-> NoPast, dirty |-> TRUE,
           canonical |-> m.canonical, revision |-> m.revision,
           inFlight |-> m.inFlight, saves |-> m.saves, error |-> m.error,
           saveRejected |-> m.saveRejected, synced |-> m.synced, online |-> m.online]
  BY Zenon, <1>1, <1>2 DEF IsTab
<1>4. /\ IsTab(n) /\ n.saves = m.saves /\ n.revision = m.revision /\ n.synced = m.synced
      /\ n.canonical = m.canonical /\ n.inFlight = m.inFlight
      /\ n.saveRejected = m.saveRejected /\ n.items = m.past /\ n.past = NoPast
  BY <1>3 DEF IsTab
<1>5. /\ Update(t, n) /\ UNCHANGED <<store, orphans, abandoned, down, nextId>>
      /\ m.past # NoPast
  BY <1>1 DEF Undo
<1>6. Calmer /\ nextId' \in Nat /\ nextId <= nextId'
  BY <1>5, CountedIs, IdleFacts DEF Undo
<1>7. PICK f : f = Env'
  OBVIOUS
<1>8. Owns(f, t, m)
  BY Zenon, <1>1, <1>4, <1>5, <1>6, <1>7, UpdateStill
<1>9. ASSUME f.retry = 0, m.synced, m.inFlight = NoSave
      PROVE  (DOMAIN n.items.node \cup NamesOf(n.past)) \cap Buried(f.log, m.revision) = {}
  BY <1>8, <1>9, <1>4, <1>5 DEF Owns, Rests, NamesOf
<1>10. Grown(n.items) /\ n.past = NoPast
  BY <1>4, <1>5, <1>8 DEF Owns, Basic
<1>11. Owns(f, t, n)
  BY <1>4, <1>8, <1>9, <1>10, SameSaveOwns
<1>12. Owns(Env', t, n)
  BY <1>7, <1>11
<1> QED BY Zenon, <1>1, <1>4, <1>5, <1>6, <1>12, OwnUpdateOInv

LEMMA RetriedEditOInv ==
  ASSUME IInv, OInv, NEW t \in Tab, RetriedEdit(t)
  PROVE  OInv'
<1>1. PICK m : m = tab[t]
  OBVIOUS
<1>2. PICK rest :
        Update(t, [Edited(m, ToItems(Replay(m.canonical, rest))) EXCEPT
                     !.inFlight = NoSave, !.error = FALSE, !.saveRejected = FALSE])
        /\ \E known : rest = StillThere(Diff(m.inFlight.baseItems, m.items), known)
  BY Zenon, <1>1 DEF RetriedEdit
<1>3. PICK items, e, n :
        /\ items = ToItems(Replay(m.canonical, rest)) /\ e = Edited(m, items)
        /\ n = [e EXCEPT !.inFlight = NoSave, !.error = FALSE, !.saveRejected = FALSE]
  BY Zenon
<1>4. /\ IsTab(m) /\ Founded(Log, nextId, m) /\ nextId \in Nat
      /\ IsDoc(m.items, Drafts(nextId)) /\ IsDoc(m.canonical, Drafts(nextId))
  BY <1>1, TabIs
<1>5. /\ m.inFlight # NoSave /\ abandoned' = abandoned \cup {m.inFlight.req}
      /\ UNCHANGED <<store, orphans, down, nextId>> /\ Update(t, n)
  BY <1>1, <1>2, <1>3 DEF RetriedEdit
<1>6. IsTree(items) /\ Grown(items)
  <2>1. IsDoc(m.inFlight.baseItems, Drafts(nextId))
    BY <1>4, <1>5, IsDocMore DEF Founded, Drawn, Drafts
  <2>2. PICK K, ops : K = Drafts(nextId) /\ ops = Diff(m.inFlight.baseItems, m.items)
    OBVIOUS
  <2>3. LeadsTo(ops, m.items, K)
    BY <1>4, <2>1, <2>2, DiffIs DEF Drafts
  <2>4. LeadsTo(rest, m.items, K)
    BY <1>2, <2>2, <2>3, StillThereIs
  <2>5. IsDoc(Replay(m.canonical, rest), K)
    BY <1>4, <2>2, <2>4, ReplayIs DEF Drafts
  <2> QED BY <1>3, <2>5, GrownWalk DEF IsDoc, Grown
<1>7. e = [items |-> items, past |-> m.items, dirty |-> TRUE,
           canonical |-> m.canonical, revision |-> m.revision,
           inFlight |-> m.inFlight, saves |-> m.saves, error |-> m.error,
           saveRejected |-> m.saveRejected, synced |-> m.synced, online |-> m.online]
  BY Zenon, <1>3, <1>4 DEF IsTab, Edited
<1>8. /\ IsTab(e) /\ e.synced = m.synced /\ e.canonical = m.canonical /\ e.saves = m.saves
      /\ e.revision = m.revision /\ e.items = items /\ e.past = m.items
  BY <1>7 DEF IsTab
<1>9. n = [items |-> e.items, past |-> e.past, dirty |-> e.dirty,
           canonical |-> e.canonical, revision |-> e.revision,
           inFlight |-> NoSave, saves |-> e.saves, error |-> FALSE,
           saveRejected |-> FALSE, synced |-> e.synced, online |-> e.online]
  BY Zenon, <1>3, <1>8 DEF IsTab
<1>10. /\ IsTab(n) /\ n.saves = m.saves /\ n.inFlight = NoSave /\ n.revision = m.revision
       /\ n.synced = m.synced /\ n.canonical = m.canonical /\ ~n.saveRejected
       /\ n.items = items /\ n.past = m.items
  BY <1>8, <1>9 DEF IsTab
<1>11. Calmer /\ count'["retry"] # 0
  BY CountedIs DEF RetriedEdit
<1>12. Grown(n.items) /\ Grown(n.past)
  BY <1>1, <1>6, <1>10, WaitsIs DEF Owns, Basic
<1> QED BY <1>1, <1>5, <1>10, <1>11, <1>12, GiveUpOInv

LEMMA DiscardedEditOInv ==
  ASSUME IInv, OInv, NEW t \in Tab, DiscardedEdit(t)
  PROVE  OInv'
<1>1. PICK m, e, n : /\ m = tab[t] /\ e = Loaded(m, m.canonical)
                     /\ n = [e EXCEPT !.inFlight = NoSave, !.error = FALSE,
                                      !.saveRejected = FALSE]
  BY Zenon
<1>2. IsTab(m)
  BY <1>1, TabIs
<1>3. e = [items |-> m.canonical, past |-> NoPast, dirty |-> FALSE,
           canonical |-> m.canonical, revision |-> m.revision,
           inFlight |-> m.inFlight, saves |-> m.saves, error |-> m.error,
           saveRejected |-> m.saveRejected, synced |-> m.synced, online |-> m.online]
  BY Zenon, <1>1, <1>2 DEF IsTab, Loaded
<1>4. /\ IsTab(e) /\ e.synced = m.synced /\ e.canonical = m.canonical /\ e.saves = m.saves
      /\ e.revision = m.revision /\ e.items = m.canonical /\ e.past = NoPast
  BY <1>3 DEF IsTab
<1>5. n = [items |-> e.items, past |-> e.past, dirty |-> e.dirty,
           canonical |-> e.canonical, revision |-> e.revision,
           inFlight |-> NoSave, saves |-> e.saves, error |-> FALSE,
           saveRejected |-> FALSE, synced |-> e.synced, online |-> e.online]
  BY Zenon, <1>1, <1>4 DEF IsTab
<1>6. /\ IsTab(n) /\ n.saves = m.saves /\ n.inFlight = NoSave /\ n.revision = m.revision
      /\ n.synced = m.synced /\ n.canonical = m.canonical /\ ~n.saveRejected
      /\ n.items = m.canonical /\ n.past = NoPast
  BY <1>4, <1>5 DEF IsTab
<1>7. /\ abandoned' = abandoned \cup {m.inFlight.req} /\ m.saveRejected
      /\ UNCHANGED <<store, orphans, down, nextId>> /\ Update(t, n)
  BY <1>1 DEF DiscardedEdit
<1>8. m.inFlight # NoSave
  BY <1>1, <1>7, WaitsIs DEF Owns, Rests
<1>9. Calmer
  BY CountsSame DEF DiscardedEdit
<1>10. Grown(n.items)
  BY <1>1, <1>6, WaitsIs DEF Owns, Basic
<1> QED BY Zenon, <1>1, <1>6, <1>7, <1>8, <1>9, <1>10, GiveUpOInv

-----------------------------------------------------------------------------
(* New names for deleted ids *)

\* They differ from each other and from the names that are kept.
LEMMA AliasApart ==
  ASSUME Id = Nat, nextId \in Nat, NEW dead, dead \subseteq Ids(nextId),
         NEW x \in Drafts(nextId) \cup {Root}, NEW y \in Drafts(nextId) \cup {Root},
         Alias(dead, x) = Alias(dead, y)
  PROVE  x = y
<1>1. Undefined \notin Nat /\ Root \notin Nat
  BY UndefinedAssumption, IdAssumption
<1>2. Cardinality(dead) \in Nat
  BY IdsFinite
<1>3. ASSUME NEW z \in Drafts(nextId) \cup {Root}
      PROVE  /\ z \notin dead => Alias(dead, z) = z
             /\ z \in dead => Alias(dead, z) \in Nat /\ Alias(dead, z) \notin Ids(nextId)
  BY Zenon, AliasIs DEF Ids
<1>4. CASE x \notin dead \/ y \notin dead
  BY <1>1, <1>3, <1>4 DEF Drafts
<1>5. CASE x \in dead /\ y \in dead
  <2>1. x \in Nat /\ y \in Nat
    BY <1>5 DEF Ids
  <2>2. ASSUME NEW a \in dead, NEW b \in dead, a < b
        PROVE  Alias(dead, a) # Alias(dead, b)
    <3>1. PICK below, lower : below = {d \in dead : d < b} /\ lower = {d \in dead : d < a}
      OBVIOUS
    <3>2. \A d \in dead : d \in Nat
      BY DEF Ids
    <3>3. below \subseteq Ids(nextId) /\ lower \in SUBSET below /\ a \in below /\ a \notin lower
      BY <2>2, <3>1, <3>2
    <3>4. IsFiniteSet(below) /\ Cardinality(below) \in Nat
      BY <3>3, IdsFinite
    <3>5. /\ IsFiniteSet(lower) /\ Cardinality(lower) <= Cardinality(below)
          /\ Cardinality(below) = Cardinality(lower) => below = lower
      BY <3>3, <3>4, FS_Subset
    <3>6. Cardinality(lower) \in Nat
      BY <3>5, FS_CardinalityType
    <3>7. Cardinality(lower) < Cardinality(below)
      BY <3>3, <3>4, <3>5, <3>6
    <3> QED BY <3>1, <3>4, <3>6, <3>7 DEF Alias
  <2> QED BY <1>5, <2>1, <2>2
<1> QED BY <1>4, <1>5

\* A renamed tree is one, and has none of the names.
LEMMA RenamedGrown ==
  ASSUME Id = Nat, nextId \in Nat, NEW dead, dead \subseteq Ids(nextId),
         NEW doc, Grown(doc), IsDoc(doc, Drafts(nextId)), doc # NoPast,
         NEW e, e = Renamed(doc, dead)
  PROVE  /\ Grown(e) /\ DOMAIN e.node \cap dead = {}
         /\ DOMAIN e.node \subseteq DOMAIN doc.node \cup Ids(nextId + Cardinality(dead))
         /\ \A n \in DOMAIN e.node : n \in Ids(nextId) => n \in DOMAIN doc.node
<1>1. PICK s, node : s = doc.order /\ node = doc.node
  OBVIOUS
<1>2. /\ s \in Seq(ToSet(s)) /\ Distinct(s) /\ DOMAIN node = ToSet(s)
      /\ \A n \in ToSet(s) : /\ node[n] = [parent |-> node[n].parent, val |-> node[n].val]
                             /\ node[n].parent \in {Root} \cup ToSet(s)
  BY <1>1 DEF Grown, IsTree
<1>3. ToSet(s) \subseteq Drafts(nextId)
  BY <1>1, ToSetIn DEF IsDoc
<1>4. PICK m : m = Len(s) /\ m \in Nat /\ DOMAIN s = 1..m /\ ToSet(s) = {s[k] : k \in 1..m}
  BY <1>2, LenProperties DEF ToSet
<1>5. PICK D : D = {Alias(dead, y) : y \in ToSet(s)}
  BY Zenon
<1>6. PICK x, z :
        /\ x = [n \in {Alias(dead, y) : y \in DOMAIN node} |->
                  LET y == CHOOSE w \in DOMAIN node : Alias(dead, w) = n
                  IN  [node[y] EXCEPT !.parent = Alias(dead, @)]]
        /\ z = [k \in DOMAIN s |-> Alias(dead, s[k])]
  BY Zenon
<1>7. e = [node |-> x, order |-> z] /\ e.node = x /\ e.order = z
  BY <1>1, <1>6 DEF Renamed
<1>8. z \in Seq(D) /\ Len(z) = m /\ DOMAIN z = 1..m /\ \A k \in 1..m : z[k] = Alias(dead, s[k])
  BY <1>4, <1>5, <1>6
<1>9. ToSet(z) = D
  BY <1>4, <1>5, <1>8 DEF ToSet
<1>10. \A y, w \in ToSet(s) \cup {Root} : Alias(dead, y) = Alias(dead, w) => y = w
  BY <1>3, AliasApart
<1>11. ASSUME NEW y \in ToSet(s), NEW n, n = Alias(dead, y)
       PROVE  x[n] = [parent |-> Alias(dead, node[y].parent), val |-> node[y].val]
  BY <1>2, <1>10, <1>11, <1>6
<1>12. Alias(dead, Root) = Root
  BY Zenon, IdAssumption DEF Alias, Ids
<1>13. ASSUME NEW n \in D
       PROVE  /\ x[n] = [parent |-> x[n].parent, val |-> x[n].val]
              /\ x[n].parent \in {Root} \cup D
  <2>1. PICK y \in ToSet(s) : n = Alias(dead, y)
    BY <1>5
  <2>2. PICK p, v, r : p = Alias(dead, node[y].parent) /\ v = node[y].val /\ r = x[n]
    OBVIOUS
  <2>3. r = [parent |-> p, val |-> v]
    BY <1>11, <2>1, <2>2
  <2>4. p \in {Root} \cup D
    BY <1>2, <1>5, <1>12, <2>2
  <2> QED BY <2>2, <2>3, <2>4
<1>14. x = [n \in D |-> [parent |-> x[n].parent, val |-> x[n].val]]
  BY <1>2, <1>5, <1>6, <1>13
<1>15. Distinct(z)
  <2> SUFFICES ASSUME NEW i \in 1..m, NEW j \in 1..m, z[i] = z[j] PROVE i = j
    BY <1>8 DEF Distinct
  <2>1. s[i] \in ToSet(s) /\ s[j] \in ToSet(s)
    BY <1>4
  <2>2. s[i] = s[j]
    BY <1>8, <1>10, <2>1
  <2> QED BY <1>2, <1>4, <2>2 DEF Distinct
<1>16. IsTree(e)
  BY <1>7, <1>8, <1>9, <1>13, <1>14, <1>15 DEF IsTree
<1>17. Led(e)
  <2> SUFFICES ASSUME NEW i \in 1..m
               PROVE  \/ x[z[i]].parent = Root
                      \/ \E j \in 1..m : j < i /\ z[j] = x[z[i]].parent
    BY <1>7, <1>8 DEF Led
  <2>1. s[i] \in ToSet(s) /\ z[i] = Alias(dead, s[i])
    BY <1>4, <1>8
  <2>2. PICK p, v, r : p = Alias(dead, node[s[i]].parent) /\ v = node[s[i]].val /\ r = x[z[i]]
    OBVIOUS
  <2>3. r = [parent |-> p, val |-> v]
    BY <1>11, <2>1, <2>2
  <2>4. r.parent = p
    BY <2>3
  <2>5. CASE node[s[i]].parent = Root
    BY <1>12, <2>2, <2>4, <2>5
  <2>6. CASE \E j \in 1..m : j < i /\ s[j] = node[s[i]].parent
    BY <1>8, <2>2, <2>4, <2>6
  <2> QED BY <1>1, <1>4, <2>5, <2>6 DEF Grown, Led
<1>18. DOMAIN e.node = D
  BY <1>7, <1>14
<1>19. ASSUME NEW n \in D
       PROVE  /\ n \notin dead /\ n \in DOMAIN doc.node \cup Ids(nextId + Cardinality(dead))
              /\ n \in Ids(nextId) => n \in DOMAIN doc.node
  <2>1. PICK y \in ToSet(s) : n = Alias(dead, y)
    BY <1>5
  <2> QED BY <1>1, <1>2, <2>1, AliasIs
<1> QED BY <1>16, <1>17, <1>18, <1>19 DEF Grown

\* The history of a tab may be empty.
LEMMA RenamedNames ==
  ASSUME Id = Nat, nextId \in Nat, NEW dead, dead \subseteq Ids(nextId),
         NEW doc, doc # NoPast => Grown(doc) /\ IsDoc(doc, Drafts(nextId)),
         NEW e, e = Renamed(doc, dead)
  PROVE  /\ e # NoPast => Grown(e)
         /\ NamesOf(e) \cap dead = {}
         /\ \A n \in NamesOf(e) : n \in Ids(nextId) => n \in NamesOf(doc)
<1>1. CASE doc = NoPast
  BY <1>1 DEF Renamed, NamesOf
<1>2. CASE doc # NoPast
  BY Zenon, <1>2, RenamedGrown DEF NamesOf
<1> QED BY <1>1, <1>2

-----------------------------------------------------------------------------
(* Steps of a tab that give nothing up *)

LEMMA OwnsLater ==
  ASSUME IInv, OInv, Later(Env, Env'), UNCHANGED <<store, abandoned>>,
         NEW t \in Tab, NEW n, Owns(Env, t, n)
  PROVE  Owns(Env', t, n)
BY OwnsStill DEF Env, Log, Suits, Owns, Waits

LEMMA RequestIsNew ==
  ASSUME IInv, OInv, NEW t \in Tab, UNCHANGED <<store, abandoned>>
  PROVE  Unmade(Env, <<t, tab[t].saves + 1>>)
<1>1. PICK m, e, f, q : m = tab[t] /\ e = Env /\ f = Env' /\ q = <<t, m.saves + 1>>
  OBVIOUS
<1>2. GivesUp(m)
  BY DEF GivesUp
<1>3. Unmade(f, q)
  BY <1>1, <1>2, NextRequest
<1>4. f.log = e.log /\ f.gone = e.gone
  BY <1>1 DEF Env, Log
<1>5. Unmade(e, q)
  BY <1>3, <1>4 DEF Unmade
<1> QED BY <1>1, <1>5

\* The revision a tab that has received a message knows.
Learns(t, revision) ==
  \/ revision = tab[t].revision
  \/ Next0(t).kind # "Error" /\ revision = Next0(t).revision

LEMMA ReceivedOInv ==
  ASSUME IInv, OInv, NEW t \in Tab, Receives(t), nextId' \in Nat, nextId <= nextId',
         NEW m, m = tab[t], NEW b, IsTab(b), Update(t, b), b.saves = m.saves,
         Learns(t, b.revision), Follows(Env, abandoned, t, m, b), Owns(Env, t, b)
  PROVE  OInv'
BY Zenon, CountsSame, UpdateStill, OwnsLater, HearsOne, UpdateOInv DEF Receives, Learns,
   GivesUp

LEMMA PostedOInv ==
  ASSUME IInv, OInv, NEW t \in Tab, Receives(t), nextId' \in Nat, nextId <= nextId',
         NEW m, m = tab[t], NEW n, NEW out, Post(t, n, out), SendsOwn(n, out),
         Learns(t, n.revision), Follows(Env, abandoned, t, m, n), Owns(Env, t, n)
  PROVE  OInv'
<1>1. UNCHANGED <<store, orphans, abandoned, count>>
  BY DEF Receives
<1>2. Calmer
  BY <1>1, CountsSame
<1>3. Becomes(t, m.saves, n)
  BY DEF Becomes, Post, Follows
<1>4. Later(Env, Env')
  BY <1>1, <1>2, <1>3, UpdateLater
<1>5. Owns(Env', t, n)
  BY <1>1, <1>4, OwnsLater
<1>6. Hears(t, n.revision)
  BY HearsOne DEF Learns
<1>7. GivesUp(m) /\ Follows(Env, abandoned', t, m, n)
  BY <1>1 DEF GivesUp
<1> QED BY <1>1, <1>2, <1>5, <1>6, <1>7, PostStepOInv

\* What is known of a message with a document.
Newer(m, msg) ==
  /\ Grown(msg.items) /\ m.revision <= msg.revision
  /\ msg.revision \in 0..Len(Log) /\ msg.revision # 0
  /\ msg.tombs = Buried(Log, msg.revision) /\ msg.tombs \subseteq Ids(nextId)
  /\ DOMAIN msg.items.node \cap msg.tombs = {}

LEMMA MessageIs ==
  ASSUME IInv, OInv, NEW t \in Tab, Receives(t), Next0(t).kind # "Error"
  PROVE  Newer(tab[t], Next0(t)) /\ Tells(Env, t, tab[t], Next0(t))
<1>1. PICK m, msg : m = tab[t] /\ msg = Next0(t) /\ msg.kind # "Error"
  OBVIOUS
<1>2. /\ Tells(Env, t, m, msg) /\ m.revision <= msg.revision
      /\ msg.revision \in 0..Len(Log)
  <2>1. tab[t].revision = tab[t].revision
    OBVIOUS
  <2> QED BY <1>1, <2>1, HearsOne
<1>3. Faithful(Log, nextId, msg)
  BY <1>1, ReceivesFacts
<1>4. Plain(nextId, msg) /\ msg.revision # 0
  BY <1>1, <1>3 DEF Faithful, Knows
<1>5. msg.tombs = Buried(Log, msg.revision)
  BY <1>1, <1>2 DEF Tells, Env
<1>6. msg.tombs \subseteq Ids(nextId) /\ DOMAIN msg.items.node \cap msg.tombs = {}
  BY <1>4 DEF Plain
<1>7. Newer(m, msg)
  BY <1>2, <1>4, <1>5, <1>6, GrownMessage DEF Newer
<1> QED BY <1>1, <1>2, <1>7

\* A tab takes it over.
TakesOver(m, msg, n) ==
  /\ n = TakenOver(m, msg) /\ IsTab(n)
  /\ n.canonical = msg.items /\ n.revision = msg.revision
  /\ n.inFlight = m.inFlight /\ n.saves = m.saves /\ n.saveRejected = m.saveRejected
  /\ n.synced = m.synced /\ n.items = m.items /\ n.past = m.past /\ n.dirty = m.dirty

LEMMA TakenOverIs ==
  ASSUME IInv, NEW t \in Tab, Receives(t), Next0(t).kind # "Error"
  PROVE  TakesOver(tab[t], Next0(t), TakenOver(tab[t], Next0(t)))
BY TabIs, ReceivesFacts, TakenOverFounded DEF TakesOver

LEMMA TakenOverBasic ==
  ASSUME NEW e, e.log = Log, e.next = nextId, NEW m, Basic(e, m), NEW msg, Newer(m, msg),
         NEW n, TakesOver(m, msg, n)
  PROVE  Basic(e, n)
BY DEF Basic, Newer, TakesOver

-----------------------------------------------------------------------------
(* The messages *)

LEMMA ReceiveErrorOInv ==
  ASSUME IInv, OInv, NEW t \in Tab, ReceiveError(t)
  PROVE  OInv'
<1>1. Receives(t) /\ UNCHANGED nextId /\ Next0(t).kind = "Error"
  BY DEF ReceiveError
<1>2. PICK m, e, msg : m = tab[t] /\ e = Env /\ msg = Next0(t)
  OBVIOUS
<1>3. PICK rejected :
        /\ Update(t, [m EXCEPT !.error = TRUE, !.saveRejected = rejected])
        /\ rejected = (m.saveRejected \/ (m.inFlight # NoSave /\ msg.req = m.inFlight.req))
  BY Zenon, <1>2 DEF ReceiveError, Waiting
<1>4. IsTab(m) /\ Owns(e, t, m) /\ Tells(e, t, m, msg)
  BY Zenon, <1>1, <1>2, TabIs, WaitsIs, HearsOne
<1>5. PICK n : n = [m EXCEPT !.error = TRUE, !.saveRejected = rejected]
  OBVIOUS
<1>6. n = [items |-> m.items, past |-> m.past, dirty |-> m.dirty,
           canonical |-> m.canonical, revision |-> m.revision,
           inFlight |-> m.inFlight, saves |-> m.saves, error |-> TRUE,
           saveRejected |-> rejected, synced |-> m.synced, online |-> m.online]
  BY Zenon, <1>4, <1>5 DEF IsTab
<1>7. /\ IsTab(n) /\ n.synced = m.synced /\ n.canonical = m.canonical
      /\ n.revision = m.revision /\ n.inFlight = m.inFlight /\ n.saves = m.saves
      /\ n.items = m.items /\ n.past = m.past /\ n.saveRejected = rejected
  BY <1>6 DEF IsTab
<1>8. Basic(e, n)
  BY <1>4, <1>7 DEF Owns, Basic
<1>9. ASSUME m.inFlight = NoSave
      PROVE  Owns(e, t, n)
  <2>1. Rests(e, t, m) /\ ~n.saveRejected
    BY <1>3, <1>4, <1>7, <1>9 DEF Owns, Rests
  <2>2. Rests(e, t, n)
    BY <1>7, <2>1 DEF Rests
  <2> QED BY <1>7, <1>8, <1>9, <2>2 DEF Owns
<1>10. ASSUME m.inFlight # NoSave
       PROVE  Owns(e, t, n)
  <2>1. PICK x : x = m.inFlight /\ x = n.inFlight
    BY <1>7
  <2>2. Waits(e, t, m)
    BY <1>4, <1>10 DEF Owns
  <2>3. n.saveRejected /\ e.fail = 0 => Excused(e, t, x)
    <3>1. m.saveRejected /\ e.fail = 0 => Excused(e, t, x)
      BY <2>1, <2>2 DEF Waits
    <3>2. msg.req = x.req /\ e.fail = 0 => Excused(e, t, x)
      BY <1>1, <1>2, <1>4, <1>10, <2>1 DEF Tells
    <3> QED BY Zenon, <1>3, <1>7, <2>1, <3>1, <3>2
  <2>4. Waits(e, t, n)
    BY <1>7, <2>1, <2>2, <2>3 DEF Waits
  <2> QED BY <1>7, <1>8, <1>10, <2>4 DEF Owns
<1>11. Owns(e, t, n)
  BY <1>9, <1>10
<1>12. Update(t, n) /\ Learns(t, n.revision) /\ Follows(e, abandoned, t, m, n)
  BY <1>2, <1>3, <1>5, <1>7 DEF Learns, Follows
<1>13. nextId' \in Nat /\ nextId <= nextId'
  BY <1>1, IdleFacts
<1> QED BY <1>1, <1>2, <1>7, <1>11, <1>12, <1>13, ReceivedOInv

LEMMA ReceiveWaitingOInv ==
  ASSUME IInv, OInv, NEW t \in Tab, ReceiveSnapshotWaiting(t) \/ ReceiveOtherChange(t)
  PROVE  OInv'
<1>1. /\ Receives(t) /\ Next0(t).kind # "Error" /\ UNCHANGED nextId
      /\ tab[t].inFlight # NoSave
  BY DEF ReceiveSnapshotWaiting, ReceiveOtherChange, Waiting
<1>2. PICK m, msg, n, e : m = tab[t] /\ msg = Next0(t) /\ n = TakenOver(m, msg) /\ e = Env
  OBVIOUS
<1>3. TakesOver(m, msg, n) /\ Newer(m, msg)
  BY <1>1, <1>2, TakenOverIs, MessageIs
<1>4. Owns(e, t, m) /\ e.log = Log /\ e.next = nextId
  BY <1>2, WaitsIs DEF Env
<1>5. Basic(e, n)
  BY <1>3, <1>4, TakenOverBasic DEF Owns
<1>6. PICK x : x = m.inFlight /\ x = n.inFlight /\ x # NoSave
  BY <1>1, <1>2, <1>3 DEF TakesOver
<1>7. Waits(e, t, m)
  BY <1>4, <1>6 DEF Owns
<1>8. x.base \in 1..n.revision
  <2>1. x.base \in 1..m.revision /\ m.revision <= n.revision
    BY <1>3, <1>6, <1>7 DEF Waits, TakesOver, Newer
  <2>2. m.revision \in 0..Len(Log) /\ n.revision \in 0..Len(Log) /\ Len(Log) \in Nat
    BY <1>4, <1>5 DEF Basic, Owns, IInv, Kept, Log
  <2> QED BY <2>1, <2>2
<1>9. n.synced = m.synced /\ n.saves = m.saves /\ n.saveRejected = m.saveRejected
  BY <1>3 DEF TakesOver
<1>10. Waits(e, t, n)
  BY <1>6, <1>7, <1>8, <1>9 DEF Waits
<1>11. Owns(e, t, n)
  BY <1>5, <1>6, <1>10 DEF Owns
<1>12. PICK out : Post(t, n, out) /\ out \in {<<>>, Posted(m.inFlight)}
  BY <1>2 DEF ReceiveSnapshotWaiting, ReceiveOtherChange
<1>13. SendsOwn(n, out)
  BY <1>6, <1>12 DEF SendsOwn
<1>14. Learns(t, n.revision) /\ Follows(e, abandoned, t, m, n)
  BY <1>1, <1>2, <1>3 DEF Learns, Follows, TakesOver
<1>15. nextId' \in Nat /\ nextId <= nextId'
  BY <1>1, IdleFacts
<1> QED BY <1>1, <1>2, <1>11, <1>12, <1>13, <1>14, <1>15, PostedOInv

LEMMA ReceiveWithEditsOInv ==
  ASSUME IInv, OInv, NEW t \in Tab, ReceiveWithEdits(t)
  PROVE  OInv'
<1>1. /\ Receives(t) /\ Next0(t).kind # "Error" /\ tab[t].synced /\ tab[t].dirty
      /\ UNCHANGED nextId /\ tab[t].inFlight = NoSave
  BY DEF ReceiveWithEdits, Waiting
<1>2. PICK m, msg, n, o, e : /\ m = tab[t] /\ msg = Next0(t) /\ n = TakenOver(m, msg)
                             /\ o = Saving(t, n, m) /\ e = Env
  OBVIOUS
<1>3. TakesOver(m, msg, n) /\ Newer(m, msg)
  BY <1>1, <1>2, TakenOverIs, MessageIs
<1>4. Owns(e, t, m) /\ e.log = Log /\ e.next = nextId
  BY <1>2, WaitsIs DEF Env
<1>5. Basic(e, m) /\ Rests(e, t, m) /\ Basic(e, n)
  BY <1>1, <1>2, <1>3, <1>4, TakenOverBasic DEF Owns
<1>6. Unmade(e, <<t, n.saves + 1>>)
  BY <1>1, <1>2, <1>3, RequestIsNew DEF TakesOver, Receives
<1>7. SavesOn(e, t, n, m)
  BY <1>1, <1>2, <1>3, <1>5, <1>6 DEF TakesOver, Rests, Newer, SavesOn
<1>8. Owns(e, t, o) /\ Saved(t, n, o)
  BY <1>2, <1>7, SavingOwns
<1>9. PICK out : out = Posted(o.inFlight) /\ Post(t, o, out)
  BY <1>2 DEF ReceiveWithEdits
<1>10. SendsOwn(o, out)
  BY <1>8, <1>9 DEF SendsOwn, Saved
<1>11. o.revision = msg.revision /\ o.saves = m.saves + 1 /\ o.inFlight.req = <<t, m.saves + 1>>
  BY <1>3, <1>8 DEF Saved, TakesOver
<1>12. Learns(t, o.revision) /\ Follows(e, abandoned, t, m, o)
  BY <1>1, <1>2, <1>11 DEF Learns, Follows
<1>13. nextId' \in Nat /\ nextId <= nextId'
  BY <1>1, IdleFacts
<1> QED BY <1>1, <1>2, <1>8, <1>9, <1>10, <1>12, <1>13, PostedOInv

\* A tab that has nothing on its way learns of later commits.
LEMMA RestsOn ==
  ASSUME NEW e, Len(e.log) \in Nat, DOMAIN e.log = 1..Len(e.log), NEW t,
         NEW m, Basic(e, m), NEW o, Basic(e, o),
         m.revision <= o.revision, ~o.saveRejected,
         \A r \in DOMAIN e.log : Mine(e, t, e.log[r].req) => r <= m.revision \/ r <= o.revision,
         o.synced => (DOMAIN o.items.node \cup NamesOf(o.past)) \cap Buried(e.log, o.revision) = {}
  PROVE  Rests(e, t, o)
<1>1. m.revision \in Nat /\ o.revision \in Nat
  BY DEF Basic
<1>2. ASSUME NEW r \in DOMAIN e.log, Mine(e, t, e.log[r].req)
      PROVE  r <= o.revision
  <2>1. r \in Nat
    OBVIOUS
  <2> QED BY <1>1, <1>2, <2>1
<1> QED BY <1>2 DEF Rests

LEMMA ReceiveDocumentOInv ==
  ASSUME IInv, OInv, NEW t \in Tab, ReceiveDocument(t)
  PROVE  OInv'
<1>1. /\ Receives(t) /\ Next0(t).kind # "Error" /\ UNCHANGED nextId
      /\ tab[t].inFlight = NoSave
  BY DEF ReceiveDocument, Waiting
<1>2. PICK m, msg, n, e : m = tab[t] /\ msg = Next0(t) /\ n = TakenOver(m, msg) /\ e = Env
  OBVIOUS
<1>3. TakesOver(m, msg, n) /\ Newer(m, msg)
  BY <1>1, <1>2, TakenOverIs, MessageIs
<1>4. Owns(e, t, m) /\ e.log = Log /\ e.next = nextId
  BY <1>2, WaitsIs DEF Env
<1>5. PICK l, o : l = Loaded(n, msg.items) /\ o = [l EXCEPT !.synced = TRUE]
  BY Zenon
<1>6. l = [items |-> msg.items, past |-> NoPast, dirty |-> FALSE,
           canonical |-> n.canonical, revision |-> n.revision,
           inFlight |-> n.inFlight, saves |-> n.saves, error |-> n.error,
           saveRejected |-> n.saveRejected, synced |-> n.synced, online |-> n.online]
  BY Zenon, <1>3, <1>5 DEF IsTab, Loaded, TakesOver
<1>7. /\ IsTab(l) /\ l.canonical = n.canonical /\ l.revision = n.revision
      /\ l.inFlight = n.inFlight /\ l.items = msg.items /\ l.past = NoPast
      /\ l.saves = n.saves /\ l.saveRejected = n.saveRejected
  BY <1>6 DEF IsTab
<1>8. o = [items |-> l.items, past |-> l.past, dirty |-> l.dirty,
           canonical |-> l.canonical, revision |-> l.revision,
           inFlight |-> l.inFlight, saves |-> l.saves, error |-> l.error,
           saveRejected |-> l.saveRejected, synced |-> TRUE, online |-> l.online]
  BY Zenon, <1>5, <1>7 DEF IsTab
<1>9. /\ IsTab(o) /\ o.canonical = msg.items /\ o.revision = msg.revision
      /\ o.inFlight = NoSave /\ o.items = msg.items /\ o.past = NoPast
      /\ o.saves = m.saves /\ o.saveRejected = m.saveRejected /\ o.synced = TRUE
  BY <1>1, <1>2, <1>3, <1>7, <1>8 DEF IsTab, TakesOver
<1>10. Basic(e, m) /\ Rests(e, t, m)
  BY <1>1, <1>2, <1>4 DEF Owns
<1>11. Basic(e, o)
  BY <1>3, <1>4, <1>9, <1>10 DEF Basic, Newer
<1>12. Rests(e, t, o)
  <2>1. Len(e.log) \in Nat /\ DOMAIN e.log = 1..Len(e.log)
    BY <1>4 DEF IInv, Kept, Log
  <2>2. m.revision <= o.revision /\ ~o.saveRejected
    BY <1>3, <1>9, <1>10 DEF Newer, Rests
  <2>3. \A r \in DOMAIN e.log : Mine(e, t, e.log[r].req) => r <= m.revision
    BY <1>10 DEF Rests
  <2>4. (DOMAIN o.items.node \cup NamesOf(o.past)) \cap Buried(e.log, o.revision) = {}
    BY <1>3, <1>4, <1>9 DEF Newer, NamesOf
  <2> QED BY <1>10, <1>11, <2>1, <2>2, <2>3, <2>4, RestsOn
<1>13. Owns(e, t, o)
  BY <1>9, <1>11, <1>12 DEF Owns
<1>14. Update(t, o)
  BY <1>2, <1>5 DEF ReceiveDocument
<1>15. Learns(t, o.revision) /\ Follows(e, abandoned, t, m, o)
  BY <1>1, <1>2, <1>9 DEF Learns, Follows
<1>16. nextId' \in Nat /\ nextId <= nextId'
  BY <1>1, IdleFacts
<1> QED BY <1>1, <1>2, <1>9, <1>13, <1>14, <1>15, <1>16, ReceivedOInv

\* A tab that has its answer renews the ids that were deleted.
LEMMA AnsweredOwns ==
  ASSUME Id = Nat, IInv, OInv, NEW t \in Tab, NEW m, m = tab[t],
         NEW msg, msg.kind # "Error", Tells(Env, t, m, msg), Newer(m, msg),
         m.inFlight # NoSave, msg.req = m.inFlight.req,
         NEW o, IsTab(o), Answered(m, msg, o)
  PROVE  Owns(Env, t, o)
<1>1. PICK e, x : e = Env /\ x = m.inFlight /\ e.log = Log /\ e.next = nextId
  BY DEF Env
<1>2. PICK items, dead :
        /\ Grown(items) /\ IsDoc(items, Drafts(nextId))
        /\ dead = (NamesOf(items) \cup NamesOf(m.past)) \cap msg.tombs
        /\ o.items = Renamed(items, dead) /\ o.past = Renamed(m.past, dead)
  BY DEF Answered
<1>3. nextId \in Nat /\ IsPast(nextId, m.past) /\ Owns(e, t, m)
  BY <1>1, TabIs, WaitsIs
<1>4. dead \subseteq Ids(nextId)
  BY <1>2 DEF Newer
<1>5. m.past # NoPast => Grown(m.past) /\ IsDoc(m.past, Drafts(nextId))
  BY <1>3 DEF Owns, Basic, IsPast
<1>6. items # NoPast
  <2>1. items = [node |-> items.node, order |-> items.order]
    BY <1>2 DEF Grown, IsTree
  <2> QED BY <2>1 DEF NoPast
<1>7. /\ o.past # NoPast => Grown(o.past)
      /\ NamesOf(o.past) \cap dead = {}
      /\ \A n \in NamesOf(o.past) : n \in Ids(nextId) => n \in NamesOf(m.past)
  BY <1>2, <1>3, <1>4, <1>5, RenamedNames
<1>8. /\ Grown(o.items) /\ DOMAIN o.items.node \cap dead = {}
      /\ \A n \in DOMAIN o.items.node : n \in Ids(nextId) => n \in NamesOf(items)
  <2>1. PICK y : y = o.items /\ y = Renamed(items, dead)
    BY <1>2
  <2>2. /\ Grown(y) /\ DOMAIN y.node \cap dead = {}
        /\ \A n \in DOMAIN y.node : n \in Ids(nextId) => n \in DOMAIN items.node
    <3>1. nextId \in Nat /\ Grown(items) /\ IsDoc(items, Drafts(nextId))
      BY <1>2, <1>3
    <3> QED BY <1>4, <1>6, <2>1, <3>1, RenamedGrown, ZenonT(30)
  <2> QED BY <1>6, <2>1, <2>2 DEF NamesOf
<1>9. /\ o.saves = m.saves /\ o.inFlight = NoSave /\ o.saveRejected = FALSE
      /\ o.synced = TRUE /\ o.canonical = msg.items /\ o.revision = msg.revision
  BY DEF Answered
<1>10. Basic(e, m)
  BY <1>3 DEF Owns
<1>11. Basic(e, o)
  BY <1>1, <1>7, <1>8, <1>9, <1>10 DEF Basic, Newer
<1>12. Waits(e, t, m)
  BY <1>3 DEF Owns
<1>13. Len(e.log) \in Nat /\ DOMAIN e.log = 1..Len(e.log)
  BY <1>1 DEF IInv, Kept, Log
<1>14. ASSUME NEW r \in DOMAIN e.log, Mine(e, t, e.log[r].req)
       PROVE  r <= m.revision \/ r <= o.revision
  BY <1>1, <1>12, <1>14, <1>10, <1>13, <1>9 DEF Waits, Basic, Tells
<1>15. (DOMAIN o.items.node \cup NamesOf(o.past)) \cap Buried(e.log, o.revision) = {}
  <2>1. Buried(e.log, o.revision) = msg.tombs /\ msg.tombs \subseteq Ids(nextId)
    BY <1>1, <1>9 DEF Newer
  <2> SUFFICES ASSUME NEW n \in DOMAIN o.items.node \cup NamesOf(o.past), n \in msg.tombs
               PROVE  FALSE
    BY <2>1
  <2>2. n \in NamesOf(items) \cup NamesOf(m.past)
    BY <1>7, <1>8, <2>1
  <2>3. n \in dead
    BY <1>2, <2>2
  <2> QED BY <1>7, <1>8, <2>3
<1>16. Rests(e, t, o)
  BY Zenon, <1>9, <1>10, <1>11, <1>13, <1>14, <1>15, RestsOn DEF Newer
<1>17. Owns(e, t, o)
  BY <1>9, <1>11, <1>16 DEF Owns
<1> QED BY <1>1, <1>17

LEMMA ReceiveAnswerOInv ==
  ASSUME Id = Nat, IInv, OInv, NEW t \in Tab, ReceiveAnswer(t)
  PROVE  OInv'
<1>1. PICK m, msg : m = tab[t] /\ msg = Next0(t)
  OBVIOUS
<1>2. /\ Receives(t) /\ msg.kind # "Error" /\ m.inFlight # NoSave
      /\ msg.req = m.inFlight.req
  BY <1>1 DEF ReceiveAnswer, Waiting
<1>3. PICK o : /\ Update(t, o) /\ nextId' \in Nat /\ nextId <= nextId'
               /\ IsTab(o) /\ Answered(m, msg, o)
  BY <1>1, AnswerIs
<1>4. Newer(m, msg) /\ Tells(Env, t, m, msg)
  BY <1>1, <1>2, MessageIs
<1>5. Owns(Env, t, o)
  BY <1>1, <1>2, <1>3, <1>4, AnsweredOwns
<1>6. Over(Env, m.inFlight)
  BY <1>2, <1>4 DEF Tells
<1>7. o.saves = m.saves /\ o.inFlight = NoSave /\ o.revision = msg.revision
  BY <1>3 DEF Answered
<1>8. Learns(t, o.revision) /\ Follows(Env, abandoned, t, m, o)
  BY <1>1, <1>2, <1>6, <1>7 DEF Learns, Follows
<1> QED BY <1>1, <1>2, <1>3, <1>5, <1>7, <1>8, ReceivedOInv

-----------------------------------------------------------------------------
(* The connection *)

LEMMA SaysNothing ==
  ASSUME IInv, NEW t \in Tab, UNCHANGED up, NEW x
  PROVE  Says(t, x)
BY Zenon DEF IInv, WayUp, Says

\* A tab with the same save and the same documents.
LEMMA FlaggedOwns ==
  ASSUME NEW f, NEW t, NEW m, Owns(f, t, m), NEW n,
         n.saves = m.saves, n.revision = m.revision, n.synced = m.synced,
         n.canonical = m.canonical, n.inFlight = m.inFlight, n.saveRejected = m.saveRejected,
         n.items = m.items, n.past = m.past
  PROVE  Owns(f, t, n)
<1>1. Grown(n.items) /\ (n.past # NoPast => Grown(n.past))
  BY DEF Owns, Basic
<1>2. f.retry = 0 /\ m.synced /\ m.inFlight = NoSave =>
        (DOMAIN n.items.node \cup NamesOf(n.past)) \cap Buried(f.log, m.revision) = {}
  BY DEF Owns, Rests
<1> QED BY <1>1, <1>2, SameSaveOwns

LEMMA FlagOInv ==
  ASSUME IInv, OInv, NEW t \in Tab, OpenedSocket(t) \/ SendFailed(t) \/ ReceiveThread(t)
  PROVE  OInv'
<1>1. PICK m : m = tab[t]
  OBVIOUS
<1>2. IsTab(m)
  BY <1>1, TabIs
<1>3. UNCHANGED <<store, orphans, abandoned, down, nextId, count>>
  BY DEF OpenedSocket, SendFailed, ReceiveThread
<1>4. Calmer /\ nextId' \in Nat /\ nextId <= nextId'
  BY <1>3, CountsSame, IdleFacts
<1>5. CASE OpenedSocket(t) \/ ReceiveThread(t)
  <2>1. PICK n, o, e :
          /\ Update(t, n)
          /\ n = [items |-> m.items, past |-> m.past, dirty |-> m.dirty,
                  canonical |-> m.canonical, revision |-> m.revision,
                  inFlight |-> m.inFlight, saves |-> m.saves, error |-> e,
                  saveRejected |-> m.saveRejected, synced |-> m.synced, online |-> o]
    <3>1. CASE OpenedSocket(t)
      <4>1. PICK n : n = [m EXCEPT !.online = TRUE] /\ Update(t, n)
        BY <1>1, <3>1 DEF OpenedSocket
      <4>2. n = [items |-> m.items, past |-> m.past, dirty |-> m.dirty,
                 canonical |-> m.canonical, revision |-> m.revision,
                 inFlight |-> m.inFlight, saves |-> m.saves, error |-> m.error,
                 saveRejected |-> m.saveRejected, synced |-> m.synced, online |-> TRUE]
        BY <1>2, <4>1 DEF IsTab
      <4> QED BY <4>1, <4>2
    <3>2. CASE ReceiveThread(t)
      BY <1>1, <3>2, <1>2 DEF ReceiveThread, IsTab
    <3> QED BY <1>5, <3>1, <3>2
  <2>2. /\ IsTab(n) /\ n.saves = m.saves /\ n.revision = m.revision /\ n.synced = m.synced
        /\ n.canonical = m.canonical /\ n.inFlight = m.inFlight
        /\ n.saveRejected = m.saveRejected /\ n.items = m.items /\ n.past = m.past
    BY <2>1 DEF IsTab
  <2>3. PICK f : f = Env'
    OBVIOUS
  <2>4. Owns(f, t, m)
    BY <1>1, <1>3, <1>4, <2>1, <2>2, <2>3, UpdateStill
  <2>5. Owns(f, t, n)
    BY <2>2, <2>4, FlaggedOwns
  <2>6. Owns(Env', t, n)
    BY <2>3, <2>5
  <2> QED BY <1>1, <1>3, <1>4, <2>1, <2>2, <2>6, OwnUpdateOInv
<1>6. CASE SendFailed(t)
  <2>1. PICK n : n = [m EXCEPT !.dirty = TRUE] /\ tab' = [tab EXCEPT ![t] = n]
    BY Zenon, <1>1, <1>6 DEF SendFailed
  <2>2. n = [items |-> m.items, past |-> m.past, dirty |-> TRUE,
             canonical |-> m.canonical, revision |-> m.revision,
             inFlight |-> m.inFlight, saves |-> m.saves, error |-> m.error,
             saveRejected |-> m.saveRejected, synced |-> m.synced, online |-> m.online]
    BY Zenon, <1>2, <2>1 DEF IsTab
  <2>3. /\ IsTab(n) /\ n.saves = m.saves /\ n.revision = m.revision /\ n.synced = m.synced
        /\ n.canonical = m.canonical /\ n.inFlight = m.inFlight
        /\ n.saveRejected = m.saveRejected /\ n.items = m.items /\ n.past = m.past
    BY <2>2 DEF IsTab
  <2>4. Becomes(t, m.saves, n)
    BY <2>1, <2>3 DEF Becomes
  <2>5. PICK f : f = Env'
    OBVIOUS
  <2>6. Owns(f, t, m)
    BY <1>1, <1>3, <1>4, <2>4, <2>5, UpdateLater
  <2>7. Owns(f, t, n)
    BY <2>3, <2>6, FlaggedOwns
  <2>8. Owns(Env', t, n)
    BY <2>5, <2>7
  <2>9. Says(t, n.inFlight)
    BY <1>6, SaysNothing DEF SendFailed
  <2>10. Hears(t, n.revision)
    BY <1>1, <1>3, <2>3, HearsNothing
  <2>11. GivesUp(m) /\ Follows(Env, abandoned', t, m, n)
    BY <1>3, <2>3 DEF GivesUp, Follows
  <2> QED BY Zenon, <1>1, <1>3, <1>4, <2>1, <2>8, <2>9, <2>10, <2>11, TabStepOInv
<1> QED BY <1>5, <1>6

LEMMA ClosedSocketOInv ==
  ASSUME IInv, OInv, NEW t \in Tab, ClosedSocket(t)
  PROVE  OInv'
<1>1. PICK m, n : m = tab[t] /\ n = [m EXCEPT !.online = FALSE]
  BY Zenon
<1>2. IsTab(m)
  BY <1>1, TabIs
<1>3. n = [items |-> m.items, past |-> m.past, dirty |-> m.dirty,
           canonical |-> m.canonical, revision |-> m.revision,
           inFlight |-> m.inFlight, saves |-> m.saves, error |-> m.error,
           saveRejected |-> m.saveRejected, synced |-> m.synced, online |-> FALSE]
  BY Zenon, <1>1, <1>2 DEF IsTab
<1>4. /\ IsTab(n) /\ n.saves = m.saves /\ n.revision = m.revision /\ n.synced = m.synced
      /\ n.canonical = m.canonical /\ n.inFlight = m.inFlight
      /\ n.saveRejected = m.saveRejected /\ n.items = m.items /\ n.past = m.past
  BY <1>3 DEF IsTab
<1>5. /\ tab' = [tab EXCEPT ![t] = n] /\ UNCHANGED <<store, abandoned, nextId>>
      /\ down' = [down EXCEPT ![t] = <<>>] /\ up' = [up EXCEPT ![t] = <<>>]
  BY <1>1 DEF ClosedSocket
<1>6. Calmer /\ nextId' \in Nat /\ nextId <= nextId'
  BY <1>5, CountedIs, IdleFacts DEF ClosedSocket
<1>7. Becomes(t, m.saves, n)
  BY <1>4, <1>5 DEF Becomes
<1>8. PICK f : f = Env'
  OBVIOUS
<1>9. Owns(f, t, m)
  BY <1>1, <1>5, <1>6, <1>7, <1>8, UpdateLater
<1>10. Owns(f, t, n)
  BY <1>4, <1>9, FlaggedOwns
<1>11. Owns(Env', t, n)
  BY <1>8, <1>10
<1>12. PICK z : z = <<>> /\ DOMAIN z = {}
  OBVIOUS
<1>13. Says(t, n.inFlight) /\ Hears(t, n.revision)
  BY Zenon, <1>5, <1>12 DEF Says, Hears, Rising
<1>14. GivesUp(m) /\ Follows(Env, abandoned', t, m, n)
  BY <1>4, <1>5 DEF GivesUp, Follows
<1>15. \A x \in orphans' : x \in orphans \/ \E j \in DOMAIN up[t] : x = up[t][j]
  BY LenProperties DEF ClosedSocket, IInv, WayUp, Posts, ToSet
<1> QED BY Zenon, <1>1, <1>5, <1>6, <1>11, <1>13, <1>14, <1>15, TabStepOInv

-----------------------------------------------------------------------------
(* The invariant *)

LEMMA FirstIsFirm == ASSUME Id = Nat PROVE Firm(First, 1)
<1>1. PICK node, s, D : node = First.node /\ s = First.order /\ D = DOMAIN node
  OBVIOUS
<1>2. PICK N \in Nat : IsOutline(First, Ids(N))
  BY FirstIsOutline DEF Fresh
<1>3. IsOutline(First, Id)
  BY <1>2 DEF IsOutline, Ids
<1>4. D \subseteq Id /\ s \in Seq(D) /\ s \in Seq(Id)
  <2>1. D \subseteq Id /\ s \in Seq(D)
    BY <1>1, <1>3 DEF IsOutline
  <2> QED BY Zenon, <2>1, SeqMonotonic
<1>5. Neat(First, Id)
  <2>1. Distinct(s)
    BY <1>1, ForestAssumption DEF Distinct
  <2> QED BY <1>1, <1>4, <2>1, ForestAssumption DEF Neat
<1>6. /\ node \in [D -> [parent : Parent, val : Val, changedAt : 0..1]]
      /\ Forest(node)
  BY <1>1, ForestAssumption
<1>7. Holds(node, D) /\ \A n \in D : node[n].changedAt <= 1
  <2>1. node = [n \in D |-> node[n]]
    BY <1>6
  <2>2. ASSUME NEW n \in D
        PROVE  /\ node[n] = [parent |-> node[n].parent, val |-> node[n].val,
                             changedAt |-> node[n].changedAt]
               /\ node[n].changedAt \in Rev /\ node[n].changedAt <= 1
    BY <1>6 DEF Rev
  <2> QED BY <2>1, <2>2 DEF Holds
<1> QED BY <1>1, <1>3, <1>5, <1>6, <1>7 DEF Firm, IsArray

LEMMA EmptyGrown == Grown(EmptyItems)
<1>1. /\ EmptyItems = [node |-> EmptyItems.node, order |-> EmptyItems.order]
      /\ EmptyItems.order = <<>> /\ EmptyItems.node = <<>>
  BY DEF EmptyItems
<1>2. PICK z : z = <<>> /\ z \in Seq({}) /\ Len(z) = 0 /\ DOMAIN z = {}
  <2>1. <<>> \in Seq({}) /\ DOMAIN <<>> = {}
    OBVIOUS
  <2>2. Len(<<>>) = 0
    OBVIOUS
  <2> QED BY <2>1, <2>2
<1>3. ToSet(z) = {} /\ Distinct(z)
  BY <1>2 DEF ToSet, Distinct
<1>4. z = [n \in ToSet(z) |-> [parent |-> z[n].parent, val |-> z[n].val]]
  BY <1>2, <1>3
<1> QED BY <1>1, <1>2, <1>3, <1>4 DEF Grown, IsTree, Led

LEMMA InitOInv == ASSUME Id = Nat, Init PROVE OInv
<1>1. PICK log, r : log = store.log /\ log = <<r>> /\ r.req = NoRequest
  BY DEF Init, FirstLog
<1>2. DOMAIN log = {1} /\ log[1] = r
  BY <1>1
<1>3. PICK e : e = Env
  OBVIOUS
<1>4. e.log = log /\ Len(log) = 1
  BY Zenon, <1>1, <1>3 DEF Env, Log
<1>5. /\ NewTab.saves = 0 /\ NewTab.revision = 0 /\ NewTab.synced = FALSE
      /\ NewTab.inFlight = NoSave /\ NewTab.saveRejected = FALSE
      /\ NewTab.items = EmptyItems /\ NewTab.canonical = EmptyItems /\ NewTab.past = NoPast
  BY DEF NewTab
<1>6. Basic(e, NewTab)
  BY <1>4, <1>5, EmptyGrown DEF Basic
<1>7. \A t, k \in DOMAIN log : ~Mine(e, t, log[k].req)
  BY <1>1, <1>2 DEF Mine
<1>8. \A t : Rests(e, t, NewTab)
  BY <1>1, <1>2, <1>4, <1>5 DEF Rests, Mine
<1>9. \A t \in Tab : Owns(Env, t, tab[t])
  BY <1>3, <1>5, <1>6, <1>8 DEF Owns, Init
<1>10. Counts
  BY DEF Counts, Init
<1>11. store # <<>>
  BY DEF Init
<1>12. Firm(Outline0, Revision)
  BY FirstIsFirm DEF Init, Outline0, Revision
<1>13. \A k \in DOMAIN Log : Log[k].req = NoRequest \/ Log[k].req \in Given
  BY <1>1, <1>2 DEF Log
<1>14. \A t \in Tab : DOMAIN up[t] = {} /\ DOMAIN down[t] = {}
  BY DEF Init
<1>15. \A t \in Tab : Rising(down[t])
  BY <1>14 DEF Rising
<1>16. abandoned = {} /\ orphans = {}
  BY DEF Init
<1> QED BY <1>9, <1>10, <1>11, <1>12, <1>13, <1>14, <1>15, <1>16 DEF OInv

LEMMA NextOInv == ASSUME Id = Nat, IInv, OInv, [Next]_vars PROVE OInv'
<1>1. CASE UNCHANGED vars
  BY <1>1 DEF vars, OInv, Counts, Outline0, Revision, Log, Env, Given
<1>2. ASSUME NEW t \in Tab, Edit(t) \/ Undo(t) \/ RetriedEdit(t) \/ DiscardedEdit(t)
      PROVE  OInv'
  BY <1>2, EditOInv, UndoOInv, RetriedEditOInv, DiscardedEditOInv
<1>3. ASSUME NEW t \in Tab, Receive(t)
      PROVE  OInv'
  BY <1>3, ReceiveErrorOInv, ReceiveWaitingOInv, ReceiveAnswerOInv,
     ReceiveWithEditsOInv, ReceiveDocumentOInv DEF Receive
<1>4. ASSUME NEW t \in Tab,
             ReceiveThread(t) \/ OpenedSocket(t) \/ ClosedSocket(t) \/ SendFailed(t)
      PROVE  OInv'
  BY <1>4, FlagOInv, ClosedSocketOInv
<1>5. ASSUME NEW t \in Tab, Connect(t) \/ SaveDocument(t)
      PROVE  OInv'
  BY <1>5, ConnectOInv, SaveDocumentOInv
<1>6. CASE SaveOrphan \/ Tick \/ TickFails \/ OtherWrites
  BY <1>6, SaveOrphanOInv, TickOInv, OtherWritesOInv
<1> QED BY <1>1, <1>2, <1>3, <1>4, <1>5, <1>6 DEF Next

\* The room refuses a save only because of what others committed since its
\* base, or because a retry brings back a deleted bullet: never because it was
\* sent twice, its answer was lost or an undo brought a bullet back
\* (update.ts, acceptServerDocument; history.ts, renewDeletedIds).
THEOREM RefusedForOthersHolds == ASSUME Id = Nat PROVE Spec => []RefusedForOthers
<1>1. Init => IInv /\ OInv
  BY InitIInv, InitOInv
<1>2. IInv /\ OInv /\ [Next]_vars => (IInv /\ OInv)'
  BY NextIInv, NextOInv
<1>3. IInv /\ OInv => RefusedForOthers
  <2> SUFFICES ASSUME IInv, OInv, NEW t \in Tab, tab[t].saveRejected, count["fail"] = 0,
                      NEW x, x = tab[t].inFlight
               PROVE  \/ \E r \in (x.base + 1)..Revision : ~Own(t, Log[r].req)
                      \/ count["retry"] > 0 /\ DOMAIN x.items.node \cap TombsAt(x.base) # {}
    BY DEF RefusedForOthers
  <2>1. PICK m, e : m = tab[t] /\ e = Env
    OBVIOUS
  <2>2. Owns(e, t, m) /\ e.log = Log /\ e.gone = abandoned
        /\ e.fail = count["fail"] /\ e.retry = count["retry"]
    BY <2>1, WaitsIs DEF Env
  <2>3. m.inFlight # NoSave
    BY <2>1, <2>2 DEF Owns, Rests
  <2>4. Waits(e, t, m)
    BY <2>2, <2>3 DEF Owns
  <2>5. Excused(e, t, x)
    BY <2>1, <2>2, <2>4 DEF Waits
  <2>6. Revision = Len(Log)
    BY DEF IInv, Kept, Revision, Log
  <2>7. count["retry"] # 0 => count["retry"] > 0
    BY DEF OInv, Counts
  <2>8. TombsAt(x.base) = Buried(Log, x.base)
    BY DEF TombsAt, Buried, FoldLeft, MapThenFoldSet, Max, Replaying!Folded, Replaying!Greatest,
           RedoneOn
  <2>9. \A q : Mine(e, t, q) <=> Own(t, q)
    BY <2>2 DEF Mine, Own
  <2> QED BY <2>2, <2>5, <2>6, <2>7, <2>8, <2>9 DEF Excused
<1> QED BY <1>1, <1>2, <1>3, PTL DEF Spec
===============================================================================
