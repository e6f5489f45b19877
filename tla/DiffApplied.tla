------------------------------ MODULE DiffApplied ------------------------------
(***************************************************************************)
(* A save that nobody interferes with: the room turns the difference       *)
(* between the document and the tree a browser sends into a batch, and the *)
(* store takes the operations one by one.  The document and the tree are   *)
(* any two forests; AtRevision is the revision of the document.            *)
(***************************************************************************)
EXTENDS DocumentDiff, FiniteSets

CONSTANTS
  Document,    \* outlines the store may hold
  Wanted,      \* trees a browser may send
  AtRevision   \* the revision of the outline

\* What the store may hold: a forest, with each node once in the array and none
\* that was deleted or changed later.
Storable(w) ==
  /\ w = [node |-> w.node, order |-> w.order, tombs |-> w.tombs]
  /\ DOMAIN w.node \subseteq Id /\ w.node \in [DOMAIN w.node -> Node]
  /\ w.order \in Seq(DOMAIN w.node) /\ ToSet(w.order) = DOMAIN w.node
  /\ \A i, j \in DOMAIN w.order : w.order[i] = w.order[j] => i = j
  /\ DOMAIN w.tombs \subseteq Id \ DOMAIN w.node
  /\ Forest(w.node)
  /\ \A n \in DOMAIN w.node : w.node[n].changedAt <= AtRevision

\* What the browser makes of its tree: the array toItems leaves as it is.
Sendable(d) ==
  /\ d.order \in Seq(Id) /\ ToItems(d) = d
  /\ \A n \in DOMAIN d.node : d.node[n].val \in Val

ASSUME RevisionAssumption == AtRevision \in Nat
ASSUME DocumentAssumption == \A w \in Document : Storable(w)
ASSUME WantedAssumption == \A d \in Wanted : Sendable(d)

VARIABLES
  found,   \* the outline when the save arrives
  sent,    \* the tree of the save
  steps,   \* the batch
  turn,    \* its next operation
  copy     \* the store's copy

saveVars == <<found, sent, steps, turn, copy>>

\* New ids are random: none is that of a node that was deleted.
SaveArrives ==
  /\ found \in Document /\ sent \in Wanted
  /\ DOMAIN found.tombs \cap DOMAIN sent.node = {}
  /\ steps = Diff(ToItems(found), sent)
  /\ turn = 1 /\ copy = found

Accepted == Accepts(steps[turn], copy, found.node, AtRevision)

TakeTurn ==
  /\ turn <= Len(steps) /\ Accepted
  /\ copy' = Effect(steps[turn], copy, AtRevision + 1)
  /\ turn' = turn + 1
  /\ UNCHANGED <<found, sent, steps>>

SaveSpec == SaveArrives /\ [][TakeTurn]_saveVars /\ WF_saveVars(TakeTurn)

-----------------------------------------------------------------------------
\* replay "simulates ordering only" (document.ts): after each operation the
\* browser's copy and the store's are the same tree, whatever the order of the
\* store's array.
ReplayFollowsStore ==
  ToItems(Replay(ToItems(found), SubSeq(steps, 1, turn - 1))) = ToItems(copy)

\* However the two forests differ - anchors that move, children that leave a
\* parent before it is deleted, parents that swap places - the store accepts
\* every operation of the batch where it stands, and in the end has the tree
\* the browser sent.
ReachesTree == <>[](ToItems(copy) = sent)
=============================================================================
