------------------------------ MODULE ClientSync ------------------------------
(***************************************************************************)
(* Tabs that edit one outline through the room of the server (update.ts,   *)
(* socket.ts and history.ts of the browser client, OutlineRoom.ts and      *)
(* outlineRoutes.ts of the server).                                        *)
(*                                                                         *)
(* A tab edits its own tree and has at most one save on the way.  The room *)
(* turns a save into a batch, has the store apply it and broadcasts the    *)
(* document; other programs write to the same store, and the room notices  *)
(* when it reads it again.  A connection may break at any time: what was   *)
(* on its way down is lost, and of what was on its way up a part may still *)
(* be served.  The store is the one OutlineHistory promises.               *)
(*                                                                         *)
(* `dirty` stands for outline.revision # savedRevision.  Threads, rows that*)
(* are collapsed and demo mode are left out.                               *)
(***************************************************************************)
EXTENDS DocumentDiff, FiniteSets

CONSTANTS
  Tab,
  NoRequest,     \* a message that answers no save
  First,         \* the outline when the first tab opens
  EditKinds,     \* the kinds of edits the users make
  OtherBatch,    \* the batches other programs apply
  MaxEdits, MaxUndos, MaxRetries, MaxOthers, MaxDrops, MaxFailures,  \* bounds
  MaxEvents      \* bound: all of these together

\* Random ids are numbers here, a new one the next that nobody knows.
Known == DOMAIN First.node \cup DOMAIN First.tombs
           \cup UNION {{op.id : op \in ToSet(ops)} : ops \in OtherBatch}
Unknown(n) == \A k \in Known : k < n

ASSUME IdAssumption == Id \subseteq Nat /\ Root \notin Nat
ASSUME FreshAssumption == Known \subseteq Nat /\ \E n \in Id : Unknown(n)
ASSUME FirstAssumption ==
  /\ First = [node |-> First.node, order |-> First.order, tombs |-> First.tombs]
  /\ First.order \in Seq(DOMAIN First.node)
  /\ DOMAIN First.node \cap DOMAIN First.tombs = {}
\* Its nodes are a forest, none changed after the revision it has.
ASSUME ForestAssumption ==
  /\ First.node \in [DOMAIN First.node -> [parent : Parent, val : Val, changedAt : 0..1]]
  /\ ToSet(First.order) = DOMAIN First.node
  /\ \A i, j \in DOMAIN First.order : First.order[i] = First.order[j] => i = j
  /\ Forest(First.node)
ASSUME OtherAssumption == OtherBatch \subseteq Seq(Op)
ASSUME RequestAssumption == NoRequest \notin Tab \X Nat

VARIABLES
  store,      \* the last commit: the outline with its revision, and the log
  shown,      \* the revision the room broadcast last
  abandoned,  \* history: the ids of the saves users gave up
  tab,        \* the model of each tab
  up, down,   \* what is on its way to the room and to the tab
  listening,  \* tabs the room sends to
  orphans,    \* saves of broken connections that the room may still serve
  nextId,     \* the next random id
  count       \* history: edits, undos, retries, others, drops and failures

vars == <<store, shown, abandoned, tab, up, down, listening, orphans, nextId, count>>

Log == store.log
Revision == store.snapshot.revision
Outline0 == store.snapshot.outline
History == INSTANCE OutlineHistory
             WITH history <- store, RequestId <- {}, Batch <- {}, Nothing <- <<>>

Counted(kind, max) ==
  /\ count[kind] < max
  /\ FoldFunction(+, 0, count) < MaxEvents
  /\ count' = [count EXCEPT ![kind] = @ + 1]

-----------------------------------------------------------------------------
(* State *)

\* What the room sends: the tree, the revision and the tombstones.
Sent(kind, req, s) ==
  [kind |-> kind, req |-> req, items |-> ToItems(s.snapshot.outline),
   revision |-> s.snapshot.revision, tombs |-> DOMAIN s.snapshot.outline.tombs]
Failed(req) ==
  [kind |-> "Error", req |-> req, items |-> EmptyItems, revision |-> 0, tombs |-> {}]

NoSave == [req |-> NoRequest]   \* inFlight: null
NoPast == <<>>                  \* a history without an entry

NewTab ==
  [items |-> EmptyItems, past |-> NoPast, dirty |-> FALSE,
   canonical |-> EmptyItems, revision |-> 0, inFlight |-> NoSave, saves |-> 0,
   error |-> FALSE, saveRejected |-> FALSE, synced |-> FALSE, online |-> FALSE]

FirstLog == <<[req |-> NoRequest, base |-> 0, ops |-> <<>>, revision |-> 1, proposal |-> 0]>>

Init ==
  /\ store = [snapshot |-> [revision |-> 1, outline |-> First, proposals |-> <<>>],
              log |-> FirstLog]
  /\ shown = 0 /\ abandoned = {}
  /\ tab = [t \in Tab |-> NewTab]
  /\ up = [t \in Tab |-> <<>>] /\ down = [t \in Tab |-> <<>>]
  /\ listening = {} /\ orphans = {}
  /\ nextId = CHOOSE n \in Id : Unknown(n)
  /\ count = [k \in {"edit", "undo", "retry", "other", "drop", "fail"} |-> 0]

-----------------------------------------------------------------------------
(* The end of every update of a tab *)

NewSave(t, m) ==
  [req |-> <<t, m.saves + 1>>, items |-> m.items,
   baseItems |-> m.canonical, base |-> m.revision]

\* Mutant: the save names the revision the tab has by now.
SavingLatest(t, m, base) ==
  [m EXCEPT !.inFlight = NewSave(t, [m EXCEPT !.canonical = base.canonical]),
            !.saves = @ + 1]

Saving(t, m, base) ==
  [m EXCEPT !.inFlight = NewSave(t, [m EXCEPT !.canonical = base.canonical,
                                              !.revision = base.revision]),
            !.saves = @ + 1]

\* A changed outline is saved unless a save is on its way, the tab is offline
\* or an error is shown.
MaySave(m) ==
  m.dirty /\ m.synced /\ m.online /\ m.inFlight = NoSave /\ ~m.error

\* isGhost throws at a bullet without an id: the update sends nothing, and the
\* tab goes no further.  Its new model, which nobody sees, marks such a tab.
Thrown(t) == Undefined \in DOMAIN tab[t].items.node
Posted(save) ==
  IF Undefined \in DOMAIN save.items.node THEN <<>> ELSE <<save>>

Post(t, m, out) ==
  /\ ~Thrown(t)
  /\ tab' = [tab EXCEPT ![t] = m]
  /\ up' = [up EXCEPT ![t] = @ \o out]

Update(t, m) ==
  \/ /\ MaySave(m)
     /\ LET n == Saving(t, m, m) IN Post(t, n, Posted(n.inFlight))
  \/ /\ ~MaySave(m)
     /\ Post(t, m, <<>>)

-----------------------------------------------------------------------------
(* The user *)

\* What one edit may do to the tree; a new bullet gets a random id, here the
\* next one.
UserOps(items) ==
  LET ids == DOMAIN items.node \ {Undefined}
      places == ids \cup {Root}
  IN  {op \in [type : {"insert"}, id : {nextId} \cap Id, parent : places,
               after : {AtEnd}, val : Val]
           \cup [type : {"update"}, id : ids, val : Val]
           \cup {op \in [type : {"move"}, id : ids, parent : places, after : {AtEnd}] :
                   op.parent \notin DescendantIds(items.node, op.id)}
           \cup [type : {"delete"}, id : ids] : op.type \in EditKinds}

Edited(m, items) == [m EXCEPT !.items = items, !.past = m.items, !.dirty = TRUE]

Edit(t) ==
  /\ tab[t].synced
  /\ Counted("edit", MaxEdits)
  /\ \E op \in UserOps(tab[t].items) :
       LET items == ToItems(ReplayOp(tab[t].items, op))
       IN  /\ items # tab[t].items
           /\ Update(t, Edited(tab[t], items))
           /\ nextId' = IF op.type = "insert" THEN nextId + 1 ELSE nextId
  /\ UNCHANGED <<store, shown, abandoned, down, listening, orphans>>

\* Undo of the last edit, which brings its nodes back under their ids.
Undo(t) ==
  /\ tab[t].past # NoPast
  /\ Counted("undo", MaxUndos)
  /\ Update(t, [tab[t] EXCEPT !.items = tab[t].past, !.past = NoPast, !.dirty = TRUE])
  /\ UNCHANGED <<store, shown, abandoned, down, listening, orphans, nextId>>

\* Load: the server's tree, with a new history.
Loaded(m, items) == [m EXCEPT !.items = items, !.past = NoPast, !.dirty = FALSE]

\* Deletions of bullets that are gone already are left out.
StillThere(ops, known) ==
  FoldLeft(LAMBDA kept, op :
             IF op.type = "delete" /\ op.id \notin known THEN kept
             ELSE Append(kept, op), <<>>, ops)

\* "Retry my edit": the edits since the base of the rejected save are replayed
\* on the latest outline, unless they name a bullet that is not there, or the
\* result is no tree.
RetriedEdit(t) ==
  LET m == tab[t]
      ops == Diff(m.inFlight.baseItems, m.items)
      inserted == {op.id : op \in {o \in ToSet(ops) : o.type = "insert"}}
      known == DOMAIN m.canonical.node \cup inserted
      names(op) == (IF op.type \in {"update", "move"} THEN {op.id} ELSE {})
        \cup (IF op.type \in {"insert", "move"} THEN {op.parent, op.after} ELSE {})
      rebased == Replay(m.canonical, StillThere(ops, known))
  IN  /\ m.inFlight # NoSave /\ m.saveRejected
      /\ \A op \in ToSet(ops) : names(op) \subseteq known \cup {Root, AtStart, AtEnd}
      /\ Len(ToItems(rebased).order) = Len(rebased.order)
      /\ Counted("retry", MaxRetries)
      /\ Update(t, [Edited(m, ToItems(rebased)) EXCEPT
                      !.inFlight = NoSave, !.error = FALSE, !.saveRejected = FALSE])
      /\ abandoned' = abandoned \cup {m.inFlight.req}
      /\ UNCHANGED <<store, shown, down, listening, orphans, nextId>>

\* "Use latest", the other button under the message of a rejected save.
DiscardedEdit(t) ==
  /\ tab[t].saveRejected
  /\ Update(t, [Loaded(tab[t], tab[t].canonical) EXCEPT
                  !.inFlight = NoSave, !.error = FALSE, !.saveRejected = FALSE])
  /\ abandoned' = abandoned \cup {tab[t].inFlight.req}
  /\ UNCHANGED <<store, shown, down, listening, orphans, nextId, count>>

-----------------------------------------------------------------------------
(* fromServer: what a tab does with the next message *)

\* The canonical document and what is said of it are taken over in any case.
TakenOver(m, msg) ==
  [m EXCEPT !.canonical = msg.items, !.revision = msg.revision,
            !.error = @ /\ m.saveRejected]

Next0(t) == Head(down[t])
Receives(t) ==
  /\ down[t] # <<>>
  /\ down' = [down EXCEPT ![t] = Tail(@)]
  /\ UNCHANGED <<store, shown, abandoned, listening, orphans, count>>
Waiting(t) == tab[t].inFlight # NoSave

ReceiveError(t) ==
  /\ Receives(t) /\ Next0(t).kind = "Error"
  /\ Update(t, [tab[t] EXCEPT !.error = TRUE,
       !.saveRejected = @ \/ (Waiting(t) /\ Next0(t).req = tab[t].inFlight.req)])
  /\ UNCHANGED nextId

\* A thread of the room changed: that clears an error, too.
ReceiveThread(t) ==
  /\ t \in listening /\ tab[t].error /\ ~Waiting(t)
  /\ Update(t, [tab[t] EXCEPT !.error = FALSE])
  /\ UNCHANGED <<store, shown, abandoned, down, listening, orphans, nextId, count>>

\* Mutant: it is sent again under a new id.
ResentAnew(t) ==
  /\ Receives(t) /\ Waiting(t) /\ Next0(t).kind = "Snapshot"
  /\ LET req == <<t, tab[t].saves + 1>>
         m == [TakenOver(tab[t], Next0(t)) EXCEPT !.inFlight.req = req, !.saves = @ + 1]
     IN  Post(t, m, IF m.saveRejected THEN <<>> ELSE Posted(m.inFlight))
  /\ UNCHANGED nextId

\* Connected again: the save on its way is sent once more under its id, unless
\* the room refused it already.
ReceiveSnapshotWaiting(t) ==
  /\ Receives(t) /\ Waiting(t) /\ Next0(t).kind = "Snapshot"
  /\ Post(t, TakenOver(tab[t], Next0(t)),
          IF tab[t].saveRejected THEN <<>> ELSE Posted(tab[t].inFlight))
  /\ UNCHANGED nextId

\* A change that is not the answer to the save on its way.
ReceiveOtherChange(t) ==
  /\ Receives(t) /\ Waiting(t)
  /\ Next0(t).kind = "DocumentChanged" /\ Next0(t).req # tab[t].inFlight.req
  /\ Post(t, TakenOver(tab[t], Next0(t)), <<>>)
  /\ UNCHANGED nextId

\* renewDeletedIds: ids of committed deletions that are still in the tree or in
\* the history of the tab get new names.
NamesOf(doc) == IF doc = NoPast THEN {} ELSE DOMAIN doc.node
Dead(m, tombs) == (NamesOf(m.items) \cup NamesOf(m.past)) \cap tombs

Alias(dead, n) ==
  IF n \in dead THEN nextId + Cardinality({d \in dead : d < n}) ELSE n

Renamed(doc, dead) ==
  IF doc = NoPast THEN NoPast
  ELSE [node |-> [n \in {Alias(dead, x) : x \in DOMAIN doc.node} |->
          LET x == CHOOSE y \in DOMAIN doc.node : Alias(dead, y) = n
          IN  [doc.node[x] EXCEPT !.parent = Alias(dead, @)]],
        order |-> [k \in DOMAIN doc.order |-> Alias(dead, doc.order[k])]]

Renewed(m, tombs) ==
  [m EXCEPT !.items = Renamed(@, Dead(m, tombs)), !.past = Renamed(@, Dead(m, tombs))]

\* Mutant: all edits count as saved.
AnswerSavesAll(t) ==
  LET m == tab[t]
      msg == Next0(t)
      rebased == [TakenOver(m, msg) EXCEPT
                    !.items = ToItems(Replay(msg.items, Diff(m.inFlight.items, m.items))),
                    !.inFlight = NoSave, !.saveRejected = FALSE, !.synced = TRUE,
                    !.dirty = FALSE]
  IN  /\ Receives(t) /\ Waiting(t)
      /\ msg.kind = "DocumentChanged" /\ msg.req = m.inFlight.req
      /\ Update(t, Renewed(rebased, msg.tombs))
      /\ nextId' = nextId + Cardinality(Dead(rebased, msg.tombs))

\* The answer to the save: what was edited since is replayed on the document.
ReceiveAnswer(t) ==
  LET m == tab[t]
      msg == Next0(t)
      pending == Diff(m.inFlight.items, m.items)
      rebased == [TakenOver(m, msg) EXCEPT
                    !.items = ToItems(Replay(msg.items, pending)),
                    !.inFlight = NoSave, !.saveRejected = FALSE, !.synced = TRUE,
                    !.dirty = pending # <<>>]
  IN  /\ Receives(t) /\ Waiting(t)
      /\ msg.kind = "DocumentChanged" /\ msg.req = m.inFlight.req
      /\ Update(t, Renewed(rebased, msg.tombs))
      /\ nextId' = nextId + Cardinality(Dead(rebased, msg.tombs))

\* Mutant: the server's document is shown over unsaved edits.
ShownOverEdits(t) ==
  /\ Receives(t) /\ ~Waiting(t) /\ Next0(t).kind # "Error"
  /\ tab[t].synced /\ tab[t].dirty
  /\ Post(t, Loaded(TakenOver(tab[t], Next0(t)), Next0(t).items), <<>>)
  /\ UNCHANGED nextId

\* Unsaved edits are saved against the document they were made on.
ReceiveWithEdits(t) ==
  LET m == tab[t]
  IN  /\ Receives(t) /\ ~Waiting(t) /\ Next0(t).kind # "Error"
      /\ m.synced /\ m.dirty
      /\ LET n == Saving(t, TakenOver(m, Next0(t)), m)
         IN  Post(t, n, Posted(n.inFlight))
      /\ UNCHANGED nextId

\* Nothing unsaved: the tab shows the server's document.
ReceiveDocument(t) ==
  LET m == tab[t]
  IN  /\ Receives(t) /\ ~Waiting(t) /\ Next0(t).kind # "Error"
      /\ ~(m.synced /\ m.dirty)
      /\ Update(t, [Loaded(TakenOver(m, Next0(t)), Next0(t).items) EXCEPT !.synced = TRUE])
      /\ UNCHANGED nextId

Receive(t) ==
  \/ ReceiveError(t) \/ ReceiveSnapshotWaiting(t) \/ ReceiveOtherChange(t)
  \/ ReceiveAnswer(t) \/ ReceiveWithEdits(t) \/ ReceiveDocument(t)

-----------------------------------------------------------------------------
(* The connection *)

OpenedSocket(t) ==
  /\ ~tab[t].online
  /\ Update(t, [tab[t] EXCEPT !.online = TRUE])
  /\ UNCHANGED <<store, shown, abandoned, down, listening, orphans, nextId, count>>

\* A part of what the tab sent has reached the server, whose fibers go on.
ClosedSocket(t) ==
  /\ tab[t].online
  /\ Counted("drop", MaxDrops)
  /\ tab' = [tab EXCEPT ![t].online = FALSE]
  /\ listening' = listening \ {t}
  /\ down' = [down EXCEPT ![t] = <<>>] /\ up' = [up EXCEPT ![t] = <<>>]
  /\ \E k \in 0..Len(up[t]) : orphans' = orphans \cup ToSet(SubSeq(up[t], 1, k))
  /\ UNCHANGED <<store, shown, abandoned, nextId>>

\* Something else could not be sent while the tab was offline.
SendFailed(t) ==
  /\ tab[t].synced /\ ~tab[t].online /\ ~tab[t].dirty /\ ~Thrown(t)
  /\ tab' = [tab EXCEPT ![t].dirty = TRUE]
  /\ UNCHANGED <<store, shown, abandoned, up, down, listening, orphans, nextId, count>>

-----------------------------------------------------------------------------
(* The room *)

\* refresh: the document is broadcast when it differs from the last one, and
\* always after a save, with the id of the save.
Unseen(s) ==
  IF shown = s.snapshot.revision THEN <<>> ELSE <<Sent("DocumentChanged", NoRequest, s)>>
Broadcast(messages) ==
  down' = [t \in Tab |-> IF t \in listening THEN down[t] \o messages ELSE down[t]]

Connect(t) ==
  /\ tab[t].online /\ t \notin listening
  /\ listening' = listening \cup {t}
  /\ down' = [u \in Tab |->
       CASE u = t -> <<Sent("Snapshot", NoRequest, store)>>
         [] u \in listening -> down[u] \o Unseen(store)
         [] OTHER -> down[u]]
  /\ shown' = Revision
  /\ UNCHANGED <<store, abandoned, tab, up, orphans, nextId, count>>

\* A save whose id is in the log is answered without being applied again; the
\* same id with other operations is refused.  (The batch is bound by \E: TLC
\* evaluates it once, where a LET would be evaluated at each of its uses.)
Prior(req) == {k \in DOMAIN Log : Log[k].req = req}

ApplySave(save) ==
  \E ops \in {Diff(save.baseItems, save.items)} :
    \/ /\ ops = <<>> \/ \E k \in Prior(save.req) : Log[k].ops = ops
       /\ UNCHANGED store
    \/ /\ ops # <<>> /\ Prior(save.req) = {}
       /\ History!Apply(save.req, save.base, ops)

Refuses(save) ==
  \E ops \in {Diff(save.baseItems, save.items)} :
    /\ ops # <<>>
    /\ IF Prior(save.req) = {} THEN ~History!Fits(ops, save.base)
       ELSE \A k \in Prior(save.req) : Log[k].ops # ops

\* Mutant: a save that changes nothing is not answered.
AcceptQuietly(save) ==
  /\ ApplySave(save)
  /\ shown' = store'.snapshot.revision
  /\ Broadcast(Unseen(store) \o
       IF store' = store THEN <<>> ELSE <<Sent("DocumentChanged", save.req, store')>>)

\* SaveDocument, under the mutex of the room.
Accept(save) ==
  /\ ApplySave(save)
  /\ shown' = store'.snapshot.revision
  /\ Broadcast(Unseen(store) \o <<Sent("DocumentChanged", save.req, store')>>)

\* The room cannot read the outline, the store fails to take the lock or to
\* commit, or outline-room.json or the outline cannot be read or written once
\* the batch is committed.
Fails(save) ==
  /\ Counted("fail", MaxFailures)
  /\ \/ UNCHANGED <<store, shown>>
     \/ shown' = Revision /\ (UNCHANGED store \/ ApplySave(save))

\* The store refuses the batch, or something fails; only the sender is told, if
\* it is still there, whether or not the save is in.
Refuse(save, sender) ==
  /\ \/ Refuses(save) /\ shown' = Revision /\ UNCHANGED <<store, count>>
     \/ Fails(save)
  /\ down' = [t \in Tab |->
       (IF t \in listening /\ shown' = Revision THEN down[t] \o Unseen(store) ELSE down[t])
       \o (IF t \in sender THEN <<Failed(save.req)>> ELSE <<>>)]

SaveDocument(t) ==
  /\ t \in listening /\ up[t] # <<>>
  /\ up' = [up EXCEPT ![t] = Tail(@)]
  /\ \/ Accept(Head(up[t])) /\ UNCHANGED count
     \/ Refuse(Head(up[t]), {t})
  /\ UNCHANGED <<abandoned, tab, listening, orphans, nextId>>

SaveOrphan ==
  /\ \E save \in orphans :
       /\ orphans' = orphans \ {save}
       /\ \/ Accept(save) /\ UNCHANGED count
          \/ Refuse(save, {})
  /\ UNCHANGED <<abandoned, tab, up, listening, nextId>>

\* The tick of the room while somebody listens.
Tick ==
  /\ listening # {} /\ shown # Revision
  /\ Broadcast(Unseen(store))
  /\ shown' = Revision
  /\ UNCHANGED <<store, abandoned, tab, up, listening, orphans, nextId, count>>

TickFails ==
  /\ listening # {} /\ Counted("fail", MaxFailures)
  /\ Broadcast(<<Failed(NoRequest)>>)
  /\ UNCHANGED <<store, shown, abandoned, tab, up, listening, orphans, nextId>>

\* The CLI, an agent or a review writes to the store.
OtherWrites ==
  /\ Counted("other", MaxOthers)
  /\ \E ops \in OtherBatch : History!Apply(NoRequest, Revision, ops)
  /\ UNCHANGED <<shown, abandoned, tab, up, down, listening, orphans, nextId>>

-----------------------------------------------------------------------------
Next ==
  \/ \E t \in Tab :
       \/ Edit(t) \/ Undo(t) \/ RetriedEdit(t) \/ DiscardedEdit(t)
       \/ Receive(t) \/ ReceiveThread(t)
       \/ OpenedSocket(t) \/ ClosedSocket(t) \/ SendFailed(t)
       \/ Connect(t) \/ SaveDocument(t)
  \/ SaveOrphan \/ Tick \/ TickFails \/ OtherWrites

\* Weak fairness of the event loops of the tab and of the server, and of the
\* timer that connects again.  It is written out with the guards, which are
\* much cheaper to evaluate than ENABLED of the actions.
Fairness ==
  /\ []<>~(listening # {} /\ shown # Revision) \/ []<><<Tick>>_vars
  /\ \A t \in Tab :
       /\ []<>(down[t] = <<>> \/ Thrown(t)) \/ []<><<Receive(t)>>_vars
       /\ []<>(tab[t].online \/ Thrown(t)) \/ []<><<OpenedSocket(t)>>_vars
       /\ []<>~(tab[t].online /\ t \notin listening) \/ []<><<Connect(t)>>_vars
       /\ []<>~(t \in listening /\ up[t] # <<>>) \/ []<><<SaveDocument(t)>>_vars

Spec == Init /\ [][Next]_vars /\ Fairness

-----------------------------------------------------------------------------
(* Safety *)

\* A tab that has nothing unsaved and nothing on its way shows the document
\* the room sent last, whatever answers, broadcasts and broken connections
\* came before.
SavedIsShown ==
  \A t \in Tab :
    tab[t].synced /\ ~tab[t].dirty /\ ~Waiting(t) => tab[t].items = tab[t].canonical

\* A save is a difference from the document as it was at its base revision:
\* that is what the store's conflict check relies on.
Redone(outline, r) == History!ApplyBatch(outline, r.ops, r.base, r.revision).w
At(rev) == ToItems(FoldLeft(Redone, First, SubSeq(Log, 2, rev)))
SavesNameTheirBase ==
  \A t \in Tab : Waiting(t) =>
    tab[t].inFlight.baseItems = At(tab[t].inFlight.base)

\* A save is refused because of what somebody else committed since its base,
\* never because of the tab's own saves: not when one is sent twice, not when
\* an answer is lost, and not when an undo brings a deleted bullet back.  What
\* a user gave up is not the tab's own any more, for the room may still commit
\* it later; and a retry, which renews no ids, may bring back a bullet that was
\* deleted.  (Failures of the store are left out.)
Own(t, req) == req # NoRequest /\ req[1] = t /\ req \notin abandoned
TombsAt(rev) == DOMAIN FoldLeft(Redone, First, SubSeq(Log, 2, rev)).tombs
RefusedForOthers ==
  \A t \in Tab :
    tab[t].saveRejected /\ count["fail"] = 0 =>
      LET save == tab[t].inFlight
      IN  \/ \E r \in (save.base + 1)..Revision : ~Own(t, Log[r].req)
          \/ count["retry"] > 0 /\ DOMAIN save.items.node \cap TombsAt(save.base) # {}

\* A message of the room never takes back what the user typed: a bullet whose
\* text is not saved keeps it as long as the document has the bullet.
Typed(t, n) ==
  LET m == tab[t]
      base == IF Waiting(t) THEN m.inFlight.items ELSE m.canonical
  IN  /\ m.synced /\ (m.dirty \/ Waiting(t))
      /\ n \in DOMAIN m.items.node \cap DOMAIN base.node
      /\ m.items.node[n].val # base.node[n].val
KeepsTyped ==
  \A t \in Tab : down'[t] # down[t] /\ down[t] # <<>> /\ tab'[t] # tab[t] =>
    \A n \in Id : Typed(t, n) /\ n \in DOMAIN tab'[t].canonical.node
                  /\ n \in DOMAIN tab'[t].items.node =>
      tab'[t].items.node[n].val = tab[t].items.node[n].val
KeystrokesKept == [][KeepsTyped]_vars

\* "Conflicts retain the draft" (PLAN_4.md:165): the answer to a save removes
\* no bullet that the server's document and the tab both have.
LosesNone ==
  \A t \in Tab :
    Waiting(t) /\ tab'[t].inFlight # tab[t].inFlight /\ tab'[t].canonical # tab[t].canonical
    => DOMAIN tab[t].items.node \cap DOMAIN tab'[t].canonical.node
         \subseteq DOMAIN tab'[t].items.node
NoBulletLost == [][LosesNone]_vars

-----------------------------------------------------------------------------
(* Liveness *)

\* Once the users rest, every tab that shows no error ends with the server's
\* document and nothing unsaved - except a tab whose update threw at a bullet
\* that lost its id.
Settled(t) ==
  \/ tab[t].error \/ Thrown(t)
  \/ ~tab[t].dirty /\ tab[t].items = ToItems(Outline0)
Settles == \A t \in Tab : <>[]Settled(t)
=============================================================================
