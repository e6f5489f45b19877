----------------------------- MODULE OutlineStore -----------------------------
(***************************************************************************)
(* The store of the outline (OutlineStore.ts).  Three files of the nested  *)
(* git repository .threadvm are the durable state: snapshot.json,          *)
(* ops.jsonl and outline.md.  Every reader looks at the last commit; a     *)
(* writer takes the writer lock, reads the last commit, computes the new   *)
(* triple, replaces the three files one by one and commits them.           *)
(*                                                                         *)
(* The lock is the one of module WriterLock: at most one request is being  *)
(* served (`at` # "free").  A crash may come between any two steps; the    *)
(* next process to ask finds the lock abandoned and breaks it.  git add    *)
(* and the index are left out: commit --only names the three files.        *)
(***************************************************************************)
EXTENDS OutlineOps, FiniteSets

CONSTANTS
  RequestId,     \* ids a client puts on a batch so that it can send it again
  NoRequest,     \* a batch without one
  Batch,         \* sequences of operations clients send
  MaxRevision,   \* bound: the revisions clients may reach
  MaxProposals,  \* bound: the proposals that may be submitted
  MaxCrashes     \* bound: the crashes

ASSUME BatchAssumption == Batch \subseteq Seq(Op)
ASSUME NoRequestAssumption == NoRequest \notin RequestId
ASSUME StoreBounds ==
  MaxRevision \in Nat /\ MaxProposals \in Nat /\ MaxCrashes \in Nat

VARIABLES
  head,     \* the files at the last commit, or NoFile before the first
  tree,     \* the files in the worktree
  at,       \* how far the request being served has come; "free" without one
  job,      \* that request
  i,        \* the operation of job.ops that is next
  work,     \* applyOperations' copies of nodes and tombstones
  next,     \* the files the request is about to write
  acked,    \* history: request ids whose batch was reported as applied
  crashes   \* history: how many crashes there were

vars == <<head, tree, at, job, i, work, next, acked, crashes>>

-----------------------------------------------------------------------------
(* State *)

\* A file that does not exist, or the commit before the first.
NoFile == <<>>

\* renderMarkdown walks the tree in array order; the text it writes depends
\* on the order, the parents and the contents only.
Render(outline) ==
  [order |-> outline.order,
   lines |-> [n \in DOMAIN outline.node |->
                <<outline.node[n].parent, outline.node[n].val>>]]

EmptySnapshot == [revision |-> 0, outline |-> EmptyOutline, proposals |-> <<>>]
Files(snapshot, log) ==
  [snapshot |-> snapshot, log |-> log, markdown |-> Render(snapshot.outline)]
NoFiles == [snapshot |-> NoFile, log |-> NoFile, markdown |-> NoFile]

Idle == [kind |-> "none", req |-> NoRequest, base |-> 0, ops |-> <<>>,
         proposal |-> 0, ids |-> {}]

OpIds(ops) == {op.id : op \in ToSet(ops)}
Snapshot == head.snapshot
Log == head.log

Init ==
  /\ head = NoFile
  /\ tree = NoFiles
  /\ at = "free" /\ job = Idle /\ i = 1
  /\ work = EmptyOutline
  /\ next = NoFiles
  /\ acked = {} /\ crashes = 0

-----------------------------------------------------------------------------
(* Requests: what happens under the lock before the first operation *)

\* init(): restore the worktree from the last commit, or make the first one.
InitStore ==
  /\ at = "free"
  /\ \/ /\ head # NoFile
        /\ tree' = head
        /\ UNCHANGED <<at, job, next>>
     \/ /\ head = NoFile
        /\ at' = "snapshot"
        /\ job' = [Idle EXCEPT !.kind = "init"]
        /\ next' = Files(EmptySnapshot, <<>>)
        /\ UNCHANGED tree
  /\ UNCHANGED <<head, i, work, acked, crashes>>

\* Start the loop over the operations of a batch: applyOperations refuses a
\* base revision ahead of the outline and an empty batch.
Serve(request) ==
  /\ at = "free" /\ head # NoFile
  /\ request.base <= Snapshot.revision
  /\ request.ops # <<>>
  /\ at' = "ops" /\ i' = 1
  /\ job' = request
  /\ work' = Snapshot.outline
  /\ UNCHANGED <<head, tree, next, acked, crashes>>

\* Mutant: a list of answered requests in memory in place of the log.
AppliedIfAnswered(req) == req \in acked

Applied(req) == req # NoRequest /\ \E k \in DOMAIN Log : Log[k].req = req

BeginApply(req, base, ops) ==
  /\ at = "free" /\ head # NoFile /\ ~Applied(req)
  /\ Snapshot.revision < MaxRevision
  /\ Serve([Idle EXCEPT !.kind = "apply", !.req = req, !.base = base, !.ops = ops])

\* A request id that is in the log: the batch was applied by an earlier
\* attempt, so the retry is answered with the present snapshot.  The same id
\* with other operations is an error.
Retry(req, ops) ==
  /\ at = "free" /\ head # NoFile /\ Applied(req)
  /\ \E k \in DOMAIN Log : Log[k].req = req /\ Log[k].ops = ops
  /\ acked' = acked \cup {req}
  /\ UNCHANGED <<head, tree, at, job, i, work, next, crashes>>

BeginPropose(base, ops) ==
  /\ at = "free" /\ head # NoFile
  /\ Len(Snapshot.proposals) < MaxProposals
  /\ Serve([Idle EXCEPT !.kind = "propose", !.base = base, !.ops = ops])

\* Mutant: accepted nodes stay pending.
AcceptedStillPending(q, ids) == [q EXCEPT !.accepted = @ \cup ids]

Accepted(q, ids) == [q EXCEPT !.pending = @ \ ids, !.accepted = @ \cup ids]
Rejected(q, ids) == [q EXCEPT !.pending = @ \ ids, !.rejected = @ \cup ids]

\* Both decisions need a non-empty choice of pending nodes.
Selectable(p, ids) ==
  /\ p \in DOMAIN Snapshot.proposals
  /\ ids # {} /\ ids \subseteq Snapshot.proposals[p].pending

BeginAccept(p, ids) ==
  /\ at = "free" /\ head # NoFile /\ Selectable(p, ids)
  /\ Snapshot.revision < MaxRevision
  /\ LET batch == Snapshot.proposals[p]
     IN  Serve([Idle EXCEPT !.kind = "accept", !.base = batch.base,
                  !.ops = OperationsOn(batch.ops, ids), !.proposal = p, !.ids = ids])

Reject(p, ids) ==
  /\ at = "free" /\ head # NoFile /\ Selectable(p, ids)
  /\ at' = "snapshot"
  /\ job' = [Idle EXCEPT !.kind = "reject", !.proposal = p, !.ids = ids]
  /\ next' = Files([Snapshot EXCEPT !.proposals[p] = Rejected(@, ids)], Log)
  /\ UNCHANGED <<head, tree, i, work, acked, crashes>>

-----------------------------------------------------------------------------
(* The loop of applyOperations *)

ThisOp == job.ops[i]
AcceptsThis == Accepts(ThisOp, work, Snapshot.outline.node, job.base)

ApplyNext ==
  /\ at = "ops" /\ i <= Len(job.ops)
  /\ AcceptsThis
  /\ work' = Effect(ThisOp, work, Snapshot.revision + 1)
  /\ i' = i + 1
  /\ UNCHANGED <<head, tree, at, job, next, acked, crashes>>

\* Mutant: an operation that fails is left out, the rest is applied.
SkipRefused ==
  /\ at = "ops" /\ i <= Len(job.ops)
  /\ ~AcceptsThis
  /\ i' = i + 1
  /\ UNCHANGED <<head, tree, at, job, work, next, acked, crashes>>

\* The error leaves the store as it is: nothing has been written.
RefuseBatch ==
  /\ at = "ops" /\ i <= Len(job.ops)
  /\ ~AcceptsThis
  /\ at' = "free" /\ job' = Idle
  /\ work' = EmptyOutline
  /\ UNCHANGED <<head, tree, i, next, acked, crashes>>

\* Mutant: the record carries the revision the batch was applied to.
RecordBefore == [req |-> job.req, base |-> job.base, ops |-> job.ops,
                 revision |-> Snapshot.revision, proposal |-> job.proposal]

\* The batch has been applied to the copies.  A proposal only needed to know
\* that it can be; apply and review go on with the result.
Record == [req |-> job.req, base |-> job.base, ops |-> job.ops,
           revision |-> Snapshot.revision + 1, proposal |-> job.proposal]

NewSnapshot ==
  [Snapshot EXCEPT !.revision = @ + 1, !.outline = work]

Result ==
  CASE job.kind = "apply" -> Files(NewSnapshot, Append(Log, Record))
    [] job.kind = "accept" ->
         Files([NewSnapshot EXCEPT !.proposals[job.proposal] = Accepted(@, job.ids)],
               Append(Log, Record))
    [] job.kind = "propose" ->
         Files([Snapshot EXCEPT
                  !.proposals = Append(@, [base |-> job.base, ops |-> job.ops,
                                           pending |-> OpIds(job.ops),
                                           accepted |-> {}, rejected |-> {}])],
               Log)

\* Mutant: the answer is sent before the commit.
EndBatchAnswers ==
  /\ at = "ops" /\ i > Len(job.ops)
  /\ at' = "snapshot"
  /\ next' = Result
  /\ work' = EmptyOutline
  /\ acked' = IF job.req = NoRequest THEN acked ELSE acked \cup {job.req}
  /\ UNCHANGED <<head, tree, job, i, crashes>>

EndBatch ==
  /\ at = "ops" /\ i > Len(job.ops)
  /\ at' = "snapshot"
  /\ next' = Result
  /\ work' = EmptyOutline
  /\ UNCHANGED <<head, tree, job, i, acked, crashes>>

-----------------------------------------------------------------------------
(* persist(): three atomic replacements, then git commit --only *)

WriteSnapshot ==
  /\ at = "snapshot" /\ at' = "log"
  /\ tree' = [tree EXCEPT !.snapshot = next.snapshot]
  /\ UNCHANGED <<head, job, i, work, next, acked, crashes>>

WriteLog ==
  /\ at = "log" /\ at' = "markdown"
  /\ tree' = [tree EXCEPT !.log = next.log]
  /\ UNCHANGED <<head, job, i, work, next, acked, crashes>>

\* Mutant: outline.md is rendered later, after the commit.
LeaveMarkdown ==
  /\ at = "markdown" /\ at' = "commit"
  /\ UNCHANGED <<head, tree, job, i, work, next, acked, crashes>>

WriteMarkdown ==
  /\ at = "markdown" /\ at' = "commit"
  /\ tree' = [tree EXCEPT !.markdown = next.markdown]
  /\ UNCHANGED <<head, job, i, work, next, acked, crashes>>

\* git moves the branch to the new commit atomically.
Commit ==
  /\ at = "commit" /\ at' = "respond"
  /\ head' = tree
  /\ next' = NoFiles
  /\ UNCHANGED <<tree, job, i, work, acked, crashes>>

Respond ==
  /\ at = "respond" /\ at' = "free"
  /\ acked' = IF job.req = NoRequest THEN acked ELSE acked \cup {job.req}
  /\ job' = Idle
  /\ UNCHANGED <<head, tree, i, work, next, crashes>>

\* The process dies: what it had in memory is gone, the files stay.
Crash ==
  /\ at # "free" /\ crashes < MaxCrashes
  /\ crashes' = crashes + 1
  /\ at' = "free" /\ job' = Idle
  /\ work' = EmptyOutline /\ next' = NoFiles
  /\ UNCHANGED <<head, tree, i, acked>>

-----------------------------------------------------------------------------
Request ==
  \/ InitStore
  \/ \E ops \in Batch, base \in 0..(MaxRevision + 1) :
       \/ \E req \in RequestId \cup {NoRequest} : BeginApply(req, base, ops)
       \/ BeginPropose(base, ops)
  \/ \E req \in RequestId, ops \in Batch : Retry(req, ops)
  \/ \E p \in 1..MaxProposals, ids \in SUBSET Id : BeginAccept(p, ids) \/ Reject(p, ids)

ServeStep ==
  \/ ApplyNext \/ RefuseBatch \/ EndBatch
  \/ WriteSnapshot \/ WriteLog \/ WriteMarkdown \/ Commit \/ Respond

Next == Request \/ ServeStep \/ Crash

Spec == Init /\ [][Next]_vars

-----------------------------------------------------------------------------
(* Safety *)

\* A proposal in snapshot.json.
Proposal == [base : Rev, ops : Seq(Op), pending : SUBSET Id,
             accepted : SUBSET Id, rejected : SUBSET Id]

\* However batches, acceptances of parts of proposals and crashes mix, the
\* committed nodes form a forest: operations on a parent that is gone and
\* moves under one's own descendants are refused (README: "a deleted
\* reference or a cycle fails atomically").
CommittedForest == head # NoFile => Forest(Snapshot.outline.node)

\* A commit holds three files of one write, wherever an earlier writer died:
\* the Markdown is the rendering of the snapshot, and the log has one record
\* for each revision, in order.
CommitsAreWhole ==
  head # NoFile =>
    /\ head.markdown = Render(Snapshot.outline)
    /\ Len(Log) = Snapshot.revision
    /\ \A k \in DOMAIN Log : Log[k].revision = k

\* Retries of a batch with a request id do not apply it twice, also when the
\* answer to the first attempt was lost in a crash.
AppliedOnce ==
  head # NoFile =>
    \A k, m \in DOMAIN Log : Log[k].req = Log[m].req /\ Log[k].req # NoRequest => k = m

\* A batch that was reported as applied stays in the history.
AckedIsDurable ==
  \A req \in acked : head # NoFile /\ \E k \in DOMAIN Log : Log[k].req = req

\* ops.jsonl is the history of the outline: applying its records in order,
\* each at its revision, gives the nodes and tombstones of snapshot.json.
ReplayRecord(w, record) ==
  FoldLeft(LAMBDA v, op : Effect(op, v, record.revision), w, record.ops)
LogReplays ==
  head # NoFile => FoldLeft(ReplayRecord, EmptyOutline, Log) = Snapshot.outline

\* Every node of a proposal is pending, accepted or rejected, one of the
\* three; the accepted ones are those whose operations the log has from this
\* proposal, each once, even if a crash hides the outcome from the reviewer.
ReviewAccounting ==
  head # NoFile =>
    \A p \in DOMAIN Snapshot.proposals :
      LET q == Snapshot.proposals[p]
          from == {k \in DOMAIN Log : Log[k].proposal = p}
      IN  /\ q.pending \cup q.accepted \cup q.rejected = OpIds(q.ops)
          /\ q.pending \cap (q.accepted \cup q.rejected) = {}
          /\ q.accepted \cap q.rejected = {}
          /\ q.accepted = UNION {OpIds(Log[k].ops) : k \in from}
          /\ \A k, m \in from : k # m => OpIds(Log[k].ops) \cap OpIds(Log[m].ops) = {}

-----------------------------------------------------------------------------
(* What a step may never do *)

Holds(n) == [parent |-> n.parent, val |-> n.val]
Touched(id) ==
  \/ id \notin DOMAIN head'.snapshot.outline.node
  \/ Holds(head'.snapshot.outline.node[id]) # Holds(Snapshot.outline.node[id])

\* A batch changes, moves or deletes no node that somebody changed after the
\* revision the batch was made at (README: "A stale edit to the same node ...
\* fails atomically"): not as a descendant of a deleted node, and not when
\* the batch is part of an old proposal.
MadeAt ==
  IF job.kind = "accept" THEN Snapshot.proposals[job.proposal].base ELSE job.base
RespectsRevisions ==
  head # NoFile /\ head' # head =>
    \A id \in DOMAIN Snapshot.outline.node :
      Touched(id) => Snapshot.outline.node[id].changedAt <= MadeAt
NoStaleOverwrite == [][RespectsRevisions]_vars

\* A deleted id never names a node again, so an edit or an anchor that still
\* names it cannot hit another node.
RespectsTombstones ==
  head # NoFile =>
    \A id \in DOMAIN Snapshot.outline.tombs :
      /\ id \in DOMAIN head'.snapshot.outline.tombs
      /\ head'.snapshot.outline.tombs[id] = Snapshot.outline.tombs[id]
      /\ id \notin DOMAIN head'.snapshot.outline.node
DeletedForGood == [][RespectsTombstones]_vars

-----------------------------------------------------------------------------
(* The promise *)

\* Seen through the last commit, the loop over the operations, the three file
\* writes, the crashes between them and the retries are one indivisible step
\* for each request, or none.
Committed ==
  IF head = NoFile THEN NoFile ELSE [snapshot |-> head.snapshot, log |-> head.log]
History == INSTANCE OutlineHistory WITH history <- Committed, Nothing <- NoFile
WholeBatches == History!Spec
=============================================================================
