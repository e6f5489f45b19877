# ThreadVM in TLA+

ThreadVM keeps a project's outline in a Git repository of its own, lets people and agents edit it together in browsers, starts coding agents from its nodes, and shows the terminals of virtual machines. This directory models the parts of it where things can go wrong in ways a unit test hardly reaches: the durable state under `.threadvm/` and the lock in front of it, the agent runs that several processes start, watch, answer, stop and load again, the room of the server that turns runs into threads, the browsers that edit one document over connections that break, and the attachments to a terminal that replace one another.

The models are translated from the TypeScript source; `PROJECT.json` maps every definition to the lines it stands for. TLC checks small instances (the runs), TLAPS proves theorems for every value of the constants.

Paths are relative to the repository; `services/` stands for `packages/shared/src/services/`, `client/` for `apps/outline/src/client/`.

## The system

Several operating-system processes work on one project: the server, any number of CLI commands, and for every agent run a runner with a worker in a tmux pane, which calls `threadvm observe` (a CLI command again) for each event. They share no memory. What they share is a directory:

```
.threadvm/                      a Git repository of its own
  snapshot.json ops.jsonl outline.md      the outline           OutlineStore
  events.jsonl  runs/<id>/state.json      the execution log     RunEventLog
  runs/<id>/control/*.json                messages to a worker  AgentRuns -> worker
  runs/outline-room.json                  what the room passed on and refused
  .writer-lock/owner                      the lock              ThoughtsRepo
```

```
 browser --websocket--> OutlineRoom --> OutlineStore --.
    |     CLI, MCP ---------'  |                        >-- ThoughtsRepo (lock, git)
    |                          `--> AgentRuns --> RunEventLog --'
    |                                  |  ^            ^
    |                    control files |  | list       | threadvm observe
    |                    tmux          v  |            |
    |                                 pane: runner, worker, agent session
    `----websocket--> terminalRoutes --> TerminalBridge --> ssh or local pty
```

| Component | State | Operations | What is hard | What makes it correct |
|---|---|---|---|---|
| Writer lock, `services/ThoughtsRepo.ts` | a directory and the owner file in it | `acquire`, `release` (inside `withLock`) | every system call interleaves with those of others; a holder may die at any of them | one holder; an abandoned lock is broken; nobody waits for ever |
| Outline store, `services/OutlineStore.ts` | three files, and the last commit of them | `init`, `apply`, `propose`, `review` (accept, reject) | a batch from an old revision; a crash between file writes; a batch sent again; a proposal accepted in parts | whole batches, committed whole, applied once, kept; a forest; no stale overwrite |
| Execution log, `services/RunEventLog.ts` | `events.jsonl`, `state.json` by run | `append`, `read`, `project` | a torn line; an append called again; several observers of one end | append-only; once per event; closed after an end; the checkpoint never ahead |
| Agent runs, `services/AgentRuns.ts` | none of its own: the log, control files, tmux | `start`, `list`, `control` (with `resume`), `observe`, `authorize` | each reads the log, then acts on what it read, while others do the same; callers die | an ended run has no agent; a starting run is left alone; a lost pane is noticed |
| Agent worker and session, `packages/agent/src` | turns, open requests, events on their way, control files | prompt, answer, permission, cancel; the agent asks | an answer sent twice, late, or to an earlier session; stop against everything | a request is answered once, by the session that asked; stop stops |
| Document diff, `packages/outline-protocol/src` | none (pure) | `toItems`, `diff`, `replay` | an order of operations whose anchors exist when they are needed | the batch of a save is accepted and leads to the tree; `replay` shows what the store has |
| Outline room, `apps/server/src/OutlineRoom.ts` | threads, listeners, `outline-room.json` | connect, save, dispatch, answer, steer, cancel, resolve, tick | messages meet a state refreshed from log and store; handlers fail or die between passing something on and remembering it | one worker per bullet; what is hidden was answered; what is open is shown |
| Browser client, `client/` | the document, the last server document, the save in flight | edit, undo, retry, receive, reconnect | a save in flight while others' edits arrive; a connection that breaks before the answer | edits converge; no keystroke and no bullet is dropped silently |
| Terminals, `services/TerminalBridge.ts`, `apps/server/src/terminalRoutes.ts`, `apps/web/src/features/terminal` | the attachment of each VM, its process; the sockets of a tab | attach, replace, leave, resize | an attachment replaced while the one before is being set up or cleaned up; sizes known too early | one process a VM; none left behind; it has the window's size |
| Repository set-up, `services/ThoughtsRepo.ts` | Git | `init`, `remoteAdd`, `push` | little: sequences of git commands under the lock | |
| VM workspaces, `services/WorkspaceService.ts`, `services/LocalStore.ts` | one JSON file of all VMs | create and provision, stop, remove, reconcile | read-modify-write of the file without a lock; background provisioning | see "Not modelled" |
| exe.dev, SSH, commands and configuration | none | wrappers | | |
| MCP, CLI, VM inventory in the browser, Cloudflare demo, the vendored agent protocol | none, or views | call the services above | | |

`PROJECT.json` lists every component with its status and, under "hazards", each place where one of the difficulties above bites.

## The modules

| Module | What it is | Translated from |
|---|---|---|
| `WriterLock` | the lock, one action per system call | `ThoughtsRepo.ts` 29-62, 100-120 |
| `OutlineOps` | an outline, and one operation of a batch on it | `applyOperations` of `OutlineStore.ts` |
| `OutlineStore` | the store: requests, the loop, the three writes, the commit, the crash | the rest of `OutlineStore.ts` |
| `OutlineHistory` | its promise: one request is one step | (abstract) |
| `RunProjection` | one event folded into a run | loop body of `projectRuns`, `RunEventLog.ts` |
| `RunEvents` | the log as data: status, pending requests, what an append accepts | `RunEventLog.ts` |
| `RunLog` | `append`, one action per file operation, with crashes | `RunEventLog.ts` |
| `RunHistory` | its promise: an append-only log | (abstract) |
| `AgentRuns` | the callers, the pane, the worker and the session of one run | `AgentRuns.ts`, `agent/src/main.ts`, `AgentDriver.ts`, `Sandbox.ts` |
| `DocumentDiff` | `toItems`, `replay`, `diff`: the document outside the store | `outline-protocol/src/document.ts` |
| `DiffApplied` | a save that nobody interferes with | `document.ts`, `OutlineRoom.ts`, `OutlineStore.ts` |
| `OutlineRoom` | the room: its mutex, threads, handlers and what it remembers | `OutlineRoom.ts` |
| `ClientSync` | tabs, connections, and the saves of the room | `client/update.ts`, `socket.ts`, `history.ts`, `OutlineRoom.ts`, `outlineRoutes.ts` |
| `Terminal` | tabs, sockets, handlers and processes of one VM | `terminalSessionActions.ts`, `TerminalPane.tsx`, `terminalRoutes.ts`, `TerminalBridge.ts` |
| `MC*` | values of the constants for TLC | |
| `OutlineStoreProofs`, `RunLogProofs` (with the lock), `AgentRunsProofs`, `OutlineRoomProofs`, `DocumentProofs`, `ClientSyncProofs`, `TerminalProofs` | theorems and their proofs | |
| `Folding` | what a fold over a sequence computes, one element at a time, from an induction principle | (lemmas) |

They are layered the way the code is. `WriterLock` shows when the lock excludes. `OutlineStore` and `RunLog` use what it shows: in both at most one request is past the lock, and a dead holder's lock is taken as broken. Each implements an abstract specification: every step of `OutlineStore` is a whole batch of `OutlineHistory` or a stutter (`WholeBatches`), every step of `RunLog` an append of `RunHistory` (`AppendOnly`). The modules above work with the promise:

- `ClientSync` writes to the store with `OutlineHistory!Apply`, and makes the batches with `DocumentDiff!Diff`;
- `AgentRuns` and `OutlineRoom` take an append as one step and keep of the log what `RunProjection.Fold`, the fold of `RunLog`, makes of it; `ProjectionIsLatest` checks that fold against a definition that does not fold;
- `DocumentDiff` extends `OutlineOps`, so that the browser's copy of an outline and the store's are compared on the same data.

### WriterLock

`acquire` is a loop of `mkdir`, `writeFile` of the owner's process id (an `open` that truncates, and a `write`), or after `EEXIST` a `readFile` and `kill(pid, 0)`, or `stat` when there is no owner file. `rm` is an unlink and an rmdir. Each is an action; `call[t]` says which comes next. The names `file`, `pid`, `handles` and `aged` are the owner file, its text, the descriptors open on this very file (a write reaches the file it was opened on, not the one that has its name by then), and the directory's mtime being over 30 s ago.

Abstracted: time is `aged`, and `TimeOut`, which may come whenever a waiter wakes; process ids are not reused; removing the directory is not interrupted by other errors. An owner file left empty by a death between `open` and `write` is in the model; the code never breaks such a lock (`Number("")` is 0, no `ENOENT`), and `AbandonedLockIsBroken` does not claim that it does.

### OutlineStore

The committed files (`head`) and those of the worktree (`tree`) are apart: a writer reads the last commit, not the files, which is why a crash between two writes does no harm. A request goes through `at`: "ops" (the loop of `applyOperations`, one operation a step), "snapshot", "log", "markdown" (the three `atomicWrite`s), "commit", "respond". A `Crash` may come at each of them.

`text` and `done` of a node are one value; ids and times of records, and who acts, are left out; what `filter` leaves of a proposal's operations is `OperationsOn`; `accepted`, `rejected` and `pending` are sets. `outline.md` is a function of order, parents and contents. The array of nodes is the function `node` and the sequence `order`. `git add` and its index are left out because `commit --only` names the files; a full disk is not modelled.

### RunLog

`append` takes the lock, reads the log, leaves out a torn last line, refuses, drops or accepts the event (`Admit`), rewrites the log without the torn line if there was one (`Truncate`, `Rewrite`: what `writeFile` does to the file), appends the line, writes `state.json`. A `Crash` may leave a first part of what was being written. An event of a run nobody started, or of one that has ended, is "refused"; a second ending is "dropped"; an id that is there already is "known". `append` is idempotent in that id (`LoggedOnce`), though its callers in the repository make a new one for each call (`record`), so that only `CallAgain`, a caller that retries, puts it to the test.

Event ids are handed out in order, which loses nothing since nothing depends on their order. An event is its run, its kind and the requests it is about (a start has none: `start` records it with `pendingRequests: []`). The "started" of `start` carries the same run once more, which `projectRuns` puts in the place of the projected one; since `start` records nothing between the two, `Fold` only changes the status; of the ten kinds of signals the projection tells four apart (a session, something asked, something resolved, a cancellation); the others are "observed".

### AgentRuns

A caller is a process inside one operation (`calls[c].at`), with the run it read (`calls[c].seen`). Steps are the awaits of the code: `list` reads the log, then looks at the pane, then records; `control` lists, reads the list's result, checks the log again, writes the control file; `resume`, called by `control` for a run that has ended, records "starting" with the requests that were pending, finds or makes the tmux session, records "started", and respawns the pane. `start` undoes what it made when it fails. A caller may die between any two.

The pane is one of "none", "shell", "worker", "report" (the runner reports the worker's end), "dead". The worker takes the oldest control file (`Fetch`), acts on it, and only then removes it (`Unlink`), so that a file outlives the worker that took it. The driver's events go through a queue (`out`) to the log one after another, and an event the log refuses is the worker's end.

Abstracted: one run, with an agent of the protocol kind on the local sandbox; an answer without a text, which `AgentDriver.ts:352` makes a cancellation without a word to the log and no caller sends (`Answered` always tells the log); the user's operations are those of `control` (`OpsAssumption`); shells, remote sandboxes, `summarize` (a commit under the lock that changes no run), `authorize` and `prepare` (which change nothing) are left out, as are the agent's calls for files and terminals. The queue is unbounded. `old` is the run's `startedAt` being over 60 s ago. An agent that dies between two turns is noticed at the next one, so `AgentDies` is a death during a turn. What is sent to an agent is the request it answers, or a plain prompt.

### DocumentDiff and DiffApplied

A document is the ids in array order and what each node holds; a tree is a document whose order is the depth-first one. `DepthFirst` visits from the root as the recursive `visit` of `toItems` does, so nodes of a cycle and below a missing parent are left out. It does so without recursion: the node visited next (`Visit`) is the first child left of the latest node that has one. `ReplayOp` refuses nothing: a missing anchor counts as position 0, a node that is moved and not there comes in without an id and without a text (`Undefined`, as the spread of `undefined` gives). `Diff` walks the wanted tree and keeps the array that results from its own operations, as the code does; its deletions come last. The other loops are folds too. Left out: collapsed rows, and the schemas of the messages.

`DiffApplied` gives the batch of `Diff` (`steps`) to the store's `Accepts` and `Effect`, one operation a `TakeTurn`; `found` is the outline the save meets, `copy` what the store has made of it. Which outlines and trees there may be is assumed: a store's array holds each node of a forest once, and none that was deleted or changed after its revision (`Storable`); a tree is one that `toItems` leaves as it is (`Sendable`); the ids of new bullets are random, so none is that of a deleted one.

### ClientSync

The model of a tab has the tree, what undo brings back, the server's tree and revision as last received, the save in flight, and the flags of the code (`dirty` is `outline.revision # savedRevision`). What the client does with a message is one disjunct of `Receive` for each branch of `fromServer`; every update ends with `Update`, which posts a save if one is due. A tree with a bullet that has no id makes the update itself throw (`realItems` asks `isGhost` of its id, `client/projection.ts:18`), and so does every later one: from then on the tab does nothing more (`Thrown`). `renewDeletedIds` is `Renewed`, on tree and history; the new random ids are the next numbers. `abandoned` is a history variable: the saves their users gave up ("Retry my edit", "Discard"), which `RefusedForOthers` needs to say whose a commit is; no action reads it.

`up` and `down` are the connection, in order. `ClosedSocket` breaks it: what was on its way down is lost, and of what was on its way up any first part may have reached the server, whose fibers go on without the connection (`orphans`). The room is its saves: `ApplySave`, `Accept` and `Refuse` under the mutex, the broadcast to everyone who listens, `Tick` when another program wrote, and failures (`Fails`): of `refresh` before the save, of the store, of `persist` or `refresh` after the commit, when the sender is told of an error although the save is in, and of a tick.

Left out: threads (of which only that a changed one clears an error), collapsed rows, ghosts and completions, demo mode. The editor is reduced to four kinds of edits of one operation, and undo to one step.

### OutlineRoom

`job` is the handler that holds the room's mutex, with what it found in the refreshed threads; what a handler does between two moments that others can see is a step (`Review`, `Reviewed`, `Launch`, `Start`, `Control`, `Resume`, `PassOn`, `RecordAnswer`, `Mark`, `Finish`), and each may fail where the code's call may, with what the steps before it did left as it is. Beside it the agents ask, answer, end, offer bullets, and the CLI starts runs, deletes bullets and answers. `Derived` is what `refresh` makes of the log: status and question of each run, and the delegations that failed. `file` is `runs/outline-room.json` and `room` what the server has in memory, which a `Crash` empties.

`control` of `AgentRuns.ts` is four of these steps: the checks and the record of "starting" (`Control`), the record of "started" (`Resume`), the control file (`PassOn`), and, when an answer reaches a later session as a prompt, the record of the answer (`RecordAnswer`). The last may fail when the file is out already, since the log refuses it for a run that has ended meanwhile (`RunEventLog.ts:129`) or the lock is not to be had; then nothing is remembered, and the question comes up again. `passes` counts the answers passed on, and `lapses` those of them that were not remembered, for the properties; no action of the room reads them. Of `start`, the first record is `Launch`, the rest `Start`; the inside of both calls, with the pane and the callers that die, is in `AgentRuns`. The three reads of `refresh` are one; saves are in `ClientSync`; proposals of the CLI, activity, texts and `Push` are left out; a failing write of `outline-room.json` is left out, a death before it is not. Thread ids are random in the code and the next number here.

### Terminal

Connections are numbered in the order in which tabs open them; a connection is its two ends (`sock`, `server`), the messages between them, and the local process it may get (`pty`). `active` is `activeAttachments` for the one VM. `Attach` and `Leave` are the tab's effect and its cleanup, `Fit` and `Sync` the measuring of the window and the 80 ms timer, with all they compare (`sent` is `lastRemoteSizes`). The handler prepares, spawns (`Spawn`: without an await it closes the former attachment, spawns, and enters the new one), then waits for the first of the process's end (`Exit`) and the socket's (`InputEnds`), and cleans up (`Release`), which may be long after another attachment has replaced it.

Abstracted: the texts of input and output, and with them how many chunks wait: `Overflow` is a queue that happens to be full; pings; the queue of 256 client messages; a status or error sent just before a close is shown together with it; the spawn and the announcement are one step. Of `RemoteTerminalSession` only that it may fail, and that a restart ends processes, is seen. `unsynced` is a history variable, for the exception `SizeSettles` makes.

## What is checked

Twelve runs. Every property of a passing run has a mutant of the code (a dropped guard, a swapped order, a forgotten reset) under which TLC finds it violated in the same instance: the bounds are large enough to tell.

| Run | Instance | Properties |
|---|---|---|
| `lock_waits` | 3 processes with a task each, 1 death, fair | `CalmExclusion` `CalmCleanup` `AbandonedLockIsBroken` `AcquireEnds` |
| `lock_stale` | the same, a violation | `MutualExclusion` |
| `store` | 3 ids, 5 batches, 3 revisions, 1 request id, 1 proposal, 1 crash | `CommittedForest` `CommitsAreWhole` `AppliedOnce` `AckedIsDurable` `LogReplays` `ReviewAccounting` `NoStaleOverwrite` `DeletedForGood` `WholeBatches` |
| `log_writers` | 2 processes, 4 events of 2 runs, 1 death | `AckedIsKept` `LoggedOnce` `EndedIsClosed` `CheckpointIsPast` `ProjectionIsLatest` `AppendOnly` |
| `log_repair` | 2 events, 2 deaths, also during the repair, a violation | `AckedIsKept` |
| `runs_session` | server and user, 2 requests, 2 operations (answer, permit, stop), 1 death, an agent that cannot load sessions | `EndedIsGone` `LiveIsAwaited` `StartingIsSpared` `StopEnds` |
| `runs_resume` | 1 request, 2 operations (permit, prompt), 1 death, slow starts, an agent that loads sessions, fair | `AnsweredOnce` `NoReplayedApproval` `GoneIsNoticed` |
| `diff` | every outline of up to 3 nodes in every array order, every tree over the same ids | `ReplayFollowsStore` `ReachesTree` |
| `client` | 1 tab, 1 bullet at first; 2 edits, 1 undo, 1 retry, 1 write of another program, 1 broken connection, 1 failure, 4 of these together | `SavedIsShown` `SavesNameTheirBase` `RefusedForOthers` `KeystrokesKept` `Settles` |
| `client_moves` | 1 tab, 2 bullets, updates and moves, 1 move of another program, a violation | `NoBulletLost` |
| `room` | 2 bullets, 2 runs, 2 requests, an agent that is there and one that is not; 3 messages, 2 deeds of others, 1 death of the server, 3 of these together | `OneWorkerPerNode` `HiddenWasPassedOn` `PassedOnce` `QuestionsAreShown` |
| `terminal` | 2 tabs, 3 sockets, 2 sizes, 2 events | `OneTerminal` `SizeSettles` `EndsTogether` |

Why these bounds show what they are meant to:

- **Lock.** The hazard of breaking a lock is between two waiters, and the third task is the holder that comes between them; with one death somebody can be found dead. `lock_waits` has no pause of 30 s inside the lock (`MayStall`), which would only disturb the calm the safety properties assume; the theorems allow any number of tasks, processes, deaths and pauses.
- **Store.** Three ids make a chain, a cycle of two moves in one batch, and a deletion that takes a descendant along. Three revisions let an id be inserted, changed or deleted, and met again from a base revision that is stale. A proposal is reviewed before or after another batch; one crash lies between any two steps of any request, one request id can be retried after it.
- **Log.** Four events are a start, an ending and two more that race with them; a death tears a line, the next append repairs it while its caller calls again. Two processes suffice because the lock lets one write at a time; they are interchangeable (`SYMMETRY Alike`).
- **Runs.** Two operations are an answer sent twice, an answer and a stop, or an approval and a prompt that loads the session again, whose new worker meets the control file of the approval; the server lists at any moment besides. One death may be the caller's, the agent's or the pane's. `runs_session` has one session of a start that is not slow; what happens to its properties across sessions is under "Met while modelling".
- **Diff.** Three ids are an anchor, a node that moves past it and a parent that goes: two siblings that swap, parent and child that change places, children that leave a parent before it is deleted, each in every array order the store may hold.
- **Client.** Four happenings are an edit during a save, with the connection broken before the answer and somebody else's write in between; or an edit undone after it was deleted elsewhere. Properties of several tabs are those of one tab and others' writes: the room treats a tab's save and a program's batch alike (the store's revision moves), so the other tab is `OtherWrites`.
- **Room.** Three are two tabs answering one question around a death of the server, or around the end of the session, which makes the record of the first answer fail, two questions open at once of which one is answered as a message while the session goes on, a dispatch against an end, a suggestion accepted while the CLI starts a run on the bullet. The two delegations that failed make a chain as deep as is allowed, so a dispatch at the next level is refused. The initial states (`Logs`, `File0`) are states the room reaches by messages of its own; starting there saves the messages that lead to them.
- **Terminal.** The three sockets are of tab 1, tab 2 and tab 1 again: the third replaces the second's process, while the first one's handler may still be preparing or cleaning up. Two events are two changes of the window, or one and a failure.

No run checks deadlock where the system may really stop: when all the work is done (`log_*`, `diff`), or the bounds are used up and users, agents and tabs rest (`runs_*`, `client*`, `room`, `terminal`). The locks and the store are checked for it.

### Fairness

- `WriterLock!FairSpec`: a live task takes its next system call (WF of `Progress`; asking for the lock is not an obligation), and a waiter that comes back to the deadline again and again at last finds it passed (SF of `TimeOut`: the deadline is compared with the wall clock at each turn of the loop, and the sleep between turns makes it enabled on and off). A directory grows old by the clock (WF of `GrowOld`). A process that died does nothing, and a task that holds the lock is not obliged to release it.
- `AgentRuns!Fairness`: a caller that lives goes on with its operation, awaits being I/O that returns (WF of `Operate`); the server's tick lists the runs again and again (WF of `Lists`; `OutlineRoom` refreshes every 300 ms while somebody is connected); the worker, its writer and the runner go on (WF of `Work`); time passes (WF of `Age`). Nothing obliges an agent to ask anything or to end its turn.
- `OutlineRoom!Fairness`: the handler that has the mutex goes on, the tick ticks, and a tab connects again, which its timer makes it do. Nothing obliges users and agents.
- `ClientSync!Fairness`: messages are taken from a connection in order, the tab connects again, the room serves a save and ticks. Nothing obliges the user, and a connection may break as often as the bound says. In these two modules weak fairness is written out with the guards of the actions (`[]<>~Guard \/ []<><<A>>_vars`), which says the same as `WF_vars(A)` and spares TLC the evaluation of `ENABLED`.
- `DiffApplied!SaveSpec`: the loop over the batch goes on.
- `Terminal!Fairness`: some handler goes on or some socket delivers, as long as any can: a preparation fails after its timeout of 30 s at the latest, finalizers run. Because there are only so many connections, each with finitely many steps, this leaves no handler out for ever. Nothing obliges a tab to attach, to leave or to send its size.

### What the violations show

- `lock_stale`: two waiters read the same dead process id; one breaks the lock and takes it, the other then removes the new directory, since `rm` names a path and not what was looked at. Both hold the lock.
- `log_repair`: a death during the rewrite that removes a torn line loses acknowledged events, all of them if it comes just after the file was emptied. Every other rewrite in this code goes through a temporary file.
- `client_moves`: while a save is on its way the user moves bullet 2 under bullet 1, and somebody else moves 1 under 2. The answer to the save replays the user's move without the store's checks: the two form a cycle, `toItems` finds neither, and the tab, which had both, shows none. The next save deletes them on the server. "Retry my edit" refuses just this (`client/update.ts:727`).

### Met while modelling

Behaviours of the code that have no run, because no document, comment or test says that they should be otherwise (where one does, it is quoted), or because another run already has the place; the properties are stated so that they leave out exactly these.

- **Store.** A proposal that updates a child and deletes its parent: once the update is accepted, accepting the deletion conflicts with it for ever (`OutlineStore.ts:98-100`), although the comment at 339-340 says that only the node's own revision is checked.
- **Runs.** `list` records an end from a run and a pane it looked at before somebody else loaded the session again, and the loading then fails; a resumption keeps the run's first `startedAt` besides, so its 60 s are over before it begins (`AgentRuns.ts:269-282`). This is why `EndedIsGone`, `LiveIsAwaited` and `StartingIsSpared` are checked for one session. A worker that is stopped leaves the control file in its place (`agent/src/main.ts:109`), and every session loaded later meets that file first and stops, so a follow-up after a Stop is not sent. A process that dies between recording "started" and `respawn-pane` leaves an idle shell that `list` takes for a running agent for good. Two users who load a session at the same time can bring a resolved request back to pending (`AgentRuns.ts:218`).
- **Room.** A thread that was cancelled stays "Cancelled" for the room when its run is loaded again, and its questions stay hidden (`OutlineRoom.ts:360`). A question whose answer was passed on stays hidden also when its control file was never taken (366). The check before a launch (574) looks at threads that were derived before: it does not see an agent that is at work again because it was steered, or because an answer reached it as a prompt (`AgentRuns.ts:401-408`), nor runs that other servers or the CLI start. So two agents can work on a bullet; `Busy` says which count. A death between passing an answer on and remembering it (720) lets it be given twice, and so does a record of it that fails after the control file was written (`AgentRuns.ts:409-431`); `PassedOnce` allows one more for each.
- **Client.** Only an answer renews the ids of deleted bullets (`client/history.ts:3`), a retry does not: a retried edit, or an undo that takes it back, can bring back an id that is a tombstone by then, and every later save is refused. `RefusedForOthers` names this case: there was a retry, and the save has a bullet that was deleted by its base. A pending move of a bullet that was deleted elsewhere leaves one without an id, at which the tab's update throws, and every later one with it (`client/projection.ts:18`; `Settles` names it). A pending edit of a bullet somebody else changed meanwhile overwrites the change without a conflict, since its base is the newer document. An error of the server that answers nothing, as of one failed tick, blocks saving until a document or a thread changes (`client/update.ts:788`). A save the user gave up after the connection broke may still be applied by its orphan, and refuse a later one of the same tab; `RefusedForOthers` does not count it as the tab's own. An insertion below a bullet that was deleted elsewhere is dropped with it.
- **Diff.** Deleting a first sibling gives a `move` of the next one as well, because its predecessor changed; somebody's edit of that one is then a conflict with a deletion of another bullet (`PLAN_4.md:56-57`).
- **Terminal.** A window changed between the opening of a socket and "attached" is not measured again, and the process keeps the old size until the next change (`TerminalPane.tsx:162`), although `PLAN_3.md:149` says that "the latest size must always be applied"; `SizeSettles` excludes it by `unsynced`. A preparation whose tab has gone need not be interrupted: when it ends it replaces a newer attachment, and then ends itself. Output that finds room after an overflow is sent after a gap; output not yet delivered is dropped when the process exits.

## What is proved

TLAPS checks each theorem for every value of the constants that meets the assumptions beside their declarations. Those are what types them: a task has a process, `NoPid` is none of them, the special values are not ids, a batch is a sequence of operations, the bounds are numbers. Of the browser's constants they say besides that the outline at first is one (its array lists each node it has once, the nodes are a forest, none of them changed after its revision, no node is a tombstone) and that some id is unknown to everybody when the first tab opens, as a random id is.

**The lock** (last part of `RunLogProofs`): `LockTypeCorrect`, `CalmExclusionHolds`, `CalmCleanupHolds`. While nobody has died and nobody paused for 30 s, the owner file is there exactly from its opening to its unlinking (`OwnerHasFile`) and the directory while there is an owner (`OwnerHasDir`); hence no waiter finds a reason to break the lock (`NoBreaker`), hence one owner at most (`OneOwner`). Mutual exclusion alone is not inductive: it breaks as soon as a waiter may be at the breaking of a lock. Calm is never regained (`CalmIsLost`), so the invariant needs to hold only before. `RunLogProofs` extends both `WriterLock` and `RunLog`, which is why the names of the lock's specification begin with `Lock`.

**The store** (`OutlineStoreProofs`): `EffectIsGood`, `CommittedForestHolds`, `CommitsAreWholeHolds`, `AppliedOnceHolds`, `AckedIsDurableHolds`, `NoStaleOverwriteHolds`, `DeletedForGoodHolds`, `WholeBatchesHolds`, `LogReplaysHolds`, `ReviewAccountingHolds`. The first part of the module shows that one accepted operation keeps an outline a forest without its tombstones (`EffectIsGood`), and that the result still follows the outline the batch began with (`Follows`: what differs was not changed after the base revision, what was deleted stays deleted). The invariant carries this through the loop (`LoopInv`), from the end of the loop to the commit (`NextInv`: the files to be written are a good triple that `Succeeds` the committed one), and through the file writes (`TreeInv`: what has been written is what is to be written). `AckInv` ties an answer to the log. A crash falls back to `HeadInv`. The step that is not obvious is that a move out of one's own descendants closes no cycle: descendants are the smallest set closed under children, so the complement of a cycle would contradict it.

`WholeBatchesHolds` is the refinement of `OutlineHistory`: a writer at work knows that what it has applied so far is the fold of the batch's first operations over the committed outline, and that each of them was accepted there, so that its commit is the abstract step of the whole batch, and every other step of the loop, of the writes and of a crash a stutter. `LogReplaysHolds` adds (`Replays`) that a commit appends the record of just that batch, so that the replay of the log takes the same step; `ReviewAccountingHolds` (`Accounts`) that a review moves nodes out of "pending" only together with a record of their operations.

**The log** (first part of `RunLogProofs`): `TypeCorrect`, `AckedIsKeptHolds`, `LoggedOnceHolds`, `EndedIsClosedHolds`, `CheckpointIsPastHolds`, `ProjectionIsLatestHolds`, `AppendOnlyHolds`, each under the assumption that no death comes during the rewrite of a torn log (`"rewriting" \notin CrashPoints`); `log_repair` shows that the assumption is needed. The properties speak of `Settled`, the log as whoever rewrites it will leave it. `HandInv` says that what the writer has read is what is in the file, or will be again, and that its event is acceptable after that. `CheckpointIsPastHolds` names the prefix of the log each `state.json` was projected from (`Checkpoints`): it reaches at least to the run's last answered event, and a longer log keeps it. `ProjectionIsLatestHolds` is an induction over the log: from an unfolded description of what the projection of a prefix is, one more event leads to that of the longer prefix, kind by kind. `AppendOnlyHolds` is a refinement: every step is an append of `RunHistory` or leaves it alone.

**The runs** (`AgentRunsProofs`): `AnsweredOnceHolds` and `NoReplayedApprovalHolds`. A request an agent has open was asked in this session and has had no answer (`OpenIsUnanswered`), one never asked has none, and a new worker inherits no open requests. Everything outside the pane is irrelevant to it (`Quiet`): whatever control files callers leave behind, and whoever dies.

`EndedIsGoneHolds`, `LiveIsAwaitedHolds`, `StartingIsSparedHolds`, for any callers, requests, control files and deaths, but for an agent that cannot load sessions and starts that take less than 60 s (`~LoadSession`, `~Slow`): with either, the code does not keep them, see "Met while modelling". Each of the three speaks of the log, and what is written to the log was decided from an earlier state of it; so the invariant `OneSession` says of every caller at every await what it has read and what of it is still true (`CallsAre`: a run seen as ended has ended, a pane seen dead is dead, a start is undone only by its starter, while it has no agent), of the pane and the log around them which states go together (`Around`), and of the worker that what the log shows as live is open there or resolved in its queue (`WorkerAwaits`).

**The room** (`OutlineRoomProofs`): `HiddenWasPassedOnHolds` and `PassedOnceHolds`, for any log and any number of messages and deaths, and for whatever agents and other processes do (`Quiet` steps, which touch nothing the invariant speaks of). Neither property is inductive: the room acts on its memory, not on the file, and between passing an answer on and remembering it only the handler knows of it. The invariant adds that memory and file agree while the room is loaded (`MemoryIsFile`), that a handler about to pass an answer on found it unanswered in the file and one about to record or mark it has passed it on (`HandlerKnows`), and that a request was passed on at most as often as it was then forgotten, plus once if it is remembered or just being remembered (`PassesAreRemembered`). A death or an error in that gap moves a pass from the second case to the first, which is where the bound comes from. Every step of `control` may fail here after those before it.

**One agent a bullet** (second part of `OutlineRoomProofs`): `OneWorkerPerNodeHolds`. The room decides on a launch from threads it derived when it took the message, or when it had accepted a suggestion, while agents and other processes go on. What makes this right is that a run that is `Live` (it works, or has a question nobody answered, also after its session ended, since the answer would load the session again) was `Live` all the time, except for runs the room adds: so the threads at hand show every one of them as at work (`LiveAreShown`), and no bullet has two (`OneLive`). The property alone is not inductive, because an ended run with an open question is not at work but will be when the answer comes. `RunFacts` says what a run cannot be without having been stopped or prompted. The invariant of the first part is used once, for the answer: a handler passes on only what nobody has answered. `LogsAssumption` says of the runs at the start only what the room makes sure of (one run a bullet, none stopped or prompted).

**Documents** (first part of `DocumentProofs`). What `toItems`, `replay` and `diff` do is proved for every array of bullets, also with missing parents and cycles. The walk of `toItems` visits no node twice and stops only when every node it reached has had its children visited (`DepthFirstIs`, `AllVisited`); what it makes is a tree with the texts of the document, and made again from a tree it is the same tree (`ToItemsIs`, `ToItemsAgain`). The operations that `Diff` finds write no text but that of the wanted tree, and update each node whose text differs there (`DiffIs`); after a `Replay` of such operations on any document, a node has the wanted text, or its own if none of them updates it (`ReplayIs`). An operation of the store, and so a whole batch, leaves an outline that lists each node once and has no tombstone among its nodes.

**A save that nobody interferes with** (second part of `DocumentProofs`): `ReplayFollowsStoreHolds`, `NothingRefusedHolds`, `TreeReachedHolds`, for any outline the store may hold and any tree a browser may send. Two things must be known, and neither is about one operation.

- The array that `diff` works on and the array of the store are not the same: `toItems` has put the one into depth-first order, and `replay` and `place` put a node at different positions. They are `Alike`: the same nodes, the same parents and texts, and siblings in the same order, whatever is between them. `AlikeTree` shows that `toItems` makes the same tree of such arrays, and `AlikeStep` that an operation the store accepts keeps them alike. For this `PlacedIn` says without positions where a node comes to stand: after its anchor and after whatever came before that, before the other siblings.
- The store must accept each operation when its turn comes. `Leads` says of a batch that it goes from one array to another by operations of which each fits where it is applied (`Fits`: the parent is there, the anchor is a sibling, a node is not moved below itself). `DiffLeads` shows it of what `diff` makes, by an induction over each of its two loops. After i turns of the first, the first i nodes of the tree are there, under their parents, in order (`Sorted`); since a parent comes before its children in a tree (`ParentFirst`), parent and anchor of the next node are among these, and a move closes no cycle, because the chain of parents up from the new one consists of nodes that have had their turn. A node left where it is was behind its anchor already (`StayTurn`). In the second loop a deletion takes nothing along that the tree has, because by then no node of the tree is below one that goes (`DeleteTurn`); what is left makes the tree (`SortedTree`).

`SaveInv` carries both through the batch. `TreeReached` is the safety part of `ReachesTree`; that the end is reached stays with TLC.

**The browser** (`ClientSyncProofs`, which builds on `DocumentProofs`), for any tabs, edits, undos, retries, errors, broken connections and writes of others:

- `SavesNameTheirBaseHolds`. The store refuses a batch because of what changed after its base revision, so a save whose items are not those of the revision it names would pass, or be refused, wrongly. The property is about the save in flight, which is made from the tab's last server document, which came by a message: so the invariant says of all three that the items are what the log was at their revision (`Founded`, `Faithful`), and of the store that its outline is what its log leads to (`Kept`). A log only grows, so what was true of a revision stays true (`KnowsStill`), also for a message that has waited through later commits.
- `SavedIsShownHolds`. A tab calls its document saved when the answer to a save finds no edit made meanwhile. The code gets there by a detour: it replays the difference of two equal trees on the server's document, makes a tree of the result, and renews the ids of deleted bullets. That the detour ends at the server's document needs that the difference is empty, that `toItems` of a tree is the tree, and that the room sends trees without deleted ids, so that nothing is renamed (`Plain`, part of `Faithful`); and of every document in the system that its ids were given out before (`Fresh`, `Ids`, `Drafts`), or a renewed id could be one that somebody has. `Shows` is the property itself, said of one tab.
- `KeystrokesKeptHolds`. A text typed while a save was on its way is an update of the difference from what was sent (`DiffIs`); its replay on whatever document the server answers with writes that text (`ReplayIs`); `toItems` and the renaming of ids keep the texts of what they keep. The other branches leave the tab's tree alone, or there was nothing typed to lose.

`RefusedForOthersHolds` is the largest of these: a tab's save is refused only because of what others committed since its base. It assumes besides that new ids never run out (`Id = Nat`; TLC has seven, which its bounds do not use up): with none left, a deleted bullet could not be renamed. The argument has two halves.

- *What the store does.* It holds a forest, each node once, in which no node changed after the last commit (`Firm`). So a save made on the latest document, with no deleted bullet in its tree, is not refused: its operations are those of `DiffLeads`, and none of them meets a node that changed after the base (`DiffAccepted`). For this the trees of tabs must have parents before children (`Grown`), also those an undo brings back and those whose ids were renewed; a renewed id is one that nobody has, and two are never the same (`AliasApart`).
- *Whose commits there are* (`OInv`). A tab without a save on its way knows every commit of its own, and neither its tree nor its undo has a bullet that was deleted by the revision it knows (`Rests`). With one on its way it knew, at the base of that one, all of its own but that one (`Waits`), so what refuses it is somebody else's, or it had been committed and is answered as done. A save that is on its way twice, after a broken connection, is the same save, or given up, or done with (`Due`). Messages come in the order of their revisions, an answer is not older than its commit, and a refusal has a reason when it is sent and keeps it, since the log only grows (`Tells`).

**The terminal** (`TerminalProofs`): `OneTerminalHolds` and `SizeSettlesHolds`, for any number of tabs, sockets and sizes. `OneTerminal` is inductive together with the shapes of processes (`Shapes`): `Spawn` closes the active process, the only one that runs, before it enters its own, and `Release` removes the entry only if it is its own. `SizeSettles` is about a moment when nothing is on its way, and is far from inductive. `Settling` follows a size through every stage between window and process (`Served`): the size the process has, or will have when the resizes on the wire arrive (`End`), is the one the tab takes for it (`sent`); until "attached" it is the size in the address; from then on it is the window's, or the timer is set. `Owned` ties each open socket to the one tab that listens to it.

**Folds.** The functions that matter are loops over sequences: the loop of a batch, the replay of a log, the projection of a run, `filter`. In the models they are `FoldLeft`, which the community modules define by recursion over sets of positions. `Folding` shows once, for any step, that such a fold has a value, which at the empty sequence is the base and after `Append` is one step from the value before, and that an induction over sequences is sound. The step of a fold is a constant operator to be instantiated there, and the one fact of arithmetic it needs, that a set which has 0 and with each number the next has every natural number, is a premise of its lemmas (`Induction`). Each module that folds proves that premise once, from the well-foundedness of `<` on `Nat` (`NatSetInduction`).

Only model-checked: liveness (`AcquireEnds`, `AbandonedLockIsBroken`, `GoneIsNoticed`, `StopEnds`, `QuestionsAreShown`, `Settles`, `ReachesTree`, `EndsTogether`), which the prover does not reach. Every other property of a passing run is a theorem.

## Not modelled

- **VM workspaces** (`WorkspaceService.ts`, `LocalStore.ts`). The metadata file is read and written without a lock, and removal does not stop provisioning. What one would want to state (no update lost, a removed VM forgotten) does not hold, and nothing in the repository claims it; what remains are sequences of remote commands. The list of VMs starts from what exe.dev reports, so an entry that comes back is not seen.
- **exe.dev, SSH, commands, configuration, CLI, MCP**: wrappers of processes and files, or callers of the services that are modelled; their processes are the callers and tasks of the models.
- **Repository set-up**: `init`, `remoteAdd` and `push` are sequences of git commands under the lock; what git does to its files is outside.
- **The vendored agent protocol** and its generated schemas, which are the larger part of the repository's lines: `AgentRuns` sees of it that an agent asks, is answered, and ends.
- **VM inventory in the browser, Cloudflare demo**: views of the server's answers, and a demonstration with simulated agents.
- **The rest of the outline's browser client** (`App`, views, completions, ghosts): what it changes of the document goes through the edits of `ClientSync`.
