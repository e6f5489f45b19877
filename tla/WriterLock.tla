----------------------------- MODULE WriterLock -----------------------------
(***************************************************************************)
(* The writer lock of the thoughts repository (ThoughtsRepo.ts): the       *)
(* directory .threadvm/.writer-lock, created with mkdir, in which the      *)
(* holder writes its process id in a file called "owner".                  *)
(*                                                                         *)
(* Every CLI invocation, the server and every `threadvm observe` is a      *)
(* process; the server runs many fibers at once, so several tasks may      *)
(* share one process.  One action is one system call: the operations of    *)
(* different tasks interleave between any two of them.                     *)
(*                                                                         *)
(*   mkdir ---> open ---> write ---> held ---> relUnlink ---> relRmdir     *)
(*     |  ^                                                                *)
(*     v  |                                                                *)
(*   read -> probe ----> brkUnlink ---> brkRmdir ---> mkdir                *)
(*     |  `-> wait            ^                                            *)
(*     `---> stat ------------'                                            *)
(***************************************************************************)
EXTENDS Naturals, FiniteSets

CONSTANTS
  Task,        \* fibers and CLI commands that take the lock
  Proc,        \* operating-system processes; a process id is never reused
  ProcOf,      \* the process each task runs in
  NoPid,       \* what an empty owner file says: Number("") is not a pid
  MaxDeaths,   \* bound: how many processes may die
  MayStall     \* bound: whether a live task may, once, pause for 30 s

ASSUME ProcOfAssumption == ProcOf \in [Task -> Proc]
ASSUME NoPidAssumption == NoPid \notin Proc
ASSUME DeathsAssumption == MaxDeaths \in Nat /\ MayStall \in BOOLEAN

VARIABLES
  dir,      \* whether the lock directory exists
  file,     \* whether the owner file exists in it
  pid,      \* what the owner file says (NoPid until the write)
  handles,  \* tasks that hold an open descriptor of this very owner file
  aged,     \* the directory's mtime is more than 30 s ago
  call,     \* where each task is in acquire / release
  seen,     \* the process id each task last read
  dead,     \* processes that have died
  stalled   \* history: a live task once paused for 30 s inside the lock

lockVars == <<dir, file, pid, handles, aged, call, seen, dead, stalled>>
fs == <<dir, file, pid, handles, aged>>

Acquiring == {"mkdir", "read", "probe", "stat", "wait"}
Breaking == {"brkUnlink", "brkRmdir"}
Owning == {"open", "write", "held", "relUnlink", "relRmdir"}
Stage == {"idle", "failed", "dead"} \cup Acquiring \cup Breaking \cup Owning

LockTypeOK ==
  /\ dir \in BOOLEAN /\ file \in BOOLEAN /\ aged \in BOOLEAN
  /\ pid \in Proc \cup {NoPid}
  /\ handles \subseteq Task
  /\ call \in [Task -> Stage]
  /\ seen \in [Task -> Proc \cup {NoPid}]
  /\ dead \subseteq Proc
  /\ stalled \in BOOLEAN

LockInit ==
  /\ dir = FALSE /\ file = FALSE /\ pid = NoPid /\ handles = {} /\ aged = FALSE
  /\ call = [t \in Task |-> "idle"]
  /\ seen = [t \in Task |-> NoPid]
  /\ dead = {}
  /\ stalled = FALSE

Goto(t, from, to) == call[t] = from /\ call' = [call EXCEPT ![t] = to]

-----------------------------------------------------------------------------
(* acquire *)

Start(t) ==
  /\ Goto(t, "idle", "mkdir")
  /\ UNCHANGED <<fs, seen, dead, stalled>>

\* Mutant: mkdir with {recursive: true}, which an existing directory suits.
MkdirRecursive(t) ==
  /\ Goto(t, "mkdir", "open")
  /\ dir' = TRUE
  /\ UNCHANGED <<file, pid, handles, aged, seen, dead, stalled>>

Mkdir(t) ==
  \/ /\ ~dir
     /\ Goto(t, "mkdir", "open")
     /\ dir' = TRUE /\ file' = FALSE /\ pid' = NoPid
     /\ handles' = {} /\ aged' = FALSE
     /\ UNCHANGED <<seen, dead, stalled>>
  \/ /\ dir                                         \* EEXIST
     /\ Goto(t, "mkdir", "read")
     /\ UNCHANGED <<fs, seen, dead, stalled>>

\* writeFile opens with O_CREAT and O_TRUNC: another task's owner file in a
\* directory made again in the meantime is truncated, not replaced.
OpenOwner(t) ==
  \/ /\ dir
     /\ Goto(t, "open", "write")
     /\ file' = TRUE /\ pid' = NoPid
     /\ handles' = handles \cup {t}
     /\ aged' = (aged /\ file)                        \* creating it touches mtime
     /\ UNCHANGED <<dir, seen, dead, stalled>>
  \/ /\ ~dir                                        \* ENOENT is rethrown
     /\ Goto(t, "open", "failed")
     /\ UNCHANGED <<fs, seen, dead, stalled>>

\* The write reaches whatever file the descriptor was opened on, even one
\* that has been unlinked since; then the task believes it has the lock.
WriteOwner(t) ==
  /\ Goto(t, "write", "held")
  /\ pid' = IF t \in handles THEN ProcOf[t] ELSE pid
  /\ handles' = handles \ {t}
  /\ UNCHANGED <<dir, file, aged, seen, dead, stalled>>

ReadOwner(t) ==
  \/ /\ file
     /\ seen' = [seen EXCEPT ![t] = pid]
     /\ Goto(t, "read", IF pid = NoPid THEN "wait" ELSE "probe")
     /\ UNCHANGED <<fs, dead, stalled>>
  \/ /\ ~file                                       \* ENOENT
     /\ Goto(t, "read", "stat")
     /\ UNCHANGED <<fs, seen, dead, stalled>>

\* Mutant: a dead owner is waited for.
ProbeIgnored(t) ==
  /\ Goto(t, "probe", "wait")
  /\ UNCHANGED <<fs, seen, dead, stalled>>

\* process.kill(owner, 0): ESRCH means the owner is gone.
Probe(t) ==
  /\ Goto(t, "probe", IF seen[t] \in dead THEN "brkUnlink" ELSE "wait")
  /\ UNCHANGED <<fs, seen, dead, stalled>>

Stat(t) ==
  /\ Goto(t, "stat", IF dir /\ aged THEN "brkUnlink" ELSE "wait")
  /\ UNCHANGED <<fs, seen, dead, stalled>>

\* Sleep 25 ms and try again, or give up once 35 s have passed.
Retry(t) ==
  /\ Goto(t, "wait", "mkdir")
  /\ UNCHANGED <<fs, seen, dead, stalled>>
\* Mutant: no deadline.
NoDeadline(t) ==
  /\ Goto(t, "wait", "mkdir")
  /\ UNCHANGED <<fs, seen, dead, stalled>>

TimeOut(t) ==
  /\ Goto(t, "wait", "failed")
  /\ UNCHANGED <<fs, seen, dead, stalled>>

-----------------------------------------------------------------------------
(* rm(path, {recursive, force}): empty the directory, then remove it.  It   *)
(* names a path, not the directory the task once looked at.                 *)

Unlink(t, from, to) ==
  /\ Goto(t, from, to)
  /\ file' = FALSE /\ pid' = NoPid /\ handles' = {}
  /\ aged' = (aged /\ ~file)                          \* unlinking touches mtime
  /\ UNCHANGED <<dir, seen, dead, stalled>>

Rmdir(t, from, to) ==
  \/ /\ ~file
     /\ Goto(t, from, to)
     /\ dir' = FALSE /\ aged' = FALSE
     /\ UNCHANGED <<file, pid, handles, seen, dead, stalled>>
  \/ /\ file                                        \* ENOTEMPTY is rethrown
     /\ Goto(t, from, "failed")
     /\ UNCHANGED <<fs, seen, dead, stalled>>

BreakUnlink(t) == Unlink(t, "brkUnlink", "brkRmdir")
BreakRmdir(t) == Rmdir(t, "brkRmdir", "mkdir")

\* The release of acquireRelease removes the path whoever it belongs to.
Release(t) ==
  /\ Goto(t, "held", "relUnlink")
  /\ UNCHANGED <<fs, seen, dead, stalled>>
ReleaseUnlink(t) == Unlink(t, "relUnlink", "relRmdir")
\* Mutant: release removes the owner file only.
LeaveDirectory(t) ==
  /\ Goto(t, "relRmdir", "idle")
  /\ UNCHANGED <<fs, seen, dead, stalled>>

ReleaseRmdir(t) == Rmdir(t, "relRmdir", "idle")

\* The caller reports the error; a later command starts afresh.
GiveUp(t) ==
  /\ Goto(t, "failed", "idle")
  /\ UNCHANGED <<fs, seen, dead, stalled>>

-----------------------------------------------------------------------------
(* The environment *)

Dies(p) ==
  /\ p \notin dead
  /\ Cardinality(dead) < MaxDeaths
  /\ dead' = dead \cup {p}
  /\ call' = [t \in Task |-> IF ProcOf[t] = p THEN "dead" ELSE call[t]]
  /\ handles' = {t \in handles : ProcOf[t] # p}
  /\ UNCHANGED <<dir, file, pid, aged, seen, stalled>>

\* Thirty seconds pass without a change to the directory's entries.  If a
\* live task is between mkdir and its write, or between unlink and rmdir,
\* it has been paused for that long.
GrowOld ==
  /\ dir /\ ~file /\ ~aged
  /\ LET paused == \E t \in Task : call[t] \in {"open", "relRmdir", "brkRmdir"}
     IN  /\ paused => MayStall /\ ~stalled
         /\ stalled' = (stalled \/ paused)
  /\ aged' = TRUE
  /\ UNCHANGED <<dir, file, pid, handles, call, seen, dead>>

TaskStep(t) ==
  \/ Start(t) \/ Mkdir(t) \/ OpenOwner(t) \/ WriteOwner(t)
  \/ ReadOwner(t) \/ Probe(t) \/ Stat(t) \/ Retry(t) \/ TimeOut(t)
  \/ BreakUnlink(t) \/ BreakRmdir(t)
  \/ Release(t) \/ ReleaseUnlink(t) \/ ReleaseRmdir(t)
  \/ GiveUp(t)

LockNext ==
  \/ \E t \in Task : TaskStep(t)
  \/ \E p \in Proc : Dies(p)
  \/ GrowOld

LockSpec == LockInit /\ [][LockNext]_lockVars

\* A live process keeps running, and the clock keeps ticking: a waiter that
\* comes back to the deadline again and again finds it passed.  No task is
\* obliged to ask for the lock, so Start is not fair.
Progress(t) == TaskStep(t) /\ call[t] # "idle"
FairSpec ==
  /\ LockSpec
  /\ \A t \in Task : WF_lockVars(Progress(t)) /\ SF_lockVars(TimeOut(t))
  /\ WF_lockVars(GrowOld)

-----------------------------------------------------------------------------
(* Properties *)

\* At most one task runs the work given to withLock.  This is what the
\* comment over acquire says the lock is for ("coordinates independently
\* launched CLI and server processes").
MutualExclusion ==
  \A t, u \in Task : call[t] = "held" /\ call[u] = "held" => t = u

Calm == dead = {} /\ ~stalled

\* As long as no process has died and no task was paused for 30 s inside the
\* lock, the lock excludes: mkdir, the owner file and rm never let in a
\* second task, in whatever order the calls of the tasks interleave.
CalmExclusion == Calm => MutualExclusion

\* Once no further process dies, a lock whose owner file names a dead process,
\* or that was left without an owner file for 30 s, does not outlive the next
\* task that asks for it.
Asked == \E t \in Task : call[t] = "mkdir"
NoMoreDie == Cardinality(dead) = MaxDeaths
AbandonedLockIsBroken ==
  /\ \A p \in Proc : (NoMoreDie /\ p \in dead /\ pid = p /\ Asked) ~> pid # p
  /\ (NoMoreDie /\ dir /\ aged /\ ~file /\ Asked) ~> (~dir \/ file)

\* No one waits for ever: a task that asks for the lock gets it or an error,
\* whatever the others do, also when the lock was left behind.
AcquireEnds ==
  \A t \in Task : call[t] = "mkdir" ~> call[t] \in {"held", "failed", "dead"}

\* As long as all is calm the directory is there only while a task is inside:
\* no use of the lock leaves it behind, so nobody waits for nobody.
CalmCleanup ==
  Calm /\ dir => \E t \in Task : call[t] \in Owning
=============================================================================
