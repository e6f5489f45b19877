------------------------------ MODULE AgentRuns ------------------------------
(***************************************************************************)
(* One agent run: the operations of AgentRuns.ts (start, list, control and *)
(* the resume inside it), called by the server and by CLI commands, each a *)
(* process of its own; and the tmux pane in which the runner, its worker   *)
(* (packages/agent/src/main.ts) and the agent's session (AgentDriver.ts)   *)
(* live on when those processes die.                                       *)
(*                                                                         *)
(* They meet in the execution log, of which `run` is the projection        *)
(* (RunProjection; RunLog shows that appends are atomic), in the files of  *)
(* runs/<id>/control, and in the pane.  The sandbox is the local one.      *)
(***************************************************************************)
EXTENDS RunProjection, Naturals

CONSTANTS
  Caller,       \* processes that call AgentRuns
  Starter,      \* the one that starts the run
  OpsOf,        \* bound: the operations each caller asks for
  MaxCalls,     \* bound: how many operations besides list are asked for
  Permission,   \* requests for a permission; the others are questions
  NoRequest,
  LoadSession,  \* whether the agent can load a session again
  Persistent,   \* whether the session stays open after its first turn
  Slow,         \* whether an operation on a starting run may take 60 s
  MaxDeaths     \* bound: deaths of callers, agents, panes

ASSUME CallerAssumption == Starter \in Caller /\ NoRequest \notin Request
ASSUME PermissionAssumption == Permission \subseteq Request
ASSUME OpsAssumption ==
  \A c \in Caller :
    OpsOf[c] \subseteq {"list", "permission", "answer", "prompt", "cancel"}
ASSUME BoundAssumption == MaxCalls \in Nat /\ MaxDeaths \in Nat

VARIABLES
  run,       \* the run as projected from the log
  resolved,  \* the requests some event of the log resolves
  old,       \* the run started more than 60 s ago
  pane,      \* the tmux pane of the run
  files,     \* the control files, in the order of their names
  worker,    \* the worker in the pane
  calls,     \* where each caller is in its operation, and the run it read
  counts,    \* bounds: operations asked for, deaths, sessions
  asked,     \* history: the session in which each request was asked, or 0
  replies    \* history: the answers the agent was given, by request

vars == <<run, resolved, old, pane, files, worker, calls, counts,
          asked, replies>>

NoWorker ==
  [phase |-> "none", resumes |-> FALSE, prompts |-> <<>>, turn |-> FALSE,
   asks |-> {}, out |-> <<>>, hand |-> FALSE]

Idle == [op |-> "none", at |-> "idle", request |-> NoRequest, seen |-> FreshRun]

Signal(kind, requests) == [kind |-> kind, requests |-> requests]

Question == Request \ Permission

Init ==
  /\ run = FreshRun /\ resolved = {} /\ old = FALSE
  /\ pane = "none" /\ files = <<>> /\ worker = NoWorker
  /\ calls = [c \in Caller |-> Idle]
  /\ counts = [calls |-> 0, deaths |-> 0, sessions |-> 0]
  /\ asked = [q \in Request |-> 0]
  /\ replies = [q \in Request |-> 0]

-----------------------------------------------------------------------------
(* The log.  An ended run takes nothing but a restart; a second ending is    *)
(* dropped without an error.                                                 *)

Takes(e) == run.status = "ended" => Restarts(e)

Record(e) == run' = Fold(run, e)

RecordEnding(kind) ==
  IF run.status = "ended" THEN UNCHANGED run ELSE Record(Signal(kind, {}))

-----------------------------------------------------------------------------
(* The operations *)

To(c, at) == calls' = [calls EXCEPT ![c].at = at]
Finish(c) == calls' = [calls EXCEPT ![c] = Idle]
At(c, at) == calls[c].at = at

history == <<asked, replies>>

\* start: the run is recorded before anything is made for it.
Start ==
  /\ At(Starter, "idle") /\ run.status = "unknown"
  /\ Record(Signal("starting", {}))
  /\ calls' = [calls EXCEPT ![Starter] = [Idle EXCEPT !.op = "start", !.at = "provision"]]
  /\ UNCHANGED <<resolved, old, pane, files, worker, counts, history>>

\* A worktree and a tmux session with a shell, or an error.
Provision(c) ==
  /\ At(c, "provision")
  /\ \/ pane' = "shell" /\ To(c, "started")
     \/ pane' = "none" /\ To(c, "undo")
  /\ UNCHANGED <<run, resolved, old, files, worker, counts, history>>

Begin(c, op, q) ==
  /\ At(c, "idle") /\ run.status # "unknown"
  /\ op \in OpsOf[c]
  /\ q \in CASE op = "permission" -> Permission
             [] op = "answer"     -> Question
             [] OTHER             -> {NoRequest}
  /\ q # NoRequest => asked[q] # 0
  /\ IF op = "list"
     THEN UNCHANGED counts
     ELSE counts.calls < MaxCalls /\ counts' = [counts EXCEPT !.calls = @ + 1]
  /\ calls' = [calls EXCEPT ![c] = [Idle EXCEPT !.op = op, !.at = "read", !.request = q]]
  /\ UNCHANGED <<run, resolved, old, pane, files, worker, history>>

\* list: read the log, then look at the pane, then record what it shows.
Read(c) ==
  /\ At(c, "read")
  /\ calls' = [calls EXCEPT ![c].seen = run,
                            ![c].at = IF run.status = "ended" THEN "reread" ELSE "look"]
  /\ UNCHANGED <<run, resolved, old, pane, files, worker, counts, history>>

Gone == pane \in {"none", "dead"}

\* Mutant: a starting run is no exception.
OutcomeHasty(starting) ==
  IF starting /\ old THEN "fail" ELSE IF Gone THEN "finish" ELSE "reread"

\* Mutant: only a pane that tmux still shows is looked at.
OutcomeDeadOnly(starting) ==
  IF starting /\ old THEN "fail"
  ELSE IF pane = "dead" /\ ~starting THEN "finish" ELSE "reread"

\* A starting run has 60 s, any other run needs a pane.
Outcome(starting) ==
  IF starting /\ old THEN "fail"
  ELSE IF Gone /\ ~starting THEN "finish" ELSE "reread"

Look(c) ==
  /\ At(c, "look")
  /\ To(c, Outcome(calls[c].seen.status = "starting"))
  /\ UNCHANGED <<run, resolved, old, pane, files, worker, counts, history>>

Verdict(c) ==
  /\ At(c, "fail") \/ At(c, "finish")
  /\ RecordEnding(IF At(c, "fail") THEN "failed" ELSE "finished")
  /\ To(c, "reread")
  /\ UNCHANGED <<resolved, old, pane, files, worker, counts, history>>

\* control: what comes after the list, from the run it returned.
Awaits(seen, q, response) == q \in DOMAIN seen.pending /\ seen.pending[q] = response

Course(op, q, seen) ==
  LET running == seen.status = "running"
      valid == q = NoRequest \/ Awaits(seen, q, "live") \/ Awaits(seen, q, "message")
      loads == seen.loadable /\ (op = "prompt" \/ Awaits(seen, q, "message"))
  IN  CASE op # "list" /\ valid /\ running -> "check"
        [] op # "list" /\ valid /\ ~running /\ loads -> "resume"
        [] OTHER -> "idle"

Reread(c) ==
  /\ At(c, "reread")
  /\ LET at == Course(calls[c].op, calls[c].request, run)
     IN  IF at = "idle" THEN Finish(c)
         ELSE calls' = [calls EXCEPT ![c].seen = run, ![c].at = at]
  /\ UNCHANGED <<run, resolved, old, pane, files, worker, counts, history>>

Check(c) ==
  /\ At(c, "check")
  /\ IF calls[c].request \in resolved THEN Finish(c) ELSE To(c, "write")
  /\ UNCHANGED <<run, resolved, old, pane, files, worker, counts, history>>

\* The control file.  The answer to a request of an earlier session is a
\* prompt to the session that was loaded again.
Write(c) ==
  LET op == calls[c].op
      q == calls[c].request
      followUp == Awaits(calls[c].seen, q, "message")
  IN  /\ At(c, "write")
      /\ files' = Append(files, [action |-> IF followUp THEN "prompt" ELSE op, about |-> q])
      /\ IF followUp THEN To(c, "resolve") ELSE Finish(c)
      /\ UNCHANGED <<run, resolved, old, pane, worker, counts, history>>

Resolve(c) ==
  LET e == Signal("resolved", {calls[c].request})
  IN  /\ At(c, "resolve")
      /\ IF Takes(e)
         THEN Record(e) /\ resolved' = resolved \cup e.requests
         ELSE UNCHANGED <<run, resolved>>
      /\ Finish(c)
      /\ UNCHANGED <<old, pane, files, worker, counts, history>>

\* resume: the run is recorded as starting again, with the requests that were
\* pending when it was read, all of them to be answered by a message now.
Restart(c) ==
  /\ At(c, "resume")
  /\ Record(Signal("resuming", DOMAIN calls[c].seen.pending))
  /\ To(c, "session")
  /\ UNCHANGED <<resolved, old, pane, files, worker, counts, history>>

Session(c) ==
  /\ At(c, "session")
  /\ pane' = IF pane = "none" THEN "shell" ELSE pane
  /\ To(c, "started")
  /\ UNCHANGED <<run, resolved, old, files, worker, counts, history>>

\* "started" is recorded, then the runner takes the place of what is in the pane.
Started(c) ==
  /\ At(c, "started")
  /\ IF Takes(Signal("started", {}))
     THEN Record(Signal("started", {})) /\ To(c, "respawn")
     ELSE /\ UNCHANGED run
          /\ IF calls[c].op = "start" THEN To(c, "undo") ELSE Finish(c)
  /\ UNCHANGED <<resolved, old, pane, files, worker, counts, history>>

Launched(resumes) ==
  [NoWorker EXCEPT !.phase = "loading", !.resumes = resumes,
                   !.prompts = IF resumes THEN <<>> ELSE <<"context">>]

Respawn(c) ==
  LET starts == calls[c].op = "start"
      restarted == [status |-> "running", loadable |-> TRUE,
                    pending |-> [q \in DOMAIN calls[c].seen.pending |-> "message"]]
  IN  /\ At(c, "respawn")
      /\ IF pane = "none"
         THEN /\ IF starts THEN To(c, "undo") ELSE Finish(c)
              /\ UNCHANGED <<pane, worker, counts>>
         ELSE /\ pane' = "worker"
              /\ worker' = Launched(~starts)
              /\ counts' = [counts EXCEPT !.sessions = @ + 1]
              /\ IF starts THEN Finish(c)
                 ELSE calls' = [calls EXCEPT ![c].seen = restarted, ![c].at = "check"]
      /\ UNCHANGED <<run, resolved, old, files, history>>

\* start failed: the session goes, and the run is recorded as failed.
Undo(c) ==
  /\ At(c, "undo")
  /\ pane' = "none" /\ worker' = NoWorker
  /\ To(c, "undone")
  /\ UNCHANGED <<run, resolved, old, files, counts, history>>

Undone(c) ==
  /\ At(c, "undone")
  /\ RecordEnding("failed")
  /\ Finish(c)
  /\ UNCHANGED <<resolved, old, pane, files, worker, counts, history>>

Operate(c) ==
  \/ Provision(c) \/ Read(c) \/ Look(c) \/ Verdict(c) \/ Reread(c)
  \/ Check(c) \/ Write(c) \/ Resolve(c)
  \/ Restart(c) \/ Session(c) \/ Started(c) \/ Respawn(c)
  \/ Undo(c) \/ Undone(c)

-----------------------------------------------------------------------------
(* The worker *)

On(phase) == pane = "worker" /\ worker.phase = phase

\* The agent's session is created, or loaded.
Serve ==
  /\ On("loading")
  /\ worker' = [worker EXCEPT !.phase = "serving",
                  !.out = Append(@, Signal(IF LoadSession THEN "session"
                                           ELSE "observed", {}))]
  /\ UNCHANGED <<run, resolved, old, pane, files, calls, counts, history>>

Turn ==
  /\ On("serving") /\ ~worker.turn /\ worker.prompts # <<>>
  /\ worker' = [worker EXCEPT !.turn = TRUE, !.prompts = Tail(@),
                              !.out = Append(@, Signal("observed", {}))]
  /\ UNCHANGED <<run, resolved, old, pane, files, calls, counts, asked, replies>>

\* The agent asks in the course of its turn; the driver keeps the request
\* before its event is on the way to the log.
Ask(q) ==
  /\ On("serving") /\ worker.turn /\ asked[q] = 0
  /\ worker' = [worker EXCEPT !.asks = @ \cup {q},
                              !.out = Append(@, Signal("asked", {q}))]
  /\ asked' = [asked EXCEPT ![q] = counts.sessions]
  /\ UNCHANGED <<run, resolved, old, pane, files, calls, counts, replies>>

EndTurn ==
  /\ On("serving") /\ worker.turn /\ worker.asks = {}
  /\ worker' = [worker EXCEPT !.turn = FALSE,
                  !.phase = IF Persistent \/ worker.resumes THEN "serving" ELSE "closing",
                  !.out = Append(@, Signal("observed", {}))]
  /\ UNCHANGED <<run, resolved, old, pane, files, calls, counts, history>>

\* Mutant: the log is not told of the answer.
AnsweredSilently(q) == [worker EXCEPT !.asks = @ \ {q}, !.hand = TRUE]

\* The agent is given the answer, and the log is told that it was.  (An answer
\* without a text, which no caller sends, is a cancellation the log is not told of.)
Answered(q) ==
  [worker EXCEPT !.asks = @ \ {q}, !.hand = TRUE,
                 !.out = Append(@, Signal("resolved", {q}))]

\* Mutant: a decision is passed on whether or not the agent awaits it.
AsksAnyway(q) == TRUE

AgentAsks(q) == q \in worker.asks

\* Mutant: a cancelled session ends its turn and waits for the next prompt.
StoppedAndOn == [worker EXCEPT !.turn = FALSE, !.hand = TRUE,
                               !.out = Append(@, Signal("cancelled", {}))]

\* The turn is interrupted, what is asked is answered with a cancellation, and
\* the session closes.
Stopped == [worker EXCEPT !.phase = "closing", !.turn = FALSE, !.asks = {},
                          !.out = Append(@, Signal("cancelled", {}))]

\* The oldest control file is acted upon.  Stopping leaves the file where it
\* is; an answer nobody awaits is an error of the worker, a permission nobody
\* awaits is not.
Fetch ==
  LET file == Head(files)
      q == file.about
      decides == file.action \in {"answer", "permission"}
  IN  /\ On("serving") /\ ~worker.hand /\ files # <<>>
      /\ \/ /\ file.action = "cancel"
            /\ worker' = Stopped /\ UNCHANGED replies
         \/ /\ file.action = "prompt"
            /\ worker' = [worker EXCEPT !.prompts = Append(@, q), !.hand = TRUE]
            /\ UNCHANGED replies
         \/ /\ decides /\ AgentAsks(q)
            /\ worker' = Answered(q)
            /\ replies' = [replies EXCEPT ![q] = @ + 1]
         \/ /\ decides /\ ~AgentAsks(q)
            /\ worker' = IF file.action = "answer"
                         THEN [worker EXCEPT !.phase = "failing"]
                         ELSE [worker EXCEPT !.hand = TRUE]
            /\ UNCHANGED replies
      /\ UNCHANGED <<run, resolved, old, pane, files, calls, counts, asked>>

Unlink ==
  /\ On("serving") /\ worker.hand
  /\ files' = Tail(files)
  /\ worker' = [worker EXCEPT !.hand = FALSE]
  /\ UNCHANGED <<run, resolved, old, pane, calls, counts, history>>

\* The writer puts one event after another into the log, with `threadvm
\* observe`; an ended run refuses it, and that is the worker's end.
Observe ==
  LET e == Head(worker.out)
  IN  /\ On("serving") \/ On("closing")
      /\ worker.out # <<>>
      /\ IF Takes(e)
         THEN /\ Record(e)
              /\ resolved' = IF e.kind = "resolved" THEN resolved \cup e.requests
                             ELSE resolved
              /\ worker' = [worker EXCEPT !.out = Tail(@)]
         ELSE /\ worker' = [worker EXCEPT !.phase = "failing"]
              /\ UNCHANGED <<run, resolved>>
      /\ UNCHANGED <<old, pane, files, calls, counts, history>>

\* A failing worker reports the end itself, and then the runner does.
Fails ==
  /\ On("failing")
  /\ RecordEnding("finished")
  /\ worker' = [NoWorker EXCEPT !.phase = "closing"]
  /\ UNCHANGED <<resolved, old, pane, files, calls, counts, history>>

Exits ==
  /\ On("closing") /\ worker.out = <<>>
  /\ pane' = "report" /\ worker' = NoWorker
  /\ UNCHANGED <<run, resolved, old, files, calls, counts, history>>

Report ==
  /\ pane = "report"
  /\ RecordEnding("finished")
  /\ pane' = "dead"
  /\ UNCHANGED <<resolved, old, files, worker, calls, counts, history>>

Work ==
  \/ Serve \/ Turn \/ Fetch \/ Unlink \/ Observe \/ Fails \/ Exits \/ Report

-----------------------------------------------------------------------------
(* The surroundings *)

Hurried(c) == calls[c].op = "start" \/ calls[c].seen.status = "starting"

Age ==
  /\ run.status # "unknown" /\ ~old
  /\ Slow \/ \A c \in Caller : ~Hurried(c)
  /\ old' = TRUE
  /\ UNCHANGED <<run, resolved, pane, files, worker, calls, counts, history>>

Dies ==
  /\ counts.deaths < MaxDeaths
  /\ counts' = [counts EXCEPT !.deaths = @ + 1]
  /\ UNCHANGED <<run, resolved, old, files, history>>

\* A CLI command or the server dies in the middle of an operation.
CallerDies(c) ==
  /\ ~At(c, "idle")
  /\ Finish(c)
  /\ Dies /\ UNCHANGED <<pane, worker>>

\* The agent's process dies, or does not load the session.  Between two
\* turns nobody notices before the next one begins.
AgentDies ==
  /\ On("loading") \/ (On("serving") /\ worker.turn)
  /\ worker' = [worker EXCEPT !.phase = "failing"]
  /\ Dies /\ UNCHANGED <<pane, calls>>

\* The tmux server dies with all its panes.
PaneDies ==
  /\ pane # "none"
  /\ pane' = "none" /\ worker' = NoWorker
  /\ Dies /\ UNCHANGED calls

Next ==
  \/ Start \/ Age \/ AgentDies \/ PaneDies
  \/ \E c \in Caller :
       \/ Operate(c) \/ CallerDies(c)
       \/ \E op \in OpsOf[c], q \in Request \cup {NoRequest} : Begin(c, op, q)
  \/ Work \/ EndTurn
  \/ \E q \in Request : Ask(q)

\* A process that runs takes its next step; the server asks for the list of
\* the runs again and again; a running worker and its runner go on.  What the
\* agent asks and when it ends its turn is its own affair.
Lists(c) == Begin(c, "list", NoRequest)

Fairness ==
  /\ \A c \in Caller : WF_vars(Operate(c)) /\ WF_vars(Lists(c))
  /\ WF_vars(Work) /\ WF_vars(Age)

Spec == Init /\ [][Next]_vars /\ Fairness

-----------------------------------------------------------------------------
(* Properties *)

\* A run that the log calls finished or failed has no agent at work.
EndedIsGone == run.status = "ended" => ~On("loading") /\ ~On("serving")

\* A run that a live process is starting, for less than 60 s, is not ended by
\* the list of another.
InTheMaking ==
  \E c \in Caller : calls[c].at \in {"provision", "session", "started"}

StartingIsSpared ==
  [][run.status = "starting" /\ InTheMaking => run'.status # "ended"]_vars

\* A request shown as live is one the agent still awaits, or one whose answer
\* is on its way to the log: the worker alone decides, whatever servers do.
LiveIsAwaited ==
  \A q \in DOMAIN run.pending :
    run.pending[q] = "live" /\ On("serving") =>
      q \in worker.asks \/ Signal("resolved", {q}) \in ToSet(worker.out)

\* The agent is given at most one answer to a request, however many callers
\* passed their check of the log and left a control file with one.
AnsweredOnce == \A q \in Request : replies[q] <= 1

\* What is answered now was asked in the session that runs now.
Current ==
  \A q \in Request : replies'[q] # replies[q] => asked[q] = counts.sessions

\* An answer reaches the session that asked, never a later one that was loaded
\* again: an old approval is not replayed, though its file may still be there.
NoReplayedApproval == [][Current]_vars

\* A run that lost its pane is found out.
GoneIsNoticed ==
  Gone /\ run.status \in {"starting", "running"}
    ~> ~(Gone /\ run.status \in {"starting", "running"})

\* A session that is told to stop stops, and the log says so.
StopEnds ==
  (\E i \in DOMAIN files : files[i].action = "cancel") /\ pane = "worker"
    ~> run.status = "ended"
=============================================================================
