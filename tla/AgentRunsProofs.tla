-------------------------- MODULE AgentRunsProofs --------------------------
(***************************************************************************)
(* An agent is answered at most once, and never in a later session than    *)
(* the one it asked in, for any callers, requests, control files, deaths   *)
(* and resumptions.  Nothing outside the pane matters to this: what the    *)
(* callers read and write, and when they die, may leave any control files  *)
(* behind.  The argument is about the requests the agent has open, which a *)
(* new worker does not inherit.                                            *)
(*                                                                         *)
(* The second part is about a run in its one session (an agent that does   *)
(* not load sessions, operations that take less than 60 s): its status     *)
(* only goes forward, so a verdict that list reached from what it read     *)
(* before is not wrong yet when it is recorded, whoever dies in between;   *)
(* and a request stays live in the log as long as the agent awaits it.     *)
(***************************************************************************)
EXTENDS AgentRuns, SequenceTheorems, TLAPS

\* A worker and the bounds have these fields, whatever is in them.
Shapes ==
  /\ worker = [phase |-> worker.phase, resumes |-> worker.resumes,
               prompts |-> worker.prompts, turn |-> worker.turn,
               asks |-> worker.asks, out |-> worker.out, hand |-> worker.hand]
  /\ counts = [calls |-> counts.calls, deaths |-> counts.deaths,
               sessions |-> counts.sessions]

\* A request the agent has open was asked in this session and has no answer;
\* one that was never asked has none either; and a worker has a session.
OpenIsUnanswered ==
  /\ worker.asks \subseteq Request
  /\ \A q \in worker.asks : asked[q] = counts.sessions /\ replies[q] = 0

UnaskedIsUnanswered == \A q \in Request : asked[q] = 0 => replies[q] = 0

SessionsAreCounted == pane = "worker" => counts.sessions # 0

IInv ==
  /\ Shapes
  /\ counts.sessions \in Nat
  /\ asked \in [Request -> Nat] /\ replies \in [Request -> Nat]
  /\ SessionsAreCounted
  /\ OpenIsUnanswered
  /\ UnaskedIsUnanswered
  /\ AnsweredOnce

-----------------------------------------------------------------------------
LEMMA InitIsCalm == Init => IInv
  BY DEF Init, IInv, Shapes, OpenIsUnanswered, UnaskedIsUnanswered, AnsweredOnce,
         SessionsAreCounted, NoWorker

\* Steps that give no answer, open no request and begin no session.
Quiet ==
  /\ UNCHANGED <<asked, replies>>
  /\ counts'.sessions = counts.sessions
  /\ counts' = [calls |-> counts'.calls, deaths |-> counts'.deaths,
                sessions |-> counts'.sessions]
  /\ worker' = [phase |-> worker'.phase, resumes |-> worker'.resumes,
                prompts |-> worker'.prompts, turn |-> worker'.turn,
                asks |-> worker'.asks, out |-> worker'.out, hand |-> worker'.hand]
  /\ worker'.asks \subseteq worker.asks
  /\ pane' = "worker" => pane = "worker"

LEMMA QuietKeeps == IInv /\ Quiet => IInv'
  BY DEF IInv, Quiet, Shapes, OpenIsUnanswered, UnaskedIsUnanswered, AnsweredOnce,
         SessionsAreCounted

LEMMA CallersAreQuiet ==
  ASSUME IInv, NEW c \in Caller,
         \/ Provision(c) \/ Read(c) \/ Look(c) \/ Verdict(c) \/ Reread(c)
         \/ Check(c) \/ Write(c) \/ Resolve(c) \/ Restart(c) \/ Session(c)
         \/ Started(c) \/ Undo(c) \/ Undone(c)
  PROVE  Quiet
  BY DEF Quiet, IInv, Shapes, Provision, Read, Look, Verdict, Reread, Check, Write,
         Resolve, Restart, Session, Started, Undo, Undone, NoWorker, history

LEMMA BeginIsQuiet ==
  ASSUME IInv, NEW c \in Caller, NEW op, NEW q, Begin(c, op, q)
  PROVE  Quiet
  BY DEF Quiet, IInv, Shapes, Begin, history

LEMMA SurroundingsAreQuiet ==
  ASSUME IInv,
         Start \/ Age \/ AgentDies \/ PaneDies \/ (\E c \in Caller : CallerDies(c))
  PROVE  Quiet
  BY DEF Quiet, IInv, Shapes, Start, Age, AgentDies, PaneDies, CallerDies, Dies,
         NoWorker, history

LEMMA WorkerIsQuiet ==
  ASSUME IInv,
         Serve \/ Turn \/ EndTurn \/ Unlink \/ Observe \/ Fails \/ Exits \/ Report
  PROVE  Quiet
<1> USE DEF Quiet, IInv, Shapes, On, history
<1>1. CASE Serve
  BY <1>1 DEF Serve
<1>2. CASE Turn
  BY <1>2 DEF Turn
<1>3. CASE EndTurn
  BY <1>3 DEF EndTurn
<1>4. CASE Unlink
  BY <1>4 DEF Unlink
<1>5. CASE Observe
  BY <1>5 DEF Observe
<1>6. CASE Fails
  BY <1>6 DEF Fails, NoWorker
<1>7. CASE Exits
  BY <1>7 DEF Exits, NoWorker
<1>8. CASE Report
  BY <1>8 DEF Report
<1> QED BY <1>1, <1>2, <1>3, <1>4, <1>5, <1>6, <1>7, <1>8

-----------------------------------------------------------------------------
\* A new worker has no open request, and the session is a new one.
LEMMA RespawnKeeps ==
  ASSUME IInv, NEW c \in Caller, Respawn(c)
  PROVE  IInv'
<1>1. CASE pane = "none"
  <2>1. Quiet
    BY <1>1 DEF Quiet, IInv, Shapes, Respawn, history
  <2> QED BY <2>1, QuietKeeps
<1>2. CASE pane # "none"
  <2>1. /\ worker' = Launched(~(calls[c].op = "start"))
        /\ counts' = [counts EXCEPT !.sessions = @ + 1]
        /\ UNCHANGED <<asked, replies>>
    BY <1>2 DEF Respawn, history
  <2>2. Shapes' /\ worker'.asks = {}
    BY <2>1 DEF IInv, Shapes, Launched, NoWorker
  <2>3. counts'.sessions = counts.sessions + 1
    BY <2>1 DEF IInv, Shapes
  <2> QED
    BY <2>1, <2>2, <2>3 DEF IInv, OpenIsUnanswered, UnaskedIsUnanswered, AnsweredOnce,
       SessionsAreCounted
<1> QED BY <1>1, <1>2

\* The agent asks what it never asked.
LEMMA AskKeeps ==
  ASSUME IInv, NEW q \in Request, Ask(q)
  PROVE  IInv'
  BY DEF IInv, Shapes, OpenIsUnanswered, UnaskedIsUnanswered, AnsweredOnce,
         SessionsAreCounted, Ask, On

\* Only an open request is answered, and it is closed by that.
LEMMA FetchAnswersOpen ==
  ASSUME IInv, Fetch
  PROVE  \/ Quiet
         \/ \E q \in worker.asks :
              /\ replies' = [replies EXCEPT ![q] = @ + 1]
              /\ worker' = Answered(q)
              /\ UNCHANGED <<asked, counts, pane>> /\ pane = "worker"
<1> DEFINE file == Head(files)
           q == file.about
           decides == file.action \in {"answer", "permission"}
<1>1. CASE decides /\ AgentAsks(q) /\ file.action # "cancel" /\ file.action # "prompt"
  BY <1>1 DEF Fetch, AgentAsks, On
<1>2. CASE file.action = "cancel"
  <2>1. worker' = Stopped /\ UNCHANGED <<replies, asked, counts, pane>>
    BY <1>2 DEF Fetch
  <2> QED BY <2>1 DEF Quiet, IInv, Shapes, Stopped
<1>3. CASE file.action = "prompt"
  <2>1. /\ worker' = [worker EXCEPT !.prompts = Append(@, q), !.hand = TRUE]
        /\ UNCHANGED <<replies, asked, counts, pane>>
    BY <1>3 DEF Fetch
  <2> QED BY <2>1 DEF Quiet, IInv, Shapes
<1>4. CASE decides /\ ~AgentAsks(q)
  <2>1. /\ \/ worker' = [worker EXCEPT !.phase = "failing"]
           \/ worker' = [worker EXCEPT !.hand = TRUE]
        /\ UNCHANGED <<replies, asked, counts, pane>>
    BY <1>4 DEF Fetch
  <2> QED BY <2>1 DEF Quiet, IInv, Shapes
<1> QED BY <1>1, <1>2, <1>3, <1>4 DEF Fetch

LEMMA FetchKeeps ==
  ASSUME IInv, Fetch
  PROVE  IInv'
<1>1. CASE Quiet
  BY <1>1, QuietKeeps
<1>2. ASSUME NEW q \in worker.asks,
             replies' = [replies EXCEPT ![q] = @ + 1],
             worker' = Answered(q),
             UNCHANGED <<asked, counts, pane>>, pane = "worker"
      PROVE  IInv'
  <2>1. Shapes' /\ worker'.asks = worker.asks \ {q}
    BY <1>2 DEF IInv, Shapes, Answered
  <2>2. q \in Request /\ asked[q] = counts.sessions /\ replies[q] = 0
    BY <1>2 DEF IInv, OpenIsUnanswered
  <2>3. asked[q] # 0
    BY <1>2, <2>2 DEF IInv, SessionsAreCounted
  <2> QED
    BY <1>2, <2>1, <2>2, <2>3 DEF IInv, OpenIsUnanswered, UnaskedIsUnanswered,
       AnsweredOnce, SessionsAreCounted
<1> QED BY <1>1, <1>2, FetchAnswersOpen

LEMMA NextKeeps == IInv /\ [Next]_vars => IInv'
<1> SUFFICES ASSUME IInv, [Next]_vars
             PROVE  IInv'
  OBVIOUS
<1>1. CASE UNCHANGED vars
  <2>1. Quiet
    BY <1>1 DEF vars, Quiet, IInv, Shapes
  <2> QED BY <2>1, QuietKeeps
<1>2. CASE Start \/ Age \/ AgentDies \/ PaneDies \/ (\E c \in Caller : CallerDies(c))
  BY <1>2, SurroundingsAreQuiet, QuietKeeps
<1>3. ASSUME NEW c \in Caller, Operate(c)
      PROVE  IInv'
  BY <1>3, CallersAreQuiet, RespawnKeeps, QuietKeeps DEF Operate
<1>4. ASSUME NEW c \in Caller, NEW op \in OpsOf[c],
             NEW q \in Request \cup {NoRequest}, Begin(c, op, q)
      PROVE  IInv'
  BY <1>4, BeginIsQuiet, QuietKeeps
<1>5. CASE Work
  BY <1>5, WorkerIsQuiet, FetchKeeps, QuietKeeps DEF Work
<1>6. CASE EndTurn
  BY <1>6, WorkerIsQuiet, QuietKeeps
<1>7. ASSUME NEW q \in Request, Ask(q)
      PROVE  IInv'
  BY <1>7, AskKeeps
<1> QED BY <1>1, <1>2, <1>3, <1>4, <1>5, <1>6, <1>7 DEF Next

\* Answers are given by Fetch alone, and it gives them to open requests.
LEMMA AnswersAreCurrent ==
  ASSUME IInv, [Next]_vars, NEW q \in Request, replies'[q] # replies[q]
  PROVE  asked[q] = counts.sessions
<1>1. Fetch
  BY CallersAreQuiet, BeginIsQuiet, SurroundingsAreQuiet, WorkerIsQuiet
     DEF Next, Operate, Respawn, Work, Ask, Quiet, vars, history
<1>2. PICK p \in worker.asks : replies' = [replies EXCEPT ![p] = @ + 1]
  BY <1>1, FetchAnswersOpen DEF Quiet
<1>3. p = q
  BY <1>2 DEF IInv, OpenIsUnanswered
<1> QED BY <1>3 DEF IInv, OpenIsUnanswered

\* The agent is given at most one answer to a request (respondToPermission and
\* answer in AgentDriver.ts), for any callers that race to give it.
THEOREM AnsweredOnceHolds == Spec => []AnsweredOnce
<1>1. IInv => AnsweredOnce
  BY DEF IInv
<1> QED BY <1>1, InitIsCalm, NextKeeps, PTL DEF Spec

\* No answer reaches a later session than the one that asked, whatever control
\* files the earlier ones left (controls in main.ts).
THEOREM NoReplayedApprovalHolds == Spec => NoReplayedApproval
<1>1. IInv /\ [Next]_vars => [Current]_vars
  BY AnswersAreCurrent DEF Current
<1>2. Spec => [][Current]_vars
  BY <1>1, InitIsCalm, NextKeeps, PTL DEF Spec
<1> QED BY <1>2 DEF NoReplayedApproval

-----------------------------------------------------------------------------
(* A run in its one session                                                  *)

\* A run as it is then: it cannot be loaded, and nothing awaits a message.
RunInOne(r) ==
  /\ r = [status |-> r.status, loadable |-> FALSE, pending |-> r.pending]
  /\ r.status \in {"unknown", "starting", "running", "ended"}
  /\ \A q \in DOMAIN r.pending : r.pending[q] # "message"

\* Where the call is that makes the run, and where all others are.
Making == {"provision", "started", "respawn", "undo", "undone"}
Serving == {"idle", "read", "look", "fail", "finish", "reread", "check", "write"}

CallInOne(c, k) ==
  /\ k = [op |-> k.op, at |-> k.at, request |-> k.request, seen |-> k.seen]
  /\ RunInOne(k.seen)
  /\ \/ c = Starter /\ k.op = "start" /\ k.at \in Making
     \/ k.op # "start" /\ k.at \in Serving

\* What list knows of the run is not wrong yet: the status went on from where
\* it was read, a run read as starting and now too old has nobody who makes it,
\* and a pane found gone does not come back.
Told(k) ==
  /\ k.at = "look" => k.seen.status \in {"starting", "running"}
  /\ k.at = "fail" => old /\ k.seen.status = "starting"
  /\ k.at = "finish" => Gone /\ k.seen.status = "running"
  /\ k.at = "read" \/ k.seen.status # "unknown" => run.status # "unknown"
  /\ k.seen.status = "running" => run.status \in {"running", "ended"}
  /\ k.seen.status = "starting" /\ old => run.status # "running"

\* start finds the run as it left it: young, without a worker, ended by nobody
\* as long as "started" is not recorded, and after that only if the pane went.
Makes(k) ==
  k.op = "start" =>
    /\ ~old /\ pane \in {"none", "shell"}
    /\ run.status # "unknown" /\ DOMAIN run.pending = {}
    /\ k.at \in {"provision", "started"} => run.status = "starting"
    /\ k.at = "respawn" =>
         run.status = "running" \/ (run.status = "ended" /\ pane = "none")
    /\ k.at = "undone" => pane = "none"

CallIs(c, k) == CallInOne(c, k) /\ Told(k) /\ Makes(k)

CallsAre ==
  /\ calls = [c \in Caller |-> calls[c]]
  /\ \A c \in Caller : CallIs(c, calls[c])

\* A worker, or what is left of one, means that "started" was recorded.
Around ==
  /\ RunInOne(run)
  /\ pane \in {"none", "shell", "worker", "report", "dead"}
  /\ pane \notin {"none", "shell"} => run.status \in {"running", "ended"}
  /\ old => run.status # "unknown"

\* What the worker has to say of such a run.
Said == [kind : {"observed", "asked", "resolved", "cancelled"},
         requests : SUBSET Request]

\* The log is about to be told of an answer, after the first i events.
ToldAnswer(q, out, i) ==
  \E j \in DOMAIN out : j > i /\ out[j] = Signal("resolved", {q})

\* What is live in the log, or will be when it takes in the worker's events, is
\* awaited by the agent or answered later on.
Awaited(pending, asks, out) ==
  /\ \A q \in DOMAIN pending :
       pending[q] = "live" => q \in asks \/ ToldAnswer(q, out, 0)
  /\ \A i \in DOMAIN out : \A q \in out[i].requests :
       out[i].kind = "asked" => q \in asks \/ ToldAnswer(q, out, i)

AtWork == On("loading") \/ On("serving")

WorkerAwaits ==
  /\ worker.out \in Seq(Said)
  /\ AtWork => Awaited(run.pending, worker.asks, worker.out)

OneSession == CallsAre /\ Around /\ EndedIsGone /\ WorkerAwaits

-----------------------------------------------------------------------------
LEMMA InitIsOne == Init => OneSession
<1> SUFFICES ASSUME Init PROVE OneSession
  OBVIOUS
<1>1. DOMAIN FreshRun.pending = {} /\ FreshRun.status = "unknown" /\ FreshRun.loadable = FALSE
  BY DEF FreshRun
<1>2. RunInOne(FreshRun)
  BY <1>1 DEF RunInOne, FreshRun
<1>3. \A c \in Caller : calls[c] = Idle
  BY DEF Init
<1>4. ASSUME NEW c \in Caller PROVE CallIs(c, Idle)
  <2>1. Idle.op = "none" /\ Idle.at = "idle" /\ Idle.seen = FreshRun
    BY DEF Idle
  <2>2. CallInOne(c, Idle)
    BY <2>1, <1>2 DEF CallInOne, Serving, Idle
  <2>3. Told(Idle) /\ Makes(Idle)
    BY <2>1, <1>1 DEF Told, Makes
  <2> QED BY <2>2, <2>3 DEF CallIs
<1>5. CallsAre
  BY <1>3, <1>4 DEF CallsAre, Init
<1>6. Around
  BY <1>2, <1>1 DEF Around, Init
<1>7. worker.out = <<>> /\ pane = "none"
  BY DEF Init, NoWorker
<1>8. EndedIsGone /\ WorkerAwaits
  BY <1>7 DEF EndedIsGone, WorkerAwaits, AtWork, On
<1> QED BY <1>5, <1>6, <1>8 DEF OneSession

\* A call goes on, and nothing else changes.
LEMMA CallGoesOn ==
  ASSUME OneSession, NEW c \in Caller, NEW k, CallIs(c, k),
         calls' = [calls EXCEPT ![c] = k],
         UNCHANGED <<run, old, pane, worker>>
  PROVE  OneSession'
<1>1. \A d \in Caller : CallIs(d, calls[d])
  BY DEF OneSession, CallsAre
<1>2. \A d \in Caller : CallIs(d, calls'[d])
  BY <1>1 DEF OneSession, CallsAre
<1>3. ASSUME NEW d \in Caller, NEW l, CallIs(d, l)
      PROVE  CallIs(d, l)'
  BY <1>3 DEF CallIs, Told, Makes, Gone
<1>4. calls' = [d \in Caller |-> calls'[d]]
  BY DEF OneSession, CallsAre
<1>5. CallsAre'
  BY <1>2, <1>3, <1>4 DEF CallsAre, CallIs, Told, Makes, Gone
<1>6. Around' /\ EndedIsGone' /\ WorkerAwaits'
  BY DEF OneSession, Around, EndedIsGone, WorkerAwaits, AtWork, On
<1> QED BY <1>5, <1>6 DEF OneSession

Moved(k, at) ==
  [op |-> k.op, at |-> at, request |-> k.request, seen |-> k.seen]

LEMMA ToMoves ==
  ASSUME OneSession, NEW c \in Caller, NEW at, To(c, at)
  PROVE  calls' = [calls EXCEPT ![c] = Moved(calls[c], at)]
<1>1. PICK k : k = calls[c]
  OBVIOUS
<1>2. k = [op |-> k.op, at |-> k.at, request |-> k.request, seen |-> k.seen]
  BY <1>1 DEF OneSession, CallsAre, CallIs, CallInOne
<1>3. [k EXCEPT !.at = at] = Moved(k, at)
  BY <1>2 DEF Moved
<1>4. calls' = [calls EXCEPT ![c] = [k EXCEPT !.at = at]]
  BY <1>1 DEF To
<1> QED BY <1>1, <1>3, <1>4

\* A call reads the run and goes on.
LEMMA ReadsMoves ==
  ASSUME OneSession, NEW c \in Caller, NEW at, NEW r,
         calls' = [calls EXCEPT ![c].seen = r, ![c].at = at]
  PROVE  calls' = [calls EXCEPT ![c] = [op |-> calls[c].op, at |-> at,
                                        request |-> calls[c].request, seen |-> r]]
<1>1. PICK k : k = calls[c]
  OBVIOUS
<1>2. k = [op |-> k.op, at |-> k.at, request |-> k.request, seen |-> k.seen]
  BY <1>1 DEF OneSession, CallsAre, CallIs, CallInOne
<1>3. PICK l : l = [k EXCEPT !.seen = r]
  OBVIOUS
<1>4. l = [op |-> k.op, at |-> k.at, request |-> k.request, seen |-> r]
  BY <1>2, <1>3
<1>5. [l EXCEPT !.at = at] = [op |-> k.op, at |-> at, request |-> k.request, seen |-> r]
  BY <1>4
<1>6. PICK m : m = [calls EXCEPT ![c].seen = r]
  OBVIOUS
<1>7. m = [calls EXCEPT ![c] = l] /\ m[c] = l
  BY <1>1, <1>3, <1>6 DEF OneSession, CallsAre
<1>8. calls' = [m EXCEPT ![c].at = at]
  BY <1>6
<1>9. calls' = [m EXCEPT ![c] = [l EXCEPT !.at = at]]
  BY <1>7, <1>8
<1> QED BY <1>1, <1>5, <1>7, <1>9 DEF OneSession, CallsAre

LEMMA IdleIsCall ==
  ASSUME NEW c \in Caller
  PROVE  CallIs(c, Idle)
<1>1. DOMAIN FreshRun.pending = {} /\ FreshRun.status = "unknown" /\ FreshRun.loadable = FALSE
  BY DEF FreshRun
<1>2. RunInOne(FreshRun)
  BY <1>1 DEF RunInOne, FreshRun
<1>3. Idle.op = "none" /\ Idle.at = "idle" /\ Idle.seen = FreshRun
  BY DEF Idle
<1>4. CallInOne(c, Idle)
  BY <1>2, <1>3 DEF CallInOne, Serving, Idle
<1>5. Told(Idle) /\ Makes(Idle)
  BY <1>1, <1>3 DEF Told, Makes
<1> QED BY <1>4, <1>5 DEF CallIs

\* What a call of OneSession is, field by field.
LEMMA CallFacts ==
  ASSUME OneSession, NEW c \in Caller
  PROVE  /\ CallIs(c, calls[c]) /\ CallInOne(c, calls[c])
         /\ Told(calls[c]) /\ Makes(calls[c]) /\ RunInOne(calls[c].seen)
         /\ RunInOne(run)
  BY DEF OneSession, CallsAre, CallIs, Around, CallInOne

\* The steps of one call, in the order of the operations.
LEMMA ReadKeeps ==
  ASSUME OneSession, NEW c \in Caller, Read(c)
  PROVE  OneSession'
<1>0. PICK to : to = IF run.status = "ended" THEN "reread" ELSE "look"
  OBVIOUS
<1>1. PICK k : k = [op |-> calls[c].op, at |-> to, request |-> calls[c].request, seen |-> run]
  OBVIOUS
<1>2. calls' = [calls EXCEPT ![c] = k]
  <2>1. calls' = [calls EXCEPT ![c].seen = run, ![c].at = to]
    BY <1>0 DEF Read
  <2>2. PICK r : r = run
    OBVIOUS
  <2>3. calls' = [calls EXCEPT ![c].seen = r, ![c].at = to]
    BY <2>1, <2>2
  <2>4. calls' = [calls EXCEPT ![c] = [op |-> calls[c].op, at |-> to,
                                       request |-> calls[c].request, seen |-> r]]
    BY <2>3, ReadsMoves
  <2> QED BY <1>1, <2>2, <2>4
<1>3. k.op = calls[c].op /\ k.at = to /\ k.seen = run
  BY <1>1
<1>4. calls[c].at = "read" /\ UNCHANGED <<run, old, pane, worker>>
  BY DEF Read, At
<1>5. run.status # "unknown" /\ RunInOne(run)
  BY <1>4, CallFacts DEF Told
<1>6. CallInOne(c, k)
  BY <1>0, <1>1, <1>3, <1>4, <1>5, CallFacts DEF CallInOne, Making, Serving
<1>7. Told(k) /\ Makes(k)
  BY <1>0, <1>3, <1>4, <1>5, CallFacts DEF Told, Makes, RunInOne, CallInOne, Making
<1> QED BY <1>2, <1>4, <1>6, <1>7, CallGoesOn DEF CallIs

LEMMA LookKeeps ==
  ASSUME OneSession, NEW c \in Caller, Look(c)
  PROVE  OneSession'
<1>1. PICK to : to = Outcome(calls[c].seen.status = "starting")
  OBVIOUS
<1>2. PICK k : k = Moved(calls[c], to)
  OBVIOUS
<1>3. calls' = [calls EXCEPT ![c] = k]
  BY <1>1, <1>2, ToMoves DEF Look
<1>4. k.op = calls[c].op /\ k.at = to /\ k.seen = calls[c].seen
  BY <1>2 DEF Moved
<1>5. calls[c].at = "look" /\ UNCHANGED <<run, old, pane, worker>>
  BY DEF Look, At
<1>6. to \in {"fail", "finish", "reread"}
  BY <1>1 DEF Outcome
<1>7. CallInOne(c, k)
  BY <1>2, <1>4, <1>5, <1>6, CallFacts DEF CallInOne, Making, Serving, Moved
<1>8. /\ calls[c].seen.status \in {"starting", "running"}
      /\ calls[c].op # "start"
  BY <1>5, CallFacts DEF Told, CallInOne, Making
<1>9. Told(k) /\ Makes(k)
  BY <1>1, <1>4, <1>6, <1>8, CallFacts DEF Told, Makes, Outcome
<1> QED BY <1>3, <1>5, <1>7, <1>9, CallGoesOn DEF CallIs

LEMMA RereadKeeps ==
  ASSUME OneSession, NEW c \in Caller, Reread(c)
  PROVE  OneSession'
<1>1. PICK to : to = Course(calls[c].op, calls[c].request, run)
  OBVIOUS
<1>2. calls[c].at = "reread" /\ UNCHANGED <<run, old, pane, worker>>
  BY DEF Reread, At
<1>3. CASE to = "idle"
  BY <1>1, <1>2, <1>3, CallGoesOn, IdleIsCall DEF Reread, Finish
<1>4. CASE to # "idle"
  <2>0. RunInOne(run)
    BY CallFacts
  <2>1. run.loadable = FALSE
    BY <2>0 DEF RunInOne
  <2>2. to = "check" /\ run.status = "running"
    BY <1>1, <1>4, <2>1 DEF Course
  <2>3. PICK k : k = [op |-> calls[c].op, at |-> to, request |-> calls[c].request, seen |-> run]
    OBVIOUS
  <2>4. calls' = [calls EXCEPT ![c] = k]
    BY <1>1, <1>4, <2>3, ReadsMoves DEF Reread
  <2>5. k.op = calls[c].op /\ k.at = "check" /\ k.seen = run
    BY <2>2, <2>3
  <2>6. CallInOne(c, k)
    BY <2>0, <2>3, <2>5, <1>2, CallFacts DEF CallInOne, Making, Serving
  <2>7. Told(k) /\ Makes(k)
    BY <2>2, <2>5, <1>2, CallFacts DEF Told, Makes, CallInOne, Making
  <2> QED BY <1>2, <2>4, <2>6, <2>7, CallGoesOn DEF CallIs
<1> QED BY <1>3, <1>4

LEMMA CheckKeeps ==
  ASSUME OneSession, NEW c \in Caller, Check(c)
  PROVE  OneSession'
<1>1. calls[c].at = "check" /\ UNCHANGED <<run, old, pane, worker>>
  BY DEF Check, At
<1>2. CASE Finish(c)
  BY <1>1, <1>2, CallGoesOn, IdleIsCall DEF Finish
<1>3. CASE To(c, "write")
  <2>1. PICK k : k = Moved(calls[c], "write")
    OBVIOUS
  <2>2. calls' = [calls EXCEPT ![c] = k]
    BY <1>3, <2>1, ToMoves
  <2>3. k.op = calls[c].op /\ k.at = "write" /\ k.seen = calls[c].seen
    BY <2>1 DEF Moved
  <2>4. CallInOne(c, k)
    BY <2>1, <2>3, <1>1, CallFacts DEF CallInOne, Making, Serving, Moved
  <2>5. Told(k) /\ Makes(k)
    BY <2>3, <1>1, CallFacts DEF Told, Makes, CallInOne, Making
  <2> QED BY <1>1, <2>2, <2>4, <2>5, CallGoesOn DEF CallIs
<1> QED BY <1>2, <1>3 DEF Check

LEMMA WriteKeeps ==
  ASSUME OneSession, NEW c \in Caller, Write(c)
  PROVE  OneSession'
<1>1. UNCHANGED <<run, old, pane, worker>>
  BY DEF Write
<1>2. ~Awaits(calls[c].seen, calls[c].request, "message")
  BY CallFacts DEF Awaits, RunInOne
<1>3. Finish(c)
  BY <1>2 DEF Write
<1> QED BY <1>1, <1>3, CallGoesOn, IdleIsCall DEF Finish

LEMMA BeginKeeps ==
  ASSUME OneSession, NEW c \in Caller, NEW op \in OpsOf[c], NEW q, Begin(c, op, q)
  PROVE  OneSession'
<1>1. PICK k : k = [op |-> op, at |-> "read", request |-> q, seen |-> FreshRun]
  OBVIOUS
<1>2. calls' = [calls EXCEPT ![c] = k]
  <2>1. PICK i : i = [op |-> op, at |-> "idle", request |-> NoRequest, seen |-> FreshRun]
    OBVIOUS
  <2>2. [Idle EXCEPT !.op = op] = i
    BY <2>1 DEF Idle
  <2>3. [Idle EXCEPT !.op = op, !.at = "read", !.request = q]
          = [i EXCEPT !.at = "read", !.request = q]
    BY <2>2
  <2>4. PICK j : j = [i EXCEPT !.at = "read"]
    OBVIOUS
  <2>5. j = [op |-> op, at |-> "read", request |-> NoRequest, seen |-> FreshRun]
    BY <2>1, <2>4
  <2>6. [j EXCEPT !.request = q] = k
    BY <2>5, <1>1
  <2>7. [i EXCEPT !.at = "read", !.request = q] = k
    BY <2>4, <2>6
  <2> QED BY <2>3, <2>7 DEF Begin
<1>3. k.op = op /\ k.at = "read" /\ k.seen = FreshRun
  BY <1>1
<1>4. /\ DOMAIN FreshRun.pending = {} /\ FreshRun.status = "unknown"
      /\ FreshRun.loadable = FALSE
  BY DEF FreshRun
<1>5. op # "start"
  BY OpsAssumption
<1>6. CallInOne(c, k)
  BY <1>1, <1>3, <1>4, <1>5 DEF CallInOne, RunInOne, Serving, FreshRun
<1>7. Told(k) /\ Makes(k)
  BY <1>3, <1>4, <1>5 DEF Told, Makes, Begin
<1>8. UNCHANGED <<run, old, pane, worker>>
  BY DEF Begin
<1> QED BY <1>2, <1>6, <1>7, <1>8, CallGoesOn DEF CallIs

-----------------------------------------------------------------------------
\* What the projection makes of the events of one session.
LEMMA FoldSaid ==
  ASSUME NEW r, RunInOne(r), NEW e \in Said
  PROVE  RunInOne(Fold(r, e)) /\ Fold(r, e).status = r.status
<1>0. r = [status |-> r.status, loadable |-> FALSE, pending |-> r.pending]
  BY DEF RunInOne
<1>1. e.kind \in {"observed", "asked", "resolved", "cancelled"}
  BY DEF Said
<1>2. CASE e.kind = "observed"
  <2>1. Fold(r, e) = r
    BY <1>2 DEF Fold, Endings
  <2> QED BY <2>1
<1>3. CASE e.kind = "asked"
  <2>1. PICK p : p = [q \in DOMAIN r.pending \cup e.requests |->
                        IF q \in e.requests THEN "live" ELSE r.pending[q]]
    OBVIOUS
  <2>2. Fold(r, e) = [r EXCEPT !.pending = p]
    BY <1>3, <2>1 DEF Fold, Endings
  <2>3. Fold(r, e) = [status |-> r.status, loadable |-> FALSE, pending |-> p]
    <3>1. r.loadable = FALSE
      BY <1>0
    <3>2. r = [status |-> r.status, loadable |-> r.loadable, pending |-> r.pending]
      BY <1>0, <3>1
    <3>3. [r EXCEPT !.pending = p]
            = [status |-> r.status, loadable |-> r.loadable, pending |-> p]
      BY <3>2
    <3> QED BY <3>1, <3>3, <2>2
  <2>4. \A q \in DOMAIN p : p[q] # "message"
    BY <2>1 DEF RunInOne
  <2> QED BY <2>3, <2>4 DEF RunInOne
<1>4. CASE e.kind = "resolved"
  <2>1. PICK p : p = [q \in DOMAIN r.pending \ e.requests |-> r.pending[q]]
    OBVIOUS
  <2>2. Fold(r, e) = [r EXCEPT !.pending = p]
    BY <1>4, <2>1 DEF Fold, Endings, Restrict
  <2>3. Fold(r, e) = [status |-> r.status, loadable |-> FALSE, pending |-> p]
    <3>1. r.loadable = FALSE
      BY <1>0
    <3>2. r = [status |-> r.status, loadable |-> r.loadable, pending |-> r.pending]
      BY <1>0, <3>1
    <3>3. [r EXCEPT !.pending = p]
            = [status |-> r.status, loadable |-> r.loadable, pending |-> p]
      BY <3>2
    <3> QED BY <3>1, <3>3, <2>2
  <2>4. \A q \in DOMAIN p : p[q] # "message"
    BY <2>1 DEF RunInOne
  <2> QED BY <2>3, <2>4 DEF RunInOne
<1>5. CASE e.kind = "cancelled"
  <2>1. Fold(r, e) = [r EXCEPT !.pending = <<>>]
    BY <1>5 DEF Fold, Endings
  <2>2. Fold(r, e) = [status |-> r.status, loadable |-> FALSE, pending |-> <<>>]
    <3>1. r.loadable = FALSE
      BY <1>0
    <3>2. r = [status |-> r.status, loadable |-> r.loadable, pending |-> r.pending]
      BY <1>0, <3>1
    <3>3. [r EXCEPT !.pending = <<>>]
            = [status |-> r.status, loadable |-> r.loadable, pending |-> <<>>]
      BY <3>2
    <3> QED BY <3>1, <3>3, <2>1
  <2>3. DOMAIN <<>> = {}
    OBVIOUS
  <2> QED BY <2>2, <2>3 DEF RunInOne
<1> QED BY <1>1, <1>2, <1>3, <1>4, <1>5

\* An end leaves nothing live, a start nothing at all.
LEMMA FoldEnding ==
  ASSUME NEW r, RunInOne(r), NEW kind \in Endings
  PROVE  LET after == Fold(r, Signal(kind, {}))
         IN  /\ RunInOne(after) /\ after.status = "ended"
             /\ DOMAIN after.pending = DOMAIN r.pending
<1>0. /\ r = [status |-> r.status, loadable |-> FALSE, pending |-> r.pending]
      /\ r.loadable = FALSE
  BY DEF RunInOne
<1>1. PICK p : p = [q \in DOMAIN r.pending |-> "expired"]
  OBVIOUS
<1>2. PICK s : s = [r EXCEPT !.status = "ended"]
  OBVIOUS
<1>3. s = [status |-> "ended", loadable |-> FALSE, pending |-> r.pending]
  BY <1>0, <1>2
<1>4. Signal(kind, {}).kind = kind
  BY DEF Signal
<1>5. Fold(r, Signal(kind, {})) = [r EXCEPT !.status = "ended", !.pending = p]
  BY <1>0, <1>1, <1>4 DEF Fold, Endings
<1>6. Fold(r, Signal(kind, {})) = [s EXCEPT !.pending = p]
  BY <1>2, <1>5
<1>7. Fold(r, Signal(kind, {})) = [status |-> "ended", loadable |-> FALSE, pending |-> p]
  BY <1>3, <1>6
<1>8. DOMAIN p = DOMAIN r.pending /\ \A q \in DOMAIN p : p[q] # "message"
  BY <1>1
<1> QED BY <1>7, <1>8 DEF RunInOne

LEMMA FoldBeginnings ==
  ASSUME NEW r, RunInOne(r)
  PROVE  /\ RunInOne(Fold(r, Signal("starting", {})))
         /\ Fold(r, Signal("starting", {})).status = "starting"
         /\ DOMAIN Fold(r, Signal("starting", {})).pending = {}
         /\ RunInOne(Fold(r, Signal("started", {})))
         /\ Fold(r, Signal("started", {})).status = "running"
         /\ Fold(r, Signal("started", {})).pending = r.pending
<1>0. r = [status |-> r.status, loadable |-> FALSE, pending |-> r.pending]
  BY DEF RunInOne
<1>1. Signal("starting", {}).kind = "starting" /\ Signal("started", {}).kind = "started"
  BY DEF Signal
<1>2. DOMAIN <<>> = {}
  OBVIOUS
<1>3. Fold(r, Signal("starting", {})) = [FreshRun EXCEPT !.status = "starting"]
  BY <1>1 DEF Fold, Endings
<1>4. Fold(r, Signal("starting", {}))
        = [status |-> "starting", loadable |-> FALSE, pending |-> <<>>]
  BY <1>3 DEF FreshRun
<1>5. Fold(r, Signal("started", {})) = [r EXCEPT !.status = "running"]
  BY <1>1 DEF Fold, Endings
<1>6. Fold(r, Signal("started", {}))
        = [status |-> "running", loadable |-> FALSE, pending |-> r.pending]
  BY <1>0, <1>5
<1>7. RunInOne(Fold(r, Signal("starting", {})))
  BY <1>4, <1>2 DEF RunInOne
<1>8. RunInOne(Fold(r, Signal("started", {})))
  BY <1>6 DEF RunInOne
<1> QED BY <1>2, <1>4, <1>6, <1>7, <1>8

-----------------------------------------------------------------------------
\* What the worker has to say goes on being what it awaits, at the end ...
LEMMA SayAwaits ==
  ASSUME NEW pending, NEW asks, NEW left, NEW out \in Seq(Said), NEW e \in Said,
         Awaited(pending, asks, out),
         \A q \in asks : q \in left \/ e = Signal("resolved", {q}),
         e.kind = "asked" => e.requests \subseteq left
  PROVE  Append(out, e) \in Seq(Said) /\ Awaited(pending, left, Append(out, e))
<1>1. PICK new : new = Append(out, e)
  OBVIOUS
<1>2. /\ new \in Seq(Said) /\ Len(new) = Len(out) + 1 /\ Len(out) \in Nat
      /\ DOMAIN new = 1 .. (Len(out) + 1) /\ DOMAIN out = 1 .. Len(out)
      /\ \A i \in DOMAIN out : new[i] = out[i]
      /\ new[Len(out) + 1] = e
  BY <1>1
<1>3. ASSUME NEW q, NEW i \in 0 .. Len(out), q \in asks \/ ToldAnswer(q, out, i)
      PROVE  q \in left \/ ToldAnswer(q, new, i)
  <2>1. CASE q \in asks
    <3>1. q \in left \/ (Len(out) + 1 \in DOMAIN new /\ Len(out) + 1 > i
                         /\ new[Len(out) + 1] = Signal("resolved", {q}))
      BY <1>2, <2>1
    <3> QED BY <3>1 DEF ToldAnswer
  <2>2. CASE ToldAnswer(q, out, i)
    BY <1>2, <2>2 DEF ToldAnswer
  <2> QED BY <1>3, <2>1, <2>2
<1>4. ASSUME NEW q \in DOMAIN pending, pending[q] = "live"
      PROVE  q \in left \/ ToldAnswer(q, new, 0)
  BY <1>2, <1>3, <1>4 DEF Awaited
<1>5. ASSUME NEW i \in DOMAIN new, NEW q \in new[i].requests, new[i].kind = "asked"
      PROVE  q \in left \/ ToldAnswer(q, new, i)
  <2>1. CASE i = Len(out) + 1
    BY <1>2, <1>5, <2>1
  <2>2. CASE i \in DOMAIN out
    BY <1>2, <1>3, <1>5, <2>2 DEF Awaited
  <2> QED BY <1>2, <2>1, <2>2
<1>6. Awaited(pending, left, new)
  BY <1>4, <1>5 DEF Awaited
<1> QED BY <1>1, <1>2, <1>6

\* ... and at the head, when the log takes it in.
LEMMA ObserveAwaits ==
  ASSUME NEW r, RunInOne(r), NEW asks, NEW out \in Seq(Said), out # <<>>,
         Awaited(r.pending, asks, out)
  PROVE  /\ Head(out) \in Said /\ Tail(out) \in Seq(Said)
         /\ Awaited(Fold(r, Head(out)).pending, asks, Tail(out))
<1>0. r = [status |-> r.status, loadable |-> FALSE, pending |-> r.pending]
  BY DEF RunInOne
<1>1. PICK rest, e : rest = Tail(out) /\ e = Head(out)
  OBVIOUS
<1>2. /\ rest \in Seq(Said) /\ e \in Said /\ e = out[1] /\ Len(out) \in Nat \ {0}
      /\ DOMAIN out = 1 .. Len(out) /\ DOMAIN rest = 1 .. (Len(out) - 1)
      /\ \A i \in DOMAIN rest : rest[i] = out[i + 1]
  BY <1>1, HeadTailProperties
<1>3. ASSUME NEW q, NEW i \in Nat, ToldAnswer(q, out, i + 1)
      PROVE  ToldAnswer(q, rest, i)
  <2>1. PICK j \in DOMAIN out : j > i + 1 /\ out[j] = Signal("resolved", {q})
    BY <1>3 DEF ToldAnswer
  <2>2. j - 1 \in DOMAIN rest /\ j - 1 > i /\ rest[j - 1] = Signal("resolved", {q})
    BY <1>2, <2>1
  <2> QED BY <2>2 DEF ToldAnswer
<1>4. ASSUME NEW i \in DOMAIN rest, NEW q \in rest[i].requests, rest[i].kind = "asked"
      PROVE  q \in asks \/ ToldAnswer(q, rest, i)
  <2>1. i + 1 \in DOMAIN out /\ rest[i] = out[i + 1] /\ i \in Nat
    BY <1>2
  <2>2. q \in asks \/ ToldAnswer(q, out, i + 1)
    BY <1>4, <2>1 DEF Awaited
  <2> QED BY <1>3, <2>1, <2>2
<1>5. PICK p : p = Fold(r, e).pending
  OBVIOUS
<1>6. ASSUME NEW q \in DOMAIN p, p[q] = "live"
      PROVE  q \in asks \/ ToldAnswer(q, rest, 0)
  <2>0. \/ q \in asks
        \/ ToldAnswer(q, out, 0) /\ e.kind # "resolved"
        \/ ToldAnswer(q, out, 0) /\ q \notin e.requests
        \/ ToldAnswer(q, out, 1)
    <3>1. e.kind \in {"observed", "asked", "resolved", "cancelled"}
      BY <1>2 DEF Said
    <3>2. CASE e.kind = "observed"
      <4>1. Fold(r, e) = r
        BY <3>2 DEF Fold, Endings
      <4> QED BY <4>1, <3>2, <1>5, <1>6 DEF Awaited
    <3>3. CASE e.kind = "asked"
      <4>1. PICK w : w = [x \in DOMAIN r.pending \cup e.requests |->
                            IF x \in e.requests THEN "live" ELSE r.pending[x]]
        OBVIOUS
      <4>2. Fold(r, e) = [r EXCEPT !.pending = w]
        BY <3>3, <4>1 DEF Fold, Endings
      <4>3. p = w
        BY <1>0, <1>5, <4>2
      <4>4. CASE q \in e.requests
        BY <1>2, <3>3, <4>4 DEF Awaited
      <4>5. CASE q \notin e.requests
        BY <1>6, <3>3, <4>1, <4>3, <4>5 DEF Awaited
      <4> QED BY <4>4, <4>5
    <3>4. CASE e.kind = "resolved"
      <4>1. PICK w : w = [x \in DOMAIN r.pending \ e.requests |-> r.pending[x]]
        OBVIOUS
      <4>2. Fold(r, e) = [r EXCEPT !.pending = w]
        BY <3>4, <4>1 DEF Fold, Endings, Restrict
      <4>3. p = w
        BY <1>0, <1>5, <4>2
      <4> QED BY <1>6, <4>1, <4>3 DEF Awaited
    <3>5. CASE e.kind = "cancelled"
      <4>1. Fold(r, e) = [r EXCEPT !.pending = <<>>]
        BY <3>5 DEF Fold, Endings
      <4>2. p = <<>>
        BY <1>0, <1>5, <4>1
      <4>3. DOMAIN <<>> = {}
        OBVIOUS
      <4> QED BY <4>2, <4>3, <1>6
    <3> QED BY <3>1, <3>2, <3>3, <3>4, <3>5
  <2>1. CASE ToldAnswer(q, out, 1)
    BY <2>1, <1>3
  <2>2. ASSUME ToldAnswer(q, out, 0), e.kind # "resolved" \/ q \notin e.requests
        PROVE  ToldAnswer(q, out, 1)
    <3>1. PICK j \in DOMAIN out : j > 0 /\ out[j] = Signal("resolved", {q})
      BY <2>2 DEF ToldAnswer
    <3>2. j # 1
      BY <1>2, <2>2, <3>1 DEF Signal
    <3>3. j > 1
      BY <1>2, <3>1, <3>2
    <3> QED BY <3>1, <3>3 DEF ToldAnswer
  <2> QED BY <2>0, <2>1, <2>2
<1>7. Awaited(p, asks, rest)
  BY <1>4, <1>6 DEF Awaited
<1> QED BY <1>1, <1>2, <1>5, <1>7

-----------------------------------------------------------------------------
\* A call goes on while the run or the pane changes: the other calls must not
\* have been told something else ...
LEMMA CallsGoOn ==
  ASSUME CallsAre, NEW c \in Caller, NEW k, calls' = [calls EXCEPT ![c] = k],
         CallIs(c, k)',
         \A d \in Caller : \A l : d # c /\ l = calls[d] => CallIs(d, l)'
  PROVE  CallsAre'
<1>1. ASSUME NEW d \in Caller PROVE CallIs(d, calls[d])'
  <2>1. CASE d = c
    <3>1. calls'[d] = k
      BY <2>1 DEF CallsAre
    <3> QED BY <2>1, <3>1 DEF CallIs, Told, Makes, Gone
  <2>2. CASE d # c
    <3>1. PICK l : l = calls[d]
      OBVIOUS
    <3>2. calls'[d] = l
      BY <2>2, <3>1 DEF CallsAre
    <3>3. CallIs(d, l)'
      BY <2>2, <3>1
    <3> QED BY <3>2, <3>3 DEF CallIs, Told, Makes, Gone
  <2> QED BY <2>1, <2>2
<1>2. calls' = [d \in Caller |-> calls'[d]]
  BY DEF CallsAre
<1> QED BY <1>1, <1>2 DEF CallsAre

\* ... and the same for steps that no call takes.
LEMMA CallsStay ==
  ASSUME CallsAre, calls' = calls,
         \A d \in Caller : \A l : l = calls[d] => CallIs(d, l)'
  PROVE  CallsAre'
<1>1. ASSUME NEW d \in Caller PROVE CallIs(d, calls[d])'
  <2>1. PICK l : l = calls[d]
    OBVIOUS
  <2>2. CallIs(d, l)'
    BY <2>1
  <2> QED BY <2>1, <2>2 DEF CallIs, Told, Makes, Gone
<1> QED BY <1>1 DEF CallsAre

\* Only the starter makes the run.
LEMMA OneMakes ==
  ASSUME OneSession, NEW c \in Caller, calls[c].at \in Making
  PROVE  /\ c = Starter /\ calls[c].op = "start" /\ Makes(calls[c])
         /\ \A d \in Caller : d # c => calls[d].op # "start"
  BY CallFacts DEF CallInOne, Serving, Making

LEMMA StartKeeps ==
  ASSUME OneSession, Start
  PROVE  OneSession'
<1>1. PICK k : k = [op |-> "start", at |-> "provision", request |-> NoRequest, seen |-> FreshRun]
  OBVIOUS
<1>2. Starter \in Caller
  BY CallerAssumption
<1>3. calls' = [calls EXCEPT ![Starter] = k]
  <2>1. PICK i : i = [op |-> "start", at |-> "idle", request |-> NoRequest, seen |-> FreshRun]
    OBVIOUS
  <2>2. [Idle EXCEPT !.op = "start"] = i
    BY <2>1 DEF Idle
  <2>3. [Idle EXCEPT !.op = "start", !.at = "provision"] = [i EXCEPT !.at = "provision"]
    BY <2>2
  <2>4. [i EXCEPT !.at = "provision"] = k
    BY <1>1, <2>1
  <2> QED BY <2>3, <2>4 DEF Start
<1>4. k.op = "start" /\ k.at = "provision" /\ k.seen = FreshRun
  BY <1>1
<1>5. /\ DOMAIN FreshRun.pending = {} /\ FreshRun.status = "unknown"
      /\ FreshRun.loadable = FALSE
  BY DEF FreshRun
<1>6. RunInOne(FreshRun)
  BY <1>5 DEF RunInOne, FreshRun
<1>7. /\ run.status = "unknown" /\ run' = Fold(run, Signal("starting", {}))
      /\ UNCHANGED <<old, pane, worker>>
  BY DEF Start, Record
<1>8. /\ RunInOne(run') /\ run'.status = "starting" /\ DOMAIN run'.pending = {}
  BY <1>7, FoldBeginnings DEF OneSession, Around
<1>9. ~old /\ pane \in {"none", "shell"}
  BY <1>7 DEF OneSession, Around
<1>10. CallInOne(Starter, k)
  BY <1>1, <1>4, <1>6 DEF CallInOne, Making
<1>11. CallIs(Starter, k)'
  BY <1>4, <1>5, <1>7, <1>8, <1>9, <1>10 DEF CallIs, Told, Makes
<1>12. ASSUME NEW d \in Caller, NEW l, l = calls[d]
       PROVE  CallIs(d, l)'
  <2>1. CallInOne(d, l) /\ Told(l) /\ Makes(l)
    BY <1>12, CallFacts
  <2> QED BY <1>7, <1>8, <2>1 DEF CallIs, Told, Makes
<1>13. CallsAre'
  BY <1>2, <1>3, <1>11, <1>12, CallsGoOn DEF OneSession
<1>14. Around' /\ EndedIsGone' /\ WorkerAwaits'
  BY <1>7, <1>8, <1>9 DEF OneSession, Around, EndedIsGone, WorkerAwaits, AtWork, On
<1> QED BY <1>13, <1>14 DEF OneSession

LEMMA ProvisionKeeps ==
  ASSUME OneSession, NEW c \in Caller, Provision(c)
  PROVE  OneSession'
<1>1. PICK to : To(c, to) /\ to \in {"started", "undo"}
  BY DEF Provision
<1>2. /\ calls[c].at = "provision" /\ pane' \in {"none", "shell"}
      /\ UNCHANGED <<run, old, worker>>
  BY DEF Provision, At
<1>3. PICK k : k = Moved(calls[c], to)
  OBVIOUS
<1>4. calls' = [calls EXCEPT ![c] = k]
  BY <1>1, <1>3, ToMoves
<1>5. k.op = calls[c].op /\ k.at = to /\ k.seen = calls[c].seen
  BY <1>3 DEF Moved
<1>6. /\ c = Starter /\ calls[c].op = "start" /\ Makes(calls[c])
      /\ \A d \in Caller : d # c => calls[d].op # "start"
  BY <1>2, OneMakes DEF Making
<1>7. run.status = "starting" /\ ~old
  BY <1>2, <1>6 DEF Makes
<1>8. CallInOne(c, k)
  BY <1>1, <1>3, <1>5, <1>6, CallFacts DEF CallInOne, Making, Moved
<1>9. CallIs(c, k)'
  BY <1>1, <1>2, <1>5, <1>6, <1>7, <1>8, CallFacts DEF CallIs, Told, Makes
<1>10. ASSUME NEW d \in Caller, NEW l, d # c, l = calls[d]
       PROVE  CallIs(d, l)'
  <2>1. CallInOne(d, l) /\ Told(l)
    BY <1>10, CallFacts
  <2> QED BY <1>2, <1>6, <1>7, <1>10, <2>1 DEF CallIs, Told, Makes
<1>11. CallsAre'
  BY <1>4, <1>9, <1>10, CallsGoOn DEF OneSession
<1>12. Around' /\ EndedIsGone' /\ WorkerAwaits'
  BY <1>2, <1>7 DEF OneSession, Around, EndedIsGone, WorkerAwaits, AtWork, On
<1> QED BY <1>11, <1>12 DEF OneSession

LEMMA VerdictKeeps ==
  ASSUME OneSession, NEW c \in Caller, Verdict(c)
  PROVE  OneSession'
<1>1. PICK k : k = Moved(calls[c], "reread")
  OBVIOUS
<1>2. calls' = [calls EXCEPT ![c] = k]
  BY <1>1, ToMoves DEF Verdict
<1>3. k.op = calls[c].op /\ k.at = "reread" /\ k.seen = calls[c].seen
  BY <1>1 DEF Moved
<1>4. calls[c].at \in {"fail", "finish"} /\ UNCHANGED <<old, pane, worker>>
  BY DEF Verdict, At
<1>5. CallInOne(c, k) /\ calls[c].op # "start"
  BY <1>1, <1>3, <1>4, CallFacts DEF CallInOne, Making, Serving, Moved
<1>6. CASE run.status = "ended"
  <2>1. run' = run
    BY <1>6 DEF Verdict, RecordEnding
  <2>2. Told(k) /\ Makes(k)
    BY <1>3, <1>5, CallFacts DEF Told, Makes
  <2> QED BY <1>2, <1>4, <1>5, <2>1, <2>2, CallGoesOn DEF CallIs
<1>7. CASE run.status # "ended"
  <2>1. PICK kind \in Endings : run' = Fold(run, Signal(kind, {}))
    BY <1>7 DEF Verdict, RecordEnding, Record, Endings
  <2>2. /\ RunInOne(run') /\ run'.status = "ended"
        /\ DOMAIN run'.pending = DOMAIN run.pending
    BY <2>1, FoldEnding, CallFacts
  <2>3. CallIs(c, k)'
    BY <1>3, <1>4, <1>5, <2>2 DEF CallIs, Told, Makes
  <2>4. /\ pane \in {"none", "shell", "dead"}
        /\ calls[c].at = "fail" => old
        /\ calls[c].at = "finish" => run.status = "running" /\ pane \in {"none", "dead"}
    BY <1>4, <1>7, CallFacts DEF Told, Gone, OneSession, Around
  <2>5. ASSUME NEW d \in Caller, NEW l, l = calls[d]
        PROVE  CallIs(d, l)'
    <3>1. CallInOne(d, l) /\ Told(l) /\ Makes(l)
      BY <2>5, CallFacts
    <3>2. Told(l)'
      BY <1>4, <2>2, <3>1 DEF Told, Gone
    <3>3. Makes(l)'
      BY <1>4, <1>7, <2>2, <2>4, <3>1 DEF Makes
    <3> QED BY <3>1, <3>2, <3>3 DEF CallIs
  <2>6. CallsAre'
    BY <1>2, <2>3, <2>5, CallsGoOn DEF OneSession
  <2>7. Around' /\ EndedIsGone' /\ WorkerAwaits'
    BY <1>4, <2>2, <2>4 DEF OneSession, Around, EndedIsGone, WorkerAwaits, AtWork, On
  <2> QED BY <2>6, <2>7 DEF OneSession
<1> QED BY <1>6, <1>7

LEMMA StartedKeeps ==
  ASSUME OneSession, NEW c \in Caller, Started(c)
  PROVE  OneSession'
<1>1. calls[c].at = "started" /\ UNCHANGED <<old, pane, worker>>
  BY DEF Started, At
<1>2. /\ c = Starter /\ calls[c].op = "start" /\ Makes(calls[c])
      /\ \A d \in Caller : d # c => calls[d].op # "start"
  BY <1>1, OneMakes DEF Making
<1>3. /\ run.status = "starting" /\ ~old /\ DOMAIN run.pending = {}
      /\ pane \in {"none", "shell"}
  BY <1>1, <1>2 DEF Makes
<1>4. run' = Fold(run, Signal("started", {})) /\ To(c, "respawn")
  BY <1>3 DEF Started, Takes, Record
<1>5. RunInOne(run') /\ run'.status = "running" /\ run'.pending = run.pending
  BY <1>4, FoldBeginnings, CallFacts
<1>6. PICK k : k = Moved(calls[c], "respawn")
  OBVIOUS
<1>7. calls' = [calls EXCEPT ![c] = k]
  BY <1>4, <1>6, ToMoves
<1>8. k.op = calls[c].op /\ k.at = "respawn" /\ k.seen = calls[c].seen
  BY <1>6 DEF Moved
<1>9. CallInOne(c, k)
  BY <1>2, <1>6, <1>8, CallFacts DEF CallInOne, Making, Moved
<1>10. ASSUME NEW d \in Caller, NEW l, l = calls[d]
       PROVE  Told(l)' /\ CallInOne(d, l)
  <2>1. CallInOne(d, l) /\ Told(l)
    BY <1>10, CallFacts
  <2> QED BY <1>1, <1>3, <1>5, <2>1 DEF Told, Gone
<1>11. CallIs(c, k)'
  <2>1. Makes(k)'
    BY <1>1, <1>3, <1>5, <1>8 DEF Makes
  <2>2. Told(k)'
    BY <1>1, <1>3, <1>5, <1>8, CallFacts DEF Told, Gone
  <2> QED BY <1>9, <2>1, <2>2 DEF CallIs
<1>12. ASSUME NEW d \in Caller, NEW l, d # c, l = calls[d]
       PROVE  CallIs(d, l)'
  BY <1>2, <1>10, <1>12 DEF CallIs, Makes
<1>13. CallsAre'
  BY <1>7, <1>11, <1>12, CallsGoOn DEF OneSession
<1>14. Around' /\ EndedIsGone' /\ WorkerAwaits'
  BY <1>1, <1>3, <1>5 DEF OneSession, Around, EndedIsGone, WorkerAwaits, AtWork, On
<1> QED BY <1>13, <1>14 DEF OneSession

-----------------------------------------------------------------------------
LEMMA RespawnKeepsOne ==
  ASSUME OneSession, NEW c \in Caller, Respawn(c)
  PROVE  OneSession'
<1>1. calls[c].at = "respawn" /\ UNCHANGED <<run, old>>
  BY DEF Respawn, At
<1>2. /\ c = Starter /\ calls[c].op = "start" /\ Makes(calls[c])
      /\ \A d \in Caller : d # c => calls[d].op # "start"
  BY <1>1, OneMakes DEF Making
<1>3. CASE pane = "none"
  <2>1. UNCHANGED <<pane, worker>> /\ To(c, "undo")
    BY <1>2, <1>3 DEF Respawn
  <2>2. PICK k : k = Moved(calls[c], "undo")
    OBVIOUS
  <2>3. calls' = [calls EXCEPT ![c] = k]
    BY <2>1, <2>2, ToMoves
  <2>4. k.op = calls[c].op /\ k.at = "undo" /\ k.seen = calls[c].seen
    BY <2>2 DEF Moved
  <2>5. CallInOne(c, k)
    BY <1>2, <2>2, <2>4, CallFacts DEF CallInOne, Making, Moved
  <2>6. Told(k) /\ Makes(k)
    BY <2>4, CallFacts DEF Told, Makes
  <2> QED BY <1>1, <2>1, <2>3, <2>5, <2>6, CallGoesOn DEF CallIs
<1>4. CASE pane # "none"
  <2>1. pane = "shell" /\ run.status = "running" /\ DOMAIN run.pending = {}
    BY <1>1, <1>2, <1>4 DEF Makes
  <2>2. pane' = "worker" /\ worker' = Launched(FALSE) /\ Finish(c)
    BY <1>2, <1>4 DEF Respawn
  <2>3. worker'.out = <<>>
    BY <2>2 DEF Launched, NoWorker
  <2>4. ASSUME NEW d \in Caller, NEW l, d # c, l = calls[d]
        PROVE  CallIs(d, l)'
    <3>1. CallInOne(d, l) /\ Told(l)
      BY <2>4, CallFacts
    <3>2. Makes(l)'
      BY <1>2, <2>4 DEF Makes
    <3>3. Told(l)'
      BY <1>1, <2>1, <3>1 DEF Told, Gone
    <3> QED BY <3>1, <3>2, <3>3 DEF CallIs
  <2>5. CallIs(c, Idle)'
    <3>1. /\ Idle.op = "none" /\ Idle.at = "idle"
          /\ Idle.seen.status = "unknown"
      BY DEF Idle, FreshRun
    <3>2. CallInOne(c, Idle)
      BY IdleIsCall DEF CallIs
    <3> QED BY <3>1, <3>2 DEF CallIs, Told, Makes
  <2>6. PICK k : k = Idle
    OBVIOUS
  <2>7. CallIs(c, k)'
    BY <2>5, <2>6 DEF CallIs, Told, Makes, Gone
  <2>8. CallsAre'
    BY <2>2, <2>4, <2>6, <2>7, CallsGoOn DEF Finish, OneSession
  <2>9. Awaited(run'.pending, worker'.asks, worker'.out)
    BY <1>1, <2>1, <2>3 DEF Awaited
  <2>10. worker'.out \in Seq(Said)
    BY <2>3
  <2>11. Around' /\ EndedIsGone' /\ WorkerAwaits'
    BY <1>1, <2>1, <2>2, <2>9, <2>10 DEF OneSession, Around, EndedIsGone, WorkerAwaits
  <2> QED BY <2>8, <2>11 DEF OneSession
<1> QED BY <1>3, <1>4

LEMMA UndoKeeps ==
  ASSUME OneSession, NEW c \in Caller, Undo(c)
  PROVE  OneSession'
<1>1. /\ calls[c].at = "undo" /\ pane' = "none" /\ worker' = NoWorker
      /\ UNCHANGED <<run, old>>
  BY DEF Undo, At
<1>2. /\ c = Starter /\ calls[c].op = "start" /\ Makes(calls[c])
      /\ \A d \in Caller : d # c => calls[d].op # "start"
  BY <1>1, OneMakes DEF Making
<1>3. PICK k : k = Moved(calls[c], "undone")
  OBVIOUS
<1>4. calls' = [calls EXCEPT ![c] = k]
  BY <1>3, ToMoves DEF Undo
<1>5. k.op = calls[c].op /\ k.at = "undone" /\ k.seen = calls[c].seen
  BY <1>3 DEF Moved
<1>6. CallInOne(c, k)
  BY <1>2, <1>3, <1>5, CallFacts DEF CallInOne, Making, Moved
<1>7. CallIs(c, k)'
  BY <1>1, <1>2, <1>5, <1>6, CallFacts DEF CallIs, Told, Makes
<1>8. ASSUME NEW d \in Caller, NEW l, d # c, l = calls[d]
      PROVE  CallIs(d, l)'
  <2>1. CallInOne(d, l) /\ Told(l)
    BY <1>8, CallFacts
  <2> QED BY <1>1, <1>2, <1>8, <2>1 DEF CallIs, Told, Makes, Gone
<1>9. CallsAre'
  BY <1>4, <1>7, <1>8, CallsGoOn DEF OneSession
<1>10. worker'.out = <<>>
  BY <1>1 DEF NoWorker
<1>11. Around' /\ EndedIsGone' /\ WorkerAwaits'
  BY <1>1, <1>10 DEF OneSession, Around, EndedIsGone, WorkerAwaits, AtWork, On
<1> QED BY <1>9, <1>11 DEF OneSession

LEMMA UndoneKeeps ==
  ASSUME OneSession, NEW c \in Caller, Undone(c)
  PROVE  OneSession'
<1>1. calls[c].at = "undone" /\ Finish(c) /\ UNCHANGED <<old, pane, worker>>
  BY DEF Undone, At
<1>2. CASE run.status = "ended"
  <2>1. run' = run
    BY <1>2 DEF Undone, RecordEnding
  <2> QED BY <1>1, <2>1, CallGoesOn, IdleIsCall DEF Finish
<1>3. CASE run.status # "ended"
  <2>1. PICK kind \in Endings : run' = Fold(run, Signal(kind, {}))
    BY <1>3 DEF Undone, RecordEnding, Record, Endings
  <2>2. RunInOne(run') /\ run'.status = "ended"
    BY <2>1, FoldEnding, CallFacts
  <2>3. /\ \A d \in Caller : d # c => calls[d].op # "start"
        /\ pane = "none"
    BY <1>1, OneMakes DEF Making, Makes
  <2>4. PICK k : k = Idle
    OBVIOUS
  <2>5. CallIs(c, k)'
    <3>1. Idle.op = "none" /\ Idle.at = "idle" /\ Idle.seen.status = "unknown"
      BY DEF Idle, FreshRun
    <3>2. CallInOne(c, k)
      BY <2>4, IdleIsCall DEF CallIs
    <3> QED BY <2>4, <3>1, <3>2 DEF CallIs, Told, Makes
  <2>6. ASSUME NEW d \in Caller, NEW l, d # c, l = calls[d]
        PROVE  CallIs(d, l)'
    <3>1. CallInOne(d, l) /\ Told(l)
      BY <2>6, CallFacts
    <3> QED BY <1>1, <2>2, <2>3, <2>6, <3>1 DEF CallIs, Told, Makes, Gone
  <2>7. CallsAre'
    BY <1>1, <2>4, <2>5, <2>6, CallsGoOn DEF Finish, OneSession
  <2>8. Around' /\ EndedIsGone' /\ WorkerAwaits'
    BY <1>1, <2>2, <2>3 DEF OneSession, Around, EndedIsGone, WorkerAwaits, AtWork, On
  <2> QED BY <2>7, <2>8 DEF OneSession
<1> QED BY <1>2, <1>3

LEMMA AgeKeeps ==
  ASSUME OneSession, ~Slow, Age
  PROVE  OneSession'
<1>1. /\ ~old /\ run.status # "unknown" /\ UNCHANGED <<run, pane, worker, calls>>
      /\ \A d \in Caller : calls[d].op # "start" /\ calls[d].seen.status # "starting"
  BY DEF Age, Hurried
<1>2. ASSUME NEW d \in Caller, NEW l, l = calls[d]
      PROVE  CallIs(d, l)'
  <2>1. CallInOne(d, l) /\ Told(l)
    BY <1>2, CallFacts
  <2> QED BY <1>1, <1>2, <2>1 DEF CallIs, Told, Makes, Gone
<1>3. CallsAre'
  BY <1>1, <1>2, CallsStay DEF OneSession
<1>4. Around' /\ EndedIsGone' /\ WorkerAwaits'
  BY <1>1 DEF OneSession, Around, EndedIsGone, WorkerAwaits, AtWork, On
<1> QED BY <1>3, <1>4 DEF OneSession

LEMMA PaneDiesKeeps ==
  ASSUME OneSession, PaneDies
  PROVE  OneSession'
<1>1. /\ pane' = "none" /\ worker' = NoWorker /\ UNCHANGED <<run, old, calls>>
  BY DEF PaneDies, Dies
<1>2. ASSUME NEW d \in Caller, NEW l, l = calls[d]
      PROVE  CallIs(d, l)'
  <2>1. CallInOne(d, l) /\ Told(l) /\ Makes(l)
    BY <1>2, CallFacts
  <2> QED BY <1>1, <1>2, <2>1 DEF CallIs, Told, Makes, Gone
<1>3. CallsAre'
  BY <1>1, <1>2, CallsStay DEF OneSession
<1>4. worker'.out = <<>>
  BY <1>1 DEF NoWorker
<1>5. Around' /\ EndedIsGone' /\ WorkerAwaits'
  BY <1>1, <1>4 DEF OneSession, Around, EndedIsGone, WorkerAwaits, AtWork, On
<1> QED BY <1>3, <1>5 DEF OneSession

LEMMA CallerDiesKeeps ==
  ASSUME OneSession, NEW c \in Caller, CallerDies(c)
  PROVE  OneSession'
  BY CallGoesOn, IdleIsCall DEF CallerDies, Finish, Dies

-----------------------------------------------------------------------------
\* Steps of the worker that the log does not see.
LEMMA WorkerGoesOn ==
  ASSUME OneSession, UNCHANGED <<run, old, pane, calls>>,
         worker'.out \in Seq(Said),
         AtWork' => AtWork /\ Awaited(run.pending, worker'.asks, worker'.out)
  PROVE  OneSession'
<1>1. ASSUME NEW d \in Caller, NEW l, l = calls[d]
      PROVE  CallIs(d, l)'
  <2>1. CallInOne(d, l) /\ Told(l) /\ Makes(l)
    BY <1>1, CallFacts
  <2> QED BY <2>1 DEF CallIs, Told, Makes, Gone
<1>2. CallsAre'
  BY <1>1, CallsStay DEF OneSession
<1>3. Around' /\ EndedIsGone'
  BY DEF OneSession, Around, EndedIsGone, AtWork
<1>4. WorkerAwaits'
  BY DEF OneSession, WorkerAwaits
<1> QED BY <1>2, <1>3, <1>4 DEF OneSession

\* It says something.
LEMMA WorkerSays ==
  ASSUME OneSession, UNCHANGED <<run, old, pane, calls>>, AtWork,
         NEW e \in Said, worker'.out = Append(worker.out, e),
         AtWork' => /\ \A q \in worker.asks :
                         q \in worker'.asks \/ e = Signal("resolved", {q})
                    /\ e.kind = "asked" => e.requests \subseteq worker'.asks
  PROVE  OneSession'
<1>1. PICK out : out = worker.out
  OBVIOUS
<1>2. out \in Seq(Said) /\ Awaited(run.pending, worker.asks, out)
  BY <1>1 DEF OneSession, WorkerAwaits
<1>3. worker'.out \in Seq(Said)
  BY <1>1, <1>2
<1>4. ASSUME AtWork' PROVE Awaited(run.pending, worker'.asks, worker'.out)
  <2>1. PICK pending, asks, left :
          pending = run.pending /\ asks = worker.asks /\ left = worker'.asks
    OBVIOUS
  <2>2. Awaited(pending, left, Append(out, e))
    BY <1>1, <1>2, <1>4, <2>1, SayAwaits
  <2> QED BY <1>1, <2>1, <2>2
<1> QED BY <1>3, <1>4, WorkerGoesOn

LEMMA WorkerKeeps ==
  ASSUME IInv, OneSession, ~LoadSession, Serve \/ Turn \/ Unlink \/ EndTurn \/ AgentDies
  PROVE  OneSession'
<1>1. Signal("observed", {}) \in Said /\ Signal("observed", {}).kind = "observed"
  BY DEF Signal, Said
<1>2. worker.out \in Seq(Said) /\ (AtWork => Awaited(run.pending, worker.asks, worker.out))
  BY DEF OneSession, WorkerAwaits
<1>3. CASE Serve
  <2>1. /\ UNCHANGED <<run, old, pane, calls>> /\ AtWork
        /\ worker' = [worker EXCEPT !.phase = "serving",
                                    !.out = Append(@, Signal("observed", {}))]
    BY <1>3 DEF Serve, AtWork
  <2>2. worker'.asks = worker.asks /\ worker'.out = Append(worker.out, Signal("observed", {}))
    BY <2>1 DEF IInv, Shapes
  <2> QED BY <1>1, <2>1, <2>2, WorkerSays
<1>4. CASE Turn
  <2>1. /\ UNCHANGED <<run, old, pane, calls>> /\ AtWork
        /\ worker' = [worker EXCEPT !.turn = TRUE, !.prompts = Tail(@),
                                    !.out = Append(@, Signal("observed", {}))]
    BY <1>4 DEF Turn, AtWork
  <2>2. worker'.asks = worker.asks /\ worker'.out = Append(worker.out, Signal("observed", {}))
    BY <2>1 DEF IInv, Shapes
  <2> QED BY <1>1, <2>1, <2>2, WorkerSays
<1>5. CASE EndTurn
  <2>1. /\ UNCHANGED <<run, old, pane, calls>> /\ AtWork
        /\ worker' = [worker EXCEPT !.turn = FALSE,
                        !.phase = IF Persistent \/ worker.resumes THEN "serving" ELSE "closing",
                        !.out = Append(@, Signal("observed", {}))]
    BY <1>5 DEF EndTurn, AtWork
  <2>2. worker'.asks = worker.asks /\ worker'.out = Append(worker.out, Signal("observed", {}))
    BY <2>1 DEF IInv, Shapes
  <2> QED BY <1>1, <2>1, <2>2, WorkerSays
<1>6. CASE Unlink
  <2>1. /\ UNCHANGED <<run, old, pane, calls>> /\ AtWork
        /\ worker' = [worker EXCEPT !.hand = FALSE]
    BY <1>6 DEF Unlink, AtWork
  <2>2. worker'.asks = worker.asks /\ worker'.out = worker.out
    BY <2>1 DEF IInv, Shapes
  <2> QED BY <1>2, <2>1, <2>2, WorkerGoesOn
<1>7. CASE AgentDies
  <2>1. /\ UNCHANGED <<run, old, pane, calls>> /\ AtWork
        /\ worker' = [worker EXCEPT !.phase = "failing"]
    BY <1>7 DEF AgentDies, AtWork, Dies
  <2>2. worker'.asks = worker.asks /\ worker'.out = worker.out
    BY <2>1 DEF IInv, Shapes
  <2> QED BY <1>2, <2>1, <2>2, WorkerGoesOn
<1> QED BY <1>3, <1>4, <1>5, <1>6, <1>7

LEMMA AskKeepsOne ==
  ASSUME IInv, OneSession, NEW q \in Request, Ask(q)
  PROVE  OneSession'
<1>1. /\ Signal("asked", {q}) \in Said /\ Signal("asked", {q}).kind = "asked"
      /\ Signal("asked", {q}).requests = {q}
  BY DEF Signal, Said
<1>2. /\ UNCHANGED <<run, old, pane, calls>> /\ AtWork
      /\ worker' = [worker EXCEPT !.asks = @ \cup {q},
                                  !.out = Append(@, Signal("asked", {q}))]
  BY DEF Ask, AtWork
<1>3. /\ worker'.asks = worker.asks \cup {q}
      /\ worker'.out = Append(worker.out, Signal("asked", {q}))
  BY <1>2 DEF IInv, Shapes
<1> QED BY <1>1, <1>2, <1>3, WorkerSays

LEMMA FetchKeepsOne ==
  ASSUME IInv, OneSession, Fetch
  PROVE  OneSession'
<1>1. UNCHANGED <<run, old, pane, calls>> /\ AtWork
  BY DEF Fetch, AtWork
<1>2. worker.out \in Seq(Said) /\ Awaited(run.pending, worker.asks, worker.out)
  BY <1>1 DEF OneSession, WorkerAwaits
<1>3. PICK q : q = Head(files).about
  OBVIOUS
<1>4. \/ worker' = Stopped
      \/ worker' = [worker EXCEPT !.prompts = Append(@, q), !.hand = TRUE]
      \/ worker' = Answered(q) /\ q \in worker.asks
      \/ worker' = [worker EXCEPT !.phase = "failing"]
      \/ worker' = [worker EXCEPT !.hand = TRUE]
  BY <1>3 DEF Fetch, AgentAsks
<1>5. CASE worker' = Stopped
  <2>1. Signal("cancelled", {}) \in Said /\ Signal("cancelled", {}).kind = "cancelled"
    BY DEF Signal, Said
  <2>2. worker'.out = Append(worker.out, Signal("cancelled", {})) /\ worker'.phase = "closing"
    BY <1>5 DEF Stopped, IInv, Shapes
  <2>3. ~AtWork'
    BY <2>2 DEF AtWork, On
  <2> QED BY <1>1, <2>1, <2>2, <2>3, WorkerSays
<1>6. CASE worker' = [worker EXCEPT !.prompts = Append(@, q), !.hand = TRUE]
  <2>1. worker'.asks = worker.asks /\ worker'.out = worker.out
    BY <1>6 DEF IInv, Shapes
  <2> QED BY <1>1, <1>2, <2>1, WorkerGoesOn
<1>7. CASE worker' = Answered(q) /\ q \in worker.asks
  <2>1. q \in Request
    BY <1>7 DEF IInv, OpenIsUnanswered
  <2>2. Signal("resolved", {q}) \in Said /\ Signal("resolved", {q}).kind = "resolved"
    BY <2>1 DEF Signal, Said
  <2>3. /\ worker'.asks = worker.asks \ {q}
        /\ worker'.out = Append(worker.out, Signal("resolved", {q}))
    BY <1>7 DEF Answered, IInv, Shapes
  <2> QED BY <1>1, <2>2, <2>3, WorkerSays
<1>8. CASE worker' = [worker EXCEPT !.phase = "failing"] \/ worker' = [worker EXCEPT !.hand = TRUE]
  <2>1. worker'.asks = worker.asks /\ worker'.out = worker.out
    BY <1>8 DEF IInv, Shapes
  <2> QED BY <1>1, <1>2, <2>1, WorkerGoesOn
<1> QED BY <1>4, <1>5, <1>6, <1>7, <1>8

-----------------------------------------------------------------------------
LEMMA ObserveKeeps ==
  ASSUME IInv, OneSession, Observe
  PROVE  OneSession'
<1>1. PICK out, e : out = worker.out /\ e = Head(out)
  OBVIOUS
<1>2. /\ out \in Seq(Said) /\ out # <<>> /\ pane = "worker"
      /\ UNCHANGED <<old, pane, calls>>
  BY <1>1 DEF Observe, On, OneSession, WorkerAwaits
<1>3. e \in Said /\ Tail(out) \in Seq(Said)
  BY <1>1, <1>2, HeadTailProperties
<1>4. CASE ~Takes(e)
  <2>1. worker' = [worker EXCEPT !.phase = "failing"] /\ run' = run
    BY <1>1, <1>4 DEF Observe
  <2>2. worker'.out = worker.out /\ worker'.phase = "failing"
    BY <2>1 DEF IInv, Shapes
  <2>3. ~AtWork'
    BY <2>2 DEF AtWork, On
  <2> QED BY <1>1, <1>2, <2>1, <2>2, <2>3, WorkerGoesOn
<1>5. CASE Takes(e)
  <2>1. run' = Fold(run, e) /\ worker' = [worker EXCEPT !.out = Tail(@)]
    BY <1>1, <1>5 DEF Observe, Record
  <2>2. /\ worker'.out = Tail(out) /\ worker'.asks = worker.asks
        /\ worker'.phase = worker.phase
    BY <1>1, <2>1 DEF IInv, Shapes
  <2>3. RunInOne(run) /\ RunInOne(run') /\ run'.status = run.status
    BY <1>3, <2>1, FoldSaid, CallFacts DEF OneSession, Around
  <2>4. ASSUME NEW d \in Caller, NEW l, l = calls[d]
        PROVE  CallIs(d, l)'
    <3>1. CallInOne(d, l) /\ Told(l) /\ Makes(l)
      BY <2>4, CallFacts
    <3> QED BY <1>2, <2>3, <3>1 DEF CallIs, Told, Makes, Gone
  <2>5. CallsAre'
    BY <1>2, <2>4, CallsStay DEF OneSession
  <2>6. AtWork' => AtWork
    BY <1>2, <2>2 DEF AtWork, On
  <2>7. Around' /\ EndedIsGone'
    BY <1>2, <2>3, <2>6 DEF OneSession, Around, EndedIsGone, AtWork
  <2>8. ASSUME AtWork' PROVE Awaited(run'.pending, worker'.asks, worker'.out)
    <3>1. PICK r, asks : r = run /\ asks = worker.asks
      OBVIOUS
    <3>2. RunInOne(r) /\ Awaited(r.pending, asks, out)
      BY <1>1, <2>3, <2>6, <2>8, <3>1 DEF OneSession, WorkerAwaits
    <3>3. Awaited(Fold(r, e).pending, asks, Tail(out))
      BY <1>1, <1>2, <3>2, ObserveAwaits
    <3> QED BY <2>1, <2>2, <3>1, <3>3
  <2>9. WorkerAwaits'
    BY <1>3, <2>2, <2>8 DEF WorkerAwaits
  <2> QED BY <2>5, <2>7, <2>9 DEF OneSession
<1> QED BY <1>4, <1>5

\* A worker that gave up, or its runner, records the end.
LEMMA EndingKeeps ==
  ASSUME OneSession, RecordEnding("finished"), UNCHANGED <<old, calls>>,
         \/ pane = "worker" /\ pane' = "worker"
         \/ pane = "report" /\ pane' = "dead",
         ~AtWork', worker'.out \in Seq(Said)
  PROVE  OneSession'
<1>1. RunInOne(run) /\ run.status \in {"running", "ended"}
  BY DEF OneSession, Around
<1>2. RunInOne(run') /\ run'.status = "ended"
  <2>1. CASE run.status = "ended"
    BY <1>1, <2>1 DEF RecordEnding
  <2>2. CASE run.status # "ended"
    <3>1. run' = Fold(run, Signal("finished", {})) /\ "finished" \in Endings
      BY <2>2 DEF RecordEnding, Record, Endings
    <3> QED BY <1>1, <3>1, FoldEnding
  <2> QED BY <2>1, <2>2
<1>3. ASSUME NEW d \in Caller, NEW l, l = calls[d]
      PROVE  CallIs(d, l)'
  <2>1. CallInOne(d, l) /\ Told(l) /\ Makes(l)
    BY <1>3, CallFacts
  <2> QED BY <1>1, <1>2, <2>1 DEF CallIs, Told, Makes, Gone
<1>4. CallsAre'
  BY <1>3, CallsStay DEF OneSession
<1>5. Around'
  BY <1>1, <1>2 DEF OneSession, Around
<1>6. EndedIsGone' /\ WorkerAwaits'
  BY DEF EndedIsGone, WorkerAwaits, AtWork
<1> QED BY <1>4, <1>5, <1>6 DEF OneSession

LEMMA LeavingKeeps ==
  ASSUME OneSession, Fails \/ Exits \/ Report
  PROVE  OneSession'
<1>1. CASE Fails
  <2>1. /\ pane = "worker" /\ pane' = "worker" /\ RecordEnding("finished")
        /\ UNCHANGED <<old, calls>> /\ worker' = [NoWorker EXCEPT !.phase = "closing"]
    BY <1>1 DEF Fails, On
  <2>2. worker'.phase = "closing" /\ worker'.out = <<>>
    BY <2>1 DEF NoWorker
  <2>3. ~AtWork' /\ worker'.out \in Seq(Said)
    BY <2>2 DEF AtWork, On
  <2> QED BY <2>1, <2>3, EndingKeeps
<1>2. CASE Report
  <2>1. /\ pane = "report" /\ pane' = "dead" /\ RecordEnding("finished")
        /\ UNCHANGED <<old, calls, worker>>
    BY <1>2 DEF Report
  <2>2. ~AtWork' /\ worker'.out \in Seq(Said)
    BY <2>1 DEF AtWork, On, OneSession, WorkerAwaits
  <2> QED BY <2>1, <2>2, EndingKeeps
<1>3. CASE Exits
  <2>1. /\ pane = "worker" /\ pane' = "report" /\ worker' = NoWorker
        /\ UNCHANGED <<run, old, calls>>
    BY <1>3 DEF Exits, On
  <2>2. worker'.out = <<>>
    BY <2>1 DEF NoWorker
  <2>3. ASSUME NEW d \in Caller, NEW l, l = calls[d]
        PROVE  CallIs(d, l)'
    <3>1. CallInOne(d, l) /\ Told(l) /\ Makes(l)
      BY <2>3, CallFacts
    <3> QED BY <2>1, <3>1 DEF CallIs, Told, Makes, Gone
  <2>4. CallsAre'
    BY <2>1, <2>3, CallsStay DEF OneSession
  <2>5. Around' /\ EndedIsGone' /\ WorkerAwaits'
    BY <2>1, <2>2 DEF OneSession, Around, EndedIsGone, WorkerAwaits, AtWork, On
  <2> QED BY <2>4, <2>5 DEF OneSession
<1> QED BY <1>1, <1>2, <1>3

\* Nothing is resumed, and no answer becomes a message to a later session.
LEMMA NothingResumed ==
  ASSUME OneSession, NEW c \in Caller
  PROVE  ~Restart(c) /\ ~Session(c) /\ ~Resolve(c)
  BY CallFacts DEF CallInOne, Making, Serving, Restart, Session, Resolve, At

LEMMA OperateKeeps ==
  ASSUME OneSession, NEW c \in Caller, Operate(c)
  PROVE  OneSession'
  BY ProvisionKeeps, ReadKeeps, LookKeeps, VerdictKeeps, RereadKeeps, CheckKeeps,
     WriteKeeps, StartedKeeps, RespawnKeepsOne, UndoKeeps, UndoneKeeps, NothingResumed
     DEF Operate

LEMMA NextKeepsOne ==
  ASSUME ~LoadSession, ~Slow
  PROVE  IInv /\ OneSession /\ [Next]_vars => OneSession'
<1> SUFFICES ASSUME IInv, OneSession, [Next]_vars
             PROVE  OneSession'
  OBVIOUS
<1>1. CASE UNCHANGED vars
  <2>1. UNCHANGED <<run, old, pane, calls, worker>>
    BY <1>1 DEF vars
  <2>2. worker.out \in Seq(Said) /\ (AtWork => Awaited(run.pending, worker.asks, worker.out))
    BY DEF OneSession, WorkerAwaits
  <2>3. AtWork' => AtWork
    BY <2>1 DEF AtWork, On
  <2> QED BY <2>1, <2>2, <2>3, WorkerGoesOn
<1>2. CASE Start \/ Age \/ AgentDies \/ PaneDies
  BY <1>2, StartKeeps, AgeKeeps, WorkerKeeps, PaneDiesKeeps
<1>3. ASSUME NEW c \in Caller, Operate(c)
      PROVE  OneSession'
  BY <1>3, OperateKeeps
<1>4. ASSUME NEW c \in Caller, CallerDies(c)
      PROVE  OneSession'
  BY <1>4, CallerDiesKeeps
<1>5. ASSUME NEW c \in Caller, NEW op \in OpsOf[c],
             NEW q \in Request \cup {NoRequest}, Begin(c, op, q)
      PROVE  OneSession'
  BY <1>5, BeginKeeps
<1>6. CASE Work
  BY <1>6, WorkerKeeps, FetchKeepsOne, ObserveKeeps, LeavingKeeps DEF Work
<1>7. CASE EndTurn
  BY <1>7, WorkerKeeps
<1>8. ASSUME NEW q \in Request, Ask(q)
      PROVE  OneSession'
  BY <1>8, AskKeepsOne
<1> QED BY <1>1, <1>2, <1>3, <1>4, <1>5, <1>6, <1>7, <1>8 DEF Next

-----------------------------------------------------------------------------
\* list, a failed start and the worker itself may record the end of a run
\* (list and start in AgentRuns.ts, the runner of the pane), for any callers and deaths:
\* none of them ends a run whose agent is at work, as long as it is in its first
\* session and operations take less than 60 s.
THEOREM EndedIsGoneHolds ==
  ASSUME ~LoadSession, ~Slow
  PROVE  Spec => []EndedIsGone
<1>1. OneSession => EndedIsGone
  BY DEF OneSession
<1> QED BY <1>1, InitIsCalm, NextKeeps, InitIsOne, NextKeepsOne, PTL DEF Spec

\* A request the log shows as live is one the agent still waits for
\* (AgentDriver.ts), or the event of its answer is on its way to the log.
THEOREM LiveIsAwaitedHolds ==
  ASSUME ~LoadSession, ~Slow
  PROVE  Spec => []LiveIsAwaited
<1>1. OneSession => LiveIsAwaited
  <2> SUFFICES ASSUME OneSession, NEW q \in DOMAIN run.pending,
                      run.pending[q] = "live", On("serving")
               PROVE  q \in worker.asks \/ Signal("resolved", {q}) \in ToSet(worker.out)
    BY DEF LiveIsAwaited
  <2>1. Awaited(run.pending, worker.asks, worker.out)
    BY DEF OneSession, WorkerAwaits, AtWork
  <2>2. q \in worker.asks \/ ToldAnswer(q, worker.out, 0)
    BY <2>1 DEF Awaited
  <2> QED BY <2>2 DEF ToldAnswer, ToSet
<1> QED BY <1>1, InitIsCalm, NextKeeps, InitIsOne, NextKeepsOne, PTL DEF Spec

\* Who ends a run that starts has read it more than 60 s after its start, and
\* then nobody makes it any more.
LEMMA MakingIsSpared ==
  ASSUME OneSession, [Next]_vars, run.status = "starting", InTheMaking
  PROVE  run'.status # "ended"
<1>1. PICK m \in Caller : calls[m].at \in {"provision", "session", "started"}
  BY DEF InTheMaking
<1>2. /\ m = Starter /\ Makes(calls[m]) /\ calls[m].op = "start"
      /\ calls[m].at \in {"provision", "started"}
      /\ ~old /\ pane \in {"none", "shell"}
  BY <1>1, CallFacts DEF CallInOne, Making, Serving, Makes
<1>3. \A c \in Caller : ~Verdict(c) /\ ~Undone(c)
  BY <1>2, CallFacts DEF Verdict, Undone, At, Told, CallInOne, Making, Serving
<1>4. ~Work /\ ~EndTurn /\ (\A q \in Request : ~Ask(q)) /\ ~Start
  BY <1>2 DEF Work, EndTurn, Ask, Start, On, Serve, Turn, Fetch, Unlink, Observe,
              Fails, Exits, Report
<1>5. \A c \in Caller : Started(c) => run'.status = "running"
  <2> SUFFICES ASSUME NEW c \in Caller, Started(c)
               PROVE  run'.status = "running"
    OBVIOUS
  <2>1. run' = Fold(run, Signal("started", {}))
    BY DEF Started, Takes, Record
  <2> QED BY <2>1, FoldBeginnings, CallFacts
<1>6. \/ run' = run
      \/ \E c \in Caller : Started(c)
  BY <1>3, <1>4, NothingResumed DEF Next, vars, Operate, Provision, Read, Look, Reread,
     Check, Write, Respawn, Undo, Begin, CallerDies, Age, AgentDies, PaneDies, Dies
<1> QED BY <1>5, <1>6

\* A start that goes on is not ended by the list of another process
\* (AgentRuns.ts, the 60 s that list gives a run that is starting).
THEOREM StartingIsSparedHolds ==
  ASSUME ~LoadSession, ~Slow
  PROVE  Spec => StartingIsSpared
<1>1. IInv /\ OneSession /\ [Next]_vars
        => [run.status = "starting" /\ InTheMaking => run'.status # "ended"]_vars
  BY MakingIsSpared
<1>2. Spec => [][run.status = "starting" /\ InTheMaking => run'.status # "ended"]_vars
  BY <1>1, InitIsCalm, NextKeeps, InitIsOne, NextKeepsOne, PTL DEF Spec
<1> QED BY <1>2 DEF StartingIsSpared
=============================================================================
