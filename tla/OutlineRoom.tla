----------------------------- MODULE OutlineRoom -----------------------------
(***************************************************************************)
(* The room of the server and its threads (OutlineRoom.ts): one thread for *)
(* each agent run, derived again and again from the execution log, and     *)
(* what the user does with it - dispatch an agent to a bullet, answer,     *)
(* steer, cancel, and accept a suggestion that delegates further.          *)
(*                                                                         *)
(* A mutex orders the handlers of the room; the agents, the CLI and other  *)
(* servers go on beside it.  What the room remembers of answers, stops and *)
(* failures is one file.  Runs are what RunProjection makes of the log;    *)
(* of start and control, whose inside is in AgentRuns, here are the steps  *)
(* that others can see, each of which may fail after those before it.      *)
(* Saves are in ClientSync; activity, texts and the proposals of the CLI   *)
(* are left out.                                                           *)
(***************************************************************************)
EXTENDS RunProjection, Naturals, FiniteSets

CONSTANTS
  Node, First,   \* bullets, and those of the outline at the start
  NoRequest,
  Agent, Installed,   \* the agents one can name, and those that can be started
  Parents,       \* bound: the threads under which the user dispatches
  Logs, File0,   \* the runs (any of these) and outline-room.json at the start
  MaxRuns, MaxMessages, MaxOthers, MaxCrashes,  \* bounds
  MaxEvents      \* bound: the last three together

ASSUME RoomAssumption ==
  First \subseteq Node /\ Installed \subseteq Agent /\ NoRequest \notin Request /\ MaxRuns \in Nat

\* The histories begin with the first server.
ASSUME FileAssumption ==
  File0 = [answers |-> {}, cancelled |-> {}, failed |-> File0.failed]

\* A run of the log: those of the room have one bullet each, in none of them
\* has anything been stopped or prompted.
FirstRun(r) ==
  /\ r = [thread |-> r.thread, node |-> r.node, parent |-> r.parent, by |-> r.by,
          log |-> [status |-> r.log.status, loadable |-> r.log.loadable,
                   pending |-> r.log.pending],
          failed |-> r.failed, turn |-> r.turn, prompted |-> FALSE, idle |-> r.idle,
          cancelled |-> FALSE, offers |-> r.offers]
  /\ r.log.status \in {"starting", "running", "ended"} /\ DOMAIN r.log.pending \subseteq Request
  /\ r.log.status = "starting" => r.log.loadable = FALSE
  /\ r.turn => ~r.idle /\ r.log.status # "ended"
ASSUME LogsAssumption ==
  \A log \in Logs :
    /\ log \in Seq({log[k] : k \in DOMAIN log})
    /\ \A k \in DOMAIN log : FirstRun(log[k])
    /\ \A k, m \in DOMAIN log : log[k].node = log[m].node => k = m

\* Thread ids are random; here each new one is the next.
NoThread == 0

VARIABLES
  runs,       \* the runs of the log
  nodes,      \* the bullets of the outline
  file,       \* runs/outline-room.json
  room,       \* the room's memory: what it has of the file, threads, items
  job,        \* the handler that holds the mutex
  listening,  \* somebody is connected
  passes,     \* history: how often the room passed on an answer, by request
  lapses,     \* history: how often it then failed to remember it, by request
  stopped,    \* history: the runs the room passed a stop to
  steered,    \* history: the runs the room prompted for one more turn
  count       \* bounds

history == <<passes, lapses, stopped, steered>>
vars == <<runs, nodes, file, room, job, listening, history, count>>
world == <<nodes, file, room, job, listening, history>>

Idle == [at |-> "idle", do |-> "none", run |-> 0, about |-> NoRequest, todo |-> <<>>]
NoState == [answers |-> {}, cancelled |-> {}, failed |-> {}]
NoRoom == [loaded |-> FALSE, state |-> NoState, threads |-> {}, items |-> {}]

Init ==
  /\ runs \in Logs /\ nodes = First /\ file = File0
  /\ room = NoRoom /\ job = Idle /\ listening = FALSE
  /\ passes = [q \in Request |-> 0] /\ lapses = passes /\ stopped = {} /\ steered = {}
  /\ count = [k \in {"message", "other", "crash"} |-> 0]

Few == FoldFunction(+, 0, count) < MaxEvents
Counted(kind, max) ==
  /\ count[kind] < max /\ Few
  /\ count' = [count EXCEPT ![kind] = @ + 1]

-----------------------------------------------------------------------------
(* refresh *)

State == IF room.loaded THEN room.state ELSE file

Cancelled(k, s) == k \in s.cancelled \/ runs[k].cancelled

\* Mutant: only what the live session awaits is a question.
QuestionOfLive(k, s) ==
  LET live == {q \in DOMAIN runs[k].log.pending :
                 q \notin s.answers /\ runs[k].log.pending[q] = "live"}
  IN  IF live = {} \/ Cancelled(k, s) THEN NoRequest ELSE CHOOSE q \in live : TRUE

\* The first pending request that was not answered, live ones first.
Question(k, s) ==
  LET pending == runs[k].log.pending
      open == {q \in DOMAIN pending : q \notin s.answers}
      live == {q \in open : pending[q] = "live"}
  IN  IF open = {} \/ Cancelled(k, s) THEN NoRequest
      ELSE CHOOSE q \in open : live = {} \/ q \in live

Status(k, s) ==
  LET run == runs[k]
      ended == run.log.status = "ended"
  IN  IF Cancelled(k, s) THEN "Cancelled"
      ELSE IF Question(k, s) # NoRequest THEN "NeedsInput"
      ELSE IF ended /\ run.failed THEN "Failed"
      ELSE IF ended \/ run.idle THEN IF run.offers # {} THEN "Review" ELSE "Done"
      ELSE IF run.log.status = "starting" THEN "Provisioning" ELSE "Working"

ThreadOf(k, s) ==
  [id |-> runs[k].thread, node |-> runs[k].node, parent |-> runs[k].parent,
   run |-> k, status |-> Status(k, s), question |-> Question(k, s),
   offers |-> runs[k].offers]
Derived(s) == {ThreadOf(k, s) : k \in DOMAIN runs} \cup s.failed

Refreshed == [loaded |-> TRUE, state |-> State, threads |-> Derived(State), items |-> nodes]

\* Whoever listens is sent the threads that changed: the room's threads are
\* those its listeners have.
Refresh == room' = Refreshed

-----------------------------------------------------------------------------
(* Messages: the mutex is taken, the threads are refreshed, and the message  *)
(* is weighed against them.  An error, and an answer given before, end the   *)
(* handler; whatever else happens, the threads are refreshed at its end.     *)

Used == {x.id : x \in Derived(State)}
Fresh == Cardinality(Used) + 1

Named(t) == {x \in Refreshed.threads : x.id = t}
Executed(t) == {x \in Named(t) : x.run # 0}

Message ==
  /\ job = Idle /\ Counted("message", MaxMessages)
  /\ Refresh
  /\ UNCHANGED <<runs, nodes, file, listening, history>>

Dispatch(t, n, p, a) ==
  /\ Message
  /\ job' = [Idle EXCEPT !.at = "launch",
       !.todo = <<[thread |-> t, node |-> n, parent |-> p, agent |-> a]>>]

Answer(t, q) ==
  /\ Message
  /\ job' = IF /\ q \notin State.answers
               /\ \E x \in Executed(t) : x.question = q
            THEN [Idle EXCEPT !.at = "control", !.do = "answer", !.about = q,
                              !.run = (CHOOSE x \in Executed(t) : TRUE).run]
            ELSE Idle

Bid(t, do) ==
  /\ Message
  /\ job' = IF Executed(t) = {} THEN Idle
            ELSE [Idle EXCEPT !.at = "control", !.do = do,
                              !.run = (CHOOSE x \in Executed(t) : TRUE).run]
Steer(t) == Bid(t, "prompt")
Cancel(t) == Bid(t, "cancel")

\* One suggestion of a thread is accepted or rejected: a bullet that delegates
\* to an agent.
Resolve(t, n, do) ==
  /\ Message
  /\ \E x \in Executed(t) :
       /\ n \in x.offers
       /\ job' = [Idle EXCEPT !.at = "review", !.do = do, !.run = x.run, !.about = n]

-----------------------------------------------------------------------------
(* The steps of a handler *)

Step(at) == job.at = at
Go(at) == job' = [job EXCEPT !.at = at]
Fail == job' = Idle

Review ==
  /\ Step("review")
  /\ \/ Fail /\ UNCHANGED <<runs, nodes>>
     \/ /\ job.about \in runs[job.run].offers
        /\ runs' = [runs EXCEPT ![job.run].offers = @ \ {job.about}]
        /\ nodes' = IF job.do = "accept" THEN nodes \cup {job.about} ELSE nodes
        /\ Go("reviewed")
  /\ UNCHANGED <<file, room, listening, history, count>>

\* The accepted bullet's agent is dispatched to it, under a random thread id.
Reviewed ==
  /\ Step("reviewed")
  /\ Refresh
  /\ \/ /\ job.do = "accept"
        /\ \E a \in Agent :
             job' = [job EXCEPT !.at = "launch",
                       !.todo = <<[thread |-> Fresh, node |-> job.about,
                                   parent |-> runs[job.run].thread, agent |-> a]>>]
     \/ job.do = "reject" /\ Go("refresh")
  /\ UNCHANGED <<runs, nodes, file, listening, history, count>>

\* Mutant: an agent that is being set up is not at work yet.
AtWorkOnceRunning == {"Working", "NeedsInput"}

AtWork == {"Working", "NeedsInput", "Provisioning"}

\* Delegation ends at the third level: the parent's parent has a parent.
ParentOf(t) ==
  IF \E x \in room.threads : x.id = t
  THEN (CHOOSE x \in room.threads : x.id = t).parent ELSE NoThread
TooDeep(p) == ParentOf(ParentOf(p)) # NoThread

FailedThread(d) ==
  [id |-> d.thread, node |-> d.node, parent |-> d.parent, run |-> 0,
   status |-> "Failed", question |-> NoRequest, offers |-> {}]

NewRun(d, by) ==
  [thread |-> d.thread, node |-> d.node, parent |-> d.parent, by |-> by,
   log |-> Fold(FreshRun, [kind |-> "starting", requests |-> {}]),
   failed |-> FALSE, turn |-> TRUE, prompted |-> FALSE, idle |-> FALSE, cancelled |-> FALSE,
   offers |-> {}]

Remember(s) ==
  /\ room' = [room EXCEPT !.state = s]
  /\ file' = s

Launch ==
  LET d == Head(job.todo)
      known == \E x \in room.threads : x.id = d.thread
      unavailable == d.agent \notin Installed \/ TooDeep(d.parent)
      taken == \E x \in room.threads : x.node = d.node /\ x.status \in AtWork
  IN  /\ Step("launch")
      /\ \/ known /\ Go("refresh") /\ UNCHANGED <<runs, room, file>>
         \/ ~known /\ d.node \notin room.items /\ Fail
            /\ UNCHANGED <<runs, room, file>>
         \/ /\ ~known /\ d.node \in room.items
            /\ unavailable
            /\ Remember([room.state EXCEPT !.failed = @ \cup {FailedThread(d)}])
            /\ Go("refresh") /\ UNCHANGED runs
         \/ /\ ~known /\ d.node \in room.items /\ ~unavailable
            /\ \/ taken /\ Go("refresh") /\ UNCHANGED runs
               \/ ~taken /\ Fail /\ UNCHANGED runs
               \/ /\ ~taken /\ Len(runs) < MaxRuns
                  /\ runs' = Append(runs, NewRun(d, "room"))
                  /\ job' = [job EXCEPT !.at = "start", !.run = Len(runs) + 1]
            /\ UNCHANGED <<room, file>>
      /\ UNCHANGED <<nodes, listening, history, count>>

Event(kind, requests) == [kind |-> kind, requests |-> requests]
Records(k, e) == runs' = [runs EXCEPT ![k].log = Fold(@, e)]
Ended(k) == [runs EXCEPT ![k].log = Fold(@, Event("failed", {})), ![k].failed = TRUE,
                           ![k].turn = FALSE]

\* The rest of runs.start, or its failure, which it records.
Start ==
  LET k == job.run
  IN  /\ Step("start")
      /\ \/ runs[k].log.status # "ended"
            /\ Records(k, Event("started", {})) /\ Go("refresh")
         \/ runs[k].log.status # "ended" /\ runs' = Ended(k) /\ Fail
         \/ runs[k].log.status = "ended" /\ Fail /\ UNCHANGED runs
      /\ UNCHANGED <<nodes, file, room, listening, history, count>>

Running(k) == runs[k].log.status = "running"

\* runs.control: a request must still be pending; an ended session that can be
\* loaded is resumed by a prompt, and by the answer to one of its requests.
Response(k, q) ==
  IF q \in DOMAIN runs[k].log.pending THEN runs[k].log.pending[q] ELSE "none"
Allowed(k, q) ==
  /\ job.do = "answer" => Response(k, q) \in {"live", "message"}
  /\ \/ Running(k)
     \/ runs[k].log.loadable /\ (job.do = "prompt" \/ Response(k, q) = "message")

\* A prompt is for one more turn, if the run has or had one or is prompted already.
HadATurn(k) == runs[k].turn \/ runs[k].idle \/ runs[k].prompted
SteeredIf(cond) == steered' = IF cond THEN steered \cup {job.run} ELSE steered

\* The run is weighed as it is now; if it has ended, its session is to be loaded.
Control ==
  LET k == job.run
      q == job.about
  IN  /\ Step("control")
      /\ \/ /\ Allowed(k, q) /\ Running(k)
            /\ Go(IF job.do = "answer" /\ Response(k, q) = "message" THEN "followUp" ELSE "pass")
            /\ UNCHANGED <<runs, steered>>
         \/ /\ Allowed(k, q) /\ ~Running(k)
            /\ Records(k, Event("resuming", DOMAIN runs[k].log.pending))
            /\ SteeredIf(job.do = "prompt")
            /\ Go("resume")
         \/ Fail /\ UNCHANGED <<runs, steered>>
      /\ UNCHANGED <<nodes, file, room, listening, passes, lapses, stopped, count>>

\* The rest of resume; tmux may fail before and after the record, and the run
\* may have been given up meanwhile.
Resume ==
  /\ Step("resume")
  /\ \/ /\ runs[job.run].log.status # "ended"
        /\ Records(job.run, Event("started", {}))
        /\ Go(IF job.do = "answer" THEN "followUp" ELSE "pass") \/ Fail
     \/ Fail /\ UNCHANGED runs
  /\ UNCHANGED <<nodes, file, room, listening, history, count>>

\* The control file is written: the answer or the stop as it is, or a prompt,
\* which is also how a session gets an answer that it does not await.
Written ==
  LET k == job.run
      prompt == job.do = "prompt" \/ job.at = "followUp"
  IN  /\ runs' = [runs EXCEPT ![k].prompted = @ \/ prompt]
      /\ passes' = IF job.do = "answer" THEN [passes EXCEPT ![job.about] = @ + 1] ELSE passes
      /\ stopped' = IF job.do = "cancel" THEN stopped \cup {k} ELSE stopped
      /\ SteeredIf(job.do = "prompt" \/ (job.at = "followUp" /\ HadATurn(k)))
AfterPassing ==
  Go(IF job.at = "followUp" THEN "resolve" ELSE IF job.do = "prompt" THEN "refresh" ELSE "mark")

\* Mutant: the room goes on when the file could not be written.
PassOnOrNot ==
  /\ job.at \in {"pass", "followUp"}
  /\ AfterPassing
  /\ Written \/ UNCHANGED <<runs, passes, stopped, steered>>
  /\ UNCHANGED <<nodes, file, room, listening, lapses, count>>

PassOn ==
  /\ job.at \in {"pass", "followUp"}
  /\ \/ Written /\ AfterPassing
     \/ Fail /\ UNCHANGED <<runs, passes, stopped, steered>>
  /\ UNCHANGED <<nodes, file, room, listening, lapses, count>>

\* An answer was passed on, and the room comes to an end before it remembers it.
Forgets ==
  lapses' = IF job.at \in {"resolve", "mark"} /\ job.do = "answer"
            THEN [lapses EXCEPT ![job.about] = @ + 1] ELSE lapses

\* An answer given as a prompt is recorded as well, after the file is out: the
\* log refuses it when the run has ended meanwhile, or is not to be had, and may
\* fail when it has it.
RecordAnswer ==
  /\ Step("resolve")
  /\ \/ /\ runs[job.run].log.status # "ended"
        /\ Records(job.run, Event("resolved", {job.about}))
        /\ \/ Go("mark") /\ UNCHANGED lapses
           \/ Fail /\ Forgets
     \/ Fail /\ Forgets /\ UNCHANGED runs
  /\ UNCHANGED <<nodes, file, room, listening, passes, stopped, steered, count>>

\* Mutant: the answer is not remembered, since the log will have it.
MarkStops ==
  /\ Step("mark")
  /\ Remember(IF job.do = "cancel"
              THEN [room.state EXCEPT !.cancelled = @ \cup {job.run}] ELSE room.state)
  /\ Go("refresh")
  /\ UNCHANGED <<runs, nodes, listening, history, count>>

\* What was passed on is remembered, in memory and in the file.
Mark ==
  /\ Step("mark")
  /\ Remember(IF job.do = "cancel"
              THEN [room.state EXCEPT !.cancelled = @ \cup {job.run}]
              ELSE [room.state EXCEPT !.answers = @ \cup {job.about}])
  /\ Go("refresh")
  /\ UNCHANGED <<runs, nodes, listening, history, count>>

Finish ==
  /\ Step("refresh")
  /\ Refresh /\ job' = Idle
  /\ UNCHANGED <<runs, nodes, file, listening, history, count>>

Handle ==
  \/ Review \/ Reviewed \/ Launch \/ Start
  \/ Control \/ Resume \/ PassOn \/ RecordAnswer \/ Mark \/ Finish

\* Every 300 ms, while somebody listens.
Stale == listening /\ job = Idle /\ room # Refreshed
Tick ==
  /\ Stale
  /\ Refresh
  /\ UNCHANGED <<runs, nodes, file, job, listening, history, count>>

Connect ==
  /\ ~listening /\ job = Idle
  /\ listening' = TRUE
  /\ Refresh
  /\ UNCHANGED <<runs, nodes, file, job, history, count>>

\* The server dies and starts again.
Crash ==
  /\ Counted("crash", MaxCrashes)
  /\ room' = NoRoom /\ job' = Idle /\ listening' = FALSE /\ Forgets
  /\ UNCHANGED <<runs, nodes, file, passes, stopped, steered>>

-----------------------------------------------------------------------------
(* The agents and other processes *)

SavesSession(k) ==
  /\ Running(k) /\ ~runs[k].log.loadable
  /\ Records(k, Event("session", {}))
  /\ UNCHANGED count

Asks(k, q) ==
  /\ Running(k) /\ runs[k].turn /\ passes[q] = 0
  /\ \A m \in DOMAIN runs : q \notin DOMAIN runs[m].log.pending
  /\ Counted("other", MaxOthers)
  /\ Records(k, Event("asked", {q}))

\* An answer of the room reaches the agent, or the CLI has given one.
IsAnswered(k, q) ==
  /\ Running(k) /\ Response(k, q) = "live"
  /\ IF passes[q] > 0 THEN UNCHANGED count ELSE Counted("other", MaxOthers)
  /\ Records(k, Event("resolved", {q}))

EndsTurn(k) ==
  /\ Running(k) /\ runs[k].turn
  /\ \A q \in Request : Response(k, q) # "live"
  /\ runs' = [runs EXCEPT ![k].turn = FALSE, ![k].idle = TRUE]
  /\ UNCHANGED count

BeginsTurn(k) ==
  /\ Running(k) /\ ~runs[k].turn /\ runs[k].prompted
  /\ runs' = [runs EXCEPT ![k].turn = TRUE, ![k].idle = FALSE,
                          ![k].prompted = FALSE]
  /\ UNCHANGED count

Stops(k) ==
  /\ Running(k) /\ k \in stopped /\ ~runs[k].cancelled
  /\ runs' = [runs EXCEPT ![k].cancelled = TRUE, ![k].turn = FALSE,
                          ![k].log = Fold(@, Event("cancelled", {}))]
  /\ UNCHANGED count

\* A session ends, well or not; a start that takes too long is given up, also by
\* the list of another process.
Ends(k) ==
  /\ runs[k].log.status \in {"starting", "running"}
  /\ Counted("other", MaxOthers)
  /\ \/ runs' = Ended(k)
     \/ /\ Running(k)
        /\ runs' = [runs EXCEPT ![k].log = Fold(@, Event("finished", {})), ![k].turn = FALSE]

Offers(k, n) ==
  /\ Running(k) /\ n \notin nodes
  /\ \A m \in DOMAIN runs : n \notin runs[m].offers
  /\ Counted("other", MaxOthers)
  /\ runs' = [runs EXCEPT ![k].offers = @ \cup {n}]

\* The CLI starts an agent on a bullet, without asking the room.
OtherStarts(n) ==
  /\ n \in nodes /\ Len(runs) < MaxRuns
  /\ Counted("other", MaxOthers)
  /\ runs' = Append(runs, NewRun([thread |-> Fresh, node |-> n, parent |-> NoThread], "other"))

OtherStarted(k) ==
  /\ runs[k].by = "other" /\ runs[k].log.status = "starting"
  /\ Records(k, Event("started", {}))
  /\ UNCHANGED count

Deletes(n) ==
  /\ n \in nodes /\ Counted("other", MaxOthers)
  /\ nodes' = nodes \ {n}
  /\ UNCHANGED <<runs, file, room, job, listening, history>>

Run(k) ==
  \/ SavesSession(k) \/ EndsTurn(k) \/ BeginsTurn(k) \/ Stops(k) \/ Ends(k)
  \/ OtherStarted(k)
  \/ \E q \in Request : Asks(k, q) \/ IsAnswered(k, q)
  \/ \E n \in Node : Offers(k, n)

Next ==
  \/ \E t \in Used \cup {Fresh}, n \in Node, p \in Parents, a \in Agent :
       Dispatch(t, n, p, a)
  \/ \E t \in Used :
       \/ \E q \in Request : Answer(t, q)
       \/ Steer(t) \/ Cancel(t)
       \/ \E n \in Node, do \in {"accept", "reject"} : Resolve(t, n, do)
  \/ Handle \/ Tick \/ Connect \/ Crash
  \/ (\E k \in DOMAIN runs : Run(k)) /\ UNCHANGED world
  \/ (\E n \in Node : OtherStarts(n)) /\ UNCHANGED world
  \/ \E n \in Node : Deletes(n)

\* Handlers go on (they await I/O), the tick ticks, and a tab connects again.
Fairness ==
  /\ []<>(job = Idle) \/ []<><<Handle>>_vars
  /\ []<>~Stale \/ []<><<Tick>>_vars
  /\ []<>~(~listening /\ job = Idle) \/ []<><<Connect>>_vars

Spec == Init /\ [][Next]_vars /\ Fairness

-----------------------------------------------------------------------------
(* Properties *)

\* A bullet has at most one agent of the room at work, whether it is still
\* being set up, waits for the user or was left by a server that died.  (Those
\* told to stop, those prompted for one more turn - by a steer, which may also
\* load the session and then fail, or an answer that becomes a prompt - and
\* those other processes start do not count: the room cannot see them work.)
Busy(k) ==
  /\ runs[k].by = "room" /\ k \notin stopped \cup steered
  /\ runs[k].log.status \in {"starting", "running"} /\ ~runs[k].idle
OneWorkerPerNode ==
  \A k, m \in DOMAIN runs :
    Busy(k) /\ Busy(m) /\ runs[k].node = runs[m].node => k = m

\* A question is hidden, and a thread shown as cancelled by the user, only if
\* the answer or the stop was really passed on to the run; also after an error
\* and after a restart.
HiddenWasPassedOn ==
  \A s \in {file, room.state} :
    /\ \A q \in s.answers : passes[q] > 0
    /\ s.cancelled \subseteq stopped

\* However many tabs answer a question, and whatever becomes of its session, the
\* room passes on one answer; one more only for each time it passed on one and
\* then died, or could not record it, before it remembered it.
PassedOnce == \A q \in Request : passes[q] <= 1 + lapses[q]

\* A question somebody has to answer comes up in the threads of those who are
\* connected, also when its session has ended meanwhile, unless it was
\* answered or its run stopped.
Open(k, q) ==
  /\ k \in DOMAIN runs
  /\ q \in DOMAIN runs[k].log.pending /\ q \notin State.answers /\ ~Cancelled(k, State)
QuestionsAreShown ==
  \A k \in 1..MaxRuns, q \in Request :
    Open(k, q) ~> \/ ~Open(k, q)
                  \/ listening /\ \E x \in room.threads : x.run = k /\ x.status = "NeedsInput"
=============================================================================
