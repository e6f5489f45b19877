------------------------------ MODULE RunEvents ------------------------------
(***************************************************************************)
(* The execution log of the agent runs as data, and what projectRuns       *)
(* (RunEventLog.ts) makes of it: the fold itself (ProjectRuns), and what   *)
(* it computes (Projection), which is what the properties and the proofs   *)
(* use: a run's status is set by its latest lifecycle event, a request is  *)
(* pending when the latest event about it put it there.                    *)
(***************************************************************************)
EXTENDS Naturals, RunProjection

CONSTANTS
  EventId,   \* event ids
  Runs       \* run ids

\* The run that start() makes has no requests yet.
Event ==
  {e \in [id : EventId, run : Runs, kind : Kinds, requests : SUBSET Request] :
     e.kind = "starting" => e.requests = {}}

EventsOf(log, run) == {i \in DOMAIN log : log[i].run = run}

Known(log, run) == \E i \in EventsOf(log, run) : Restarts(log[i])

\* The status is "finished" or "failed": an ending, and no beginning since.
Ended(log, run) ==
  \E i \in EventsOf(log, run) :
    /\ log[i].kind \in Endings
    /\ \A j \in EventsOf(log, run) : j > i => log[j].kind \notin Beginnings

Starting(log, run) ==
  \E i \in EventsOf(log, run) :
    /\ Restarts(log[i])
    /\ \A j \in EventsOf(log, run) :
         j > i => log[j].kind \notin Endings \cup Beginnings

Status(log, run) ==
  CASE ~Known(log, run) -> "unknown"
    [] Known(log, run) /\ Ended(log, run) -> "ended"
    [] Starting(log, run) -> "starting"
    [] OTHER -> "running"

Asks(e, q) == e.kind \in {"asked", "resuming"} /\ q \in e.requests

\* Mutant: stopping the session leaves its requests pending.
ClearsNotCancelled(e, q) ==
  \/ e.kind = "resolved" /\ q \in e.requests
  \/ Restarts(e) /\ q \notin e.requests

Clears(e, q) ==
  \/ e.kind = "resolved" /\ q \in e.requests
  \/ e.kind = "cancelled"
  \/ Restarts(e) /\ q \notin e.requests

Pending(log, run) ==
  {q \in Request :
     \E i \in EventsOf(log, run) :
       /\ Asks(log[i], q)
       /\ \A j \in EventsOf(log, run) : j > i => ~Clears(log[j], q)}

\* loadSession of the agent the run talks to.
Loadable(log, run) ==
  \E i \in EventsOf(log, run) :
    /\ log[i].kind \in {"session", "resuming"}
    /\ \A j \in EventsOf(log, run) : j > i => log[j].kind # "starting"

\* How a pending request may be answered: to the agent that asked, as a
\* message to the session when it is loaded again, or not at all any more.
Response(log, run, q) ==
  LET Touches(i) == Asks(log[i], q) \/ log[i].kind \in Endings
      latest == CHOOSE i \in EventsOf(log, run) :
                  /\ Touches(i)
                  /\ \A j \in EventsOf(log, run) : j > i => ~Touches(j)
  IN  CASE log[latest].kind = "asked"    -> "live"
        [] log[latest].kind = "resuming" -> "message"
        [] OTHER -> IF Loadable(SubSeq(log, 1, latest), run)
                    THEN "message" ELSE "expired"

\* The run as projectRuns returns it and as runs/<id>/state.json holds it.
Projection(log, run) ==
  [status |-> Status(log, run),
   pending |-> [q \in Pending(log, run) |-> Response(log, run, q)]]

ProjectRuns(log) ==
  FoldLeft(LAMBDA runs, e : [runs EXCEPT ![e.run] = Fold(@, e)],
           [r \in Runs |-> FreshRun], log)

\* No event is in the log twice, however often its append is retried.
OnceEach(log) == \A i, j \in DOMAIN log : log[i].id = log[j].id => i = j

\* A run that has ended stays closed, to its own late events and to a second
\* verdict, until it is started again.
Closed(log) ==
  \A i, j \in DOMAIN log :
    /\ i < j /\ log[i].run = log[j].run /\ log[i].kind \in Endings
    => \E k \in (i+1)..j : log[k].run = log[i].run /\ Restarts(log[k])

\* Mutant: the append does not look for the id.
AcceptsTwice(log, e) ==
  /\ Ended(log, e.run) => Restarts(e)
  /\ Known(Append(log, e), e.run)

\* What the append lets into the log.
Acceptable(log, e) ==
  /\ \A i \in DOMAIN log : log[i].id # e.id
  /\ Ended(log, e.run) => Restarts(e)
  /\ Known(Append(log, e), e.run)
=============================================================================
