------------------------------- MODULE RunLog -------------------------------
(***************************************************************************)
(* RunEventLog.append: one event at a time, under the writer lock, into    *)
(* .threadvm/events.jsonl, then the run's state.json.  A process may die   *)
(* at any of its file operations.  The lock is taken as exclusive (module  *)
(* WriterLock says when it is), and a dead holder's lock as broken.        *)
(*                                                                         *)
(*   idle -> waiting -> (truncating -> rewriting ->) appending             *)
(*                  |                      -> checkpointing -> idle        *)
(*                  `-> idle: known, dropped or refused                    *)
(***************************************************************************)
EXTENDS RunEvents

CONSTANTS
  Process,      \* callers of append: the server, the CLI, `threadvm observe`
  NoProcess,
  NoEvent,
  Offered,      \* bound: the events callers come up with, ids left open
  CrashPoints,  \* bound: the steps of an append at which a process may die
  MaxCrashes    \* bound: how many do

ASSUME NoneAssumption == NoProcess \notin Process /\ NoEvent \notin Event
ASSUME BoundAssumption == MaxCrashes \in Nat /\ EventId \subseteq Nat

Named(o, i) == [id |-> i, run |-> o.run, kind |-> o.kind, requests |-> o.requests]

ASSUME OfferedAssumption ==
  \A o \in Offered, i \in EventId : Named(o, i) \in Event

VARIABLES
  lines,    \* the complete lines of events.jsonl
  torn,     \* whether an unterminated line follows them
  state,    \* runs/<id>/state.json, by run; an unknown run has none
  holder,   \* who has the writer lock
  pc,       \* where each process is
  event,    \* the event each process appends
  text,     \* the complete lines each process read
  sent,     \* history: the event each id was last used for
  answer,   \* history: what the append of each id was told last
  crashes

vars == <<lines, torn, state, holder, pc, event, text, sent, answer, crashes>>
files == <<lines, torn, state>>

Writing == {"truncating", "rewriting", "appending", "checkpointing"}

TypeOK ==
  /\ lines \in Seq(Event) /\ torn \in BOOLEAN
  /\ DOMAIN state = Runs
  /\ holder \in Process \cup {NoProcess}
  /\ pc \in [Process -> {"idle", "waiting"} \cup Writing]
  /\ \A p \in Process : pc[p] \in Writing <=> holder = p
  /\ event \in [Process -> Event \cup {NoEvent}]
  /\ text \in [Process -> Seq(Event)]
  /\ sent \in [EventId -> Event \cup {NoEvent}]
  /\ answer \in [EventId -> {"none", "written", "known", "dropped", "refused"}]
  /\ crashes \in 0..MaxCrashes

Init ==
  /\ lines = <<>> /\ torn = FALSE
  /\ state = [r \in Runs |-> Projection(<<>>, r)]
  /\ holder = NoProcess
  /\ pc = [p \in Process |-> "idle"]
  /\ event = [p \in Process |-> NoEvent]
  /\ text = [p \in Process |-> <<>>]
  /\ sent = [i \in EventId |-> NoEvent]
  /\ answer = [i \in EventId |-> "none"]
  /\ crashes = 0

-----------------------------------------------------------------------------
(* The callers *)

\* A new event under a new id (ids have no order: which is next is no matter);
\* start() makes a new run id too.
Call(p, e) ==
  /\ pc[p] = "idle"
  /\ sent[e.id] = NoEvent
  /\ \A i \in EventId : i < e.id => sent[i] # NoEvent
  /\ e.kind = "starting" =>
       \A i \in EventId : sent[i] # NoEvent => sent[i].run # e.run
  /\ sent' = [sent EXCEPT ![e.id] = e]
  /\ event' = [event EXCEPT ![p] = e]
  /\ pc' = [pc EXCEPT ![p] = "waiting"]
  /\ UNCHANGED <<files, holder, text, answer, crashes>>

\* An append whose caller never heard of it is called again.
CallAgain(p, e) ==
  /\ pc[p] = "idle"
  /\ answer[e.id] = "none"
  /\ \A o \in Process : event[o] # e
  /\ event' = [event EXCEPT ![p] = e]
  /\ pc' = [pc EXCEPT ![p] = "waiting"]
  /\ UNCHANGED <<files, holder, text, sent, answer, crashes>>

-----------------------------------------------------------------------------
(* The append, one action per file operation *)

Verdict(log, e) ==
  LET new == \A i \in DOMAIN log : log[i].id # e.id
  IN  CASE Acceptable(log, e) -> "written"
        [] ~new -> "known"
        [] new /\ Ended(log, e.run) /\ e.kind \in Endings -> "dropped"
        [] OTHER -> "refused"

\* Mutant: the log is read before the lock is taken.
AdmitUnlocked(p) ==
  /\ pc[p] = "waiting"
  /\ IF Acceptable(lines, event[p])
     THEN /\ text' = [text EXCEPT ![p] = lines]
          /\ pc' = [pc EXCEPT ![p] = IF torn THEN "truncating" ELSE "appending"]
          /\ UNCHANGED <<event, answer>>
     ELSE /\ pc' = [pc EXCEPT ![p] = "idle"]
          /\ event' = [event EXCEPT ![p] = NoEvent]
          /\ answer' = [answer EXCEPT ![event[p].id] = Verdict(lines, event[p])]
          /\ UNCHANGED text
  /\ UNCHANGED <<files, holder, sent, crashes>>

\* Mutant: the torn tail is not looked for.
AdmitWithoutRepair(p) ==
  /\ pc[p] = "waiting" /\ holder = NoProcess
  /\ IF Acceptable(lines, event[p])
     THEN /\ text' = [text EXCEPT ![p] = lines]
          /\ holder' = p
          /\ pc' = [pc EXCEPT ![p] = "appending"]
          /\ UNCHANGED <<event, answer>>
     ELSE /\ pc' = [pc EXCEPT ![p] = "idle"]
          /\ event' = [event EXCEPT ![p] = NoEvent]
          /\ answer' = [answer EXCEPT ![event[p].id] = Verdict(lines, event[p])]
          /\ UNCHANGED <<holder, text>>
  /\ UNCHANGED <<files, sent, crashes>>

\* Mutant: state.json is written first, with the event that is to come.
AdmitCheckpointFirst(p) ==
  /\ pc[p] = "waiting" /\ holder = NoProcess
  /\ IF Acceptable(lines, event[p])
     THEN /\ text' = [text EXCEPT ![p] = lines]
          /\ holder' = p
          /\ pc' = [pc EXCEPT ![p] = IF torn THEN "truncating" ELSE "appending"]
          /\ state' = [state EXCEPT ![event[p].run] =
                         Projection(Append(lines, event[p]), event[p].run)]
          /\ UNCHANGED <<event, answer>>
     ELSE /\ pc' = [pc EXCEPT ![p] = "idle"]
          /\ event' = [event EXCEPT ![p] = NoEvent]
          /\ answer' = [answer EXCEPT ![event[p].id] = Verdict(lines, event[p])]
          /\ UNCHANGED <<holder, text, state>>
  /\ UNCHANGED <<lines, torn, sent, crashes>>

\* Under the lock: read the file, leave its torn tail out, decide.
Admit(p) ==
  /\ pc[p] = "waiting" /\ holder = NoProcess
  /\ IF Acceptable(lines, event[p])
     THEN /\ text' = [text EXCEPT ![p] = lines]
          /\ holder' = p
          /\ pc' = [pc EXCEPT ![p] = IF torn THEN "truncating" ELSE "appending"]
          /\ UNCHANGED <<event, answer>>
     ELSE /\ pc' = [pc EXCEPT ![p] = "idle"]
          /\ event' = [event EXCEPT ![p] = NoEvent]
          /\ answer' = [answer EXCEPT ![event[p].id] = Verdict(lines, event[p])]
          /\ UNCHANGED <<holder, text>>
  /\ UNCHANGED <<files, sent, crashes>>

\* writeFile empties the file when it opens it, and then writes it again.
Truncate(p) ==
  /\ pc[p] = "truncating"
  /\ lines' = <<>> /\ torn' = FALSE
  /\ pc' = [pc EXCEPT ![p] = "rewriting"]
  /\ UNCHANGED <<state, holder, event, text, sent, answer, crashes>>

\* Mutant: the last newline is cut off with the tail.
RewriteShort(p) ==
  /\ pc[p] = "rewriting"
  /\ lines' = IF text[p] = <<>> THEN <<>> ELSE Front(text[p])
  /\ torn' = (text[p] # <<>>)
  /\ pc' = [pc EXCEPT ![p] = "appending"]
  /\ UNCHANGED <<state, holder, event, text, sent, answer, crashes>>

Rewrite(p) ==
  /\ pc[p] = "rewriting"
  /\ lines' = text[p]
  /\ pc' = [pc EXCEPT ![p] = "appending"]
  /\ UNCHANGED <<torn, state, holder, event, text, sent, answer, crashes>>

\* A line that continues a torn tail is lost in it.
AppendLine(p) ==
  /\ pc[p] = "appending"
  /\ lines' = IF torn THEN lines ELSE Append(lines, event[p])
  /\ torn' = FALSE
  /\ pc' = [pc EXCEPT ![p] = "checkpointing"]
  /\ UNCHANGED <<state, holder, event, text, sent, answer, crashes>>

\* atomicWrite: a temporary file and a rename.
Checkpoint(p) ==
  /\ pc[p] = "checkpointing"
  /\ state' = [state EXCEPT ![event[p].run] =
                 Projection(Append(text[p], event[p]), event[p].run)]
  /\ holder' = NoProcess
  /\ pc' = [pc EXCEPT ![p] = "idle"]
  /\ event' = [event EXCEPT ![p] = NoEvent]
  /\ text' = [text EXCEPT ![p] = <<>>]
  /\ answer' = [answer EXCEPT ![event[p].id] = "written"]
  /\ UNCHANGED <<lines, torn, sent, crashes>>

\* A write cut short leaves a first part of what it was to write.
Crash(p) ==
  /\ crashes < MaxCrashes
  /\ pc[p] \in CrashPoints
  /\ \/ pc[p] \notin {"rewriting", "appending"} /\ UNCHANGED <<lines, torn>>
     \/ pc[p] = "appending" /\ lines' = lines /\ torn' \in BOOLEAN
     \/ pc[p] = "rewriting" /\ torn' \in BOOLEAN
        /\ \E n \in 0..Len(text[p]) : lines' = SubSeq(text[p], 1, n)
  /\ holder' = IF holder = p THEN NoProcess ELSE holder
  /\ pc' = [pc EXCEPT ![p] = "idle"]
  /\ event' = [event EXCEPT ![p] = NoEvent]
  /\ text' = [text EXCEPT ![p] = <<>>]
  /\ crashes' = crashes + 1
  /\ UNCHANGED <<state, sent, answer>>

Next ==
  \E p \in Process :
    \/ \E o \in Offered, i \in EventId : Call(p, Named(o, i))
    \/ \E i \in EventId : sent[i] # NoEvent /\ CallAgain(p, sent[i])
    \/ Admit(p) \/ Truncate(p) \/ Rewrite(p) \/ AppendLine(p) \/ Checkpoint(p)
    \/ Crash(p)

Spec == Init /\ [][Next]_vars

-----------------------------------------------------------------------------
(* Properties *)

\* The log as whoever rewrites it will leave it.
Settled ==
  IF \E p \in Process : pc[p] = "rewriting"
  THEN text[CHOOSE p \in Process : pc[p] = "rewriting"]
  ELSE lines

Answered == {i \in EventId : answer[i] \in {"written", "known"}}
Logs(log, id) == \E k \in DOMAIN log : log[k].id = id

\* An event whose append was answered is in the log for good, whatever dies
\* afterwards and whatever tail is repaired.
AckedIsKept == \A i \in Answered : Logs(Settled, i)

\* A run's state.json is what the run once was, never what it may become;
\* and it is not older than the run's last append that was answered.
CheckpointIsPast ==
  \A r \in Runs :
    \E n \in 0..Len(Settled) :
      /\ state[r] = Projection(SubSeq(Settled, 1, n), r)
      /\ \A k \in EventsOf(Settled, r) :
           answer[Settled[k].id] = "written" => k <= n

\* projectRuns, event by event, comes to what the latest event about the run
\* and about each of its requests says.
ProjectionIsLatest ==
  \A r \in Runs :
    LET run == ProjectRuns(lines)[r]
    IN  [status |-> run.status, pending |-> run.pending] = Projection(lines, r)

\* No event is in the log twice, however its append was cut short and
\* called again, and whoever wrote in between.
LoggedOnce == OnceEach(Settled)

\* Two observers of the same end (the runner, the worker, the reconciler)
\* leave one verdict, and nothing follows it but a new start.
EndedIsClosed == Closed(Settled)

\* Writers, crashes and repairs together are an append-only log.
History == INSTANCE RunHistory WITH log <- Settled
AppendOnly == History!Spec
=============================================================================
