-------------------------- MODULE OutlineRoomProofs --------------------------
(***************************************************************************)
(* What the room hides was passed on, and it passes on one answer to a     *)
(* question, and one more for each that it failed to remember: for any     *)
(* runs, agents, messages, errors and crashes.                             *)
(*                                                                         *)
(* The room's memory never differs from its file, since a handler writes   *)
(* the file before it lets the mutex go.  So a question has been answered  *)
(* once more than the room lapsed only while the room remembers the        *)
(* answer, or is about to; and a handler that is to pass on an answer has  *)
(* seen that the room does not.                                            *)
(***************************************************************************)
EXTENDS OutlineRoom, TLAPS

Kinds3 == {"message", "other", "crash"}

\* The records have these fields, whatever is in them.
Shapes ==
  /\ room = [loaded |-> room.loaded, state |-> room.state,
             threads |-> room.threads, items |-> room.items]
  /\ file = [answers |-> file.answers, cancelled |-> file.cancelled,
             failed |-> file.failed]
  /\ job = [at |-> job.at, do |-> job.do, run |-> job.run, about |-> job.about,
            todo |-> job.todo]

\* Memory and file agree, and a handler at work has read the file.
MemoryIsFile ==
  /\ room.loaded \in BOOLEAN
  /\ room.loaded => room.state = file
  /\ ~room.loaded => room.state = NoState
  /\ job.at # "idle" => room.loaded

Numbers ==
  /\ count \in [Kinds3 -> Nat]
  /\ passes \in [Request -> Nat] /\ lapses \in [Request -> Nat]
  /\ file.answers \subseteq Request

\* What a handler knows that passes something on, or has done so.
Passing == {"control", "resume", "pass", "followUp"}
Passed == {"resolve", "mark"}

HandlerKnows ==
  /\ job.at \in Passing =>
       \/ job.do = "answer" /\ job.about \in Request \ file.answers
       \/ /\ job.do \in {"prompt", "cancel"} /\ job.about \notin Request
          /\ job.at # "followUp"
  /\ job.at = "resolve" => job.do = "answer"
  /\ job.at \in Passed =>
       \/ job.do = "answer" /\ job.about \in Request
       \/ job.do = "cancel" /\ job.run \in stopped

Remembered(q) ==
  q \in file.answers \/ (job.at \in Passed /\ job.do = "answer" /\ job.about = q)

PassesAreRemembered ==
  \A q \in Request :
    /\ Remembered(q) => passes[q] > 0 /\ passes[q] <= 1 + lapses[q]
    /\ ~Remembered(q) => passes[q] <= lapses[q]

IInv ==
  /\ Shapes /\ MemoryIsFile /\ Numbers /\ HandlerKnows /\ PassesAreRemembered
  /\ file.cancelled \subseteq stopped

\* These only name tuples and sets of labels.
USE DEF history, Passing, Passed

-----------------------------------------------------------------------------
LEMMA InitHolds == Init => IInv
  BY FileAssumption, RoomAssumption
  DEF Init, IInv, Shapes, MemoryIsFile, Numbers, HandlerKnows, PassesAreRemembered,
      Remembered, Idle, NoRoom, NoState, Kinds3

\* A step that passes nothing on and remembers no answer and no stop.
Counts ==
  \/ UNCHANGED count
  \/ \E kind \in {"message", "other"} : count' = [count EXCEPT ![kind] = @ + 1]

Quiet ==
  /\ Shapes' /\ MemoryIsFile'
  /\ UNCHANGED <<passes, lapses, stopped>> /\ Counts
  /\ file'.answers = file.answers /\ file'.cancelled = file.cancelled
  /\ \/ UNCHANGED job
     \/ job.at \notin Passed /\ job'.at \notin Passing \cup Passed

LEMMA QuietKeeps == IInv /\ Quiet => IInv'
  BY DEF IInv, Quiet, Counts, Numbers, HandlerKnows, PassesAreRemembered, Remembered,
         Kinds3

\* A refresh reads the file if it was not read, and changes no more of it.
LEMMA RefreshedMemory ==
  ASSUME IInv, Refresh, UNCHANGED file
  PROVE  /\ room'.loaded = TRUE /\ room'.state = file
         /\ room' = [loaded |-> room'.loaded, state |-> room'.state,
                     threads |-> room'.threads, items |-> room'.items]
  BY DEF IInv, MemoryIsFile, Refresh, Refreshed, State

LEMMA CountedIsNumber ==
  ASSUME NEW kind \in {"message", "other"}, NEW max, Counted(kind, max)
  PROVE  Counts
  BY DEF Counted, Counts

LEMMA StateIsFile == IInv => State = file
  BY DEF IInv, MemoryIsFile, State

-----------------------------------------------------------------------------
(* Messages *)

\* Any message: what it finds, and what it leaves as it is.
LEMMA MessageFinds ==
  ASSUME IInv, Message
  PROVE  /\ job = Idle /\ Counts /\ UNCHANGED <<file, passes, lapses, stopped>>
         /\ room'.loaded = TRUE /\ room'.state = file
         /\ room' = [loaded |-> room'.loaded, state |-> room'.state,
                     threads |-> room'.threads, items |-> room'.items]
  BY RefreshedMemory, CountedIsNumber DEF Message

\* A handler that begins with anything but the passing on of something.
LEMMA OtherMessages ==
  ASSUME IInv, Message, job'.at \notin Passing \cup Passed,
         job' = [at |-> job'.at, do |-> job'.do, run |-> job'.run,
                 about |-> job'.about, todo |-> job'.todo]
  PROVE  IInv'
<1>1. Shapes' /\ MemoryIsFile'
  BY MessageFinds DEF IInv, Shapes, MemoryIsFile
<1>2. Quiet
  BY <1>1, MessageFinds DEF Quiet, Idle
<1> QED BY <1>2, QuietKeeps

\* A handler that is about to pass something on.
LEMMA ControlMessages ==
  ASSUME IInv, Message, job'.at = "control",
         job' = [at |-> job'.at, do |-> job'.do, run |-> job'.run,
                 about |-> job'.about, todo |-> job'.todo],
         \/ job'.do = "answer" /\ job'.about \in Request \ file.answers
         \/ job'.do \in {"prompt", "cancel"} /\ job'.about \notin Request
  PROVE  IInv'
<1>1. Shapes' /\ MemoryIsFile'
  BY MessageFinds DEF IInv, Shapes, MemoryIsFile
<1>2. job = Idle /\ Counts /\ UNCHANGED <<file, passes, lapses, stopped>>
  BY MessageFinds
<1>3. HandlerKnows'
  BY <1>2 DEF HandlerKnows
<1>4. Numbers' /\ count'["crash"] = count["crash"]
  BY <1>2 DEF IInv, Numbers, Counts, Kinds3
<1>5. PassesAreRemembered'
  BY <1>2, <1>4 DEF IInv, PassesAreRemembered, Remembered, Idle
<1> QED BY <1>1, <1>2, <1>3, <1>4, <1>5 DEF IInv

LEMMA AnswerKeeps ==
  ASSUME IInv, NEW t, NEW q \in Request, Answer(t, q)
  PROVE  IInv'
<1>1. Message
  BY DEF Answer
<1>2. CASE job' = Idle
  BY <1>1, <1>2, OtherMessages DEF Idle
<1>3. CASE job' # Idle
  <2>1. q \notin file.answers
    BY <1>3, StateIsFile DEF Answer
  <2>2. job' = [Idle EXCEPT !.at = "control", !.do = "answer", !.about = q,
                            !.run = (CHOOSE x \in Executed(t) : TRUE).run]
    BY <1>3 DEF Answer
  <2> QED BY <1>1, <2>1, <2>2, ControlMessages DEF Idle
<1> QED BY <1>2, <1>3

LEMMA BidKeeps ==
  ASSUME IInv, NEW t, NEW do \in {"prompt", "cancel"}, Bid(t, do)
  PROVE  IInv'
<1>1. Message
  BY DEF Bid
<1>2. CASE job' = Idle
  BY <1>1, <1>2, OtherMessages DEF Idle
<1>3. CASE job' # Idle
  <2>1. job' = [Idle EXCEPT !.at = "control", !.do = do,
                            !.run = (CHOOSE x \in Executed(t) : TRUE).run]
    BY <1>3 DEF Bid
  <2> QED BY <1>1, <2>1, ControlMessages, RoomAssumption DEF Idle
<1> QED BY <1>2, <1>3

LEMMA DispatchKeeps ==
  ASSUME IInv, NEW t, NEW n, NEW p, NEW a, Dispatch(t, n, p, a)
  PROVE  IInv'
  BY OtherMessages DEF Dispatch, Idle

LEMMA ResolveKeeps ==
  ASSUME IInv, NEW t, NEW n, NEW do, Resolve(t, n, do)
  PROVE  IInv'
  BY OtherMessages DEF Resolve, Idle

-----------------------------------------------------------------------------
(* The steps of a handler *)

\* A step that leaves the memory alone and goes on, or gives up.
LEMMA GoingOn ==
  ASSUME IInv, UNCHANGED <<file, room, passes, lapses, stopped>>, Counts,
         job.at \notin Passed \cup {"idle"}, job'.at \notin Passing \cup Passed,
         job' = [at |-> job'.at, do |-> job'.do, run |-> job'.run,
                 about |-> job'.about, todo |-> job'.todo]
  PROVE  IInv'
<1>1. Shapes' /\ MemoryIsFile'
  BY DEF IInv, Shapes, MemoryIsFile
<1> QED BY <1>1, QuietKeeps DEF Quiet

LEMMA ReviewKeeps == IInv /\ Review => IInv'
<1> SUFFICES ASSUME IInv, Review PROVE IInv'
  OBVIOUS
<1>1. job' = Idle \/ job' = [job EXCEPT !.at = "reviewed"]
  BY DEF Review, Fail, Go
<1> QED BY <1>1, GoingOn DEF Review, Step, Idle, Counts, IInv, Shapes

LEMMA StartKeeps == IInv /\ Start => IInv'
<1> SUFFICES ASSUME IInv, Start PROVE IInv'
  OBVIOUS
<1>1. job' = Idle \/ job' = [job EXCEPT !.at = "refresh"]
  BY DEF Start, Fail, Go
<1> QED BY <1>1, GoingOn DEF Start, Step, Idle, Counts, IInv, Shapes

LEMMA RefreshKeeps ==
  ASSUME IInv, Refresh, UNCHANGED <<file, passes, lapses, stopped>>, Counts,
         job.at \notin Passed,
         UNCHANGED job \/ job'.at \notin Passing \cup Passed,
         job' = [at |-> job'.at, do |-> job'.do, run |-> job'.run,
                 about |-> job'.about, todo |-> job'.todo]
  PROVE  IInv'
<1>1. Shapes' /\ MemoryIsFile'
  BY RefreshedMemory DEF IInv, Shapes, MemoryIsFile
<1> QED BY <1>1, QuietKeeps DEF Quiet

LEMMA ReviewedKeeps == IInv /\ Reviewed => IInv'
<1> SUFFICES ASSUME IInv, Reviewed PROVE IInv'
  OBVIOUS
<1>1. \/ job' = [job EXCEPT !.at = "refresh"]
      \/ \E a \in Agent : job' = [job EXCEPT !.at = "launch",
            !.todo = <<[thread |-> Fresh, node |-> job.about,
                        parent |-> runs[job.run].thread, agent |-> a]>>]
  BY DEF Reviewed, Go
<1>2. /\ job'.at \notin Passing \cup Passed
      /\ job' = [at |-> job'.at, do |-> job'.do, run |-> job'.run,
                 about |-> job'.about, todo |-> job'.todo]
  BY <1>1 DEF IInv, Shapes
<1> QED BY <1>2, RefreshKeeps DEF Reviewed, Step, Counts

LEMMA FinishKeeps == IInv /\ Finish => IInv'
  BY RefreshKeeps DEF Finish, Step, Idle, Counts

LEMMA TickKeeps == IInv /\ Tick => IInv'
  BY RefreshKeeps DEF Tick, Stale, Idle, Counts

LEMMA ConnectKeeps == IInv /\ Connect => IInv'
  BY RefreshKeeps DEF Connect, Idle, Counts

\* What dispatch does: a run, or a thread that failed, or nothing.
LEMMA LaunchKeeps == IInv /\ Launch => IInv'
<1> SUFFICES ASSUME IInv, Launch PROVE IInv'
  OBVIOUS
<1>1. /\ job.at = "launch" /\ UNCHANGED <<passes, lapses, stopped, count>>
      /\ \/ UNCHANGED <<room, file>>
         \/ Remember([room.state EXCEPT !.failed = @ \cup {FailedThread(Head(job.todo))}])
      /\ \/ job' = Idle \/ job' = [job EXCEPT !.at = "refresh"]
         \/ job' = [job EXCEPT !.at = "start", !.run = Len(runs) + 1]
  BY DEF Launch, Step, Fail, Go
<1>2. /\ job'.at \notin Passing \cup Passed
      /\ job' = [at |-> job'.at, do |-> job'.do, run |-> job'.run,
                 about |-> job'.about, todo |-> job'.todo]
  <2>1. job = [at |-> job.at, do |-> job.do, run |-> job.run,
               about |-> job.about, todo |-> job.todo]
    BY DEF IInv, Shapes
  <2>2. CASE job' = Idle
    BY <2>2 DEF Idle
  <2>3. CASE job' = [job EXCEPT !.at = "refresh"]
    BY <2>1, <2>3
  <2>4. CASE job' = [job EXCEPT !.at = "start", !.run = Len(runs) + 1]
    BY <2>1, <2>4
  <2> QED BY <1>1, <2>2, <2>3, <2>4
<1>3. CASE UNCHANGED <<room, file>>
  BY <1>1, <1>2, <1>3, GoingOn DEF Counts
<1>4. CASE Remember([room.state EXCEPT !.failed = @ \cup {FailedThread(Head(job.todo))}])
  <2>1. room.loaded /\ room.state = file
    BY <1>1 DEF IInv, MemoryIsFile
  <2>2. /\ file'.answers = file.answers /\ file'.cancelled = file.cancelled
        /\ file' = [answers |-> file'.answers, cancelled |-> file'.cancelled,
                    failed |-> file'.failed]
        /\ room' = [room EXCEPT !.state = file']
    BY <1>4, <2>1 DEF Remember, IInv, Shapes
  <2>3. Shapes' /\ MemoryIsFile'
    BY <1>2, <2>1, <2>2 DEF IInv, Shapes, MemoryIsFile
  <2> QED BY <1>1, <1>2, <2>2, <2>3, QuietKeeps DEF Quiet, Counts
<1> QED BY <1>1, <1>3, <1>4

\* A handler that has nothing more to do goes; one that gives up before it has
\* passed anything on does no harm.
LEMMA FailKeeps ==
  ASSUME IInv, UNCHANGED <<file, room, passes, lapses, stopped, count>>, Fail,
         job.at \in Passing
  PROVE  IInv'
  BY GoingOn DEF Fail, Idle, Counts

\* On the way to passing something on.
LEMMA OnTheWay ==
  ASSUME IInv, UNCHANGED <<file, room, passes, lapses, stopped, count>>,
         job.at \in {"control", "resume"}, NEW at \in Passing, Go(at),
         at = "followUp" => job.do = "answer"
  PROVE  IInv'
<1>1. /\ job' = [at |-> at, do |-> job.do, run |-> job.run, about |-> job.about,
                todo |-> job.todo]
      /\ at \notin Passed /\ at # "idle" /\ job.at \in Passing /\ job.at \notin Passed
  BY DEF Go, IInv, Shapes
<1>2. job'.at = at /\ job'.do = job.do /\ job'.about = job.about
  BY <1>1
<1>3. Shapes' /\ MemoryIsFile'
  BY <1>1, <1>2 DEF IInv, Shapes, MemoryIsFile
<1>4. HandlerKnows'
  BY <1>1, <1>2 DEF IInv, HandlerKnows
<1>5. \A q \in Request : Remembered(q)' <=> Remembered(q)
  BY <1>1, <1>2 DEF Remembered
<1> QED BY <1>3, <1>4, <1>5 DEF IInv, Numbers, PassesAreRemembered

LEMMA ControlKeeps == IInv /\ Control => IInv'
<1> SUFFICES ASSUME IInv, Control PROVE IInv'
  OBVIOUS
<1>1. job.at = "control" /\ UNCHANGED <<file, room, passes, lapses, stopped, count>>
  BY DEF Control, Step
<1>2. CASE Fail
  BY <1>1, <1>2, FailKeeps
<1>3. CASE Go("resume") \/ Go("pass")
  BY <1>1, <1>3, OnTheWay
<1>4. CASE Go("followUp") /\ job.do = "answer"
  BY <1>1, <1>4, OnTheWay
<1> QED BY <1>2, <1>3, <1>4 DEF Control

LEMMA ResumeKeeps == IInv /\ Resume => IInv'
<1> SUFFICES ASSUME IInv, Resume PROVE IInv'
  OBVIOUS
<1>1. /\ job.at = "resume" /\ UNCHANGED <<file, room, passes, lapses, stopped, count>>
      /\ Go(IF job.do = "answer" THEN "followUp" ELSE "pass") \/ Fail
  BY DEF Resume, Step
<1>2. CASE Fail
  BY <1>1, <1>2, FailKeeps
<1>3. CASE Go("followUp") /\ job.do = "answer"
  BY <1>1, <1>3, OnTheWay
<1>4. CASE Go("pass")
  BY <1>1, <1>4, OnTheWay
<1> QED BY <1>1, <1>2, <1>3, <1>4

\* The answer or the stop reaches the run, which raises one count.
LEMMA PassOnKeeps == IInv /\ PassOn => IInv'
<1> SUFFICES ASSUME IInv, PassOn PROVE IInv'
  OBVIOUS
<1>1. job.at \in {"pass", "followUp"} /\ UNCHANGED <<file, room, lapses, count>>
  BY DEF PassOn
<1>2. CASE Fail /\ UNCHANGED <<passes, stopped>>
  BY <1>1, <1>2, FailKeeps
<1>3. CASE /\ passes' = IF job.do = "answer"
                        THEN [passes EXCEPT ![job.about] = @ + 1] ELSE passes
           /\ stopped' = IF job.do = "cancel" THEN stopped \cup {job.run} ELSE stopped
           /\ AfterPassing
  <2>1. PICK at : at = IF job.at = "followUp" THEN "resolve"
                       ELSE IF job.do = "prompt" THEN "refresh" ELSE "mark"
    OBVIOUS
  <2>2. job' = [at |-> at, do |-> job.do, run |-> job.run, about |-> job.about,
                todo |-> job.todo]
    BY <1>3, <2>1 DEF AfterPassing, Go, IInv, Shapes
  <2>3. /\ job'.do = job.do /\ job'.about = job.about /\ job'.run = job.run
        /\ job'.at = at /\ job.at \in Passing /\ at \notin Passing
        /\ job.at \notin Passed
    BY <1>1, <2>1, <2>2
  <2>4. Shapes' /\ MemoryIsFile'
    BY <1>1, <2>1, <2>2, <2>3 DEF IInv, Shapes, MemoryIsFile
  <2>5. Numbers' /\ (file.cancelled \subseteq stopped)'
    BY <1>1, <1>3, <2>3 DEF IInv, Numbers, HandlerKnows
  <2>6. HandlerKnows'
    BY <1>1, <1>3, <2>1, <2>3 DEF IInv, HandlerKnows
  <2>7. CASE job.do = "answer"
    <3>1. /\ job.about \in Request /\ ~Remembered(job.about)
          /\ passes' = [passes EXCEPT ![job.about] = @ + 1]
      BY <1>3, <2>3, <2>7 DEF IInv, HandlerKnows, Remembered
    <3>2. \A q \in Request : Remembered(q)' <=> Remembered(q) \/ q = job.about
      BY <1>1, <2>1, <2>3, <2>7 DEF Remembered
    <3>3. PassesAreRemembered'
      BY <1>1, <3>1, <3>2 DEF IInv, PassesAreRemembered, Numbers
    <3> QED BY <2>4, <2>5, <2>6, <3>3 DEF IInv
  <2>8. CASE job.do # "answer"
    <3>1. UNCHANGED passes
      BY <1>3, <2>8
    <3>2. \A q \in Request : Remembered(q)' <=> Remembered(q)
      BY <1>1, <2>3, <2>8 DEF Remembered
    <3>3. PassesAreRemembered'
      BY <1>1, <3>1, <3>2 DEF IInv, PassesAreRemembered
    <3> QED BY <2>4, <2>5, <2>6, <3>3 DEF IInv
  <2> QED BY <2>7, <2>8
<1> QED BY <1>2, <1>3 DEF PassOn, Written

\* An answer that was passed on is forgotten: from then on it may be passed on
\* once more.
LEMMA ForgettingKeeps ==
  ASSUME IInv, Forgets, UNCHANGED <<file, passes, stopped>>, job' = Idle,
         UNCHANGED room \/ room' = NoRoom,
         count' = count \/ count' = [count EXCEPT !["crash"] = @ + 1]
  PROVE  IInv'
<1>1. Shapes' /\ MemoryIsFile' /\ HandlerKnows'
  <2>1. job'.at = "idle" /\ Shapes'
    BY DEF IInv, Shapes, Idle, NoRoom, NoState
  <2>2. MemoryIsFile'
    <3>1. CASE UNCHANGED room
      BY <2>1, <3>1 DEF IInv, MemoryIsFile
    <3>2. CASE room' = NoRoom
      BY <2>1, <3>2 DEF MemoryIsFile, NoRoom
    <3> QED BY <3>1, <3>2
  <2> QED BY <2>1, <2>2 DEF HandlerKnows
<1>2. \A q \in Request : Remembered(q)' <=> q \in file.answers
  BY DEF Remembered, Idle
<1>3. CASE job.at \in Passed /\ job.do = "answer"
  <2>1. job.about \in Request /\ lapses' = [lapses EXCEPT ![job.about] = @ + 1]
    BY <1>3 DEF Forgets, IInv, HandlerKnows
  <2>2. Numbers'
    BY <2>1 DEF IInv, Numbers, Kinds3
  <2>3. PassesAreRemembered'
    BY <1>2, <1>3, <2>1 DEF IInv, PassesAreRemembered, Remembered, Numbers
  <2> QED BY <1>1, <2>2, <2>3 DEF IInv
<1>4. CASE ~(job.at \in Passed /\ job.do = "answer")
  <2>1. UNCHANGED lapses
    BY <1>4 DEF Forgets
  <2>2. Numbers'
    BY <2>1 DEF IInv, Numbers, Kinds3
  <2>3. PassesAreRemembered'
    BY <1>2, <1>4, <2>1 DEF IInv, PassesAreRemembered, Remembered
  <2> QED BY <1>1, <2>2, <2>3 DEF IInv
<1> QED BY <1>3, <1>4

LEMMA RecordAnswerKeeps == IInv /\ RecordAnswer => IInv'
<1> SUFFICES ASSUME IInv, RecordAnswer PROVE IInv'
  OBVIOUS
<1>1. job.at = "resolve" /\ UNCHANGED <<file, room, passes, stopped, count>>
  BY DEF RecordAnswer, Step
<1>2. CASE Fail /\ Forgets
  BY <1>1, <1>2, ForgettingKeeps DEF Fail
<1>3. CASE Go("mark") /\ UNCHANGED lapses
  <2>1. job' = [at |-> "mark", do |-> job.do, run |-> job.run, about |-> job.about,
                todo |-> job.todo]
    BY <1>3 DEF Go, IInv, Shapes
  <2>2. /\ job'.at = "mark" /\ job'.do = job.do /\ job'.about = job.about
        /\ job'.run = job.run
    BY <2>1
  <2>3. Shapes' /\ MemoryIsFile'
    BY <1>1, <2>1, <2>2 DEF IInv, Shapes, MemoryIsFile
  <2>4. HandlerKnows'
    BY <1>1, <2>2 DEF IInv, HandlerKnows
  <2>5. \A q \in Request : Remembered(q)' <=> Remembered(q)
    BY <1>1, <2>2 DEF Remembered
  <2> QED BY <1>1, <1>3, <2>3, <2>4, <2>5 DEF IInv, Numbers, PassesAreRemembered
<1> QED BY <1>2, <1>3 DEF RecordAnswer

\* What was passed on is remembered.
LEMMA MarkKeeps == IInv /\ Mark => IInv'
<1> SUFFICES ASSUME IInv, Mark PROVE IInv'
  OBVIOUS
<1>1. /\ job.at = "mark" /\ UNCHANGED <<passes, lapses, stopped, count>>
      /\ job' = [job EXCEPT !.at = "refresh"]
      /\ room.loaded /\ room.state = file
  BY DEF Mark, Step, Go, IInv, MemoryIsFile
<1>2. file' = IF job.do = "cancel" THEN [file EXCEPT !.cancelled = @ \cup {job.run}]
              ELSE [file EXCEPT !.answers = @ \cup {job.about}]
  BY <1>1 DEF Mark, Remember
<1>3. room' = [room EXCEPT !.state = file']
  BY <1>1, <1>2 DEF Mark, Remember
<1>4. Shapes' /\ MemoryIsFile'
  BY <1>1, <1>2, <1>3 DEF IInv, Shapes, MemoryIsFile
<1>5. /\ job.do = "cancel" => /\ job.run \in stopped
                             /\ file'.cancelled = file.cancelled \cup {job.run}
                             /\ file'.answers = file.answers
      /\ job.do # "cancel" => /\ job.do = "answer" /\ job.about \in Request
                              /\ file'.answers = file.answers \cup {job.about}
                              /\ file'.cancelled = file.cancelled
  BY <1>1, <1>2 DEF IInv, HandlerKnows, Shapes
<1>6. \A q \in Request : Remembered(q)' <=> Remembered(q)
  BY <1>1, <1>5 DEF Remembered, IInv, Shapes
<1>7. PassesAreRemembered'
  BY <1>1, <1>6 DEF IInv, PassesAreRemembered
<1>8. Numbers' /\ HandlerKnows' /\ (file.cancelled \subseteq stopped)'
  BY <1>1, <1>5 DEF IInv, Numbers, HandlerKnows, Shapes
<1> QED BY <1>4, <1>7, <1>8 DEF IInv

-----------------------------------------------------------------------------
(* The rest *)

LEMMA CrashKeeps == IInv /\ Crash => IInv'
  BY ForgettingKeeps DEF Crash, Counted

LEMMA ElsewhereKeeps ==
  ASSUME IInv, UNCHANGED <<file, room, job, passes, lapses, stopped>>, Counts
  PROVE  IInv'
  BY QuietKeeps DEF Quiet, IInv, Shapes, MemoryIsFile

LEMMA RunsCount ==
  ASSUME NEW k, Run(k)
  PROVE  Counts
  BY CountedIsNumber
  DEF Run, SavesSession, EndsTurn, BeginsTurn, Stops, Ends, OtherStarted, Asks,
      IsAnswered, Offers, Counts

LEMMA StepKeeps == IInv /\ [Next]_vars => IInv'
<1> SUFFICES ASSUME IInv, [Next]_vars PROVE IInv'
  OBVIOUS
<1>1. CASE Handle
  BY <1>1, ReviewKeeps, ReviewedKeeps, LaunchKeeps, StartKeeps, ControlKeeps, ResumeKeeps,
     PassOnKeeps, RecordAnswerKeeps, MarkKeeps, FinishKeeps DEF Handle
<1>2. CASE \E t \in Used \cup {Fresh}, n \in Node, p \in Parents, a \in Agent :
             Dispatch(t, n, p, a)
  BY <1>2, DispatchKeeps
<1>3. CASE \E t \in Used :
             \/ \E q \in Request : Answer(t, q)
             \/ Steer(t) \/ Cancel(t)
             \/ \E n \in Node, do \in {"accept", "reject"} : Resolve(t, n, do)
  BY <1>3, AnswerKeeps, BidKeeps, ResolveKeeps DEF Steer, Cancel
<1>4. CASE (\E k \in DOMAIN runs : Run(k)) /\ UNCHANGED world
  BY <1>4, RunsCount, ElsewhereKeeps DEF world
<1>5. CASE (\E n \in Node : OtherStarts(n)) /\ UNCHANGED world
  BY <1>5, CountedIsNumber, ElsewhereKeeps DEF world, OtherStarts
<1>6. CASE \E n \in Node : Deletes(n)
  BY <1>6, CountedIsNumber, ElsewhereKeeps DEF Deletes
<1>7. CASE UNCHANGED vars
  BY <1>7, ElsewhereKeeps DEF vars, Counts
<1> QED BY <1>1, <1>2, <1>3, <1>4, <1>5, <1>6, <1>7, TickKeeps, ConnectKeeps, CrashKeeps
        DEF Next

LEMMA Inductive == Spec => []IInv
<1> QED BY InitHolds, StepKeeps, PTL DEF Spec

\* What the room hides, it has passed on, whatever failed and whenever it died
\* (handleWork, OutlineRoom.ts).
THEOREM HiddenWasPassedOnHolds == Spec => []HiddenWasPassedOn
<1>1. IInv => HiddenWasPassedOn
  BY DEF IInv, HiddenWasPassedOn, MemoryIsFile, PassesAreRemembered, Remembered,
         Numbers, NoState
<1> QED BY <1>1, Inductive, PTL

\* A question gets one answer of the room, and at most one more for each answer
\* that was passed on and then not remembered, since the room died or the log
\* refused its record (handleWork, OutlineRoom.ts; control, AgentRuns.ts).
THEOREM PassedOnceHolds == Spec => []PassedOnce
<1>1. IInv => PassedOnce
  BY DEF IInv, PassedOnce, PassesAreRemembered, Numbers
<1> QED BY <1>1, Inductive, PTL

-----------------------------------------------------------------------------
(***************************************************************************)
(* A bullet has one agent of the room at work.  The room decides from the  *)
(* threads it derived when it took the message, while the runs go on: this *)
(* is right because a run that counts was in those threads and at work,    *)
(* and because no run begins to count after that.  A run counts (Live)     *)
(* when it works or has an open question, also after its session ended:    *)
(* the answer would load the session again.                                *)
(***************************************************************************)

IsSeq == runs \in Seq({runs[k] : k \in DOMAIN runs})

\* What is true of one run.
Whole(r) ==
  r = [thread |-> r.thread, node |-> r.node, parent |-> r.parent, by |-> r.by,
       log |-> [status |-> r.log.status, loadable |-> r.log.loadable,
                pending |-> r.log.pending],
       failed |-> r.failed, turn |-> r.turn, prompted |-> r.prompted, idle |-> r.idle,
       cancelled |-> r.cancelled, offers |-> r.offers]

Sound(r) ==
  /\ Whole(r)
  /\ r.log.status \in {"starting", "running", "ended"}
  /\ DOMAIN r.log.pending \subseteq Request
  /\ r.log.status = "starting" => r.log.loadable = FALSE \/ ~r.turn
  /\ r.turn => ~r.idle /\ r.log.status # "ended"

InView(k) == runs[k].by = "room" /\ k \notin stopped \cup steered

RunFacts(k) ==
  /\ Sound(runs[k])
  /\ runs[k].cancelled => k \in stopped
  /\ InView(k) /\ runs[k].prompted => ~runs[k].idle /\ ~runs[k].turn

\* The runs that keep another one off their bullet.
AtIt(r) == r.log.status \in {"starting", "running"} /\ ~r.idle
Unanswered(r) == {q \in DOMAIN r.log.pending : q \notin file.answers}
Live(k) == InView(k) /\ (AtIt(runs[k]) \/ Unanswered(runs[k]) # {})

OneLive ==
  \A k, m \in DOMAIN runs : Live(k) /\ Live(m) /\ runs[k].node = runs[m].node => k = m

\* The threads the room decides from have them all.
Shown(k) == \E x \in room.threads : x.node = runs[k].node /\ x.status \in AtWork
LiveAreShown == job.at = "launch" => \A k \in DOMAIN runs : Live(k) => Shown(k)

WInv ==
  IsSeq /\ (\A k \in DOMAIN runs : RunFacts(k)) /\ OneLive /\ LiveAreShown

-----------------------------------------------------------------------------
LEMMA InitWInv == Init => WInv
<1> SUFFICES ASSUME Init PROVE WInv
  OBVIOUS
<1>1. /\ runs \in Seq({runs[k] : k \in DOMAIN runs})
      /\ \A k \in DOMAIN runs : FirstRun(runs[k])
      /\ \A k, m \in DOMAIN runs : runs[k].node = runs[m].node => k = m
  BY LogsAssumption DEF Init
<1>2. \A r : FirstRun(r) => Sound(r) /\ r.cancelled = FALSE /\ r.prompted = FALSE
  <2> SUFFICES ASSUME NEW r, FirstRun(r)
               PROVE  Sound(r) /\ r.cancelled = FALSE /\ r.prompted = FALSE
    OBVIOUS
  <2>1. r.cancelled = FALSE /\ r.prompted = FALSE
    BY DEF FirstRun
  <2>2. Whole(r)
    BY <2>1 DEF FirstRun, Whole
  <2> QED BY <2>1, <2>2 DEF FirstRun, Sound
<1>3. \A k \in DOMAIN runs : RunFacts(k)
  BY <1>1, <1>2 DEF RunFacts
<1> QED BY <1>1, <1>3 DEF WInv, IsSeq, OneLive, LiveAreShown, Init, Idle

\* One run changes, or none, and none begins to count.
Changed(k) ==
  /\ DOMAIN runs' = DOMAIN runs
  /\ runs' = [m \in DOMAIN runs |-> runs'[m]]
  /\ \A m \in DOMAIN runs : m # k => runs'[m] = runs[m]

Grows == stopped \subseteq stopped' /\ steered \subseteq steered' /\ file.answers \subseteq file'.answers

LEMMA OneRunChanges ==
  ASSUME WInv, NEW k, Changed(k), Grows,
         job'.at = "launch" => job.at = "launch" /\ UNCHANGED room,
         k \in DOMAIN runs =>
           RunFacts(k)' /\ runs'[k].node = runs[k].node /\ (Live(k)' => Live(k))
  PROVE  WInv'
<1>1. IsSeq'
  BY DEF Changed, WInv, IsSeq
<1>2. \A m \in DOMAIN runs :
        RunFacts(m)' /\ runs'[m].node = runs[m].node /\ (Live(m)' => Live(m))
  <2> SUFFICES ASSUME NEW m \in DOMAIN runs, m # k
               PROVE  RunFacts(m)' /\ (Live(m)' => Live(m))
    BY DEF Changed
  <2>1. runs'[m] = runs[m] /\ RunFacts(m)
    BY DEF Changed, WInv
  <2>2. InView(m)' => InView(m)
    BY <2>1 DEF InView, Grows
  <2>3. RunFacts(m)'
    BY <2>1, <2>2 DEF RunFacts, Grows
  <2>4. Unanswered(runs[m])' \subseteq Unanswered(runs[m])
    BY <2>1 DEF Unanswered, Grows
  <2> QED BY <2>1, <2>2, <2>3, <2>4 DEF Live
<1>3. OneLive'
  BY <1>2 DEF OneLive, WInv, Changed
<1>4. LiveAreShown'
  BY <1>2 DEF LiveAreShown, WInv, Changed, Shown
<1> QED BY <1>1, <1>2, <1>3, <1>4 DEF WInv, Changed

-----------------------------------------------------------------------------
(* Refreshes: the threads have every run that counts, and as at work *)

LEMMA LiveIsAtWork ==
  ASSUME IInv, WInv, NEW k \in DOMAIN runs, Live(k)
  PROVE  Status(k, file) \in AtWork
<1>1. ~Cancelled(k, file)
  BY DEF Cancelled, IInv, WInv, RunFacts, Live, InView
<1>2. CASE Unanswered(runs[k]) # {}
  <2>1. Question(k, file) \in Unanswered(runs[k])
    BY <1>1, <1>2 DEF Question, Unanswered
  <2>2. Question(k, file) # NoRequest
    BY <2>1, RoomAssumption DEF WInv, RunFacts, Sound, Unanswered
  <2>3. Status(k, file) = "NeedsInput"
    BY <1>1, <2>2 DEF Status
  <2> QED BY <2>3 DEF AtWork
<1>3. CASE Unanswered(runs[k]) = {}
  <2>1. AtIt(runs[k])
    BY <1>3 DEF Live
  <2> QED BY <1>1, <2>1 DEF Status, AtWork, AtIt
<1> QED BY <1>2, <1>3

LEMMA RefreshShows ==
  ASSUME IInv, WInv, Refresh
  PROVE  \A k \in DOMAIN runs : Live(k) =>
           \E x \in room'.threads : x.node = runs[k].node /\ x.status \in AtWork
<1> SUFFICES ASSUME NEW k \in DOMAIN runs, Live(k)
             PROVE  \E x \in room'.threads : x.node = runs[k].node /\ x.status \in AtWork
  OBVIOUS
<1>1. room'.threads = Derived(file)
  BY StateIsFile DEF Refresh, Refreshed
<1>2. ThreadOf(k, file) \in room'.threads
  BY <1>1 DEF Derived
<1>3. ThreadOf(k, file).node = runs[k].node /\ ThreadOf(k, file).status \in AtWork
  BY LiveIsAtWork DEF ThreadOf
<1> QED BY <1>2, <1>3

\* Nothing happens to the runs, and the room may look at them again.
LEMMA NothingRuns ==
  ASSUME IInv, WInv, UNCHANGED runs, Grows,
         job'.at = "launch" => Refresh \/ (job.at = "launch" /\ UNCHANGED room)
  PROVE  WInv'
<1>1. /\ IsSeq'
      /\ \A k \in DOMAIN runs : RunFacts(k)' /\ (Live(k)' => Live(k))
  BY DEF WInv, IsSeq, RunFacts, InView, Live, Unanswered, Grows
<1>2. OneLive'
  BY <1>1 DEF WInv, OneLive
<1>3. LiveAreShown'
  BY <1>1, RefreshShows DEF WInv, LiveAreShown, Shown
<1> QED BY <1>1, <1>2, <1>3 DEF WInv

-----------------------------------------------------------------------------
(* Agents and other processes *)

\* A step of one run, while the room remembers what it did.
Aside ==
  /\ UNCHANGED <<stopped, steered, file>>
  /\ job'.at = "launch" => job.at = "launch" /\ UNCHANGED room
Beside(k) == Changed(k) /\ Aside
LEMMA BesideKeeps ==
  ASSUME WInv, NEW k \in DOMAIN runs, Beside(k),
         Sound(runs'[k]), runs'[k].node = runs[k].node, runs'[k].by = runs[k].by,
         runs'[k].cancelled => runs[k].cancelled \/ k \in stopped,
         runs'[k].prompted => runs[k].prompted,
         runs[k].prompted /\ InView(k) =>
           \/ ~runs'[k].prompted
           \/ ~runs'[k].idle /\ ~runs'[k].turn,
         InView(k) /\ AtIt(runs'[k]) => Live(k),
         InView(k) /\ Unanswered(runs'[k]) # {} => Live(k)
  PROVE  WInv'
<1>1. RunFacts(k)'
  BY DEF RunFacts, WInv, InView, Beside, Aside
<1>2. Live(k)' => Live(k)
  BY DEF Live, InView, Beside, Aside, Unanswered
<1>3. Grows /\ (job'.at = "launch" => job.at = "launch" /\ UNCHANGED room)
  BY DEF Grows, Beside, Aside
<1> QED BY <1>1, <1>2, <1>3, OneRunChanges DEF Beside

\* What an event does to a run.
Log(status, loadable, pending) ==
  [status |-> status, loadable |-> loadable, pending |-> pending]
WithAsked(pending, rs) ==
  [q \in DOMAIN pending \cup rs |-> IF q \in rs THEN "live" ELSE pending[q]]
WithResolved(pending, rs) == Restrict(pending, DOMAIN pending \ rs)
AfterEnd(pending, loadable) ==
  [q \in DOMAIN pending |-> IF loadable THEN "message" ELSE "expired"]
IsLog(log) == log = Log(log.status, log.loadable, log.pending)

LEMMA FoldIs ==
  ASSUME NEW log, IsLog(log), NEW rs
  PROVE  /\ Fold(log, Event("started", rs)) = Log("running", log.loadable, log.pending)
         /\ Fold(log, Event("session", rs)) = Log(log.status, TRUE, log.pending)
         /\ Fold(log, Event("asked", rs)) =
              Log(log.status, log.loadable, WithAsked(log.pending, rs))
         /\ Fold(log, Event("resolved", rs)) =
              Log(log.status, log.loadable, WithResolved(log.pending, rs))
         /\ Fold(log, Event("cancelled", rs)) = Log(log.status, log.loadable, <<>>)
         /\ Fold(log, Event("resuming", rs)) =
              Log("starting", TRUE, [q \in rs |-> "message"])
         /\ \A kind \in Endings : Fold(log, Event(kind, rs)) =
              Log("ended", log.loadable, AfterEnd(log.pending, log.loadable))
  BY DEF Fold, Event, Endings, Log, IsLog, WithAsked, WithResolved, AfterEnd

LEMMA RecordIsSound ==
  ASSUME NEW log, IsLog(log), log.status \in {"starting", "running", "ended"},
         DOMAIN log.pending \subseteq Request,
         log.status = "starting" => log.loadable = FALSE,
         NEW thread, NEW node, NEW parent, NEW by, NEW failed, NEW turn, NEW prompted,
         NEW idle, NEW cancelled, NEW offers,
         turn => ~idle /\ log.status # "ended"
  PROVE  Sound([thread |-> thread, node |-> node, parent |-> parent, by |-> by,
                log |-> log, failed |-> failed, turn |-> turn, prompted |-> prompted,
                idle |-> idle, cancelled |-> cancelled, offers |-> offers])
  BY DEF Sound, Whole, IsLog, Log

\* A step that changes the log of a run, and nothing else of it.
LEMMA LogChanges ==
  ASSUME WInv, NEW k \in DOMAIN runs, NEW st, NEW loadable, NEW pending, Aside,
         runs' = [runs EXCEPT ![k].log = Log(st, loadable, pending)],
         st \in {"starting", "running", "ended"}, DOMAIN pending \subseteq Request,
         st = "starting" => loadable = FALSE \/ ~runs[k].turn,
         runs[k].turn => st # "ended",
         st # "ended" => runs[k].log.status # "ended",
         DOMAIN pending \subseteq DOMAIN runs[k].log.pending \/ AtIt(runs[k])
  PROVE  WInv'
<1> DEFINE r == runs[k]
           log == Log(st, loadable, pending)
<1>0. IsLog(log) /\ log.status = st /\ log.loadable = loadable /\ log.pending = pending
  BY DEF Log, IsLog
<1> HIDE DEF log
<1>1. runs'[k] = [r EXCEPT !.log = log] /\ Changed(k)
  BY DEF WInv, IsSeq, Changed, log
<1>2. Sound(r)
  BY DEF WInv, RunFacts
<1>3. runs'[k] = [thread |-> r.thread, node |-> r.node, parent |-> r.parent, by |-> r.by,
                  log |-> log, failed |-> r.failed, turn |-> r.turn,
                  prompted |-> r.prompted, idle |-> r.idle,
                  cancelled |-> r.cancelled, offers |-> r.offers]
  BY <1>1, <1>2 DEF Sound, Whole
<1>4. Sound(runs'[k])
  BY <1>0, <1>2, <1>3 DEF Sound, Whole, IsLog, Log
<1>5. InView(k) /\ AtIt(runs'[k]) => Live(k)
  BY <1>0, <1>2, <1>3 DEF Live, AtIt, Sound
<1>6. InView(k) /\ Unanswered(runs'[k]) # {} => Live(k)
  BY <1>0, <1>3 DEF Live, Unanswered
<1>7. r.cancelled => k \in stopped
  BY DEF WInv, RunFacts
<1>8. InView(k) /\ r.prompted => ~r.idle /\ ~r.turn
  BY DEF WInv, RunFacts
<1> QED BY <1>1, <1>3, <1>4, <1>5, <1>6, <1>7, <1>8, BesideKeeps DEF Beside

\* The records of an agent's life but its ends.
LEMMA RecordKeeps ==
  ASSUME WInv, NEW k \in DOMAIN runs, Aside,
         \/ SavesSession(k) \/ OtherStarted(k)
         \/ \E q \in Request : Asks(k, q) \/ IsAnswered(k, q)
  PROVE  WInv'
<1>1. Sound(runs[k]) /\ IsLog(runs[k].log)
  BY DEF WInv, RunFacts, Sound, Whole, IsLog, Log
<1>2. PICK old : old = runs[k].log
  OBVIOUS
<1>3. CASE SavesSession(k)
  <2>1. runs' = [runs EXCEPT ![k].log = Log(old.status, TRUE, old.pending)]
        /\ old.status = "running"
    BY <1>1, <1>2, <1>3, FoldIs DEF SavesSession, Records, Running
  <2> QED BY <1>1, <1>2, <2>1, LogChanges DEF Sound
<1>4. CASE OtherStarted(k)
  <2>1. runs' = [runs EXCEPT ![k].log = Log("running", old.loadable, old.pending)]
        /\ old.status = "starting"
    BY <1>1, <1>2, <1>4, FoldIs DEF OtherStarted, Records
  <2>2. DOMAIN old.pending \subseteq Request
    BY <1>1, <1>2 DEF Sound
  <2> QED BY <1>2, <2>1, <2>2, LogChanges
<1>5. ASSUME NEW q \in Request, Asks(k, q) PROVE WInv'
  <2> DEFINE pending == WithAsked(old.pending, {q})
  <2>0. Fold(old, Event("asked", {q})) = Log(old.status, old.loadable, pending)
    BY <1>1, <1>2, FoldIs
  <2>1. runs' = [runs EXCEPT ![k].log = Log(old.status, old.loadable, pending)]
        /\ old.status = "running" /\ runs[k].turn
    BY <1>2, <1>5, <2>0 DEF Asks, Records, Running
  <2>2. DOMAIN pending \subseteq Request
    BY <1>1, <1>2 DEF Sound, WithAsked
  <2>3. AtIt(runs[k])
    BY <1>1, <1>2, <2>1 DEF AtIt, Sound
  <2> HIDE DEF pending
  <2> QED BY <1>1, <1>2, <2>1, <2>2, <2>3, LogChanges DEF Sound
<1>6. ASSUME NEW q \in Request, IsAnswered(k, q) PROVE WInv'
  <2> DEFINE pending == WithResolved(old.pending, {q})
  <2>0. Fold(old, Event("resolved", {q})) = Log(old.status, old.loadable, pending)
    BY <1>1, <1>2, FoldIs
  <2>1. runs' = [runs EXCEPT ![k].log = Log(old.status, old.loadable, pending)]
        /\ old.status = "running"
    BY <1>2, <1>6, <2>0 DEF IsAnswered, Records, Running
  <2>2. DOMAIN pending \subseteq DOMAIN old.pending
    BY DEF WithResolved, Restrict
  <2> HIDE DEF pending
  <2> QED BY <1>1, <1>2, <2>1, <2>2, LogChanges DEF Sound
<1> QED BY <1>3, <1>4, <1>5, <1>6

\* The turns, ends and offers of an agent.
LEMMA TurnKeeps ==
  ASSUME WInv, NEW k \in DOMAIN runs, Aside, EndsTurn(k) \/ BeginsTurn(k)
  PROVE  WInv'
<1> DEFINE r == runs[k]
<1>1. Sound(r) /\ (r.cancelled => k \in stopped) /\ r.log.status = "running"
      /\ (InView(k) /\ r.prompted => ~r.idle /\ ~r.turn)
  BY DEF WInv, RunFacts, EndsTurn, BeginsTurn, Running
<1>0. IsLog(r.log) /\ DOMAIN r.log.pending \subseteq Request
  BY <1>1 DEF Sound, Whole, IsLog, Log
<1>2. CASE EndsTurn(k)
  <2>1. /\ Changed(k) /\ r.turn
        /\ runs'[k] = [r EXCEPT !.turn = FALSE, !.idle = TRUE]
    BY <1>2 DEF WInv, IsSeq, Changed, EndsTurn
  <2>2. runs'[k] = [thread |-> r.thread, node |-> r.node, parent |-> r.parent, by |-> r.by,
                    log |-> r.log, failed |-> r.failed, turn |-> FALSE,
                    prompted |-> r.prompted, idle |-> TRUE,
                    cancelled |-> r.cancelled, offers |-> r.offers]
    BY <1>1, <2>1 DEF Sound, Whole
  <2>3. Sound(runs'[k])
    BY <1>0, <1>1, <2>2, RecordIsSound
  <2> QED BY <1>1, <2>1, <2>2, <2>3, BesideKeeps DEF Beside, Live, AtIt, Unanswered
<1>3. CASE BeginsTurn(k)
  <2>1. /\ Changed(k) /\ r.prompted
        /\ runs'[k] = [r EXCEPT !.turn = TRUE, !.idle = FALSE, !.prompted = FALSE]
    BY <1>3 DEF WInv, IsSeq, Changed, BeginsTurn
  <2>2. runs'[k] = [thread |-> r.thread, node |-> r.node, parent |-> r.parent, by |-> r.by,
                    log |-> r.log, failed |-> r.failed, turn |-> TRUE,
                    prompted |-> FALSE, idle |-> FALSE,
                    cancelled |-> r.cancelled, offers |-> r.offers]
    BY <1>1, <2>1 DEF Sound, Whole
  <2>3. Sound(runs'[k])
    BY <1>0, <1>1, <2>2, RecordIsSound
  <2> QED BY <1>1, <2>1, <2>2, <2>3, BesideKeeps DEF Beside, Live, AtIt, Unanswered
<1> QED BY <1>2, <1>3

LEMMA NoneIsEmpty == DOMAIN <<>> = {}
  OBVIOUS

LEMMA StopKeeps ==
  ASSUME WInv, NEW k \in DOMAIN runs, Aside, Stops(k)
  PROVE  WInv'
<1> DEFINE r == runs[k]
           log == Log(r.log.status, r.log.loadable, <<>>)
<1>1. Sound(r) /\ IsLog(r.log) /\ k \in stopped
  BY DEF WInv, RunFacts, Sound, Whole, IsLog, Log, Stops
<1>2. Fold(r.log, Event("cancelled", {})) = log
  BY <1>1, FoldIs
<1>3. log.status = "running" /\ DOMAIN log.pending = {} /\ IsLog(log)
  <2>1. r.log.status = "running"
    BY DEF Stops, Running
  <2> QED BY <2>1, NoneIsEmpty DEF Log, IsLog
<1> HIDE DEF log
<1>4. /\ Changed(k)
      /\ runs'[k] = [r EXCEPT !.cancelled = TRUE, !.turn = FALSE, !.log = log]
  BY <1>2 DEF WInv, IsSeq, Changed, Stops
<1>5. runs'[k] = [thread |-> r.thread, node |-> r.node, parent |-> r.parent, by |-> r.by,
                  log |-> log, failed |-> r.failed, turn |-> FALSE,
                  prompted |-> r.prompted, idle |-> r.idle,
                  cancelled |-> TRUE, offers |-> r.offers]
  BY <1>1, <1>4 DEF Sound, Whole
<1>6. Sound(runs'[k])
  <2>1. PICK new : new = runs'[k]
    OBVIOUS
  <2>2. new.log = log /\ new.turn = FALSE
    BY <1>5, <2>1
  <2>3. Whole(new)
    BY <1>3, <1>5, <2>1, <2>2 DEF Whole, IsLog, Log
  <2> QED BY <1>3, <2>1, <2>2, <2>3 DEF Sound
<1> QED BY <1>1, <1>4, <1>5, <1>6, BesideKeeps DEF Beside, InView

\* Also the failure of a start, in a handler of the room.
LEMMA EndKeeps ==
  ASSUME WInv, NEW k \in DOMAIN runs, Aside, NEW kind \in Endings, NEW failed,
         \/ runs' = [runs EXCEPT ![k].log = Fold(@, Event(kind, {})), ![k].failed = failed,
                                 ![k].turn = FALSE]
         \/ /\ failed = runs[k].failed
            /\ runs' = [runs EXCEPT ![k].log = Fold(@, Event(kind, {})), ![k].turn = FALSE]
  PROVE  WInv'
<1> DEFINE r == runs[k]
           pending == AfterEnd(r.log.pending, r.log.loadable)
           log == Log("ended", r.log.loadable, pending)
<1>1. Sound(r) /\ IsLog(r.log)
  BY DEF WInv, RunFacts, Sound, Whole, IsLog, Log
<1>2. Fold(r.log, Event(kind, {})) = log
  BY <1>1, FoldIs
<1>3. /\ IsLog(log) /\ log.status = "ended"
      /\ DOMAIN log.pending = DOMAIN r.log.pending
  BY DEF Log, IsLog, AfterEnd
<1> HIDE DEF log
<1>4. /\ Changed(k)
      /\ \/ runs'[k] = [r EXCEPT !.log = log, !.failed = failed, !.turn = FALSE]
         \/ failed = r.failed /\ runs'[k] = [r EXCEPT !.log = log, !.turn = FALSE]
  BY <1>2 DEF WInv, IsSeq, Changed
<1>5. runs'[k] = [thread |-> r.thread, node |-> r.node, parent |-> r.parent, by |-> r.by,
                  log |-> log, failed |-> failed, turn |-> FALSE,
                  prompted |-> r.prompted, idle |-> r.idle,
                  cancelled |-> r.cancelled, offers |-> r.offers]
  BY <1>1, <1>4 DEF Sound, Whole
<1>6. Sound(runs'[k])
  <2>1. PICK new : new = runs'[k]
    OBVIOUS
  <2>2. new.log = log /\ new.turn = FALSE
    BY <1>5, <2>1
  <2>3. Whole(new)
    BY <1>3, <1>5, <2>1, <2>2 DEF Whole, IsLog, Log
  <2> QED BY <1>1, <1>3, <2>1, <2>2, <2>3 DEF Sound
<1>7. (r.cancelled => k \in stopped) /\ (InView(k) /\ r.prompted => ~r.idle)
  BY DEF WInv, RunFacts
<1> QED BY <1>3, <1>4, <1>5, <1>6, <1>7, BesideKeeps DEF Beside, Live, AtIt, Unanswered

LEMMA OffersKeeps ==
  ASSUME WInv, NEW k \in DOMAIN runs, Aside, NEW offers,
         runs' = [runs EXCEPT ![k].offers = offers]
  PROVE  WInv'
<1> DEFINE r == runs[k]
<1>1. /\ Sound(r) /\ (r.cancelled => k \in stopped)
      /\ (InView(k) /\ r.prompted => ~r.idle /\ ~r.turn)
  BY DEF WInv, RunFacts
<1>2. /\ IsLog(r.log) /\ r.log.status \in {"starting", "running", "ended"}
      /\ DOMAIN r.log.pending \subseteq Request
      /\ r.log.status = "starting" => r.log.loadable = FALSE \/ ~r.turn
      /\ r.turn => ~r.idle /\ r.log.status # "ended"
  BY <1>1 DEF Sound, Whole, IsLog, Log
<1>3. Changed(k) /\ runs'[k] = [r EXCEPT !.offers = offers]
  BY DEF WInv, IsSeq, Changed
<1>4. runs'[k] = [thread |-> r.thread, node |-> r.node, parent |-> r.parent, by |-> r.by,
                  log |-> r.log, failed |-> r.failed, turn |-> r.turn,
                  prompted |-> r.prompted, idle |-> r.idle,
                  cancelled |-> r.cancelled, offers |-> offers]
  BY <1>1, <1>3 DEF Sound, Whole
<1>5. Sound(runs'[k])
  <2>1. PICK new : new = runs'[k]
    OBVIOUS
  <2>2. new.log = r.log /\ new.turn = r.turn /\ new.idle = r.idle
    BY <1>4, <2>1
  <2>3. Whole(new)
    BY <1>2, <1>4, <2>1, <2>2 DEF Whole, IsLog, Log
  <2> QED BY <1>2, <2>1, <2>2, <2>3 DEF Sound
<1> QED BY <1>1, <1>3, <1>4, <1>5, BesideKeeps DEF Beside, Live, AtIt, Unanswered

LEMMA RunKeeps ==
  ASSUME WInv, NEW k \in DOMAIN runs, Run(k), UNCHANGED world
  PROVE  WInv'
<1>1. Aside
  BY DEF Aside, world
<1>2. CASE \/ SavesSession(k) \/ OtherStarted(k)
           \/ \E q \in Request : Asks(k, q) \/ IsAnswered(k, q)
  BY <1>1, <1>2, RecordKeeps
<1>3. CASE EndsTurn(k) \/ BeginsTurn(k)
  BY <1>1, <1>3, TurnKeeps
<1>4. CASE Stops(k)
  BY <1>1, <1>4, StopKeeps
<1>5. CASE Ends(k)
  <2>1. CASE runs' = Ended(k)
    BY <1>1, <2>1, EndKeeps DEF Ended, Endings
  <2>2. CASE runs' = [runs EXCEPT ![k].log = Fold(@, Event("finished", {})), ![k].turn = FALSE]
    BY <1>1, <2>2, EndKeeps DEF Endings
  <2> QED BY <1>5, <2>1, <2>2 DEF Ends
<1>6. CASE \E n \in Node : Offers(k, n)
  BY <1>1, <1>6, OffersKeeps DEF Offers
<1> QED BY <1>2, <1>3, <1>4, <1>5, <1>6 DEF Run

-----------------------------------------------------------------------------
(* New runs *)

\* A run is added, beside the room or by it; one of the room has its bullet to
\* itself.
LEMMA NewRunKeeps ==
  ASSUME WInv, UNCHANGED <<stopped, steered, file, room>>, job'.at = "launch" => job.at = "launch",
         NEW d, NEW by, runs' = Append(runs, NewRun(d, by)),
         by = "room" => /\ job'.at # "launch"
                        /\ \A k \in DOMAIN runs : Live(k) => runs[k].node # d.node
  PROVE  WInv'
<1>0. PICK r, new : r = NewRun(d, by) /\ new = Len(runs) + 1
  OBVIOUS
<1>1. /\ IsSeq' /\ DOMAIN runs' = DOMAIN runs \cup {new} /\ new \notin DOMAIN runs
      /\ runs'[new] = r /\ \A k \in DOMAIN runs : runs'[k] = runs[k]
  BY <1>0 DEF WInv, IsSeq
<1>2. Sound(r) /\ ~r.cancelled /\ ~r.prompted /\ r.node = d.node /\ r.by = by
  <2>1. Fold(FreshRun, [kind |-> "starting", requests |-> {}]) = Log("starting", FALSE, <<>>)
    BY DEF Fold, FreshRun, Log, Endings
  <2>2. PICK log : log = Log("starting", FALSE, <<>>)
    OBVIOUS
  <2>3. /\ IsLog(log) /\ log.status = "starting" /\ log.loadable = FALSE
        /\ DOMAIN log.pending = {}
    BY <2>2, NoneIsEmpty DEF Log, IsLog
  <2>4. r = [thread |-> d.thread, node |-> d.node, parent |-> d.parent, by |-> by,
             log |-> log, failed |-> FALSE, turn |-> TRUE, prompted |-> FALSE,
             idle |-> FALSE, cancelled |-> FALSE, offers |-> {}]
    BY <1>0, <2>1, <2>2 DEF NewRun
  <2>5. Sound(r)
    BY <2>3, <2>4, RecordIsSound
  <2> QED BY <2>4, <2>5
<1>3. RunFacts(new)'
  BY <1>1, <1>2 DEF RunFacts
<1>4. \A k \in DOMAIN runs : RunFacts(k)' /\ (Live(k)' <=> Live(k))
  BY <1>1 DEF WInv, RunFacts, InView, Live, Unanswered
<1>5. Live(new)' => by = "room"
  BY <1>1, <1>2 DEF Live, InView
<1>6. OneLive'
  BY <1>1, <1>2, <1>4, <1>5 DEF WInv, OneLive
<1>7. LiveAreShown'
  BY <1>1, <1>4, <1>5 DEF WInv, LiveAreShown, Shown
<1> QED BY <1>1, <1>3, <1>4, <1>6, <1>7 DEF WInv

-----------------------------------------------------------------------------
(* The room's steps *)

LEMMA MessageKeepsW == IInv /\ WInv /\ Message => WInv'
  BY NothingRuns DEF Message, Grows

\* A step that goes on to anything but a launch and does nothing to the runs.
LEMMA NoRunNoLaunch ==
  ASSUME IInv, WInv, UNCHANGED <<runs, stopped, steered>>, job'.at # "launch",
         file.answers \subseteq file'.answers
  PROVE  WInv'
  BY NothingRuns DEF Grows

LEMMA JobGoes ==
  ASSUME IInv, NEW at, Go(at)
  PROVE  job'.at = at
  BY DEF Go, IInv, Shapes

LEMMA ReviewKeepsW == IInv /\ WInv /\ Review => WInv'
<1> SUFFICES ASSUME IInv, WInv, Review PROVE WInv'
  OBVIOUS
<1>1. UNCHANGED <<file, room, stopped, steered>> /\ job'.at # "launch"
  BY JobGoes DEF Review, Fail, Idle
<1>2. CASE UNCHANGED runs
  BY <1>1, <1>2, NoRunNoLaunch
<1>3. PICK offers : UNCHANGED runs \/ runs' = [runs EXCEPT ![job.run].offers = offers]
  BY DEF Review
<1>4. CASE runs' = [runs EXCEPT ![job.run].offers = offers] /\ job.run \in DOMAIN runs
  BY <1>1, <1>4, OffersKeeps DEF Aside
<1>5. CASE runs' = [runs EXCEPT ![job.run].offers = offers] /\ job.run \notin DOMAIN runs
  <2>1. UNCHANGED runs
    BY <1>5 DEF WInv, IsSeq
  <2> QED BY <1>2, <2>1
<1> QED BY <1>2, <1>3, <1>4, <1>5

LEMMA LaunchKeepsW == IInv /\ WInv /\ Launch => WInv'
<1> SUFFICES ASSUME IInv, WInv, Launch PROVE WInv'
  OBVIOUS
<1>1. PICK d : d = Head(job.todo)
  OBVIOUS
<1>2. job.at = "launch" /\ UNCHANGED <<stopped, steered>> /\ room.state = file
  BY DEF Launch, Step, IInv, MemoryIsFile
<1>3. \/ /\ UNCHANGED runs /\ job'.at # "launch"
         /\ \/ UNCHANGED file
            \/ Remember([room.state EXCEPT !.failed = @ \cup {FailedThread(d)}])
      \/ /\ runs' = Append(runs, NewRun(d, "room")) /\ job'.at # "launch"
         /\ UNCHANGED <<room, file>>
         /\ ~\E x \in room.threads : x.node = d.node /\ x.status \in AtWork
  <2>1. job' = [job EXCEPT !.at = "start", !.run = Len(runs) + 1] => job'.at = "start"
    BY DEF IInv, Shapes
  <2> QED BY <1>1, <2>1, JobGoes DEF Launch, Fail, Idle
<1>4. CASE /\ UNCHANGED runs /\ job'.at # "launch"
           /\ \/ UNCHANGED file
              \/ Remember([room.state EXCEPT !.failed = @ \cup {FailedThread(d)}])
  <2>1. file'.answers = file.answers
    BY <1>2, <1>4 DEF Remember, IInv, Shapes
  <2> QED BY <1>2, <1>3, <1>4, <2>1, NoRunNoLaunch
<1>5. CASE /\ runs' = Append(runs, NewRun(d, "room")) /\ job'.at # "launch"
           /\ UNCHANGED <<room, file>>
           /\ ~\E x \in room.threads : x.node = d.node /\ x.status \in AtWork
  <2>1. \A k \in DOMAIN runs : Live(k) => runs[k].node # d.node
    BY <1>2, <1>5 DEF WInv, LiveAreShown, Shown
  <2> QED BY <1>2, <1>5, <2>1, NewRunKeeps
<1> QED BY <1>3, <1>4, <1>5

\* A run that has not ended is recorded as started.
LEMMA StartedKeeps ==
  ASSUME IInv, WInv, NEW k, Aside, job'.at # "launch",
         Records(k, Event("started", {})), runs[k].log.status # "ended"
  PROVE  WInv'
<1>1. CASE k \notin DOMAIN runs
  <2>1. UNCHANGED runs
    BY <1>1 DEF Records, WInv, IsSeq
  <2> QED BY <2>1, NoRunNoLaunch DEF Aside
<1>2. CASE k \in DOMAIN runs
  <2>1. Sound(runs[k]) /\ IsLog(runs[k].log)
    BY <1>2 DEF WInv, RunFacts, Sound, Whole, IsLog, Log
  <2>2. PICK old : old = runs[k].log
    OBVIOUS
  <2>3. runs' = [runs EXCEPT ![k].log = Log("running", old.loadable, old.pending)]
    BY <2>1, <2>2, FoldIs DEF Records
  <2> QED BY <1>2, <2>1, <2>2, <2>3, LogChanges DEF Sound
<1> QED BY <1>1, <1>2

LEMMA StartKeepsW == IInv /\ WInv /\ Start => WInv'
<1> SUFFICES ASSUME IInv, WInv, Start PROVE WInv'
  OBVIOUS
<1>1. PICK k : k = job.run
  OBVIOUS
<1>2. Aside /\ job'.at # "launch"
  BY JobGoes DEF Start, Fail, Idle, Aside
<1>3. CASE UNCHANGED runs
  BY <1>2, <1>3, NoRunNoLaunch DEF Aside
<1>4. CASE k \notin DOMAIN runs /\ runs' = Ended(k)
  <2>1. UNCHANGED runs
    BY <1>4 DEF Ended, WInv, IsSeq
  <2> QED BY <1>3, <2>1
<1>5. CASE Records(k, Event("started", {})) /\ runs[k].log.status # "ended"
  BY <1>2, <1>5, StartedKeeps
<1>6. CASE k \in DOMAIN runs /\ runs' = Ended(k)
  BY <1>2, <1>6, EndKeeps DEF Ended, Endings
<1> QED BY <1>1, <1>3, <1>4, <1>5, <1>6 DEF Start

\* A step of the room that changes the log of a run that counts, or is not in view.
LEMMA RoomChanges ==
  ASSUME IInv, WInv, NEW k \in DOMAIN runs, Grows, job'.at # "launch",
         NEW log, IsLog(log), log.status \in {"starting", "running"},
         DOMAIN log.pending \subseteq DOMAIN runs[k].log.pending,
         log.status = "starting" => ~runs[k].turn,
         runs' = [runs EXCEPT ![k].log = log],
         InView(k)' => Live(k)
  PROVE  WInv'
<1>1. PICK r, new : r = runs[k] /\ new = runs'[k]
  OBVIOUS
<1>2. /\ Sound(r) /\ (r.cancelled => k \in stopped)
      /\ (InView(k) /\ r.prompted => ~r.idle /\ ~r.turn)
  BY <1>1 DEF WInv, RunFacts
<1>3. Changed(k) /\ new = [r EXCEPT !.log = log]
  BY <1>1 DEF WInv, IsSeq, Changed
<1>4. new = [thread |-> r.thread, node |-> r.node, parent |-> r.parent, by |-> r.by,
             log |-> log, failed |-> r.failed, turn |-> r.turn,
             prompted |-> r.prompted, idle |-> r.idle,
             cancelled |-> r.cancelled, offers |-> r.offers]
  BY <1>2, <1>3 DEF Sound, Whole
<1>5. Sound(new)
  <2>1. new.log = log /\ new.turn = r.turn /\ new.idle = r.idle
    BY <1>4
  <2>2. Whole(new)
    BY <1>4, <2>1 DEF Whole, IsLog, Log
  <2> QED BY <1>1, <1>2, <2>1, <2>2 DEF Sound
<1>6. RunFacts(k)'
  BY <1>1, <1>2, <1>4, <1>5 DEF RunFacts, Grows, Live
<1> QED BY <1>1, <1>3, <1>4, <1>6, OneRunChanges DEF Live

\* The request of a handler that passes an answer on keeps its run alive.
LEMMA AnsweredIsLive ==
  ASSUME IInv, NEW k, InView(k), job.at \in Passing, job.do = "answer",
         job.about \in DOMAIN runs[k].log.pending
  PROVE  Live(k)
<1>1. job.about \notin file.answers
  BY DEF IInv, HandlerKnows
<1>2. job.about \in Unanswered(runs[k])
  BY <1>1 DEF Unanswered
<1> QED BY <1>2 DEF Live

LEMMA ControlKeepsW == IInv /\ WInv /\ Control => WInv'
<1> SUFFICES ASSUME IInv, WInv, Control PROVE WInv'
  OBVIOUS
<1>1. PICK k : k = job.run
  OBVIOUS
<1>2. /\ UNCHANGED <<file, room, stopped>> /\ steered \subseteq steered'
      /\ job.at = "control" /\ job'.at # "launch"
  BY JobGoes DEF Control, Step, Fail, Idle, SteeredIf
<1>3. CASE UNCHANGED <<runs, steered>>
  BY <1>2, <1>3, NoRunNoLaunch
<1>4. CASE /\ Allowed(k, job.about) /\ ~Running(k)
           /\ Records(k, Event("resuming", DOMAIN runs[k].log.pending))
           /\ SteeredIf(job.do = "prompt")
  <2>1. CASE k \notin DOMAIN runs
    <3>1. UNCHANGED runs
      BY <1>4, <2>1 DEF Records, WInv, IsSeq
    <3> QED BY <1>2, <3>1, NothingRuns DEF Grows
  <2>2. CASE k \in DOMAIN runs
    <3>1. PICK old : old = runs[k].log
      OBVIOUS
    <3>2. PICK log : log = Log("starting", TRUE, [p \in DOMAIN old.pending |-> "message"])
      OBVIOUS
    <3>3. /\ Sound(runs[k]) /\ IsLog(old)
          /\ (InView(k) /\ runs[k].prompted => ~runs[k].idle /\ ~runs[k].turn)
      BY <2>2, <3>1 DEF WInv, RunFacts, Sound, Whole, IsLog, Log
    <3>4. runs' = [runs EXCEPT ![k].log = log]
      <4>1. Fold(old, Event("resuming", DOMAIN old.pending)) = log
        BY <3>2, <3>3, FoldIs
      <4> QED BY <1>4, <3>1, <4>1 DEF Records
    <3>5. IsLog(log) /\ log.status = "starting" /\ DOMAIN log.pending = DOMAIN old.pending
      BY <3>2 DEF IsLog, Log
    <3>6. ~runs[k].turn
      BY <1>4, <3>3 DEF Allowed, Running, Sound
    <3>7. InView(k)' => InView(k) /\ job.do # "prompt"
      <4>1. runs'[k] = [runs[k] EXCEPT !.log = log]
        BY <2>2, <3>4 DEF WInv, IsSeq
      <4>2. runs'[k].by = runs[k].by
        BY <3>3, <4>1 DEF Sound, Whole
      <4> QED BY <1>1, <1>2, <1>4, <4>2 DEF InView, SteeredIf
    <3>8. InView(k)' => Live(k)
      <4>1. job.do # "prompt" => Response(k, job.about) = "message"
        BY <1>4 DEF Allowed
      <4>2. InView(k)' => job.do = "answer" /\ job.about \in DOMAIN runs[k].log.pending
        <5>1. InView(k)' => job.about \in DOMAIN runs[k].log.pending
          BY <3>7, <4>1 DEF Response
        <5>2. DOMAIN runs[k].log.pending \subseteq Request
          BY <3>3 DEF Sound
        <5> QED BY <1>2, <5>1, <5>2 DEF IInv, HandlerKnows
      <4> QED BY <1>2, <3>7, <4>2, AnsweredIsLive
    <3> QED BY <1>2, <2>2, <3>1, <3>3, <3>4, <3>5, <3>6, <3>7, <3>8, RoomChanges DEF Grows
  <2> QED BY <2>1, <2>2
<1> QED BY <1>1, <1>3, <1>4 DEF Control

LEMMA ResumeKeepsW == IInv /\ WInv /\ Resume => WInv'
<1> SUFFICES ASSUME IInv, WInv, Resume PROVE WInv'
  OBVIOUS
<1>1. PICK k : k = job.run
  OBVIOUS
<1>2. Aside /\ job'.at # "launch"
  BY JobGoes DEF Resume, Fail, Idle, Aside
<1>3. CASE UNCHANGED runs
  BY <1>2, <1>3, NoRunNoLaunch DEF Aside
<1>4. CASE Records(k, Event("started", {})) /\ runs[k].log.status # "ended"
  BY <1>2, <1>4, StartedKeeps
<1> QED BY <1>1, <1>3, <1>4 DEF Resume

\* The run that is prompted or stopped does not count any more, or it is prompted
\* for the first time.
LEMMA PassOnKeepsW == IInv /\ WInv /\ PassOn => WInv'
<1> SUFFICES ASSUME IInv, WInv, PassOn PROVE WInv'
  OBVIOUS
<1>1. PICK k : k = job.run
  OBVIOUS
<1>2. UNCHANGED <<file, room>> /\ job.at \in {"pass", "followUp"} /\ job'.at # "launch"
  BY JobGoes DEF PassOn, AfterPassing, Fail, Idle
<1>3. CASE UNCHANGED <<runs, stopped, steered>>
  BY <1>2, <1>3, NoRunNoLaunch
<1>4. CASE Written
  <2>1. PICK prompt : prompt = (job.do = "prompt" \/ job.at = "followUp")
    OBVIOUS
  <2>2. /\ runs' = [runs EXCEPT ![k].prompted = @ \/ prompt]
        /\ Grows
        /\ steered' = IF job.do = "prompt" \/ (job.at = "followUp" /\ HadATurn(k))
                      THEN steered \cup {k} ELSE steered
    BY <1>1, <1>2, <1>4, <2>1 DEF Written, Grows, SteeredIf
  <2>3. CASE k \notin DOMAIN runs
    <3>1. UNCHANGED runs
      BY <2>2, <2>3 DEF WInv, IsSeq
    <3> QED BY <1>2, <2>2, <3>1, NothingRuns
  <2>4. CASE k \in DOMAIN runs
    <3>1. PICK r : r = runs[k]
      OBVIOUS
    <3>2. /\ Sound(r) /\ (r.cancelled => k \in stopped)
          /\ (InView(k) /\ r.prompted => ~r.idle /\ ~r.turn)
      BY <2>4, <3>1 DEF WInv, RunFacts
    <3>3. Changed(k) /\ runs'[k] = [r EXCEPT !.prompted = @ \/ prompt]
      BY <2>2, <2>4, <3>1 DEF WInv, IsSeq, Changed
    <3>4. PICK prompted : prompted = (r.prompted \/ prompt)
      OBVIOUS
    <3>5. runs'[k] = [thread |-> r.thread, node |-> r.node, parent |-> r.parent, by |-> r.by,
                      log |-> r.log, failed |-> r.failed, turn |-> r.turn,
                      prompted |-> prompted, idle |-> r.idle,
                      cancelled |-> r.cancelled, offers |-> r.offers]
      BY <3>2, <3>3, <3>4 DEF Sound, Whole
    <3>6. InView(k)' => InView(k)
      BY <2>2, <3>1, <3>5 DEF InView, Grows
    <3>7. InView(k)' /\ prompted => ~r.idle /\ ~r.turn
      BY <2>1, <2>2, <3>1, <3>2, <3>4, <3>6 DEF InView, HadATurn
    <3>8. Sound(runs'[k])
      <4>1. PICK new : new = runs'[k]
        OBVIOUS
      <4>2. new.log = r.log /\ new.turn = r.turn /\ new.idle = r.idle
        BY <3>5, <4>1
      <4>3. Whole(new)
        BY <3>2, <3>5, <4>1, <4>2 DEF Whole, Sound
      <4> QED BY <3>2, <4>1, <4>2, <4>3 DEF Sound
    <3>9. RunFacts(k)'
      BY <2>2, <3>2, <3>5, <3>7, <3>8 DEF RunFacts, Grows
    <3>10. runs'[k].log = r.log /\ runs'[k].idle = r.idle /\ runs'[k].node = r.node
      BY <3>5
    <3>11. Live(k)' => Live(k)
      BY <1>2, <3>1, <3>6, <3>10 DEF Live, AtIt, Unanswered
    <3> QED BY <1>2, <2>2, <3>1, <3>3, <3>9, <3>10, <3>11, OneRunChanges
  <2> QED BY <2>3, <2>4
<1> QED BY <1>3, <1>4 DEF PassOn

LEMMA RecordAnswerKeepsW == IInv /\ WInv /\ RecordAnswer => WInv'
<1> SUFFICES ASSUME IInv, WInv, RecordAnswer PROVE WInv'
  OBVIOUS
<1>1. PICK k, q : k = job.run /\ q = job.about
  OBVIOUS
<1>2. Aside /\ job'.at # "launch"
  BY JobGoes DEF RecordAnswer, Fail, Idle, Aside
<1>3. CASE UNCHANGED runs
  BY <1>2, <1>3, NoRunNoLaunch DEF Aside
<1>4. CASE runs[k].log.status # "ended" /\ Records(k, Event("resolved", {q}))
  <2>1. CASE k \notin DOMAIN runs
    <3>1. UNCHANGED runs
      BY <1>4, <2>1 DEF Records, WInv, IsSeq
    <3> QED BY <1>3, <3>1
  <2>2. CASE k \in DOMAIN runs
    <3>1. Sound(runs[k]) /\ IsLog(runs[k].log)
      BY <2>2 DEF WInv, RunFacts, Sound, Whole, IsLog, Log
    <3>2. PICK old, pending : old = runs[k].log /\ pending = WithResolved(old.pending, {q})
      OBVIOUS
    <3>3. runs' = [runs EXCEPT ![k].log = Log(old.status, old.loadable, pending)]
      BY <1>4, <3>1, <3>2, FoldIs DEF Records
    <3>4. DOMAIN pending \subseteq DOMAIN old.pending
      BY <3>2 DEF WithResolved, Restrict
    <3>5. /\ old.status \in {"starting", "running"} /\ DOMAIN old.pending \subseteq Request
          /\ old.status = "starting" => old.loadable = FALSE \/ ~runs[k].turn
      BY <1>4, <3>1, <3>2 DEF Sound
    <3>6. PICK st, loadable : st = old.status /\ loadable = old.loadable
      OBVIOUS
    <3>7. /\ runs' = [runs EXCEPT ![k].log = Log(st, loadable, pending)]
          /\ st \in {"starting", "running", "ended"} /\ st # "ended"
          /\ st = "starting" => loadable = FALSE \/ ~runs[k].turn
          /\ runs[k].log.status # "ended"
          /\ DOMAIN pending \subseteq Request
          /\ DOMAIN pending \subseteq DOMAIN runs[k].log.pending
      BY <1>4, <3>2, <3>3, <3>4, <3>5, <3>6
    <3> QED BY <1>2, <2>2, <3>7, LogChanges
  <2> QED BY <2>1, <2>2
<1> QED BY <1>1, <1>3, <1>4 DEF RecordAnswer

LEMMA MarkKeepsW == IInv /\ WInv /\ Mark => WInv'
<1> SUFFICES ASSUME IInv, WInv, Mark PROVE WInv'
  OBVIOUS
<1>1. /\ UNCHANGED <<runs, stopped, steered>> /\ job'.at # "launch"
      /\ room.state = file
  BY JobGoes DEF Mark, Step, IInv, MemoryIsFile
<1>2. file.answers \subseteq file'.answers
  BY <1>1 DEF Mark, Remember, IInv, Shapes
<1> QED BY <1>1, <1>2, NoRunNoLaunch

-----------------------------------------------------------------------------
(* Every step *)

LEMMA OtherStartsKeepsW ==
  ASSUME WInv, NEW n \in Node, OtherStarts(n), UNCHANGED world
  PROVE  WInv'
<1>1. PICK d : d = [thread |-> Fresh, node |-> n, parent |-> NoThread]
  OBVIOUS
<1>2. runs' = Append(runs, NewRun(d, "other"))
  BY <1>1 DEF OtherStarts
<1> QED BY <1>2, NewRunKeeps DEF world

LEMMA QuietKeepsW ==
  ASSUME IInv, WInv, UNCHANGED <<runs, file, stopped, steered>>,
         \/ Refresh \/ UNCHANGED <<room, job>> \/ job' = Idle
  PROVE  WInv'
  BY NothingRuns DEF Grows, Idle

LEMMA StepKeepsW == IInv /\ WInv /\ [Next]_vars => WInv'
<1> SUFFICES ASSUME IInv, WInv, [Next]_vars PROVE WInv'
  OBVIOUS
<1>1. CASE Handle
  BY <1>1, ReviewKeepsW, LaunchKeepsW, StartKeepsW, ControlKeepsW, ResumeKeepsW,
     PassOnKeepsW, RecordAnswerKeepsW, MarkKeepsW, QuietKeepsW DEF Handle, Reviewed, Finish
<1>2. CASE \E t \in Used \cup {Fresh}, n \in Node, p \in Parents, a \in Agent :
             Dispatch(t, n, p, a)
  BY <1>2, MessageKeepsW DEF Dispatch
<1>3. CASE \E t \in Used :
             \/ \E q \in Request : Answer(t, q)
             \/ Steer(t) \/ Cancel(t)
             \/ \E n \in Node, do \in {"accept", "reject"} : Resolve(t, n, do)
  BY <1>3, MessageKeepsW DEF Answer, Steer, Cancel, Bid, Resolve
<1>4. CASE Tick \/ Connect \/ Crash
  BY <1>4, QuietKeepsW DEF Tick, Connect, Crash
<1>5. CASE (\E k \in DOMAIN runs : Run(k)) /\ UNCHANGED world
  BY <1>5, RunKeeps
<1>6. CASE (\E n \in Node : OtherStarts(n)) /\ UNCHANGED world
  BY <1>6, OtherStartsKeepsW
<1>7. CASE \E n \in Node : Deletes(n)
  BY <1>7, QuietKeepsW DEF Deletes
<1>8. CASE UNCHANGED vars
  BY <1>8, QuietKeepsW DEF vars
<1> QED BY <1>1, <1>2, <1>3, <1>4, <1>5, <1>6, <1>7, <1>8 DEF Next

\* However messages, restarts, agents and other processes go on beside each
\* other, no bullet gets a second agent of the room while the first works
\* (Dispatch and answerQuestion in handleWork, OutlineRoom.ts).
THEOREM OneWorkerPerNodeHolds == Spec => []OneWorkerPerNode
<1>1. WInv => OneWorkerPerNode
  BY DEF WInv, OneLive, OneWorkerPerNode, Busy, Live, InView, AtIt
<1>2. Init => IInv /\ WInv
  BY InitHolds, InitWInv
<1>3. IInv /\ WInv /\ [Next]_vars => (IInv /\ WInv)'
  BY StepKeeps, StepKeepsW
<1>4. IInv /\ WInv => OneWorkerPerNode
  BY <1>1
<1> QED BY <1>2, <1>3, <1>4, PTL DEF Spec
=============================================================================
