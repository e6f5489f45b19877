---------------------------- MODULE RunLogProofs ----------------------------
(* Proofs about the execution log, for any number of processes, runs, events *)
(* and crashes, as long as nobody dies between emptying the file and writing *)
(* it again; and about the writer lock it is written under, for any set of   *)
(* tasks and processes, any assignment of tasks to processes and any number  *)
(* of deaths.                                                                *)
EXTENDS RunLog, WriterLock, SequenceTheorems, WellFoundedInduction, TLAPS

-----------------------------------------------------------------------------
(* Induction over the natural numbers, for a set that has 0 and with each    *)
(* number the next: the least number outside would have a predecessor inside.*)
LEMMA NatSetInduction ==
  ASSUME NEW S, 0 \in S, \A n \in Nat : n \in S => n + 1 \in S
  PROVE  Nat \subseteq S
<1>1. SUFFICES ASSUME NEW T, T = Nat \ S, T # {} PROVE FALSE
  OBVIOUS
<1>2. PICK R : R = {ss \in Nat \X Nat : ss[1] < ss[2]}
  OBVIOUS
<1>3. IsWellFoundedOn(R, Nat) /\ T \subseteq Nat
  BY <1>1, <1>2, NatLessThanWellFounded DEF OpToRel
<1>4. PICK x \in T : \A y \in T : ~(<<y, x>> \in R)
  BY <1>1, <1>3, WFMin
<1>5. PICK y : y = x - 1
  OBVIOUS
<1>6. x \in Nat /\ x # 0
  BY <1>1
<1>7. y \in Nat /\ y + 1 = x /\ y < x
  BY <1>5, <1>6
<1>8. <<y, x>> \in R
  BY <1>2, <1>6, <1>7
<1> QED BY <1>1, <1>4, <1>7, <1>8

-----------------------------------------------------------------------------
(* What an acceptable event does to a log *)

LEMMA AppendAt ==
  ASSUME NEW log \in Seq(Event), NEW e \in Event
  PROVE  /\ Append(log, e) \in Seq(Event)
         /\ DOMAIN Append(log, e) = DOMAIN log \cup {Len(log) + 1}
         /\ Append(log, e)[Len(log) + 1] = e
         /\ \A i \in DOMAIN log : Append(log, e)[i] = log[i]
         /\ DOMAIN log = 1..Len(log) /\ Len(log) \in Nat
  OBVIOUS

LEMMA AcceptedIsNew ==
  ASSUME NEW log \in Seq(Event), NEW e \in Event, Acceptable(log, e),
         OnceEach(log)
  PROVE  OnceEach(Append(log, e))
<1> DEFINE new == Append(log, e)
           n == Len(log) + 1
<1>1. SUFFICES ASSUME NEW i \in DOMAIN new, NEW j \in DOMAIN new,
                      new[i].id = new[j].id
               PROVE  i = j
  BY DEF OnceEach
<1>2. CASE i \in DOMAIN log /\ j \in DOMAIN log
  BY <1>1, <1>2, AppendAt DEF OnceEach
<1>3. CASE i = n /\ j \in DOMAIN log
  BY <1>1, <1>3, AppendAt DEF Acceptable
<1>4. CASE i \in DOMAIN log /\ j = n
  BY <1>1, <1>4, AppendAt DEF Acceptable
<1>5. CASE i = n /\ j = n
  BY <1>5
<1> QED BY <1>2, <1>3, <1>4, <1>5, AppendAt

\* After an ending nothing but a restart is acceptable, whatever came between.
LEMMA AcceptedIsOpen ==
  ASSUME NEW log \in Seq(Event), NEW e \in Event, Acceptable(log, e),
         Closed(log)
  PROVE  Closed(Append(log, e))
<1> DEFINE new == Append(log, e)
           n == Len(log) + 1
<1>1. SUFFICES ASSUME NEW i \in DOMAIN new, NEW j \in DOMAIN new,
                      i < j, new[i].run = new[j].run, new[i].kind \in Endings
               PROVE  \E k \in (i+1)..j : new[k].run = new[i].run /\ Restarts(new[k])
  BY DEF Closed
<1>2. i \in DOMAIN log /\ new[i] = log[i]
  BY <1>1, AppendAt
<1>3. CASE j \in DOMAIN log
  <2>1. PICK k \in (i+1)..j : log[k].run = log[i].run /\ Restarts(log[k])
    BY <1>1, <1>2, <1>3, AppendAt DEF Closed
  <2> QED BY <2>1, <1>2, <1>3, AppendAt
<1>4. CASE j = n
  <2>1. CASE Ended(log, e.run)
    <3>1. Restarts(e)
      BY <2>1 DEF Acceptable
    <3> QED BY <3>1, <1>1, <1>2, <1>4, AppendAt
  <2>2. CASE ~Ended(log, e.run)
    <3>1. i \in EventsOf(log, e.run)
      BY <1>1, <1>2, <1>4, AppendAt DEF EventsOf
    <3>2. PICK b \in EventsOf(log, e.run) : b > i /\ log[b].kind \in Beginnings
      BY <2>2, <3>1, <1>1, <1>2 DEF Ended
    <3>3. b \in DOMAIN log /\ log[b].run = log[i].run
      BY <3>1, <3>2 DEF EventsOf
    <3>4. PICK k \in (i+1)..b : log[k].run = log[i].run /\ Restarts(log[k])
      BY <3>2, <3>3, <1>1, <1>2, AppendAt DEF Closed
    <3>5. k \in (i+1)..j /\ k \in DOMAIN log
      BY <3>3, <3>4, <1>2, <1>4, AppendAt
    <3> QED BY <3>4, <3>5, <1>2, AppendAt
  <2> QED BY <2>1, <2>2
<1> QED BY <1>3, <1>4, AppendAt

-----------------------------------------------------------------------------
(* The inductive invariant.  Whoever writes holds the lock; what it read is  *)
(* still what is in the file, or what it is about to write there again; and  *)
(* the event in its hand is acceptable after it.                             *)

HandInv ==
  \A p \in Process :
    /\ pc[p] # "idle" => event[p] \in Event
    /\ pc[p] \in {"truncating", "rewriting", "appending"} =>
         Acceptable(text[p], event[p])
    /\ pc[p] \in {"truncating", "appending"} => lines = text[p]
    /\ pc[p] \in {"rewriting", "appending"} => torn = FALSE
    /\ pc[p] = "checkpointing" => lines = Append(text[p], event[p])

IInv ==
  /\ TypeOK
  /\ HandInv
  /\ AckedIsKept
  /\ OnceEach(Settled)
  /\ Closed(Settled)

LEMMA OneWriter ==
  ASSUME TypeOK, NEW p \in Process, NEW o \in Process,
         pc[p] \in Writing, pc[o] \in Writing
  PROVE  p = o
  BY NoneAssumption DEF TypeOK

LEMMA SettledIs ==
  ASSUME TypeOK
  PROVE  /\ \A p \in Process : pc[p] = "rewriting" => Settled = text[p]
         /\ (\A p \in Process : pc[p] # "rewriting") => Settled = lines
         /\ Settled \in Seq(Event)
<1>1. ASSUME NEW p \in Process, pc[p] = "rewriting"
      PROVE  Settled = text[p]
  <2> DEFINE o == CHOOSE o \in Process : pc[o] = "rewriting"
  <2>1. o \in Process /\ pc[o] = "rewriting"
    BY <1>1
  <2>2. o = p
    BY <1>1, <2>1, OneWriter DEF Writing
  <2> QED BY <1>1, <2>2 DEF Settled
<1>2. (\A p \in Process : pc[p] # "rewriting") => Settled = lines
  BY DEF Settled
<1> QED BY <1>1, <1>2 DEF TypeOK

LEMMA InitInv == Init => IInv
<1> SUFFICES ASSUME Init PROVE IInv
  OBVIOUS
<1>1. TypeOK
  <2>1. text \in [Process -> Seq(Event)] /\ lines \in Seq(Event)
    BY DEF Init
  <2>2. \A p \in Process : pc[p] \in Writing <=> holder = p
    BY NoneAssumption DEF Init, Writing
  <2>3. DOMAIN state = Runs /\ crashes \in 0..MaxCrashes
    BY BoundAssumption DEF Init
  <2> QED BY <2>1, <2>2, <2>3 DEF Init, TypeOK
<1>2. HandInv
  BY DEF Init, HandInv
<1>3. Settled = <<>>
  BY DEF Init, Settled
<1>4. OnceEach(Settled) /\ Closed(Settled)
  BY <1>3 DEF OnceEach, Closed
<1>5. AckedIsKept
  BY DEF Init, AckedIsKept, Answered
<1> QED BY <1>1, <1>2, <1>4, <1>5 DEF IInv

-----------------------------------------------------------------------------
(* The steps.  Each leaves the settled log alone or appends to it.           *)

Grows ==
  \/ Settled' = Settled
  \/ \E e \in Event : Acceptable(Settled, e) /\ Settled' = Append(Settled, e)

\* Where a step leaves the settled log alone, what was answered stays in it.
LEMMA AckedStays ==
  ASSUME IInv, Settled' = Settled,
         \A i \in EventId :
           i \in Answered' => i \in Answered \/ Logs(Settled, i)
  PROVE  AckedIsKept'
  BY DEF IInv, AckedIsKept, Answered

LEMMA CallStep ==
  ASSUME IInv, NEW p \in Process, NEW e \in Event, Call(p, e)
  PROVE  IInv' /\ Grows
<1> USE DEF Call, files
<1>1. TypeOK'
  BY DEF IInv, TypeOK, Writing
<1>2. HandInv'
  BY DEF IInv, TypeOK, HandInv
<1>3. Settled' = Settled
  BY SettledIs, <1>1 DEF IInv, TypeOK, Settled
<1>4. Answered' = Answered
  BY DEF Answered
<1> QED BY <1>1, <1>2, <1>3, <1>4, AckedStays DEF IInv, Grows, OnceEach, Closed

LEMMA CallAgainStep ==
  ASSUME IInv, NEW p \in Process, NEW e \in Event, CallAgain(p, e)
  PROVE  IInv' /\ Grows
<1> USE DEF CallAgain, files
<1>1. TypeOK'
  BY DEF IInv, TypeOK, Writing
<1>2. HandInv'
  BY DEF IInv, TypeOK, HandInv
<1>3. Settled' = Settled
  BY SettledIs, <1>1 DEF IInv, TypeOK, Settled
<1>4. Answered' = Answered
  BY DEF Answered
<1> QED BY <1>1, <1>2, <1>3, <1>4, AckedStays DEF IInv, Grows, OnceEach, Closed

LEMMA VerdictIs ==
  ASSUME NEW log, NEW e
  PROVE  /\ Verdict(log, e) \in {"written", "known", "dropped", "refused"}
         /\ ~Acceptable(log, e) => Verdict(log, e) # "written"
         /\ Verdict(log, e) = "known" => Logs(log, e.id)
  BY DEF Verdict, Logs

\* Nobody holds the lock, so nobody writes, and the file is the log.
LEMMA AdmitStep ==
  ASSUME IInv, NEW p \in Process, Admit(p)
  PROVE  IInv' /\ Grows
<1>1. \A o \in Process : pc[o] \notin Writing
  BY NoneAssumption DEF Admit, IInv, TypeOK
<1>2. event[p] \in Event /\ event[p].id \in EventId
  BY DEF Admit, IInv, HandInv, Event
<1>3. CASE Acceptable(lines, event[p])
  <2> DEFINE there == IF torn THEN "truncating" ELSE "appending"
  <2>1. /\ text' = [text EXCEPT ![p] = lines]
        /\ holder' = p
        /\ pc' = [pc EXCEPT ![p] = there]
        /\ UNCHANGED <<lines, torn, state, sent, event, answer, crashes>>
    BY <1>3 DEF Admit, files
  <2>2. there \in Writing /\ there # "rewriting" /\ there # "checkpointing"
        /\ (there = "appending" => torn = FALSE)
    BY DEF Writing, IInv, TypeOK
  <2> HIDE DEF there
  <2>3. TypeOK'
    BY <1>1, <2>1, <2>2 DEF IInv, TypeOK, Writing
  <2>4. HandInv'
    BY <1>1, <1>2, <1>3, <2>1, <2>2 DEF IInv, TypeOK, HandInv, Writing
  <2>5. Settled' = Settled
    BY <1>1, <2>1, <2>2 DEF Settled, IInv, TypeOK, Writing
  <2>6. Answered' = Answered
    BY <2>1 DEF Answered
  <2> QED BY <2>3, <2>4, <2>5, <2>6, AckedStays DEF IInv, Grows, OnceEach, Closed
<1>4. CASE ~Acceptable(lines, event[p])
  <2>1. /\ pc' = [pc EXCEPT ![p] = "idle"]
        /\ event' = [event EXCEPT ![p] = NoEvent]
        /\ answer' = [answer EXCEPT ![event[p].id] = Verdict(lines, event[p])]
        /\ UNCHANGED <<lines, torn, state, holder, text, sent, crashes>>
    BY <1>4 DEF Admit, files
  <2>2. TypeOK'
    BY <1>1, <1>2, <2>1, VerdictIs DEF IInv, TypeOK, Writing
  <2>3. HandInv'
    BY <2>1 DEF IInv, TypeOK, HandInv
  <2>4. Settled = lines /\ Settled' = Settled
    BY <1>1, <2>1 DEF Settled, IInv, TypeOK, Writing
  <2>5. ASSUME NEW i \in EventId, i \in Answered'
        PROVE  i \in Answered \/ Logs(Settled, i)
    <3>1. CASE i = event[p].id
      BY <1>2, <1>4, <2>1, <2>4, <2>5, <3>1, VerdictIs DEF Answered, IInv, TypeOK
    <3>2. CASE i # event[p].id
      BY <2>1, <2>5, <3>2 DEF Answered, IInv, TypeOK
    <3> QED BY <3>1, <3>2
  <2> QED BY <2>2, <2>3, <2>4, <2>5, AckedStays DEF IInv, Grows, OnceEach, Closed
<1> QED BY <1>3, <1>4

LEMMA TruncateStep ==
  ASSUME IInv, NEW p \in Process, Truncate(p)
  PROVE  IInv' /\ Grows
<1> USE DEF Truncate
<1>1. \A o \in Process : pc[o] \in Writing => o = p
  BY OneWriter DEF IInv, Writing
<1>2. TypeOK'
  <2>1. lines' \in Seq(Event) /\ torn' \in BOOLEAN
    <3>1. lines' = <<>> /\ torn' = FALSE
      OBVIOUS
    <3>2. <<>> \in Seq(Event)
      OBVIOUS
    <3> QED BY <3>1, <3>2
  <2>2. pc' \in [Process -> {"idle", "waiting"} \cup Writing]
    BY DEF IInv, TypeOK, Writing
  <2>3. \A o \in Process : pc'[o] \in Writing <=> holder' = o
    BY DEF IInv, TypeOK, Writing
  <2> QED BY <2>1, <2>2, <2>3 DEF IInv, TypeOK
<1>3. HandInv'
  BY <1>1 DEF IInv, TypeOK, HandInv, Writing
<1>4. Settled = lines /\ lines = text[p]
  BY <1>1, SettledIs DEF IInv, HandInv, Writing
<1>5. Settled' = text[p]
  <2>1. pc'[p] = "rewriting" /\ \A o \in Process : o # p => pc'[o] # "rewriting"
    BY <1>1 DEF IInv, TypeOK, Writing
  <2> QED BY <2>1 DEF Settled
<1>6. Settled' = Settled /\ Answered' = Answered
  BY <1>4, <1>5 DEF Answered
<1> QED BY <1>2, <1>3, <1>6, AckedStays DEF IInv, Grows, OnceEach, Closed

LEMMA RewriteStep ==
  ASSUME IInv, NEW p \in Process, Rewrite(p)
  PROVE  IInv' /\ Grows
<1> USE DEF Rewrite
<1>1. \A o \in Process : pc[o] \in Writing => o = p
  BY OneWriter DEF IInv, Writing
<1>2. TypeOK'
  BY DEF IInv, TypeOK, Writing
<1>3. HandInv'
  <2>1. torn = FALSE
    BY DEF IInv, HandInv
  <2> QED BY <1>1, <2>1 DEF IInv, TypeOK, HandInv, Writing
<1>4. Settled = text[p]
  BY SettledIs DEF IInv
<1>5. Settled' = text[p]
  BY <1>1 DEF Settled, IInv, TypeOK, Writing
<1>6. Settled' = Settled /\ Answered' = Answered
  BY <1>4, <1>5 DEF Answered
<1> QED BY <1>2, <1>3, <1>6, AckedStays DEF IInv, Grows, OnceEach, Closed

\* The one step that adds to the log.
LEMMA AppendStep ==
  ASSUME IInv, NEW p \in Process, AppendLine(p)
  PROVE  IInv' /\ Grows
<1> USE DEF AppendLine
<1>1. \A o \in Process : pc[o] \in Writing => o = p
  BY OneWriter DEF IInv, Writing
<1>2. /\ lines = text[p] /\ torn = FALSE /\ event[p] \in Event
      /\ Acceptable(text[p], event[p])
  BY DEF IInv, HandInv
<1>3. lines' = Append(lines, event[p]) /\ lines \in Seq(Event)
  BY <1>2 DEF IInv, TypeOK
<1>4. TypeOK'
  <2>1. lines' \in Seq(Event) /\ torn' \in BOOLEAN
    BY <1>2, <1>3, AppendAt
  <2>2. pc' \in [Process -> {"idle", "waiting"} \cup Writing]
    BY DEF IInv, TypeOK, Writing
  <2>3. \A o \in Process : pc'[o] \in Writing <=> holder' = o
    BY DEF IInv, TypeOK, Writing
  <2> QED BY <2>1, <2>2, <2>3 DEF IInv, TypeOK
<1>5. HandInv'
  BY <1>1, <1>2, <1>3 DEF IInv, TypeOK, HandInv, Writing
<1>6. Settled = lines
  BY <1>1, SettledIs DEF IInv, Writing
<1>7. Settled' = lines'
  BY <1>1 DEF Settled, IInv, TypeOK, Writing
<1>8. Acceptable(Settled, event[p]) /\ Settled' = Append(Settled, event[p])
      /\ Settled \in Seq(Event)
  BY <1>2, <1>3, <1>6, <1>7
<1>9. OnceEach(Settled') /\ Closed(Settled')
  BY <1>2, <1>8, AcceptedIsNew, AcceptedIsOpen DEF IInv
<1>10. AckedIsKept'
  <2>1. \A i \in EventId : Logs(Settled, i) => Logs(Settled', i)
    BY <1>2, <1>8, AppendAt DEF Logs
  <2> QED BY <2>1 DEF IInv, AckedIsKept, Answered
<1>11. Grows
  BY <1>2, <1>8 DEF Grows
<1> QED BY <1>4, <1>5, <1>9, <1>10, <1>11 DEF IInv, OnceEach, Closed

LEMMA CheckpointStep ==
  ASSUME IInv, NEW p \in Process, Checkpoint(p)
  PROVE  IInv' /\ Grows
<1> USE DEF Checkpoint
<1>1. \A o \in Process : pc[o] \in Writing => o = p
  BY OneWriter DEF IInv, Writing
<1>2. /\ event[p] \in Event /\ event[p].id \in EventId
      /\ text[p] \in Seq(Event)
      /\ lines = Append(text[p], event[p])
  BY DEF IInv, TypeOK, HandInv, Event
<1>3. TypeOK'
  <2>1. \A o \in Process : pc'[o] \in Writing <=> holder' = o
    BY <1>1, NoneAssumption DEF IInv, TypeOK, Writing
  <2> QED BY <2>1, <1>2 DEF IInv, TypeOK
<1>4. HandInv'
  BY <1>1 DEF IInv, TypeOK, HandInv, Writing
<1>5. Settled = lines
  BY <1>1, SettledIs DEF IInv, Writing
<1>6. Settled' = Settled
  BY <1>1, <1>5 DEF Settled, IInv, TypeOK, Writing
<1>7. Logs(Settled, event[p].id)
  BY <1>2, <1>5, AppendAt DEF Logs
<1>8. \A i \in EventId : i \in Answered' => i \in Answered \/ Logs(Settled, i)
  BY <1>2, <1>7 DEF Answered, IInv, TypeOK
<1> QED BY <1>3, <1>4, <1>6, <1>8, AckedStays DEF IInv, Grows, OnceEach, Closed

LEMMA CrashStep ==
  ASSUME IInv, NEW p \in Process, Crash(p), "rewriting" \notin CrashPoints
  PROVE  IInv' /\ Grows
<1> USE DEF Crash
<1>1. pc[p] # "rewriting" /\ lines' = lines /\ torn' \in BOOLEAN
  BY DEF IInv, TypeOK
<1>2. TypeOK'
  <2>1. \A o \in Process : pc'[o] \in Writing <=> holder' = o
    BY NoneAssumption DEF IInv, TypeOK, Writing
  <2>2. crashes' \in 0..MaxCrashes
    BY BoundAssumption DEF IInv, TypeOK
  <2> QED BY <1>1, <2>1, <2>2 DEF IInv, TypeOK
<1>3. HandInv'
  <2>1. pc[p] = "appending" => \A o \in Process : pc[o] \in Writing => o = p
    BY OneWriter DEF IInv, Writing
  <2>2. pc[p] # "appending" => torn' = torn
    BY <1>1
  <2> QED BY <1>1, <2>1, <2>2 DEF IInv, TypeOK, HandInv, Writing
<1>4. Settled' = Settled
  <2>1. \A o \in Process : pc'[o] = "rewriting" <=> pc[o] = "rewriting"
    BY <1>1 DEF IInv, TypeOK
  <2>2. CASE \E o \in Process : pc[o] = "rewriting"
    <3>1. PICK o \in Process : pc[o] = "rewriting"
      BY <2>2
    <3>2. Settled = text[o]
      BY <3>1, SettledIs DEF IInv
    <3>3. Settled' = text'[o]
      BY <1>2, <2>1, <3>1, OneWriter DEF Settled, IInv, Writing
    <3>4. text'[o] = text[o]
      BY <1>1, <3>1 DEF IInv, TypeOK
    <3> QED BY <3>2, <3>3, <3>4
  <2>3. CASE ~\E o \in Process : pc[o] = "rewriting"
    BY <1>1, <2>1, <2>3 DEF Settled
  <2> QED BY <2>2, <2>3
<1>5. Answered' = Answered
  BY DEF Answered
<1> QED BY <1>2, <1>3, <1>4, <1>5, AckedStays DEF IInv, Grows, OnceEach, Closed

LEMMA StutterStep == ASSUME IInv, UNCHANGED vars PROVE IInv' /\ Grows
<1> USE DEF vars
<1>1. TypeOK' /\ HandInv'
  BY DEF IInv, TypeOK, HandInv, Writing
<1>2. Settled' = Settled /\ Answered' = Answered
  BY DEF Settled, Answered
<1> QED BY <1>1, <1>2, AckedStays DEF IInv, Grows, OnceEach, Closed

LEMMA Step ==
  ASSUME "rewriting" \notin CrashPoints, IInv, [Next]_vars
  PROVE  IInv' /\ Grows
<1>1. CASE UNCHANGED vars
  BY <1>1, StutterStep
<1>2. CASE Next
  <2>1. ASSUME NEW p \in Process, NEW o \in Offered, NEW i \in EventId,
               Call(p, Named(o, i))
        PROVE  IInv' /\ Grows
    BY <2>1, OfferedAssumption, CallStep
  <2>2. ASSUME NEW p \in Process, NEW i \in EventId, sent[i] # NoEvent,
               CallAgain(p, sent[i])
        PROVE  IInv' /\ Grows
    <3>1. sent[i] \in Event
      BY <2>2 DEF IInv, TypeOK
    <3> QED BY <2>2, <3>1, CallAgainStep
  <2> QED
    BY <1>2, <2>1, <2>2, AdmitStep, TruncateStep, RewriteStep, AppendStep,
       CheckpointStep, CrashStep DEF Next
<1> QED BY <1>1, <1>2

-----------------------------------------------------------------------------
(* The theorems *)

\* What an acceptable event adds to the settled log is a step of RunHistory.
LEMMA GrowsIsHistory ==
  ASSUME Grows
  PROVE  [Settled' # Settled => History!Next]_Settled
<1>1. History!Event = Event
  BY DEF Event, Kinds, Beginnings, Endings, Signals, History!Event,
     History!Kinds, History!Beginnings, History!Endings, History!Signals
<1>2. ASSUME NEW log, NEW e
      PROVE  Acceptable(log, e) <=> History!Acceptable(log, e)
  BY DEF Acceptable, Ended, Known, Restarts, EventsOf, Beginnings, Endings,
     History!Acceptable, History!Ended, History!Known, History!Restarts,
     History!EventsOf, History!Beginnings, History!Endings
<1> QED BY <1>1, <1>2 DEF Grows, History!Next, History!Record

\* RunEventLog.append keeps to its types: in particular whoever is past the
\* lock is its holder.
THEOREM TypeCorrect ==
  ASSUME "rewriting" \notin CrashPoints
  PROVE  Spec => []TypeOK
<1>1. IInv /\ [Next]_vars => IInv'
  BY Step
<1>2. IInv => TypeOK
  BY DEF IInv
<1> QED BY <1>1, <1>2, InitInv, PTL DEF Spec

\* RunEventLog.append: an event whose append was answered is in events.jsonl
\* for good.  The repair of a torn tail is the one place where a death loses it.
THEOREM AckedIsKeptHolds ==
  ASSUME "rewriting" \notin CrashPoints
  PROVE  Spec => []AckedIsKept
<1>1. IInv /\ [Next]_vars => IInv'
  BY Step
<1>2. IInv => AckedIsKept
  BY DEF IInv
<1> QED BY <1>1, <1>2, InitInv, PTL DEF Spec

\* RunEventLog.append is idempotent in the event's id.
THEOREM LoggedOnceHolds ==
  ASSUME "rewriting" \notin CrashPoints
  PROVE  Spec => []LoggedOnce
<1>1. IInv /\ [Next]_vars => IInv'
  BY Step
<1>2. IInv => LoggedOnce
  BY DEF IInv, LoggedOnce
<1> QED BY <1>1, <1>2, InitInv, PTL DEF Spec

\* RunEventLog.append leaves one verdict of a run, and nothing after it but a
\* new start.
THEOREM EndedIsClosedHolds ==
  ASSUME "rewriting" \notin CrashPoints
  PROVE  Spec => []EndedIsClosed
<1>1. IInv /\ [Next]_vars => IInv'
  BY Step
<1>2. IInv => EndedIsClosed
  BY DEF IInv, EndedIsClosed
<1> QED BY <1>1, <1>2, InitInv, PTL DEF Spec

\* The log, its crashes and repairs implement the append-only history.
THEOREM AppendOnlyHolds ==
  ASSUME "rewriting" \notin CrashPoints
  PROVE  Spec => AppendOnly
<1>1. Init => History!Init
  BY DEF Init, Settled, History!Init
<1>2. IInv /\ [Next]_vars => IInv'
  BY Step
<1>3. IInv /\ [Next]_vars => [Settled' # Settled => History!Next]_Settled
  BY Step, GrowsIsHistory
<1> QED BY <1>1, <1>2, <1>3, InitInv, PTL DEF Spec, AppendOnly, History!Spec

-----------------------------------------------------------------------------
(* The checkpoints.  Run r's state.json is what the first n events of the    *)
(* log make of it, and none of its events that was answered comes later.     *)

PastIn(log, r, n) ==
  /\ n \in 0..Len(log)
  /\ state[r] = Projection(SubSeq(log, 1, n), r)
  /\ \A k \in EventsOf(log, r) : answer[log[k].id] = "written" => k <= n

Checkpoints == \A r \in Runs : \E n : PastIn(Settled, r, n)

LEMMA SamePrefix ==
  ASSUME NEW log \in Seq(Event), NEW e \in Event, NEW n \in 0..Len(log)
  PROVE  SubSeq(Append(log, e), 1, n) = SubSeq(log, 1, n)
<1>1. PICK m \in Nat : m = Len(log) /\ DOMAIN log = 1..m
  BY LenProperties
<1>2. PICK a : a = Append(log, e)
  OBVIOUS
<1>3. a \in Seq(Event) /\ Len(a) = m + 1 /\ \A k \in 1..m : a[k] = log[k]
  BY <1>1, <1>2, AppendProperties
<1>4. n \in 0..m
  BY <1>1
<1>5. 1 \in 1..(n + 1) /\ 1 \in 1..(m + 1) /\ n \in 0..(m + 1)
  BY <1>4
<1>6. /\ SubSeq(a, 1, n) \in Seq(Event) /\ Len(SubSeq(a, 1, n)) = n
      /\ \A k \in 1..n : SubSeq(a, 1, n)[k] = a[k]
  BY <1>3, <1>4, SubSeqProperties
<1>7. /\ SubSeq(log, 1, n) \in Seq(Event) /\ Len(SubSeq(log, 1, n)) = n
      /\ \A k \in 1..n : SubSeq(log, 1, n)[k] = log[k]
  BY <1>1, <1>4, SubSeqProperties
<1>8. \A k \in 1..n : a[k] = log[k]
  BY <1>3, <1>4
<1>9. SubSeq(a, 1, n) = SubSeq(log, 1, n)
  BY <1>4, <1>6, <1>7, <1>8, SeqEqual
<1> QED BY <1>2, <1>9

\* A step that leaves the log and the checkpoints, and answers nobody's event
\* with "written".
LEMMA CheckpointsStay ==
  ASSUME Checkpoints, Settled' = Settled, state' = state,
         \A k \in DOMAIN Settled :
           answer'[Settled[k].id] = "written" => answer[Settled[k].id] = "written"
  PROVE  Checkpoints'
<1> SUFFICES ASSUME NEW r \in Runs PROVE (\E n : PastIn(Settled, r, n))'
  BY DEF Checkpoints
<1>1. PICK n : PastIn(Settled, r, n)
  BY DEF Checkpoints
<1>2. PastIn(Settled, r, n)'
  BY <1>1 DEF PastIn, EventsOf
<1> QED BY <1>2

\* The event at the end of the log is not answered yet.
LEMMA CheckpointsGrow ==
  ASSUME IInv, Checkpoints, NEW e \in Event, Acceptable(Settled, e),
         Settled' = Append(Settled, e), state' = state, answer' = answer
  PROVE  Checkpoints'
<1> SUFFICES ASSUME NEW r \in Runs PROVE (\E n : PastIn(Settled, r, n))'
  BY DEF Checkpoints
<1>1. PICK log \in Seq(Event) : log = Settled
  BY SettledIs DEF IInv
<1>2. PICK n : PastIn(log, r, n)
  BY <1>1 DEF Checkpoints
<1>3. /\ n \in 0..Len(log) /\ state[r] = Projection(SubSeq(log, 1, n), r)
      /\ \A k \in EventsOf(log, r) : answer[log[k].id] = "written" => k <= n
  BY <1>2 DEF PastIn
<1>4. PICK l : l = Append(log, e)
  OBVIOUS
<1>5. /\ DOMAIN l = 1..(Len(log) + 1) /\ Len(l) = Len(log) + 1 /\ Len(log) \in Nat
      /\ DOMAIN log = 1..Len(log)
      /\ l[Len(log) + 1] = e /\ \A k \in DOMAIN log : l[k] = log[k]
  BY <1>4, AppendAt
<1>6. answer[e.id] # "written"
  <2>1. ~Logs(log, e.id) /\ e.id \in EventId
    BY <1>1 DEF Acceptable, Logs, Event
  <2>2. \A id \in EventId : answer[id] = "written" => Logs(log, id)
    BY <1>1 DEF IInv, AckedIsKept, Answered
  <2> QED BY <2>1, <2>2
<1>7. ASSUME NEW k \in EventsOf(l, r), answer[l[k].id] = "written" PROVE k <= n
  <2>1. k \in 1..(Len(log) + 1) /\ l[k].run = r
    BY <1>5 DEF EventsOf
  <2>2. k # Len(log) + 1
    BY <1>5, <1>6, <1>7
  <2>3. k \in EventsOf(log, r) /\ answer[log[k].id] = "written"
    BY <1>5, <1>7, <2>1, <2>2 DEF EventsOf
  <2> QED BY <1>3, <2>3
<1>8. SubSeq(l, 1, n) = SubSeq(log, 1, n)
  BY <1>3, <1>4, SamePrefix
<1>9. n \in 0..Len(l)
  BY <1>3, <1>5
<1>10. PastIn(l, r, n)
  BY <1>3, <1>7, <1>8, <1>9 DEF PastIn
<1>11. Settled' = l
  BY <1>1, <1>4
<1>12. PastIn(Settled, r, n)'
  BY <1>10, <1>11 DEF PastIn
<1> QED BY <1>12

LEMMA CheckpointsWritten ==
  ASSUME IInv, Checkpoints, NEW p \in Process, Checkpoint(p), Settled' = Settled
  PROVE  Checkpoints'
<1> SUFFICES ASSUME NEW r \in Runs PROVE (\E n : PastIn(Settled, r, n))'
  BY DEF Checkpoints
<1>1. PICK e : e = event[p]
  OBVIOUS
<1>2. PICK old : old = text[p]
  OBVIOUS
<1>3. pc[p] = "checkpointing"
  BY DEF Checkpoint
<1>4. /\ e \in Event /\ old \in Seq(Event) /\ e.id \in EventId /\ e.run \in Runs
      /\ lines = Append(old, e)
  BY <1>1, <1>2, <1>3 DEF IInv, TypeOK, HandInv, Event
<1>5. PICK log \in Seq(Event) : log = Append(old, e)
  BY <1>4, AppendAt
<1>6. Settled = log
  <2>1. \A o \in Process : pc[o] # "rewriting"
    BY <1>3, OneWriter DEF IInv, Writing
  <2> QED BY <1>4, <1>5, <2>1, SettledIs DEF IInv
<1>7. /\ DOMAIN log = 1..(Len(old) + 1) /\ Len(log) = Len(old) + 1
      /\ Len(old) \in Nat /\ log[Len(old) + 1] = e
  BY <1>4, <1>5, AppendAt
<1>8. /\ state' = [state EXCEPT ![e.run] = Projection(log, e.run)]
      /\ answer' = [answer EXCEPT ![e.id] = "written"]
      /\ DOMAIN state = Runs /\ DOMAIN answer = EventId
  BY <1>1, <1>2, <1>5 DEF Checkpoint, IInv, TypeOK
<1>9. CASE r = e.run
  <2>1. state'[r] = Projection(log, r)
    BY <1>8, <1>9
  <2>2. SubSeq(log, 1, Len(log)) = log
    BY SubSeqFull
  <2>3. \A k \in EventsOf(log, r) : k <= Len(log)
    BY <1>7 DEF EventsOf
  <2>4. PICK m \in Nat : m = Len(log)
    BY <1>7
  <2>5. m \in 0..m /\ SubSeq(log, 1, m) = log /\ \A k \in EventsOf(log, r) : k <= m
    BY <2>2, <2>3, <2>4
  <2>6. Settled' = log
    BY <1>6
  <2>7. PastIn(Settled, r, m)'
    BY <2>1, <2>4, <2>5, <2>6 DEF PastIn
  <2> QED BY <2>7
<1>10. CASE r # e.run
  <2>1. PICK n : PastIn(log, r, n)
    BY <1>6 DEF Checkpoints
  <2>2. state'[r] = state[r]
    BY <1>8, <1>10
  <2>3. ASSUME NEW k \in EventsOf(log, r), answer'[log[k].id] = "written"
        PROVE  k <= n
    <3>1. k \in DOMAIN log /\ log[k].run = r /\ k # Len(old) + 1
      BY <1>7, <1>10 DEF EventsOf
    <3>2. log[k].id # e.id
      BY <1>6, <1>7, <3>1 DEF IInv, OnceEach
    <3>3. log[k].id \in EventId
      BY <3>1, ElementOfSeq, LenProperties DEF Event
    <3>4. answer[log[k].id] = "written"
      BY <1>8, <2>3, <3>2, <3>3
    <3> QED BY <2>1, <3>4 DEF PastIn
  <2>4. PastIn(Settled, r, n)'
    BY <1>6, <2>1, <2>2, <2>3 DEF PastIn
  <2> QED BY <2>4
<1> QED BY <1>9, <1>10

LEMMA CheckpointsInit == Init => Checkpoints
<1> SUFFICES ASSUME Init, NEW r \in Runs PROVE \E n : PastIn(Settled, r, n)
  BY DEF Checkpoints
<1>1. PICK e : e = <<>>
  OBVIOUS
<1>2. e \in Seq(Event) /\ Len(e) = 0 /\ DOMAIN e = {}
  BY <1>1, EmptySeq
<1>3. SubSeq(e, 1, 0) = e
  BY <1>2, SubSeqFull
<1>4. Settled = e /\ state[r] = Projection(e, r)
  BY <1>1 DEF Init, Settled
<1>5. PastIn(e, r, 0)
  <2>1. 0 \in 0..Len(e) /\ EventsOf(e, r) = {}
    BY <1>2 DEF EventsOf
  <2> QED BY <1>3, <1>4, <2>1 DEF PastIn
<1> QED BY <1>4, <1>5

\* The one append that is answered with "written" is the one that checkpoints.
LEMMA CheckpointsStep ==
  ASSUME "rewriting" \notin CrashPoints, IInv, Checkpoints, [Next]_vars
  PROVE  Checkpoints'
<1>1. Grows
  BY Step
<1>2. CASE UNCHANGED vars
  <2>1. Settled' = Settled
    BY <1>2 DEF vars, Settled
  <2> QED BY <1>2, <2>1, CheckpointsStay DEF vars
<1>3. ASSUME state' = state, answer' = answer
      PROVE  Checkpoints'
  <2>1. CASE Settled' = Settled
    BY <1>3, <2>1, CheckpointsStay
  <2>2. CASE Settled' # Settled
    BY <1>1, <1>3, <2>2, CheckpointsGrow DEF Grows
  <2> QED BY <2>1, <2>2
<1>4. ASSUME NEW p \in Process, Admit(p)
      PROVE  Checkpoints'
  <2>1. \A o \in Process : pc[o] \notin Writing /\ pc'[o] # "rewriting"
    BY <1>4, NoneAssumption DEF Admit, IInv, TypeOK, Writing
  <2>2. Settled' = Settled
    BY <1>4, <2>1 DEF Settled, Admit, files, Writing
  <2>3. answer' = answer \/ (/\ event[p].id \in EventId
                             /\ answer' = [answer EXCEPT ![event[p].id] =
                                             Verdict(lines, event[p])]
                             /\ Verdict(lines, event[p]) # "written")
    BY <1>4, VerdictIs DEF Admit, IInv, HandInv, Event
  <2>4. \A id \in EventId : answer'[id] = "written" => answer[id] = "written"
    BY <2>3 DEF IInv, TypeOK
  <2>5. \A k \in DOMAIN Settled : Settled[k].id \in EventId
    <3>1. PICK log \in Seq(Event) : log = Settled
      BY SettledIs DEF IInv
    <3>2. \A k \in DOMAIN log : log[k].id \in EventId
      BY ElementOfSeq, LenProperties DEF Event
    <3> QED BY <3>1, <3>2
  <2>6. state' = state
    BY <1>4 DEF Admit, files
  <2> QED BY <2>2, <2>4, <2>5, <2>6, CheckpointsStay
<1>5. ASSUME NEW p \in Process, Checkpoint(p)
      PROVE  Checkpoints'
  <2>1. Settled' = Settled
    <3>1. \A o \in Process : pc[o] # "rewriting" /\ pc'[o] # "rewriting"
      BY <1>5, OneWriter DEF Checkpoint, IInv, TypeOK, Writing
    <3> QED BY <1>5, <3>1 DEF Settled, Checkpoint
  <2> QED BY <1>5, <2>1, CheckpointsWritten
<1>6. ASSUME NEW p \in Process, NEW e, Call(p, e) \/ CallAgain(p, e)
      PROVE  Checkpoints'
  BY <1>3, <1>6 DEF Call, CallAgain, files
<1>7. ASSUME NEW p \in Process,
             Truncate(p) \/ Rewrite(p) \/ AppendLine(p) \/ Crash(p)
      PROVE  Checkpoints'
  BY <1>3, <1>7 DEF Truncate, Rewrite, AppendLine, Crash
<1> QED BY <1>2, <1>4, <1>5, <1>6, <1>7 DEF Next

\* A run's state.json is what the run once was, and it is not older than the
\* run's last append that was answered.
THEOREM CheckpointIsPastHolds ==
  ASSUME "rewriting" \notin CrashPoints
  PROVE  Spec => []CheckpointIsPast
<1>1. IInv /\ [Next]_vars => IInv'
  BY Step
<1>2. IInv /\ Checkpoints /\ [Next]_vars => Checkpoints'
  BY CheckpointsStep
<1>3. Checkpoints => CheckpointIsPast
  BY DEF Checkpoints, CheckpointIsPast, PastIn
<1> QED BY <1>1, <1>2, <1>3, InitInv, CheckpointsInit, PTL DEF Spec

-----------------------------------------------------------------------------
(* projectRuns.  What its fold keeps of a run after each event of the log is  *)
(* what the latest events of the run say; `way` of a pending request is kept  *)
(* with the event that is the latest about it.                                *)

Touches(e, q) == Asks(e, q) \/ e.kind \in Endings
Latest(log, r, q, i) ==
  /\ i \in EventsOf(log, r) /\ Touches(log[i], q)
  /\ \A j \in EventsOf(log, r) : j > i => ~Touches(log[j], q)
Way(log, r, i) ==
  CASE log[i].kind = "asked"    -> "live"
    [] log[i].kind = "resuming" -> "message"
    [] OTHER -> IF Loadable(SubSeq(log, 1, i), r) THEN "message" ELSE "expired"

LEMMA ResponseIs ==
  ASSUME NEW log \in Seq(Event), NEW r, NEW q, NEW i, Latest(log, r, q, i)
  PROVE  Response(log, r, q) = Way(log, r, i)
<1> DEFINE T(k) == Asks(log[k], q) \/ log[k].kind \in Endings
           latest == CHOOSE k \in EventsOf(log, r) :
                       T(k) /\ \A j \in EventsOf(log, r) : j > k => ~T(j)
<1>1. i \in EventsOf(log, r) /\ T(i) /\ \A j \in EventsOf(log, r) : j > i => ~T(j)
  BY DEF Latest, Touches
<1>2. /\ latest \in EventsOf(log, r) /\ T(latest)
      /\ \A j \in EventsOf(log, r) : j > latest => ~T(j)
  BY <1>1
<1>3. i \in Nat /\ latest \in Nat
  <2>1. EventsOf(log, r) \subseteq Nat
    BY LenProperties DEF EventsOf
  <2> QED BY <1>1, <1>2, <2>1
<1>4. latest = i
  <2> HIDE DEF latest, T
  <2> QED BY <1>1, <1>2, <1>3
<1>5. Response(log, r, q) = Way(log, r, latest)
  BY DEF Response, Way
<1> QED BY <1>4, <1>5

\* `run` is what the log makes of run r.
Told(run, log, r) ==
  /\ DOMAIN run = {"status", "loadable", "pending"}
  /\ run.status = Status(log, r)
  /\ run.loadable = Loadable(log, r)
  /\ run.pending = [q \in Pending(log, r) |-> run.pending[q]]
  /\ \A q \in Pending(log, r) :
       \E i : Latest(log, r, q, i) /\ run.pending[q] = Way(log, r, i)

LEMMA StatusIs ==
  ASSUME NEW log, NEW n \in Nat, DOMAIN log = 1..n, NEW r
  PROVE  Status(log, r) =
           IF ~Known(log, r) THEN "unknown"
           ELSE IF Ended(log, r) THEN "ended"
           ELSE IF Starting(log, r) THEN "starting" ELSE "running"
<1>1. Starting(log, r) => Known(log, r)
  BY DEF Starting, Known
<1>2. ASSUME Ended(log, r), Starting(log, r) PROVE FALSE
  <2>1. PICK i \in EventsOf(log, r) :
          /\ log[i].kind \in Endings
          /\ \A j \in EventsOf(log, r) : j > i => log[j].kind \notin Beginnings
    BY <1>2 DEF Ended
  <2>2. PICK k \in EventsOf(log, r) :
          /\ Restarts(log[k])
          /\ \A j \in EventsOf(log, r) :
               j > k => log[j].kind \notin Endings \cup Beginnings
    BY <1>2 DEF Starting
  <2>3. log[k].kind \in Beginnings /\ i # k
    BY <2>1, <2>2 DEF Restarts, Beginnings, Endings
  <2>4. i \in Nat /\ k \in Nat
    BY DEF EventsOf
  <2>5. i > k \/ k > i
    BY <2>3, <2>4
  <2> QED BY <2>1, <2>2, <2>3, <2>5
<1>3. CASE ~Known(log, r)
  BY <1>1, <1>3 DEF Status
<1>4. CASE Known(log, r) /\ Ended(log, r)
  BY <1>2, <1>4 DEF Status
<1>5. CASE Known(log, r) /\ ~Ended(log, r)
  BY <1>5 DEF Status
<1> QED BY <1>3, <1>4, <1>5

\* Nothing has been told of a run without events.
LEMMA ToldNothing ==
  ASSUME NEW r, NEW log, DOMAIN log = {}
  PROVE  Told(FreshRun, log, r)
<1>1. EventsOf(log, r) = {}
  BY DEF EventsOf
<1>2. Status(log, r) = "unknown" /\ Loadable(log, r) = FALSE /\ Pending(log, r) = {}
  <2>1. Status(log, r) = "unknown" /\ Pending(log, r) = {}
    <3>1. ~Known(log, r) /\ ~Ended(log, r) /\ ~Starting(log, r)
      BY <1>1 DEF Known, Ended, Starting
    <3> QED BY <1>1, <3>1 DEF Status, Pending
  <2>2. ~Loadable(log, r)
    BY <1>1 DEF Loadable
  <2>3. Loadable(log, r) = FALSE
    BY <2>2 DEF Loadable
  <2> QED BY <2>1, <2>3
<1>3. <<>> = [q \in {} |-> <<>>[q]]
  OBVIOUS
<1> QED BY <1>2, <1>3 DEF Told, FreshRun

\* An event of another run.
LEMMA ToldOfAnother ==
  ASSUME NEW log \in Seq(Event), NEW e \in Event, NEW r, r # e.run,
         NEW run, Told(run, log, r)
  PROVE  Told(run, Append(log, e), r)
<1>1. PICK l : l = Append(log, e)
  OBVIOUS
<1>2. PICK n \in Nat : n = Len(log) /\ DOMAIN log = 1..n
  BY AppendAt
<1>3. DOMAIN l = 1..(n + 1) /\ l[n + 1] = e /\ \A i \in 1..n : l[i] = log[i]
  BY <1>1, <1>2, AppendAt
<1>4. EventsOf(l, r) = EventsOf(log, r) /\ \A i \in EventsOf(log, r) : l[i] = log[i]
  BY <1>2, <1>3 DEF EventsOf
<1>5. Status(l, r) = Status(log, r)
  BY <1>4 DEF Status, Known, Ended, Starting
<1>6. Loadable(l, r) = Loadable(log, r)
  BY <1>4 DEF Loadable
<1>7. Pending(l, r) = Pending(log, r)
  BY <1>4 DEF Pending
<1>8. ASSUME NEW q, NEW i, Latest(log, r, q, i)
      PROVE  Latest(l, r, q, i) /\ Way(l, r, i) = Way(log, r, i)
  <2>1. i \in 0..Len(log) /\ l[i] = log[i]
    BY <1>2, <1>4, <1>8 DEF Latest, EventsOf
  <2>2. SubSeq(l, 1, i) = SubSeq(log, 1, i)
    BY <1>1, <2>1, SamePrefix
  <2> QED BY <1>4, <1>8, <2>1, <2>2 DEF Latest, Way
<1>9. Told(run, l, r)
  BY <1>5, <1>6, <1>7, <1>8 DEF Told
<1> QED BY <1>1, <1>9

-----------------------------------------------------------------------------
(* One more event of the run itself *)

LEMMA StatusNext ==
  ASSUME NEW log \in Seq(Event), NEW e \in Event, Acceptable(log, e)
  PROVE  LET now == Status(Append(log, e), e.run)
         IN  /\ Restarts(e) => now = "starting"
             /\ e.kind = "started" => now = "running"
             /\ e.kind \in Endings => now = "ended"
             /\ e.kind \notin Beginnings \cup Endings => now = Status(log, e.run)
<1> DEFINE r == e.run
<1>1. PICK l : l = Append(log, e)
  OBVIOUS
<1>2. PICK n \in Nat : n = Len(log) /\ DOMAIN log = 1..n
  BY AppendAt
<1>3. DOMAIN l = 1..(n + 1) /\ l[n + 1] = e /\ \A i \in 1..n : l[i] = log[i]
  BY <1>1, <1>2, AppendAt
<1>4. /\ EventsOf(l, r) = EventsOf(log, r) \cup {n + 1}
      /\ EventsOf(log, r) \subseteq 1..n
  BY <1>2, <1>3 DEF EventsOf
<1>5. Known(l, r)
  BY <1>1 DEF Acceptable
<1>6. CASE Restarts(e)
  <2>1. ~Ended(l, r)
    BY <1>3, <1>4, <1>6 DEF Ended, Restarts, Beginnings, Endings
  <2>2. Starting(l, r)
    <3>1. n + 1 \in EventsOf(l, r) /\ Restarts(l[n + 1])
      BY <1>3, <1>4, <1>6
    <3>2. \A j \in EventsOf(l, r) : ~(j > n + 1)
      BY <1>4
    <3> QED BY <3>1, <3>2 DEF Starting
  <2>3. Status(l, r) = "starting"
    BY <1>3, <1>5, <2>1, <2>2, StatusIs
  <2>4. e.kind # "started" /\ e.kind \notin Endings
    BY <1>6 DEF Restarts, Endings
  <2> QED BY <1>1, <1>6, <2>3, <2>4 DEF Restarts, Beginnings
<1>7. CASE e.kind = "started"
  <2>1. ~Ended(l, r)
    BY <1>3, <1>4, <1>7 DEF Ended, Beginnings, Endings
  <2>2. ~Starting(l, r)
    BY <1>3, <1>4, <1>7 DEF Starting, Restarts, Beginnings
  <2>3. Status(l, r) = "running"
    BY <1>3, <1>5, <2>1, <2>2, StatusIs
  <2>4. ~Restarts(e) /\ e.kind \notin Endings
    BY <1>7 DEF Restarts, Endings
  <2> QED BY <1>1, <1>7, <2>3, <2>4 DEF Beginnings
<1>8. CASE e.kind \in Endings
  <2>1. Ended(l, r)
    <3>1. n + 1 \in EventsOf(l, r) /\ l[n + 1].kind \in Endings
      BY <1>3, <1>4, <1>8
    <3>2. \A j \in EventsOf(l, r) : ~(j > n + 1)
      BY <1>4
    <3> QED BY <3>1, <3>2 DEF Ended
  <2>2. Status(l, r) = "ended"
    BY <1>3, <1>5, <2>1, StatusIs
  <2>3. ~Restarts(e) /\ e.kind # "started"
    BY <1>8 DEF Restarts, Endings
  <2> QED BY <1>1, <1>8, <2>2, <2>3 DEF Beginnings
<1>9. CASE e.kind \notin Beginnings \cup Endings
  <2>1. ~Restarts(e)
    BY <1>9 DEF Restarts, Beginnings
  <2>2. \A i \in EventsOf(log, r) : l[i] = log[i] /\ i # n + 1
    BY <1>3, <1>4
  <2>3. Known(log, r)
    BY <1>3, <1>4, <1>5, <2>1, <2>2 DEF Known
  <2>4. Ended(l, r) <=> Ended(log, r)
    BY <1>3, <1>4, <1>9, <2>2 DEF Ended
  <2>5. Starting(l, r) <=> Starting(log, r)
    BY <1>3, <1>4, <1>9, <2>1, <2>2 DEF Starting
  <2>6. Status(l, r) = Status(log, r)
    BY <1>2, <1>3, <1>5, <2>3, <2>4, <2>5, StatusIs
  <2>7. e.kind # "started" /\ e.kind \notin Endings
    BY <1>9 DEF Beginnings
  <2> QED BY <1>1, <2>1, <2>6, <2>7
<1> QED BY <1>6, <1>7, <1>8, <1>9 DEF Restarts, Beginnings

LEMMA LoadableNext ==
  ASSUME NEW log \in Seq(Event), NEW e \in Event
  PROVE  Loadable(Append(log, e), e.run) <=>
           \/ e.kind \in {"session", "resuming"}
           \/ e.kind # "starting" /\ Loadable(log, e.run)
<1> DEFINE r == e.run
<1>1. PICK l : l = Append(log, e)
  OBVIOUS
<1>2. PICK n \in Nat : n = Len(log) /\ DOMAIN log = 1..n
  BY AppendAt
<1>3. DOMAIN l = 1..(n + 1) /\ l[n + 1] = e /\ \A i \in 1..n : l[i] = log[i]
  BY <1>1, <1>2, AppendAt
<1>4. /\ EventsOf(l, r) = EventsOf(log, r) \cup {n + 1}
      /\ EventsOf(log, r) \subseteq 1..n
  BY <1>2, <1>3 DEF EventsOf
<1>5. CASE e.kind \in {"session", "resuming"}
  <2>1. n + 1 \in EventsOf(l, r) /\ l[n + 1] = e
    BY <1>3, <1>4
  <2>2. \A j \in EventsOf(l, r) : ~(j > n + 1)
    BY <1>4
  <2>3. Loadable(l, r)
    BY <1>5, <2>1, <2>2 DEF Loadable
  <2> QED BY <1>1, <1>5, <2>3
<1>6. CASE e.kind \notin {"session", "resuming"}
  <2>1. \A i \in EventsOf(log, r) : l[i] = log[i] /\ i < n + 1
    BY <1>3, <1>4
  <2>2. Loadable(l, r) <=> e.kind # "starting" /\ Loadable(log, r)
    BY <1>3, <1>4, <1>6, <2>1 DEF Loadable
  <2> QED BY <1>1, <1>6, <2>2
<1> QED BY <1>5, <1>6

LEMMA PendingNext ==
  ASSUME NEW log \in Seq(Event), NEW e \in Event
  PROVE  \A q : q \in Pending(Append(log, e), e.run) <=>
           \/ q \in Request /\ Asks(e, q)
           \/ q \in Pending(log, e.run) /\ ~Clears(e, q)
<1> DEFINE r == e.run
<1>1. PICK l : l = Append(log, e)
  OBVIOUS
<1>2. PICK n \in Nat : n = Len(log) /\ DOMAIN log = 1..n
  BY AppendAt
<1>3. DOMAIN l = 1..(n + 1) /\ l[n + 1] = e /\ \A i \in 1..n : l[i] = log[i]
  BY <1>1, <1>2, AppendAt
<1>4. /\ EventsOf(l, r) = EventsOf(log, r) \cup {n + 1}
      /\ EventsOf(log, r) \subseteq 1..n
  BY <1>2, <1>3 DEF EventsOf
<1>5. \A i \in EventsOf(log, r) : l[i] = log[i] /\ i < n + 1
  BY <1>3, <1>4
<1>6. ASSUME NEW q
      PROVE  q \in Pending(l, r) <=>
               \/ q \in Request /\ Asks(e, q)
               \/ q \in Pending(log, r) /\ ~Clears(e, q)
  <2>1. ASSUME q \in Request, Asks(e, q) PROVE q \in Pending(l, r)
    <3>1. n + 1 \in EventsOf(l, r) /\ l[n + 1] = e
      BY <1>3, <1>4
    <3>2. \A j \in EventsOf(l, r) : ~(j > n + 1)
      BY <1>4
    <3> QED BY <2>1, <3>1, <3>2 DEF Pending
  <2>2. ASSUME q \in Pending(log, r), ~Clears(e, q) PROVE q \in Pending(l, r)
    BY <1>3, <1>4, <1>5, <2>2 DEF Pending
  <2>3. ASSUME q \in Pending(l, r), ~Asks(e, q)
        PROVE  q \in Pending(log, r) /\ ~Clears(e, q)
    BY <1>3, <1>4, <1>5, <2>3 DEF Pending
  <2>4. q \in Pending(l, r) => q \in Request
    BY DEF Pending
  <2> QED BY <2>1, <2>2, <2>3, <2>4
<1> QED BY <1>1, <1>6

\* The latest event about a request is the new one, or it is as before.
LEMMA LatestNext ==
  ASSUME NEW log \in Seq(Event), NEW e \in Event, NEW q
  PROVE  LET l == Append(log, e)
         IN  /\ Touches(e, q) =>
                  /\ Latest(l, e.run, q, Len(log) + 1)
                  /\ Way(l, e.run, Len(log) + 1) =
                       CASE e.kind = "asked"    -> "live"
                         [] e.kind = "resuming" -> "message"
                         [] OTHER -> IF Loadable(l, e.run) THEN "message" ELSE "expired"
             /\ ~Touches(e, q) => \A i : Latest(log, e.run, q, i) =>
                  Latest(l, e.run, q, i) /\ Way(l, e.run, i) = Way(log, e.run, i)
<1> DEFINE r == e.run
<1>1. PICK l : l = Append(log, e)
  OBVIOUS
<1>2. PICK n \in Nat : n = Len(log) /\ DOMAIN log = 1..n
  BY AppendAt
<1>3. /\ DOMAIN l = 1..(n + 1) /\ l[n + 1] = e /\ \A i \in 1..n : l[i] = log[i]
      /\ l \in Seq(Event) /\ Len(l) = n + 1
  BY <1>1, <1>2, AppendAt
<1>4. /\ EventsOf(l, r) = EventsOf(log, r) \cup {n + 1}
      /\ EventsOf(log, r) \subseteq 1..n
  BY <1>2, <1>3 DEF EventsOf
<1>5. ASSUME Touches(e, q)
      PROVE  /\ Latest(l, r, q, n + 1)
             /\ Way(l, r, n + 1) =
                  CASE e.kind = "asked"    -> "live"
                    [] e.kind = "resuming" -> "message"
                    [] OTHER -> IF Loadable(l, r) THEN "message" ELSE "expired"
  <2>1. \A j \in EventsOf(l, r) : ~(j > n + 1)
    BY <1>4
  <2>2. Latest(l, r, q, n + 1)
    BY <1>3, <1>4, <1>5, <2>1 DEF Latest
  <2>3. SubSeq(l, 1, n + 1) = l
    BY <1>3, SubSeqFull
  <2>4. Way(l, r, n + 1) =
          CASE e.kind = "asked"    -> "live"
            [] e.kind = "resuming" -> "message"
            [] OTHER -> IF Loadable(l, r) THEN "message" ELSE "expired"
    BY <1>3, <2>3 DEF Way
  <2> QED BY <2>2, <2>4
<1>6. ASSUME ~Touches(e, q), NEW i, Latest(log, r, q, i)
      PROVE  Latest(l, r, q, i) /\ Way(l, r, i) = Way(log, r, i)
  <2>1. i \in 1..n /\ l[i] = log[i]
    BY <1>3, <1>4, <1>6 DEF Latest
  <2>2. SubSeq(l, 1, i) = SubSeq(log, 1, i)
    <3>1. i \in 0..Len(log)
      BY <1>2, <2>1
    <3> QED BY <1>1, <3>1, SamePrefix
  <2>3. \A j \in EventsOf(log, r) : l[j] = log[j]
    BY <1>3, <1>4
  <2>4. Latest(l, r, q, i)
    BY <1>3, <1>4, <1>6, <2>1, <2>3 DEF Latest
  <2> QED BY <2>1, <2>2, <2>4 DEF Way
<1> QED BY <1>1, <1>2, <1>5, <1>6

\* What Fold makes of each kind of event.
Folds(run, e, new) ==
  /\ DOMAIN new = {"status", "loadable", "pending"}
  /\ Restarts(e) => new.status = "starting"
  /\ e.kind = "started" => new.status = "running"
  /\ e.kind \in Endings => new.status = "ended"
  /\ e.kind \in Signals \cup {"observed"} => new.status = run.status
  /\ e.kind \in {"session", "resuming"} => new.loadable = TRUE
  /\ e.kind = "starting" => new.loadable = FALSE
  /\ e.kind \notin {"session", "resuming", "starting"} =>
       new.loadable = run.loadable
  /\ e.kind \in {"starting", "cancelled"} => new.pending = <<>>
  /\ e.kind = "resuming" =>
       new.pending = [q \in e.requests |-> "message"]
  /\ e.kind = "asked" =>
       new.pending = [q \in DOMAIN run.pending \cup e.requests |->
         IF q \in e.requests THEN "live" ELSE run.pending[q]]
  /\ e.kind = "resolved" =>
       new.pending = [q \in DOMAIN run.pending \ e.requests |->
                        run.pending[q]]
  /\ e.kind \in Endings =>
       new.pending = [q \in DOMAIN run.pending |->
                        IF run.loadable THEN "message" ELSE "expired"]
  /\ e.kind \in {"started", "session", "observed"} =>
       new.pending = run.pending

LEMMA FoldFields ==
  ASSUME NEW run, DOMAIN run = {"status", "loadable", "pending"}, NEW e \in Event,
         NEW new, new = Fold(run, e)
  PROVE  Folds(run, e, new)
<1> USE DEF Restarts, Endings, Signals, Folds
<1>1. CASE e.kind = "starting"
  <2>1. new = [status |-> "starting", loadable |-> FALSE, pending |-> <<>>]
    BY <1>1 DEF Fold, FreshRun
  <2> QED BY <1>1, <2>1
<1>2. CASE e.kind = "resuming"
  <2>1. new = [status |-> "starting", loadable |-> TRUE,
               pending |-> [q \in e.requests |-> "message"]]
    BY <1>2 DEF Fold
  <2> QED BY <1>2, <2>1
<1>3. CASE e.kind = "started"
  <2>1. new = [run EXCEPT !.status = "running"]
    BY <1>3 DEF Fold
  <2> QED BY <1>3, <2>1
<1>4. CASE e.kind = "session"
  <2>1. new = [run EXCEPT !.loadable = TRUE]
    BY <1>4 DEF Fold
  <2> QED BY <1>4, <2>1
<1>5. CASE e.kind = "asked"
  <2> DEFINE f == [q \in DOMAIN run.pending \cup e.requests |->
                     IF q \in e.requests THEN "live" ELSE run.pending[q]]
  <2>1. new = [run EXCEPT !.pending = f]
    BY <1>5 DEF Fold
  <2>2. DOMAIN new = DOMAIN run /\ new.pending = f /\ new.status = run.status
        /\ new.loadable = run.loadable
    <3> HIDE DEF f
    <3> QED BY <2>1
  <2> QED BY <1>5, <2>2
<1>6. CASE e.kind = "resolved"
  <2> DEFINE f == [q \in DOMAIN run.pending \ e.requests |-> run.pending[q]]
  <2>1. new = [run EXCEPT !.pending = f]
    BY <1>6 DEF Fold, Restrict
  <2>2. DOMAIN new = DOMAIN run /\ new.pending = f /\ new.status = run.status
        /\ new.loadable = run.loadable
    <3> HIDE DEF f
    <3> QED BY <2>1
  <2> QED BY <1>6, <2>2
<1>7. CASE e.kind = "cancelled"
  <2>1. new = [run EXCEPT !.pending = <<>>]
    BY <1>7 DEF Fold
  <2> QED BY <1>7, <2>1
<1>8. CASE e.kind \in Endings
  <2>1. PICK f : f = [q \in DOMAIN run.pending |->
                        IF run.loadable THEN "message" ELSE "expired"]
    OBVIOUS
  <2>2. new = [run EXCEPT !.status = "ended", !.pending = f]
    BY <1>8, <2>1 DEF Fold
  <2>3. PICK a : a = [run EXCEPT !.status = "ended"]
    OBVIOUS
  <2>4. /\ DOMAIN a = {"status", "loadable", "pending"} /\ a.status = "ended"
        /\ a.loadable = run.loadable
    BY <2>3
  <2>5. new = [a EXCEPT !.pending = f]
    BY <2>2, <2>3
  <2>6. /\ DOMAIN new = {"status", "loadable", "pending"} /\ new.status = "ended"
        /\ new.loadable = run.loadable /\ new.pending = f
    BY <2>4, <2>5
  <2> QED BY <1>8, <2>1, <2>6
<1>9. CASE e.kind = "observed"
  <2>1. new = run
    BY <1>9 DEF Fold
  <2> QED BY <1>9, <2>1
<1>10. e.kind \in Kinds
  BY DEF Event
<1> QED
  BY <1>1, <1>2, <1>3, <1>4, <1>5, <1>6, <1>7, <1>8, <1>9, <1>10
  DEF Kinds, Beginnings, Signals

LEMMA ToldOfIt ==
  ASSUME NEW log \in Seq(Event), NEW e \in Event, Acceptable(log, e),
         NEW run, Told(run, log, e.run)
  PROVE  Told(Fold(run, e), Append(log, e), e.run)
<1>1. PICK new : new = Fold(run, e)
  OBVIOUS
<1>2. PICK l : l = Append(log, e)
  OBVIOUS
<1>3. PICK r : r = e.run
  OBVIOUS
<1>4. PICK n \in Nat : n = Len(log)
  BY LenProperties
<1>5. PICK old : old = run.pending
  OBVIOUS
<1>6. /\ DOMAIN run = {"status", "loadable", "pending"}
      /\ run.status = Status(log, r) /\ run.loadable = Loadable(log, r)
      /\ DOMAIN old = Pending(log, r) /\ old = [q \in DOMAIN old |-> old[q]]
      /\ \A q \in Pending(log, r) :
           \E i : Latest(log, r, q, i) /\ old[q] = Way(log, r, i)
  BY <1>3, <1>5 DEF Told
<1>0. Folds(run, e, new)
  BY <1>1, <1>6, FoldFields
<1>7. DOMAIN new = {"status", "loadable", "pending"} /\ new.status = Status(l, r)
  <2>1. DOMAIN new = {"status", "loadable", "pending"}
    BY <1>0, <1>1, <1>6 DEF Folds
  <2>2. CASE Restarts(e)
    BY <1>0, <1>1, <1>2, <1>3, <1>6, <2>1, <2>2, StatusNext DEF Folds
  <2>3. CASE e.kind = "started"
    BY <1>0, <1>1, <1>2, <1>3, <1>6, <2>1, <2>3, StatusNext DEF Folds
  <2>4. CASE e.kind \in Endings
    BY <1>0, <1>1, <1>2, <1>3, <1>6, <2>1, <2>4, StatusNext DEF Folds
  <2>5. CASE e.kind \in Signals \cup {"observed"}
    <3>1. e.kind \notin Beginnings \cup Endings
      BY <2>5 DEF Signals, Beginnings, Endings
    <3> QED BY <1>0, <1>1, <1>2, <1>3, <1>6, <2>1, <2>5, <3>1, StatusNext DEF Folds
  <2>6. e.kind \in Kinds
    BY DEF Event
  <2> QED BY <2>2, <2>3, <2>4, <2>5, <2>6 DEF Kinds, Restarts, Beginnings
<1>8. new.loadable = Loadable(l, r)
  <2>1. Loadable(l, r) \in BOOLEAN /\ Loadable(log, r) \in BOOLEAN
    BY DEF Loadable
  <2>2. new.loadable = IF e.kind \in {"session", "resuming"} THEN TRUE
                       ELSE IF e.kind = "starting" THEN FALSE ELSE Loadable(log, r)
    <3>1. DOMAIN run = {"status", "loadable", "pending"}
      BY <1>6
    <3> QED BY <1>0, <1>1, <1>6, <3>1 DEF Folds
  <2>3. Loadable(l, r) <=> \/ e.kind \in {"session", "resuming"}
                           \/ e.kind # "starting" /\ Loadable(log, r)
    BY <1>2, <1>3, LoadableNext
  <2>4. CASE e.kind \in {"session", "resuming"}
    <3>1. new.loadable = TRUE /\ Loadable(l, r)
      BY <2>2, <2>3, <2>4
    <3> QED BY <2>1, <3>1
  <2>5. CASE e.kind = "starting"
    <3>1. new.loadable = FALSE /\ ~Loadable(l, r)
      BY <2>2, <2>3, <2>5
    <3> QED BY <2>1, <3>1
  <2>6. CASE e.kind \notin {"session", "resuming", "starting"}
    <3>1. new.loadable = Loadable(log, r)
      BY <2>2, <2>6
    <3>2. Loadable(l, r) <=> Loadable(log, r)
      BY <2>3, <2>6
    <3> QED BY <2>1, <3>1, <3>2
  <2> QED BY <2>4, <2>5, <2>6
<1>9. \A q : q \in Pending(l, r) <=>
         \/ q \in Request /\ Asks(e, q)
         \/ q \in DOMAIN old /\ ~Clears(e, q)
  BY <1>2, <1>3, <1>6, PendingNext
<1>10. /\ e.requests \subseteq Request /\ e.kind \in Kinds
       /\ e.kind = "starting" => e.requests = {}
  BY DEF Event
\* Who is pending, each kind of event for itself.
<1>11. /\ DOMAIN new.pending = Pending(l, r)
       /\ new.pending = [q \in DOMAIN new.pending |-> new.pending[q]]
       /\ \A q \in Pending(l, r) :
            \/ Touches(e, q) /\ new.pending[q] =
                 CASE e.kind = "asked"    -> "live"
                   [] e.kind = "resuming" -> "message"
                   [] OTHER -> IF Loadable(l, r) THEN "message" ELSE "expired"
            \/ ~Touches(e, q) /\ q \in DOMAIN old /\ new.pending[q] = old[q]
  <2>1. CASE e.kind \in {"starting", "cancelled"}
    <3>1. new.pending = <<>>
      BY <1>0, <1>1, <1>6, <2>1 DEF Folds
    <3>2. Pending(l, r) = {}
      BY <1>9, <1>10, <2>1 DEF Asks, Clears, Restarts
    <3>3. DOMAIN <<>> = {} /\ <<>> = [q \in {} |-> <<>>[q]]
      OBVIOUS
    <3> QED BY <3>1, <3>2, <3>3
  <2>2. CASE e.kind = "resuming"
    <3>1. new.pending = [q \in e.requests |-> "message"]
      BY <1>0, <1>1, <1>6, <2>2 DEF Folds
    <3>2. Pending(l, r) = e.requests
      BY <1>9, <1>10, <2>2 DEF Asks, Clears, Restarts
    <3>3. \A q \in e.requests : Touches(e, q)
      BY <2>2 DEF Touches, Asks
    <3> QED BY <2>2, <3>1, <3>2, <3>3
  <2>3. CASE e.kind = "asked"
    <3>1. new.pending = [q \in DOMAIN old \cup e.requests |->
                           IF q \in e.requests THEN "live" ELSE old[q]]
      BY <1>0, <1>1, <1>5, <1>6, <2>3 DEF Folds
    <3>2. Pending(l, r) = DOMAIN old \cup e.requests
      BY <1>9, <1>10, <2>3 DEF Asks, Clears, Restarts
    <3>3. \A q : Touches(e, q) <=> q \in e.requests
      BY <2>3 DEF Touches, Asks, Endings
    <3> QED BY <2>3, <3>1, <3>2, <3>3
  <2>4. CASE e.kind = "resolved"
    <3>1. new.pending = [q \in DOMAIN old \ e.requests |-> old[q]]
      BY <1>0, <1>1, <1>5, <1>6, <2>4 DEF Folds
    <3>2. Pending(l, r) = DOMAIN old \ e.requests
      BY <1>9, <2>4 DEF Asks, Clears, Restarts
    <3>3. \A q : ~Touches(e, q)
      BY <2>4 DEF Touches, Asks, Endings
    <3> QED BY <3>1, <3>2, <3>3
  <2>5. CASE e.kind \in Endings
    <3>1. new.pending = [q \in DOMAIN old |->
                           IF run.loadable THEN "message" ELSE "expired"]
      BY <1>0, <1>1, <1>5, <1>6, <2>5 DEF Folds
    <3>2. Pending(l, r) = DOMAIN old
      BY <1>9, <2>5 DEF Asks, Clears, Restarts, Endings
    <3>3. \A q : Touches(e, q)
      BY <2>5 DEF Touches
    <3>4. e.kind \notin {"asked", "resuming", "session", "starting"}
      BY <2>5 DEF Endings
    <3>5. new.loadable = run.loadable
      BY <1>0, <1>1, <1>6, <3>4 DEF Folds
    <3>6. Loadable(l, r) = run.loadable
      BY <1>8, <3>5
    <3> QED BY <3>1, <3>2, <3>3, <3>4, <3>6
  <2>6. CASE e.kind \in {"started", "session", "observed"}
    <3>1. new.pending = old
      BY <1>0, <1>1, <1>5, <1>6, <2>6 DEF Folds
    <3>2. Pending(l, r) = DOMAIN old
      BY <1>9, <2>6 DEF Asks, Clears, Restarts
    <3>3. \A q : ~Touches(e, q)
      BY <2>6 DEF Touches, Asks, Endings
    <3> QED BY <1>6, <3>1, <3>2, <3>3
  <2> QED BY <1>10, <2>1, <2>2, <2>3, <2>4, <2>5, <2>6
          DEF Kinds, Beginnings, Signals
<1>12. ASSUME NEW q \in Pending(l, r)
       PROVE  \E i : Latest(l, r, q, i) /\ new.pending[q] = Way(l, r, i)
  <2>1. CASE Touches(e, q)
    <3>1. /\ Latest(l, r, q, n + 1)
          /\ Way(l, r, n + 1) =
               CASE e.kind = "asked"    -> "live"
                 [] e.kind = "resuming" -> "message"
                 [] OTHER -> IF Loadable(l, r) THEN "message" ELSE "expired"
      BY <1>2, <1>3, <1>4, <2>1, LatestNext
    <3> QED BY <1>11, <2>1, <3>1
  <2>2. CASE ~Touches(e, q)
    <3>1. q \in DOMAIN old /\ new.pending[q] = old[q]
      BY <1>11, <2>2
    <3>2. PICK i : Latest(log, r, q, i) /\ old[q] = Way(log, r, i)
      BY <1>6, <3>1
    <3>3. Latest(l, r, q, i) /\ Way(l, r, i) = Way(log, r, i)
      BY <1>2, <1>3, <2>2, <3>2, LatestNext
    <3> QED BY <3>1, <3>2, <3>3
  <2> QED BY <2>1, <2>2
<1>13. Told(new, l, r)
  BY <1>7, <1>8, <1>11, <1>12 DEF Told
<1> QED BY <1>0, <1>1, <1>2, <1>3, <1>13

-----------------------------------------------------------------------------
(* The fold over the log *)

FoldInto(p, runs, e) == [runs EXCEPT ![e.run] = Fold(@, e)]
Projecting == INSTANCE Folding WITH Step <- FoldInto
NoRuns == [r \in Runs |-> FreshRun]

LEMMA ProjectRunsIs ==
  \A log : ProjectRuns(log) = Projecting!Folded(0, NoRuns, log)
BY DEF ProjectRuns, FoldInto, NoRuns, FoldLeft, MapThenFoldSet, Max,
       Projecting!Folded, Projecting!Greatest

AllTold(log) ==
  LET runs == ProjectRuns(log)
  IN  DOMAIN runs = Runs /\ \A r \in Runs : Told(runs[r], log, r)

LEMMA AllToldNothing == AllTold(<<>>)
<1>1. PICK log : log = <<>>
  OBVIOUS
<1>2. DOMAIN log = {}
  BY <1>1
<1>3. ProjectRuns(log) = NoRuns
  BY <1>1, ProjectRunsIs, Projecting!FoldEmpty, NatSetInduction DEF Projecting!Induction
<1>4. AllTold(log)
  BY <1>2, <1>3, ToldNothing DEF AllTold, NoRuns
<1> QED BY <1>1, <1>4

LEMMA AllToldNext ==
  ASSUME NEW log \in Seq(Event), NEW e \in Event, Acceptable(log, e), AllTold(log)
  PROVE  AllTold(Append(log, e))
<1>1. PICK runs : runs = ProjectRuns(log)
  OBVIOUS
<1>2. PICK l : l = Append(log, e)
  OBVIOUS
<1>3. ProjectRuns(l) = [runs EXCEPT ![e.run] = Fold(runs[e.run], e)]
  <2>1. Projecting!Folded(0, NoRuns, Append(log, e)) =
          FoldInto(0, Projecting!Folded(0, NoRuns, log), e)
    BY Projecting!FoldAppend, NatSetInduction DEF Projecting!Induction
  <2> QED BY <1>1, <1>2, <2>1, ProjectRunsIs DEF FoldInto
<1>4. DOMAIN runs = Runs /\ e.run \in Runs
  BY <1>1 DEF AllTold, Event
<1>5. \A r \in Runs : Told(runs[r], log, r)
  BY <1>1 DEF AllTold
<1>6. ASSUME NEW r \in Runs
      PROVE  Told(ProjectRuns(l)[r], l, r)
  <2>1. CASE r = e.run
    <3>1. ProjectRuns(l)[r] = Fold(runs[r], e)
      BY <1>3, <1>4, <2>1
    <3> QED BY <1>2, <1>5, <2>1, <3>1, ToldOfIt
  <2>2. CASE r # e.run
    <3>1. ProjectRuns(l)[r] = runs[r]
      BY <1>3, <1>4, <2>2
    <3> QED BY <1>2, <1>5, <2>2, <3>1, ToldOfAnother
  <2> QED BY <2>1, <2>2
<1>7. DOMAIN ProjectRuns(l) = Runs
  BY <1>3, <1>4
<1>8. AllTold(l)
  BY <1>6, <1>7 DEF AllTold
<1> QED BY <1>2, <1>8

\* The settled log is told of, and the file is that log or empty.
ToldInv ==
  /\ AllTold(Settled)
  /\ \A p \in Process : pc[p] = "rewriting" => lines = <<>>

LEMMA ToldInit == Init => ToldInv
<1> SUFFICES ASSUME Init PROVE ToldInv
  OBVIOUS
<1>1. Settled = <<>>
  BY DEF Init, Settled
<1> QED BY <1>1, AllToldNothing DEF ToldInv, Init

LEMMA ToldStep ==
  ASSUME "rewriting" \notin CrashPoints, IInv, ToldInv, [Next]_vars
  PROVE  ToldInv'
<1>1. AllTold(Settled')
  <2>1. CASE Settled' = Settled
    BY <2>1 DEF ToldInv
  <2>2. CASE Settled' # Settled
    <3>1. PICK e \in Event : Acceptable(Settled, e) /\ Settled' = Append(Settled, e)
      BY <2>2, Step DEF Grows
    <3>2. PICK log \in Seq(Event) : log = Settled
      BY SettledIs DEF IInv
    <3>3. AllTold(Append(log, e))
      BY <3>1, <3>2, AllToldNext DEF ToldInv
    <3> QED BY <3>1, <3>2, <3>3
  <2> QED BY <2>1, <2>2
<1>2. ASSUME NEW o \in Process, pc'[o] = "rewriting" PROVE lines' = <<>>
  <2>1. CASE UNCHANGED vars
    BY <1>2, <2>1 DEF vars, ToldInv
  <2>2. ASSUME NEW p \in Process, NEW e, Call(p, e) \/ CallAgain(p, e)
        PROVE  lines' = <<>>
    BY <1>2, <2>2 DEF Call, CallAgain, files, ToldInv, IInv, TypeOK
  <2>3. ASSUME NEW p \in Process, Admit(p)
        PROVE  lines' = <<>>
    BY <1>2, <2>3 DEF Admit, files, ToldInv, IInv, TypeOK
  <2>4. ASSUME NEW p \in Process, Truncate(p)
        PROVE  lines' = <<>>
    BY <2>4 DEF Truncate
  <2>5. ASSUME NEW p \in Process, Rewrite(p) \/ AppendLine(p)
        PROVE  lines' = <<>>
    <3>1. pc[p] \in Writing /\ pc'[p] # "rewriting" /\ (o # p => pc'[o] = pc[o])
      BY <2>5 DEF Rewrite, AppendLine, Writing, IInv, TypeOK
    <3>2. o # p /\ pc[o] \in Writing
      BY <1>2, <3>1 DEF Writing
    <3> QED BY <3>1, <3>2, OneWriter DEF IInv
  <2>6. ASSUME NEW p \in Process, Checkpoint(p)
        PROVE  lines' = <<>>
    BY <1>2, <2>6 DEF Checkpoint, ToldInv, IInv, TypeOK
  <2>7. ASSUME NEW p \in Process, Crash(p)
        PROVE  lines' = <<>>
    BY <1>2, <2>7 DEF Crash, ToldInv, IInv, TypeOK
  <2> QED BY <2>1, <2>2, <2>3, <2>4, <2>5, <2>6, <2>7 DEF Next
<1> QED BY <1>1, <1>2 DEF ToldInv

LEMMA ToldIsLatest ==
  ASSUME NEW log \in Seq(Event), AllTold(log), NEW r \in Runs
  PROVE  LET run == ProjectRuns(log)[r]
         IN  [status |-> run.status, pending |-> run.pending] = Projection(log, r)
<1>1. PICK run : run = ProjectRuns(log)[r]
  OBVIOUS
<1>2. Told(run, log, r)
  BY <1>1 DEF AllTold
<1>3. \A q \in Pending(log, r) : run.pending[q] = Response(log, r, q)
  BY <1>2, ResponseIs DEF Told
<1>4. run.pending = [q \in Pending(log, r) |-> run.pending[q]]
  BY <1>2 DEF Told
<1>5. [q \in Pending(log, r) |-> run.pending[q]] =
        [q \in Pending(log, r) |-> Response(log, r, q)]
  BY <1>3
<1>6. run.status = Status(log, r)
  BY <1>2 DEF Told
<1>7. [status |-> run.status, pending |-> run.pending] = Projection(log, r)
  BY <1>4, <1>5, <1>6 DEF Projection
<1> QED BY <1>1, <1>7

\* What projectRuns folds up event by event is what the latest event about the
\* run and about each of its requests says.
THEOREM ProjectionIsLatestHolds ==
  ASSUME "rewriting" \notin CrashPoints
  PROVE  Spec => []ProjectionIsLatest
<1>1. IInv /\ [Next]_vars => IInv'
  BY Step
<1>2. IInv /\ ToldInv /\ [Next]_vars => ToldInv'
  BY ToldStep
<1>3. IInv /\ ToldInv => ProjectionIsLatest
  <2> SUFFICES ASSUME IInv, ToldInv PROVE ProjectionIsLatest
    OBVIOUS
  <2>1. AllTold(lines)
    <3>1. CASE \E p \in Process : pc[p] = "rewriting"
      BY <3>1, AllToldNothing DEF ToldInv
    <3>2. CASE ~\E p \in Process : pc[p] = "rewriting"
      BY <3>2, SettledIs DEF IInv, ToldInv
    <3> QED BY <3>1, <3>2
  <2>2. lines \in Seq(Event)
    BY DEF IInv, TypeOK
  <2> QED BY <2>1, <2>2, ToldIsLatest DEF ProjectionIsLatest
<1> QED BY <1>1, <1>2, <1>3, InitInv, ToldInit, PTL DEF Spec

-----------------------------------------------------------------------------
(* The lock under which all this is written: every reachable state has the   *)
(* declared types.                                                           *)
THEOREM LockTypeCorrect == LockSpec => []LockTypeOK
<1>1. LockInit => LockTypeOK
  BY DEF LockInit, LockTypeOK, Stage
<1>2. LockTypeOK /\ [LockNext]_lockVars => LockTypeOK'
  <2> SUFFICES ASSUME LockTypeOK, [LockNext]_lockVars PROVE LockTypeOK'
    OBVIOUS
  <2> USE DEF LockTypeOK, fs
  <2> USE DEF Stage, Acquiring, Breaking, Owning
  <2>1. ASSUME NEW t \in Task, TaskStep(t) PROVE LockTypeOK'
    <3>1. CASE Start(t) \/ Mkdir(t) \/ OpenOwner(t)
      BY <3>1 DEF Start, Mkdir, OpenOwner, Goto
    <3>2. CASE WriteOwner(t)
      BY <3>2, ProcOfAssumption DEF WriteOwner, Goto
    <3>3. CASE ReadOwner(t)
      BY <3>3 DEF ReadOwner, Goto
    <3>4. CASE Probe(t) \/ Stat(t) \/ Retry(t) \/ TimeOut(t)
      BY <3>4 DEF Probe, Stat, Retry, TimeOut, Goto
    <3>5. CASE BreakUnlink(t) \/ ReleaseUnlink(t)
      BY <3>5 DEF BreakUnlink, ReleaseUnlink, Unlink, Goto
    <3>6. CASE BreakRmdir(t) \/ ReleaseRmdir(t)
      BY <3>6 DEF BreakRmdir, ReleaseRmdir, Rmdir, Goto
    <3>7. CASE Release(t) \/ GiveUp(t)
      BY <3>7 DEF Release, GiveUp, Goto
    <3>8. QED
      BY <2>1, <3>1, <3>2, <3>3, <3>4, <3>5, <3>6, <3>7 DEF TaskStep
  <2>2. ASSUME NEW p \in Proc, Dies(p) PROVE LockTypeOK'
    BY <2>2 DEF Dies
  <2>3. CASE GrowOld
    BY <2>3 DEF GrowOld
  <2>4. CASE UNCHANGED lockVars
    BY <2>4 DEF lockVars
  <2>5. QED
    BY <2>1, <2>2, <2>3, <2>4 DEF LockNext
<1>3. QED
  BY <1>1, <1>2, PTL DEF LockSpec, lockVars

-----------------------------------------------------------------------------
(* What the steps of acquire and release keep true while all is calm.  The   *)
(* owner file is there exactly from its opening to its unlinking, which is   *)
(* what makes a 30 s old directory without it a sign of a pause.             *)

NoBreaker == \A t \in Task : call[t] \notin Breaking
OneOwner ==
  \A t, u \in Task : call[t] \in Owning /\ call[u] \in Owning => t = u
OwnerHasDir == \A t \in Task : call[t] \in Owning => dir
OwnerHasFile ==
  \A t \in Task : /\ call[t] \in {"open", "relRmdir"} => ~file
                  /\ call[t] \in {"write", "held", "relUnlink"} => file

CalmInv ==
  /\ NoBreaker /\ OneOwner /\ OwnerHasDir /\ OwnerHasFile
  /\ ~aged
  /\ dir => \E t \in Task : call[t] \in Owning

LockInv == LockTypeOK /\ (Calm => CalmInv)

\* A step never makes a disturbed lock calm again: no process comes back from
\* the dead under its id, and a pause is not undone.
LEMMA CalmIsLost ==
  ASSUME [LockNext]_lockVars, Calm'
  PROVE  Calm
<1> USE DEF Calm
<1>1. ASSUME NEW t \in Task, TaskStep(t) PROVE Calm
  BY <1>1 DEF TaskStep, Start, Mkdir, OpenOwner, WriteOwner, ReadOwner, Probe,
     Stat, Retry, TimeOut, BreakUnlink, BreakRmdir, Release, ReleaseUnlink,
     ReleaseRmdir, GiveUp, Unlink, Rmdir
<1>2. ASSUME NEW p \in Proc, Dies(p) PROVE Calm
  BY <1>2 DEF Dies
<1>3. CASE GrowOld
  BY <1>3 DEF GrowOld
<1>4. CASE UNCHANGED lockVars
  BY <1>4 DEF lockVars
<1>5. QED
  BY <1>1, <1>2, <1>3, <1>4 DEF LockNext

LEMMA CalmStep ==
  ASSUME LockTypeOK, CalmInv, Calm, Calm', [LockNext]_lockVars
  PROVE  CalmInv'
<1> USE DEF LockTypeOK, Calm, CalmInv, NoBreaker, OneOwner, OwnerHasDir,
            OwnerHasFile, fs, Stage, Acquiring, Breaking, Owning
<1>1. ASSUME NEW t \in Task, TaskStep(t) PROVE CalmInv'
  <2>1. CASE Start(t)
    BY <2>1 DEF Start, Goto
  <2>2. CASE Mkdir(t)
    BY <2>2 DEF Mkdir, Goto
  <2>3. CASE OpenOwner(t)
    BY <2>3 DEF OpenOwner, Goto
  <2>4. CASE WriteOwner(t)
    BY <2>4 DEF WriteOwner, Goto
  <2>5. CASE ReadOwner(t)
    BY <2>5 DEF ReadOwner, Goto
  <2>6. CASE Probe(t)
    BY <2>6 DEF Probe, Goto
  <2>7. CASE Stat(t)
    BY <2>7 DEF Stat, Goto
  <2>8. CASE Retry(t) \/ TimeOut(t) \/ GiveUp(t)
    BY <2>8 DEF Retry, TimeOut, GiveUp, Goto
  <2>9. CASE BreakUnlink(t) \/ BreakRmdir(t)
    BY <2>9 DEF BreakUnlink, BreakRmdir, Unlink, Rmdir, Goto
  <2>10. CASE Release(t)
    BY <2>10 DEF Release, Goto
  <2>11. CASE ReleaseUnlink(t)
    BY <2>11 DEF ReleaseUnlink, Unlink, Goto
  <2>12. CASE ReleaseRmdir(t)
    BY <2>12 DEF ReleaseRmdir, Rmdir, Goto
  <2>13. QED
    BY <1>1, <2>1, <2>2, <2>3, <2>4, <2>5, <2>6, <2>7, <2>8, <2>9, <2>10,
       <2>11, <2>12 DEF TaskStep
<1>2. ASSUME NEW p \in Proc, Dies(p) PROVE CalmInv'
  \* a crash is never calm
  BY <1>2 DEF Dies
<1>3. CASE GrowOld
  \* the directory is there, so some task is inside; without the owner file
  \* it is at one of the two places where waiting is a pause
  BY <1>3 DEF GrowOld
<1>4. CASE UNCHANGED lockVars
  BY <1>4 DEF lockVars
<1>5. QED
  BY <1>1, <1>2, <1>3, <1>4 DEF LockNext

LEMMA LockInductive == LockSpec => []LockInv
<1>1. LockInit => LockInv
  BY DEF LockInit, LockInv, LockTypeOK, Stage, CalmInv, NoBreaker, OneOwner, OwnerHasDir,
         OwnerHasFile, Breaking, Owning
<1>2. LockTypeOK /\ LockTypeOK' /\ LockInv /\ [LockNext]_lockVars => LockInv'
  BY CalmIsLost, CalmStep DEF LockInv
<1>3. QED
  BY <1>1, <1>2, LockTypeCorrect, PTL DEF LockSpec, lockVars

-----------------------------------------------------------------------------
(* While no process has died and no task was paused inside the lock, two     *)
(* tasks never run the work given to withLock at once.                       *)
THEOREM CalmExclusionHolds == LockSpec => []CalmExclusion
<1>1. LockInv => CalmExclusion
  BY DEF LockInv, CalmInv, OneOwner, Owning, CalmExclusion, MutualExclusion
<1>2. QED
  BY <1>1, LockInductive, PTL

(* While all is calm the lock directory belongs to a task that is inside. *)
THEOREM CalmCleanupHolds == LockSpec => []CalmCleanup
<1>1. LockInv => CalmCleanup
  BY DEF LockInv, CalmInv, CalmCleanup
<1>2. QED
  BY <1>1, LockInductive, PTL

=============================================================================
