----------------------------- MODULE RunHistory -----------------------------
(***************************************************************************)
(* What the execution log promises: docs/agent-runtime.md calls            *)
(* events.jsonl authoritative.  It only grows, one acceptable event at a   *)
(* time.                                                                   *)
(***************************************************************************)
EXTENDS RunEvents

VARIABLE log

Init == log = <<>>

Record(e) ==
  /\ Acceptable(log, e)
  /\ log' = Append(log, e)

Next == \E e \in Event : Record(e)

Spec == Init /\ [][log' # log => Next]_log
=============================================================================
