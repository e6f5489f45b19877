--------------------------- MODULE RunProjection ---------------------------
(***************************************************************************)
(* One event after another, as projectRuns (RunEventLog.ts) folds them     *)
(* into a run: its status, whether its session can be loaded again, and    *)
(* the requests that await an answer, each with the way to answer it.      *)
(*                                                                         *)
(* Times, messages, exit codes, commits and the payloads of signals are    *)
(* left out; a "finished" event with a nonzero exit code is a "failed" one. *)
(***************************************************************************)
EXTENDS SequencesExt

CONSTANT Request    \* ids of the permissions and questions agents ask

\* "starting" carries the run of start(), and so does the "started" that follows
\* it: nothing but the launch has been recorded between them, so that here only
\* the status changes at the second; "resuming" stands for the "starting"
\* event of resume(), which carries a run with a saved session, its
\* capabilities and the requests still pending; "observed" stands for output,
\* observation, commit, pr and the signals that project nothing.
Beginnings == {"starting", "resuming", "started"}
Endings == {"finished", "failed"}
Signals == {"session", "asked", "resolved", "cancelled"}
Kinds == Beginnings \cup Endings \cup Signals \cup {"observed"}

Restarts(e) == e.kind \in {"starting", "resuming"}

FreshRun == [status |-> "unknown", loadable |-> FALSE, pending |-> <<>>]

\* One event of the run, as the loop body of projectRuns takes it in.
Fold(run, e) ==
  LET expired == IF run.loadable THEN "message" ELSE "expired"
  IN  CASE e.kind = "starting" -> [FreshRun EXCEPT !.status = "starting"]
        [] e.kind = "resuming" ->
             [status |-> "starting", loadable |-> TRUE,
              pending |-> [q \in e.requests |-> "message"]]
        [] e.kind = "started"  -> [run EXCEPT !.status = "running"]
        [] e.kind = "session"  -> [run EXCEPT !.loadable = TRUE]
        [] e.kind = "asked"    ->
             [run EXCEPT !.pending = [q \in DOMAIN @ \cup e.requests |->
                IF q \in e.requests THEN "live" ELSE run.pending[q]]]
        [] e.kind = "resolved" ->
             [run EXCEPT !.pending = Restrict(@, DOMAIN @ \ e.requests)]
        [] e.kind = "cancelled" -> [run EXCEPT !.pending = <<>>]
        [] e.kind \in Endings  ->
             [run EXCEPT !.status = "ended",
                         !.pending = [q \in DOMAIN @ |-> expired]]
        [] OTHER -> run
=============================================================================
