------------------------------ MODULE MCRunLog ------------------------------
(* The instance of RunLog for TLC: the kinds of events each run is given.    *)
EXTENDS RunLog

CONSTANTS r1, r2, q

Of(run, kinds) ==
  [run : {run}, kind : kinds \ {"asked", "resolved", "resuming"}, requests : {{}}]
  \cup [run : {run}, kind : kinds \cap {"asked", "resolved"}, requests : {{q}}]
  \cup [run : {run}, kind : kinds \cap {"resuming"}, requests : {{q}}]

\* One run that asks, is answered, stopped, ended and resumed, beside one that
\* starts
Lives ==
  Of(r1, {"starting", "started", "session", "asked", "resolved", "cancelled",
          "finished", "resuming"})
    \cup Of(r2, {"starting"})

\* Processes are alike.
Alike == Permutations(Process)
=============================================================================
