---------------------------- MODULE MCAgentRuns ----------------------------
(***************************************************************************)
(* A server that starts the run and lists it again and again, and a user   *)
(* whose commands answer, prompt and stop it.                              *)
(***************************************************************************)
EXTENDS AgentRuns

CONSTANTS server, user, edit, ask, none

Answering == (server :> {"list"} @@ user :> {"permission", "answer", "cancel"})
Resuming == (server :> {"list"} @@ user :> {"permission", "prompt"})
=============================================================================
