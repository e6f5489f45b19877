----------------------------- MODULE MCTerminal -----------------------------
(***************************************************************************)
(* Two tabs that attach in turns: the third socket replaces that of the    *)
(* other tab and closes the one the first tab opened before, at whatever   *)
(* stage their handlers are.                                               *)
(***************************************************************************)
EXTENDS Terminal

CONSTANTS t1, t2, small

InTurns == <<{t1}, {t2}, {t1}>>
=============================================================================
