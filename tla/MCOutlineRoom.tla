--------------------------- MODULE MCOutlineRoom ---------------------------
(* A room with one bullet and an agent that was dispatched to it.            *)
EXTENDS OutlineRoom

CONSTANTS n1, n2, q1, q2, here, gone, none

\* A run that is being set up, or one at work that asks a question and suggests
\* a bullet; and two delegations below it that failed.
SetUp == NewRun([thread |-> 1, node |-> n1, parent |-> NoThread], "room")
Asking ==
  [SetUp EXCEPT !.offers = {n2},
     !.log = FoldLeft(Fold, @, <<Event("started", {}), Event("session", {}),
                                 Event("asked", {q1}), Event("asked", {q2})>>)]
Started == {<<SetUp>>, <<Asking>>}
Failed(t) == FailedThread([thread |-> t, node |-> n1, parent |-> t - 1])
Delegated == [NoState EXCEPT !.failed = {Failed(2), Failed(3)}]
=============================================================================
