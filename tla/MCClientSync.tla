---------------------------- MODULE MCClientSync ----------------------------
(* Tabs on a document of two bullets.  Bullet ids are numbers, new ones the *)
(* next; two contents are enough for two authors to disagree.               *)
EXTENDS ClientSync

CONSTANTS v1, v2

OneBullet ==
  [node |-> [n \in {1} |-> [parent |-> Root, val |-> v1, changedAt |-> 1]],
   order |-> <<1>>, tombs |-> <<>>]
TwoBullets ==
  [node |-> [n \in {1, 2} |-> [parent |-> Root, val |-> v1, changedAt |-> 1]],
   order |-> <<1, 2>>, tombs |-> <<>>]

Update2(id) == [type |-> "update", id |-> id, val |-> v2]
Move2(id, parent) == [type |-> "move", id |-> id, parent |-> parent, after |-> AtEnd]
Delete2(id) == [type |-> "delete", id |-> id]

OtherEdits == {<<Update2(1)>>, <<Delete2(1)>>}
OtherMoves == {<<Move2(1, 2)>>}
=============================================================================
