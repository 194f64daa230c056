--------------------------- MODULE MCTrickOrTreat ---------------------------
(* TrickOrTreat for TLC: houses on a line, two groups of one and two kids. *)
EXTENDS TrickOrTreat

Place == <<0, 4, 2, 1>>
MCDistance == [p \in Houses \X Houses |->
                 LET d == Place[p[1] + 1] - Place[p[2] + 1]
                 IN  IF d < 0 THEN -d ELSE d]
MCStartingHouse == [g \in Groups |-> g]
MCNumOfKids == [g \in Groups |-> g + 1]
MCInitialCandy == [h \in Houses |-> IF h < 2 THEN 0 ELSE 1]
MCRefills == {[house |-> 3, candy |-> 1]}
=============================================================================
