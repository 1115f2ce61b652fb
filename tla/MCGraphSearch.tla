--------------------------- MODULE MCGraphSearch ---------------------------
(* A game of six positions: two routes from the first to the fourth, which  *)
(* leads back to the first and to the second; the second is reached by      *)
(* another player's choice at the third, which has a choice that the others *)
(* have not; and one position that has a single choice.                     *)
EXTENDS GraphSearch

Leads == [ m \in {<<1, "l">>, <<1, "r">>, <<2, "l">>, <<2, "r">>,
                   <<3, "l">>, <<3, "r">>, <<3, "m">>, <<4, "l">>, <<4, "r">>, <<5, "l">>} |->
           CASE m = <<1, "l">> -> 2
             [] m = <<1, "r">> -> 3
             [] m = <<2, "l">> -> 4
             [] m = <<2, "r">> -> 5
             [] m = <<3, "l">> -> 4
             [] m = <<3, "r">> -> 2
             [] m = <<3, "m">> -> 5
             [] m = <<4, "l">> -> 1
             [] m = <<4, "r">> -> 2
             [] m = <<5, "l">> -> 6 ]

Acts == [p \in Position |-> IF p \in {1, 4} THEN 0 ELSE 1]

(* SameAtRoot and SameEverywhere; a game whose choices may change at every  *)
(* position but the third, which is what keeps the worlds few enough to     *)
(* explore; and one that answers position by position.                      *)
Answers == {[root |-> Position, below |-> {}], [root |-> Position, below |-> Position],
            [root |-> {}, below |-> {3}], [root |-> {1, 3}, below |-> {3, 4}]}
=============================================================================
