-------------------------- MODULE MCObservedSearch --------------------------
(* Two seats take turns; the second does not see which of two moves the     *)
(* first made.  With the second deck the second seat's answer is forced     *)
(* after one of them and missing after the other; with the third one of    *)
(* its answers is another, and the game is over after it.                   *)
EXTENDS ObservedSearch

Concealed == <<[m \in Move |-> m], [m \in Move |-> "hidden"]>>

Alternate(n) == 1 + (n % 2)

Offers(deck, line) ==
  IF line = <<>> \/ deck = "open" THEN <<"left", "right">>
  ELSE IF deck = "short" THEN <<"left", "down">>
  ELSE IF line[1] = "left" THEN <<"right">> ELSE <<>>

Length(deck) == IF deck = "short" THEN 2 ELSE 3

Rewards == {<<1, 0>>, <<0, 1>>}
Won(line) == IF line[2] = "left" THEN <<0, 1>> ELSE <<1, 0>>
Nothing == <<0, 0>>
=============================================================================
