--------------------------- MODULE MCNegotiation ---------------------------
EXTENDS Negotiation, TLC

CONSTANTS k1, k2

(* A low offer and another one, one command of them slow; or an offer that  *)
(* is accepted and a wish for the cart, whose confirmation is slow.         *)
MCInit ==
  /\ Init
  /\ IF says[k2] = Words THEN says[k1] = Threshold(1) /\ \E c \in Confirmers : slow = {c}
                        ELSE says[k1] = Min(Prices) /\ \E r \in Runs : slow = {r}
MCSpec == MCInit /\ [][Next]_vars

\* Nothing tells one command, or one confirmation, from another.
Names == Permutations(Runs) \cup Permutations(Confirmers)
=============================================================================
