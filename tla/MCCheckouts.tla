---------------------------- MODULE MCCheckouts ----------------------------
(***************************************************************************)
(* Three shops in one run, each with the carts and bounds its hazards need: *)
(* credit and a quote between the two carts of one customer, the last use   *)
(* of a coupon wanted by two customers, and a cart that is edited, repriced *)
(* and ordered at once.  The constants hold what is in any of them.         *)
(***************************************************************************)
EXTENDS Checkout, TLC

CONSTANTS u, v, own, assisted, other

\* A customer's own cart, the one a partner fills for the same customer, another customer's.
CartOwner == [c \in Carts |-> IF c = other THEN v ELSE u]
QuoteOfFirst == [q \in Quotes |-> u]
OneEach == [c \in Customers |-> 1]

\* Nothing tells one request, key or preview from another.
Names == Permutations(Requests) \cup Permutations(Keys) \cup Permutations(Previews)

VARIABLE shop \* which of the three; does not change

Credits == INSTANCE Checkout WITH
  Carts <- {own, assisted}, Owner <- [c \in {own, assisted} |-> u]
Coupons == INSTANCE Checkout WITH
  Carts <- {own, other}, Assisted <- {}, Owner <- [c \in {own, other} |-> CartOwner[c]],
  Uses <- {"coupon"}
Edits == INSTANCE Checkout WITH
  Carts <- {own}, Assisted <- {}, Owner <- [c \in {own} |-> u],
  Uses <- {}, MaxQty <- 2, MaxVersion <- 4, MaxLapses <- 1

mcVars == <<shop, vars>>
MCInit ==
  \/ shop = "credits" /\ Credits!Init
  \/ shop = "coupons" /\ Coupons!Init
  \/ shop = "edits" /\ Edits!Init
MCNext ==
  /\ UNCHANGED shop
  /\ \/ shop = "credits" /\ Credits!Next
     \/ shop = "coupons" /\ Coupons!Next
     \/ shop = "edits" /\ Edits!Next
MCSpec == MCInit /\ [][MCNext]_mcVars
=============================================================================
