------------------------------- MODULE ITCHBook -------------------------------
(***************************************************************************)
(* What an order book driven by ITCH messages promises: the set of live    *)
(* orders, by reference, and the session flag.  Nothing is said of price   *)
(* levels, windows, pools or queues.  OrderBook implements this.           *)
(***************************************************************************)
EXTENDS Naturals

CONSTANTS Refs, Prices, Quantities, Sides, NoOrder

VARIABLES open,    \* is the session open?
          orders   \* the live order of each reference, or NoOrder

LiveOrder == [side : Sides, price : Prices, shares : Nat]

Init ==
    /\ open = FALSE
    /\ orders = [r \in Refs |-> NoOrder]

Open  == open' = TRUE /\ UNCHANGED orders
Close == open' = FALSE /\ UNCHANGED orders
Halt  == open' = FALSE /\ orders' = [r \in Refs |-> NoOrder]

(* Orders are accepted in an open session only. *)
Add(r, s, q, p) ==
    /\ open
    /\ orders' = [orders EXCEPT ![r] = [side |-> s, price |-> p, shares |-> q]]
    /\ UNCHANGED open

(* Some of an order's shares go, and with the last of them the order. *)
Reduce(r, q) ==
    /\ orders[r] # NoOrder
    /\ q <= orders[r].shares
    /\ LET left == orders[r].shares - q
       IN  orders' = [orders EXCEPT ![r] = IF left = 0 THEN NoOrder
                                           ELSE [@ EXCEPT !.shares = left]]
    /\ UNCHANGED open

Delete(r) ==
    /\ orders[r] # NoOrder
    /\ orders' = [orders EXCEPT ![r] = NoOrder]
    /\ UNCHANGED open

(* The new order takes the side of the old one, which goes. *)
Replace(old, new, q, p) ==
    /\ orders[old] # NoOrder
    /\ orders' = [[orders EXCEPT ![old] = NoOrder] EXCEPT
                     ![new] = [side |-> orders[old].side, price |-> p, shares |-> q]]
    /\ UNCHANGED open

Next ==
    \/ Open \/ Close \/ Halt
    \/ \E r \in Refs, s \in Sides, q \in Quantities, p \in Prices : Add(r, s, q, p)
    \/ \E r \in Refs, q \in Quantities : Reduce(r, q)
    \/ \E r \in Refs : Delete(r)
    \/ \E old, new \in Refs, q \in Quantities, p \in Prices : Replace(old, new, q, p)

Spec == Init /\ [][Next]_<<open, orders>>
=============================================================================
