------------------------------ MODULE PriceLevel ------------------------------
(***************************************************************************)
(* One price level (include/book/price_level.hpp): the quantity resting at *)
(* a price, the number of orders there, and the FIFO of those orders.      *)
(*                                                                         *)
(* The intrusive doubly-linked list is the sequence of its nodes from head *)
(* to tail.  An order is a slot of the order pool; the fields a level      *)
(* needs of it (its shares) are passed as arguments.  The counters keep    *)
(* their C++ widths: they wrap at W32 and W64, which stand for 2^32, 2^64. *)
(***************************************************************************)
EXTENDS Integers, SequencesExt

CONSTANTS W32,   \* modulus of uint32_t
          W64    \* modulus of uint64_t

(***************************************************************************)
(* The wide type holds the narrow one a whole number of times, as 2^64     *)
(* holds 2^32: truncating a uint64_t is then reduction modulo W32.         *)
(***************************************************************************)
ASSUME WidthAssumption ==
    /\ W32 \in Nat \ {0}
    /\ W64 \in Nat \ {0}
    /\ W32 <= W64
    /\ W64 % W32 = 0

(* a + b and a - b on unsigned integers of modulus w, for a, b < w. *)
AddW(a, b, w) == IF a + b < w THEN a + b ELSE a + b - w
SubW(a, b, w) == IF b <= a THEN a - b ELSE a - b + w

Level(Slot) == [total_qty : 0 .. W64 - 1, order_count : 0 .. W32 - 1, fifo : Seq(Slot)]

EmptyLevel == [total_qty |-> 0, order_count |-> 0, fifo |-> <<>>]

level_empty(lvl) == lvl.order_count = 0

(* Mutant: add_order pushes at the head. *)
level_add_at_head(lvl, o, shares) ==
    [total_qty   |-> AddW(lvl.total_qty, shares, W64),
     order_count |-> AddW(lvl.order_count, 1, W32),
     fifo        |-> <<o>> \o lvl.fifo]

(* add_order appends the order at the tail. *)
level_add_order(lvl, o, shares) ==
    [total_qty   |-> AddW(lvl.total_qty, shares, W64),
     order_count |-> AddW(lvl.order_count, 1, W32),
     fifo        |-> Append(lvl.fifo, o)]

(* Unlinking the node o joins its neighbours and leaves the rest in order. *)
Unlink(fifo, o) ==
    LET k == CHOOSE k \in DOMAIN fifo : fifo[k] = o
    IN  RemoveAt(fifo, k)

(* Mutant: pops the front of the queue, whichever order was meant. *)
level_remove_head(lvl, o, shares) ==
    [total_qty   |-> SubW(lvl.total_qty, shares, W64),
     order_count |-> SubW(lvl.order_count, 1, W32),
     fifo        |-> Tail(lvl.fifo)]

(* Mutant: the level keeps the shares of an order it unlinks. *)
level_remove_keeps_qty(lvl, o, shares) ==
    [lvl EXCEPT !.order_count = SubW(@, 1, W32), !.fifo = Unlink(lvl.fifo, o)]

level_remove_order(lvl, o, shares) ==
    [total_qty   |-> SubW(lvl.total_qty, shares, W64),
     order_count |-> SubW(lvl.order_count, 1, W32),
     fifo        |-> Unlink(lvl.fifo, o)]

(* The assertions of remove_order, live unless NDEBUG is defined. *)
level_remove_asserts(lvl, shares) == lvl.order_count > 0 /\ lvl.total_qty >= shares

level_reduce_shares(lvl, by) ==
    [lvl EXCEPT !.total_qty = SubW(@, by, W64)]

(* The assertion of reduce_shares on an order holding the given shares. *)
level_reduce_asserts(lvl, shares, by) == by <= shares /\ by <= lvl.total_qty
=============================================================================
