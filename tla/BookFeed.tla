------------------------------- MODULE BookFeed -------------------------------
(***************************************************************************)
(* The messages of include/itch/messages.hpp that drive a book, and the    *)
(* dispatch of a parsed message to the book's handler.  A message is a     *)
(* record of the fields some code reads; the byte swaps and packed layouts *)
(* are the parser's business (ITCHFileReader).                             *)
(***************************************************************************)
EXTENDS OrderBook

CONSTANT Times   \* timestamps, nanoseconds since midnight

ASSUME TimesAssumption == Times \subseteq Nat

SystemEventMsg == [type : {"S"}, ts : Times, code : {"O", "C", "H", "Q"}]
AddOrderMsg == [type : {"A"}, ts : Times, ref : Refs, side : Side,
                shares : Quantities, price : Prices]
AddOrderMPIDMsg == [type : {"F"}, ts : Times, ref : Refs, side : Side,
                    shares : Quantities, price : Prices]
ExecuteOrderMsg == [type : {"E"}, ts : Times, ref : Refs, shares : Quantities]
ExecuteOrderWithPriceMsg == [type : {"C"}, ts : Times, ref : Refs, shares : Quantities]
CancelOrderMsg == [type : {"X"}, ts : Times, ref : Refs, shares : Quantities]
DeleteOrderMsg == [type : {"D"}, ts : Times, ref : Refs]
ReplaceOrderMsg == [type : {"U"}, ts : Times, ref : Refs, new_ref : Refs,
                    shares : Quantities, price : Prices]
TradeMsg == [type : {"P"}, ts : Times]

(* std::monostate: a frame whose type or length the parser does not know. *)
Unparsed == [type : {"?"}, ts : Times]

ParsedMessage ==
    UNION {SystemEventMsg, AddOrderMsg, AddOrderMPIDMsg, ExecuteOrderMsg,
           ExecuteOrderWithPriceMsg, CancelOrderMsg, DeleteOrderMsg, ReplaceOrderMsg,
           TradeMsg, Unparsed}

(* Trades and unparsed frames have no handler. *)
dispatch(m) ==
    \/ m.type = "S" /\ OnSystemEvent(m.code)
    \/ m.type = "A" /\ OnAdd(m.ref, m.side, m.shares, m.price)
    \/ m.type = "F" /\ OnAddMPID(m.ref, m.side, m.shares, m.price)
    \/ m.type = "E" /\ OnExecute(m.ref, m.shares)
    \/ m.type = "C" /\ OnExecuteWithPrice(m.ref, m.shares)
    \/ m.type = "X" /\ OnCancel(m.ref, m.shares)
    \/ m.type = "D" /\ OnDelete(m.ref)
    \/ m.type = "U" /\ OnReplace(m.ref, m.new_ref, m.shares, m.price)
    \/ m.type \in {"P", "?"} /\ fault = "none" /\ UNCHANGED vars
=============================================================================
