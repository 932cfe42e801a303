--------------------------- MODULE LobsterValidator ---------------------------
(***************************************************************************)
(* LobsterValidator (src/book/lobster_validator.cpp): replays an ITCH file *)
(* through an OrderBook and compares the book with the rows of a LOBSTER   *)
(* depth file, each taken to be due when the replay reaches its timestamp. *)
(*                                                                         *)
(* A run has three phases.  While recording, the market (ITCHBook, what    *)
(* the exchange and LOBSTER agree on) goes through some events; each is a  *)
(* message of the ITCH file, and each that concerns orders is also a line  *)
(* of the message CSV (its time) and a line of the depth CSV (the market   *)
(* after it).  Then the two CSVs are loaded, once (a second load would     *)
(* append to the first), and the ITCH file validated against them with a   *)
(* fresh book.                                                             *)
(***************************************************************************)
EXTENDS BookFeed

CONSTANTS
    kDepth,      \* levels per snapshot
    Bad,         \* a CSV line that sscanf cannot read
    MaxEvents,   \* bound on the messages of the ITCH file
    MaxBad       \* bound on the unreadable lines of the CSVs

(* The exchange obeys its own rules: the feed it records conforms. *)
ASSUME LobsterAssumption ==
    /\ kDepth \in Nat \ {0}
    /\ {MaxEvents, MaxBad} \subseteq Nat
    /\ Conforming

VARIABLES
    session, market,              \* the exchange: session flag, live orders
    itch_file, msg_csv, book_csv, \* the three files
    snap_ts_, snapshots_,         \* what load has read
    phase,                        \* "record", "load", "validate", "done"
    pos, snap_idx,                \* validate: messages read, next snapshot (from 1)
    total_mismatches

files     == <<itch_file, msg_csv, book_csv>>
loaded    == <<snap_ts_, snapshots_>>
replay    == <<pos, snap_idx, total_mismatches>>
all_vars  == <<vars, session, market, files, loaded, phase, replay>>

Market == INSTANCE ITCHBook WITH Sides <- Side, NoOrder <- nullptr,
                                 open <- session, orders <- market

-----------------------------------------------------------------------------
(* The market's depth: per side, the kDepth best prices with their quantities. *)

RefsOf(orders, s) == {r \in Refs : orders[r] # nullptr /\ orders[r].side = s}
RefsAt(orders, s, p) == {r \in RefsOf(orders, s) : orders[r].price = p}
PricesOf(orders, s) == {orders[r].price : r \in RefsOf(orders, s)}

(* The n-th smallest of a set of numbers. *)
Nth(S, n) == CHOOSE x \in S : Cardinality({y \in S : y < x}) = n - 1

NthBest(orders, s, n) ==
    LET prices == PricesOf(orders, s)
    IN  Nth(prices, IF s = "B" THEN Cardinality(prices) + 1 - n ELSE n)

DepthSide(orders, s) ==
    [n \in 1 .. kDepth |->
        IF n > Cardinality(PricesOf(orders, s)) THEN [price |-> 0, qty |-> 0]
        ELSE LET p == NthBest(orders, s, n)
             IN  [price |-> p, qty |-> SharesOf(RefsAt(orders, s, p), orders)]]

Depth(orders) == [s \in Side |-> DepthSide(orders, s)]

(* The event of the market that a message reports. *)
Happens(m) ==
    \/ m.type = "S" /\ m.code = "O" /\ Market!Open
    \/ m.type = "S" /\ m.code = "C" /\ Market!Close
    \/ m.type = "S" /\ m.code = "H" /\ Market!Halt
    \/ /\ m.type \in {"A", "F"} /\ market[m.ref] = nullptr /\ Sound(m.shares, m.price)
       /\ Market!Add(m.ref, m.side, m.shares, m.price)
    \/ m.type \in {"E", "C", "X"} /\ Market!Reduce(m.ref, m.shares)
    \/ m.type = "D" /\ Market!Delete(m.ref)
    \/ /\ m.type = "U" /\ market[m.new_ref] = nullptr /\ Sound(m.shares, m.price)
       /\ Market!Replace(m.ref, m.new_ref, m.shares, m.price)
    \/ m.type \in {"P", "?"} /\ UNCHANGED <<session, market>>

(* LOBSTER has a row for every event but those of the session. *)
HasRow(m) == m.type # "S"

BadLines == Cardinality({k \in DOMAIN msg_csv : msg_csv[k] = Bad})
            + Cardinality({k \in DOMAIN book_csv : book_csv[k] = Bad})

Record(m) ==
    /\ phase = "record" /\ Len(itch_file) < MaxEvents
    /\ m.ts >= Last(itch_file).ts
    /\ Happens(m)
    /\ itch_file' = Append(itch_file, m)
    /\ IF HasRow(m)
       THEN \E row \in {Depth(market'), Bad}, time \in {m.ts, Bad} :
                /\ msg_csv' = Append(msg_csv, time)
                /\ book_csv' = Append(book_csv, row)
                /\ BadLines' <= MaxBad
       ELSE UNCHANGED <<msg_csv, book_csv>>
    /\ UNCHANGED <<vars, loaded, phase, replay>>

-----------------------------------------------------------------------------
(* The elements of seq at the indices ks, in order. *)
Picked(seq, ks) == [n \in 1 .. Cardinality(ks) |-> seq[Nth(ks, n)]]

(* load_messages: lines that do not parse leave no timestamp behind. *)
load_messages(ts, csv) == ts \o Picked(csv, {k \in DOMAIN csv : csv[k] # Bad})

(* Mutant: the row counter only counts the rows that parse. *)
load_orderbook_packed(snaps, ts, csv) ==
    LET good == Picked(csv, {k \in DOMAIN csv : csv[k] # Bad})
    IN  snaps \o [k \in 1 .. Min({Len(good), Len(ts)}) |-> [ts |-> ts[k], depth |-> good[k]]]

(* load_orderbook: row k has the k-th timestamp; rows that do not parse are skipped. *)
load_orderbook(snaps, ts, csv) ==
    LET rows == [k \in DOMAIN csv \cap DOMAIN ts |-> [ts |-> ts[k], depth |-> csv[k]]]
    IN  snaps \o Picked(rows, {k \in DOMAIN rows : csv[k] # Bad})

(***************************************************************************)
(* load: the depth CSV is only read when there are timestamps.  A CSV that *)
(* cannot be opened leaves what one without a readable line leaves, and    *)
(* the bool it returns says whether snapshots_ has any row.                *)
(***************************************************************************)
load ==
    /\ phase = "record"
    /\ phase' = "load"
    /\ snap_ts_' = load_messages(snap_ts_, msg_csv)
    /\ snapshots_' = IF snap_ts_' = <<>> THEN snapshots_
                     ELSE load_orderbook(snapshots_, snap_ts_', book_csv)
    /\ UNCHANGED <<vars, session, market, files, replay>>

(* The quantity of bk at a price of a snapshot; 0 outside the window.  A   *)
(* price that is not better than the reference has its index as bid_idx    *)
(* and ask_idx compute it.                                                 *)
our_qty(bk, s, price) ==
    LET idx == PriceIdx(s, bk[s].ref, price)
    IN  IF price > 0 /\ ~Better(s, price, bk[s].ref) /\ idx \in Indices
        THEN bk[s].levels[idx].total_qty % W32 ELSE 0

(* Mutant: only the bid side is compared. *)
compare_bids(bk, snap) ==
    Cardinality({n \in 1 .. kDepth :
        our_qty(bk, "B", snap.depth["B"][n].price) # snap.depth["B"][n].qty})

(* compare_snapshot: the number of listed levels whose quantity differs. *)
compare_snapshot(bk, snap) ==
    Cardinality({x \in Side \X (1 .. kDepth) :
        LET row == snap.depth[x[1]][x[2]] IN our_qty(bk, x[1], row.price) # row.qty})

(* The loop that compares the snapshots first .. last: the count it ends with. *)
compare_all(bk, first, last) ==
    LET total[k \in first - 1 .. last] ==
            IF k < first THEN total_mismatches
            ELSE total[k - 1] + compare_snapshot(bk, snapshots_[k])
    IN  total[last]

(* The timestamp validate compares with; 0 for what did not parse. *)
msg_ts(m) == IF m.type = "?" THEN 0 ELSE m.ts

(* Mutant: do ... while, which compares a snapshot before it asks for the time. *)
due_do_while(m) ==
    {k \in snap_idx .. Len(snapshots_) :
        k = snap_idx \/ \A j \in snap_idx .. k : msg_ts(m) >= snapshots_[j].ts}

(* The snapshots that the inner loop compares after message m. *)
due(m) ==
    {k \in snap_idx .. Len(snapshots_) :
        \A j \in snap_idx .. k : msg_ts(m) >= snapshots_[j].ts}

validate ==
    /\ phase = "load"
    /\ phase' = IF snapshots_ = <<>> THEN "done" ELSE "validate"
    /\ UNCHANGED <<vars, session, market, files, loaded, replay>>

(* One turn of the loop: dispatch a message, then compare the snapshots due. *)
ValidateMessage ==
    /\ phase = "validate" /\ pos < Len(itch_file) /\ snap_idx <= Len(snapshots_)
    /\ LET m  == itch_file[pos + 1]
           ks == IF fault' = "none" THEN due(m) ELSE {}   \* nothing follows a stop
       IN  /\ dispatch(m)
           /\ pos' = pos + 1
           /\ snap_idx' = snap_idx + Cardinality(ks)
           /\ total_mismatches' = compare_all(book', snap_idx, snap_idx' - 1)
    /\ UNCHANGED <<session, market, files, loaded, phase>>

(* The file has ended, or no snapshot is left: compare the rest and return. *)
ValidateRest ==
    /\ phase = "validate" /\ fault = "none"
    /\ pos = Len(itch_file) \/ snap_idx > Len(snapshots_)
    /\ phase' = "done"
    /\ snap_idx' = Len(snapshots_) + 1
    /\ total_mismatches' = compare_all(book, snap_idx, Len(snapshots_))
    /\ UNCHANGED <<vars, session, market, files, loaded, pos>>

(* An ITCH file starts with the opening of the market. *)
LobsterInit ==
    /\ Init
    /\ session = TRUE /\ market = [r \in Refs |-> nullptr]
    /\ itch_file = <<[type |-> "S", ts |-> 0, code |-> "O"]>>
    /\ msg_csv = <<>> /\ book_csv = <<>>
    /\ snap_ts_ = <<>> /\ snapshots_ = <<>>
    /\ phase = "record"
    /\ pos = 0 /\ snap_idx = 1 /\ total_mismatches = 0

LobsterNext ==
    \/ \E m \in ParsedMessage : Record(m)
    \/ load
    \/ validate \/ ValidateMessage \/ ValidateRest

LobsterSpec == LobsterInit /\ [][LobsterNext]_all_vars

-----------------------------------------------------------------------------
(***************************************************************************)
(* Properties.                                                             *)
(***************************************************************************)

TimesParse == \A k \in DOMAIN msg_csv : msg_csv[k] # Bad

(* No two messages of the ITCH file carry the same timestamp. *)
StrictTimes ==
    \A j, k \in DOMAIN itch_file : j < k => itch_file[j].ts < itch_file[k].ts

(* Every message of the ITCH file is of a type the parser knows. *)
AllParsed == \A k \in DOMAIN itch_file : itch_file[k].type # "?"

(* The prices of the ITCH file fit in the window. *)
PricesFit ==
    LET priced == {k \in DOMAIN itch_file : itch_file[k].type \in {"A", "F", "U"}}
    IN  \A j, k \in priced : itch_file[j].price - itch_file[k].price < kLevels

(* The quantities of the depth CSV fit in the uint32_t they are read into. *)
QuantitiesFit ==
    \A k \in DOMAIN book_csv : book_csv[k] # Bad =>
        \A s \in Side, n \in 1 .. kDepth : book_csv[k][s][n].qty < W32

(***************************************************************************)
(* A book that follows the market scores no mismatch: with distinct        *)
(* timestamps, prices that fit in the window, and an ITCH file and message *)
(* CSV that parse (rows of the depth CSV may not), every snapshot is       *)
(* compared exactly when the book has applied the event it was taken       *)
(* after.                                                                  *)
(***************************************************************************)
PerfectBookScoresZero ==
    PricesFit /\ TimesParse /\ AllParsed /\ StrictTimes /\ QuantitiesFit
        => total_mismatches = 0

(* The snapshots that a step compares. *)
Compared == snap_idx .. snap_idx' - 1

(* The j-th message, if readable, is not earlier than the k-th snapshot. *)
Reaches(j, k) == msg_ts(itch_file[j]) >= snapshots_[k].ts

(***************************************************************************)
(* A snapshot is compared in the turn of the first readable message that   *)
(* reaches its time, neither before nor after, or at the end of a file in  *)
(* which no message does, whatever lines were unreadable and however       *)
(* timestamps repeat; a turn leaves no snapshot that its message reaches.  *)
(***************************************************************************)
ComparedOnTime ==
    [][/\ \A k \in Compared :
             /\ \A j \in 1 .. pos : ~Reaches(j, k)
             /\ IF pos' > pos THEN Reaches(pos', k) ELSE pos = Len(itch_file)
       /\ pos' > pos /\ fault' = "none" =>
             \A k \in snap_idx' .. Len(snapshots_) : ~Reaches(pos', k)]_all_vars

(***************************************************************************)
(* The validator catches what recentring does wrong: under the conditions  *)
(* above, with snapshots as deep as the market, a snapshot that counts no  *)
(* mismatch shows that every live order is in a level of the book.         *)
(***************************************************************************)
LeftOutIsReported ==
    [][\A k \in Compared :
          /\ TimesParse /\ AllParsed /\ StrictTimes /\ QuantitiesFit
          /\ Cardinality(Prices) <= kDepth
          /\ compare_snapshot(book', snapshots_[k]) = 0
          => \A s \in Side : LeftOut(s)' = {}]_all_vars

-----------------------------------------------------------------------------
(***************************************************************************)
(* A statement of lobster_validator.hpp that the code does not satisfy.    *)
(***************************************************************************)

(* lobster_validator.hpp:38: a row is the "depth snapshot after each       *)
(* event", so a book that follows the market agrees with every row.        *)
SnapshotAfterEvent == PricesFit /\ TimesParse /\ AllParsed => total_mismatches = 0
=============================================================================
