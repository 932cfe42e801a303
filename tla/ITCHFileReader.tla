---------------------------- MODULE ITCHFileReader ----------------------------
(***************************************************************************)
(* Framing and parsing of a replay file (src/transport/pcap_replay.cpp and *)
(* parse_message of src/itch/parser.cpp).                                  *)
(*                                                                         *)
(* The file is the byte sequence buf: frames of a two-byte big-endian      *)
(* length and that many bytes, the first of which is the message type.     *)
(* Offsets count from 0, as in the code.  The fields of a message are      *)
(* represented by the offset they are copied from.                         *)
(***************************************************************************)
EXTENDS Integers, Sequences

CONSTANTS SizeOf,     \* type byte -> sizeof of the message's struct
          TradeType   \* the type byte 'P'

ASSUME ReaderAssumption ==
    /\ DOMAIN SizeOf \subseteq 0 .. 255
    /\ \A t \in DOMAIN SizeOf : SizeOf[t] \in Nat \ {0}
    /\ TradeType \in DOMAIN SizeOf

ByteAt(buf, i) == buf[i + 1]

(* What next_message leaves: the new pos_ and, unless it returns nullptr,  *)
(* the message's offset and out_len.                                       *)
NoFrame == [at |-> -1, len |-> 0]

FrameLen(buf, pos) == ByteAt(buf, pos) * 256 + ByteAt(buf, pos + 1)

(* Mutant: a frame may claim bytes past the end of the buffer. *)
next_message_unchecked(buf, pos) ==
    IF pos + 2 > Len(buf) THEN [pos |-> pos, frame |-> NoFrame]
    ELSE LET len   == FrameLen(buf, pos)
             start == pos + 2
         IN  IF len = 0 THEN [pos |-> start, frame |-> NoFrame]
             ELSE [pos |-> start + len, frame |-> [at |-> start, len |-> len]]

next_message(buf, pos) ==
    IF pos + 2 > Len(buf) THEN [pos |-> pos, frame |-> NoFrame]
    ELSE LET len   == FrameLen(buf, pos)
             start == pos + 2
         IN  IF len = 0 \/ start + len > Len(buf) THEN [pos |-> start, frame |-> NoFrame]
             ELSE [pos |-> start + len, frame |-> [at |-> start, len |-> len]]

(* std::monostate: an unknown type, or a frame too short for its type. *)
monostate == [kind |-> -1, at |-> -1]

parse_message(buf, frame) ==
    LET type == ByteAt(buf, frame.at)
    IN  IF frame.len > 0 /\ type \in DOMAIN SizeOf /\ frame.len >= SizeOf[type]
        THEN [kind |-> type, at |-> frame.at]
        ELSE monostate

(* The messages main.cpp's dispatch hands to a handler of the book. *)
Handled(msg) == msg.kind \notin {monostate.kind, TradeType}

-----------------------------------------------------------------------------
(***************************************************************************)
(* The reference: the frames of a file are the longest chain of non-empty  *)
(* frames that starts at offset 0, each beginning where the one before it  *)
(* ends and lying wholly inside the file.                                  *)
(***************************************************************************)
IsFraming(buf, starts) ==
    /\ starts # <<>> => starts[1] = 0
    /\ \A k \in DOMAIN starts :
          LET len == FrameLen(buf, starts[k])
          IN  /\ len > 0
              /\ starts[k] + 2 + len <= Len(buf)
              /\ k < Len(starts) => starts[k + 1] = starts[k] + 2 + len

(* Every frame takes three bytes at least, and starts two bytes before the end. *)
Framings(buf) ==
    {starts \in UNION {[1 .. n -> 0 .. Len(buf) - 2] : n \in 0 .. Len(buf) \div 3} :
        IsFraming(buf, starts)}

Frames(buf) ==
    LET starts == CHOOSE f \in Framings(buf) : \A g \in Framings(buf) : Len(g) <= Len(f)
    IN  [k \in DOMAIN starts |-> [at |-> starts[k] + 2, len |-> FrameLen(buf, starts[k])]]
=============================================================================
