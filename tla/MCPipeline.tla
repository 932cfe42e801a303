------------------------------ MODULE MCPipeline ------------------------------
(***************************************************************************)
(* Model-checking instance of Pipeline.  The type bytes are 1 and 2, with  *)
(* structs of one and two bytes, and 3, a trade.                           *)
(***************************************************************************)
EXTENDS Pipeline, TLC, SequencesExt

CONSTANT MaxPieces

MCSizeOf == 1 :> 1 @@ 2 :> 2 @@ 3 :> 1

(* A message of each type, an unknown type, a frame too short for its type, *)
(* an empty frame, a frame cut short and a lone length byte.                *)
Pieces == {<<0, 1, 1>>, <<0, 2, 2, 0>>, <<0, 1, 3>>, <<0, 1, 0>>, <<0, 1, 2>>,
           <<0, 0>>, <<0, 3, 1>>, <<1>>}

MCFiles == {FlattenSeq(s) : s \in UNION {[1 .. n -> Pieces] : n \in 0 .. MaxPieces}}

(* What the queue can carry in these files. *)
MCMessages ==
    {monostate} \cup {[kind |-> k, at |-> i] : k \in DOMAIN SizeOf, i \in 0 .. 4 * MaxPieces}
=============================================================================
