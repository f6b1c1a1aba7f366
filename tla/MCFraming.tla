----------------------------- MODULE MCFraming -----------------------------
(* Instances of Framing and Payload for TLC. *)
EXTENDS Payload

(* The first connection sends two messages of three bytes or none over a   *)
(* path that takes one byte at a time, the other a length and no more.     *)
MCFields == [c \in Conns |-> IF c = "p" THEN {3} ELSE {}]
MCMessages == [c \in Conns |-> IF c = "p" THEN 2 ELSE 1]
MCLimits == [c \in Conns |-> IF c = "p" THEN 1 ELSE 4]

(* Bodies of up to two values, with strings that are empty, that hold a  *)
(* zero byte, and that are lists of strings; those of each length.         *)
MCStrings == UNION {[1..n -> {<<"byte", 1>>, Nul}] : n \in 0..2}
MCValues ==
    [type : {"number"}, list : {FALSE}, of : {0, 1}]
    \union [type : {"string"}, list : {FALSE}, of : MCStrings]
    \union [type : {"number"}, list : {TRUE}, of : {<<>>, <<1>>, <<0, 1>>}]
    \union [type : {"string"}, list : {TRUE}, of : UNION {[1..n -> MCStrings] : n \in 0..2}]
MCBodies == UNION {[1..n -> MCValues] : n \in 0..2}
=============================================================================
