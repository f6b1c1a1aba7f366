------------------------------ MODULE Payload ------------------------------
(***************************************************************************)
(* Messages with something in them: Framing delivers lengths, and a body   *)
(* of such a length is what operator<< wrote and operator>> will read.     *)
(***************************************************************************)
EXTENDS Framing, Codec

CONSTANT Bodies     \* the sequences of values that are sent

ASSUME BodiesAssumption == \A b \in Bodies : IsBody(b)

(* The lengths at which every body is read back. *)
LengthsRead == {n \in 0..MaxBody : \A b \in Bodies : Len(Written(b)) = n => ReadsBack(b)}

(* The body of a message taken in whole reads back as it was written,      *)
(* whichever of the bodies of its length it is.                            *)
RoundTrip == \A c \in Conns : \A i \in DOMAIN got[c] :
                got[c][i].whole => got[c][i].len - Header \in LengthsRead
=============================================================================
