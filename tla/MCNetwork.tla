----------------------------- MODULE MCNetwork -----------------------------
(* An instance of Network for TLC. *)
EXTENDS Network

(* A test over a faulty network, then one over a sound one. *)
MCFaulty == <<TRUE, FALSE>>
=============================================================================
