--------------------------- MODULE MCHeapTracker ---------------------------
(* Instances of HeapTracker for TLC. *)
EXTENDS HeapTracker

CONSTANTS t1, t2

Mode(threads, realloc, outside) ==
    [threads |-> threads, realloc |-> realloc, outside |-> outside]

(* Two threads without realloc, or one thread of a process that also       *)
(* allocates between its tests, with and without realloc.                  *)
SafeModes == {Mode({t1, t2}, {}, FALSE), Mode({t1}, {t1}, TRUE), Mode({t1}, {}, TRUE)}

(* Two threads, one of which calls realloc. *)
RaceModes == {Mode({t1, t2}, {t1}, FALSE)}
=============================================================================
