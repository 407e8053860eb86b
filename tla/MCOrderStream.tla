--------------------------- MODULE MCOrderStream ---------------------------
(* One order and two workers: the entries one order leaves behind when it is *)
(* retried, claimed twice and drained stand for those of other orders.       *)
EXTENDS OrderStream

CONSTANTS o1, w1, w2

MCOrder  == {o1}
MCWorker == {w1, w2}
=============================================================================
