--------------------------- MODULE MCBatchPublisher ---------------------------
(* Two senders and two destinations.  Three messages per destination and batches
   of two make full batches, batches cut short by time and batches cut short by
   close(), in any interleaving with the senders. *)
EXTENDS BatchPublisher, TLC

CONSTANTS s1, s2, d1, d2

MCSenders == {s1, s2}
MCDestinations == {d1, d2}
=============================================================================
