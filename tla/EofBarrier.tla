----------------------------- MODULE EofBarrier -----------------------------
(***************************************************************************)
(* What a stage of the pipeline promises to the next one about the end of  *)
(* a client's stream, with no consensus, no messages and no leader.        *)
(*                                                                         *)
(* The N workers of a stage share `pending` packets.  While packets are    *)
(* pending, workers emit packets downstream.  Only when none is pending    *)
(* may a worker run its post-process step (which emits what it had         *)
(* accumulated), once.  Only when all have run it is the end of the stream *)
(* announced, once, with the exact number of packets emitted.              *)
(***************************************************************************)
EXTENDS Sequences, Tally

CONSTANTS
  Workers,          \* the processes of the stage
  Packets,          \* how many packets the stage has to process
  PacketOutputs,    \* how many packets one input packet may give downstream
  CallbackOutputs   \* how many packets a post-process step may give

VARIABLES
  pending,   \* packets not completely processed
  emitted,   \* emitted[w]: packets w has sent downstream
  closed,    \* workers that have run their post-process step
  out        \* the ends of stream announced downstream, with their totals

vars == <<pending, emitted, closed, out>>

TypeOK ==
  /\ pending \in 0 .. Packets
  /\ emitted \in [Workers -> Nat]
  /\ closed \subseteq Workers
  /\ out \in Seq(Nat)

Init ==
  /\ pending = Packets
  /\ emitted = [w \in Workers |-> 0]
  /\ closed = {}
  /\ out = <<>>

Emit(w) ==
  /\ pending > 0
  /\ \E k \in PacketOutputs : emitted' = [emitted EXCEPT ![w] = @ + k]
  /\ UNCHANGED <<pending, closed, out>>

Complete ==
  /\ pending > 0
  /\ pending' = pending - 1
  /\ UNCHANGED <<emitted, closed, out>>

PostProcess(w) ==
  /\ pending = 0
  /\ w \notin closed
  /\ \E k \in CallbackOutputs : emitted' = [emitted EXCEPT ![w] = @ + k]
  /\ closed' = closed \cup {w}
  /\ UNCHANGED <<pending, out>>

Announce ==
  /\ closed = Workers
  /\ out = <<>>
  /\ out' = <<Tally(emitted)>>
  /\ UNCHANGED <<pending, emitted, closed>>

Next ==
  \/ \E w \in Workers : Emit(w) \/ PostProcess(w)
  \/ Complete
  \/ Announce

Spec == Init /\ [][Next]_vars
=============================================================================
