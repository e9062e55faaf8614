----------------------------- MODULE PacketStream -----------------------------
(***************************************************************************)
(* What a queue of packets promises its users: the other end receives the   *)
(* packets that were sent, in the order in which they were sent, none twice  *)
(* and none skipped.                                                         *)
(***************************************************************************)
EXTENDS Naturals, Sequences

CONSTANT Packets

VARIABLES sent, received

streamVars == <<sent, received>>

StreamInit == sent = <<>> /\ received = <<>>

Send ==
  /\ \E p \in Packets : sent' = Append(sent, p)
  /\ UNCHANGED received

(* One packet or several arrive. *)
Deliver ==
  /\ \E n \in Len(received) + 1 .. Len(sent) : received' = SubSeq(sent, 1, n)
  /\ UNCHANGED sent

StreamSpec == StreamInit /\ [][Send \/ Deliver]_streamVars
=============================================================================
