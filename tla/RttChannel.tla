----------------------------- MODULE RttChannel -----------------------------
(***************************************************************************)
(* What an RTT ring buffer promises, in either direction: a bounded FIFO   *)
(* of bytes.  A writer offers messages; any part of the front of what it   *)
(* offers may be accepted, and whatever is left when it offers the next    *)
(* message is dropped.  Nothing else is ever in the channel, and the       *)
(* reader takes what was accepted in the order it was accepted.            *)
(*                                                                         *)
(* RttUp and RttDown implement this specification.                         *)
(***************************************************************************)
EXTENDS Naturals, Sequences

CONSTANTS
  Byte,      \* what can be sent
  Capacity   \* bytes the channel holds: SizeOfBuffer - 1

VARIABLES
  offered,   \* what the writer still wants to send
  channel,   \* accepted and not yet taken, oldest first
  taken      \* what the reader has copied and not yet removed

vars == <<offered, channel, taken>>

Init == offered = <<>> /\ channel = <<>> /\ taken = <<>>

Offer ==
  /\ offered' \in Seq(Byte)
  /\ UNCHANGED <<channel, taken>>

(* The first k bytes on offer enter the channel. *)
Accept ==
  \E k \in 1 .. Len(offered) :
    /\ Len(channel) + k <= Capacity
    /\ channel' = channel \o SubSeq(offered, 1, k)
    /\ offered' = SubSeq(offered, k + 1, Len(offered))
    /\ UNCHANGED taken

(* The reader copies the front of the channel, at once or bit by bit, and  *)
(* then removes what it has copied.                                        *)
Look ==
  /\ \E k \in Len(taken) + 1 .. Len(channel) : taken' = SubSeq(channel, 1, k)
  /\ UNCHANGED <<offered, channel>>

Remove ==
  /\ taken # <<>>
  /\ channel' = SubSeq(channel, Len(taken) + 1, Len(channel))
  /\ taken' = <<>>
  /\ UNCHANGED offered

Next == Offer \/ Accept \/ Look \/ Remove

Spec == Init /\ [][Next]_vars
=============================================================================
