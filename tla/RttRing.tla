------------------------------ MODULE RttRing -------------------------------
(***************************************************************************)
(* The ring buffer that SEGGER_RTT.c puts between target and debug probe:  *)
(* SizeOfBuffer slots, a write offset WrOff owned by the writer and a read *)
(* offset RdOff owned by the reader.  One slot stays free, so that equal   *)
(* offsets mean an empty buffer.                                           *)
(***************************************************************************)
EXTENDS Naturals, Sequences

CONSTANT SizeOfBuffer

ASSUME RingAssumption == SizeOfBuffer \in Nat /\ SizeOfBuffer > 1

Offsets == 0 .. SizeOfBuffer - 1

(* The offset k slots after off. *)
Ahead(off, k) == IF off + k < SizeOfBuffer THEN off + k ELSE off + k - SizeOfBuffer

(* How many bytes lie between the offsets, and which, oldest first. *)
Used(RdOff, WrOff) ==
  IF RdOff <= WrOff THEN WrOff - RdOff ELSE WrOff - RdOff + SizeOfBuffer

Held(mem, RdOff, WrOff) ==
  [i \in 1 .. Used(RdOff, WrOff) |-> mem[Ahead(RdOff, i - 1)]]

(* _GetAvailWriteSpace *)
GetAvailWriteSpace(RdOff, WrOff) ==
  IF RdOff <= WrOff THEN SizeOfBuffer - 1 - WrOff + RdOff ELSE RdOff - WrOff - 1

(* memcpy of bytes into the ring from offset off on. *)
Copy(mem, off, bytes) ==
  [i \in Offsets |->
     IF off <= i /\ i < off + Len(bytes) THEN bytes[i - off + 1] ELSE mem[i]]

(* An offset moved up to the end of the ring starts over. *)
Wrapped(off) == IF off = SizeOfBuffer THEN 0 ELSE off

Lesser(a, b) == IF a < b THEN a ELSE b
=============================================================================
