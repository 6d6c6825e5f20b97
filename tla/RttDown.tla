------------------------------ MODULE RttDown -------------------------------
(***************************************************************************)
(* SEGGER_RTT.c from host to target: down-buffer 0, which the debug probe  *)
(* fills while the program reads it, and the questions whether there is    *)
(* anything to read.                                                       *)
(***************************************************************************)
EXTENDS RttRing, Integers

CONSTANTS
  Byte,      \* what the host may send
  Messages,  \* what it sends at a time
  Sizes,     \* buffers the program reads into
  Ops,       \* functions the program calls
  Word       \* 2^32: unsigned arithmetic wraps around

ASSUME DownAssumption ==
  /\ Messages \subseteq Seq(Byte)
  /\ Sizes \subseteq Nat
  /\ Word \in Nat /\ Word > SizeOfBuffer

VARIABLES
  mem, RdOff, WrOff,
  pc,        \* what the reader does next
  op,        \* the running or last function
  size,      \* of the caller's buffer
  room,      \* BufferSize: what the caller's buffer still holds
  rd, wr,    \* the function's own RdOff and WrOff
  buf,       \* bytes copied into the caller's buffer, RdOff not yet moved
  ret,       \* what the last function returned
  typed,     \* what the host still has to send
  sent,      \* bytes the probe has copied into the ring, WrOff not yet moved
  promised   \* history: HasKey or HasData said yes and nothing was read since

reader == <<RdOff, pc, op, size, room, rd, wr, buf, ret, promised>>
probe  == <<mem, WrOff, typed, sent>>
downVars   == <<reader, probe>>

DownInit ==
  /\ mem \in [Offsets -> Byte] /\ \A i \in Offsets : mem[i] = mem[0]
  /\ RdOff = 0 /\ WrOff = 0
  /\ pc = "idle" /\ op = "none" /\ size = 0 /\ room = 0 /\ rd = 0 /\ wr = 0
  /\ buf = <<>> /\ ret = 0
  /\ typed = <<>> /\ sent = 0
  /\ promised = FALSE

(* Every variable holds a value of its type. *)
DownTypeOK ==
  /\ mem \in [Offsets -> Byte]
  /\ RdOff \in Offsets /\ WrOff \in Offsets
  /\ pc \in {"idle", "read", "tail", "front", "publish"}
  /\ op \in Ops \union {"none"}
  /\ size \in Nat /\ room \in Nat /\ rd \in Offsets /\ wr \in Offsets
  /\ buf \in Seq(Byte) /\ ret \in -1 .. SizeOfBuffer
  /\ typed \in Seq(Byte) /\ sent \in 0 .. SizeOfBuffer - 1
  /\ promised \in BOOLEAN

-----------------------------------------------------------------------------
(* The debug probe *)

HostTypes ==
  /\ typed = <<>>
  /\ typed' \in Messages
  /\ UNCHANGED <<reader, mem, WrOff, sent>>

HostCopies ==
  /\ sent = 0
  /\ sent' \in 1 .. Lesser(GetAvailWriteSpace(RdOff, WrOff), Len(typed))
  /\ LET straight == Lesser(SizeOfBuffer - WrOff, sent')
     IN  mem' = Copy(Copy(mem, WrOff, SubSeq(typed, 1, straight)),
                     0, SubSeq(typed, straight + 1, sent'))
  /\ UNCHANGED <<reader, WrOff, typed>>

HostPublishes ==
  /\ sent > 0
  /\ WrOff' = Ahead(WrOff, sent)
  /\ typed' = SubSeq(typed, sent + 1, Len(typed))
  /\ sent' = 0
  /\ UNCHANGED <<reader, mem>>

Probe == HostTypes \/ HostCopies \/ HostPublishes

-----------------------------------------------------------------------------
(* The program.  SEGGER_RTT_LOCK keeps other readers out. *)

Minus(a, b) == (a - b + Word) % Word

Ask_Ordered(f) ==
  /\ pc = "idle" /\ f \in Ops
  /\ op' = f
  /\ ret' = IF RdOff <= WrOff THEN 1 ELSE 0
  /\ promised' = (promised \/ ret' # 0)
  /\ UNCHANGED <<RdOff, pc, size, room, rd, wr, buf, probe>>

(* SEGGER_RTT_HasKey, SEGGER_RTT_HasData. *)
Ask(f) ==
  /\ pc = "idle" /\ f \in Ops
  /\ op' = f
  /\ ret' = CASE f = "HasKey"  -> IF RdOff # WrOff THEN 1 ELSE 0
              [] f = "HasData" -> IF Minus(WrOff, RdOff) # 0 THEN 1 ELSE 0
  /\ promised' = (promised \/ ret' # 0)
  /\ UNCHANGED <<RdOff, pc, size, room, rd, wr, buf, probe>>

HasKey  == Ask("HasKey")
HasData == Ask("HasData")

Start(f, bytes) ==
  /\ pc = "idle" /\ f \in Ops
  /\ op' = f /\ size' = bytes /\ room' = bytes
  /\ pc' = "read"
  /\ UNCHANGED <<RdOff, rd, wr, buf, ret, promised, probe>>

Read    == \E bytes \in Sizes : Start("Read", bytes)
GetKey  == Start("GetKey", 1)
WaitKey == Start("WaitKey", 1)

(* ReadNoLock looks at the offsets once. *)
ReadOffsets ==
  /\ pc = "read"
  /\ rd' = RdOff /\ wr' = WrOff
  /\ pc' = IF RdOff > WrOff THEN "tail" ELSE "front"
  /\ UNCHANGED <<RdOff, op, size, room, buf, ret, promised, probe>>

(* memcpy of k bytes to the caller. *)
Fetch(k) ==
  /\ buf' = buf \o [i \in 1 .. k |-> mem[rd + i - 1]]
  /\ room' = room - k

(* "Read from current read position to wrap-around of buffer, first" *)
ReadTail ==
  /\ pc = "tail"
  /\ LET rem == Lesser(SizeOfBuffer - rd, room)
     IN  Fetch(rem) /\ rd' = Wrapped(rd + rem)
  /\ pc' = "front"
  /\ UNCHANGED <<RdOff, op, size, wr, ret, promised, probe>>

(* "Read remaining items of buffer": if the caller's buffer ended before   *)
(* the ring did, the difference of the offsets is a huge number, cut to 0. *)
ReadFront ==
  /\ pc = "front"
  /\ LET rem == Lesser(Minus(wr, rd), room)
     IN  Fetch(rem) /\ rd' = rd + rem
  /\ pc' = "publish"
  /\ UNCHANGED <<RdOff, op, size, wr, ret, promised, probe>>

ReadReturns_CachedOffset ==
  /\ pc = "publish"
  /\ RdOff' = IF buf # <<>> THEN rd ELSE RdOff
  /\ ret' = IF op # "Read" /\ buf = <<>> THEN -1 ELSE Len(buf)
  /\ IF op = "WaitKey" /\ buf = <<>>
     THEN pc' = "front" /\ UNCHANGED <<room, rd, wr>>
     ELSE pc' = "idle" /\ room' = 0 /\ rd' = 0 /\ wr' = 0
  /\ buf' = <<>>
  /\ promised' = (promised /\ buf = <<>>)
  /\ UNCHANGED <<op, size, probe>>

ReadReturns_Everything ==
  /\ pc = "publish"
  /\ RdOff' = IF buf # <<>> THEN wr ELSE RdOff
  /\ ret' = IF op # "Read" /\ buf = <<>> THEN -1 ELSE Len(buf)
  /\ IF op = "WaitKey" /\ buf = <<>>
     THEN pc' = "read" /\ room' = 1
     ELSE pc' = "idle" /\ room' = 0
  /\ buf' = <<>> /\ rd' = 0 /\ wr' = 0
  /\ promised' = (promised /\ buf = <<>>)
  /\ UNCHANGED <<op, size, probe>>

(* if (NumBytesRead) pRing->RdOff = RdOff; WaitKey starts over for nothing.*)
ReadReturns ==
  /\ pc = "publish"
  /\ RdOff' = IF buf # <<>> THEN rd ELSE RdOff
  /\ ret' = IF op # "Read" /\ buf = <<>> THEN -1 ELSE Len(buf)
  /\ IF op = "WaitKey" /\ buf = <<>>
     THEN pc' = "read" /\ room' = 1
     ELSE pc' = "idle" /\ room' = 0
  /\ buf' = <<>> /\ rd' = 0 /\ wr' = 0
  /\ promised' = (promised /\ buf = <<>>)
  /\ UNCHANGED <<op, size, probe>>

Reading == ReadOffsets \/ ReadTail \/ ReadFront \/ ReadReturns

DownNext == HasKey \/ HasData \/ Read \/ GetKey \/ WaitKey \/ Reading \/ Probe

DownSpec == DownInit /\ [][DownNext]_downVars

(* The target executes the function it is in; nothing is asked of the host.*)
DownFairSpec == DownSpec /\ WF_downVars(Reading)

-----------------------------------------------------------------------------
(* Properties *)

(* What the program reads is what the host sent, in order and once,        *)
(* whatever the sizes of the buffers it reads into.                        *)
Channel == INSTANCE RttChannel WITH
  Capacity <- SizeOfBuffer - 1,
  offered  <- typed,
  channel  <- Held(mem, RdOff, WrOff),
  taken    <- buf

IsChannel == Channel!Spec

(* "At least one character is available": after HasKey or HasData said so  *)
(* the next read that has room for a byte gets one.                        *)
PromiseKept ==
  [][promised /\ pc = "publish" /\ pc' # pc /\ RdOff' = RdOff => room = 0]_downVars

(* "Once a character is available, it is read and this function returns":  *)
(* WaitKey does not miss it.                                               *)
KeyTaken == op = "WaitKey" /\ pc # "idle" /\ RdOff # WrOff ~> op # "WaitKey" \/ pc = "idle"
=============================================================================
