------------------------------- MODULE RttUp --------------------------------
(***************************************************************************)
(* SEGGER_RTT.c from target to host: the control block, up-buffer 0, the   *)
(* functions that write to it and the debug probe that empties it while    *)
(* they run.                                                               *)
(*                                                                         *)
(* One step is one access to what the probe shares: a look at RdOff, a     *)
(* memcpy into the ring, the store to WrOff that publishes it.  The target *)
(* has one writer at a time, for SEGGER_RTT_LOCK masks its interrupts, but *)
(* a hard fault cannot be masked: am_print_string then writes from the     *)
(* fault handler, at any point of the write it interrupted, and never      *)
(* returns to it.                                                          *)
(***************************************************************************)
EXTENDS RttRing, Integers, FiniteSets, SequencesExt

CONSTANTS
  Modes,       \* flags a buffer may be given, of AllModes
  Terminals,   \* virtual terminals of channel 0
  Calls,       \* calls the program makes, of AllCalls
  Values,      \* byte values before they repeat
  Faults       \* TRUE: a hard fault may happen

AllModes == {"skip", "trim", "block", "other"}

Functions == {"write", "_write", "WriteSkip", "PutChar", "PutCharSkip", "SetTerminal", "TerminalOut"}

AllCalls ==
  {c \in [op : Functions, term : Terminals, len : Nat] :
     /\ c.op \notin {"SetTerminal", "TerminalOut"} => c.term = 0
     /\ c.op \in {"PutChar", "PutCharSkip"} => c.len = 1
     /\ c.op = "WriteSkip" => c.len > 0}

ASSUME UpAssumption ==
  /\ Calls \subseteq AllCalls
  /\ Modes \subseteq AllModes
  /\ 0 \in Terminals
  /\ Values \in Nat \ {0}
  /\ Faults \in BOOLEAN

VARIABLES
  acID,      \* progress of acID: 0 empty, 1 "RTT", 2 "SEGGER", 3 complete
  ready,     \* pBuffer and SizeOfBuffer of the ring are set
  mem,       \* the slots
  RdOff, WrOff,
  flags,     \* Flags of the ring
  active,    \* _ActiveTerminal
  pc,        \* what the writer does next
  call,      \* the running or last call: op, terminal, length
  how,       \* _WriteNoCheck or _WriteBlocking
  left,      \* bytes the call still has to store
  piece,     \* bytes left in the running _WriteBlocking
  pieces,    \* lengths of the _WriteBlocking calls after it
  n,         \* bytes of the chunk being copied
  status,    \* Status
  ret,       \* what the last call returned
  next,      \* value of the next data byte
  faulted,   \* the hard fault has happened
  got,       \* the probe's copy, RdOff not yet moved
  screen     \* which terminal the host shows bytes on, and whether it saw 0xFF

VARIABLE stored \* history: data bytes published since the call began

writer == <<call, how, left, piece, pieces, n, status, ret, next, stored>>
probe  == <<RdOff, got, screen>>
vars   == <<acID, ready, mem, WrOff, flags, active, pc, faulted, writer, probe>>

Nul     == [kind |-> "nul", term |-> 0, k |-> 0]
Escape  == [kind |-> "esc", term |-> 0, k |-> 0]
Byte    == {Nul, Escape} \union [kind : {"id"}, term : Terminals, k : {0}]
                         \union [kind : {"data"}, term : Terminals, k : 0 .. Values - 1]

NoCall == [op |-> "none", term |-> 0, len |-> 0]

(* A string of len bytes meant for terminal t. *)
Text(t, len) == [i \in 1 .. len |-> [kind |-> "data", term |-> t, k |-> (next + i - 1) % Values]]

Switch(t) == <<Escape, [kind |-> "id", term |-> t, k |-> 0]>>

Init ==
  /\ acID = 0 /\ ready = FALSE
  /\ mem = [i \in Offsets |-> Nul]
  /\ RdOff = 0 /\ WrOff = 0 /\ flags = "skip" /\ active = 0
  /\ pc = "init" /\ call = NoCall /\ how = "nocheck"
  /\ left = <<>> /\ piece = 0 /\ pieces = <<>> /\ n = 0
  /\ status = 0 /\ ret = 0 /\ next = 0 /\ stored = 0
  /\ faulted = FALSE
  /\ got = <<>> /\ screen = [esc |-> FALSE, term |-> 0]

-----------------------------------------------------------------------------
(* Initialization: the id string comes last, its first character after     *)
(* everything INIT() must find set up, its seventh after everything the    *)
(* probe must find.                                                        *)

DoInitBuffers ==
  /\ pc = "init"
  /\ ready' = TRUE /\ RdOff' = 0 /\ WrOff' = 0 /\ flags' = "skip"
  /\ pc' = "rtt"
  /\ UNCHANGED <<acID, mem, active, faulted, writer, got, screen>>

Identify(from, id, to) ==
  /\ pc = from
  /\ acID' = id
  /\ pc' = to
  /\ UNCHANGED <<ready, mem, WrOff, flags, active, faulted, writer, probe>>

DoInitId ==
  \/ Identify("rtt", 1, "segger")
  \/ Identify("segger", 2, "space")
  \/ Identify("space", 3, IF call = NoCall THEN "idle" ELSE "begin")

DoInit_IdFirst ==
  \/ Identify("init", 3, "rtt")
  \/ /\ pc = "rtt"
     /\ ready' = TRUE /\ RdOff' = 0 /\ WrOff' = 0 /\ flags' = "skip"
     /\ pc' = IF call = NoCall THEN "idle" ELSE "begin"
     /\ UNCHANGED <<acID, mem, active, faulted, writer, got, screen>>

DoInit == DoInitBuffers \/ DoInitId

-----------------------------------------------------------------------------
(* Leaving a function *)

Return(s) ==
  /\ ret' = s
  /\ pc' = IF faulted THEN "halt" ELSE "idle"
  /\ how' = "nocheck" /\ left' = <<>> /\ piece' = 0 /\ pieces' = <<>> /\ n' = 0
  /\ status' = 0

(* What the caller of call.op gets for the Status of the ring function. *)
Result(s) == IF call.op = "_write" THEN call.len ELSE s

(* _WriteNoCheck(bytes) and return s. *)
WriteNoCheck(bytes, s) ==
  /\ how' = "nocheck"
  /\ left' = bytes
  /\ n' = Lesser(SizeOfBuffer - WrOff, Len(bytes))
  /\ status' = s
  /\ pc' = "copy"
  /\ UNCHANGED <<piece, pieces, ret>>

(* _WriteBlocking of each of the pieces of bytes in turn and return s. *)
WriteBlocking(bytes, lengths, s) ==
  /\ how' = "blocking"
  /\ left' = bytes
  /\ piece' = Head(lengths)
  /\ pieces' = Tail(lengths)
  /\ status' = s
  /\ pc' = "look"
  /\ UNCHANGED <<n, ret>>

-----------------------------------------------------------------------------
(* The decision each function takes under the lock.  A definition named    *)
(* f_Bug is f with a slip a programmer could make; no action uses it.      *)

Avail == GetAvailWriteSpace(RdOff, WrOff)

WriteNoLock_TrimTail(bytes) ==
  CASE flags = "skip"  -> IF Avail < Len(bytes) THEN Return(Result(0))
                          ELSE WriteNoCheck(bytes, Result(Len(bytes)))
    [] flags = "trim"  -> WriteNoCheck(SubSeq(bytes, 1, Lesser(Avail, Len(bytes))), Result(Len(bytes)))
    [] flags = "block" -> WriteBlocking(bytes, <<Len(bytes)>>, Result(Len(bytes)))
    [] flags = "other" -> Return(Result(0))

WriteNoLock_FallThrough(bytes) ==
  CASE flags \in {"skip", "trim"} -> LET k == Lesser(Avail, Len(bytes))
                                    IN  WriteNoCheck(SubSeq(bytes, 1, k), Result(k))
    [] flags = "block" -> WriteBlocking(bytes, <<Len(bytes)>>, Result(Len(bytes)))
    [] flags = "other" -> Return(Result(0))

WriteNoLock(bytes) ==
  CASE flags = "skip"  -> IF Avail < Len(bytes) THEN Return(Result(0))
                          ELSE WriteNoCheck(bytes, Result(Len(bytes)))
    [] flags = "trim"  -> LET k == Lesser(Avail, Len(bytes))
                          IN  WriteNoCheck(SubSeq(bytes, 1, k), Result(k))
    [] flags = "block" -> WriteBlocking(bytes, <<Len(bytes)>>, Result(Len(bytes)))
    [] flags = "other" -> Return(Result(0))

(* WriteSkipNoLock asks for the space up to the end of the ring first and  *)
(* for the space before RdOff only if that does not do.                    *)
WriteSkipNoLock(bytes) ==
  LET straight == SizeOfBuffer - WrOff - 1
      fits == IF RdOff <= WrOff
              THEN straight >= Len(bytes) \/ straight + RdOff >= Len(bytes)
              ELSE RdOff - WrOff - 1 >= Len(bytes)
  IN  IF fits THEN WriteNoCheck(bytes, 1) ELSE Return(0)

(* SEGGER_RTT_PutChar waits for space in blocking mode and then looks again. *)
PutChar(bytes) ==
  /\ left' = bytes /\ how' = "blocking" /\ piece' = 1 /\ pieces' = <<>>
  /\ n' = 1 /\ status' = 1
  /\ pc' = IF call.op = "PutChar" /\ flags = "block" THEN "spin" ELSE "check"
  /\ UNCHANGED ret

SetTerminal_Early ==
  /\ active' = call.term
  /\ CASE flags = "block" -> WriteBlocking(Switch(call.term), <<2>>, 0)
       [] flags # "block" /\ Avail >= 2 -> WriteNoCheck(Switch(call.term), 0)
       [] flags # "block" /\ Avail < 2 -> Return(-1)

SetTerminal ==
  CASE flags = "block" -> active' = call.term /\ WriteBlocking(Switch(call.term), <<2>>, 0)
    [] flags # "block" /\ Avail >= 2 -> active' = call.term /\ WriteNoCheck(Switch(call.term), 0)
    [] flags # "block" /\ Avail < 2 -> Return(-1) /\ UNCHANGED active

(* Switch over, the string, and back. *)
Framed(k) ==
  WriteBlocking(Switch(call.term) \o Text(call.term, k) \o Switch(active), <<2, k, 2>>, k)

TerminalOut_NoRoomBack ==
  CASE flags = "skip"  -> IF Avail < call.len + 2 THEN Return(0) ELSE Framed(call.len)
    [] flags = "trim"  -> IF Avail < 2 THEN Return(-1) ELSE Framed(Lesser(call.len, Avail - 2))
    [] flags = "block" -> Framed(call.len)
    [] flags = "other" -> Return(-1)

TerminalOut ==
  CASE flags = "skip"  -> IF Avail < call.len + 4 THEN Return(0) ELSE Framed(call.len)
    [] flags = "trim"  -> IF Avail < 4 THEN Return(-1) ELSE Framed(Lesser(call.len, Avail - 4))
    [] flags = "block" -> Framed(call.len)
    [] flags = "other" -> Return(-1)

-----------------------------------------------------------------------------
(* The writer *)

Invoke(c) ==
  /\ pc = "idle"
  /\ call' = c
  /\ pc' = "begin"
  /\ stored' = 0
  /\ UNCHANGED <<acID, ready, mem, WrOff, flags, active, faulted, how, left, piece, pieces, n,
                 status, ret, next, probe>>

(* SEGGER_RTT_SetFlagsUpBuffer and ConfigUpBuffer, between two writes. *)
SetFlagsUpBuffer ==
  /\ pc = "idle"
  /\ flags' \in Modes
  /\ UNCHANGED <<acID, ready, mem, WrOff, active, pc, faulted, writer, probe>>

(* INIT(), and then what the function decides on one look at the ring. *)
Begin ==
  /\ pc = "begin"
  /\ IF acID < 2
     THEN /\ pc' = "init"
          /\ UNCHANGED <<active, how, left, piece, pieces, n, status, ret>>
     ELSE CASE call.op \in {"write", "_write"} ->
                    WriteNoLock(Text(active, call.len)) /\ UNCHANGED active
               [] call.op = "WriteSkip" ->
                    WriteSkipNoLock(Text(active, call.len)) /\ UNCHANGED active
               [] call.op \in {"PutChar", "PutCharSkip"} ->
                    PutChar(Text(active, 1)) /\ UNCHANGED active
               [] call.op = "SetTerminal" -> SetTerminal
               [] call.op = "TerminalOut" -> TerminalOut /\ UNCHANGED active
  /\ UNCHANGED <<acID, ready, mem, WrOff, flags, faulted, call, next, stored, probe>>

Spin ==
  /\ pc = "spin"
  /\ Ahead(WrOff, 1) # RdOff
  /\ pc' = "check"
  /\ UNCHANGED <<acID, ready, mem, WrOff, flags, active, faulted, writer, probe>>

Check ==
  /\ pc = "check"
  /\ IF Ahead(WrOff, 1) # RdOff
     THEN pc' = "copy" /\ UNCHANGED <<how, left, piece, pieces, n, status, ret>>
     ELSE Return(0)
  /\ UNCHANGED <<acID, ready, mem, WrOff, flags, active, faulted, call, next, stored, probe>>

Chunk_ToTheBrim ==
  Lesser(Lesser(IF RdOff > WrOff THEN RdOff - WrOff ELSE SizeOfBuffer - (WrOff - RdOff),
                SizeOfBuffer - WrOff), piece)

Chunk_KeepLast ==
  Lesser(IF RdOff > WrOff THEN RdOff - WrOff - 1 ELSE SizeOfBuffer - (WrOff + 1), piece)

(* Bytes _WriteBlocking can store at once. *)
Chunk ==
  Lesser(Lesser(IF RdOff > WrOff THEN RdOff - WrOff - 1
                ELSE SizeOfBuffer - (WrOff - RdOff + 1),
                SizeOfBuffer - WrOff), piece)

(* A round of the loop that finds no space changes nothing. *)
Look ==
  /\ pc = "look"
  /\ Chunk > 0 \/ piece = 0
  /\ n' = Chunk
  /\ pc' = "copy"
  /\ UNCHANGED <<acID, ready, mem, WrOff, flags, active, faulted, call, how, left, piece, pieces,
                 status, ret, next, stored, probe>>

(* The first or only memcpy, up to the end of the ring. *)
CopyStraight ==
  /\ pc = "copy"
  /\ mem' = Copy(mem, WrOff, SubSeq(left, 1, n))
  /\ pc' = IF how = "nocheck" /\ n < Len(left) THEN "wrap" ELSE "publish"
  /\ UNCHANGED <<acID, ready, WrOff, flags, active, faulted, writer, probe>>

CopyWrapped ==
  /\ pc = "wrap"
  /\ mem' = Copy(mem, 0, SubSeq(left, n + 1, Len(left)))
  /\ pc' = "publish"
  /\ UNCHANGED <<acID, ready, WrOff, flags, active, faulted, writer, probe>>

DataBytes(bytes) == Cardinality({i \in DOMAIN bytes : bytes[i].kind = "data"})

(* pRing->WrOff = off: the probe may now take the bytes. *)
Publish(off, bytes) ==
  /\ pc = "publish"
  /\ WrOff' = off
  /\ stored' = stored + DataBytes(bytes)
  /\ next' = (next + DataBytes(bytes)) % Values
  /\ UNCHANGED <<acID, ready, mem, flags, active, faulted, call, probe>>

PublishAll ==
  /\ how = "nocheck"
  /\ LET Rem == SizeOfBuffer - WrOff
     IN  Publish(IF Rem > Len(left) THEN WrOff + Len(left) ELSE Len(left) - Rem, left)
  /\ Return(status)

(* ... and _WriteBlocking goes on with its piece, or with the next one. *)
PublishChunk ==
  /\ how = "blocking"
  /\ Publish(Wrapped(WrOff + n), SubSeq(left, 1, n))
  /\ IF n = piece /\ pieces = <<>> THEN Return(status)
     ELSE /\ left' = SubSeq(left, n + 1, Len(left))
          /\ piece' = (IF n < piece THEN piece - n ELSE Head(pieces))
          /\ pieces' = (IF n < piece THEN pieces ELSE Tail(pieces))
          /\ n' = 0
          /\ pc' = "look"
          /\ UNCHANGED <<how, status, ret>>

Writer ==
  \/ DoInit \/ Begin \/ Spin \/ Check \/ Look
  \/ CopyStraight \/ CopyWrapped \/ PublishAll \/ PublishChunk

(* am_print_string out of the hard fault handler. *)
HardFault ==
  /\ Faults /\ ~faulted
  /\ faulted' = TRUE
  /\ \E c \in Calls : c.op = "write" /\ call' = c
  /\ pc' = "begin"
  /\ left' = <<>> /\ stored' = 0
  /\ UNCHANGED <<acID, ready, mem, WrOff, flags, active, how, piece, pieces, n, status, ret, next, probe>>

-----------------------------------------------------------------------------
(* The debug probe and the host's terminals *)

(* It finds the control block by its id and copies what was published ...  *)
HostCopy ==
  /\ acID = 3 /\ got = <<>>
  /\ \E k \in 1 .. Used(RdOff, WrOff) : got' = SubSeq(Held(mem, RdOff, WrOff), 1, k)
  /\ UNCHANGED <<acID, ready, mem, WrOff, flags, active, pc, faulted, writer, RdOff, screen>>

(* 0xFF and an id select the terminal of the bytes that follow. *)
Decode(s, b) ==
  CASE s.esc  -> [esc |-> FALSE, term |-> b.term]
    [] ~s.esc -> [s EXCEPT !.esc = (b.kind = "esc")]

(* ... and then frees the slots. *)
HostAck ==
  /\ got # <<>>
  /\ RdOff' = Ahead(RdOff, Len(got))
  /\ got' = <<>>
  /\ screen' = FoldLeft(Decode, screen, got)
  /\ UNCHANGED <<acID, ready, mem, WrOff, flags, active, pc, faulted, writer>>

Probe == HostCopy \/ HostAck

Next ==
  \/ \E c \in Calls : Invoke(c)
  \/ SetFlagsUpBuffer
  \/ Writer
  \/ HardFault
  \/ Probe

Spec == Init /\ [][Next]_vars

(* The target executes the function it is in. *)
TargetFairSpec == Spec /\ WF_vars(Writer)

-----------------------------------------------------------------------------
(* Properties *)

Running == pc \notin {"idle", "halt"}
Done == ~Running /\ call # NoCall

(* "Effective buffer size: SizeOfBuffer - 1": the ring is a FIFO of that   *)
(* size.  The host receives the bytes the functions were given, in order,  *)
(* none twice, with dropped parts only at the end of a write, whatever the *)
(* probe does between the writer's steps and wherever a fault strikes.     *)
Channel == INSTANCE RttChannel WITH
  Capacity <- SizeOfBuffer - 1,
  offered  <- left,
  channel  <- Held(mem, RdOff, WrOff),
  taken    <- got

IsChannel == Channel!Spec

(* "Number of bytes which have been stored": what a call returned is what  *)
(* the probe can find of its string.                                       *)
ReturnTrue ==
  Done /\ call.op \in {"write", "TerminalOut", "PutChar", "PutCharSkip"} =>
    stored = (IF ret < 0 THEN 0 ELSE ret)

(* "If there is not enough space in the Up-buffer, all data is dropped":   *)
(* without trimming a string is stored whole or not at all, and in blocking*)
(* mode always whole.                                                      *)
WholeStrings ==
  [][Running /\ Done' =>
       /\ flags = "skip" \/ call.op \in {"WriteSkip", "PutCharSkip"} => stored' \in {0, call.len}
       /\ flags = "block" /\ call.op \in {"write", "TerminalOut", "PutChar"} =>
            stored' = call.len]_vars

(* "Writes a string to the given terminal without changing the terminal    *)
(* for channel 0": the host shows every byte on the terminal it was meant  *)
(* for, the switches being cut neither by a full buffer nor by a wrap.     *)
RightTerminal ==
  [][~faulted /\ RdOff' # RdOff =>
       \A i \in DOMAIN got : got[i].kind = "data" =>
         FoldLeft(Decode, screen, SubSeq(got, 1, i - 1)) = [esc |-> FALSE, term |-> got[i].term]]_vars

(* The probe finds the id, and INIT() its first character, only on a ring  *)
(* that has been set up, also if a fault cut the first initialization.     *)
IdLast ==
  /\ acID >= 2 => ready
  /\ pc \in {"copy", "wrap", "publish"} => ready

(* A probe that is connected and keeps reading. *)
ProbeReads == WF_vars(HostCopy) /\ WF_vars(HostAck)

(* Every call ends if the probe reads, in blocking mode and for strings    *)
(* longer than the ring too.                                               *)
WritesEnd == ProbeReads => (Running ~> ~Running)

(* Without a probe, only blocking mode may wait: TerminalOut writes with   *)
(* _WriteBlocking in every mode, but has checked the space.                *)
NonBlockingEnds == Running /\ flags # "block" ~> ~Running
=============================================================================
