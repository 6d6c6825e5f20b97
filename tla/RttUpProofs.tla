---------------------------- MODULE RttUpProofs -----------------------------
(***************************************************************************)
(* What the up-buffer's writer and the probe do to one another, for every   *)
(* size of the buffer, every length of a call and every mode.               *)
(*                                                                         *)
(* UpInv is inductive.  Its first part, RingInv, is about the bytes: the    *)
(* copy the probe holds is the front of the ring, the writer's room is at   *)
(* least what it is about to publish, and the bytes between WrOff and what  *)
(* it is about to publish are already in the ring, in order, also across    *)
(* the end of the array.  Its second part, CountInv, is about the answer:   *)
(* of what is left, which bytes are the caller's data, and how many of them *)
(* are stored already.                                                     *)
(*                                                                         *)
(* From it follow that the ring refines the channel of RttChannel           *)
(* (UpIsChannel), that a call returns what it stored (ReturnsCorrect), that *)
(* a framed string arrives whole (StringsWhole), and that the id the probe  *)
(* looks for is completed last (IdComesLast).                              *)
(***************************************************************************)
EXTENDS RttUp, RttRingProofs, FiniteSetTheorems

(* The places inside _WriteNoCheck and _WriteBlocking.                     *)
Loop == {"spin", "check", "look", "copy", "wrap", "publish"}

UpTypeOK ==
  /\ acID \in 0 .. 3 /\ ready \in BOOLEAN /\ faulted \in BOOLEAN
  /\ mem \in [Offsets -> Byte] /\ RdOff \in Offsets /\ WrOff \in Offsets
  /\ flags \in AllModes /\ active \in Terminals
  /\ pc \in {"init", "rtt", "segger", "space", "idle", "halt", "begin"} \union Loop
  /\ call \in Calls \union {NoCall}
  /\ how \in {"nocheck", "blocking"}
  /\ left \in Seq(Byte) /\ piece \in Nat /\ pieces \in Seq(Nat) /\ n \in Nat
  /\ status \in Int /\ ret \in Int /\ next \in 0 .. Values - 1 /\ stored \in Nat
  /\ got \in Seq(Byte)

(* Nothing is written before the ring is set up, and it is set up before   *)
(* its id can be found, also when a fault starts the initialization over.  *)
SetUpFirst ==
  /\ acID < 2 => WrOff = 0 /\ RdOff = 0 /\ got = <<>>
  /\ acID >= 2 => ready
  /\ pc \in {"init", "rtt"} => acID < 2
  /\ pc = "segger" => acID = 1
  /\ pc = "space" => acID = 2
  /\ pc \in {"rtt", "segger"} => ready
  /\ pc \in Loop \union {"idle", "halt"} => acID >= 2 
  /\ pc \in Loop \union {"begin"} => call \in Calls

(* The probe's copy is the front of the ring. *)
GotHeld == Len(got) <= Used(RdOff, WrOff) /\ Lie(got, mem, RdOff)

(* _WriteNoCheck has room for all it was given, ...                        *)
NoCheckReady ==
  pc \in {"copy", "wrap", "publish"} /\ how = "nocheck" =>
    /\ Len(left) <= Avail /\ n = Lesser(SizeOfBuffer - WrOff, Len(left))
    /\ pc = "wrap" => n < Len(left) /\ Lie(SubSeq(left, 1, n), mem, WrOff)
    /\ pc = "publish" => Lie(left, mem, WrOff)

(* ... _WriteBlocking for the chunk it copies, of the piece it is in, and  *)
(* the pieces make up what is left.                                        *)
Later == IF Len(pieces) = 0 THEN 0 ELSE IF Len(pieces) = 1 THEN pieces[1] ELSE pieces[1] + pieces[2]

BlockingReady ==
  /\ pc \in {"spin", "check"} =>
       /\ how = "blocking" /\ piece = 1 /\ pieces = <<>> /\ n = 1 /\ Len(left) = 1
  /\ pc = "look" => how = "blocking"
  /\ pc = "wrap" => how = "nocheck"
  /\ pc \in {"look", "copy", "publish"} /\ how = "blocking" =>
       Len(pieces) <= 2 /\ Len(left) = piece + Later
  /\ pc \in {"copy", "publish"} /\ how = "blocking" =>
       /\ n <= piece /\ n <= Avail /\ n <= SizeOfBuffer - WrOff
       /\ n = 0 => piece = 0
  /\ pc = "publish" /\ how = "blocking" => Lie(SubSeq(left, 1, n), mem, WrOff)

RingInv == UpTypeOK /\ SetUpFirst /\ GotHeld /\ NoCheckReady /\ BlockingReady

(* Of a framed string the middle piece is data, of a switch nothing.       *)
IsData(i) ==
  CASE call.op = "SetTerminal" -> FALSE
    [] call.op = "TerminalOut" -> /\ Len(pieces) # 0
                                  /\ Len(pieces) = 1 => i <= piece
                                  /\ Len(pieces) = 2 => piece < i /\ i <= piece + pieces[1]
    [] OTHER -> TRUE

DataLeft ==
  CASE call.op = "SetTerminal" -> 0
    [] call.op = "TerminalOut" -> IF Len(pieces) = 0 THEN 0
                                  ELSE IF Len(pieces) = 1 THEN piece ELSE pieces[1]
    [] OTHER -> Len(left)

Kinds ==
  pc \in Loop =>
    /\ \A i \in 1 .. Len(left) : left[i].kind = "data" <=> IsData(i)
    /\ call.op = "TerminalOut" => how = "blocking"
    /\ call.op # "TerminalOut" /\ how = "blocking" => pieces = <<>>
    /\ pc \in {"spin", "check"} => call.op \in {"PutChar", "PutCharSkip"}
    
Counts ==
  /\ pc \in {"init", "rtt", "segger", "space", "begin", "spin", "check"} => stored = 0
  /\ pc \in Loop =>
       /\ call.op \in {"write", "TerminalOut", "PutChar", "PutCharSkip"} => stored + DataLeft = status
       /\ call.op = "SetTerminal" => stored = 0
       /\ flags = "skip" \/ call.op \in {"WriteSkip", "PutCharSkip"} =>
            stored + DataLeft \in {0, call.len}
       /\ flags = "block" /\ call.op \in {"write", "TerminalOut", "PutChar"} =>
            stored + DataLeft = call.len
  /\ pc = "check" /\ call.op = "PutChar" /\ flags = "block" => Ahead(WrOff, 1) # RdOff

CountInv == Kinds /\ Counts /\ ReturnTrue

-----------------------------------------------------------------------------
(* The bytes of a call *)

LEMMA TextFacts ==
  ASSUME NEW t \in Terminals, NEW k \in Nat, next \in 0 .. Values - 1
  PROVE  /\ Text(t, k) \in Seq(Byte)
         /\ Len(Text(t, k)) = k
         /\ \A j \in 1 .. k : Text(t, k)[j].kind = "data"
<1>1. ASSUME NEW j \in 1 .. k PROVE (next + j - 1) % Values \in 0 .. Values - 1
  BY UpAssumption
<1>. DEFINE byte(j) == [kind |-> "data", term |-> t, k |-> (next + j - 1) % Values]
<1>2. \A j \in 1 .. k : byte(j) \in Byte /\ byte(j).kind = "data"
  BY <1>1 DEF Byte
<1>3. Text(t, k) = [j \in 1 .. k |-> byte(j)]
  BY DEF Text
<1>. HIDE DEF byte
<1>4. [j \in 1 .. k |-> byte(j)] \in Seq(Byte)
  BY <1>2
<1>5. Len([j \in 1 .. k |-> byte(j)]) = k
  OBVIOUS
<1>. QED
  BY <1>2, <1>3, <1>4, <1>5

LEMMA SwitchFacts ==
  ASSUME NEW t \in Terminals
  PROVE  /\ Switch(t) \in Seq(Byte)
         /\ Len(Switch(t)) = 2
         /\ Switch(t)[1].kind # "data" /\ Switch(t)[2].kind # "data"
<1>1. Escape \in Byte /\ [kind |-> "id", term |-> t, k |-> 0] \in Byte
  BY DEF Byte
<1>. QED
  BY <1>1 DEF Switch, Escape

LEMMA DataBytesFacts ==
  ASSUME NEW bytes \in Seq(Byte)
  PROVE  /\ DataBytes(bytes) \in Nat
         /\ (\A j \in 1 .. Len(bytes) : bytes[j].kind = "data") => DataBytes(bytes) = Len(bytes)
         /\ (\A j \in 1 .. Len(bytes) : bytes[j].kind # "data") => DataBytes(bytes) = 0
<1>. DEFINE data == {j \in DOMAIN bytes : bytes[j].kind = "data"}
<1>1. DOMAIN bytes = 1 .. Len(bytes) /\ Len(bytes) \in Nat
  OBVIOUS
<1>2. IsFiniteSet(1 .. Len(bytes)) /\ Cardinality(1 .. Len(bytes)) = Len(bytes)
  <2>1. 1 \in Int /\ Len(bytes) \in Int
    BY <1>1
  <2>2. Cardinality(1 .. Len(bytes)) = IF 1 > Len(bytes) THEN 0 ELSE Len(bytes) - 1 + 1
    BY <2>1, FS_Interval
  <2>3. IsFiniteSet(1 .. Len(bytes))
    BY <2>1, FS_Interval
  <2>. QED
    BY <1>1, <2>2, <2>3
<1>3. data \subseteq 1 .. Len(bytes)
  BY <1>1
<1>4. DataBytes(bytes) = Cardinality(data)
  BY DEF DataBytes
<1>5. DataBytes(bytes) \in Nat
  BY <1>2, <1>3, <1>4, FS_Subset, FS_CardinalityType
<1>6. (\A j \in 1 .. Len(bytes) : bytes[j].kind = "data") => data = 1 .. Len(bytes)
  BY <1>1
<1>7. (\A j \in 1 .. Len(bytes) : bytes[j].kind # "data") => data = {}
  BY <1>1
<1>. QED
  BY <1>2, <1>4, <1>5, <1>6, <1>7, FS_EmptySet

LEMMA FramedFacts ==
  ASSUME NEW t \in Terminals, NEW u \in Terminals, NEW k \in Nat, next \in 0 .. Values - 1
  PROVE  LET framed == Switch(t) \o Text(t, k) \o Switch(u)
         IN  /\ framed \in Seq(Byte)
             /\ Len(framed) = k + 4
             /\ \A j \in 1 .. k + 4 : framed[j].kind = "data" <=> 2 < j /\ j <= 2 + k
<1>. DEFINE a == Switch(t)  b == Text(t, k)  c == Switch(u)
<1>1. a \in Seq(Byte) /\ Len(a) = 2 /\ a[1].kind # "data" /\ a[2].kind # "data"
  BY SwitchFacts
<1>2. c \in Seq(Byte) /\ Len(c) = 2 /\ c[1].kind # "data" /\ c[2].kind # "data"
  BY SwitchFacts
<1>3. b \in Seq(Byte) /\ Len(b) = k /\ \A j \in 1 .. k : b[j].kind = "data"
  BY TextFacts
<1>. HIDE DEF a, b, c
<1>4. /\ a \o b \in Seq(Byte) /\ Len(a \o b) = 2 + k
      /\ \A j \in 1 .. 2 + k : (a \o b)[j] = IF j <= 2 THEN a[j] ELSE b[j - 2]
  <2>1. /\ a \o b \in Seq(Byte) /\ Len(a \o b) = Len(a) + Len(b)
        /\ \A j \in 1 .. Len(a) + Len(b) :
             (a \o b)[j] = IF j <= Len(a) THEN a[j] ELSE b[j - Len(a)]
    BY <1>1, <1>3, ConcatProperties
  <2>. QED
    BY <1>1, <1>3, <2>1
<1>5. /\ (a \o b) \o c \in Seq(Byte) /\ Len((a \o b) \o c) = 2 + k + 2
      /\ \A j \in 1 .. 2 + k + 2 :
           ((a \o b) \o c)[j] = IF j <= 2 + k THEN (a \o b)[j] ELSE c[j - (2 + k)]
  <2>. DEFINE ab == a \o b
  <2>1. /\ ab \in Seq(Byte) /\ Len(ab) = 2 + k
    BY <1>4
  <2>. HIDE DEF ab
  <2>2. /\ ab \o c \in Seq(Byte) /\ Len(ab \o c) = Len(ab) + Len(c)
        /\ \A j \in 1 .. Len(ab) + Len(c) :
             (ab \o c)[j] = IF j <= Len(ab) THEN ab[j] ELSE c[j - Len(ab)]
    BY <1>2, <2>1, ConcatProperties
  <2>3. /\ ab \o c \in Seq(Byte) /\ Len(ab \o c) = 2 + k + 2
        /\ \A j \in 1 .. 2 + k + 2 :
             (ab \o c)[j] = IF j <= 2 + k THEN ab[j] ELSE c[j - (2 + k)]
    BY <1>2, <2>1, <2>2
  <2>. QED
    BY <2>3 DEF ab
<1>6. ASSUME NEW j \in 1 .. k + 4
      PROVE  ((a \o b) \o c)[j].kind = "data" <=> 2 < j /\ j <= 2 + k
  <2>1. CASE j <= 2
    <3>1. ((a \o b) \o c)[j] = a[j] /\ j \in {1, 2}
      BY <1>4, <1>5, <2>1
    <3>. QED
      BY <1>1, <2>1, <3>1
  <2>2. CASE j > 2 /\ j <= 2 + k
    <3>1. ((a \o b) \o c)[j] = b[j - 2] /\ j - 2 \in 1 .. k
      BY <1>4, <1>5, <2>2
    <3>. QED
      BY <1>3, <2>2, <3>1
  <2>3. CASE j > 2 + k
    <3>1. ((a \o b) \o c)[j] = c[j - (2 + k)] /\ j - (2 + k) \in {1, 2}
      BY <1>4, <1>5, <2>3
    <3>. QED
      BY <1>2, <2>3, <3>1
  <2>4. j <= 2 \/ (j > 2 /\ j <= 2 + k) \/ j > 2 + k
    <3>1. j \in Int /\ k \in Int
      OBVIOUS
    <3>. QED
      BY <3>1
  <2>. QED
    BY <2>1, <2>2, <2>3, <2>4, Zenon
<1>. QED
  BY <1>5, <1>6 DEF a, b, c

LEMMA CallFacts ==
  ASSUME call \in Calls
  PROVE  /\ call.op \in Functions /\ call.term \in Terminals /\ call.len \in Nat
         /\ call.op \in {"PutChar", "PutCharSkip"} => call.len = 1
         /\ call # NoCall
BY UpAssumption DEF AllCalls, Functions, NoCall

-----------------------------------------------------------------------------
(* The decision a function takes                                           *)

BeginFrame ==
  /\ RingInv /\ CountInv /\ pc = "begin"
  /\ UNCHANGED <<acID, ready, mem, WrOff, flags, faulted, call, next, stored, probe>>

(* What is true of the writer behind it.                                   *)
Begun ==
  /\ pc \in Loop \union {"idle", "halt"}
  /\ how \in {"nocheck", "blocking"}
  /\ left \in Seq(Byte) /\ piece \in Nat /\ pieces \in Seq(Nat) /\ n \in Nat
  /\ status \in Int /\ ret \in Int
  /\ NoCheckReady /\ BlockingReady /\ CountInv
  /\ pc \notin Loop => ~(flags = "block" /\ call.op \in {"write", "TerminalOut", "PutChar"})

LEMMA BeginFacts ==
  ASSUME BeginFrame
  PROVE  /\ call \in Calls /\ call' = call /\ stored = 0 /\ stored' = 0 /\ flags' = flags
         /\ flags \in AllModes /\ faulted \in BOOLEAN
         /\ mem' = mem /\ RdOff' = RdOff /\ WrOff' = WrOff /\ Avail' = Avail
         /\ RdOff \in Offsets /\ WrOff \in Offsets
         /\ Avail \in 0 .. SizeOfBuffer - 1 /\ SizeOfBuffer \in Nat
         /\ active \in Terminals /\ next \in 0 .. Values - 1
         /\ piece \in Nat /\ pieces \in Seq(Nat) /\ n \in Nat /\ ret \in Int
<1>1. /\ call \in Calls /\ stored = 0 /\ RdOff \in Offsets /\ WrOff \in Offsets
      /\ active \in Terminals /\ next \in 0 .. Values - 1 /\ flags \in AllModes
      /\ piece \in Nat /\ pieces \in Seq(Nat) /\ n \in Nat /\ ret \in Int /\ faulted \in BOOLEAN
  BY DEF BeginFrame, RingInv, UpTypeOK, SetUpFirst, CountInv, Counts, Loop
<1>2. Avail \in 0 .. SizeOfBuffer - 1
  BY <1>1, OffsetFacts DEF Avail
<1>. QED
  BY <1>1, <1>2, RingAssumption DEF BeginFrame, probe, Avail

LEMMA ReturnBegun ==
  ASSUME BeginFrame, NEW s \in Int, Return(s),
         call.op \in {"write", "TerminalOut", "PutChar", "PutCharSkip"} => s <= 0,
         ~(flags = "block" /\ call.op \in {"write", "TerminalOut", "PutChar"})
  PROVE  Begun'
<1>1. /\ pc' \in {"idle", "halt"} /\ ret' = s /\ how' = "nocheck" /\ left' = <<>> /\ piece' = 0
      /\ pieces' = <<>> /\ n' = 0 /\ status' = 0
  BY DEF Return
<1>2. /\ pc' \in Loop \union {"idle", "halt"} /\ how' \in {"nocheck", "blocking"}
      /\ left' \in Seq(Byte) /\ piece' \in Nat /\ pieces' \in Seq(Nat) /\ n' \in Nat
      /\ status' \in Int /\ ret' \in Int
  BY <1>1
<1>3. NoCheckReady' /\ BlockingReady'
  BY <1>1 DEF NoCheckReady, BlockingReady
<1>4. Kinds' /\ Counts'
  BY <1>1, BeginFacts DEF Kinds, Counts, Loop
<1>5. ReturnTrue'
  BY <1>1, BeginFacts DEF ReturnTrue
<1>6. ~(flags' = "block" /\ call'.op \in {"write", "TerminalOut", "PutChar"})
  BY BeginFacts
<1>. QED
  BY <1>2, <1>3, <1>4, <1>5, <1>6 DEF Begun, CountInv

LEMMA NoCheckBegun ==
  ASSUME BeginFrame, NEW s \in Int, NEW bytes \in Seq(Byte), WriteNoCheck(bytes, s),
         Len(bytes) <= Avail,
         \/ call.op = "SetTerminal" /\ \A j \in 1 .. Len(bytes) : bytes[j].kind # "data"
         \/ /\ call.op \in {"write", "_write", "WriteSkip"}
            /\ \A j \in 1 .. Len(bytes) : bytes[j].kind = "data"
            /\ call.op = "write" => s = Len(bytes) /\ flags # "block"
            /\ flags = "skip" \/ call.op = "WriteSkip" => Len(bytes) = call.len
  PROVE  Begun'
<1>1. /\ pc' = "copy" /\ how' = "nocheck" /\ left' = bytes /\ status' = s
      /\ n' = Lesser(SizeOfBuffer - WrOff, Len(bytes)) /\ UNCHANGED <<piece, pieces, ret>>
  BY DEF WriteNoCheck
<1>2. n' \in Nat
  BY <1>1, BeginFacts DEF Lesser, Offsets
<1>3. /\ pc' \in Loop \union {"idle", "halt"} /\ how' \in {"nocheck", "blocking"}
      /\ left' \in Seq(Byte) /\ piece' \in Nat /\ pieces' \in Seq(Nat)
      /\ status' \in Int /\ ret' \in Int
  BY <1>1, BeginFacts DEF Loop
<1>4. NoCheckReady' /\ BlockingReady'
  BY <1>1, BeginFacts DEF NoCheckReady, BlockingReady
<1>5. Kinds'
  BY <1>1, BeginFacts DEF Kinds, Loop, IsData
<1>6. Counts'
  <2>1. stored' = 0 /\ Len(bytes) \in Nat /\ call' = call /\ flags' = flags
    BY BeginFacts
  <2>2. DataLeft' = IF call.op = "SetTerminal" THEN 0 ELSE Len(bytes)
    BY <1>1, <2>1 DEF DataLeft
  <2>. QED
    BY <1>1, <2>1, <2>2 DEF Counts, Loop
<1>7. ReturnTrue'
  BY <1>1 DEF ReturnTrue, Done, Running
<1>. QED
  BY <1>1, <1>2, <1>3, <1>4, <1>5, <1>6, <1>7 DEF Begun, CountInv, Loop

LEMMA BlockingBegun ==
  ASSUME BeginFrame, NEW s \in Int, NEW bytes \in Seq(Byte),
         WriteBlocking(bytes, <<Len(bytes)>>, s),
         \/ call.op = "SetTerminal" /\ \A j \in 1 .. Len(bytes) : bytes[j].kind # "data"
         \/ /\ call.op \in {"write", "_write"}
            /\ \A j \in 1 .. Len(bytes) : bytes[j].kind = "data"
            /\ call.op = "write" => s = Len(bytes)
            /\ Len(bytes) = call.len
  PROVE  Begun'
<1>1. /\ pc' = "look" /\ how' = "blocking" /\ left' = bytes /\ status' = s
      /\ piece' = Len(bytes) /\ pieces' = <<>> /\ UNCHANGED <<n, ret>>
  BY DEF WriteBlocking
<1>2. /\ pc' \in Loop \union {"idle", "halt"} /\ how' \in {"nocheck", "blocking"}
      /\ left' \in Seq(Byte) /\ piece' \in Nat /\ pieces' \in Seq(Nat) /\ n' \in Nat
      /\ status' \in Int /\ ret' \in Int /\ Len(pieces') = 0 /\ Len(bytes) \in Nat
  BY <1>1, BeginFacts DEF Loop
<1>3. NoCheckReady' /\ BlockingReady'
  BY <1>1, <1>2 DEF NoCheckReady, BlockingReady, Later
<1>4. Kinds'
  BY <1>1, BeginFacts DEF Kinds, Loop, IsData
<1>5. Counts'
  <2>1. stored' = 0 /\ call' = call /\ flags' = flags
    BY BeginFacts
  <2>2. DataLeft' = IF call.op = "SetTerminal" THEN 0 ELSE Len(bytes)
    BY <1>1, <2>1 DEF DataLeft
  <2>. QED
    BY <1>1, <1>2, <2>1, <2>2 DEF Counts, Loop
<1>6. ReturnTrue'
  BY <1>1 DEF ReturnTrue, Done, Running
<1>. QED
  BY <1>1, <1>2, <1>3, <1>4, <1>5, <1>6 DEF Begun, CountInv, Loop

LEMMA FramedBegun ==
  ASSUME BeginFrame, call.op = "TerminalOut", NEW k \in Nat, Framed(k), active' = active,
         flags \in {"skip", "block"} => k = call.len
  PROVE  Begun'
<1>. DEFINE bytes == Switch(call.term) \o Text(call.term, k) \o Switch(active)
<1>1. /\ bytes \in Seq(Byte) /\ Len(bytes) = k + 4
      /\ \A j \in 1 .. k + 4 : bytes[j].kind = "data" <=> 2 < j /\ j <= 2 + k
  BY BeginFacts, CallFacts, FramedFacts
<1>2. /\ pc' = "look" /\ how' = "blocking" /\ left' = bytes /\ status' = k
      /\ piece' = 2 /\ pieces' = <<k, 2>> /\ UNCHANGED <<n, ret>>
  BY DEF Framed, WriteBlocking
<1>. HIDE DEF bytes
<1>3. Len(pieces') = 2 /\ pieces' \in Seq(Nat) /\ pieces'[1] = k /\ pieces'[2] = 2
  BY <1>2
<1>4. /\ pc' \in Loop \union {"idle", "halt"} /\ how' \in {"nocheck", "blocking"}
      /\ left' \in Seq(Byte) /\ piece' \in Nat /\ n' \in Nat
      /\ status' \in Int /\ ret' \in Int
  BY <1>1, <1>2, BeginFacts DEF Loop
<1>5. NoCheckReady' /\ BlockingReady'
  BY <1>1, <1>2, <1>3 DEF NoCheckReady, BlockingReady, Later
<1>6. Kinds'
  BY <1>1, <1>2, <1>3, BeginFacts, SMTT(20) DEF Kinds, Loop, IsData
<1>7. Counts'
  <2>1. stored' = 0 /\ call' = call /\ flags' = flags
    BY BeginFacts
  <2>2. DataLeft' = k
    BY <1>3, <2>1 DEF DataLeft
  <2>. QED
    BY <1>2, <2>1, <2>2 DEF Counts, Loop
<1>8. ReturnTrue'
  BY <1>2 DEF ReturnTrue, Done, Running
<1>. QED
  BY <1>2, <1>3, <1>4, <1>5, <1>6, <1>7, <1>8 DEF Begun, CountInv, Loop

LEMMA WriteNoLockBegun ==
  ASSUME BeginFrame, call.op \in {"write", "_write"},
         WriteNoLock(Text(active, call.len)), UNCHANGED active
  PROVE  Begun'
<1>. DEFINE bytes == Text(active, call.len)  k == Lesser(Avail, Len(bytes))
            front == SubSeq(bytes, 1, k)
<1>1. call \in Calls /\ active \in Terminals /\ next \in 0 .. Values - 1 /\ flags \in AllModes
      /\ Avail \in Nat
  BY BeginFacts
<1>2. call.len \in Nat
  BY <1>1, CallFacts
<1>3. bytes \in Seq(Byte) /\ Len(bytes) = call.len /\ \A j \in 1 .. call.len : bytes[j].kind = "data"
  BY <1>1, <1>2, TextFacts
<1>. HIDE DEF bytes
<1>4. k \in Nat /\ k <= Len(bytes) /\ k <= Avail
  BY <1>1, <1>2, <1>3 DEF Lesser
<1>. HIDE DEF k
<1>5. front \in Seq(Byte) /\ Len(front) = k /\ \A j \in 1 .. k : front[j].kind = "data"
  <2>1. \A j \in 1 .. k : bytes[j] \in Byte /\ bytes[j].kind = "data"
    BY <1>2, <1>3, <1>4
  <2>2. /\ front \in Seq(Byte) /\ Len(front) = IF 1 <= k THEN k - 1 + 1 ELSE 0
        /\ \A j \in 1 .. k - 1 + 1 : front[j] = bytes[1 + j - 1]
    BY <1>4, <2>1, SubSeqProperties
  <2>. HIDE DEF front
  <2>3. Len(front) = k /\ \A j \in 1 .. k : front[j] = bytes[j]
    BY <1>4, <2>2
  <2>. QED
    BY <2>1, <2>2, <2>3
<1>. HIDE DEF front
<1>6. /\ Result(0) \in Int /\ Result(Len(bytes)) \in Int /\ Result(k) \in Int
      /\ call.op = "write" => Result(0) = 0 /\ Result(Len(bytes)) = Len(bytes) /\ Result(k) = k
  BY <1>2, <1>3, <1>4 DEF Result
<1>7. WriteNoLock(bytes)
  BY DEF bytes
<1>8. CASE flags = "skip"
  <2>1. CASE Avail < Len(bytes)
    <3>1. Return(Result(0))
      BY <1>7, <1>8, <2>1 DEF WriteNoLock
    <3>. QED
      BY <1>6, <1>8, <3>1, ReturnBegun
  <2>2. CASE ~(Avail < Len(bytes))
    <3>1. WriteNoCheck(bytes, Result(Len(bytes))) /\ Len(bytes) <= Avail
      BY <1>1, <1>2, <1>3, <1>7, <1>8, <2>2 DEF WriteNoLock
    <3>. QED
      BY <1>3, <1>6, <1>8, <3>1, NoCheckBegun
  <2>. QED
    BY <2>1, <2>2
<1>9. CASE flags = "trim"
  <2>1. WriteNoCheck(front, Result(k))
    BY <1>7, <1>9 DEF WriteNoLock, k, front
  <2>. QED
    BY <1>4, <1>5, <1>6, <1>9, <2>1, NoCheckBegun
<1>10. CASE flags = "block"
  <2>1. WriteBlocking(bytes, <<Len(bytes)>>, Result(Len(bytes)))
    BY <1>7, <1>10 DEF WriteNoLock
  <2>. QED
    BY <1>3, <1>6, <2>1, BlockingBegun
<1>11. CASE flags = "other"
  <2>1. Return(Result(0))
    BY <1>7, <1>11 DEF WriteNoLock
  <2>. QED
    BY <1>6, <1>11, <2>1, ReturnBegun
<1>. QED
  BY <1>1, <1>8, <1>9, <1>10, <1>11 DEF AllModes

LEMMA WriteSkipNoLockBegun ==
  ASSUME BeginFrame, call.op = "WriteSkip", WriteSkipNoLock(Text(active, call.len)), UNCHANGED active
  PROVE  Begun'
<1>. DEFINE bytes == Text(active, call.len)
            straight == SizeOfBuffer - WrOff - 1
            fits == IF RdOff <= WrOff
                    THEN straight >= Len(bytes) \/ straight + RdOff >= Len(bytes)
                    ELSE RdOff - WrOff - 1 >= Len(bytes)
<1>1. /\ call \in Calls /\ active \in Terminals /\ next \in 0 .. Values - 1
      /\ RdOff \in Offsets /\ WrOff \in Offsets
  BY BeginFacts
<1>2. call.len \in Nat
  BY <1>1, CallFacts
<1>3. bytes \in Seq(Byte) /\ Len(bytes) = call.len /\ \A j \in 1 .. call.len : bytes[j].kind = "data"
  BY <1>1, <1>2, TextFacts
<1>4. IF fits THEN WriteNoCheck(bytes, 1) ELSE Return(0)
  BY DEF WriteSkipNoLock
<1>. HIDE DEF bytes
<1>5. fits => Len(bytes) <= Avail
  BY <1>1, <1>2, <1>3, RingAssumption DEF Avail, GetAvailWriteSpace, Offsets
<1>. HIDE DEF fits
<1>6. CASE fits
  BY <1>3, <1>4, <1>5, <1>6, NoCheckBegun
<1>7. CASE ~fits
  BY <1>4, <1>7, ReturnBegun
<1>. QED
  BY <1>6, <1>7

LEMMA PutCharBegun ==
  ASSUME BeginFrame, call.op \in {"PutChar", "PutCharSkip"}, PutChar(Text(active, 1)), UNCHANGED active
  PROVE  Begun'
<1>. DEFINE bytes == Text(active, 1)
<1>1. call \in Calls /\ active \in Terminals /\ next \in 0 .. Values - 1
  BY BeginFacts
<1>2. call.len = 1
  BY <1>1, CallFacts
<1>3. bytes \in Seq(Byte) /\ Len(bytes) = 1 /\ \A j \in 1 .. 1 : bytes[j].kind = "data"
  BY <1>1, TextFacts
<1>4. /\ left' = bytes /\ how' = "blocking" /\ piece' = 1 /\ pieces' = <<>>
      /\ n' = 1 /\ status' = 1 /\ ret' = ret
      /\ pc' = IF call.op = "PutChar" /\ flags = "block" THEN "spin" ELSE "check"
  BY DEF PutChar
<1>. HIDE DEF bytes
<1>5. /\ pc' \in Loop \union {"idle", "halt"} /\ how' \in {"nocheck", "blocking"}
      /\ left' \in Seq(Byte) /\ piece' \in Nat /\ pieces' \in Seq(Nat) /\ n' \in Nat
      /\ status' \in Int /\ ret' \in Int
  BY <1>3, <1>4, BeginFacts DEF Loop
<1>6. NoCheckReady' /\ BlockingReady'
  BY <1>3, <1>4 DEF NoCheckReady, BlockingReady
<1>7. Kinds'
  BY <1>3, <1>4, BeginFacts DEF Kinds, Loop, IsData
<1>8. Counts'
  <2>1. stored' = 0 /\ call' = call /\ flags' = flags
    BY BeginFacts
  <2>2. DataLeft' = 1
    BY <1>3, <1>4, <2>1 DEF DataLeft
  <2>. QED
    BY <1>2, <1>4, <2>1, <2>2 DEF Counts, Loop
<1>9. ReturnTrue'
  BY <1>4 DEF ReturnTrue, Done, Running
<1>. QED
  BY <1>4, <1>5, <1>6, <1>7, <1>8, <1>9 DEF Begun, CountInv, Loop

LEMMA SetTerminalBegun ==
  ASSUME BeginFrame, call.op = "SetTerminal", SetTerminal
  PROVE  Begun' /\ active' \in Terminals
<1>. DEFINE bytes == Switch(call.term)
<1>1. call \in Calls /\ flags \in AllModes /\ Avail \in Nat /\ active \in Terminals
  BY BeginFacts
<1>2. call.term \in Terminals
  BY <1>1, CallFacts
<1>3. bytes \in Seq(Byte) /\ Len(bytes) = 2 /\ \A j \in 1 .. Len(bytes) : bytes[j].kind # "data"
  <2>1. bytes \in Seq(Byte) /\ Len(bytes) = 2 /\ bytes[1].kind # "data" /\ bytes[2].kind # "data"
    BY <1>2, SwitchFacts
  <2>. HIDE DEF bytes
  <2>2. \A j \in 1 .. 2 : j = 1 \/ j = 2
    OBVIOUS
  <2>. QED
    BY <2>1, <2>2
<1>4. CASE flags = "block"
  <2>1. active' = call.term /\ WriteBlocking(bytes, <<2>>, 0)
    BY <1>4 DEF SetTerminal
  <2>. HIDE DEF bytes
  <2>2. WriteBlocking(bytes, <<Len(bytes)>>, 0)
    BY <1>3, <2>1
  <2>3. Begun'
    <3>1. ASSUME NEW s \in Int, WriteBlocking(bytes, <<Len(bytes)>>, s) PROVE Begun'
      BY <1>3, <3>1, BlockingBegun
    <3>. QED
      BY <2>2, <3>1
  <2>. QED
    BY <1>2, <2>1, <2>3
<1>5. CASE flags # "block" /\ Avail >= 2
  <2>1. active' = call.term /\ WriteNoCheck(bytes, 0)
    <3>1. ~(Avail < 2)
      BY <1>1, <1>5
    <3>. QED
      BY <1>5, <3>1 DEF SetTerminal
  <2>. HIDE DEF bytes
  <2>2. Len(bytes) <= Avail
    BY <1>1, <1>3, <1>5
  <2>3. Begun'
    <3>1. ASSUME NEW s \in Int, WriteNoCheck(bytes, s) PROVE Begun'
      BY <1>3, <2>2, <3>1, NoCheckBegun
    <3>. QED
      BY <2>1, <3>1
  <2>. QED
    BY <1>2, <2>1, <2>3
<1>6. CASE flags # "block" /\ Avail < 2
  <2>1. Return(-1) /\ active' = active
    BY <1>1, <1>6 DEF SetTerminal
  <2>. QED
    BY <1>1, <1>6, <2>1, ReturnBegun
<1>7. Avail >= 2 \/ Avail < 2
  BY <1>1
<1>. QED
  BY <1>4, <1>5, <1>6, <1>7

LEMMA TerminalOutBegun ==
  ASSUME BeginFrame, call.op = "TerminalOut", TerminalOut, UNCHANGED active
  PROVE  Begun'
<1>1. call \in Calls /\ flags \in AllModes /\ Avail \in Nat
  BY BeginFacts
<1>2. call.len \in Nat
  BY <1>1, CallFacts
<1>3. CASE flags = "skip"
  <2>1. Return(0) \/ Framed(call.len)
    BY <1>3 DEF TerminalOut
  <2>. QED
    BY <1>2, <1>3, <2>1, ReturnBegun, FramedBegun
<1>4. CASE flags = "trim"
  <2>. DEFINE k == Lesser(call.len, Avail - 4)
  <2>1. Return(-1) \/ (Avail >= 4 /\ Framed(k))
    BY <1>1, <1>4 DEF TerminalOut
  <2>2. Avail >= 4 => k \in Nat
    BY <1>1, <1>2 DEF Lesser
  <2>. HIDE DEF k
  <2>. QED
    BY <1>4, <2>1, <2>2, ReturnBegun, FramedBegun
<1>5. CASE flags = "block"
  <2>1. Framed(call.len)
    BY <1>5 DEF TerminalOut
  <2>. QED
    BY <1>2, <1>5, <2>1, FramedBegun
<1>6. CASE flags = "other"
  <2>1. Return(-1)
    BY <1>6 DEF TerminalOut
  <2>. QED
    BY <1>6, <2>1, ReturnBegun
<1>. QED
  BY <1>1, <1>3, <1>4, <1>5, <1>6 DEF AllModes

-----------------------------------------------------------------------------
(* Steps: each keeps the invariants, is a step of the channel or none, and *)
(* ends no call with a part of a string that ought to be whole.            *)

UpInv == RingInv /\ CountInv

Maps == Channel!Next \/ UNCHANGED Channel!vars

EndsWhole ==
  Running /\ Done' =>
    /\ flags = "skip" \/ call.op \in {"WriteSkip", "PutCharSkip"} => stored' \in {0, call.len}
    /\ flags = "block" /\ call.op \in {"write", "TerminalOut", "PutChar"} => stored' = call.len

Fine == UpInv' /\ Maps /\ EndsWhole

LEMMA UpInitial == Init => UpInv /\ Channel!Init
<1>. SUFFICES ASSUME Init PROVE UpInv /\ Channel!Init
  OBVIOUS
<1>1. 0 \in Offsets /\ Nul \in Byte
  BY RingAssumption DEF Offsets, Byte
<1>2. UpTypeOK
  BY <1>1, UpAssumption DEF Init, UpTypeOK, AllModes
<1>3. Used(RdOff, WrOff) = 0
  BY DEF Init, Used
<1>4. SetUpFirst
  BY DEF Init, SetUpFirst, Loop
<1>5. GotHeld
  BY <1>3 DEF Init, GotHeld, Lie
<1>6. NoCheckReady /\ BlockingReady
  BY DEF Init, NoCheckReady, BlockingReady
<1>7. Kinds /\ Counts
  BY DEF Init, Kinds, Counts, Loop
<1>8. ReturnTrue
  BY DEF Init, ReturnTrue, Done
<1>9. Held(mem, RdOff, WrOff) = <<>>
  <2>1. RdOff \in Offsets /\ WrOff \in Offsets
    BY <1>1 DEF Init
  <2>. QED
    BY <1>3, <2>1, HeldBytes, HeldType, EmptySeq
<1>. QED
  BY <1>2, <1>4, <1>5, <1>6, <1>7, <1>8, <1>9 DEF Init, UpInv, RingInv, CountInv, Channel!Init

(* A step of the writer that does not touch the ring offers the rest.      *)
LEMMA OffRing ==
  ASSUME UpInv, UNCHANGED <<mem, WrOff, probe>>, left' \in Seq(Byte)
  PROVE  GotHeld' /\ Maps
BY DEF UpInv, RingInv, GotHeld, Maps, Channel!Next, Channel!Offer, probe

LEMMA InitializationStep == ASSUME UpInv, DoInit PROVE Fine
<1>1. CASE DoInitBuffers
  <2>1. /\ pc = "init" /\ acID < 2 /\ WrOff = 0 /\ RdOff = 0
    BY <1>1 DEF DoInitBuffers, UpInv, RingInv, SetUpFirst
  <2>2. /\ pc' = "rtt" /\ ready' = TRUE /\ flags' = "skip"
        /\ UNCHANGED <<acID, mem, active, faulted, writer, WrOff, probe>>
    BY <1>1, <2>1 DEF DoInitBuffers, probe
  <2>3. UpTypeOK'
    BY <2>2 DEF UpInv, RingInv, UpTypeOK, AllModes, writer, probe
  <2>4. SetUpFirst'
    BY <2>1, <2>2 DEF UpInv, RingInv, SetUpFirst, Loop, writer, probe
  <2>5. GotHeld' /\ Maps
    BY <2>2, OffRing DEF UpInv, RingInv, UpTypeOK, writer
  <2>6. NoCheckReady' /\ BlockingReady'
    BY <2>2 DEF NoCheckReady, BlockingReady
  <2>7. Kinds' /\ Counts' /\ ReturnTrue' /\ ~Done'
    BY <2>1, <2>2 DEF UpInv, CountInv, Kinds, Counts, ReturnTrue, Done, Running, Loop, writer
  <2>. QED
    BY <2>3, <2>4, <2>5, <2>6, <2>7 DEF Fine, UpInv, RingInv, CountInv, EndsWhole
<1>2. ASSUME NEW from, NEW id, NEW to, Identify(from, id, to),
             \/ from = "rtt" /\ id = 1 /\ to = "segger"
             \/ from = "segger" /\ id = 2 /\ to = "space"
             \/ from = "space" /\ id = 3 /\ to = IF call = NoCall THEN "idle" ELSE "begin"
      PROVE  Fine
  <2>1. /\ pc = from /\ acID' = id /\ pc' = to
        /\ UNCHANGED <<ready, mem, WrOff, flags, active, faulted, writer, probe>>
    BY <1>2 DEF Identify
  <2>2. UpTypeOK'
    BY <1>2, <2>1 DEF UpInv, RingInv, UpTypeOK, writer, probe
  <2>3. SetUpFirst'
    <3>1. call # NoCall => call \in Calls
      BY DEF UpInv, RingInv, UpTypeOK
    <3>. QED
      BY <1>2, <2>1, <3>1 DEF UpInv, RingInv, UpTypeOK, SetUpFirst, Loop, writer, probe
  <2>4. GotHeld' /\ Maps
    BY <2>1, OffRing DEF UpInv, RingInv, UpTypeOK, writer
  <2>5. NoCheckReady' /\ BlockingReady'
    BY <1>2, <2>1 DEF NoCheckReady, BlockingReady
  <2>6. Kinds' /\ Counts' /\ ReturnTrue' /\ ~Done'
    BY <1>2, <2>1 DEF UpInv, CountInv, Kinds, Counts, ReturnTrue, Done, Running, Loop, writer
  <2>. QED
    BY <2>2, <2>3, <2>4, <2>5, <2>6 DEF Fine, UpInv, RingInv, CountInv, EndsWhole
<1>. QED
  BY <1>1, <1>2 DEF DoInit, DoInitId

LEMMA InvokeStep == ASSUME UpInv, NEW c \in Calls, Invoke(c) PROVE Fine
<1>1. /\ pc = "idle" /\ call' = c /\ pc' = "begin" /\ stored' = 0
      /\ UNCHANGED <<acID, ready, mem, WrOff, flags, active, faulted, how, left, piece, pieces, n,
                     status, ret, next, probe>>
  BY DEF Invoke
<1>2. UpTypeOK' /\ SetUpFirst'
  BY <1>1 DEF UpInv, RingInv, UpTypeOK, SetUpFirst, Loop, probe
<1>3. GotHeld' /\ Maps
  BY <1>1, OffRing DEF UpInv, RingInv, UpTypeOK
<1>4. NoCheckReady' /\ BlockingReady'
  BY <1>1 DEF NoCheckReady, BlockingReady
<1>5. Kinds' /\ Counts' /\ ReturnTrue' /\ ~Running
  BY <1>1 DEF Kinds, Counts, ReturnTrue, Done, Running, Loop
<1>. QED
  BY <1>2, <1>3, <1>4, <1>5 DEF Fine, UpInv, RingInv, CountInv, EndsWhole

LEMMA SetFlagsStep == ASSUME UpInv, SetFlagsUpBuffer PROVE Fine
<1>1. /\ pc = "idle" /\ pc' = "idle" /\ flags' \in AllModes
      /\ UNCHANGED <<acID, ready, mem, WrOff, active, faulted, writer, probe>>
  BY UpAssumption DEF SetFlagsUpBuffer
<1>2. UpTypeOK' /\ SetUpFirst'
  BY <1>1 DEF UpInv, RingInv, UpTypeOK, SetUpFirst, Loop, writer, probe
<1>3. GotHeld' /\ Maps
  BY <1>1, OffRing DEF UpInv, RingInv, UpTypeOK, writer
<1>4. NoCheckReady' /\ BlockingReady'
  BY <1>1 DEF NoCheckReady, BlockingReady
<1>5. Kinds' /\ Counts' /\ ReturnTrue' /\ ~Running
  BY <1>1 DEF UpInv, CountInv, Kinds, Counts, ReturnTrue, Done, Running, Loop, writer
<1>. QED
  BY <1>2, <1>3, <1>4, <1>5 DEF Fine, UpInv, RingInv, CountInv, EndsWhole

LEMMA HardFaultStep == ASSUME UpInv, HardFault PROVE Fine
<1>1. PICK c \in Calls : call' = c
  BY DEF HardFault
<1>2. /\ pc' = "begin" /\ stored' = 0 /\ left' = <<>> /\ faulted' = TRUE
      /\ UNCHANGED <<acID, ready, mem, WrOff, flags, active, how, piece, pieces, n, status, ret,
                     next, probe>>
  BY DEF HardFault
<1>3. UpTypeOK'
  BY <1>1, <1>2 DEF UpInv, RingInv, UpTypeOK, probe
<1>4. SetUpFirst'
  BY <1>1, <1>2 DEF UpInv, RingInv, SetUpFirst, Loop, probe
<1>5. GotHeld' /\ Maps
  BY <1>2, OffRing
<1>6. NoCheckReady' /\ BlockingReady'
  BY <1>2 DEF NoCheckReady, BlockingReady
<1>7. Kinds' /\ Counts' /\ ReturnTrue' /\ ~Done'
  BY <1>2 DEF Kinds, Counts, ReturnTrue, Done, Running, Loop
<1>. QED
  BY <1>3, <1>4, <1>5, <1>6, <1>7 DEF Fine, UpInv, RingInv, CountInv, EndsWhole

LEMMA BeginStep == ASSUME UpInv, Begin PROVE Fine
<1>1. /\ pc = "begin" /\ call \in Calls /\ stored = 0
      /\ UNCHANGED <<acID, ready, mem, WrOff, flags, faulted, call, next, stored, probe>>
  BY DEF Begin, UpInv, RingInv, SetUpFirst, CountInv, Counts, Loop
<1>2. CASE acID < 2
  <2>1. pc' = "init" /\ UNCHANGED <<active, how, left, piece, pieces, n, status, ret>>
    BY <1>2 DEF Begin
  <2>2. UpTypeOK' /\ SetUpFirst'
    BY <1>1, <1>2, <2>1 DEF UpInv, RingInv, UpTypeOK, SetUpFirst, Loop, probe
  <2>3. GotHeld' /\ Maps
    BY <1>1, <2>1, OffRing DEF UpInv, RingInv, UpTypeOK
  <2>4. NoCheckReady' /\ BlockingReady'
    BY <2>1 DEF NoCheckReady, BlockingReady
  <2>5. Kinds' /\ Counts' /\ ReturnTrue' /\ ~Done'
    BY <1>1, <2>1 DEF Kinds, Counts, ReturnTrue, Done, Running, Loop
  <2>. QED
    BY <2>2, <2>3, <2>4, <2>5 DEF Fine, UpInv, RingInv, CountInv, EndsWhole
<1>3. CASE ~(acID < 2)
  <2>1. BeginFrame
    BY <1>1 DEF BeginFrame, UpInv
  <2>2. call.op \in Functions /\ active \in Terminals /\ acID \in 0 .. 3
    BY <1>1, CallFacts DEF UpInv, RingInv, UpTypeOK
  <2>3. Begun' /\ active' \in Terminals
    <3>1. CASE call.op \in {"write", "_write"}
      <4>1. WriteNoLock(Text(active, call.len)) /\ UNCHANGED active
        BY <1>3, <3>1 DEF Begin
      <4>. QED
        BY <2>1, <2>2, <3>1, <4>1, WriteNoLockBegun
    <3>2. CASE call.op = "WriteSkip"
      <4>1. WriteSkipNoLock(Text(active, call.len)) /\ UNCHANGED active
        BY <1>3, <3>2 DEF Begin
      <4>. QED
        BY <2>1, <2>2, <3>2, <4>1, WriteSkipNoLockBegun
    <3>3. CASE call.op \in {"PutChar", "PutCharSkip"}
      <4>1. PutChar(Text(active, 1)) /\ UNCHANGED active
        BY <1>3, <3>3 DEF Begin
      <4>. QED
        BY <2>1, <2>2, <3>3, <4>1, PutCharBegun
    <3>4. CASE call.op = "SetTerminal"
      <4>1. SetTerminal
        BY <1>3, <3>4 DEF Begin
      <4>. QED
        BY <2>1, <3>4, <4>1, SetTerminalBegun
    <3>5. CASE call.op = "TerminalOut"
      <4>1. TerminalOut /\ UNCHANGED active
        BY <1>3, <3>5 DEF Begin
      <4>. QED
        BY <2>1, <2>2, <3>5, <4>1, TerminalOutBegun
    <3>. QED
      BY <2>2, <3>1, <3>2, <3>3, <3>4, <3>5 DEF Functions
  <2>4. UpTypeOK'
    BY <1>1, <2>3 DEF UpInv, RingInv, UpTypeOK, Begun, probe
  <2>5. SetUpFirst'
    BY <1>1, <1>3, <2>2, <2>3 DEF UpInv, RingInv, SetUpFirst, Begun, Loop, probe
  <2>6. GotHeld' /\ Maps
    BY <1>1, <2>3, OffRing DEF Begun
  <2>7. EndsWhole
    BY <1>1, <2>3 DEF EndsWhole, Begun, Done, Running, Loop
  <2>. QED
    BY <2>3, <2>4, <2>5, <2>6, <2>7 DEF Fine, UpInv, RingInv, Begun
<1>. QED
  BY <1>2, <1>3

-----------------------------------------------------------------------------
(* Waiting for space and copying                                           *)

LEMMA OneAhead ==
  ASSUME NEW R \in Offsets, NEW W \in Offsets
  PROVE  Ahead(W, 1) # R <=> GetAvailWriteSpace(R, W) >= 1
BY RingAssumption DEF Offsets, GetAvailWriteSpace, Ahead

LEMMA RingFacts ==
  ASSUME UpInv
  PROVE  /\ RdOff \in Offsets /\ WrOff \in Offsets /\ mem \in [Offsets -> Byte]
         /\ left \in Seq(Byte) /\ got \in Seq(Byte) /\ Len(left) \in Nat /\ Len(got) \in Nat
         /\ n \in Nat /\ piece \in Nat /\ pieces \in Seq(Nat) /\ stored \in Nat
         /\ Avail \in 0 .. SizeOfBuffer - 1 /\ SizeOfBuffer \in Nat /\ SizeOfBuffer > 1
         /\ Used(RdOff, WrOff) \in 0 .. SizeOfBuffer - 1
         /\ Used(RdOff, WrOff) + Avail = SizeOfBuffer - 1
<1>1. /\ RdOff \in Offsets /\ WrOff \in Offsets /\ mem \in [Offsets -> Byte]
      /\ left \in Seq(Byte) /\ got \in Seq(Byte)
      /\ n \in Nat /\ piece \in Nat /\ pieces \in Seq(Nat) /\ stored \in Nat
  BY DEF UpInv, RingInv, UpTypeOK
<1>2. /\ Used(RdOff, WrOff) \in 0 .. SizeOfBuffer - 1
      /\ Used(RdOff, WrOff) + Avail = SizeOfBuffer - 1
      /\ Avail \in 0 .. SizeOfBuffer - 1
  BY <1>1, OffsetFacts DEF Avail
<1>3. Len(left) \in Nat /\ Len(got) \in Nat
  BY <1>1
<1>. QED
  BY <1>1, <1>2, <1>3, RingAssumption

LEMMA PiecesFacts ==
  ASSUME pieces \in Seq(Nat)
  PROVE  /\ Len(pieces) <= 2 => Len(pieces) = 0 \/ Len(pieces) = 1 \/ Len(pieces) = 2
         /\ Len(pieces) = 1 => pieces[1] \in Nat
         /\ Len(pieces) = 2 => pieces[1] \in Nat /\ pieces[2] \in Nat
<1>1. Len(pieces) \in Nat /\ \A j \in 1 .. Len(pieces) : pieces[j] \in Nat
  OBVIOUS
<1>2. \A k \in Nat : k <= 2 => k = 0 \/ k = 1 \/ k = 2
  OBVIOUS
<1>3. Len(pieces) = 1 => 1 \in 1 .. Len(pieces)
  BY <1>1
<1>4. Len(pieces) = 2 => 1 \in 1 .. Len(pieces) /\ 2 \in 1 .. Len(pieces)
  BY <1>1
<1>. QED
  BY <1>1, <1>2, <1>3, <1>4

LEMMA LaterType == ASSUME pieces \in Seq(Nat), Len(pieces) <= 2 PROVE Later \in Nat
BY PiecesFacts DEF Later

LEMMA SpinStep == ASSUME UpInv, Spin PROVE Fine
<1>1. /\ pc = "spin" /\ pc' = "check" /\ Ahead(WrOff, 1) # RdOff
      /\ UNCHANGED <<acID, ready, mem, WrOff, flags, active, faulted, writer, probe>>
  BY DEF Spin
<1>2. UpTypeOK' /\ SetUpFirst'
  BY <1>1 DEF UpInv, RingInv, UpTypeOK, SetUpFirst, Loop, writer, probe
<1>3. GotHeld' /\ Maps
  BY <1>1, OffRing DEF UpInv, RingInv, UpTypeOK, writer
<1>4. NoCheckReady' /\ BlockingReady'
  BY <1>1 DEF UpInv, RingInv, NoCheckReady, BlockingReady, writer
<1>5. Kinds'
  BY <1>1 DEF UpInv, CountInv, Kinds, IsData, Loop, writer
<1>6. Counts'
  BY <1>1 DEF UpInv, CountInv, Counts, DataLeft, Loop, writer, probe
<1>7. ReturnTrue' /\ ~Done'
  BY <1>1 DEF ReturnTrue, Done, Running
<1>. QED
  BY <1>2, <1>3, <1>4, <1>5, <1>6, <1>7 DEF Fine, UpInv, RingInv, CountInv, EndsWhole

LEMMA CheckStep == ASSUME UpInv, Check PROVE Fine
<1>1. /\ pc = "check"
      /\ UNCHANGED <<acID, ready, mem, WrOff, flags, active, faulted, call, next, stored, probe>>
  BY DEF Check
<1>2. /\ how = "blocking" /\ piece = 1 /\ pieces = <<>> /\ n = 1 /\ Len(left) = 1
      /\ call.op \in {"PutChar", "PutCharSkip"} /\ stored = 0 /\ acID >= 2 /\ call \in Calls
      /\ call.op = "PutChar" /\ flags = "block" => Ahead(WrOff, 1) # RdOff
  BY <1>1 DEF UpInv, RingInv, CountInv, SetUpFirst, BlockingReady, Kinds, Counts, Loop
<1>3. CASE Ahead(WrOff, 1) # RdOff
  <2>1. pc' = "copy" /\ UNCHANGED <<how, left, piece, pieces, n, status, ret>>
    BY <1>3 DEF Check
  <2>2. UpTypeOK' /\ SetUpFirst'
    BY <1>1, <2>1 DEF UpInv, RingInv, UpTypeOK, SetUpFirst, Loop, probe
  <2>3. GotHeld' /\ Maps
    BY <1>1, <2>1, RingFacts, OffRing
  <2>4. NoCheckReady'
    BY <1>2, <2>1 DEF NoCheckReady
  <2>5. BlockingReady'
    <3>1. n <= Avail /\ n <= SizeOfBuffer - WrOff
      BY <1>2, <1>3, RingFacts, OneAhead DEF Avail, Offsets
    <3>2. Avail' = Avail /\ Len(pieces) = 0
      BY <1>1, <1>2 DEF Avail, probe
    <3>. QED
      BY <1>1, <1>2, <2>1, <3>1, <3>2 DEF BlockingReady, Later
  <2>6. Kinds'
    BY <1>1, <2>1 DEF UpInv, CountInv, Kinds, IsData, Loop
  <2>7. Counts'
    BY <1>1, <2>1 DEF UpInv, CountInv, Counts, DataLeft, Loop
  <2>8. ReturnTrue' /\ ~Done'
    BY <2>1 DEF ReturnTrue, Done, Running
  <2>. QED
    BY <2>2, <2>3, <2>4, <2>5, <2>6, <2>7, <2>8 DEF Fine, UpInv, RingInv, CountInv, EndsWhole
<1>4. CASE Ahead(WrOff, 1) = RdOff
  <2>1. /\ ret' = 0 /\ pc' \in {"idle", "halt"} /\ how' = "nocheck" /\ left' = <<>> /\ piece' = 0
        /\ pieces' = <<>> /\ n' = 0 /\ status' = 0
    BY <1>4 DEF Check, Return
  <2>2. UpTypeOK' /\ SetUpFirst'
    BY <1>1, <1>2, <2>1 DEF UpInv, RingInv, UpTypeOK, SetUpFirst, Loop, probe
  <2>3. GotHeld' /\ Maps
    BY <1>1, <2>1, OffRing
  <2>4. NoCheckReady' /\ BlockingReady'
    BY <2>1 DEF NoCheckReady, BlockingReady
  <2>5. Kinds' /\ Counts'
    BY <2>1 DEF Kinds, Counts, Loop
  <2>6. ReturnTrue' /\ EndsWhole
    BY <1>1, <1>2, <1>4, <2>1 DEF ReturnTrue, EndsWhole
  <2>. QED
    BY <2>2, <2>3, <2>4, <2>5, <2>6 DEF Fine, UpInv, RingInv, CountInv
<1>. QED
  BY <1>3, <1>4

LEMMA LookStep == ASSUME UpInv, Look PROVE Fine
<1>1. /\ pc = "look" /\ pc' = "copy" /\ n' = Chunk /\ (Chunk > 0 \/ piece = 0)
      /\ UNCHANGED <<acID, ready, mem, WrOff, flags, active, faulted, call, how, left, piece, pieces,
                     status, ret, next, stored, probe>>
  BY DEF Look
<1>2. /\ Chunk \in Nat /\ Chunk <= piece /\ Chunk <= Avail /\ Chunk <= SizeOfBuffer - WrOff
  <2>1. /\ RdOff \in 0 .. SizeOfBuffer - 1 /\ WrOff \in 0 .. SizeOfBuffer - 1 /\ piece \in Nat
        /\ SizeOfBuffer \in Nat
    BY RingFacts DEF Offsets
  <2>. QED
    BY <2>1 DEF Chunk, Avail, GetAvailWriteSpace, Lesser
<1>3. how = "blocking"
  BY <1>1 DEF UpInv, RingInv, BlockingReady
<1>4. UpTypeOK' /\ SetUpFirst'
  BY <1>1, <1>2 DEF UpInv, RingInv, UpTypeOK, SetUpFirst, Loop, probe
<1>5. GotHeld' /\ Maps
  BY <1>1, RingFacts, OffRing
<1>6. NoCheckReady'
  BY <1>1, <1>3 DEF NoCheckReady
<1>7. BlockingReady'
  <2>1. Avail' = Avail
    BY <1>1 DEF Avail, probe
  <2>2. Later' = Later
    BY <1>1 DEF Later
  <2>3. Len(pieces) <= 2 /\ Len(left) = piece + Later
    BY <1>1, <1>3 DEF UpInv, RingInv, BlockingReady
  <2>. QED
    BY <1>1, <1>2, <1>3, <2>1, <2>2, <2>3 DEF BlockingReady
<1>8. Kinds'
  BY <1>1 DEF UpInv, CountInv, Kinds, IsData, Loop
<1>9. Counts'
  BY <1>1 DEF UpInv, CountInv, Counts, DataLeft, Loop
<1>10. ReturnTrue' /\ ~Done'
  BY <1>1 DEF ReturnTrue, Done, Running
<1>. QED
  BY <1>4, <1>5, <1>6, <1>7, <1>8, <1>9, <1>10 DEF Fine, UpInv, RingInv, CountInv, EndsWhole

(* Copies into free slots change neither what the ring holds nor what the  *)
(* probe has of it.                                                        *)
LEMMA FreeCopy ==
  ASSUME UpInv, NEW k \in 0 .. Avail, SameButFirst(k, mem, mem', WrOff),
         UNCHANGED <<RdOff, WrOff, got, left>>
  PROVE  GotHeld' /\ Maps
<1>1. \A j \in 1 .. Used(RdOff, WrOff) : mem'[Ahead(RdOff, j - 1)] = mem[Ahead(RdOff, j - 1)]
  BY RingFacts, FreeSlots DEF Avail
<1>2. Held(mem', RdOff, WrOff) = Held(mem, RdOff, WrOff)
  BY <1>1, HeldSame
<1>3. UNCHANGED Channel!vars
  BY <1>2 DEF Channel!vars
<1>4. GotHeld'
  <2>1. Len(got) <= Used(RdOff, WrOff) /\ Lie(got, mem, RdOff)
    BY DEF UpInv, RingInv, GotHeld
  <2>2. ASSUME NEW j \in 1 .. Len(got) PROVE mem'[Ahead(RdOff, j - 1)] = got[j]
    <3>1. j \in 1 .. Used(RdOff, WrOff)
      BY <2>1, RingFacts
    <3>. QED
      BY <1>1, <2>1, <3>1 DEF Lie
  <2>. QED
    BY <2>1, <2>2 DEF GotHeld, Lie
<1>. QED
  BY <1>3, <1>4 DEF Maps

LEMMA CopyStraightStep == ASSUME UpInv, CopyStraight PROVE Fine
<1>. DEFINE bytes == SubSeq(left, 1, n)
<1>1. /\ pc = "copy" /\ mem' = Copy(mem, WrOff, bytes)
      /\ pc' = IF how = "nocheck" /\ n < Len(left) THEN "wrap" ELSE "publish"
      /\ UNCHANGED <<acID, ready, WrOff, flags, active, faulted, writer, probe>>
  BY DEF CopyStraight
<1>2. how \in {"nocheck", "blocking"}
  BY DEF UpInv, RingInv, UpTypeOK
<1>3. /\ n <= Len(left) /\ n <= Avail /\ n <= SizeOfBuffer - WrOff
  <2>1. CASE how = "nocheck"
    <3>1. Len(left) <= Avail /\ n = Lesser(SizeOfBuffer - WrOff, Len(left))
      BY <1>1, <2>1 DEF UpInv, RingInv, NoCheckReady
    <3>2. Len(left) \in Nat /\ Avail \in Nat /\ WrOff \in 0 .. SizeOfBuffer - 1
          /\ SizeOfBuffer \in Nat
      BY RingFacts DEF Offsets
    <3>. QED
      BY <3>1, <3>2 DEF Lesser
  <2>2. CASE how = "blocking"
    <3>1. /\ n <= piece /\ n <= Avail /\ n <= SizeOfBuffer - WrOff
          /\ Len(pieces) <= 2 /\ Len(left) = piece + Later
      BY <1>1, <2>2 DEF UpInv, RingInv, BlockingReady
    <3>2. Later \in Nat
      BY <3>1, RingFacts, LaterType
    <3>. QED
      BY <3>1, <3>2, RingFacts
  <2>. QED
    BY <1>2, <2>1, <2>2
<1>4. bytes \in Seq(Byte) /\ Len(bytes) = n /\ \A j \in 1 .. n : bytes[j] = left[j]
  <2>1. left \in Seq(Byte) /\ n \in Nat /\ n <= Len(left)
    BY <1>3, RingFacts
  <2>. QED
    BY <2>1
<1>. HIDE DEF bytes
<1>5. Ahead(WrOff, 0) = WrOff /\ 0 \in 0 .. SizeOfBuffer - 1
  BY RingFacts DEF Ahead, Offsets
<1>6. /\ mem' \in [Offsets -> Byte]
      /\ \A j \in 1 .. n : mem'[Ahead(WrOff, 0 + j - 1)] = bytes[j]
      /\ \A j \in 1 .. SizeOfBuffer :
           j <= 0 \/ j > 0 + n => mem'[Ahead(WrOff, j - 1)] = mem[Ahead(WrOff, j - 1)]
  <2>1. /\ Ahead(WrOff, 0) + Len(bytes) <= SizeOfBuffer /\ 0 + Len(bytes) <= SizeOfBuffer
    BY <1>3, <1>4, <1>5, RingFacts DEF Offsets
  <2>2. mem' = Copy(mem, Ahead(WrOff, 0), bytes)
    BY <1>1, <1>5
  <2>3. Filled(mem', mem, WrOff, 0, bytes)
    BY <1>4, <1>5, <2>1, <2>2, RingFacts, CopyPart
  <2>4. mem' \in [Offsets -> Byte]
    <3>1. Ahead(WrOff, 0) \in Offsets
      BY <1>5, RingFacts, RingAssumption DEF Offsets
    <3>. QED
      BY <1>4, <2>2, <3>1, RingFacts, CopyType
  <2>. QED
    BY <1>4, <2>3, <2>4 DEF Filled
<1>7. Lie(bytes, mem', WrOff)
  <2>1. \A j \in 1 .. n : 0 + j - 1 = j - 1
    BY RingFacts
  <2>. QED
    BY <1>4, <1>6, <2>1 DEF Lie
<1>8. SameButFirst(n, mem, mem', WrOff)
  <2>1. \A j \in n + 1 .. SizeOfBuffer : j \in 1 .. SizeOfBuffer /\ j > 0 + n
    BY RingFacts
  <2>. QED
    BY <1>6, <2>1 DEF SameButFirst
<1>9. GotHeld' /\ Maps
  <2>1. n \in 0 .. Avail
    BY <1>3, RingFacts
  <2>. QED
    BY <1>1, <1>8, <2>1, FreeCopy DEF writer, probe
<1>10. UpTypeOK' /\ SetUpFirst'
  BY <1>1, <1>6 DEF UpInv, RingInv, UpTypeOK, SetUpFirst, Loop, writer, probe
<1>11. Avail' = Avail /\ UNCHANGED <<how, left, piece, pieces, n, WrOff>> /\ bytes = SubSeq(left, 1, n)
  BY <1>1 DEF Avail, writer, probe, bytes
<1>12. NoCheckReady'
  <2>. SUFFICES ASSUME how = "nocheck" PROVE NoCheckReady'
    BY <1>11 DEF NoCheckReady
  <2>1. Len(left) <= Avail /\ n = Lesser(SizeOfBuffer - WrOff, Len(left))
    BY <1>1 DEF UpInv, RingInv, NoCheckReady
  <2>2. pc' = "wrap" => n < Len(left) /\ Lie(SubSeq(left, 1, n), mem', WrOff)
    BY <1>1, <1>7 DEF bytes
  <2>3. pc' = "publish" => Lie(left, mem', WrOff)
    <3>. SUFFICES ASSUME pc' = "publish" PROVE Lie(left, mem', WrOff)
      OBVIOUS
    <3>1. n = Len(left)
      BY <1>1, <1>3, RingFacts
    <3>. QED
      BY <1>4, <1>7, <3>1 DEF Lie
  <2>. QED
    BY <1>1, <1>11, <2>1, <2>2, <2>3 DEF NoCheckReady
<1>13. BlockingReady'
  <2>1. CASE how = "nocheck"
    BY <1>1, <1>11, <2>1 DEF BlockingReady
  <2>2. CASE how = "blocking"
    <3>1. pc' = "publish" /\ Later' = Later
      BY <1>1, <1>11, <2>2 DEF Later
    <3>2. /\ Len(pieces) <= 2 /\ Len(left) = piece + Later
          /\ n <= piece /\ n <= Avail /\ n <= SizeOfBuffer - WrOff /\ (n = 0 => piece = 0)
      BY <1>1, <2>2 DEF UpInv, RingInv, BlockingReady
    <3>3. Lie(SubSeq(left, 1, n), mem', WrOff)
      BY <1>7 DEF bytes
    <3>. QED
      BY <1>11, <3>1, <3>2, <3>3 DEF BlockingReady
  <2>. QED
    BY <1>2, <2>1, <2>2
<1>14. pc' \in {"wrap", "publish"}
  BY <1>1
<1>15. Kinds' /\ Counts'
  BY <1>1, <1>14 DEF UpInv, CountInv, Kinds, Counts, IsData, DataLeft, Loop, writer
<1>16. ReturnTrue' /\ ~Done'
  BY <1>14 DEF ReturnTrue, Done, Running
<1>. QED
  BY <1>9, <1>10, <1>12, <1>13, <1>15, <1>16 DEF Fine, UpInv, RingInv, CountInv, EndsWhole

LEMMA CopyWrappedStep == ASSUME UpInv, CopyWrapped PROVE Fine
<1>. DEFINE len == Len(left)  bytes == SubSeq(left, n + 1, len)
<1>1. /\ pc = "wrap" /\ mem' = Copy(mem, 0, bytes) /\ pc' = "publish"
      /\ UNCHANGED <<acID, ready, WrOff, flags, active, faulted, writer, probe>>
  BY DEF CopyWrapped
<1>2. /\ how = "nocheck" /\ len <= Avail /\ n = Lesser(SizeOfBuffer - WrOff, len)
      /\ n < len /\ Lie(SubSeq(left, 1, n), mem, WrOff)
  BY <1>1 DEF UpInv, RingInv, NoCheckReady, BlockingReady
<1>3. /\ n = SizeOfBuffer - WrOff /\ n \in 0 .. SizeOfBuffer - 1 /\ len < SizeOfBuffer
      /\ len \in Nat /\ n \in Nat /\ len \in 0 .. Avail
      /\ Ahead(WrOff, n) = 0
  <2>1. /\ len \in Nat /\ n \in Nat /\ Avail \in 0 .. SizeOfBuffer - 1
        /\ WrOff \in 0 .. SizeOfBuffer - 1 /\ SizeOfBuffer \in Nat
    BY RingFacts DEF Offsets
  <2>2. len <= Avail /\ n = Lesser(SizeOfBuffer - WrOff, len) /\ n < len
    BY <1>2
  <2>. HIDE DEF len
  <2>3. n = SizeOfBuffer - WrOff
    BY <2>1, <2>2 DEF Lesser
  <2>. QED
    BY <2>1, <2>2, <2>3 DEF Ahead
<1>. HIDE DEF len
<1>4. bytes \in Seq(Byte) /\ Len(bytes) = len - n /\ \A j \in 1 .. len - n : bytes[j] = left[n + j]
  <2>1. \A j \in n + 1 .. len : left[j] \in Byte
    BY <1>3, RingFacts DEF len
  <2>2. /\ bytes \in Seq(Byte) /\ Len(bytes) = IF n + 1 <= len THEN len - (n + 1) + 1 ELSE 0
        /\ \A j \in 1 .. len - (n + 1) + 1 : bytes[j] = left[n + 1 + j - 1]
    BY <1>3, <2>1, SubSeqProperties
  <2>. HIDE DEF bytes
  <2>. QED
    BY <1>2, <1>3, <2>2
<1>. HIDE DEF bytes
<1>5. /\ mem' \in [Offsets -> Byte]
      /\ \A j \in 1 .. Len(bytes) : mem'[Ahead(WrOff, n + j - 1)] = bytes[j]
      /\ \A j \in 1 .. SizeOfBuffer :
           j <= n \/ j > n + Len(bytes) => mem'[Ahead(WrOff, j - 1)] = mem[Ahead(WrOff, j - 1)]
  <2>1. Ahead(WrOff, n) + Len(bytes) <= SizeOfBuffer /\ n + Len(bytes) <= SizeOfBuffer
    <3>1. /\ Ahead(WrOff, n) = 0 /\ Len(bytes) = len - n /\ len \in Nat /\ n \in Nat
          /\ len < SizeOfBuffer
      BY <1>3, <1>4
    <3>2. SizeOfBuffer \in Nat
      BY RingAssumption
    <3>. QED
      BY <3>1, <3>2
  <2>2. mem' = Copy(mem, Ahead(WrOff, n), bytes)
    BY <1>1, <1>3
  <2>3. Filled(mem', mem, WrOff, n, bytes)
    BY <1>3, <1>4, <2>1, <2>2, RingFacts, CopyPart
  <2>4. mem' \in [Offsets -> Byte]
    <3>1. Ahead(WrOff, n) \in Offsets
      <4>1. Ahead(WrOff, n) = 0
        BY <1>3
      <4>. QED
        BY <4>1, RingAssumption DEF Offsets
    <3>. QED
      BY <1>4, <2>2, <3>1, RingFacts, CopyType
  <2>. QED
    BY <1>4, <2>3, <2>4 DEF Filled
<1>6. Lie(left, mem', WrOff)
  <2>1. ASSUME NEW j \in 1 .. len PROVE mem'[Ahead(WrOff, j - 1)] = left[j]
    <3>1. CASE j <= n
      <4>1. SubSeq(left, 1, n)[j] = left[j] /\ Len(SubSeq(left, 1, n)) = n /\ j \in 1 .. n
        <5>1. left \in Seq(Byte) /\ n \in Nat /\ n <= Len(left) /\ j \in 1 .. n
          BY <1>2, <1>3, <3>1, RingFacts DEF len
        <5>. QED
          BY <5>1
      <4>2. mem[Ahead(WrOff, j - 1)] = left[j]
        BY <1>2, <4>1 DEF Lie
      <4>3. j \in 1 .. SizeOfBuffer
        BY <1>3, RingFacts
      <4>. QED
        BY <1>5, <3>1, <4>2, <4>3
    <3>2. CASE j > n
      <4>1. j - n \in 1 .. len - n /\ n + (j - n) - 1 = j - 1 /\ n + (j - n) = j
        BY <1>3, <3>2
      <4>. QED
        BY <1>4, <1>5, <4>1
    <3>3. j <= n \/ j > n
      BY <1>3
    <3>. QED
      BY <3>1, <3>2, <3>3
  <2>. QED
    BY <2>1 DEF Lie, len
<1>7. SameButFirst(len, mem, mem', WrOff)
  <2>1. \A j \in len + 1 .. SizeOfBuffer : j \in 1 .. SizeOfBuffer /\ j > n + Len(bytes)
    <3>1. SizeOfBuffer \in Nat /\ n + Len(bytes) = len
      BY <1>3, <1>4, RingFacts
    <3>. QED
      BY <1>3, <3>1
  <2>. QED
    BY <1>5, <2>1 DEF SameButFirst
<1>8. GotHeld' /\ Maps
  BY <1>1, <1>3, <1>7, FreeCopy DEF writer, probe
<1>9. UpTypeOK' /\ SetUpFirst'
  BY <1>1, <1>5 DEF UpInv, RingInv, UpTypeOK, SetUpFirst, Loop, writer, probe
<1>10. Avail' = Avail /\ UNCHANGED <<how, left, n, WrOff>>
  BY <1>1 DEF Avail, writer, probe
<1>11. NoCheckReady'
  BY <1>1, <1>2, <1>6, <1>10 DEF NoCheckReady, len
<1>12. BlockingReady'
  BY <1>1, <1>2, <1>10 DEF BlockingReady
<1>13. Kinds' /\ Counts'
  BY <1>1 DEF UpInv, CountInv, Kinds, Counts, IsData, DataLeft, Loop, writer
<1>14. ReturnTrue' /\ ~Done'
  BY <1>1 DEF ReturnTrue, Done, Running
<1>. QED
  BY <1>8, <1>9, <1>11, <1>12, <1>13, <1>14 DEF Fine, UpInv, RingInv, CountInv, EndsWhole

-----------------------------------------------------------------------------
(* Publishing                                                              *)

(* The first k bytes that are left lie behind the published ones: moving   *)
(* WrOff over them puts them into the channel.                             *)
LEMMA AcceptStep ==
  ASSUME UpInv, NEW k \in 0 .. Len(left), k <= Avail, Lie(SubSeq(left, 1, k), mem, WrOff),
         WrOff' = Ahead(WrOff, k), left' = SubSeq(left, k + 1, Len(left)),
         UNCHANGED <<mem, probe>>
  PROVE  WrOff' \in Offsets /\ left' \in Seq(Byte) /\ GotHeld' /\ Maps
<1>. DEFINE bytes == SubSeq(left, 1, k)  held == Held(mem, RdOff, WrOff)
            rest == SubSeq(left, k + 1, Len(left))
<1>1. k \in Nat /\ k <= Len(left) /\ Len(left) \in Nat /\ left \in Seq(Byte)
  BY RingFacts
<1>2. bytes \in Seq(Byte) /\ Len(bytes) = k
  BY <1>1
<1>3. rest \in Seq(Byte)
  BY <1>1
<1>. HIDE DEF bytes, rest
<1>4. /\ WrOff' \in Offsets /\ Used(RdOff, WrOff') = Used(RdOff, WrOff) + k
      /\ Held(mem, RdOff, WrOff') = held \o bytes
  <2>1. /\ Ahead(WrOff, Len(bytes)) \in Offsets
        /\ Used(RdOff, Ahead(WrOff, Len(bytes))) = Used(RdOff, WrOff) + Len(bytes)
        /\ Held(mem, RdOff, Ahead(WrOff, Len(bytes))) = Held(mem, RdOff, WrOff) \o bytes
    <3>1. Len(bytes) <= GetAvailWriteSpace(RdOff, WrOff) /\ Lie(bytes, mem, WrOff)
      BY <1>2 DEF Avail, bytes
    <3>2. RdOff \in Offsets /\ WrOff \in Offsets
      BY RingFacts
    <3>. QED
      BY <1>2, <3>1, <3>2, HeldGrows, SMTT(20)
  <2>. QED
    BY <1>2, <2>1
<1>5. /\ Held(mem, RdOff, WrOff)' = held \o bytes /\ Len(held) = Used(RdOff, WrOff)
      /\ held \in Seq({mem[off] : off \in Offsets})
      /\ got' = got /\ RdOff' = RdOff /\ mem' = mem
  <2>1. got' = got /\ RdOff' = RdOff /\ mem' = mem
    BY DEF probe
  <2>2. Held(mem, RdOff, WrOff)' = held \o bytes
    BY <1>4, <2>1
  <2>3. Len(held) = Used(RdOff, WrOff) /\ held \in Seq({mem[off] : off \in Offsets})
    <3>1. RdOff \in Offsets /\ WrOff \in Offsets
      BY RingFacts
    <3>2. Len(held) = Used(RdOff, WrOff)
      BY <3>1, HeldBytes
    <3>3. held \in Seq({mem[off] : off \in Offsets})
      BY <3>1, HeldType
    <3>. QED
      BY <3>2, <3>3
  <2>. QED
    BY <2>1, <2>2, <2>3
<1>6. GotHeld'
  <2>1. Len(got) <= Used(RdOff, WrOff') /\ Lie(got, mem, RdOff)
    BY <1>1, <1>4, RingFacts DEF UpInv, RingInv, GotHeld
  <2>. QED
    BY <1>5, <2>1 DEF GotHeld
<1>. HIDE DEF held
<1>7. CASE k = 0
  <2>1. bytes = <<>> /\ rest = left
    <3>1. bytes = <<>>
      BY <1>2, <1>7, EmptySeq
    <3>2. rest = left
      BY <1>1, <1>7 DEF rest
    <3>. QED
      BY <3>1, <3>2
  <2>2. held \o <<>> = held
    BY <1>5, ConcatEmptySeq
  <2>3. UNCHANGED Channel!vars
    BY <1>5, <2>1, <2>2 DEF Channel!vars, held, rest
  <2>. QED
    BY <1>3, <1>4, <1>6, <2>3 DEF Maps, rest
<1>8. CASE k # 0
  <2>1. k \in 1 .. Len(left) /\ Len(held) + k <= SizeOfBuffer - 1
    BY <1>1, <1>5, <1>8, RingFacts
  <2>2. Channel!Accept
    BY <1>5, <2>1 DEF Channel!Accept, held, bytes
  <2>. QED
    BY <1>3, <1>4, <1>6, <2>2 DEF Maps, Channel!Next, rest
<1>. QED
  BY <1>7, <1>8

LEMMA PublishAllStep == ASSUME UpInv, PublishAll PROVE Fine
<1>. DEFINE len == Len(left)
<1>1. /\ pc = "publish" /\ how = "nocheck"
      /\ WrOff' = IF SizeOfBuffer - WrOff > len THEN WrOff + len ELSE len - (SizeOfBuffer - WrOff)
      /\ stored' = stored + DataBytes(left)
      /\ next' = (next + DataBytes(left)) % Values
      /\ UNCHANGED <<acID, ready, mem, flags, active, faulted, call, probe>>
  BY DEF PublishAll, Publish
<1>2. /\ ret' = status /\ pc' = (IF faulted THEN "halt" ELSE "idle") /\ how' = "nocheck"
      /\ left' = <<>> /\ piece' = 0 /\ pieces' = <<>> /\ n' = 0 /\ status' = 0
  BY DEF PublishAll, Return
<1>3. len <= Avail /\ Lie(left, mem, WrOff) /\ len \in Nat /\ left \in Seq(Byte)
  BY <1>1, RingFacts DEF UpInv, RingInv, NoCheckReady
<1>4. WrOff' \in Offsets /\ GotHeld' /\ Maps
  <2>1. WrOff' = Ahead(WrOff, len)
    <3>1. SizeOfBuffer \in Nat /\ WrOff \in Nat
      BY RingFacts DEF Offsets
    <3>. HIDE DEF len
    <3>. QED
      BY <1>1, <1>3, <3>1 DEF Ahead
  <2>2. SubSeq(left, 1, len) = left /\ SubSeq(left, len + 1, len) = <<>>
    <3>1. SubSeq(left, 1, len) = left
      BY <1>3
    <3>2. SubSeq(left, len + 1, len) = <<>>
      BY <1>3, SubSeqEmpty
    <3>. QED
      BY <3>1, <3>2
  <2>3. len \in 0 .. len
    BY <1>3
  <2>. QED
    BY <1>1, <1>2, <1>3, <2>1, <2>2, <2>3, AcceptStep
<1>5. DataBytes(left) \in Nat /\ DataBytes(left) = DataLeft /\ call.op # "TerminalOut"
  <2>1. /\ \A j \in 1 .. Len(left) : left[j].kind = "data" <=> IsData(j)
        /\ call.op # "TerminalOut"
    BY <1>1 DEF UpInv, CountInv, Kinds, Loop
  <2>2. CASE call.op = "SetTerminal"
    <3>1. \A j \in 1 .. Len(left) : left[j].kind # "data"
      BY <2>1, <2>2 DEF IsData
    <3>. QED
      BY <1>3, <2>1, <2>2, <3>1, DataBytesFacts DEF DataLeft
  <2>3. CASE call.op # "SetTerminal"
    <3>1. \A j \in 1 .. Len(left) : left[j].kind = "data"
      BY <2>1, <2>3 DEF IsData
    <3>. QED
      BY <1>3, <2>1, <2>3, <3>1, DataBytesFacts DEF DataLeft
  <2>. QED
    BY <2>2, <2>3
<1>6. stored' = stored + DataLeft /\ stored' \in Nat /\ next' \in 0 .. Values - 1
  <2>1. stored' \in Nat
    <3>1. stored \in Nat
      BY RingFacts
    <3>. QED
      BY <1>1, <1>5, <3>1
  <2>2. next' \in 0 .. Values - 1
    <3>1. next \in Nat
      BY DEF UpInv, RingInv, UpTypeOK
    <3>. QED
      BY <1>1, <1>5, <3>1, UpAssumption
  <2>. QED
    BY <1>1, <1>5, <2>1, <2>2
<1>7. UpTypeOK'
  BY <1>1, <1>2, <1>4, <1>6 DEF UpInv, RingInv, UpTypeOK, Loop, probe
<1>8. SetUpFirst' /\ pc' \in {"idle", "halt"}
  <2>1. pc' \in {"idle", "halt"}
    BY <1>2
  <2>2. acID >= 2 /\ acID \in 0 .. 3 /\ ready
    BY <1>1 DEF UpInv, RingInv, UpTypeOK, SetUpFirst, Loop
  <2>. QED
    BY <1>1, <2>1, <2>2 DEF SetUpFirst, Loop
<1>9. NoCheckReady' /\ BlockingReady'
  BY <1>8 DEF NoCheckReady, BlockingReady
<1>10. Kinds' /\ Counts'
  BY <1>8 DEF Kinds, Counts, Loop
<1>11. ReturnTrue' /\ EndsWhole
  <2>1. /\ call.op \in {"write", "TerminalOut", "PutChar", "PutCharSkip"} => stored' = status
        /\ flags = "skip" \/ call.op \in {"WriteSkip", "PutCharSkip"} => stored' \in {0, call.len}
        /\ flags = "block" /\ call.op \in {"write", "TerminalOut", "PutChar"} => stored' = call.len
    BY <1>1, <1>6 DEF UpInv, CountInv, Counts, Loop
  <2>2. ReturnTrue'
    BY <1>1, <1>2, <1>6, <2>1 DEF ReturnTrue
  <2>3. EndsWhole
    BY <2>1 DEF EndsWhole
  <2>. QED
    BY <2>2, <2>3
<1>. QED
  BY <1>4, <1>7, <1>8, <1>9, <1>10, <1>11 DEF Fine, UpInv, RingInv, CountInv

(* What a chunk takes from its piece: it is data throughout or not at all, *)
(* and the count of the data that is left drops by what is stored.         *)
LEMMA ChunkCount ==
  ASSUME UpInv, pc = "publish", how = "blocking"
  PROVE  LET bytes == SubSeq(left, 1, n)
         IN  /\ bytes \in Seq(Byte) /\ Len(bytes) = n /\ DataBytes(bytes) \in {0, n}
             /\ n <= piece /\ piece <= Len(left)
             /\ Len(left) = piece + Later /\ Later \in Nat
             /\ Len(pieces) = 0 \/ Len(pieces) = 1 \/ Len(pieces) = 2
             /\ Len(pieces) <= 2
             /\ call.op = "SetTerminal" => DataBytes(bytes) = 0 /\ pieces = <<>>
             /\ call.op \notin {"SetTerminal", "TerminalOut"} =>
                  DataBytes(bytes) = n /\ pieces = <<>>
             /\ call.op = "TerminalOut" =>
                  DataBytes(bytes) = IF Len(pieces) = 1 THEN n ELSE 0
<1>. DEFINE bytes == SubSeq(left, 1, n)
<1>1. /\ n <= piece /\ Len(pieces) <= 2 /\ Len(left) = piece + Later
  BY DEF UpInv, RingInv, BlockingReady
<1>2. Later \in Nat /\ (Len(pieces) = 0 \/ Len(pieces) = 1 \/ Len(pieces) = 2)
  BY <1>1, RingFacts, LaterType, PiecesFacts
<1>3. n <= Len(left) /\ piece <= Len(left) /\ n \in Nat /\ piece \in Nat
  <2>1. n \in Nat /\ piece \in Nat
    BY RingFacts
  <2>. QED
    BY <1>1, <1>2, <2>1
<1>4. bytes \in Seq(Byte) /\ Len(bytes) = n /\ \A j \in 1 .. n : bytes[j] = left[j]
  <2>1. left \in Seq(Byte) /\ n \in Nat /\ n <= Len(left)
    BY <1>3, RingFacts
  <2>. QED
    BY <2>1
<1>. HIDE DEF bytes
<1>5. /\ \A j \in 1 .. Len(left) : left[j].kind = "data" <=> IsData(j)
      /\ call.op # "TerminalOut" => pieces = <<>>
  BY DEF UpInv, CountInv, Kinds, Loop
<1>6. \A j \in 1 .. n : j \in 1 .. Len(left) /\ j <= piece /\ ~(piece < j)
  BY <1>1, <1>3, RingFacts
<1>7. \A j \in 1 .. n : bytes[j].kind = "data" <=> IsData(j)
  BY <1>4, <1>5, <1>6
<1>8. CASE \A j \in 1 .. n : IsData(j)
  <2>1. DataBytes(bytes) = n
    BY <1>4, <1>7, <1>8, DataBytesFacts
  <2>2. n = 0 \/ 1 \in 1 .. n
    BY <1>3
  <2>3. n # 0 => IsData(1) /\ ~(piece < 1)
    BY <1>6, <1>8, <2>2
  <2>4. call.op = "SetTerminal" => n = 0
    BY <2>3 DEF IsData
  <2>5. call.op = "TerminalOut" /\ Len(pieces) # 1 => n = 0
    BY <1>2, <2>3 DEF IsData
  <2>. QED
    BY <1>1, <1>2, <1>3, <1>4, <1>5, <2>1, <2>4, <2>5 DEF bytes
<1>9. CASE \A j \in 1 .. n : ~IsData(j)
  <2>1. DataBytes(bytes) = 0
    BY <1>4, <1>7, <1>9, DataBytesFacts
  <2>2. n = 0 \/ 1 \in 1 .. n
    BY <1>3
  <2>3. n # 0 => ~IsData(1) /\ 1 <= piece
    BY <1>6, <1>9, <2>2
  <2>4. call.op \notin {"SetTerminal", "TerminalOut"} => n = 0
    BY <2>3 DEF IsData
  <2>5. call.op = "TerminalOut" /\ Len(pieces) = 1 => n = 0
    BY <2>3 DEF IsData
  <2>. QED
    BY <1>1, <1>2, <1>3, <1>4, <1>5, <2>1, <2>4, <2>5 DEF bytes
<1>10. (\A j \in 1 .. n : IsData(j)) \/ (\A j \in 1 .. n : ~IsData(j))
  BY <1>2, <1>6 DEF IsData
<1>. QED
  BY <1>8, <1>9, <1>10

LEMMA PublishChunkStep == ASSUME UpInv, PublishChunk PROVE Fine
<1>. DEFINE len == Len(left)  bytes == SubSeq(left, 1, n)  rest == SubSeq(left, n + 1, len)
            data == DataBytes(bytes)
<1>1. /\ pc = "publish" /\ how = "blocking"
      /\ WrOff' = Wrapped(WrOff + n)
      /\ stored' = stored + data
      /\ next' = (next + data) % Values
      /\ UNCHANGED <<acID, ready, mem, flags, active, faulted, call, probe>>
  BY DEF PublishChunk, Publish
<1>2. /\ n <= Avail /\ n <= SizeOfBuffer - WrOff /\ Lie(bytes, mem, WrOff)
  BY <1>1 DEF UpInv, RingInv, BlockingReady
<1>3. /\ bytes \in Seq(Byte) /\ Len(bytes) = n /\ data \in {0, n}
      /\ n <= piece /\ piece <= len /\ len = piece + Later /\ Later \in Nat
      /\ Len(pieces) = 0 \/ Len(pieces) = 1 \/ Len(pieces) = 2
      /\ Len(pieces) <= 2
      /\ call.op = "SetTerminal" => data = 0 /\ pieces = <<>>
      /\ call.op \notin {"SetTerminal", "TerminalOut"} => data = n /\ pieces = <<>>
      /\ call.op = "TerminalOut" => data = IF Len(pieces) = 1 THEN n ELSE 0
  BY <1>1, ChunkCount
<1>4. /\ n \in Nat /\ piece \in Nat /\ len \in Nat /\ stored \in Nat /\ left \in Seq(Byte)
      /\ pieces \in Seq(Nat) /\ SizeOfBuffer \in Nat /\ WrOff \in Nat /\ WrOff < SizeOfBuffer
  BY RingFacts DEF Offsets
<1>. HIDE DEF data, bytes
<1>5. /\ Len(pieces) = 1 => pieces[1] \in Nat
      /\ Len(pieces) = 2 => pieces[1] \in Nat /\ pieces[2] \in Nat
  BY <1>4, PiecesFacts
<1>6. stored' \in Nat /\ next' \in 0 .. Values - 1
  <2>1. data \in Nat /\ next \in Nat
    BY <1>3, <1>4 DEF UpInv, RingInv, UpTypeOK
  <2>. QED
    BY <1>1, <1>4, <2>1, UpAssumption
<1>7. WrOff' = Ahead(WrOff, n)
  BY <1>1, <1>2, <1>4 DEF Ahead, Wrapped
<1>8. acID >= 2 /\ acID \in 0 .. 3 /\ ready /\ call \in Calls
  BY <1>1 DEF UpInv, RingInv, UpTypeOK, SetUpFirst, Loop
<1>9. /\ call.op \in {"write", "TerminalOut", "PutChar", "PutCharSkip"} => stored + DataLeft = status
      /\ call.op = "SetTerminal" => stored = 0
      /\ flags = "skip" \/ call.op \in {"WriteSkip", "PutCharSkip"} =>
           stored + DataLeft \in {0, call.len}
      /\ flags = "block" /\ call.op \in {"write", "TerminalOut", "PutChar"} =>
           stored + DataLeft = call.len
  BY <1>1 DEF UpInv, CountInv, Counts, Loop
<1>10. CASE n = piece /\ pieces = <<>>
  <2>1. /\ ret' = status /\ pc' = (IF faulted THEN "halt" ELSE "idle") /\ how' = "nocheck"
        /\ left' = <<>> /\ piece' = 0 /\ pieces' = <<>> /\ n' = 0 /\ status' = 0
    BY <1>10 DEF PublishChunk, Return
  <2>2. len = n /\ Len(pieces) = 0
    BY <1>3, <1>4, <1>10 DEF Later
  <2>3. WrOff' \in Offsets /\ GotHeld' /\ Maps
    <3>1. rest = <<>>
      BY <1>4, <2>2, SubSeqEmpty
    <3>2. n \in 0 .. len
      BY <1>3, <1>4
    <3>. HIDE DEF rest
    <3>. QED
      BY <1>1, <1>2, <1>7, <2>1, <3>1, <3>2, AcceptStep DEF rest, bytes
  <2>4. stored' = stored + DataLeft
    <3>1. DataLeft = data
      BY <1>3, <1>8, <2>2, CallFacts DEF DataLeft, Functions
    <3>. QED
      BY <1>1, <3>1
  <2>5. UpTypeOK'
    BY <1>1, <1>6, <2>1, <2>3 DEF UpInv, RingInv, UpTypeOK, Loop, probe
  <2>6. pc' \in {"idle", "halt"}
    BY <2>1
  <2>7. SetUpFirst'
    BY <1>1, <1>8, <2>6 DEF SetUpFirst, Loop
  <2>8. NoCheckReady' /\ BlockingReady'
    BY <2>6 DEF NoCheckReady, BlockingReady
  <2>9. Kinds' /\ Counts'
    BY <2>6 DEF Kinds, Counts, Loop
  <2>10. ReturnTrue'
    BY <1>1, <1>6, <1>9, <2>1, <2>4 DEF ReturnTrue
  <2>11. EndsWhole
    BY <1>9, <2>4 DEF EndsWhole
  <2>. QED
    BY <2>3, <2>5, <2>7, <2>8, <2>9, <2>10, <2>11 DEF Fine, UpInv, RingInv, CountInv
<1>11. CASE ~(n = piece /\ pieces = <<>>)
  <2>1. /\ left' = rest /\ n' = 0 /\ pc' = "look"
        /\ piece' = (IF n < piece THEN piece - n ELSE Head(pieces))
        /\ pieces' = (IF n < piece THEN pieces ELSE Tail(pieces))
        /\ UNCHANGED <<how, status, ret>>
    BY <1>11 DEF PublishChunk
  <2>2. /\ rest \in Seq(Byte) /\ Len(rest) = len - n
        /\ \A j \in 1 .. len - n : rest[j] = left[n + j]
    <3>1. \A j \in n + 1 .. len : left[j] \in Byte
      BY <1>4
    <3>2. /\ rest \in Seq(Byte) /\ Len(rest) = IF n + 1 <= len THEN len - (n + 1) + 1 ELSE 0
          /\ \A j \in 1 .. len - (n + 1) + 1 : rest[j] = left[n + 1 + j - 1]
      BY <1>4, <3>1, SubSeqProperties
    <3>. HIDE DEF rest, len
    <3>. QED
      BY <1>3, <1>4, <3>2
  <2>3. WrOff' \in Offsets /\ left' \in Seq(Byte) /\ GotHeld' /\ Maps
    <3>1. n \in 0 .. len
      BY <1>3, <1>4
    <3>. QED
      BY <1>1, <1>2, <1>7, <2>1, <3>1, AcceptStep DEF bytes
  <2>. HIDE DEF rest, len
  (* The piece that is left, or the next one. *)
  <2>4. /\ piece' \in Nat /\ pieces' \in Seq(Nat) /\ Len(pieces') <= 2
        /\ Len(left') = piece' + Later'
        /\ \/ n < piece /\ piece' = piece - n /\ pieces' = pieces
           \/ n = piece /\ Len(pieces) = 1 /\ piece' = pieces[1] /\ Len(pieces') = 0 /\ pieces' = <<>>
           \/ /\ n = piece /\ Len(pieces) = 2 /\ piece' = pieces[1]
              /\ Len(pieces') = 1 /\ pieces'[1] = pieces[2]
    <3>1. CASE n < piece
      <4>1. piece' = piece - n /\ pieces' = pieces /\ Later' = Later
        BY <2>1, <3>1 DEF Later
      <4>2. Len(left') = len - n
        BY <2>1, <2>2
      <4>3. Len(pieces) <= 2
        BY <1>3
      <4>. QED
        BY <1>3, <1>4, <3>1, <4>1, <4>2, <4>3
    <3>2. CASE n = piece
      <4>1. pieces # <<>> /\ piece' = Head(pieces) /\ pieces' = Tail(pieces)
        BY <1>4, <1>11, <2>1, <3>2
      <4>2. Len(pieces) = 1 \/ Len(pieces) = 2
        BY <1>3, <1>4, <4>1, EmptySeq
      <4>3. /\ piece' = pieces[1] /\ pieces' \in Seq(Nat) /\ Len(pieces') = Len(pieces) - 1
            /\ \A j \in 1 .. Len(pieces) - 1 : pieces'[j] = pieces[j + 1]
        BY <1>4, <4>1, HeadTailProperties
      <4>4. \A j \in 1 .. Len(pieces) : pieces[j] \in Nat
        BY <1>4
      <4>5. CASE Len(pieces) = 1
        <5>1. piece' \in Nat /\ Len(pieces') = 0 /\ pieces' = <<>>
          BY <4>3, <4>4, <4>5, EmptySeq
        <5>2. Later = pieces[1] /\ Later' = 0
          BY <4>5, <5>1 DEF Later
        <5>3. Len(left') = len - n
          BY <2>1, <2>2
        <5>. QED
          BY <1>3, <1>4, <3>2, <4>3, <4>5, <5>1, <5>2, <5>3
      <4>6. CASE Len(pieces) = 2
        <5>1. pieces[1] \in Nat /\ pieces[2] \in Nat /\ Len(pieces') = 1 /\ pieces'[1] = pieces[2]
          BY <4>3, <4>4, <4>6
        <5>2. Later = pieces[1] + pieces[2] /\ Later' = pieces[2]
          BY <4>6, <5>1 DEF Later
        <5>3. Len(left') = len - n
          BY <2>1, <2>2
        <5>. QED
          BY <1>3, <1>4, <3>2, <4>3, <4>6, <5>1, <5>2, <5>3
      <4>. QED
        BY <4>2, <4>5, <4>6
    <3>. QED
      BY <1>3, <1>4, <3>1, <3>2
  <2>5. UpTypeOK'
    BY <1>1, <1>6, <2>1, <2>3, <2>4 DEF UpInv, RingInv, UpTypeOK, Loop, probe
  <2>6. SetUpFirst'
    BY <1>1, <1>8, <2>1 DEF SetUpFirst, Loop
  <2>7. NoCheckReady' /\ BlockingReady'
    BY <1>1, <2>1, <2>4 DEF NoCheckReady, BlockingReady
  <2>8. Kinds'
    <3>1. /\ \A j \in 1 .. len : left[j].kind = "data" <=> IsData(j)
          /\ call.op # "TerminalOut" => pieces = <<>>
      BY <1>1 DEF UpInv, CountInv, Kinds, Loop, len
    <3>2. ASSUME NEW j \in 1 .. len - n PROVE left'[j].kind = "data" <=> IsData(j)'
      <4>1. n + j \in 1 .. len /\ left'[j] = left[n + j] /\ j \in Nat
        <5>1. j \in Nat /\ j >= 1 /\ j <= len - n
          BY <1>4
        <5>2. left'[j] = left[n + j]
          BY <2>1, <2>2
        <5>. QED
          BY <1>4, <5>1, <5>2
      <4>2. left'[j].kind = "data" <=> IsData(n + j)
        BY <3>1, <4>1
      <4>3. IsData(n + j) <=> IsData(j)'
        <5>1. CASE call.op # "TerminalOut"
          BY <1>1, <5>1 DEF IsData
        <5>2. CASE call.op = "TerminalOut"
          <6>1. CASE n < piece /\ piece' = piece - n /\ pieces' = pieces
            <7>1. Len(pieces) = 2 => pieces[1] \in Nat
              BY <1>5
            <7>2. /\ n + j <= piece <=> j <= piece - n
                  /\ piece < n + j <=> piece - n < j
                  /\ Len(pieces) = 2 => (n + j <= piece + pieces[1] <=> j <= piece - n + pieces[1])
              BY <1>4, <4>1, <7>1
            <7>. QED
              BY <1>1, <1>3, <5>2, <6>1, <7>2 DEF IsData
          <6>2. CASE n = piece /\ Len(pieces) = 1 /\ piece' = pieces[1] /\ Len(pieces') = 0
            <7>1. ~(n + j <= piece)
              BY <1>4, <4>1, <6>2
            <7>. QED
              BY <1>1, <5>2, <6>2, <7>1 DEF IsData
          <6>3. CASE n = piece /\ Len(pieces) = 2 /\ piece' = pieces[1] /\ Len(pieces') = 1
            <7>1. pieces[1] \in Nat
              BY <1>5, <6>3
            <7>2. piece < n + j /\ (n + j <= piece + pieces[1] <=> j <= pieces[1])
              BY <1>4, <4>1, <6>3, <7>1
            <7>. QED
              BY <1>1, <5>2, <6>3, <7>2 DEF IsData
          <6>. QED
            BY <2>4, <6>1, <6>2, <6>3
        <5>. QED
          BY <5>1, <5>2
      <4>. QED
        BY <4>2, <4>3
    <3>3. call'.op # "TerminalOut" => pieces' = <<>>
      <4>. SUFFICES ASSUME call.op # "TerminalOut" PROVE pieces' = <<>>
        BY <1>1
      <4>1. pieces = <<>> /\ Len(pieces) = 0
        BY <3>1
      <4>. QED
        BY <2>4, <4>1
    <3>4. pc' = "look" /\ how' = "blocking" /\ Len(left') = len - n
      BY <1>1, <2>1, <2>2
    <3>. QED
      BY <3>2, <3>3, <3>4 DEF Kinds, Loop
  <2>9. stored' + DataLeft' = stored + DataLeft /\ (call.op = "SetTerminal" => stored' = 0)
    <3>1. DataLeft' = DataLeft - data
      <4>1. CASE call.op = "SetTerminal"
        BY <1>1, <1>3, <4>1 DEF DataLeft
      <4>2. CASE call.op \notin {"SetTerminal", "TerminalOut"}
        <5>1. DataLeft = len /\ DataLeft' = len - n /\ data = n
          BY <1>1, <1>3, <2>1, <2>2, <4>2 DEF DataLeft, len
        <5>. QED
          BY <1>4, <5>1
      <4>3. CASE call.op = "TerminalOut"
        <5>1. CASE n < piece /\ piece' = piece - n /\ pieces' = pieces
          <6>1. DataLeft = IF Len(pieces) = 0 THEN 0 ELSE IF Len(pieces) = 1 THEN piece ELSE pieces[1]
            BY <4>3 DEF DataLeft
          <6>2. DataLeft' = IF Len(pieces) = 0 THEN 0
                            ELSE IF Len(pieces) = 1 THEN piece - n ELSE pieces[1]
            BY <1>1, <4>3, <5>1 DEF DataLeft
          <6>. QED
            BY <1>3, <1>4, <1>5, <4>3, <6>1, <6>2
        <5>2. CASE n = piece /\ Len(pieces) = 1 /\ piece' = pieces[1] /\ Len(pieces') = 0
          BY <1>1, <1>3, <1>4, <4>3, <5>2 DEF DataLeft
        <5>3. CASE n = piece /\ Len(pieces) = 2 /\ piece' = pieces[1] /\ Len(pieces') = 1
          BY <1>1, <1>3, <1>4, <1>5, <4>3, <5>3 DEF DataLeft
        <5>. QED
          BY <2>4, <5>1, <5>2, <5>3
      <4>. QED
        BY <4>1, <4>2, <4>3
    <3>2. DataLeft \in Int /\ data \in Int
      <4>1. Len(left) \in Nat
        BY RingFacts
      <4>. QED
        BY <1>3, <1>4, <1>5, <4>1 DEF DataLeft
    <3>. QED
      BY <1>1, <1>3, <1>4, <1>9, <3>1, <3>2
  <2>10. Counts'
    BY <1>1, <1>9, <2>1, <2>9 DEF Counts, Loop
  <2>11. ReturnTrue' /\ ~Done'
    BY <2>1 DEF ReturnTrue, Done, Running
  <2>. QED
    BY <2>3, <2>5, <2>6, <2>7, <2>8, <2>10, <2>11 DEF Fine, UpInv, RingInv, CountInv, EndsWhole
<1>. QED
  BY <1>10, <1>11

-----------------------------------------------------------------------------
(* The probe                                                               *)

LEMMA HostCopyStep == ASSUME UpInv, HostCopy PROVE Fine
<1>1. /\ acID = 3 /\ got = <<>>
      /\ UNCHANGED <<acID, ready, mem, WrOff, flags, active, pc, faulted, writer, RdOff, screen>>
  BY DEF HostCopy
<1>. DEFINE held == Held(mem, RdOff, WrOff)  used == Used(RdOff, WrOff)
<1>2. PICK k \in 1 .. used : got' = SubSeq(held, 1, k)
  BY DEF HostCopy
<1>3. /\ RdOff \in Offsets /\ WrOff \in Offsets /\ mem \in [Offsets -> Byte]
      /\ used \in 0 .. SizeOfBuffer - 1 /\ SizeOfBuffer \in Nat
  BY RingFacts
<1>4. Len(held) = used /\ \A j \in 1 .. used : held[j] = mem[Ahead(RdOff, j - 1)]
  BY <1>3, HeldBytes
<1>5. \A j \in 1 .. used : held[j] \in Byte
  <2>1. ASSUME NEW j \in 1 .. used PROVE held[j] \in Byte
    <3>1. j - 1 \in 0 .. SizeOfBuffer - 1
      BY <1>3
    <3>2. Ahead(RdOff, j - 1) \in Offsets
      BY <1>3, <3>1, OffsetFacts
    <3>. QED
      BY <1>3, <1>4, <3>2
  <2>. QED
    BY <2>1
<1>. HIDE DEF held
<1>6. got' \in Seq(Byte) /\ Len(got') = k /\ \A j \in 1 .. k : got'[j] = held[j]
  <2>1. \A j \in 1 .. k : held[j] \in Byte
    BY <1>3, <1>5
  <2>2. k \in Int /\ k >= 1
    BY <1>3
  <2>3. /\ SubSeq(held, 1, k) \in Seq(Byte)
        /\ Len(SubSeq(held, 1, k)) = IF 1 <= k THEN k - 1 + 1 ELSE 0
        /\ \A j \in 1 .. k - 1 + 1 : SubSeq(held, 1, k)[j] = held[1 + j - 1]
    BY <2>1, <2>2, SubSeqProperties
  <2>. QED
    BY <1>2, <2>2, <2>3
<1>7. GotHeld'
  <2>1. k <= used /\ \A j \in 1 .. k : mem[Ahead(RdOff, j - 1)] = got'[j]
    BY <1>3, <1>4, <1>6
  <2>. QED
    BY <1>1, <1>6, <2>1 DEF GotHeld, Lie
<1>8. Maps
  <2>1. left' = left /\ held' = held
    BY <1>1 DEF writer, held
  <2>2. Len(got) = 0 /\ k \in Len(got) + 1 .. Len(held)
    BY <1>1, <1>3, <1>4
  <2>3. Channel!Look
    BY <1>2, <2>1, <2>2 DEF Channel!Look, held
  <2>. QED
    BY <2>3 DEF Maps, Channel!Next
<1>9. UpTypeOK' /\ SetUpFirst'
  BY <1>1, <1>6 DEF UpInv, RingInv, UpTypeOK, SetUpFirst, Loop, writer
<1>10. NoCheckReady' /\ BlockingReady'
  BY <1>1 DEF UpInv, RingInv, NoCheckReady, BlockingReady, Avail, Later, writer
<1>11. Kinds' /\ Counts'
  BY <1>1 DEF UpInv, CountInv, Kinds, Counts, IsData, DataLeft, Loop, writer
<1>12. ReturnTrue' /\ EndsWhole
  BY <1>1 DEF UpInv, CountInv, ReturnTrue, EndsWhole, Done, Running, writer
<1>. QED
  BY <1>7, <1>8, <1>9, <1>10, <1>11, <1>12 DEF Fine, UpInv, RingInv, CountInv

LEMMA HostAckStep == ASSUME UpInv, HostAck PROVE Fine
<1>1. /\ got # <<>> /\ RdOff' = Ahead(RdOff, Len(got)) /\ got' = <<>>
      /\ UNCHANGED <<acID, ready, mem, WrOff, flags, active, pc, faulted, writer>>
  BY DEF HostAck
<1>. DEFINE used == Used(RdOff, WrOff)  held == Held(mem, RdOff, WrOff)
<1>2. Len(got) \in 0 .. used /\ used \in Nat
  BY RingFacts DEF UpInv, RingInv, GotHeld
<1>3. /\ RdOff' \in Offsets /\ Used(RdOff', WrOff) = used - Len(got)
      /\ GetAvailWriteSpace(RdOff', WrOff) = GetAvailWriteSpace(RdOff, WrOff) + Len(got)
      /\ Held(mem, RdOff', WrOff) = SubSeq(held, Len(got) + 1, used)
  <2>1. RdOff \in Offsets /\ WrOff \in Offsets
    BY RingFacts
  <2>. QED
    BY <1>1, <1>2, <2>1, HeldShrinks
<1>4. Avail' = Avail + Len(got) /\ WrOff' = WrOff /\ mem' = mem /\ left' = left
  BY <1>1, <1>3 DEF Avail, writer
<1>5. Avail <= Avail'
  BY <1>2, <1>4, RingFacts
<1>6. Maps
  <2>1. Len(held) = used
    BY RingFacts, HeldBytes
  <2>2. Held(mem, RdOff, WrOff)' = SubSeq(held, Len(got) + 1, Len(held))
    BY <1>3, <1>4, <2>1
  <2>. QED
    BY <1>1, <1>4, <2>2 DEF Maps, Channel!Next, Channel!Remove
<1>7. GotHeld'
  <2>1. Used(RdOff', WrOff') \in Nat
    BY <1>3, <1>4, RingFacts, OffsetFacts
  <2>. QED
    BY <1>1, <2>1 DEF GotHeld, Lie
<1>8. UpTypeOK' /\ SetUpFirst'
  <2>1. acID >= 2
    BY <1>1 DEF UpInv, RingInv, UpTypeOK, SetUpFirst
  <2>. QED
    BY <1>1, <1>3, <2>1 DEF UpInv, RingInv, UpTypeOK, SetUpFirst, Loop, writer
<1>9. NoCheckReady'
  <2>. SUFFICES ASSUME pc \in {"copy", "wrap", "publish"}, how = "nocheck" PROVE NoCheckReady'
    BY <1>1 DEF NoCheckReady, writer
  <2>1. /\ Len(left) <= Avail /\ n = Lesser(SizeOfBuffer - WrOff, Len(left))
        /\ pc = "wrap" => n < Len(left) /\ Lie(SubSeq(left, 1, n), mem, WrOff)
        /\ pc = "publish" => Lie(left, mem, WrOff)
    BY DEF UpInv, RingInv, NoCheckReady
  <2>2. Len(left) <= Avail'
    BY <1>2, <1>4, <2>1, RingFacts
  <2>. QED
    BY <1>1, <1>4, <2>1, <2>2 DEF NoCheckReady, writer
<1>10. BlockingReady'
  <2>1. Later' = Later
    BY <1>1 DEF Later, writer
  <2>2. pc \in {"copy", "publish"} /\ how = "blocking" => n <= Avail'
    <3>1. pc \in {"copy", "publish"} /\ how = "blocking" => n <= Avail
      BY DEF UpInv, RingInv, BlockingReady
    <3>2. Avail <= Avail' /\ Avail \in Nat /\ Avail' \in Nat /\ n \in Nat
      BY <1>2, <1>4, RingFacts
    <3>. QED
      BY <3>1, <3>2
  <2>. QED
    BY <1>1, <1>4, <2>1, <2>2 DEF UpInv, RingInv, BlockingReady, writer
<1>11. Kinds'
  BY <1>1 DEF UpInv, CountInv, Kinds, IsData, Loop, writer
<1>12. Counts'
  <2>1. Ahead(WrOff, 1) # RdOff => Ahead(WrOff', 1) # RdOff'
    <3>. SUFFICES ASSUME Ahead(WrOff, 1) # RdOff PROVE Ahead(WrOff, 1) # RdOff'
      BY <1>4
    <3>1. Avail >= 1
      BY RingFacts, OneAhead DEF Avail
    <3>2. GetAvailWriteSpace(RdOff', WrOff) >= 1
      <4>1. Avail' = GetAvailWriteSpace(RdOff', WrOff)
        BY <1>1, <1>3 DEF Avail, writer
      <4>2. Avail \in Nat /\ Avail' \in Nat /\ Avail <= Avail'
        BY <1>2, <1>4, RingFacts
      <4>. QED
        BY <3>1, <4>1, <4>2
    <3>3. WrOff \in Offsets
      BY RingFacts
    <3>. QED
      BY <1>3, <3>2, <3>3, OneAhead
  <2>2. /\ pc' = pc /\ call' = call /\ stored' = stored /\ status' = status /\ flags' = flags
        /\ DataLeft' = DataLeft
    BY <1>1 DEF DataLeft, writer
  <2>. QED
    BY <2>1, <2>2 DEF UpInv, CountInv, Counts, Loop
<1>13. ReturnTrue' /\ EndsWhole
  BY <1>1 DEF UpInv, CountInv, ReturnTrue, EndsWhole, Done, Running, writer
<1>. QED
  BY <1>6, <1>7, <1>8, <1>9, <1>10, <1>11, <1>12, <1>13 DEF Fine, UpInv, RingInv, CountInv

-----------------------------------------------------------------------------
LEMMA UpStep == UpInv /\ [Next]_vars => Fine
<1>. SUFFICES ASSUME UpInv, [Next]_vars PROVE Fine
  OBVIOUS
<1>1. CASE UNCHANGED vars
  <2>1. UNCHANGED <<acID, ready, mem, WrOff, flags, active, pc, faulted, writer, probe>>
    BY <1>1 DEF vars
  <2>2. UpTypeOK' /\ SetUpFirst' /\ GotHeld'
    BY <2>1 DEF UpInv, RingInv, UpTypeOK, SetUpFirst, GotHeld, Lie, Loop, writer, probe
  <2>3. NoCheckReady' /\ BlockingReady'
    BY <2>1 DEF UpInv, RingInv, NoCheckReady, BlockingReady, Avail, Later, Lie, writer, probe
  <2>4. Kinds' /\ Counts'
    BY <2>1 DEF UpInv, CountInv, Kinds, Counts, IsData, DataLeft, Loop, writer, probe
  <2>5. ReturnTrue' /\ EndsWhole
    BY <2>1 DEF UpInv, CountInv, ReturnTrue, EndsWhole, Done, Running, writer
  <2>6. Maps
    BY <2>1 DEF Maps, Channel!vars, writer, probe
  <2>. QED
    BY <2>2, <2>3, <2>4, <2>5, <2>6 DEF Fine, UpInv, RingInv, CountInv
<1>2. CASE \E c \in Calls : Invoke(c)
  BY <1>2, InvokeStep
<1>3. CASE SetFlagsUpBuffer
  BY <1>3, SetFlagsStep
<1>4. CASE Writer
  BY <1>4, InitializationStep, BeginStep, SpinStep, CheckStep, LookStep, CopyStraightStep,
     CopyWrappedStep, PublishAllStep, PublishChunkStep DEF Writer
<1>5. CASE HardFault
  BY <1>5, HardFaultStep
<1>6. CASE Probe
  BY <1>6, HostCopyStep, HostAckStep DEF Probe
<1>. QED
  BY <1>1, <1>2, <1>3, <1>4, <1>5, <1>6 DEF Next

LEMMA UpInvariant == Spec => []UpInv
<1>1. UpInv /\ [Next]_vars => UpInv'
  BY UpStep DEF Fine
<1>. QED
  BY <1>1, UpInitial, PTL DEF Spec

(* What the host receives is what the functions were given, in order and   *)
(* once, with parts dropped only at the end of a write, however the probe  *)
(* interleaves with the writer and wherever a fault strikes: all that      *)
(* write to the up-buffer implement the channel.                           *)
THEOREM UpIsChannel == Spec => IsChannel
<1>1. UpInv /\ UpInv' /\ [Next]_vars => [Channel!Next]_Channel!vars
  BY UpStep DEF Fine, Maps
<1>. QED
  BY <1>1, UpInitial, UpInvariant, PTL DEF Spec, IsChannel, Channel!Spec

(* What SEGGER_RTT_Write, TerminalOut and PutChar return is the number of  *)
(* bytes of the string that were stored.                                   *)
THEOREM ReturnsCorrect == Spec => []ReturnTrue
<1>1. UpInv => ReturnTrue
  BY DEF UpInv, CountInv
<1>. QED
  BY <1>1, UpInvariant, PTL

(* No string is stored in part unless the buffer trims, and in blocking    *)
(* mode every one is stored whole.                                         *)
THEOREM StringsWhole == Spec => WholeStrings
<1>1. UpInv /\ [Next]_vars => [EndsWhole]_vars
  BY UpStep DEF Fine
<1>. QED
  BY <1>1, UpInvariant, PTL DEF Spec, WholeStrings, EndsWhole

(* The id that the probe and INIT() look for is not there before the ring  *)
(* is set up, and nothing is copied before, also when a fault cuts the     *)
(* first initialization.                                                   *)
THEOREM IdComesLast == Spec => []IdLast
<1>1. UpInv => IdLast
  BY DEF UpInv, RingInv, UpTypeOK, SetUpFirst, IdLast, Loop
<1>. QED
  BY <1>1, UpInvariant, PTL
=============================================================================
