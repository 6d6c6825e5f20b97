--------------------------- MODULE RttDownProofs ----------------------------
(***************************************************************************)
(* The down-buffer implements the channel, and what HasKey and HasData     *)
(* promise is kept: proved for any size of the ring and of the buffers the *)
(* program reads into.                                                     *)
(***************************************************************************)
EXTENDS RttDown, RttRingProofs

(* What the probe has copied and not published lies in free slots. *)
SentInRing ==
  /\ sent <= Len(typed)
  /\ sent <= GetAvailWriteSpace(RdOff, WrOff)
  /\ \A j \in 1 .. sent : mem[Ahead(WrOff, j - 1)] = typed[j]

(* What the reader has copied is the front of the ring as it was when the  *)
(* reader looked at the offsets, and rd is just behind it.                 *)
TakenFromRing ==
  /\ Used(RdOff, wr) <= Used(RdOff, WrOff)
  /\ Len(buf) <= Used(RdOff, wr)
  /\ rd = Ahead(RdOff, Len(buf))
  /\ \A i \in 1 .. Len(buf) : buf[i] = mem[Ahead(RdOff, i - 1)]

(* A caller's buffer that was full before the end of the ring takes        *)
(* nothing more.                                                           *)
ReaderInStep ==
  /\ pc \in {"idle", "read"} => buf = <<>>
  /\ pc \in {"tail", "front", "publish"} => TakenFromRing
  /\ pc = "tail" => buf = <<>> /\ RdOff > wr
  /\ pc = "front" /\ rd > wr => room = 0

DownInv == DownTypeOK /\ SentInRing /\ ReaderInStep

-----------------------------------------------------------------------------
(* Steps: each keeps the invariant, and is a step of the channel or none.  *)

Maps == Channel!Next \/ UNCHANGED Channel!vars

LEMMA DownInitial == DownInit => DownInv /\ Channel!Init
<1>. SUFFICES ASSUME DownInit PROVE DownInv /\ Channel!Init
  OBVIOUS
<1>1. 0 \in Offsets
  BY RingAssumption DEF Offsets
<1>2. mem \in [Offsets -> Byte] /\ RdOff = 0 /\ WrOff = 0
  BY DEF DownInit
<1>3. DownTypeOK
  BY <1>1, RingAssumption DEF DownInit, DownTypeOK
<1>4. SentInRing /\ ReaderInStep
  BY <1>1, OffsetFacts DEF DownInit, SentInRing, ReaderInStep
<1>5. Held(mem, RdOff, WrOff) = <<>>
  <2>1. Used(RdOff, WrOff) = 0
    BY <1>2 DEF Used
  <2>. QED
    BY <1>1, <1>2, <2>1, HeldBytes, HeldType, EmptySeq
<1>. QED
  BY <1>3, <1>4, <1>5 DEF DownInit, DownInv, Channel!Init

(* Steps that move neither the ring, nor what the host sends, nor what the *)
(* reader has copied.                                                      *)
LEMMA StillStep ==
  ASSUME DownInv, UNCHANGED <<probe, RdOff, buf>>, DownTypeOK', ReaderInStep'
  PROVE  DownInv' /\ Maps
<1>1. UNCHANGED Channel!vars
  BY DEF Channel!vars, probe
<1>2. SentInRing'
  BY DEF DownInv, SentInRing, probe
<1>. QED
  BY <1>1, <1>2 DEF DownInv, Maps

LEMMA CallStep ==
  ASSUME DownInv, HasKey \/ HasData \/ Read \/ GetKey \/ WaitKey
  PROVE  DownInv' /\ Maps
<1>1. ASSUME NEW f \in {"HasKey", "HasData"}, Ask(f) PROVE DownInv' /\ Maps
  <2>1. /\ pc = "idle" /\ pc' = pc /\ op' = f /\ f \in Ops /\ ret' \in 0 .. 1
        /\ promised' \in BOOLEAN
        /\ UNCHANGED <<RdOff, size, room, rd, wr, buf, probe>>
    BY <1>1 DEF Ask, DownInv, DownTypeOK
  <2>2. DownTypeOK'
    BY <2>1, RingAssumption DEF DownInv, DownTypeOK, probe
  <2>3. ReaderInStep'
    BY <2>1 DEF DownInv, ReaderInStep
  <2>. QED
    BY <2>1, <2>2, <2>3, StillStep
<1>2. ASSUME NEW f, NEW bytes \in Nat, Start(f, bytes) PROVE DownInv' /\ Maps
  <2>1. DownTypeOK'
    BY <1>2 DEF Start, DownInv, DownTypeOK, probe
  <2>2. ReaderInStep'
    BY <1>2 DEF Start, DownInv, ReaderInStep
  <2>. QED
    BY <1>2, <2>1, <2>2, StillStep DEF Start
<1>. QED
  BY <1>1, <1>2, DownAssumption DEF HasKey, HasData, Read, GetKey, WaitKey

LEMMA HostTypesStep == ASSUME DownInv, HostTypes PROVE DownInv' /\ Maps
<1>1. /\ typed = <<>> /\ typed' \in Seq(Byte)
      /\ UNCHANGED <<reader, mem, WrOff, sent>>
  BY DownAssumption DEF HostTypes
<1>2. sent = 0
  BY <1>1 DEF DownInv, DownTypeOK, SentInRing
<1>3. DownTypeOK'
  BY <1>1 DEF DownInv, DownTypeOK, reader
<1>4. SentInRing'
  BY <1>1, <1>2, OffsetFacts DEF DownInv, DownTypeOK, SentInRing, reader
<1>5. ReaderInStep'
  BY <1>1 DEF DownInv, ReaderInStep, TakenFromRing, reader
<1>6. Channel!Offer
  BY <1>1 DEF Channel!Offer, reader
<1>. QED
  BY <1>3, <1>4, <1>5, <1>6 DEF DownInv, Maps, Channel!Next

LEMMA HostCopiesStep == ASSUME DownInv, HostCopies PROVE DownInv' /\ Maps
<1>1. /\ RdOff \in Offsets /\ WrOff \in Offsets /\ mem \in [Offsets -> Byte]
      /\ typed \in Seq(Byte)
  BY DEF DownInv, DownTypeOK
<1>2. /\ UNCHANGED <<reader, WrOff, typed>>
      /\ sent' \in 1 .. SizeOfBuffer - 1
      /\ sent' <= GetAvailWriteSpace(RdOff, WrOff) /\ sent' <= Len(typed)
  <2>1. GetAvailWriteSpace(RdOff, WrOff) \in 0 .. SizeOfBuffer - 1 /\ Len(typed) \in Nat
    BY <1>1, OffsetFacts
  <2>. QED
    BY <2>1, RingAssumption DEF HostCopies, Lesser
<1>3. /\ mem' \in [Offsets -> Byte]
      /\ \A j \in 1 .. sent' : mem'[Ahead(WrOff, j - 1)] = typed[j]
      /\ SameButFirst(sent', mem, mem', WrOff)
  BY <1>1, <1>2, CopyFacts DEF HostCopies
<1>4. \A i \in 1 .. Used(RdOff, WrOff) : mem'[Ahead(RdOff, i - 1)] = mem[Ahead(RdOff, i - 1)]
  <2>1. sent' \in 0 .. GetAvailWriteSpace(RdOff, WrOff)
    BY <1>1, <1>2, OffsetFacts
  <2>. QED
    BY <1>1, <1>3, <2>1, FreeSlots
<1>5. Held(mem, RdOff, WrOff)' = Held(mem, RdOff, WrOff)
  BY <1>2, <1>4, HeldSame DEF reader
<1>6. UNCHANGED Channel!vars
  BY <1>2, <1>5 DEF Channel!vars, reader
<1>7. DownTypeOK'
  BY <1>2, <1>3 DEF DownInv, DownTypeOK, reader
<1>8. SentInRing'
  BY <1>2, <1>3 DEF SentInRing, reader
<1>9. ReaderInStep'
  <2>1. TakenFromRing => TakenFromRing'
    <3>. SUFFICES ASSUME TakenFromRing, NEW i \in 1 .. Len(buf)
                  PROVE  buf[i] = mem'[Ahead(RdOff, i - 1)]
      BY <1>2 DEF TakenFromRing, reader
    <3>1. Used(RdOff, wr) \in Nat /\ Used(RdOff, WrOff) \in Nat /\ Len(buf) \in Nat
      BY <1>1, OffsetFacts DEF DownInv, DownTypeOK
    <3>2. i \in 1 .. Used(RdOff, WrOff)
      BY <3>1 DEF TakenFromRing
    <3>. QED
      BY <1>4, <3>2 DEF TakenFromRing
  <2>. QED
    BY <1>2, <2>1 DEF DownInv, ReaderInStep, reader
<1>. QED
  BY <1>6, <1>7, <1>8, <1>9 DEF DownInv, Maps

LEMMA HostPublishesStep == ASSUME DownInv, HostPublishes PROVE DownInv' /\ Maps
<1>. DEFINE space == GetAvailWriteSpace(RdOff, WrOff)
            used  == Used(RdOff, WrOff)
<1>1. /\ RdOff \in Offsets /\ WrOff \in Offsets /\ mem \in [Offsets -> Byte]
      /\ typed \in Seq(Byte) /\ sent \in 1 .. space /\ sent <= Len(typed)
      /\ \A j \in 1 .. sent : mem[Ahead(WrOff, j - 1)] = typed[j]
  BY OffsetFacts DEF DownInv, DownTypeOK, SentInRing, HostPublishes
<1>2. /\ WrOff' = Ahead(WrOff, sent) /\ sent' = 0
      /\ typed' = SubSeq(typed, sent + 1, Len(typed))
      /\ UNCHANGED <<reader, mem>>
  BY DEF HostPublishes
<1>3. /\ used \in 0 .. SizeOfBuffer - 1 /\ space \in 0 .. SizeOfBuffer - 1
      /\ used + space = SizeOfBuffer - 1
  BY <1>1, OffsetFacts
<1>. DEFINE front == SubSeq(typed, 1, sent)
            old   == Held(mem, RdOff, WrOff)
<1>4. front \in Seq(Byte) /\ Len(front) = sent /\ \A i \in 1 .. sent : front[i] = typed[i]
  BY <1>1, <1>3, SubSeqProperties
<1>5. /\ WrOff' \in Offsets /\ Used(RdOff, WrOff') = used + sent
      /\ Held(mem, RdOff, WrOff') = old \o front
  <2>1. /\ RdOff \in Offsets /\ WrOff \in Offsets /\ front \in Seq(Byte)
        /\ Len(front) <= GetAvailWriteSpace(RdOff, WrOff)
        /\ Lie(front, mem, WrOff)
    BY <1>1, <1>4 DEF Lie
  <2>2. /\ Ahead(WrOff, Len(front)) \in Offsets
        /\ Used(RdOff, Ahead(WrOff, Len(front))) = Used(RdOff, WrOff) + Len(front)
        /\ Held(mem, RdOff, Ahead(WrOff, Len(front))) = Held(mem, RdOff, WrOff) \o front
    <3>. HIDE DEF front
    <3>. QED
      BY <2>1, HeldGrows
  <2>. QED
    BY <1>2, <1>4, <2>2
<1>6. typed' \in Seq(Byte)
  BY <1>1, <1>2
<1>7. Channel!Accept
  <2>1. sent \in 1 .. Len(typed) /\ Len(old) + sent <= SizeOfBuffer - 1
    <3>1. Len(old) = used
      BY <1>1, HeldBytes
    <3>. QED
      BY <1>1, <1>3, <3>1
  <2>2. Held(mem, RdOff, WrOff)' = old \o front
    BY <1>2, <1>5 DEF reader
  <2>. QED
    BY <1>2, <2>1, <2>2 DEF Channel!Accept, reader
<1>8. DownTypeOK'
  BY <1>2, <1>5, <1>6, RingAssumption DEF DownInv, DownTypeOK, reader
<1>9. SentInRing'
  <2>1. GetAvailWriteSpace(RdOff, WrOff)' \in Nat
    BY <1>1, <1>2, <1>5, OffsetFacts DEF reader
  <2>. QED
    BY <1>2, <1>6, <2>1 DEF SentInRing
<1>10. ReaderInStep'
  <2>1. TakenFromRing => TakenFromRing'
    <3>. SUFFICES ASSUME TakenFromRing PROVE TakenFromRing'
      OBVIOUS
    <3>1. Used(RdOff, wr) \in Nat
      BY <1>1, OffsetFacts DEF DownInv, DownTypeOK
    <3>2. Used(RdOff, wr) <= Used(RdOff, WrOff')
      BY <1>1, <1>3, <1>5, <3>1 DEF TakenFromRing
    <3>. QED
      BY <1>2, <3>2 DEF TakenFromRing, reader
  <2>. QED
    BY <1>2, <2>1 DEF DownInv, ReaderInStep, reader
<1>. QED
  BY <1>7, <1>8, <1>9, <1>10 DEF DownInv, Maps, Channel!Next

-----------------------------------------------------------------------------
(* The reader *)

LEMMA ReadOffsetsStep == ASSUME DownInv, ReadOffsets PROVE DownInv' /\ Maps
<1>1. /\ RdOff \in Offsets /\ WrOff \in Offsets /\ buf = <<>> /\ pc = "read"
  BY DEF ReadOffsets, DownInv, DownTypeOK, ReaderInStep
<1>2. /\ rd' = RdOff /\ wr' = WrOff /\ pc' \in {"tail", "front"}
      /\ pc' = "tail" => RdOff > WrOff
      /\ pc' = "front" => RdOff <= WrOff
      /\ UNCHANGED <<RdOff, op, size, room, buf, ret, promised, probe>>
  BY <1>1 DEF ReadOffsets, Offsets
<1>3. DownTypeOK'
  BY <1>1, <1>2 DEF DownInv, DownTypeOK, probe
<1>4. ReaderInStep'
  <2>1. Ahead(RdOff, 0) = RdOff /\ Used(RdOff, WrOff) \in Nat
    BY <1>1, RingAssumption, OffsetFacts DEF Ahead, Offsets
  <2>2. TakenFromRing'
    BY <1>1, <1>2, <2>1 DEF TakenFromRing, probe
  <2>. QED
    BY <1>1, <1>2, <2>2 DEF ReaderInStep, Offsets
<1>. QED
  BY <1>2, <1>3, <1>4, StillStep

(* Fetching the next k bytes, none of them beyond what the reader knows of,*)
(* looks at more of the channel's front.                                   *)
LEMMA FetchStep ==
  ASSUME DownInv, NEW k \in Nat, Fetch(k), pc \in {"tail", "front"},
         Len(buf) + k <= Used(RdOff, wr),
         rd + k <= SizeOfBuffer,
         rd' = Ahead(RdOff, Len(buf) + k), k <= room,
         UNCHANGED <<RdOff, op, size, wr, ret, promised, probe>>
  PROVE  /\ TakenFromRing' /\ Maps /\ SentInRing'
         /\ rd' \in Offsets /\ room' \in Nat /\ buf' \in Seq(Byte)
<1>1. /\ RdOff \in Offsets /\ WrOff \in Offsets /\ mem \in [Offsets -> Byte] /\ rd \in Offsets
      /\ buf \in Seq(Byte) /\ wr \in Offsets /\ room \in Nat /\ TakenFromRing
  BY DEF DownInv, DownTypeOK, ReaderInStep
<1>. DEFINE n    == Len(buf)
            used == Used(RdOff, WrOff)
            more == [i \in 1 .. k |-> mem[rd + i - 1]]
            held == Held(mem, RdOff, WrOff)
<1>2. /\ n \in Nat /\ used \in 0 .. SizeOfBuffer - 1 /\ Used(RdOff, wr) \in 0 .. SizeOfBuffer - 1
      /\ Used(RdOff, wr) <= used /\ n + k <= used /\ rd = Ahead(RdOff, n)
      /\ \A i \in 1 .. n : buf[i] = mem[Ahead(RdOff, i - 1)]
  <2>1. /\ n \in Nat /\ used \in 0 .. SizeOfBuffer - 1 /\ Used(RdOff, wr) \in 0 .. SizeOfBuffer - 1
    BY <1>1, OffsetFacts
  <2>2. Used(RdOff, wr) <= used /\ rd = Ahead(RdOff, n)
        /\ \A i \in 1 .. n : buf[i] = mem[Ahead(RdOff, i - 1)]
    BY <1>1 DEF TakenFromRing
  <2>. QED
    BY <2>1, <2>2, RingAssumption
<1>3. \A i \in 1 .. k : rd + i - 1 \in Offsets /\ rd + i - 1 = Ahead(RdOff, n + i - 1)
  <2>1. /\ RdOff \in Nat /\ n \in Nat /\ SizeOfBuffer \in Nat /\ RdOff < SizeOfBuffer
        /\ rd = Ahead(RdOff, n) /\ rd \in Nat /\ n + k < SizeOfBuffer
    BY <1>1, <1>2, RingAssumption DEF Offsets
  <2>. HIDE DEF n
  <2>. QED
    BY <2>1 DEF Offsets, Ahead
<1>4. more \in Seq(Byte) /\ Len(more) = k /\ \A i \in 1 .. k : more[i] = mem[Ahead(RdOff, n + i - 1)]
  BY <1>1, <1>3
<1>5. /\ buf' = buf \o more /\ room' = room - k
  BY DEF Fetch
<1>. HIDE DEF more
<1>6. buf' \in Seq(Byte) /\ Len(buf') = n + k
  BY <1>1, <1>4, <1>5, ConcatProperties
<1>7. ASSUME NEW i \in 1 .. n + k PROVE buf'[i] = mem[Ahead(RdOff, i - 1)]
  <2>1. CASE i <= n
    BY <1>1, <1>2, <1>4, <1>5, <2>1
  <2>2. CASE i > n
    <3>1. i - n \in 1 .. k /\ n + (i - n) - 1 = i - 1
      BY <1>2, <2>2
    <3>2. buf'[i] = more[i - n]
      BY <1>1, <1>2, <1>4, <1>5, <2>2, <3>1
    <3>. QED
      BY <1>4, <3>1, <3>2
  <2>3. i \in Nat /\ n \in Nat
    BY <1>2
  <2>. QED
    BY <2>1, <2>2, <2>3
<1>8. rd' \in Offsets
  <2>1. n + k \in 0 .. SizeOfBuffer - 1
    BY <1>2, RingAssumption
  <2>. QED
    BY <1>1, <2>1, OffsetFacts
<1>9. TakenFromRing'
  BY <1>2, <1>6, <1>7 DEF TakenFromRing, probe
<1>10. SentInRing'
  BY DEF DownInv, SentInRing, probe
<1>11. held' = held /\ typed' = typed
  BY DEF probe
<1>12. Maps
  <2>1. CASE k = 0
    <3>1. buf' = buf
      <4>1. buf \o more = buf
        BY <1>1, <1>4, <2>1, ConcatEmptySeq, EmptySeq
      <4>. QED
        BY <1>5, <4>1
    <3>. QED
      BY <1>11, <3>1 DEF Maps, Channel!vars
  <2>2. CASE k > 0
    <3>1. Len(held) = used /\ n + k \in n + 1 .. used
      BY <1>1, <1>2, <2>2, HeldBytes
    <3>2. buf' = SubSeq(held, 1, n + k)
      <4>1. /\ Len(buf') <= Used(RdOff, WrOff)
            /\ Lie(buf', mem, RdOff)
        BY <1>2, <1>6, <1>7 DEF Lie
      <4>2. buf' = SubSeq(Held(mem, RdOff, WrOff), 1, Len(buf'))
        BY <1>1, <1>6, <4>1, HeldFront
      <4>. QED
        BY <1>6, <4>2
    <3>3. Channel!Look
      BY <1>11, <3>1, <3>2 DEF Channel!Look
    <3>. QED
      BY <3>3 DEF Maps, Channel!Next
  <2>. QED
    BY <2>1, <2>2
<1>. QED
  BY <1>1, <1>5, <1>6, <1>8, <1>9, <1>10, <1>12

LEMMA WrapFacts == ASSUME NEW R \in Offsets, NEW W \in Offsets, R <= W PROVE Minus(W, R) = W - R
<1>1. /\ W - R \in Nat /\ W - R < Word /\ Word \in Nat
  BY RingAssumption, DownAssumption DEF Offsets
<1>. HIDE DEF Offsets
<1>2. (W - R + Word) % Word = W - R
  BY <1>1
<1>. QED
  BY <1>2 DEF Minus

LEMMA ReadTailStep == ASSUME DownInv, ReadTail PROVE DownInv' /\ Maps
<1>. DEFINE rem == Lesser(SizeOfBuffer - rd, room)
<1>1. /\ pc = "tail" /\ Fetch(rem) /\ rd' = Wrapped(rd + rem) /\ pc' = "front"
      /\ UNCHANGED <<RdOff, op, size, wr, ret, promised, probe>>
  BY DEF ReadTail
<1>2. /\ RdOff \in Offsets /\ WrOff \in Offsets /\ wr \in Offsets /\ room \in Nat
      /\ buf = <<>> /\ RdOff > wr /\ rd = Ahead(RdOff, Len(buf))
  BY <1>1 DEF DownInv, DownTypeOK, ReaderInStep, TakenFromRing
<1>3. Len(buf) = 0 /\ rd = RdOff
  BY <1>2, RingAssumption DEF Ahead, Offsets
<1>4. /\ rem \in Nat /\ rem <= SizeOfBuffer - rd /\ rem <= room
      /\ rem < SizeOfBuffer - rd => rem = room
  BY <1>2, <1>3, RingAssumption DEF Offsets, Lesser
<1>. HIDE DEF rem
<1>5. /\ Len(buf) + rem <= Used(RdOff, wr)
      /\ rd' = Ahead(RdOff, Len(buf) + rem)
      /\ rd + rem <= SizeOfBuffer
      /\ rd' = RdOff + rem \/ rd' = 0
      /\ rd' > wr => rem = room
  BY <1>1, <1>2, <1>3, <1>4, RingAssumption DEF Used, Offsets, Ahead, Wrapped
<1>6. /\ TakenFromRing' /\ Maps /\ SentInRing'
      /\ rd' \in Offsets /\ room' \in Nat /\ buf' \in Seq(Byte)
  BY <1>1, <1>4, <1>5, FetchStep
<1>7. room' = room - rem
  BY <1>1 DEF Fetch
<1>8. DownTypeOK'
  BY <1>1, <1>6 DEF DownInv, DownTypeOK, probe
<1>9. ReaderInStep'
  BY <1>1, <1>2, <1>4, <1>5, <1>6, <1>7 DEF ReaderInStep
<1>. QED
  BY <1>6, <1>8, <1>9 DEF DownInv

LEMMA FrontFits ==
  ASSUME DownInv, pc = "front"
  PROVE  LET rem == Lesser(Minus(wr, rd), room)
         IN  /\ rem \in Nat /\ rem <= room
             /\ Len(buf) + rem <= Used(RdOff, wr)
             /\ rd + rem < SizeOfBuffer
             /\ rd + rem = Ahead(RdOff, Len(buf) + rem)
             /\ rd < wr => rem = Lesser(wr - rd, room)
<1>. DEFINE rem == Lesser(Minus(wr, rd), room)
<1>1. /\ RdOff \in Offsets /\ WrOff \in Offsets /\ wr \in Offsets /\ room \in Nat /\ rd \in Offsets
      /\ rd = Ahead(RdOff, Len(buf)) /\ Len(buf) <= Used(RdOff, wr) /\ Len(buf) \in Nat
      /\ rd > wr => room = 0
  BY DEF DownInv, DownTypeOK, ReaderInStep, TakenFromRing
<1>2. /\ rem \in Nat /\ rem <= room
      /\ Len(buf) + rem <= Used(RdOff, wr)
      /\ rd + rem < SizeOfBuffer
      /\ rd + rem = Ahead(RdOff, Len(buf) + rem)
  <2>1. CASE rd <= wr
    <3>1. rem = Lesser(wr - rd, room)
      BY <1>1, <2>1, WrapFacts
    <3>2. rem \in Nat /\ rem <= room /\ rem <= wr - rd
      BY <1>1, <2>1, <3>1 DEF Lesser, Offsets
    <3>. HIDE DEF rem
    <3>. QED
      BY <1>1, <2>1, <3>2, RingAssumption DEF Used, Ahead, Offsets
  <2>2. CASE rd > wr
    <3>1. Minus(wr, rd) \in Nat
      <4>1. wr - rd + Word \in Int /\ Word \in Nat /\ Word > 0
        BY <1>1, DownAssumption, RingAssumption DEF Offsets
      <4>. QED
        BY <4>1 DEF Minus
    <3>2. rem = 0
      BY <1>1, <2>2, <3>1 DEF Lesser
    <3>. HIDE DEF rem
    <3>. QED
      BY <1>1, <3>2, RingAssumption DEF Used, Ahead, Offsets
  <2>. QED
    BY <1>1, <2>1, <2>2 DEF Offsets
<1>3. rd < wr => rem = Lesser(wr - rd, room)
  <2>1. rd < wr => rd <= wr
    BY <1>1 DEF Offsets
  <2>. QED
    BY <1>1, <2>1, WrapFacts
<1>. QED
  BY <1>2, <1>3

LEMMA ReadFrontStep == ASSUME DownInv, ReadFront PROVE DownInv' /\ Maps
<1>. DEFINE rem == Lesser(Minus(wr, rd), room)
<1>1. /\ pc = "front" /\ Fetch(rem) /\ rd' = rd + rem /\ pc' = "publish"
      /\ UNCHANGED <<RdOff, op, size, wr, ret, promised, probe>>
  BY DEF ReadFront
<1>2. /\ RdOff \in Offsets /\ WrOff \in Offsets /\ wr \in Offsets /\ room \in Nat /\ rd \in Offsets
      /\ rd = Ahead(RdOff, Len(buf)) /\ Len(buf) <= Used(RdOff, wr) /\ Len(buf) \in Nat
      /\ rd > wr => room = 0
  BY <1>1 DEF DownInv, DownTypeOK, ReaderInStep, TakenFromRing
<1>3. /\ rem \in Nat /\ rem <= room
      /\ Len(buf) + rem <= Used(RdOff, wr)
      /\ rd + rem < SizeOfBuffer
      /\ rd + rem = Ahead(RdOff, Len(buf) + rem)
  BY <1>1, FrontFits
<1>. HIDE DEF rem
<1>4. /\ TakenFromRing' /\ Maps /\ SentInRing'
      /\ rd' \in Offsets /\ room' \in Nat /\ buf' \in Seq(Byte)
  <2>1. rd + rem <= SizeOfBuffer
    BY <1>2, <1>3, RingAssumption DEF Offsets
  <2>. QED
    BY <1>1, <1>3, <2>1, FetchStep
<1>5. DownTypeOK'
  BY <1>1, <1>4 DEF DownInv, DownTypeOK, probe
<1>6. ReaderInStep'
  BY <1>1, <1>4 DEF ReaderInStep
<1>. QED
  BY <1>4, <1>5, <1>6 DEF DownInv

LEMMA ReadReturnsStep == ASSUME DownInv, ReadReturns PROVE DownInv' /\ Maps
<1>. DEFINE n    == Len(buf)
            used == Used(RdOff, WrOff)
            held == Held(mem, RdOff, WrOff)
<1>1. /\ RdOff \in Offsets /\ WrOff \in Offsets /\ mem \in [Offsets -> Byte] /\ rd \in Offsets
      /\ buf \in Seq(Byte) /\ wr \in Offsets /\ typed \in Seq(Byte) /\ sent \in Nat
      /\ rd = Ahead(RdOff, n) /\ n <= Used(RdOff, wr) /\ Used(RdOff, wr) <= used
  BY DEF ReadReturns, DownInv, DownTypeOK, ReaderInStep, TakenFromRing
<1>2. /\ pc' \in {"read", "idle"} /\ buf' = <<>> /\ rd' = 0 /\ wr' = 0 /\ room' \in 0 .. 1
      /\ RdOff' = IF buf # <<>> THEN rd ELSE RdOff
      /\ UNCHANGED <<op, size, probe>>
  BY DEF ReadReturns
<1>3. n \in 0 .. used /\ used \in 0 .. SizeOfBuffer - 1 /\ n <= SizeOfBuffer - 1
  <2>1. n \in Nat /\ used \in 0 .. SizeOfBuffer - 1 /\ Used(RdOff, wr) \in 0 .. SizeOfBuffer - 1
    BY <1>1, OffsetFacts
  <2>. QED
    BY <1>1, <2>1, RingAssumption
<1>4. RdOff' \in Offsets
  BY <1>1, <1>2
<1>5. DownTypeOK'
  <2>1. ret' \in -1 .. SizeOfBuffer /\ promised' \in BOOLEAN /\ 0 \in Offsets
    BY <1>3, RingAssumption DEF ReadReturns, Offsets, DownInv, DownTypeOK
  <2>. QED
    BY <1>2, <1>4, <2>1 DEF DownInv, DownTypeOK, probe
<1>6. ReaderInStep'
  BY <1>2 DEF ReaderInStep
<1>7. CASE buf = <<>>
  <2>1. UNCHANGED <<probe, RdOff, buf>>
    BY <1>2, <1>7
  <2>. QED
    BY <1>5, <1>6, <2>1, StillStep
<1>8. CASE buf # <<>>
  <2>1. RdOff' = Ahead(RdOff, n)
    BY <1>1, <1>2, <1>8
  <2>2. /\ Used(RdOff', WrOff) = used - n
        /\ GetAvailWriteSpace(RdOff', WrOff) = GetAvailWriteSpace(RdOff, WrOff) + n
        /\ Held(mem, RdOff', WrOff) = SubSeq(held, n + 1, used)
    <3>1. n \in 0 .. Used(RdOff, WrOff)
      BY <1>3
    <3>2. /\ Used(Ahead(RdOff, n), WrOff) = used - n
          /\ GetAvailWriteSpace(Ahead(RdOff, n), WrOff) = GetAvailWriteSpace(RdOff, WrOff) + n
          /\ Held(mem, Ahead(RdOff, n), WrOff) = SubSeq(held, n + 1, used)
      <4>. HIDE DEF n
      <4>. QED
        BY <1>1, <3>1, HeldShrinks, ZenonT(30)
    <3>. QED
      BY <2>1, <3>2
  <2>3. SentInRing'
    <3>1. GetAvailWriteSpace(RdOff, WrOff) \in Nat
      BY <1>1, OffsetFacts
    <3>2. sent <= GetAvailWriteSpace(RdOff', WrOff)
      BY <1>1, <1>3, <2>2, <3>1 DEF DownInv, SentInRing
    <3>. QED
      BY <1>2, <3>2 DEF DownInv, SentInRing, probe
  <2>4. Channel!Remove
    <3>1. Held(mem, RdOff, WrOff)' = SubSeq(held, n + 1, used) /\ Len(held) = used
      BY <1>1, <1>2, <2>2, HeldBytes DEF probe
    <3>. QED
      BY <1>2, <1>8, <3>1 DEF Channel!Remove, probe
  <2>. QED
    BY <1>5, <1>6, <2>3, <2>4 DEF DownInv, Maps, Channel!Next
<1>. QED
  BY <1>7, <1>8

-----------------------------------------------------------------------------
LEMMA DownStep == DownInv /\ [DownNext]_downVars => DownInv' /\ Maps
<1>. SUFFICES ASSUME DownInv, [DownNext]_downVars PROVE DownInv' /\ Maps
  OBVIOUS
<1>1. CASE UNCHANGED downVars
  <2>1. DownInv'
    BY <1>1 DEF downVars, reader, probe, DownInv, DownTypeOK, SentInRing, ReaderInStep, TakenFromRing
  <2>2. UNCHANGED Channel!vars
    BY <1>1 DEF downVars, reader, probe, Channel!vars
  <2>. QED
    BY <2>1, <2>2 DEF Maps
<1>2. CASE HasKey \/ HasData \/ Read \/ GetKey \/ WaitKey
  BY <1>2, CallStep
<1>3. CASE Reading
  BY <1>3, ReadOffsetsStep, ReadTailStep, ReadFrontStep, ReadReturnsStep DEF Reading
<1>4. CASE Probe
  BY <1>4, HostTypesStep, HostCopiesStep, HostPublishesStep DEF Probe
<1>. QED
  BY <1>1, <1>2, <1>3, <1>4 DEF DownNext

(* What the program reads from the down-buffer is what the host sent, in   *)
(* order and once, however program and probe interleave: SEGGER_RTT_Read   *)
(* and the key functions implement the channel.                            *)
THEOREM DownIsChannel == DownSpec => IsChannel
<1>1. DownInv /\ DownInv' /\ [DownNext]_downVars => [Channel!Next]_Channel!vars
  BY DownStep DEF Maps
<1>. QED
  BY <1>1, DownInitial, DownStep, PTL DEF DownSpec, IsChannel, Channel!Spec

-----------------------------------------------------------------------------
(* What HasKey and HasData promise *)

(* Since the promise the ring is not empty, so a reader with room that     *)
(* looked at it has copied a byte by the time it publishes.                *)
PromiseInv ==
  /\ promised => RdOff # WrOff
  /\ promised /\ pc = "front" => buf # <<>> \/ room = 0 \/ rd < wr
  /\ promised /\ pc = "publish" => buf # <<>> \/ room = 0

LEMMA EmptyRing == ASSUME NEW R \in Offsets PROVE Used(R, R) = 0 /\ Minus(R, R) = 0
<1>1. R \in Nat /\ Word \in Nat /\ Word > 0
  BY RingAssumption, DownAssumption DEF Offsets
<1>. QED
  BY <1>1 DEF Used, Minus

LEMMA FetchLength ==
  ASSUME DownInv, NEW k \in Nat, Fetch(k), rd + k <= SizeOfBuffer
  PROVE  Len(buf') = Len(buf) + k /\ room' = room - k
<1>. DEFINE more == [j \in 1 .. k |-> mem[rd + j - 1]]
<1>1. buf \in Seq(Byte) /\ mem \in [Offsets -> Byte] /\ rd \in Nat
  BY DEF DownInv, DownTypeOK, Offsets
<1>2. \A j \in 1 .. k : rd + j - 1 \in Offsets
  BY <1>1, RingAssumption DEF Offsets
<1>3. more \in Seq(Byte) /\ Len(more) = k
  BY <1>1, <1>2
<1>4. buf' = buf \o more /\ room' = room - k
  BY DEF Fetch
<1>. HIDE DEF more
<1>. QED
  BY <1>1, <1>3, <1>4, ConcatProperties

LEMMA PromiseStep == DownInv /\ PromiseInv /\ [DownNext]_downVars => PromiseInv'
<1>. SUFFICES ASSUME DownInv, PromiseInv, [DownNext]_downVars PROVE PromiseInv'
  OBVIOUS
<1>. USE DEF PromiseInv
<1>0. /\ RdOff \in Offsets /\ WrOff \in Offsets /\ rd \in Offsets /\ wr \in Offsets
      /\ room \in Nat /\ buf \in Seq(Byte) /\ Len(buf) \in Nat
  BY DEF DownInv, DownTypeOK
<1>1. CASE HasKey \/ HasData
  <2>1. /\ pc = "idle" /\ pc' = pc /\ UNCHANGED <<RdOff, WrOff>>
        /\ promised' => promised \/ RdOff # WrOff
    BY <1>0, <1>1, EmptyRing DEF HasKey, HasData, Ask, probe
  <2>. QED
    BY <2>1
<1>2. CASE Read \/ GetKey \/ WaitKey
  BY <1>2 DEF Read, GetKey, WaitKey, Start, probe
<1>3. CASE ReadOffsets
  BY <1>0, <1>3 DEF ReadOffsets, probe, Offsets
<1>4. CASE ReadTail
  <2>. DEFINE rem == Lesser(SizeOfBuffer - rd, room)
  <2>1. /\ Fetch(rem) /\ pc' = "front" /\ UNCHANGED <<RdOff, WrOff, promised>>
    BY <1>4 DEF ReadTail, probe
  <2>2. rem \in Nat /\ rd + rem <= SizeOfBuffer /\ (rem = 0 => room = 0)
    BY <1>0, RingAssumption DEF Lesser, Offsets
  <2>. HIDE DEF rem
  <2>3. Len(buf') = Len(buf) + rem /\ room' = room - rem
    BY <2>1, <2>2, FetchLength
  <2>4. buf' = <<>> => room' = 0
    BY <1>0, <2>2, <2>3
  <2>. QED
    BY <2>1, <2>4
<1>5. CASE ReadFront
  <2>. DEFINE rem == Lesser(Minus(wr, rd), room)
  <2>1. /\ pc = "front" /\ Fetch(rem) /\ pc' = "publish" /\ UNCHANGED <<RdOff, WrOff, promised>>
    BY <1>5 DEF ReadFront, probe
  <2>2. /\ rem \in Nat /\ rem <= room /\ rd + rem < SizeOfBuffer
        /\ rd < wr => rem = Lesser(wr - rd, room)
    BY <2>1, FrontFits
  <2>. HIDE DEF rem
  <2>3. Len(buf') = Len(buf) + rem /\ room' = room - rem
    <3>1. rd + rem <= SizeOfBuffer
      BY <1>0, <2>2, RingAssumption DEF Offsets
    <3>. QED
      BY <2>1, <2>2, <3>1, FetchLength
  <2>4. rd < wr /\ rem = 0 => room = 0
    BY <1>0, <2>2 DEF Lesser, Offsets
  <2>5. buf # <<>> => Len(buf) # 0
    BY <1>0, EmptySeq
  <2>6. promised /\ buf' = <<>> => room' = 0
    BY <1>0, <2>1, <2>2, <2>3, <2>4, <2>5
  <2>. QED
    BY <2>1, <2>6
<1>6. CASE ReadReturns
  BY <1>6 DEF ReadReturns, probe
<1>7. CASE HostTypes \/ HostCopies
  BY <1>7 DEF HostTypes, HostCopies, reader
<1>8. CASE HostPublishes
  <2>1. UNCHANGED reader /\ WrOff' = Ahead(WrOff, sent) /\ sent > 0
    BY <1>8 DEF HostPublishes
  <2>2. sent \in 0 .. GetAvailWriteSpace(RdOff, WrOff) /\ Used(RdOff, WrOff) \in Nat
    BY <1>0, OffsetFacts DEF DownInv, DownTypeOK, SentInRing
  <2>3. Used(RdOff, WrOff') = Used(RdOff, WrOff) + sent
    BY <1>0, <2>1, <2>2, AheadFacts
  <2>4. RdOff # WrOff'
    BY <1>0, <2>1, <2>2, <2>3, EmptyRing
  <2>. QED
    BY <2>1, <2>4 DEF reader
<1>9. CASE UNCHANGED downVars
  BY <1>9 DEF downVars, reader, probe
<1>. QED
  BY <1>1, <1>2, <1>3, <1>4, <1>5, <1>6, <1>7, <1>8, <1>9 DEF DownNext, Reading, Probe

(* After HasKey or HasData said that there is a byte, the next read that   *)
(* has room for one gets it.                                               *)
THEOREM PromiseIsKept == DownSpec => PromiseKept
<1>1. DownInit => PromiseInv
  BY DEF DownInit, PromiseInv
<1>2. DownInv /\ PromiseInv /\ [DownNext]_downVars =>
        [promised /\ pc = "publish" /\ pc' # pc /\ RdOff' = RdOff => room = 0]_downVars
  <2>. SUFFICES ASSUME DownInv, PromiseInv, DownNext,
                       promised, pc = "publish", pc' # pc, RdOff' = RdOff
                PROVE  room = 0
    OBVIOUS
  <2>1. ReadReturns
    BY DEF DownNext, HasKey, HasData, Read, GetKey, WaitKey, Ask, Start, Reading, ReadOffsets,
           ReadTail, ReadFront, Probe, HostTypes, HostCopies, HostPublishes, reader
  <2>2. /\ RdOff \in Offsets /\ WrOff \in Offsets /\ wr \in Offsets /\ buf \in Seq(Byte)
        /\ rd = Ahead(RdOff, Len(buf)) /\ Len(buf) <= Used(RdOff, wr)
    BY DEF DownInv, DownTypeOK, ReaderInStep, TakenFromRing
  <2>3. Len(buf) \in Nat /\ Used(RdOff, wr) \in 0 .. SizeOfBuffer - 1
    BY <2>2, OffsetFacts
  <2>4. ASSUME buf # <<>> PROVE FALSE
    <3>1. Len(buf) # 0
      BY <2>2, <2>4, EmptySeq
    <3>2. rd = RdOff
      BY <2>1, <2>4 DEF ReadReturns
    <3>. QED
      BY <2>2, <2>3, <3>1, <3>2, RingAssumption DEF Ahead, Offsets
  <2>. QED
    BY <2>4 DEF PromiseInv
<1>. QED
  BY <1>1, <1>2, DownInitial, DownStep, PromiseStep, PTL DEF DownSpec, PromiseKept
=============================================================================
