--------------------------- MODULE RttRingProofs ----------------------------
(***************************************************************************)
(* The ring of SEGGER_RTT.c, whatever its size and its contents: offsets   *)
(* that are counted ahead, the bytes held between them, and what a memcpy  *)
(* in one part or two and the moves of the offsets make of those.          *)
(***************************************************************************)
EXTENDS RttRing, SequenceTheorems, TLAPS

(* The bytes lie in the slots from offset off on. *)
Lie(bytes, m, off) == \A j \in 1 .. Len(bytes) : m[Ahead(off, j - 1)] = bytes[j]

(* The slots but for the first k from offset off on are in m2 what they    *)
(* are in m1.                                                              *)
SameButFirst(k, m1, m2, off) ==
  \A j \in k + 1 .. SizeOfBuffer : m2[Ahead(off, j - 1)] = m1[Ahead(off, j - 1)]

(* The slots from the one d ahead of off on are in m2 filled with the      *)
(* bytes, and the others as in m1.                                         *)
Filled(m2, m1, off, d, bytes) ==
  /\ \A j \in 1 .. Len(bytes) : m2[Ahead(off, d + j - 1)] = bytes[j]
  /\ \A j \in 1 .. SizeOfBuffer :
       j <= d \/ j > d + Len(bytes) => m2[Ahead(off, j - 1)] = m1[Ahead(off, j - 1)]

LEMMA OffsetFacts ==
  ASSUME NEW R \in Offsets, NEW W \in Offsets
  PROVE  /\ Used(R, W) \in 0 .. SizeOfBuffer - 1
         /\ Used(R, W) + GetAvailWriteSpace(R, W) = SizeOfBuffer - 1
         /\ GetAvailWriteSpace(R, W) \in 0 .. SizeOfBuffer - 1
         /\ \A k \in 0 .. SizeOfBuffer - 1 : Ahead(R, k) \in Offsets
BY RingAssumption DEF Offsets, Used, GetAvailWriteSpace, Ahead

(* Moving the write offset by k adds k bytes, moving the read offset drops *)
(* k, and the slots ahead of either are counted through.                   *)
LEMMA AheadFacts ==
  ASSUME NEW R \in Offsets, NEW W \in Offsets
  PROVE  /\ \A k \in 0 .. GetAvailWriteSpace(R, W) : Used(R, Ahead(W, k)) = Used(R, W) + k
         /\ \A k \in 0 .. Used(R, W) : Used(Ahead(R, k), W) = Used(R, W) - k
         /\ \A k, i \in 0 .. SizeOfBuffer - 1 :
              k + i < SizeOfBuffer => Ahead(Ahead(R, k), i) = Ahead(R, k + i)
         /\ \A i \in 0 .. SizeOfBuffer - 1 :
              i < GetAvailWriteSpace(R, W) => Ahead(R, Used(R, W) + i) = Ahead(W, i)
         /\ \A i \in 0 .. SizeOfBuffer - 1 :
              i < Used(R, W) => Ahead(W, SizeOfBuffer - Used(R, W) + i) = Ahead(R, i)
BY RingAssumption DEF Offsets, Used, GetAvailWriteSpace, Ahead

LEMMA HeldBytes ==
  ASSUME NEW R \in Offsets, NEW W \in Offsets, NEW m
  PROVE  /\ Len(Held(m, R, W)) = Used(R, W)
         /\ \A i \in 1 .. Used(R, W) : Held(m, R, W)[i] = m[Ahead(R, i - 1)]
<1>1. Used(R, W) \in Nat
  BY OffsetFacts
<1>. QED
  BY <1>1 DEF Held

LEMMA HeldType ==
  ASSUME NEW R \in Offsets, NEW W \in Offsets, NEW m
  PROVE  Held(m, R, W) \in Seq({m[off] : off \in Offsets})
<1>1. Used(R, W) \in Nat
  BY OffsetFacts
<1>2. ASSUME NEW i \in 1 .. Used(R, W) PROVE m[Ahead(R, i - 1)] \in {m[off] : off \in Offsets}
  <2>1. i - 1 \in 0 .. SizeOfBuffer - 1
    BY OffsetFacts, RingAssumption
  <2>2. Ahead(R, i - 1) \in Offsets
    BY <2>1, OffsetFacts
  <2>. QED
    BY <2>2
<1>. QED
  BY <1>1, <1>2 DEF Held

(* What the ring holds is read slot by slot, ...                           *)
LEMMA HeldFront ==
  ASSUME NEW R \in Offsets, NEW W \in Offsets, NEW m,
         NEW S, NEW bytes \in Seq(S), Len(bytes) <= Used(R, W),
         Lie(bytes, m, R)
  PROVE  bytes = SubSeq(Held(m, R, W), 1, Len(bytes))
<1>. DEFINE k == Len(bytes)  held == Held(m, R, W)  used == Used(R, W)
            Slot == {m[off] : off \in Offsets}
<1>1. k \in Nat /\ used \in Nat /\ k <= used
  BY OffsetFacts
<1>2. held \in Seq(Slot) /\ Len(held) = used /\ \A i \in 1 .. used : held[i] = m[Ahead(R, i - 1)]
  <2>1. held \in Seq(Slot)
    BY HeldType
  <2>2. Len(held) = used /\ \A i \in 1 .. used : held[i] = m[Ahead(R, i - 1)]
    BY HeldBytes
  <2>. QED
    BY <2>1, <2>2
<1>3. \A i \in 1 .. k : i \in 1 .. used
  BY <1>1
<1>4. \A i \in 1 .. k : held[i] \in Slot /\ bytes[i] = held[i]
  BY <1>2, <1>3 DEF Lie
<1>. HIDE DEF k, held, used, Slot
<1>5. /\ SubSeq(held, 1, k) \in Seq(Slot)
      /\ Len(SubSeq(held, 1, k)) = k
      /\ \A i \in 1 .. k : SubSeq(held, 1, k)[i] = held[i]
  BY <1>1, <1>4, SubSeqProperties
<1>6. Len(bytes) = k
  BY DEF k
<1>7. bytes = SubSeq(held, 1, k)
  BY <1>4, <1>5, <1>6, SeqEqual
<1>. QED
  BY <1>7 DEF k, held

(* ... stays what it is while those slots do, ...                          *)
LEMMA HeldSame ==
  ASSUME NEW R, NEW W, NEW m1, NEW m2,
         \A i \in 1 .. Used(R, W) : m2[Ahead(R, i - 1)] = m1[Ahead(R, i - 1)]
  PROVE  Held(m2, R, W) = Held(m1, R, W)
BY DEF Held

(* ... grows at its end by the bytes the write offset moves over, ...      *)
LEMMA HeldGrows ==
  ASSUME NEW R \in Offsets, NEW W \in Offsets, NEW m,
         NEW S, NEW bytes \in Seq(S), Len(bytes) <= GetAvailWriteSpace(R, W),
         Lie(bytes, m, W)
  PROVE  /\ Ahead(W, Len(bytes)) \in Offsets
         /\ Used(R, Ahead(W, Len(bytes))) = Used(R, W) + Len(bytes)
         /\ Held(m, R, Ahead(W, Len(bytes))) = Held(m, R, W) \o bytes
<1>. DEFINE k == Len(bytes)  used == Used(R, W)  space == GetAvailWriteSpace(R, W)
            old == Held(m, R, W)  new == Held(m, R, Ahead(W, k))
            Slot == {m[off] : off \in Offsets}
<1>1. /\ k \in Nat /\ k <= space
      /\ used \in 0 .. SizeOfBuffer - 1 /\ space \in 0 .. SizeOfBuffer - 1
      /\ used + space = SizeOfBuffer - 1
  BY OffsetFacts
<1>2. k \in 0 .. space /\ k \in 0 .. SizeOfBuffer - 1
  BY <1>1, RingAssumption
<1>3. Ahead(W, k) \in Offsets /\ Used(R, Ahead(W, k)) = used + k
  BY <1>2, OffsetFacts, AheadFacts
<1>4. old \in Seq(Slot) /\ Len(old) = used /\ \A i \in 1 .. used : old[i] = m[Ahead(R, i - 1)]
  <2>1. old \in Seq(Slot)
    BY HeldType
  <2>2. Len(old) = used /\ \A i \in 1 .. used : old[i] = m[Ahead(R, i - 1)]
    BY HeldBytes
  <2>. QED
    BY <2>1, <2>2
<1>5. /\ new \in Seq(Slot) /\ Len(new) = used + k
      /\ \A i \in 1 .. used + k : new[i] = m[Ahead(R, i - 1)]
  <2>1. /\ new \in Seq(Slot) /\ Len(new) = Used(R, Ahead(W, k))
        /\ \A i \in 1 .. Used(R, Ahead(W, k)) : new[i] = m[Ahead(R, i - 1)]
    BY <1>3, HeldBytes, HeldType
  <2>. QED
    BY <1>3, <2>1
<1>6. ASSUME NEW i \in 1 .. used + k PROVE new[i] = (old \o bytes)[i]
  <2>1. CASE i <= used
    BY <1>4, <1>5, <2>1
  <2>2. CASE i > used
    <3>1. i - 1 - used \in 0 .. SizeOfBuffer - 1 /\ i - 1 - used < space
      BY <1>1, <2>2
    <3>2. Ahead(R, used + (i - 1 - used)) = Ahead(W, i - 1 - used)
      BY <3>1, AheadFacts
    <3>3. used + (i - 1 - used) = i - 1 /\ (i - used) - 1 = i - 1 - used /\ i - used \in 1 .. k
      BY <1>1, <2>2
    <3>4. m[Ahead(W, (i - used) - 1)] = bytes[i - used]
      BY <3>3 DEF Lie
    <3>5. new[i] = bytes[i - used]
      BY <1>5, <3>2, <3>3, <3>4
    <3>6. (old \o bytes)[i] = bytes[i - used]
      BY <1>4, <2>2, <3>3
    <3>. QED
      BY <3>5, <3>6
  <2>3. i <= used \/ i > used
    <3>1. i \in Int /\ used \in Int
      BY <1>1
    <3>. HIDE DEF used
    <3>. QED
      BY <3>1
  <2>. QED
    BY <2>1, <2>2, <2>3
<1>7. /\ old \in Seq(Slot \union S) /\ bytes \in Seq(Slot \union S)
      /\ new \in Seq(Slot \union S)
  <2>1. Slot \subseteq Slot \union S /\ S \subseteq Slot \union S
    OBVIOUS
  <2>. HIDE DEF old, new, Slot
  <2>. QED
    BY <1>4, <1>5, <2>1, SeqMonotonic
<1>. HIDE DEF old, new, used, Slot
<1>8. old \o bytes \in Seq(Slot \union S) /\ Len(old \o bytes) = used + k
  BY <1>4, <1>7, ConcatProperties
<1>. HIDE DEF k
<1>9. new = old \o bytes
  BY <1>5, <1>6, <1>7, <1>8, SeqEqual
<1>. QED
  BY <1>3, <1>9 DEF old, new, used, k

(* ... and loses at its front those the read offset moves over.            *)
LEMMA HeldShrinks ==
  ASSUME NEW R \in Offsets, NEW W \in Offsets, NEW m, NEW k \in 0 .. Used(R, W)
  PROVE  /\ Ahead(R, k) \in Offsets
         /\ Used(Ahead(R, k), W) = Used(R, W) - k
         /\ GetAvailWriteSpace(Ahead(R, k), W) = GetAvailWriteSpace(R, W) + k
         /\ Held(m, Ahead(R, k), W) = SubSeq(Held(m, R, W), k + 1, Used(R, W))
<1>. DEFINE used == Used(R, W)  old == Held(m, R, W)  new == Held(m, Ahead(R, k), W)
            Slot == {m[off] : off \in Offsets}
<1>1. used \in 0 .. SizeOfBuffer - 1 /\ k \in 0 .. SizeOfBuffer - 1 /\ k <= used
  BY OffsetFacts, RingAssumption
<1>2. Ahead(R, k) \in Offsets /\ Used(Ahead(R, k), W) = used - k
  BY <1>1, OffsetFacts, AheadFacts
<1>3. GetAvailWriteSpace(Ahead(R, k), W) = GetAvailWriteSpace(R, W) + k
  <2>1. /\ Used(R, W) + GetAvailWriteSpace(R, W) = SizeOfBuffer - 1
        /\ GetAvailWriteSpace(R, W) \in 0 .. SizeOfBuffer - 1
    BY OffsetFacts
  <2>2. /\ Used(Ahead(R, k), W) + GetAvailWriteSpace(Ahead(R, k), W) = SizeOfBuffer - 1
        /\ GetAvailWriteSpace(Ahead(R, k), W) \in 0 .. SizeOfBuffer - 1
    BY <1>2, OffsetFacts
  <2>. QED
    BY <1>1, <1>2, <2>1, <2>2, RingAssumption
<1>4. old \in Seq(Slot) /\ Len(old) = used /\ \A i \in 1 .. used : old[i] = m[Ahead(R, i - 1)]
  BY HeldBytes, HeldType
<1>5. /\ new \in Seq(Slot) /\ Len(new) = used - k
      /\ \A i \in 1 .. used - k : new[i] = m[Ahead(Ahead(R, k), i - 1)]
  <2>1. /\ new \in Seq(Slot) /\ Len(new) = Used(Ahead(R, k), W)
        /\ \A i \in 1 .. Used(Ahead(R, k), W) : new[i] = m[Ahead(Ahead(R, k), i - 1)]
    BY <1>2, HeldBytes, HeldType
  <2>. QED
    BY <1>2, <2>1
<1>6. ASSUME NEW i \in 1 .. used - k PROVE new[i] = old[k + i]
  <2>1. i - 1 \in 0 .. SizeOfBuffer - 1 /\ k + (i - 1) < SizeOfBuffer
        /\ k + i \in 1 .. used /\ k + (i - 1) = (k + i) - 1
    BY <1>1, RingAssumption
  <2>2. Ahead(Ahead(R, k), i - 1) = Ahead(R, k + (i - 1))
    BY <1>1, <2>1, AheadFacts
  <2>. QED
    BY <1>4, <1>5, <2>1, <2>2
<1>. HIDE DEF old, new, used, Slot
<1>7. \A i \in k + 1 .. used : old[i] \in Slot
  <2>1. \A i \in k + 1 .. used : i \in 1 .. used
    BY <1>1
  <2>. QED
    BY <1>4, <2>1
<1>8. /\ SubSeq(old, k + 1, used) \in Seq(Slot)
      /\ Len(SubSeq(old, k + 1, used)) = used - k
      /\ \A i \in 1 .. used - k : SubSeq(old, k + 1, used)[i] = old[k + i]
  <2>1. k + 1 \in Int /\ used \in Int /\ used - (k + 1) + 1 = used - k
    BY <1>1, RingAssumption
  <2>2. /\ SubSeq(old, k + 1, used) \in Seq(Slot)
        /\ Len(SubSeq(old, k + 1, used)) = IF k + 1 <= used THEN used - (k + 1) + 1 ELSE 0
        /\ \A i \in 1 .. used - (k + 1) + 1 : SubSeq(old, k + 1, used)[i] = old[k + 1 + i - 1]
    BY <1>7, <2>1, SubSeqProperties
  <2>3. \A i \in 1 .. used - k : k + 1 + i - 1 = k + i
    BY <1>1, RingAssumption
  <2>4. Len(SubSeq(old, k + 1, used)) = used - k
    BY <1>1, <2>2, RingAssumption
  <2>. QED
    BY <2>1, <2>2, <2>3, <2>4
<1>9. new = SubSeq(old, k + 1, used)
  BY <1>5, <1>6, <1>8, SeqEqual
<1>. QED
  BY <1>2, <1>3, <1>9 DEF old, new, used

-----------------------------------------------------------------------------
(* Copies into the ring *)

LEMMA CopyType ==
  ASSUME NEW S, NEW off \in Offsets, NEW m \in [Offsets -> S], NEW bytes \in Seq(S)
  PROVE  Copy(m, off, bytes) \in [Offsets -> S]
<1>. DEFINE copied == Copy(m, off, bytes)
<1>1. off \in Nat /\ Len(bytes) \in Nat /\ \A i \in Offsets : i \in Nat
  BY RingAssumption DEF Offsets
<1>2. ASSUME NEW i \in Offsets PROVE copied[i] \in S
  <2>1. CASE off <= i /\ i < off + Len(bytes)
    <3>1. i - off + 1 \in 1 .. Len(bytes)
      BY <1>1, <2>1
    <3>2. copied[i] = bytes[i - off + 1]
      BY <2>1 DEF Copy
    <3>. QED
      BY <3>1, <3>2
  <2>2. CASE ~(off <= i /\ i < off + Len(bytes))
    BY <2>2 DEF Copy
  <2>. QED
    BY <2>1, <2>2
<1>3. copied = [i \in Offsets |-> copied[i]]
  BY DEF Copy
<1>. QED
  BY <1>2, <1>3

(* A memcpy that does not run over the end of the ring, to the slot d      *)
(* ahead of off, fills that slot and the next ones.                        *)
LEMMA CopyPart ==
  ASSUME NEW off \in Offsets, NEW m, NEW S, NEW bytes \in Seq(S),
         NEW d \in 0 .. SizeOfBuffer - 1,
         Ahead(off, d) + Len(bytes) <= SizeOfBuffer, d + Len(bytes) <= SizeOfBuffer
  PROVE  Filled(Copy(m, Ahead(off, d), bytes), m, off, d, bytes)
<1>. DEFINE at == Ahead(off, d)  n == Len(bytes)  copied == Copy(m, at, bytes)
<1>1. /\ at \in Offsets /\ n \in Nat /\ SizeOfBuffer \in Nat /\ off \in Nat /\ off < SizeOfBuffer
      /\ at \in Nat /\ at < SizeOfBuffer /\ d \in Nat /\ d < SizeOfBuffer
      /\ at + n <= SizeOfBuffer /\ d + n <= SizeOfBuffer
      /\ at = IF off + d < SizeOfBuffer THEN off + d ELSE off + d - SizeOfBuffer
  BY RingAssumption DEF Offsets, Ahead
<1>2. \A i \in Offsets : copied[i] = IF at <= i /\ i < at + n THEN bytes[i - at + 1] ELSE m[i]
  BY DEF Copy
<1>. HIDE DEF at, n, copied
<1>3. ASSUME NEW j \in 1 .. n PROVE copied[Ahead(off, d + j - 1)] = bytes[j]
  <2>1. Ahead(off, d + j - 1) = at + (j - 1)
    BY <1>1 DEF Ahead
  <2>2. at + (j - 1) \in Offsets /\ at <= at + (j - 1) /\ at + (j - 1) < at + n
        /\ at + (j - 1) - at + 1 = j
    BY <1>1 DEF Offsets
  <2>3. ASSUME NEW i \in Offsets, i = at + (j - 1) PROVE copied[i] = bytes[j]
    <3>1. at <= i /\ i < at + n /\ i - at + 1 = j
      BY <1>1, <2>3
    <3>2. copied[i] = bytes[i - at + 1]
      BY <1>2, <3>1
    <3>. QED
      BY <3>1, <3>2
  <2>. QED
    BY <2>1, <2>2, <2>3
<1>4. ASSUME NEW j \in 1 .. SizeOfBuffer, j <= d \/ j > d + n
      PROVE  copied[Ahead(off, j - 1)] = m[Ahead(off, j - 1)]
  <2>1. Ahead(off, j - 1) \in Offsets
    BY <1>1, OffsetFacts
  <2>2. ~(at <= Ahead(off, j - 1) /\ Ahead(off, j - 1) < at + n)
    BY <1>1, <1>4 DEF Ahead
  <2>. QED
    BY <1>2, <2>1, <2>2
<1>. QED
  BY <1>3, <1>4 DEF at, n, copied, Filled

(* Free slots are not held.                                                *)
LEMMA FreeSlots ==
  ASSUME NEW R \in Offsets, NEW W \in Offsets, NEW k \in 0 .. GetAvailWriteSpace(R, W),
         NEW m1, NEW m2,
         SameButFirst(k, m1, m2, W)
  PROVE  \A i \in 1 .. Used(R, W) : m2[Ahead(R, i - 1)] = m1[Ahead(R, i - 1)]
<1>. SUFFICES ASSUME NEW i \in 1 .. Used(R, W)
              PROVE  m2[Ahead(R, i - 1)] = m1[Ahead(R, i - 1)]
  OBVIOUS
<1>. DEFINE j == SizeOfBuffer - Used(R, W) + i
<1>1. /\ Used(R, W) \in 0 .. SizeOfBuffer - 1
      /\ GetAvailWriteSpace(R, W) \in 0 .. SizeOfBuffer - 1
      /\ Used(R, W) + GetAvailWriteSpace(R, W) = SizeOfBuffer - 1
  BY OffsetFacts
<1>2. /\ j \in k + 1 .. SizeOfBuffer
      /\ i - 1 \in 0 .. SizeOfBuffer - 1 /\ i - 1 < Used(R, W)
      /\ j - 1 = SizeOfBuffer - Used(R, W) + (i - 1)
  BY <1>1, RingAssumption
<1>3. Ahead(W, j - 1) = Ahead(R, i - 1)
  BY <1>2, AheadFacts
<1>4. m2[Ahead(W, j - 1)] = m1[Ahead(W, j - 1)]
  BY <1>2 DEF SameButFirst
<1>. QED
  BY <1>3, <1>4

(* Bytes copied in two parts, up to the end of the ring and from its       *)
(* start, lie in the slots ahead of off; the others are as they were.      *)
LEMMA CopyFacts ==
  ASSUME NEW S, NEW off \in Offsets, NEW m \in [Offsets -> S], NEW bytes \in Seq(S),
         NEW n \in 1 .. SizeOfBuffer - 1, n <= Len(bytes)
  PROVE  LET straight == Lesser(SizeOfBuffer - off, n)
             copied   == Copy(Copy(m, off, SubSeq(bytes, 1, straight)),
                              0, SubSeq(bytes, straight + 1, n))
         IN  /\ copied \in [Offsets -> S]
             /\ \A j \in 1 .. n : copied[Ahead(off, j - 1)] = bytes[j]
             /\ SameButFirst(n, m, copied, off)
<1>. DEFINE straight == Lesser(SizeOfBuffer - off, n)
            first    == SubSeq(bytes, 1, straight)
            rest     == SubSeq(bytes, straight + 1, n)
            copied   == Copy(Copy(m, off, first), 0, rest)
<1>1. straight \in 1 .. n /\ straight <= SizeOfBuffer - off
      /\ (straight < n => straight = SizeOfBuffer - off)
  BY RingAssumption DEF Offsets, Lesser
<1>2. \A i \in 1 .. n : bytes[i] \in S
  OBVIOUS
<1>. HIDE DEF straight
<1>3. /\ Len(first) = straight /\ first \in Seq(S)
      /\ \A i \in 1 .. straight : first[i] = bytes[i]
  BY <1>1, <1>2, SubSeqProperties
<1>4. /\ Len(rest) = n - straight /\ rest \in Seq(S)
      /\ \A i \in 1 .. n - straight : rest[i] = bytes[straight + i]
  <2>1. \A i \in straight + 1 .. n : bytes[i] \in S
    BY <1>1, <1>2
  <2>2. /\ rest \in Seq(S)
        /\ Len(rest) = IF straight + 1 <= n THEN n - (straight + 1) + 1 ELSE 0
        /\ \A i \in 1 .. n - (straight + 1) + 1 : rest[i] = bytes[straight + 1 + i - 1]
    BY <1>1, <2>1, SubSeqProperties
  <2>. QED
    BY <1>1, <2>2
<1>. HIDE DEF first, rest
<1>5. \A i \in Offsets : copied[i] =
        IF i < n - straight THEN bytes[straight + i + 1]
        ELSE IF off <= i /\ i < off + straight THEN bytes[i - off + 1] ELSE m[i]
  BY <1>1, <1>3, <1>4 DEF Copy, Offsets
<1>6. copied \in [Offsets -> S]
  <2>1. copied = [i \in Offsets |-> copied[i]]
    BY DEF Copy
  <2>2. \A i \in Offsets : copied[i] \in S
    BY <1>1, <1>2, <1>5 DEF Offsets
  <2>. QED
    BY <2>1, <2>2
<1>. HIDE DEF copied
<1>7. ASSUME NEW j \in 1 .. n PROVE copied[Ahead(off, j - 1)] = bytes[j]
  <2>1. CASE off + (j - 1) < SizeOfBuffer
    <3>1. Ahead(off, j - 1) = off + (j - 1)
      BY <2>1 DEF Ahead
    <3>2. /\ off + (j - 1) \in Offsets
          /\ ~(off + (j - 1) < n - straight)
          /\ off <= off + (j - 1) /\ off + (j - 1) < off + straight
          /\ off + (j - 1) - off + 1 = j
      BY <1>1, <2>1, RingAssumption DEF Offsets
    <3>. DEFINE s == off + (j - 1)
    <3>3. /\ Ahead(off, j - 1) = s /\ s \in Offsets /\ ~(s < n - straight)
          /\ off <= s /\ s < off + straight /\ s - off + 1 = j
      BY <3>1, <3>2
    <3>. HIDE DEF s
    <3>4. copied[s] = bytes[s - off + 1]
      BY <1>5, <3>3
    <3>. QED
      BY <3>3, <3>4
  <2>2. CASE ~(off + (j - 1) < SizeOfBuffer)
    <3>1. Ahead(off, j - 1) = off + (j - 1) - SizeOfBuffer
      BY <2>2 DEF Ahead
    <3>2. /\ off + (j - 1) - SizeOfBuffer \in Offsets
          /\ off + (j - 1) - SizeOfBuffer < n - straight
          /\ straight + (off + (j - 1) - SizeOfBuffer) + 1 = j
      BY <1>1, <2>2, RingAssumption DEF Offsets
    <3>. QED
      BY <1>1, <1>5, <3>1, <3>2
  <2>. QED
    BY <2>1, <2>2
<1>8. ASSUME NEW j \in n + 1 .. SizeOfBuffer
      PROVE  copied[Ahead(off, j - 1)] = m[Ahead(off, j - 1)]
  <2>1. CASE off + (j - 1) < SizeOfBuffer
    <3>1. Ahead(off, j - 1) = off + (j - 1)
      BY <2>1 DEF Ahead
    <3>2. /\ off + (j - 1) \in Offsets
          /\ ~(off + (j - 1) < n - straight)
          /\ ~(off + (j - 1) < off + straight)
      BY <1>1, <2>1, RingAssumption DEF Offsets
    <3>. QED
      BY <1>1, <1>5, <3>1, <3>2
  <2>2. CASE ~(off + (j - 1) < SizeOfBuffer)
    <3>1. Ahead(off, j - 1) = off + (j - 1) - SizeOfBuffer
      BY <2>2 DEF Ahead
    <3>2. /\ off + (j - 1) - SizeOfBuffer \in Offsets
          /\ ~(off + (j - 1) - SizeOfBuffer < n - straight)
          /\ ~(off <= off + (j - 1) - SizeOfBuffer)
      BY <1>1, <2>2, RingAssumption DEF Offsets
    <3>. QED
      BY <1>1, <1>5, <3>1, <3>2
  <2>. QED
    BY <2>1, <2>2
<1>. QED
  BY <1>6, <1>7, <1>8 DEF straight, copied, first, rest, SameButFirst
=============================================================================
