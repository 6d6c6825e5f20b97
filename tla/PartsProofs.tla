----------------------------- MODULE PartsProofs -----------------------------
(***************************************************************************)
(* What the parts that share no state with one another promise, each       *)
(* proved of its own specification: main's two endings, the time that      *)
(* nand_wait_busy takes, the owners of RTT's buffers, the log that         *)
(* overwrites its oldest bytes and the capacity that onfi_print computes.  *)
(***************************************************************************)
EXTENDS RttBuffers, RttOverwrite, WaitBusy, MainProgram, OnfiPrint, RttRingProofs

(* main, for any number of sectors and any flash an earlier program left.  *)
MainTypeOK ==
  /\ main_pc \in {"init", "first_resume", "write", "resume", "read", "success", "mismatch", "exit"}
  /\ i \in 0 .. test_sectors
  /\ flash \in [Sectors -> SectorValues]
  /\ map \in [Sectors -> SectorValues]
  /\ dhara_test_buf \in SectorValues
  /\ shown \subseteq {"init", "sync", "resume"}

(* The map in RAM holds what has been written; the flash holds it all from *)
(* a sync that did not fail on; the map that is read back is the flash's.  *)
MainInv ==
  /\ MainTypeOK
  /\ main_pc = "write" => \A s \in 0 .. i - 1 : map[s] = s
  /\ main_pc = "resume" /\ "sync" \notin shown => \A s \in Sectors : flash[s] = s
  /\ main_pc = "read" /\ "resume" \notin shown => map = flash
  /\ main_pc = "read" /\ "resume" \in shown => map = NoMap
  /\ main_pc = "read" /\ shown \cap {"sync", "resume"} = {} =>
       \A s \in Sectors : flash[s] = s
  /\ main_pc = "read" => \A s \in 0 .. i - 1 : map[s] = s
  /\ main_pc \in {"first_resume", "write"} => shown \cap {"sync", "resume"} = {}
  /\ main_pc = "resume" => "resume" \notin shown
  /\ main_pc = "init" => shown = {}
  /\ SuccessIsDurable
  /\ MismatchAnnounced

LEMMA MainInitial == MainInit => MainInv
BY MainAssumption
   DEF MainInit, MainInv, MainTypeOK, NoMap, SectorValues, Sectors, Blank,
       SuccessIsDurable, MismatchAnnounced

LEMMA SectorFacts ==
  /\ test_sectors \in Nat
  /\ Sectors = 0 .. test_sectors - 1
  /\ Sectors \subseteq SectorValues
  /\ NoMap \in [Sectors -> SectorValues]
  /\ \A s \in Sectors : NoMap[s] = Blank /\ s # Blank
  /\ Blank \in SectorValues
BY MainAssumption DEF Sectors, SectorValues, NoMap, Blank

LEMMA MainStep == MainInv /\ [MainNext]_mainVars => MainInv'
<1>. SUFFICES ASSUME MainInv, [MainNext]_mainVars
              PROVE  MainInv'
  OBVIOUS
<1>. USE SectorFacts DEF MainInv, MainTypeOK, SuccessIsDurable, MismatchAnnounced
<1>1. CASE InitDevice
  <2>1. shown' \subseteq {"init"} /\ main_pc' = "first_resume"
    BY <1>1 DEF InitDevice, Show
  <2>2. UNCHANGED <<i, flash, map, dhara_test_buf>>
    BY <1>1 DEF InitDevice
  <2>3. shown' \subseteq {"init", "sync", "resume"} /\ shown' \cap {"sync", "resume"} = {}
    BY <2>1
  <2>. QED
    BY <2>1, <2>2, <2>3
<1>2. CASE FirstResume
  BY <1>2 DEF FirstResume
<1>3. CASE Write
  <2>1. main_pc = "write" /\ UNCHANGED <<led, shown>> /\ i \in Sectors
    BY <1>3, SectorFacts DEF Write
  <2>2. CASE /\ map' = [map EXCEPT ![i] = i] /\ flash' \in {flash, map'}
             /\ i' = i + 1 /\ main_pc' = main_pc /\ dhara_test_buf' = i
    BY <2>1, <2>2
  <2>3. CASE /\ main_pc' = "exit" /\ flash' \in {flash, map} /\ UNCHANGED <<map, i>>
             /\ dhara_test_buf' = i
    BY <2>1, <2>3
  <2>. QED
    BY <1>3, <2>2, <2>3 DEF Write, seq_gen
<1>4. CASE Sync
  BY <1>4 DEF Sync, Show
<1>5. CASE Resume
  <2>1. i' = 0 /\ main_pc' = "read" /\ UNCHANGED <<flash, dhara_test_buf>>
    BY <1>5 DEF Resume, Show
  <2>2. CASE map' = flash /\ shown' = shown
    BY <1>5, <2>1, <2>2 DEF Resume
  <2>3. CASE map' = NoMap /\ shown' = shown \union {"resume"}
    BY <1>5, <2>1, <2>3 DEF Resume
  <2>. QED
    BY <1>5, <2>2, <2>3 DEF Resume, Show
<1>6. CASE ReadBack
  BY <1>6 DEF ReadBack, seq_gen
<1>7. CASE Success
  BY <1>7 DEF Success
<1>8. CASE MainRestart
  BY <1>8 DEF MainRestart
<1>9. CASE UNCHANGED mainVars
  BY <1>9 DEF mainVars
<1>. QED
  BY <1>1, <1>2, <1>3, <1>4, <1>5, <1>6, <1>7, <1>8, <1>9 DEF MainNext, main

(* "Success!" is only said of a flash that holds every sequence, and the   *)
(* hang of a mismatch is never the first sign that something failed.       *)
THEOREM MainCorrect == MainSpec => [](SuccessIsDurable /\ MismatchAnnounced)
<1>1. MainInv => SuccessIsDurable /\ MismatchAnnounced
  BY DEF MainInv
<1>. QED
  BY <1>1, MainInitial, MainStep, PTL DEF MainSpec

-----------------------------------------------------------------------------
(* nand_wait_busy, for every delay, timeout, transfer time and chip.        *)

LEMMA WaitTimes ==
  /\ POLL_DELAY_US \in Nat /\ POLL_DELAY_US > 0
  /\ \A u \in Timeouts : u \in Nat /\ u > 0
  /\ \A t \in Transfers : t \in Nat
  /\ \A l \in Late : l \in Nat
BY WaitAssumption

(* The count has gone down by no more than the time that has passed, and   *)
(* busy is what the last poll has seen.                                    *)
Counted ==
  /\ wait_pc # "idle" => timeout_us - timeout_count <= now
  /\ wait_pc \in {"poll", "delay"} => timeout_count > 0
  /\ wait_pc = "delay" => busy
  /\ wait_pc = "check" => IF busy THEN timeout_count <= 0 ELSE now >= ready_at

WaitInv == WaitTypeOK /\ Counted /\ SuccessIsReady /\ NoEarlyTimeout

LEMMA WaitInitial == WaitInit => WaitInv
<1>. SUFFICES ASSUME WaitInit
              PROVE  WaitInv
  OBVIOUS
<1>1. WaitTypeOK
  <2>1. timeout_us \in Nat /\ timeout_us > 0
    BY WaitTimes DEF WaitInit
  <2>2. timeout_count \in Int /\ timeout_count > -POLL_DELAY_US
    BY <2>1, WaitTimes DEF WaitInit
  <2>. QED
    BY <2>2 DEF WaitInit, WaitTypeOK, WaitResults
<1>2. Counted
  BY DEF WaitInit, Counted
<1>3. SuccessIsReady /\ NoEarlyTimeout
  BY DEF WaitInit, SuccessIsReady, NoEarlyTimeout
<1>. QED
  BY <1>1, <1>2, <1>3 DEF WaitInv

LEMMA WaitStep == WaitInv /\ [WaitNext]_waitVars => WaitInv'
<1>. SUFFICES ASSUME WaitInv, [WaitNext]_waitVars
              PROVE  WaitInv'
  OBVIOUS
<1>. USE WaitTimes
     DEF WaitInv, WaitTypeOK, WaitResults, Counted, SuccessIsReady, NoEarlyTimeout
<1>1. CASE Called
  <2>1. ready_at' \in Nat
    BY <1>1, WaitAssumption DEF Called
  <2>. QED
    BY <1>1, <2>1 DEF Called
<1>2. CASE GetFeatures
  <2>1. PICK t \in Transfers : now' = now + t
    BY <1>2 DEF GetFeatures
  <2>2. now' \in Nat /\ now' >= now
    BY <2>1
  <2>3. CASE now' < ready_at /\ busy' = TRUE /\ wait_pc' = "delay" /\ UNCHANGED wait_result
    BY <1>2, <2>2, <2>3 DEF GetFeatures
  <2>4. CASE now' >= ready_at /\ busy' = FALSE /\ wait_pc' = "check" /\ UNCHANGED wait_result
    <3>1. ~busy' /\ busy' \in BOOLEAN
      BY <2>4
    <3>2. Counted'
      BY <1>2, <2>2, <2>4, <3>1 DEF GetFeatures
    <3>3. WaitTypeOK'
      BY <1>2, <2>2, <2>4, <3>1 DEF GetFeatures
    <3>. QED
      BY <1>2, <2>4, <3>2, <3>3 DEF GetFeatures
  <2>5. CASE wait_result' = "ERROR" /\ wait_pc' = "idle" /\ UNCHANGED busy
    BY <1>2, <2>2, <2>5 DEF GetFeatures
  <2>. QED
    BY <1>2, <2>3, <2>4, <2>5 DEF GetFeatures
<1>3. CASE Delay
  BY <1>3 DEF Delay
<1>4. CASE CheckTimeout
  BY <1>4 DEF CheckTimeout
<1>5. CASE UNCHANGED waitVars
  BY <1>5 DEF waitVars
<1>. QED
  BY <1>1, <1>2, <1>3, <1>4, <1>5 DEF WaitNext

(* nand_wait_busy never reports success of a chip that is busy, and gives  *)
(* up no sooner than timeout_us after the call.                            *)
THEOREM WaitCorrect == WaitSpec => [](WaitTypeOK /\ SuccessIsReady /\ NoEarlyTimeout)
<1>1. WaitInv => WaitTypeOK /\ SuccessIsReady /\ NoEarlyTimeout
  BY DEF WaitInv
<1>. QED
  BY <1>1, WaitInitial, WaitStep, PTL DEF WaitSpec

-----------------------------------------------------------------------------
(* The missing last poll *)

(* Every poll so far has taken at least T, and every delay its own time.   *)
(* "waited" is the delays' share, a multiple of the delay.                 *)
waited == timeout_us - timeout_count

Slow(T) ==
  /\ wait_pc = "poll" => POLL_DELAY_US * now >= (POLL_DELAY_US + T) * waited
  /\ wait_pc = "delay" =>
       /\ POLL_DELAY_US * now >= (POLL_DELAY_US + T) * waited + POLL_DELAY_US * T
       /\ now < ready_at
  /\ wait_pc = "check" /\ busy =>
       \E polled \in Nat :
         /\ polled < ready_at
         /\ POLL_DELAY_US * (polled + POLL_DELAY_US) >= (POLL_DELAY_US + T) * waited

LEMMA NoDifference == \A x \in Nat : x - x = 0
OBVIOUS

LEMMA PollTakes ==
  ASSUME NEW D \in Nat, NEW T \in Nat, NEW w \in Int, NEW n \in Nat, NEW t \in Nat,
         t >= T, D * n >= (D + T) * w
  PROVE  D * (n + t) >= (D + T) * w + D * T
<1>1. D * t >= D * T
  OBVIOUS
<1>2. D * (n + t) = D * n + D * t
  OBVIOUS
<1>. QED
  BY <1>1, <1>2

LEMMA DelayTakes ==
  ASSUME NEW D \in Nat, NEW T \in Nat, NEW w \in Int, NEW n \in Nat,
         D * n >= (D + T) * w + D * T
  PROVE  D * (n + D) >= (D + T) * (w + D)
<1>1. D * (n + D) = D * n + D * D
  OBVIOUS
<1>2. (D + T) * (w + D) = (D + T) * w + D * D + D * T
  OBVIOUS
<1>. QED
  BY <1>1, <1>2

(* Enough polls make up for the delay that no poll follows. *)
LEMMA LastPollLate ==
  ASSUME NEW D \in Nat, NEW T \in Nat, NEW w \in Nat, NEW u \in Nat, NEW n \in Nat,
         D > 0, w >= u, T * u >= D * D, D * (n + D) >= (D + T) * w
  PROVE  n >= u
<1>1. (D + T) * w >= (D + T) * u
  OBVIOUS
<1>2. (D + T) * u = D * u + T * u
  OBVIOUS
<1>3. D * (n + D) = D * n + D * D
  OBVIOUS
<1>4. D * n >= D * u
  BY <1>1, <1>2, <1>3
<1>. QED
  BY <1>4

(* If a wait's polls take, T each, at least a delay's time altogether, no  *)
(* chip that is ready within timeout_us is reported as timed out, although *)
(* no poll follows the last delay.                                         *)
THEOREM InTimeCorrect ==
  ASSUME NEW T \in Nat,
         \A t \in Transfers : t >= T,
         \A u \in Timeouts : T * u >= POLL_DELAY_US * POLL_DELAY_US
  PROVE  WaitSpec => []InTime
<1>1. WaitInit => Slow(T) /\ InTime
  BY DEF WaitInit, Slow, InTime
<1>2. ASSUME WaitInv, Slow(T), InTime, [WaitNext]_waitVars
      PROVE  (Slow(T) /\ InTime)'
  <2>. USE WaitTimes, <1>2 DEF WaitInv, WaitTypeOK, WaitResults, waited
  <2>1. CASE Called
    <3>1. ready_at' \in Nat
      BY <2>1, WaitAssumption DEF Called
    <3>2. timeout_us' \in Nat /\ timeout_count' = timeout_us'
      BY <2>1 DEF Called
    <3>3. waited' = 0
      BY <3>2, NoDifference
    <3>4. POLL_DELAY_US * 0 = 0 /\ (POLL_DELAY_US + T) * 0 = 0
      OBVIOUS
    <3>5. now' = 0 /\ wait_pc' = "poll"
      BY <2>1 DEF Called
    <3>. HIDE DEF waited
    <3>. QED
      BY <3>3, <3>4, <3>5 DEF Called, Slow, InTime
  <2>2. CASE GetFeatures
    <3>1. PICK t \in Transfers : now' = now + t
      BY <2>2 DEF GetFeatures
    <3>2. POLL_DELAY_US * now' >= (POLL_DELAY_US + T) * waited + POLL_DELAY_US * T
      BY <2>2, <3>1, PollTakes DEF GetFeatures, Slow
    <3>3. waited' = waited
      BY <2>2 DEF GetFeatures
    <3>. QED
      BY <2>2, <3>1, <3>2, <3>3 DEF GetFeatures, Slow, InTime
  <2>3. CASE Delay
    <3>1. PICK l \in Late : now' = now + POLL_DELAY_US + l
      BY <2>3 DEF Delay
    <3>2. waited' = waited + POLL_DELAY_US
      BY <2>3 DEF Delay
    <3>3. POLL_DELAY_US * (now + POLL_DELAY_US) >= (POLL_DELAY_US + T) * waited'
      BY <2>3, <3>2, DelayTakes DEF Delay, Slow
    <3>4. POLL_DELAY_US * now' >= POLL_DELAY_US * (now + POLL_DELAY_US)
      BY <3>1
    <3>5. POLL_DELAY_US * now' >= (POLL_DELAY_US + T) * waited'
      BY <3>1, <3>2, <3>3, <3>4
    <3>6. CASE wait_pc' = "poll"
      BY <2>3, <3>5, <3>6 DEF Delay, Slow, InTime
    <3>7. CASE wait_pc' = "check"
      BY <2>3, <3>3, <3>7 DEF Delay, Slow, InTime
    <3>. QED
      BY <2>3, <3>6, <3>7 DEF Delay
  <2>4. CASE CheckTimeout
    <3>1. CASE busy /\ timeout_count <= 0
      <4>1. PICK polled \in Nat :
              /\ polled < ready_at
              /\ POLL_DELAY_US * (polled + POLL_DELAY_US) >= (POLL_DELAY_US + T) * waited
        BY <2>4, <3>1 DEF CheckTimeout, Slow
      <4>2. waited \in Nat /\ waited >= timeout_us
        BY <3>1
      <4>3. polled >= timeout_us
        BY <4>1, <4>2, LastPollLate
      <4>. QED
        BY <2>4, <4>1, <4>3 DEF CheckTimeout, Slow, InTime
    <3>. QED
      BY <2>4 DEF CheckTimeout, Slow, InTime
  <2>5. CASE UNCHANGED waitVars
    BY <2>5 DEF waitVars, Slow, InTime
  <2>. QED
    BY <2>1, <2>2, <2>3, <2>4, <2>5 DEF WaitNext
<1>. QED
  BY <1>1, <1>2, WaitInitial, WaitStep, PTL DEF WaitSpec

-----------------------------------------------------------------------------
(* The buffers' owners, for any number of buffers in either direction.     *)

BuffersTypeOK ==
  /\ ring \in [Slots -> [pBuffer : {"static", "NULL"} \union Contexts, flags : Flags \union {0}]]
  /\ lock \in Contexts \union {"none"}
  /\ buf_pc \in [Contexts -> {"idle", "range", "search", "set"}]
  /\ call \in [Contexts -> Requests \union {NoCall}]
  /\ BufferIndex \in [Contexts -> Nat]
  /\ granted \in [Contexts -> SUBSET Slots]

Slot(c) == <<call[c].dir, BufferIndex[c]>>

(* The call takes a slot for good. *)
Takes(c) == call[c].op = "Alloc" \/ (call[c].op = "Config" /\ BufferIndex[c] > 0)

(* Whoever is past its range check holds the lock, so that two contexts    *)
(* are never both there.                                                   *)
LockHeld ==
  /\ \A c \in Contexts : buf_pc[c] \in {"search", "set"} => lock = c
  /\ lock = "main" => buf_pc["main"] \in {"search", "set"} /\ buf_pc["interrupt"] = "idle"

Served ==
  \A c \in Contexts :
    /\ buf_pc[c] # "idle" => call[c] \in Requests
    /\ buf_pc[c] # "idle" /\ call[c].op = "Alloc" => call[c].i = 0
    /\ buf_pc[c] = "search" => call[c].op = "Alloc"
    /\ buf_pc[c] = "set" /\ call[c].op = "Config" => BufferIndex[c] = call[c].i

(* What is about to be taken is free. *)
Free == \A c \in Contexts : buf_pc[c] = "set" /\ Takes(c) => ring[Slot(c)].pBuffer = "NULL"

(* No search begins before the buffers chosen by index are taken ... *)
ChosenTaken ==
  \A c \in Contexts : buf_pc[c] # "idle" /\ call[c].op = "Alloc" =>
    \A b \in ByIndex[call[c].dir] : ring[<<call[c].dir, b>>].pBuffer # "NULL"

(* ... by the program, each once. *)
ChosenFree ==
  \A c \in Contexts :
    buf_pc[c] # "idle" /\ call[c].op = "Config" /\ call[c].i \in Indices(call[c].dir) \ {0} =>
      /\ c = "main" /\ call[c].i \in ByIndex[call[c].dir]
      /\ ring[<<call[c].dir, call[c].i>>].pBuffer = "NULL"

BuffersInv ==
  /\ BuffersTypeOK
  /\ InArray
  /\ LockHeld
  /\ Served
  /\ Free
  /\ ChosenTaken
  /\ ChosenFree
  /\ OneOwner

LEMMA SlotFacts ==
  /\ MaxNum \in [Directions -> Nat \ {0}]
  /\ \A d \in Directions : ByIndex[d] \subseteq Indices(d) \ {0}
  /\ \A d \in Directions : \A b \in Indices(d) : <<d, b>> \in Slots
  /\ \A d \in Directions : Indices(d) \subseteq Nat
  /\ \A s \in Slots : \E d \in Directions : \E b \in Indices(d) : s = <<d, b>>
BY BuffersAssumption DEF Slots, Indices

LEMMA BuffersInitial == BuffersInit => BuffersInv
BY SlotFacts
   DEF BuffersInit, BuffersInv, BuffersTypeOK, InArray, OneOwner, Contexts, LockHeld, Served,
       Free, ChosenTaken, ChosenFree

LEMMA BeginStep == ASSUME BuffersInv, NEW c \in Contexts, Begin(c) PROVE BuffersInv'
<1>1. PICK k \in Requests : Allowed(c, k) /\ call' = [call EXCEPT ![c] = k]
  BY DEF Begin
<1>2. buf_pc[c] = "idle" /\ Runs(c) /\ ~Masked(c)
  BY DEF Begin
<1>3. buf_pc' = [buf_pc EXCEPT ![c] = "range"] /\ UNCHANGED <<ring, lock, BufferIndex, granted>>
  BY DEF Begin
<1>4. BuffersTypeOK'
  BY <1>1, <1>3 DEF BuffersInv, BuffersTypeOK
<1>. USE <1>4 DEF BuffersInv, BuffersTypeOK, Contexts
<1>5. InArray'
  BY <1>1, <1>3 DEF InArray
<1>6. LockHeld'
  BY <1>2, <1>3 DEF LockHeld, Masked, Runs
<1>7. Served'
  BY <1>1, <1>3 DEF Served, Allowed
<1>8. Free'
  BY <1>1, <1>3 DEF Free, Takes, Slot
<1>9. ChosenTaken'
  BY <1>1, <1>3 DEF ChosenTaken, Allowed
<1>10. ChosenFree'
  <2>1. k.dir \in Directions
    BY DEF Requests
  <2>2. ASSUME k.op = "Config", k.i \in Indices(k.dir) \ {0}
        PROVE  c = "main" /\ k.i \in ByIndex[k.dir] /\ ring[<<k.dir, k.i>>].pBuffer = "NULL"
    BY <1>1, <2>1, <2>2, SlotFacts DEF Allowed
  <2>. QED
    BY <1>1, <1>3, <2>2 DEF ChosenFree
<1>11. OneOwner'
  BY <1>3 DEF OneOwner
<1>. QED
  BY <1>5, <1>6, <1>7, <1>8, <1>9, <1>10, <1>11

(* A call that returns without having changed the ring. *)
LEMMA ReturnStep ==
  ASSUME BuffersInv, NEW c \in Contexts, Return(c), Runs(c), buf_pc[c] \in {"range", "search"},
         UNCHANGED <<ring, granted>>
  PROVE  BuffersInv'
<1>1. /\ lock' = "none"
      /\ buf_pc' = [buf_pc EXCEPT ![c] = "idle"]
      /\ call' = [call EXCEPT ![c] = NoCall]
      /\ BufferIndex' = [BufferIndex EXCEPT ![c] = 0]
  BY DEF Return
<1>2. BuffersTypeOK'
  BY <1>1 DEF BuffersInv, BuffersTypeOK, Contexts
<1>3. \A d \in Contexts : d # c => buf_pc[d] \notin {"search", "set"}
  BY DEF BuffersInv, LockHeld, Runs, Contexts, BuffersTypeOK
<1>. USE <1>1, <1>2 DEF BuffersInv, BuffersTypeOK, Contexts
<1>4. InArray' /\ LockHeld'
  BY <1>3 DEF InArray, LockHeld
<1>5. Served' /\ Free'
  BY <1>3 DEF Served, Free, Takes, Slot
<1>6. ChosenTaken' /\ ChosenFree'
  BY DEF ChosenTaken, ChosenFree
<1>7. OneOwner'
  BY DEF OneOwner
<1>. QED
  BY <1>4, <1>5, <1>6, <1>7

LEMMA LockStep == ASSUME BuffersInv, NEW c \in Contexts, Lock(c) PROVE BuffersInv'
<1>1. CASE call[c].op # "Alloc" /\ call[c].i \notin Indices(call[c].dir)
  BY <1>1, ReturnStep DEF Lock
<1>2. CASE ~(call[c].op # "Alloc" /\ call[c].i \notin Indices(call[c].dir))
  <2>1. /\ lock' = c /\ UNCHANGED <<call, ring, granted>>
        /\ BufferIndex' = [BufferIndex EXCEPT ![c] = call[c].i]
        /\ buf_pc' = [buf_pc EXCEPT ![c] = IF call[c].op = "Alloc" THEN "search" ELSE "set"]
        /\ buf_pc[c] = "range" /\ Runs(c)
    BY <1>2 DEF Lock
  <2>2. call[c] \in Requests /\ call[c].i \in Nat /\ call[c].dir \in Directions
    BY <2>1 DEF BuffersInv, Served, Requests, Passed
  <2>3. \A d \in Contexts : d # c => buf_pc[d] \notin {"search", "set"}
    BY <2>1 DEF BuffersInv, LockHeld, Runs, Contexts, BuffersTypeOK
  <2>4. BuffersTypeOK'
    BY <2>1, <2>2 DEF BuffersInv, BuffersTypeOK
  <2>. USE <2>1, <2>2, <2>4 DEF BuffersInv, BuffersTypeOK, Contexts
  <2>5. LockHeld'
    BY <2>3 DEF LockHeld, Runs
  <2>6. Served'
    BY DEF Served
  <2>7. InArray'
    <3>1. BufferIndex'[c] \in Indices(call[c].dir)
      BY <1>2, SlotFacts DEF Served, Indices
    <3>. QED
      BY <2>3, <3>1 DEF InArray
  <2>8. Free'
    <3>1. ASSUME call[c].op = "Config", call[c].i > 0
          PROVE  ring[<<call[c].dir, call[c].i>>].pBuffer = "NULL"
      BY <1>2, <3>1 DEF ChosenFree
    <3>. QED
      BY <2>3, <3>1 DEF Free, Takes, Slot
  <2>9. ChosenTaken' /\ ChosenFree'
    BY DEF ChosenTaken, ChosenFree
  <2>10. OneOwner'
    BY DEF OneOwner
  <2>. QED
    BY <2>5, <2>6, <2>7, <2>8, <2>9, <2>10
<1>. QED
  BY <1>1, <1>2

LEMMA SearchStep == ASSUME BuffersInv, NEW c \in Contexts, Search(c) PROVE BuffersInv'
<1>. DEFINE d == call[c].dir
            b == BufferIndex[c]
<1>1. buf_pc[c] = "search" /\ Runs(c) /\ UNCHANGED <<ring, granted>>
  BY DEF Search
<1>2. /\ lock = c /\ b \in Indices(d) /\ d \in Directions /\ b \in Nat
      /\ call[c].op = "Alloc" /\ call[c] \in Requests
  BY <1>1, SlotFacts DEF BuffersInv, LockHeld, InArray, Served, Requests, Contexts
<1>3. \A e \in Contexts : e # c => buf_pc[e] \notin {"search", "set"}
  BY <1>1 DEF BuffersInv, LockHeld, Runs, Contexts, BuffersTypeOK
<1>4. CASE ring[<<d, b>>].pBuffer = "NULL"
  <2>1. buf_pc' = [buf_pc EXCEPT ![c] = "set"] /\ UNCHANGED <<lock, call, BufferIndex>>
    BY <1>4 DEF Search
  <2>2. BuffersTypeOK'
    BY <1>1, <2>1 DEF BuffersInv, BuffersTypeOK
  <2>. USE <1>1, <1>2, <1>3, <2>1, <2>2 DEF BuffersInv, BuffersTypeOK, Contexts
  <2>3. LockHeld' /\ InArray' /\ Served'
    BY DEF LockHeld, InArray, Served
  <2>4. Free'
    BY <1>4 DEF Free, Takes, Slot
  <2>5. ChosenTaken' /\ ChosenFree' /\ OneOwner'
    BY DEF ChosenTaken, ChosenFree, OneOwner
  <2>. QED
    BY <2>3, <2>4, <2>5
<1>5. CASE ring[<<d, b>>].pBuffer # "NULL" /\ b + 1 < MaxNum[d]
  <2>1. BufferIndex' = [BufferIndex EXCEPT ![c] = b + 1] /\ UNCHANGED <<lock, buf_pc, call>>
    BY <1>5 DEF Search
  <2>2. BuffersTypeOK'
    BY <1>1, <1>2, <2>1 DEF BuffersInv, BuffersTypeOK
  <2>3. b + 1 \in Indices(d)
    BY <1>2, <1>5, SlotFacts DEF Indices
  <2>. USE <1>1, <1>2, <1>3, <2>1, <2>2 DEF BuffersInv, BuffersTypeOK, Contexts
  <2>4. LockHeld' /\ InArray' /\ Served'
    BY <2>3 DEF LockHeld, InArray, Served
  <2>5. Free'
    BY DEF Free, Takes, Slot
  <2>6. ChosenTaken' /\ ChosenFree' /\ OneOwner'
    BY DEF ChosenTaken, ChosenFree, OneOwner
  <2>. QED
    BY <2>4, <2>5, <2>6
<1>6. CASE ring[<<d, b>>].pBuffer # "NULL" /\ ~(b + 1 < MaxNum[d])
  <2>1. Return(c)
    BY <1>6 DEF Search
  <2>. QED
    BY <1>1, <2>1, ReturnStep
<1>. QED
  BY <1>4, <1>5, <1>6

LEMMA SetStep == ASSUME BuffersInv, NEW c \in Contexts, Set(c) PROVE BuffersInv'
<1>. DEFINE s == Slot(c)
<1>1. /\ buf_pc[c] = "set" /\ Runs(c)
      /\ ring' = [ring EXCEPT ![s] =
                     [pBuffer |-> IF Takes(c) THEN c ELSE @.pBuffer,
                      flags   |-> IF call[c].op = "SetName" THEN @.flags ELSE call[c].flags]]
      /\ granted' = IF Takes(c) THEN [granted EXCEPT ![c] = @ \union {s}] ELSE granted
      /\ lock' = "none"
      /\ buf_pc' = [buf_pc EXCEPT ![c] = "idle"]
      /\ call' = [call EXCEPT ![c] = NoCall]
      /\ BufferIndex' = [BufferIndex EXCEPT ![c] = 0]
  BY DEF Set, Return, Takes, Slot
<1>2. /\ BufferIndex[c] \in Indices(call[c].dir) /\ call[c].dir \in Directions
      /\ call[c] \in Requests /\ call[c].flags \in Flags
  BY <1>1 DEF BuffersInv, InArray, Served, Requests
<1>3. s \in Slots
  BY <1>2, SlotFacts DEF Slot
<1>4. \A e \in Contexts : e # c => buf_pc[e] \notin {"search", "set"}
  BY <1>1 DEF BuffersInv, LockHeld, Runs, Contexts, BuffersTypeOK
<1>5. BuffersTypeOK'
  <2>. DEFINE new == [pBuffer |-> IF Takes(c) THEN c ELSE ring[s].pBuffer,
                      flags   |-> IF call[c].op = "SetName" THEN ring[s].flags ELSE call[c].flags]
  <2>1. ring[s] \in [pBuffer : {"static", "NULL"} \union Contexts, flags : Flags \union {0}]
    BY <1>3 DEF BuffersInv, BuffersTypeOK
  <2>2. new \in [pBuffer : {"static", "NULL"} \union Contexts, flags : Flags \union {0}]
    BY <1>2, <2>1
  <2>3. ring' = [ring EXCEPT ![s] = new]
    BY <1>1, <1>3, <2>1 DEF BuffersInv, BuffersTypeOK
  <2>. HIDE DEF s, new
  <2>4. ring' \in [Slots -> [pBuffer : {"static", "NULL"} \union Contexts, flags : Flags \union {0}]]
    BY <2>2, <2>3 DEF BuffersInv, BuffersTypeOK
  <2>5. granted' \in [Contexts -> SUBSET Slots]
    BY <1>1, <1>3 DEF BuffersInv, BuffersTypeOK
  <2>6. call' \in [Contexts -> Requests \union {NoCall}]
    BY <1>1 DEF BuffersInv, BuffersTypeOK
  <2>7. /\ lock' \in Contexts \union {"none"}
        /\ buf_pc' \in [Contexts -> {"idle", "range", "search", "set"}]
        /\ BufferIndex' \in [Contexts -> Nat]
    BY <1>1 DEF BuffersInv, BuffersTypeOK
  <2>. QED
    BY <2>4, <2>5, <2>6, <2>7 DEF BuffersTypeOK
<1>6. \A t \in Slots : ring'[t].pBuffer = IF t = s /\ Takes(c) THEN c ELSE ring[t].pBuffer
  BY <1>1, <1>3 DEF BuffersInv, BuffersTypeOK
<1>7. Takes(c) => ring[s].pBuffer = "NULL"
  BY <1>1 DEF BuffersInv, Free
<1>. HIDE DEF s
<1>8. InArray' /\ LockHeld' /\ Served' /\ Free'
  BY <1>1, <1>4, <1>5 DEF BuffersInv, BuffersTypeOK, InArray, LockHeld, Served, Free, Contexts
<1>9. ChosenTaken'
  BY <1>1, <1>6, SlotFacts DEF BuffersInv, BuffersTypeOK, ChosenTaken, Contexts, Served, Requests
<1>10. OneOwner'
  BY <1>1, <1>3, <1>6, <1>7 DEF BuffersInv, BuffersTypeOK, OneOwner, Contexts
<1>11. ChosenFree'
  <2>. SUFFICES ASSUME NEW e \in Contexts, buf_pc'[e] # "idle", call'[e].op = "Config",
                       call'[e].i \in Indices(call'[e].dir) \ {0}
                PROVE  /\ e = "main" /\ call'[e].i \in ByIndex[call'[e].dir]
                       /\ ring'[<<call'[e].dir, call'[e].i>>].pBuffer = "NULL"
    BY DEF ChosenFree
  <2>1. e # c /\ buf_pc[e] # "idle" /\ call'[e] = call[e]
    BY <1>1 DEF BuffersInv, BuffersTypeOK
  <2>. DEFINE t == <<call[e].dir, call[e].i>>
  <2>2. /\ e = "main" /\ call[e].i \in ByIndex[call[e].dir]
        /\ ring[t].pBuffer = "NULL"
    BY <2>1 DEF BuffersInv, ChosenFree
  <2>3. call[e].dir \in Directions /\ t \in Slots
    BY <2>1, SlotFacts DEF BuffersInv, Served, Requests
  <2>4. c = "interrupt"
    BY <2>1, <2>2 DEF Contexts
  <2>5. ~(t = s /\ Takes(c))
    <3>. SUFFICES ASSUME t = s, Takes(c) PROVE FALSE
      OBVIOUS
    <3>1. call[c].dir = call[e].dir /\ BufferIndex[c] = call[e].i
      BY DEF s, Slot
    <3>2. CASE call[c].op = "Alloc"
      BY <1>1, <2>2, <3>1, <3>2 DEF BuffersInv, ChosenTaken
    <3>3. CASE call[c].op = "Config" /\ BufferIndex[c] > 0
      <4>1. call[c].i \in Indices(call[c].dir) \ {0}
        BY <1>1, <1>2, <3>3 DEF BuffersInv, Served
      <4>. QED
        BY <1>1, <2>4, <3>3, <4>1 DEF BuffersInv, ChosenFree
    <3>. QED
      BY <3>2, <3>3 DEF Takes
  <2>. QED
    BY <1>6, <2>1, <2>2, <2>3, <2>5
<1>. QED
  BY <1>5, <1>8, <1>9, <1>10, <1>11 DEF BuffersInv

LEMMA BuffersStep == BuffersInv /\ [BuffersNext]_buffersVars => BuffersInv'
<1>. SUFFICES ASSUME BuffersInv, [BuffersNext]_buffersVars PROVE BuffersInv'
  OBVIOUS
<1>1. ASSUME NEW c \in Contexts, Begin(c) \/ Lock(c) \/ Search(c) \/ Set(c) PROVE BuffersInv'
  BY <1>1, BeginStep, LockStep, SearchStep, SetStep
<1>2. CASE UNCHANGED buffersVars
  BY <1>2 DEF buffersVars, BuffersInv, BuffersTypeOK, InArray, LockHeld, Served, Free, Takes,
              Slot, ChosenTaken, ChosenFree, OneOwner
<1>. QED
  BY <1>1, <1>2 DEF BuffersNext

(* Whatever the interrupt interrupts, a buffer granted to the program or   *)
(* to it stays with the one it was granted to, and every access made under *)
(* the lock is inside the array.                                           *)
THEOREM BuffersCorrect == BuffersSpec => [](InArray /\ OneOwner)
<1>1. BuffersInv => InArray /\ OneOwner
  BY DEF BuffersInv
<1>. QED
  BY <1>1, BuffersInitial, BuffersStep, PTL DEF BuffersSpec

-----------------------------------------------------------------------------
(* The log that overwrites its oldest bytes, for every size of the ring,   *)
(* every text and every prefix that a probe has read.                      *)

(* The last bytes of new are those still to be copied, and the ones before *)
(* them lie in the ring already.  The copy ends where new ends.            *)
Filling(m, R, W, bytes, new) ==
  /\ Len(new) <= SizeOfBuffer - 1
  /\ Ahead(R, Len(new)) = Ahead(W, Len(bytes))
  /\ \A k \in 1 .. Len(new) :
       IF k + Len(bytes) <= Len(new) THEN new[k] = m[Ahead(R, k - 1)]
                                     ELSE new[k] = bytes[k + Len(bytes) - Len(new)]

(* The call will have wrapped around at most once. *)
WrapsOnce ==
  \/ wraps = 0 /\ log_WrOff + Len(left) < 2 * SizeOfBuffer - 1
  \/ wraps = 1 /\ Len(left) < SizeOfBuffer - 1

LogTypeOK ==
  /\ log_mem \in [Offsets -> Letters] /\ log_RdOff \in Offsets /\ log_WrOff \in Offsets
  /\ left \in Seq(Letters) /\ newest \in Seq(Letters)
  /\ Avail \in Nat /\ wraps \in Nat /\ log_pc \in {"idle", "copy"}

LogInv ==
  /\ LogTypeOK
  /\ log_pc = "copy" /\ wraps = 0 => Avail = SizeOfBuffer - log_WrOff
  /\ log_pc = "copy" /\ wraps # 0 => Avail = SizeOfBuffer - 1 /\ log_WrOff = 0
  /\ log_pc = "copy" /\ WrapsOnce => Filling(log_mem, log_RdOff, log_WrOff, left, newest)
  /\ KeepsNewest

LEMMA LastFacts ==
  ASSUME NEW S, NEW bytes \in Seq(S), NEW k \in Nat
  PROVE  LET most == Lesser(k, Len(bytes))
         IN  /\ Last(bytes, k) \in Seq(S) /\ Len(Last(bytes, k)) = most
             /\ \A j \in 1 .. most : Last(bytes, k)[j] = bytes[Len(bytes) - most + j]
<1>. DEFINE most == Lesser(k, Len(bytes))  len == Len(bytes)  from == len - most + 1
<1>1. len \in Nat /\ most \in 0 .. len
  BY DEF Lesser
<1>2. \A j \in 1 .. len : bytes[j] \in S
  OBVIOUS
<1>3. Last(bytes, k) = SubSeq(bytes, from, len)
  BY DEF Last
<1>. HIDE DEF most, len
<1>4. from \in Int /\ from >= 1 /\ len - from + 1 = most
  BY <1>1
<1>. HIDE DEF from
<1>5. \A j \in from .. len : bytes[j] \in S
  BY <1>1, <1>2, <1>4
<1>6. /\ SubSeq(bytes, from, len) \in Seq(S)
      /\ Len(SubSeq(bytes, from, len)) = IF from <= len THEN len - from + 1 ELSE 0
      /\ \A j \in 1 .. len - from + 1 : SubSeq(bytes, from, len)[j] = bytes[from + j - 1]
  BY <1>1, <1>4, <1>5, SubSeqProperties
<1>7. Len(SubSeq(bytes, from, len)) = most
  BY <1>1, <1>4, <1>6
<1>8. ASSUME NEW j \in 1 .. most PROVE SubSeq(bytes, from, len)[j] = bytes[len - most + j]
  <2>1. from + j - 1 = len - most + j
    BY <1>1 DEF from
  <2>. QED
    BY <1>4, <1>6, <2>1
<1>. QED
  BY <1>3, <1>6, <1>7, <1>8 DEF most, len

(* One memcpy, up to the end of the ring at the most.                      *)
LEMMA ChunkCopied ==
  ASSUME NEW R \in Offsets, NEW W \in Offsets, NEW m \in [Offsets -> Letters],
         NEW bytes \in Seq(Letters), NEW new \in Seq(Letters), NEW c \in Nat,
         c <= Len(bytes), W + c <= SizeOfBuffer, W + Len(bytes) < 2 * SizeOfBuffer,
         Filling(m, R, W, bytes, new)
  PROVE  Filling(Copy(m, W, SubSeq(bytes, 1, c)), R, Wrapped(W + c),
                 SubSeq(bytes, c + 1, Len(bytes)), new)
<1>. DEFINE len == Len(bytes)  N == Len(new)  chunk == SubSeq(bytes, 1, c)
            rest == SubSeq(bytes, c + 1, len)  copied == Copy(m, W, chunk)
<1>1. /\ len \in Nat /\ N \in Nat /\ N <= SizeOfBuffer - 1 /\ SizeOfBuffer \in Nat
      /\ R \in Nat /\ R < SizeOfBuffer /\ W \in Nat /\ W < SizeOfBuffer
  BY RingAssumption DEF Filling, Offsets
<1>2. \A j \in 1 .. len : bytes[j] \in Letters
  OBVIOUS
<1>3. /\ Ahead(R, N) = Ahead(W, len)
      /\ \A k \in 1 .. N : IF k + len <= N THEN new[k] = m[Ahead(R, k - 1)]
                                           ELSE new[k] = bytes[k + len - N]
  BY DEF Filling
<1>. HIDE DEF len, N
<1>4. Len(chunk) = c /\ \A j \in 1 .. c : chunk[j] = bytes[j]
  <2>1. \A j \in 1 .. c : bytes[j] \in Letters
    BY <1>1, <1>2 DEF len
  <2>. QED
    BY <1>1, <2>1, SubSeqProperties
<1>5. Len(rest) = len - c /\ \A j \in 1 .. len - c : rest[j] = bytes[c + j]
  <2>1. \A j \in c + 1 .. len : bytes[j] \in Letters
    BY <1>1, <1>2
  <2>2. /\ Len(rest) = IF c + 1 <= len THEN len - (c + 1) + 1 ELSE 0
        /\ \A j \in 1 .. len - (c + 1) + 1 : rest[j] = bytes[c + 1 + j - 1]
    BY <1>1, <2>1, SubSeqProperties
  <2>3. len - (c + 1) + 1 = len - c /\ \A j \in 1 .. len - c : c + 1 + j - 1 = c + j
    BY <1>1
  <2>4. c <= len
    BY DEF len
  <2>. QED
    BY <1>1, <2>2, <2>3, <2>4
<1>6. \A o \in Offsets : copied[o] = IF W <= o /\ o < W + c THEN bytes[o - W + 1] ELSE m[o]
  <2>1. \A o \in Offsets : copied[o] = IF W <= o /\ o < W + c THEN chunk[o - W + 1] ELSE m[o]
    BY <1>4 DEF Copy
  <2>2. ASSUME NEW o \in Offsets, W <= o, o < W + c PROVE chunk[o - W + 1] = bytes[o - W + 1]
    <3>1. o - W + 1 \in 1 .. c
      BY <1>1, <2>2 DEF Offsets
    <3>. QED
      BY <1>4, <3>1
  <2>. QED
    BY <2>1, <2>2
<1>. HIDE DEF chunk, rest, copied
<1>7. c <= len /\ W + len < 2 * SizeOfBuffer
  BY DEF len
<1>8. Ahead(R, N) = Ahead(Wrapped(W + c), len - c)
  BY <1>1, <1>3, <1>7 DEF Ahead, Wrapped
<1>9. ASSUME NEW k \in 1 .. N
      PROVE  IF k + (len - c) <= N THEN new[k] = copied[Ahead(R, k - 1)]
                                   ELSE new[k] = rest[k + (len - c) - N]
  <2>1. Ahead(R, k - 1) \in Offsets
    BY <1>1 DEF Ahead, Offsets
  <2>2. CASE k + len <= N
    <3>1. ~(W <= Ahead(R, k - 1) /\ Ahead(R, k - 1) < W + c) /\ k + (len - c) <= N
      BY <1>1, <1>3, <1>7, <2>2 DEF Ahead
    <3>. QED
      BY <1>3, <1>6, <2>1, <2>2, <3>1
  <2>3. CASE ~(k + len <= N) /\ k + (len - c) <= N
    <3>1. /\ W <= Ahead(R, k - 1) /\ Ahead(R, k - 1) < W + c
          /\ Ahead(R, k - 1) - W + 1 = k + len - N
      BY <1>1, <1>3, <1>7, <2>3 DEF Ahead
    <3>. QED
      BY <1>3, <1>6, <2>1, <2>3, <3>1
  <2>4. CASE ~(k + (len - c) <= N)
    <3>1. /\ k + (len - c) - N \in 1 .. len - c
          /\ c + (k + (len - c) - N) = k + len - N /\ ~(k + len <= N)
      BY <1>1, <1>7, <2>4
    <3>. QED
      BY <1>3, <1>5, <2>4, <3>1
  <2>. QED
    BY <2>2, <2>3, <2>4
<1>. QED
  BY <1>1, <1>5, <1>8, <1>9 DEF Filling, len, N, rest, chunk, copied

(* When nothing is left, the ring holds it all.                            *)
LEMMA CopyEnds ==
  ASSUME NEW R \in Offsets, NEW W \in Offsets, NEW m \in [Offsets -> Letters],
         NEW bytes, NEW new \in Seq(Letters), Len(bytes) = 0, Filling(m, R, W, bytes, new)
  PROVE  Held(m, R, W) = new
<1>. DEFINE N == Len(new)  held == Held(m, R, W)
<1>1. /\ N \in Nat /\ N <= SizeOfBuffer - 1 /\ SizeOfBuffer \in Nat /\ SizeOfBuffer > 1
      /\ R \in Nat /\ R < SizeOfBuffer /\ W \in Nat /\ W < SizeOfBuffer
  BY RingAssumption DEF Filling, Offsets
<1>2. Ahead(R, N) = Ahead(W, 0) /\ \A k \in 1 .. N : k + 0 <= N => new[k] = m[Ahead(R, k - 1)]
  BY DEF Filling
<1>. HIDE DEF N
<1>3. Used(R, W) = N
  BY <1>1, <1>2 DEF Used, Ahead
<1>4. \A k \in 1 .. N : k + 0 <= N
  BY <1>1
<1>5. Len(held) = N /\ \A k \in 1 .. N : held[k] = new[k]
  <2>1. Len(held) = Used(R, W) /\ \A k \in 1 .. Used(R, W) : held[k] = m[Ahead(R, k - 1)]
    BY HeldBytes
  <2>. HIDE DEF held
  <2>. QED
    BY <1>2, <1>3, <1>4, <2>1
<1>6. held \in Seq(Letters)
  <2>1. \A o \in Offsets : m[o] \in Letters
    OBVIOUS
  <2>2. {m[o] : o \in Offsets} \subseteq Letters
    BY <2>1
  <2>3. held \in Seq({m[o] : o \in Offsets})
    BY HeldType
  <2>. HIDE DEF held
  <2>. QED
    BY <2>2, <2>3, SeqMonotonic
<1>. HIDE DEF held
<1>7. held = new
  BY <1>1, <1>5, <1>6, SeqEqual DEF N
<1>. QED
  BY <1>7 DEF held

LEMMA LogInitial == LogInit => LogInv
<1>. SUFFICES ASSUME LogInit PROVE LogInv
  OBVIOUS
<1>1. log_RdOff = 0 /\ log_WrOff = 0 /\ 0 \in Offsets /\ log_pc = "idle" /\ newest = <<>>
  BY RingAssumption DEF LogInit, Offsets
<1>2. LogTypeOK
  BY <1>1 DEF LogInit, LogTypeOK
<1>3. Used(log_RdOff, log_WrOff) = 0
  BY <1>1, RingAssumption DEF Used
<1>4. Held(log_mem, log_RdOff, log_WrOff) = newest
  <2>1. Len(Held(log_mem, log_RdOff, log_WrOff)) = 0
    BY <1>1, <1>3, HeldBytes
  <2>2. Held(log_mem, log_RdOff, log_WrOff) \in Seq({log_mem[o] : o \in Offsets})
    BY <1>1, HeldType
  <2>3. Held(log_mem, log_RdOff, log_WrOff) = <<>>
    BY <2>1, <2>2, EmptySeq
  <2>. QED
    BY <1>1, <2>3
<1>. QED
  BY <1>1, <1>2, <1>4 DEF LogInv, KeepsNewest

LEMMA Modulus ==
  ASSUME NEW a \in Nat, a < 2 * SizeOfBuffer
  PROVE  a % SizeOfBuffer = IF a < SizeOfBuffer THEN a ELSE a - SizeOfBuffer
<1>1. SizeOfBuffer \in Nat /\ SizeOfBuffer > 1
  BY RingAssumption
<1>2. CASE a < SizeOfBuffer
  BY <1>1, <1>2
<1>3. CASE a >= SizeOfBuffer
  BY <1>1, <1>3
<1>. QED
  BY <1>1, <1>2, <1>3

LEMMA AdjustStep == ASSUME LogInv, Adjust PROVE LogInv'
<1>. DEFINE held == Held(log_mem, log_RdOff, log_WrOff)  used == Used(log_RdOff, log_WrOff)
            free == GetAvailWriteSpace(log_RdOff, log_WrOff)
<1>1. PICK bytes \in Texts :
        /\ left' = bytes
        /\ log_RdOff' = (IF Len(bytes) > free
                         THEN (log_RdOff + (Len(bytes) - free)) % SizeOfBuffer ELSE log_RdOff)
        /\ newest' = Last(held \o bytes, SizeOfBuffer - 1)
  BY DEF Adjust
<1>2. /\ Avail' = SizeOfBuffer - log_WrOff /\ wraps' = 0 /\ log_pc' = "copy"
      /\ UNCHANGED <<log_mem, log_WrOff>>
  BY DEF Adjust
<1>3. /\ log_mem \in [Offsets -> Letters] /\ log_RdOff \in Offsets /\ log_WrOff \in Offsets
      /\ bytes \in Seq(Letters)
  BY OverwriteAssumption DEF LogInv, LogTypeOK
<1>. DEFINE len == Len(bytes)  T == held \o bytes  N == Len(newest')
<1>4. /\ SizeOfBuffer \in Nat /\ SizeOfBuffer > 1 /\ len \in Nat
      /\ log_RdOff \in Nat /\ log_RdOff < SizeOfBuffer
      /\ log_WrOff \in Nat /\ log_WrOff < SizeOfBuffer
      /\ used \in Nat /\ free \in Nat /\ used + free = SizeOfBuffer - 1
  <2>1. used \in 0 .. SizeOfBuffer - 1 /\ free \in 0 .. SizeOfBuffer - 1
        /\ used + free = SizeOfBuffer - 1
    BY <1>3, OffsetFacts
  <2>2. used \in Nat /\ free \in Nat
    BY <2>1
  <2>. HIDE DEF used, free
  <2>. QED
    BY <1>3, <2>1, <2>2, RingAssumption DEF Offsets
<1>5. /\ held \in Seq(Letters) /\ Len(held) = used
      /\ \A j \in 1 .. used : held[j] = log_mem[Ahead(log_RdOff, j - 1)]
  <2>1. Len(held) = used /\ \A j \in 1 .. used : held[j] = log_mem[Ahead(log_RdOff, j - 1)]
    BY <1>3, HeldBytes
  <2>2. {log_mem[o] : o \in Offsets} \subseteq Letters
    BY <1>3
  <2>3. held \in Seq({log_mem[o] : o \in Offsets})
    BY <1>3, HeldType
  <2>4. held \in Seq(Letters)
    <3>. HIDE DEF held
    <3>. QED
      BY <2>2, <2>3, SeqMonotonic
  <2>. QED
    BY <2>1, <2>4
<1>. HIDE DEF held
<1>6. /\ T \in Seq(Letters) /\ Len(T) = used + len
      /\ \A j \in 1 .. used + len : T[j] = IF j <= used THEN held[j] ELSE bytes[j - used]
  <2>1. T \in Seq(Letters) /\ Len(T) = Len(held) + Len(bytes)
    BY <1>3, <1>5, ConcatProperties
  <2>2. \A j \in 1 .. Len(held) + Len(bytes) :
          T[j] = IF j <= Len(held) THEN held[j] ELSE bytes[j - Len(held)]
    <3>1. ASSUME NEW j \in 1 .. Len(held) + Len(bytes)
          PROVE  T[j] = IF j <= Len(held) THEN held[j] ELSE bytes[j - Len(held)]
      BY <1>3, <1>5
    <3>. HIDE DEF T
    <3>. QED
      BY <3>1
  <2>. QED
    BY <1>5, <2>1, <2>2
<1>. HIDE DEF T, len, used, free
<1>7. /\ newest' \in Seq(Letters) /\ N = Lesser(SizeOfBuffer - 1, used + len)
      /\ \A j \in 1 .. N : newest'[j] = T[used + len - N + j]
  <2>1. SizeOfBuffer - 1 \in Nat
    BY <1>4
  <2>2. newest' = Last(T, SizeOfBuffer - 1)
    BY <1>1 DEF T
  <2>. DEFINE most == Lesser(SizeOfBuffer - 1, Len(T))
  <2>3. /\ Last(T, SizeOfBuffer - 1) \in Seq(Letters)
        /\ Len(Last(T, SizeOfBuffer - 1)) = most
        /\ \A j \in 1 .. most : Last(T, SizeOfBuffer - 1)[j] = T[Len(T) - most + j]
    BY <1>6, <2>1, LastFacts
  <2>4. N = most
    BY <2>2, <2>3
  <2>. HIDE DEF most
  <2>5. ASSUME NEW j \in 1 .. N PROVE newest'[j] = T[used + len - N + j]
    <3>1. Last(T, SizeOfBuffer - 1)[j] = T[Len(T) - most + j]
      BY <2>3, <2>4
    <3>2. Len(T) - most + j = used + len - N + j
      <4>1. Len(T) = used + len
        BY <1>6
      <4>2. most \in Nat /\ used \in Nat /\ len \in Nat /\ j \in Nat
        BY <1>4, <1>6 DEF most, Lesser
      <4>. HIDE DEF N
      <4>. QED
        BY <2>4, <4>1, <4>2
    <3>. QED
      BY <2>2, <3>1, <3>2
  <2>. QED
    BY <1>6, <2>2, <2>3, <2>4, <2>5 DEF most
<1>8. log_RdOff' \in Offsets
  <2>1. CASE len > free
    <3>1. log_RdOff + (len - free) \in Nat
      BY <1>4, <2>1
    <3>2. \A a \in Nat : a % SizeOfBuffer \in Offsets
      BY <1>4 DEF Offsets
    <3>. QED
      BY <1>1, <2>1, <3>1, <3>2 DEF len
  <2>2. CASE ~(len > free)
    BY <1>1, <1>3, <2>2 DEF len
  <2>. QED
    BY <2>1, <2>2
<1>9. LogTypeOK'
  <2>1. Avail' \in Nat
    BY <1>2, <1>4
  <2>. QED
    BY <1>1, <1>2, <1>3, <1>7, <1>8, <2>1 DEF LogTypeOK
<1>10. ASSUME log_WrOff + len < 2 * SizeOfBuffer - 1
       PROVE  Filling(log_mem, log_RdOff', log_WrOff, bytes, newest')
  <2>. DEFINE R == log_RdOff'
  <2>1. /\ R = IF used + len < SizeOfBuffer THEN log_RdOff
               ELSE IF log_WrOff + len + 1 < SizeOfBuffer THEN log_WrOff + len + 1
               ELSE log_WrOff + len + 1 - SizeOfBuffer
    <3>1. CASE len > free
      <4>. DEFINE a == log_RdOff + (len - free)
      <4>1. R = a % SizeOfBuffer
        BY <1>1, <3>1 DEF len
      <4>2. /\ a \in Nat /\ a < 2 * SizeOfBuffer /\ ~(used + len < SizeOfBuffer)
            /\ a = log_WrOff + len + 1 \/ a = log_WrOff + len + 1 - SizeOfBuffer
        BY <1>4, <1>10, <3>1 DEF free, GetAvailWriteSpace
      <4>. HIDE DEF a
      <4>3. a % SizeOfBuffer = IF a < SizeOfBuffer THEN a ELSE a - SizeOfBuffer
        BY <4>2, Modulus
      <4>. QED
        BY <1>4, <1>10, <4>1, <4>2, <4>3
    <3>2. CASE ~(len > free)
      BY <1>1, <1>4, <3>2 DEF len
    <3>. QED
      BY <3>1, <3>2
  <2>2. N \in Nat /\ N <= SizeOfBuffer - 1 /\ N <= used + len
    BY <1>4, <1>7 DEF Lesser
  <2>. HIDE DEF R, N
  <2>3. Ahead(R, N) = Ahead(log_WrOff, len)
    <3>1. CASE used + len < SizeOfBuffer
      <4>1. N = used + len /\ R = log_RdOff
        BY <1>4, <1>7, <2>1, <3>1 DEF Lesser
      <4>2. used = IF log_RdOff <= log_WrOff THEN log_WrOff - log_RdOff
                   ELSE log_WrOff - log_RdOff + SizeOfBuffer
        BY DEF used, Used
      <4>. QED
        BY <1>4, <3>1, <4>1, <4>2 DEF Ahead
    <3>2. CASE ~(used + len < SizeOfBuffer)
      <4>1. N = SizeOfBuffer - 1
        BY <1>4, <1>7, <3>2 DEF Lesser
      <4>. QED
        BY <1>4, <1>10, <2>1, <3>2, <4>1 DEF Ahead
    <3>. QED
      BY <3>1, <3>2
  <2>4. ASSUME NEW k \in 1 .. N
        PROVE  IF k + len <= N THEN newest'[k] = log_mem[Ahead(R, k - 1)]
                               ELSE newest'[k] = bytes[k + len - N]
    <3>. DEFINE j == used + len - N + k
    <3>1. /\ used \in Nat /\ len \in Nat /\ N \in Nat /\ N <= used + len
          /\ k \in Nat /\ 1 <= k /\ k <= N
      BY <1>4, <2>2
    <3>2. /\ j \in 1 .. used + len /\ (k + len <= N <=> j <= used)
          /\ j - used = k + len - N
      BY <3>1
    <3>3. newest'[k] = T[j]
      BY <1>7, <2>2, <3>2
    <3>4. CASE k + len <= N
      <4>1. j \in 1 .. used /\ newest'[k] = log_mem[Ahead(log_RdOff, j - 1)]
        BY <1>5, <1>6, <3>2, <3>3, <3>4
      <4>2. Ahead(R, k - 1) = Ahead(log_RdOff, j - 1)
        BY <1>4, <1>7, <1>10, <2>1, <2>2, <3>4 DEF Ahead, Lesser, used, Used
      <4>. QED
        BY <3>4, <4>1, <4>2
    <3>5. CASE ~(k + len <= N)
      BY <1>6, <3>2, <3>3, <3>5
    <3>. QED
      BY <3>4, <3>5
  <2>. QED
    BY <2>2, <2>3, <2>4 DEF Filling, len, R, N
<1>11. log_pc' = "copy" /\ WrapsOnce' => Filling(log_mem', log_RdOff', log_WrOff', left', newest')
  BY <1>1, <1>2, <1>10 DEF WrapsOnce, len
<1>. QED
  BY <1>2, <1>9, <1>11 DEF LogInv, KeepsNewest

LEMMA CopyRound ==
  ASSUME LogInv, log_pc = "copy", NEW c \in Nat,
         c <= Len(left), log_WrOff + c <= SizeOfBuffer
  PROVE  /\ Copy(log_mem, log_WrOff, SubSeq(left, 1, c)) \in [Offsets -> Letters]
         /\ Wrapped(log_WrOff + c) \in Offsets
         /\ SubSeq(left, c + 1, Len(left)) \in Seq(Letters)
         /\ Len(SubSeq(left, c + 1, Len(left))) = Len(left) - c
         /\ WrapsOnce => Filling(Copy(log_mem, log_WrOff, SubSeq(left, 1, c)), log_RdOff,
                                 Wrapped(log_WrOff + c), SubSeq(left, c + 1, Len(left)), newest)
<1>1. /\ log_mem \in [Offsets -> Letters] /\ log_RdOff \in Offsets /\ log_WrOff \in Offsets
      /\ left \in Seq(Letters) /\ newest \in Seq(Letters)
  BY DEF LogInv, LogTypeOK
<1>2. /\ Len(left) \in Nat /\ SizeOfBuffer \in Nat /\ SizeOfBuffer > 1
      /\ log_WrOff \in Nat /\ log_WrOff < SizeOfBuffer
  BY <1>1, RingAssumption DEF Offsets
<1>3. SubSeq(left, 1, c) \in Seq(Letters)
  <2>1. \A j \in 1 .. Len(left) : left[j] \in Letters
    BY <1>1
  <2>2. \A j \in 1 .. c : left[j] \in Letters
    BY <1>2, <2>1
  <2>. QED
    BY <2>2, SubSeqProperties
<1>4. Copy(log_mem, log_WrOff, SubSeq(left, 1, c)) \in [Offsets -> Letters]
  BY <1>1, <1>3, CopyType
<1>5. Wrapped(log_WrOff + c) \in Offsets
  BY <1>2 DEF Wrapped, Offsets
<1>6. /\ SubSeq(left, c + 1, Len(left)) \in Seq(Letters)
      /\ Len(SubSeq(left, c + 1, Len(left))) = Len(left) - c
  <2>1. \A j \in 1 .. Len(left) : left[j] \in Letters
    BY <1>1
  <2>2. \A j \in c + 1 .. Len(left) : left[j] \in Letters
    BY <1>2, <2>1
  <2>3. /\ SubSeq(left, c + 1, Len(left)) \in Seq(Letters)
        /\ Len(SubSeq(left, c + 1, Len(left)))
             = IF c + 1 <= Len(left) THEN Len(left) - (c + 1) + 1 ELSE 0
    BY <1>2, <2>2, SubSeqProperties
  <2>4. IF c + 1 <= Len(left) THEN Len(left) - (c + 1) + 1 = Len(left) - c ELSE Len(left) - c = 0
    BY <1>2
  <2>. QED
    BY <2>3, <2>4
<1>7. ASSUME WrapsOnce
      PROVE  Filling(Copy(log_mem, log_WrOff, SubSeq(left, 1, c)), log_RdOff,
                     Wrapped(log_WrOff + c), SubSeq(left, c + 1, Len(left)), newest)
  <2>1. Filling(log_mem, log_RdOff, log_WrOff, left, newest)
    BY <1>7 DEF LogInv
  <2>2. log_WrOff + Len(left) < 2 * SizeOfBuffer
    BY <1>2, <1>7 DEF LogInv, WrapsOnce
  <2>. QED
    BY <1>1, <2>1, <2>2, ChunkCopied
<1>. QED
  BY <1>4, <1>5, <1>6, <1>7

LEMMA LastRoundStep == ASSUME LogInv, LastRound PROVE LogInv'
<1>1. /\ log_pc = "copy" /\ Avail > Len(left)
      /\ log_mem' = Copy(log_mem, log_WrOff, left) /\ log_WrOff' = log_WrOff + Len(left)
      /\ left' = <<>> /\ log_pc' = "idle"
      /\ UNCHANGED <<log_RdOff, Avail, newest, wraps>>
  BY DEF LastRound
<1>2. /\ LogTypeOK /\ Len(left) \in Nat /\ left \in Seq(Letters) /\ log_WrOff \in Nat
      /\ SizeOfBuffer \in Nat /\ wraps \in Nat
  BY RingAssumption DEF LogInv, LogTypeOK, Offsets
<1>3. log_WrOff + Len(left) < SizeOfBuffer /\ wraps <= 1 => WrapsOnce
  BY <1>1, <1>2 DEF LogInv, WrapsOnce
<1>4. log_WrOff + Len(left) < SizeOfBuffer
  BY <1>1, <1>2 DEF LogInv
<1>5. SubSeq(left, 1, Len(left)) = left
  BY <1>2, SubSeqFull
<1>6. Wrapped(log_WrOff + Len(left)) = log_WrOff + Len(left)
  BY <1>2, <1>4 DEF Wrapped
<1>. DEFINE rest == SubSeq(left, Len(left) + 1, Len(left))
<1>7. /\ log_mem' \in [Offsets -> Letters] /\ log_WrOff' \in Offsets
      /\ Len(rest) = Len(left) - Len(left)
      /\ WrapsOnce => Filling(log_mem', log_RdOff, log_WrOff', rest, newest)
  <2>1. Len(left) <= Len(left) /\ log_WrOff + Len(left) <= SizeOfBuffer
    BY <1>2, <1>4
  <2>2. /\ Copy(log_mem, log_WrOff, SubSeq(left, 1, Len(left))) \in [Offsets -> Letters]
        /\ Wrapped(log_WrOff + Len(left)) \in Offsets
        /\ Len(rest) = Len(left) - Len(left)
        /\ WrapsOnce => Filling(Copy(log_mem, log_WrOff, SubSeq(left, 1, Len(left))), log_RdOff,
                                Wrapped(log_WrOff + Len(left)), rest, newest)
    BY <1>1, <1>2, <2>1, CopyRound
  <2>. QED
    BY <1>1, <1>5, <1>6, <2>2
<1>. HIDE DEF rest
<1>8. LogTypeOK'
  BY <1>1, <1>2, <1>7 DEF LogTypeOK
<1>9. ASSUME wraps <= 1 PROVE Held(log_mem', log_RdOff, log_WrOff') = newest
  <2>1. Len(rest) = 0
    BY <1>2, <1>7
  <2>2. log_RdOff \in Offsets /\ newest \in Seq(Letters)
    BY <1>2 DEF LogTypeOK
  <2>. QED
    BY <1>3, <1>4, <1>7, <1>9, <2>1, <2>2, CopyEnds
<1>. QED
  BY <1>1, <1>8, <1>9 DEF LogInv, KeepsNewest

LEMMA WrapStep == ASSUME LogInv, Wrap PROVE LogInv'
<1>. DEFINE rest == SubSeq(left, Avail + 1, Len(left))
<1>1. /\ log_pc = "copy" /\ Avail <= Len(left)
      /\ log_mem' = Copy(log_mem, log_WrOff, SubSeq(left, 1, Avail)) /\ log_WrOff' = 0
      /\ left' = rest /\ Avail' = SizeOfBuffer - 1
      /\ log_pc' = (IF Len(left) > Avail THEN "copy" ELSE "idle")
      /\ wraps' = wraps + 1 /\ UNCHANGED <<log_RdOff, newest>>
  BY DEF Wrap
<1>2. /\ LogTypeOK /\ Len(left) \in Nat /\ left \in Seq(Letters) /\ log_WrOff \in Nat
      /\ SizeOfBuffer \in Nat /\ SizeOfBuffer > 1 /\ wraps \in Nat /\ Avail \in Nat
      /\ log_WrOff < SizeOfBuffer
  BY RingAssumption DEF LogInv, LogTypeOK, Offsets
<1>3. log_WrOff + Avail <= SizeOfBuffer /\ (wraps = 0 => log_WrOff + Avail = SizeOfBuffer)
  BY <1>1, <1>2 DEF LogInv
<1>4. /\ log_mem' \in [Offsets -> Letters] /\ rest \in Seq(Letters)
      /\ Len(rest) = Len(left) - Avail
      /\ WrapsOnce => Filling(log_mem', log_RdOff, Wrapped(log_WrOff + Avail), rest, newest)
  BY <1>1, <1>2, <1>3, CopyRound
<1>. HIDE DEF rest
<1>5. LogTypeOK'
  <2>1. 0 \in Offsets /\ SizeOfBuffer - 1 \in Nat
    BY <1>2 DEF Offsets
  <2>. QED
    BY <1>1, <1>2, <1>4, <2>1 DEF LogTypeOK
<1>6. ASSUME wraps' <= 1, Len(rest) < SizeOfBuffer - 1
      PROVE  Filling(log_mem', log_RdOff', log_WrOff', left', newest')
  <2>1. wraps = 0
    BY <1>1, <1>2, <1>6
  <2>2. WrapsOnce
    BY <1>2, <1>3, <1>4, <1>6, <2>1 DEF WrapsOnce
  <2>3. Wrapped(log_WrOff + Avail) = 0
    BY <1>3, <2>1 DEF Wrapped
  <2>. QED
    BY <1>1, <1>4, <2>2, <2>3
<1>7. log_pc' = "copy" /\ WrapsOnce' => Filling(log_mem', log_RdOff', log_WrOff', left', newest')
  BY <1>1, <1>2, <1>6 DEF WrapsOnce
<1>8. KeepsNewest'
  <2>. SUFFICES ASSUME log_pc' = "idle", wraps' <= 1
                PROVE  Held(log_mem', log_RdOff', log_WrOff') = newest'
    BY DEF KeepsNewest
  <2>1. Len(rest) = 0
    BY <1>1, <1>2, <1>4
  <2>2. Filling(log_mem', log_RdOff', log_WrOff', left', newest')
    BY <1>2, <1>6, <2>1
  <2>. QED
    BY <1>1, <1>5, <2>1, <2>2, CopyEnds DEF LogTypeOK
<1>9. wraps' # 0
  BY <1>1, <1>2
<1>. QED
  BY <1>1, <1>5, <1>7, <1>8, <1>9 DEF LogInv

LEMMA HostReadsStep == ASSUME LogInv, HostReads PROVE LogInv'
<1>. DEFINE used == Used(log_RdOff, log_WrOff)
<1>1. PICK k \in 1 .. used : log_RdOff' = Ahead(log_RdOff, k) /\ newest' = Last(newest, used - k)
  BY DEF HostReads
<1>2. log_pc = "idle" /\ UNCHANGED <<log_mem, log_WrOff, left, Avail, log_pc, wraps>>
  BY DEF HostReads
<1>3. /\ log_RdOff \in Offsets /\ log_WrOff \in Offsets /\ newest \in Seq(Letters)
      /\ used \in Nat
  BY OffsetFacts DEF LogInv, LogTypeOK
<1>. HIDE DEF used
<1>4. k \in 0 .. used /\ used - k \in Nat
  BY <1>3
<1>5. /\ Ahead(log_RdOff, k) \in Offsets
      /\ Held(log_mem, Ahead(log_RdOff, k), log_WrOff)
           = SubSeq(Held(log_mem, log_RdOff, log_WrOff), k + 1, used)
  BY <1>3, <1>4, HeldShrinks DEF used
<1>6. newest' \in Seq(Letters)
  BY <1>1, <1>3, <1>4, LastFacts
<1>7. LogTypeOK'
  BY <1>1, <1>2, <1>5, <1>6 DEF LogInv, LogTypeOK
<1>8. ASSUME wraps <= 1 PROVE Held(log_mem, log_RdOff', log_WrOff) = newest'
  <2>1. Held(log_mem, log_RdOff, log_WrOff) = newest
    BY <1>2, <1>8 DEF LogInv, KeepsNewest
  <2>2. Len(newest) = used
    BY <1>3, <2>1, HeldBytes DEF used
  <2>3. Lesser(used - k, used) = used - k /\ used - (used - k) + 1 = k + 1
    BY <1>3, <1>4 DEF Lesser
  <2>4. newest' = SubSeq(newest, k + 1, used)
    BY <1>1, <2>2, <2>3 DEF Last
  <2>. QED
    BY <1>1, <1>5, <2>1, <2>4
<1>. QED
  BY <1>2, <1>7, <1>8 DEF LogInv, KeepsNewest

(* SEGGER_RTT_WriteWithOverwriteNoLock keeps the newest bytes, as many as  *)
(* the ring holds and in their order, unless it wraps around twice.        *)
THEOREM NewestKept == LogSpec => []KeepsNewest
<1>1. LogInv => KeepsNewest
  BY DEF LogInv
<1>2. LogInv /\ [LogNext]_logVars => LogInv'
  <2>. SUFFICES ASSUME LogInv, [LogNext]_logVars PROVE LogInv'
    OBVIOUS
  <2>1. CASE LogNext
    BY <2>1, AdjustStep, LastRoundStep, WrapStep, HostReadsStep DEF LogNext
  <2>2. CASE UNCHANGED logVars
    BY <2>2 DEF logVars, LogInv, LogTypeOK, WrapsOnce, KeepsNewest
  <2>. QED
    BY <2>1, <2>2
<1>. QED
  BY <1>1, <1>2, LogInitial, PTL DEF LogSpec

-----------------------------------------------------------------------------
(* The capacity, for every width of a byte and every page.                 *)

LEMMA Grows == ASSUME NEW a \in Nat, NEW b \in Nat, b # 0 PROVE a <= a * b
OBVIOUS

LEMMA Product == \A a, b \in Nat : a * b \in Nat
OBVIOUS

LEMMA Unwrapped ==
  ASSUME NEW a \in Nat, NEW m \in Nat, a < m PROVE a % m = a
OBVIOUS

LEMMA WidthFacts == Width16 \in Nat /\ Width16 # 0 /\ Width32 \in Nat /\ Width32 # 0
<1>1. \A a \in Nat : a # 0 => a * a \in Nat /\ a * a # 0
  <2>. SUFFICES ASSUME NEW a \in Nat, a # 0 PROVE a * a \in Nat /\ a * a # 0
    OBVIOUS
  <2>. QED
    BY Grows, Product
<1>2. Width16 \in Nat /\ Width16 # 0
  BY <1>1, OnfiAssumption DEF Width16
<1>. QED
  BY <1>1, <1>2 DEF Width32

LEMMA FieldFacts ==
  ASSUME NEW p \in ParameterPages
  PROVE  /\ extract_int32(p.bytes_per_page) \in Nat
         /\ extract_int16(p.pages_per_block) \in Nat
         /\ extract_int16(p.blocks_per_lun) \in Nat
         /\ p.num_lun \in Nat
         /\ extract_int32(p.pages_per_block) < Width16 =>
              extract_int16(p.pages_per_block) = extract_int32(p.pages_per_block)
         /\ extract_int32(p.blocks_per_lun) < Width16 =>
              extract_int16(p.blocks_per_lun) = extract_int32(p.blocks_per_lun)
<1>1. ASSUME NEW b \in Fields4
      PROVE  /\ extract_int16(b) \in Nat /\ extract_int32(b) \in Nat
             /\ extract_int32(b) < Width16 => extract_int16(b) = extract_int32(b)
  <2>1. /\ ByteValues \in Nat
        /\ b[1] \in Nat /\ b[2] \in Nat /\ b[3] \in Nat /\ b[4] \in Nat
    BY OnfiAssumption
  <2>2. b[1] + b[2] * ByteValues \in Nat /\ b[3] + b[4] * ByteValues \in Nat
    BY <2>1, Product
  <2>. DEFINE low == b[1] + b[2] * ByteValues  high == b[3] + b[4] * ByteValues
  <2>3. extract_int16(b) = low /\ extract_int32(b) = low + high * Width16
    BY DEF extract_int16, extract_int32
  <2>4. low \in Nat /\ high \in Nat
    BY <2>2
  <2>. HIDE DEF low, high
  <2>5. high * Width16 \in Nat
    BY <2>4, WidthFacts, Product
  <2>6. high # 0 => Width16 <= high * Width16
    <3>1. high # 0 => Width16 <= Width16 * high
      BY <2>4, WidthFacts, Grows
    <3>2. Width16 * high = high * Width16
      BY <2>4, WidthFacts
    <3>. QED
      BY <3>1, <3>2
  <2>7. high = 0 => high * Width16 = 0
    BY WidthFacts
  <2>. QED
    BY <2>3, <2>4, <2>5, <2>6, <2>7, WidthFacts
<1>2. /\ p.bytes_per_page \in Fields4 /\ p.pages_per_block \in Fields4
      /\ p.blocks_per_lun \in Fields4 /\ p.num_lun \in Nat
  <2>1. /\ p.bytes_per_page \in Fields4 /\ p.pages_per_block \in Fields4
        /\ p.blocks_per_lun \in Fields4 /\ p.num_lun \in Fields1
    BY DEF ParameterPages
  <2>2. \A x \in Fields1 : x \in Nat
    BY OnfiAssumption
  <2>. QED
    BY <2>1, <2>2
<1>. QED
  BY <1>1, <1>2

(* Where the product of four factors fits 32 bits, so does each partial    *)
(* product, unless a later factor is 0.                                    *)
LEMMA PartsFit ==
  ASSUME NEW a \in Nat, NEW b \in Nat, NEW c \in Nat, NEW d \in Nat,
         a * b * c * d < Width32
  PROVE  Times(Times(Times(a, b), c), d) = a * b * c * d
<1>. DEFINE ab == a * b  abc == ab * c  abcd == abc * d
<1>1. ab \in Nat /\ abc \in Nat /\ abcd \in Nat /\ abcd < Width32
  BY Product
<1>2. ASSUME NEW x \in Nat, NEW y \in Nat, x * y < Width32 PROVE Times(x, y) = x * y
  <2>1. x * y \in Nat
    BY Product
  <2>. DEFINE xy == x * y
  <2>2. xy \in Nat /\ xy < Width32 /\ Times(x, y) = xy % Width32
    BY <1>2, <2>1 DEF Times
  <2>. HIDE DEF xy
  <2>3. xy % Width32 = xy
    BY <2>2, Unwrapped, WidthFacts
  <2>. QED
    BY <2>2, <2>3 DEF xy
<1>3. Times(ab, c) \in Nat /\ Times(a, b) \in Nat /\ Times(Times(a, b), c) \in Nat
  <2>1. \A x \in Nat : x % Width32 \in Nat
    BY WidthFacts
  <2>2. \A x, y \in Nat : Times(x, y) \in Nat
    BY <2>1, Product DEF Times
  <2>. QED
    BY <1>1, <2>2
<1>. HIDE DEF abcd
<1>4. CASE d = 0
  <2>1. \A x \in Nat : Times(x, d) = 0
    <3>1. \A x \in Nat : x * d = 0
      BY <1>4
    <3>2. 0 % Width32 = 0
      BY WidthFacts
    <3>. QED
      BY <3>1, <3>2 DEF Times
  <2>2. abcd = 0
    BY <1>1, <1>4 DEF abcd
  <2>. QED
    BY <1>3, <2>1, <2>2 DEF abcd
<1>5. CASE d # 0
  <2>1. abc < Width32
    <3>1. abc <= abcd
      BY <1>1, <1>5, Grows DEF abcd
    <3>. QED
      BY <1>1, <3>1, WidthFacts
  <2>. HIDE DEF abc
  <2>2. Times(Times(a, b), c) = abc
    <3>1. CASE c = 0
      <4>1. \A x \in Nat : Times(x, c) = 0
        <5>1. \A x \in Nat : x * c = 0
          BY <3>1
        <5>2. 0 % Width32 = 0
          BY WidthFacts
        <5>. QED
          BY <5>1, <5>2 DEF Times
      <4>2. abc = 0
        BY <1>1, <3>1 DEF abc
      <4>. QED
        BY <1>3, <4>1, <4>2
    <3>2. CASE c # 0
      <4>1. ab <= abc
        BY <1>1, <3>2, Grows DEF abc
      <4>2. ab < Width32
        BY <1>1, <2>1, <4>1, WidthFacts
      <4>3. Times(a, b) = ab
        BY <1>2, <4>2
      <4>4. ab * c < Width32
        BY <2>1 DEF abc
      <4>. HIDE DEF ab
      <4>5. Times(ab, c) = ab * c
        BY <1>1, <1>2, <4>4
      <4>. QED
        BY <4>3, <4>5 DEF abc
    <3>. QED
      BY <3>1, <3>2
  <2>3. abc * d < Width32
    BY <1>1 DEF abcd
  <2>4. Times(abc, d) = abc * d
    BY <1>1, <1>2, <2>3
  <2>. QED
    BY <2>2, <2>4 DEF abc
<1>. QED
  BY <1>4, <1>5

OnfiInv ==
  /\ page \in ParameterPages
  /\ onfi_result = 0 => printed.capacity = total_size(page) \div MB

(* The capacity printed is the chip's, whenever it can be: the numbers of  *)
(* pages and blocks have 16 bits and the size has 32.                      *)
THEOREM CapacityCorrect == OnfiSpec => []CapacityTrue
<1>1. OnfiInit => OnfiInv
  BY DEF OnfiInit, OnfiInv
<1>2. OnfiInv /\ [OnfiNext]_onfiVars => OnfiInv'
  BY DEF OnfiInv, OnfiNext, Refuse, PrintOrganisation, onfiVars
<1>3. OnfiInv => CapacityTrue
  <2>. SUFFICES ASSUME OnfiInv, onfi_result = 0, Fits
                PROVE  printed.capacity = TrueSize \div MB
    BY DEF CapacityTrue
  <2>. DEFINE a == extract_int32(page.bytes_per_page)
              b == extract_int16(page.pages_per_block)
              c == extract_int16(page.blocks_per_lun)
              d == page.num_lun
  <2>1. /\ a \in Nat /\ b \in Nat /\ c \in Nat /\ d \in Nat
        /\ b = extract_int32(page.pages_per_block)
        /\ c = extract_int32(page.blocks_per_lun)
    BY FieldFacts DEF OnfiInv, Fits
  <2>2. TrueSize = a * b * c * d /\ total_size(page) = Times(Times(Times(a, b), c), d)
    BY <2>1 DEF TrueSize, total_size
  <2>3. a * b * c * d < Width32
    BY <2>2 DEF Fits
  <2>. HIDE DEF a, b, c, d
  <2>4. total_size(page) = TrueSize
    BY <2>1, <2>2, <2>3, PartsFit
  <2>. QED
    BY <2>4 DEF OnfiInv
<1>. QED
  BY <1>1, <1>2, <1>3, PTL DEF OnfiSpec
=============================================================================
