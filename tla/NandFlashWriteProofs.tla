------------------------ MODULE NandFlashWriteProofs ------------------------
(***************************************************************************)
(* What nand_prog_page, nand_erase_block, nand_copy_page and               *)
(* nand_mark_bad_block have done when they return success, and what no     *)
(* call may do to pages that are not its own.                              *)
(*                                                                         *)
(* The success properties of NandFlash are not inductive.  For each        *)
(* function F an invariant FInv says what holds at every position of its   *)
(* script if the call began on an idle chip in array mode; the proof that  *)
(* a step keeps it goes position by position.  No other call is relevant:  *)
(* the chip does nothing on its own unless F started it.                   *)
(***************************************************************************)
EXTENDS NandFlashProofs

-----------------------------------------------------------------------------
(* nand_prog_page *)

NewPage == [data |-> call.data, marks |-> {}]

(* What holds at each position of the script when the call began on an     *)
(* idle chip in array mode.                                                *)
ProgInv ==
  clean /\ call.fn = "nand_prog_page" =>
    /\ cfg = "array"
    /\ pc \in 1..4 => Ready /\ array[call.addr] = before
    /\ pc \in 2..4 => wel
    /\ pc \in 3..5 => cache = NewPage
    /\ pc = 5 => \/ busy = "program" /\ row = call.addr /\ array[call.addr] = before
                 \/ Ready /\ ~wel /\ (pfail \/ array[call.addr] = Merge(before, NewPage))
    /\ pc = 0 /\ ret = "SUCCESS" =>
         Ready /\ ~wel /\ array[call.addr] = Merge(before, NewPage)

LEMMA ProgStep ==
  ASSUME TypeOK, ProgInv, DriverStep, clean, call.fn = "nand_prog_page"
  PROVE  ProgInv'
<1>. USE DEF ProgInv, NewPage
<1>1. /\ Len(Script(call.fn)) = 5
      /\ pc = 1 => NextStep = "write_enable"
      /\ pc = 2 => NextStep = "program_load"
      /\ pc = 3 => NextStep = "write_enable"
      /\ pc = 4 => NextStep = "program_execute"
      /\ pc = 5 => NextStep = "wait_check_program"
  BY DEF Script, NextStep, nand_prog_page, PrivateFunctions
<1>2. pc \in 1..5 /\ Running
  <2>1. pc \in 0..5
    BY <1>1 DEF TypeOK
  <2>. QED
    BY <2>1, StepByName DEF Running
<1>3. UNCHANGED <<call, clean, before>>
  BY StepInCall
<1>4. PageOf(call) = call.addr /\ call.addr \in Pages
  <2>1. call \in Call
    BY DEF TypeOK
  <2>. QED
    BY <2>1 DEF PageOf, BlockFunctions, Call
<1>5. CASE pc \in {1, 3}
  <2>1. Send(SetWel(TRUE))
    BY <1>1, <1>5, StepByName
  <2>2. CASE SetWel(TRUE) /\ Advance
    BY <1>1, <1>3, <1>5, <2>2 DEF SetWel, WhenReady, Advance, Ready
  <2>3. CASE (SetWel(TRUE) \/ UNCHANGED devVars) /\ TransferFails
    <3>1. cfg' = cfg
      BY <2>3, CommandsKeepCfg
    <3>. QED
      BY <1>3, <2>3, <3>1, FailedCall
  <2>. QED
    BY <2>1, <2>2, <2>3 DEF Send
<1>6. CASE pc = 2
  <2>0. NewPage \in Content
    BY DEF TypeOK, Call, Content
  <2>1. Send(ProgramLoad(NewPage))
    BY <1>1, <1>6, StepByName DEF nand_cmd_program_load_x1
  <2>2. CASE ProgramLoad(NewPage) /\ Advance
    BY <1>1, <1>3, <1>6, <2>2 DEF ProgramLoad, WhenReady, Advance, Ready
  <2>3. CASE (ProgramLoad(NewPage) \/ UNCHANGED devVars) /\ TransferFails
    <3>1. cfg' = cfg
      BY <2>3, <2>0, CommandsKeepCfg
    <3>. QED
      BY <1>3, <2>3, <3>1, FailedCall
  <2>. QED
    BY <2>1, <2>2, <2>3 DEF Send
<1>7. CASE pc = 4
  <2>1. Send(ProgramExecute(call.addr))
    BY <1>1, <1>4, <1>7, StepByName
  <2>2. CASE ProgramExecute(call.addr) /\ Advance
    BY <1>1, <1>3, <1>7, <2>2 DEF ProgramExecute, Start, WhenReady, Advance, Ready
  <2>3. CASE (ProgramExecute(call.addr) \/ UNCHANGED devVars) /\ TransferFails
    <3>1. cfg' = cfg
      BY <2>3, <1>4, CommandsKeepCfg
    <3>. QED
      BY <1>3, <2>3, <3>1, FailedCall
  <2>. QED
    BY <2>1, <2>2, <2>3 DEF Send
<1>8. CASE pc = 5
  BY <1>1, <1>2, <1>3, <1>8, StepByName
  DEF Receive, StillBusy, UseStatus, WaitSteps, Advance, Return, TransferFails,
      devVars, Ready
<1>. QED
  BY <1>2, <1>5, <1>6, <1>7, <1>8

LEMMA ProgInductive ==
  /\ Init => ProgInv
  /\ TypeOK /\ ProgInv /\ [Next]_vars => ProgInv'
<1>. USE DEF ProgInv, NewPage
<1>1. Init => ProgInv
  BY DEF Init
<1>2. ASSUME TypeOK, ProgInv, [Next]_vars PROVE ProgInv'
  <2>1. ASSUME NEW c \in ClientCalls, Invoke(c) PROVE ProgInv'
    BY <2>1, Invoked DEF PageOf, BlockFunctions, devVars, Ready
  <2>2. CASE DriverStep
    BY <1>2, <2>2, ProgStep, StepInCall
  <2>3. CASE Chip
    <3>1. UNCHANGED drvVars /\ DevNext /\ ~Ready /\ cfg' = cfg
      BY <2>3, IdleChip DEF Chip
    <3>2. CASE ~(clean /\ call.fn = "nand_prog_page" /\ pc = 5)
      BY <1>2, <3>1, <3>2 DEF drvVars
    <3>3. CASE clean /\ call.fn = "nand_prog_page" /\ pc = 5
      <4>1. FinishProgram
        BY <1>2, <3>1, <3>3 DEF DevNext, FinishRead, FinishErase, FinishReset, Ready
      <4>. QED
        <5>1. DevTypeOK /\ pfail' \in BOOLEAN
          BY <1>2, <4>1, TypeSplit DEF FinishProgram, DevTypeOK
        <5>2. row = call.addr /\ array[row] = before /\ cache = NewPage /\ cfg = "array"
          BY <1>2, <3>3, <4>1 DEF FinishProgram, Ready
        <5>3. Ready' /\ wel' = FALSE /\ cache' = NewPage
          BY <4>1, <5>1, <5>2, ProgramEnds DEF Ready
        <5>4. pfail' \/ array'[call.addr] = Merge(before, NewPage)
          BY <4>1, <5>1, <5>2, ProgramEnds
        <5>. QED
          BY <3>1, <3>3, <5>2, <5>3, <5>4 DEF drvVars
    <3>. QED
      BY <3>2, <3>3
  <2>4. CASE Restart
    BY <2>4 DEF Restart
  <2>5. CASE UNCHANGED vars
    BY <1>2, <2>5 DEF vars, devVars, drvVars, Ready
  <2>. QED
    BY <1>2, <2>1, <2>2, <2>3, <2>4, <2>5 DEF Next
<1>. QED
  BY <1>1, <1>2

(* A nand_prog_page that began on an idle chip and returned success has    *)
(* programmed its data over what the page held, whatever the chip, the bus *)
(* and a restart did in between.                                           *)
THEOREM ProgramCorrect == Spec => []ProgramDone
<1>1. TypeOK /\ ProgInv => ProgramDone
  BY DEF ProgInv, ProgramDone, Kept, Succeeded, Running, NewPage
<1>. QED
  BY <1>1, InitType, StepType, ProgInductive, PTL DEF Spec

-----------------------------------------------------------------------------
(* nand_erase_block *)

BlockErased ==
  \A p \in Pages : p \div PagesPerBlock = call.addr => array[p] = Erased

EraseInv ==
  clean /\ call.fn = "nand_erase_block" =>
    /\ cfg = "array"
    /\ pc \in 1..2 => Ready
    /\ pc = 2 => wel
    /\ pc = 3 => \/ busy = "erase" /\ row = PageOf(call)
                 \/ Ready /\ ~wel /\ (efail \/ BlockErased)
    /\ pc = 0 /\ ret = "SUCCESS" => Ready /\ ~wel /\ BlockErased

LEMMA EraseStep ==
  ASSUME TypeOK, EraseInv, DriverStep, clean, call.fn = "nand_erase_block"
  PROVE  EraseInv'
<1>. USE DEF EraseInv
<1>1. /\ Len(Script(call.fn)) = 3
      /\ pc = 1 => NextStep = "write_enable"
      /\ pc = 2 => NextStep = "block_erase"
      /\ pc = 3 => NextStep = "wait_check_erase"
  BY DEF Script, NextStep, nand_erase_block, PrivateFunctions
<1>2. pc \in 1..3 /\ Running
  <2>1. pc \in 0..3
    BY <1>1 DEF TypeOK
  <2>. QED
    BY <2>1, StepByName DEF Running
<1>3. UNCHANGED <<call, clean, before>>
  BY StepInCall
<1>4. PageOf(call) \in Pages /\ PageOf(call)' = PageOf(call)
  <2>1. call \in Call
    BY DEF TypeOK
  <2>. QED
    BY <2>1, <1>3, PageOfType DEF PageOf, block_to_page_addr
<1>5. CASE pc = 1
  <2>1. Send(SetWel(TRUE))
    BY <1>1, <1>5, StepByName
  <2>2. CASE SetWel(TRUE) /\ Advance
    BY <1>1, <1>3, <1>5, <2>2 DEF SetWel, WhenReady, Advance, Ready
  <2>3. CASE (SetWel(TRUE) \/ UNCHANGED devVars) /\ TransferFails
    <3>1. cfg' = cfg
      BY <2>3, CommandsKeepCfg
    <3>. QED
      BY <1>3, <2>3, <3>1, FailedCall
  <2>. QED
    BY <2>1, <2>2, <2>3 DEF Send
<1>6. CASE pc = 2
  <2>1. Send(BlockErase(PageOf(call)))
    BY <1>1, <1>6, StepByName
  <2>2. CASE BlockErase(PageOf(call)) /\ Advance
    BY <1>1, <1>3, <1>4, <1>6, <2>2 DEF BlockErase, Start, WhenReady, Advance, Ready
  <2>3. CASE (BlockErase(PageOf(call)) \/ UNCHANGED devVars) /\ TransferFails
    <3>1. cfg' = cfg
      BY <1>4, <2>3, CommandsKeepCfg
    <3>. QED
      BY <1>3, <2>3, <3>1, FailedCall
  <2>. QED
    BY <2>1, <2>2, <2>3 DEF Send
<1>7. CASE pc = 3
  <2>1. UNCHANGED devVars /\ (BlockErased' <=> BlockErased)
    BY <1>1, <1>3, <1>7, StepByName DEF Receive, WaitSteps, devVars, BlockErased
  <2>. QED
    BY <1>1, <1>2, <1>3, <1>4, <1>7, <2>1, StepByName
    DEF Receive, StillBusy, UseStatus, WaitSteps, Advance, Return, TransferFails,
        devVars, Ready
<1>. QED
  BY <1>2, <1>5, <1>6, <1>7

LEMMA EraseInductive ==
  /\ Init => EraseInv
  /\ TypeOK /\ EraseInv /\ [Next]_vars => EraseInv'
<1>. USE DEF EraseInv
<1>1. Init => EraseInv
  BY DEF Init
<1>2. ASSUME TypeOK, EraseInv, [Next]_vars PROVE EraseInv'
  <2>1. ASSUME NEW c \in ClientCalls, Invoke(c) PROVE EraseInv'
    BY <2>1, Invoked DEF devVars, Ready
  <2>2. CASE DriverStep
    BY <1>2, <2>2, EraseStep, StepInCall
  <2>3. CASE Chip
    <3>1. UNCHANGED drvVars /\ DevNext /\ ~Ready /\ cfg' = cfg
      BY <2>3, IdleChip DEF Chip
    <3>2. CASE ~(clean /\ call.fn = "nand_erase_block" /\ pc = 3)
      BY <1>2, <3>1, <3>2 DEF drvVars
    <3>3. CASE clean /\ call.fn = "nand_erase_block" /\ pc = 3
      <4>1. FinishErase
        BY <1>2, <3>1, <3>3 DEF DevNext, FinishRead, FinishProgram, FinishReset, Ready
      <4>2. DevTypeOK /\ efail' \in BOOLEAN
        BY <1>2, <4>1, TypeSplit DEF FinishErase, DevTypeOK
      <4>3. row = PageOf(call) /\ cfg = "array"
        BY <1>2, <3>3, <4>1 DEF FinishErase, Ready
      <4>4. Ready' /\ wel' = FALSE
        BY <4>1, <4>2, EraseEnds DEF Ready
      <4>5. call \in Call /\ call.addr \in Blocks
        BY <1>2, <3>3 DEF TypeOK, Call, BlockFunctions
      <4>6. PageOf(call) \div PagesPerBlock = call.addr
        BY <3>3, <4>5, BlockOfAddress DEF PageOf, BlockFunctions, block_to_page_addr
      <4>7. ASSUME ~efail' PROVE BlockErased'
        <5>1. \A p \in BlockPages(row) : array'[p] = Erased
          BY <4>1, <4>2, <4>3, <4>7, EraseEnds
        <5>. QED
          BY <3>1, <4>3, <4>6, <5>1 DEF BlockErased, BlockPages, drvVars
      <4>. QED
        BY <3>1, <3>3, <4>3, <4>4, <4>7 DEF drvVars
    <3>. QED
      BY <3>2, <3>3
  <2>4. CASE Restart
    BY <2>4 DEF Restart
  <2>5. CASE UNCHANGED vars
    BY <1>2, <2>5 DEF vars, devVars, drvVars, Ready, PageOf, BlockErased
  <2>. QED
    BY <1>2, <2>1, <2>2, <2>3, <2>4, <2>5 DEF Next
<1>. QED
  BY <1>1, <1>2

(* A nand_erase_block that began on an idle chip and returned success has  *)
(* erased every page of the block it was given.                            *)
THEOREM EraseCorrect == Spec => []EraseDone
<1>1. TypeOK /\ EraseInv => EraseDone
  BY DEF EraseInv, BlockErased, EraseDone, Kept, Succeeded, Running
<1>. QED
  BY <1>1, InitType, StepType, EraseInductive, PTL DEF Spec

-----------------------------------------------------------------------------
(* nand_copy_page *)

LEMMA MergeFacts ==
  ASSUME NEW c \in Content
  PROVE  Merge(c, Erased) = c /\ Merge(c, c) = c
  BY DEF Merge, Erased, Content

LEMMA FatalIsUncorrectable == EccFatal <=> ~Correctable(ecc)
  BY DEF EccFatal, nand_status_to_ecc, Correctable

(* The cache holds the source page, if ECC could repair it, and its marks  *)
(* in any case.                                                            *)
SourceInCache ==
  /\ Correctable(ecc) => cache = array[call.src]
  /\ cache.marks = array[call.src].marks

SourceChecked == call.eccp => Correctable(ecc)

Copied == Correctable(ecc) /\ ~pfail => array[call.addr] = Merge(before, array[call.src])

CopyInv ==
  clean /\ call.fn = "nand_copy_page" =>
    /\ cfg = "array"
    /\ pc = 1 => Ready
    /\ pc = 2 => \/ busy = "read" /\ row = call.src
                 \/ Ready /\ SourceInCache
    /\ pc \in 1..5 => array[call.addr] = before
    /\ pc \in 3..5 => Ready /\ SourceChecked /\ SourceInCache
    /\ pc \in 4..5 => wel
    /\ pc = 6 =>
         /\ SourceChecked
         /\ \/ busy = "program" /\ row = call.addr /\ array[call.addr] = before /\ SourceInCache
            \/ Ready /\ ~wel /\ Copied
    /\ pc = 0 /\ ret = "SUCCESS" => Ready /\ ~wel /\ SourceChecked /\ Copied

LEMMA CopyStep ==
  ASSUME TypeOK, CopyInv, DriverStep, clean, call.fn = "nand_copy_page"
  PROVE  CopyInv'
<1>. USE DEF CopyInv, SourceInCache, SourceChecked, Copied
<1>1. /\ Len(Script(call.fn)) = 6
      /\ pc = 1 => NextStep = "page_read"
      /\ pc = 2 => NextStep = "wait_stop_on_ecc"
      /\ pc = 3 => NextStep = "write_enable"
      /\ pc = 4 => NextStep = "program_load_none"
      /\ pc = 5 => NextStep = "program_execute"
      /\ pc = 6 => NextStep = "wait"
  BY DEF Script, NextStep, nand_copy_page, PrivateFunctions
<1>2. pc \in 1..6 /\ Running
  <2>1. pc \in 0..6
    BY <1>1 DEF TypeOK
  <2>. QED
    BY <2>1, StepByName DEF Running
<1>3. UNCHANGED <<call, clean, before>>
  BY StepInCall
<1>4. /\ call.addr \in Pages /\ call.src \in Pages /\ call.eccp \in BOOLEAN
      /\ PageOf(call) = call.addr
      /\ cache \in Content
  <2>1. call \in Call /\ cache \in Content
    BY TypeSplit DEF TypeOK, DevTypeOK
  <2>. QED
    BY <2>1 DEF PageOf, BlockFunctions, Call
<1>5. CASE pc = 1
  <2>1. Send(PageRead(call.src))
    BY <1>1, <1>5, StepByName DEF nand_cmd_page_read
  <2>2. CASE PageRead(call.src) /\ Advance
    <3>1. Ready /\ pc' = 2
      BY <1>1, <1>5, <2>2, Advances
    <3>2. busy' = "read" /\ row' = call.src /\ UNCHANGED <<array, cfg>>
      BY <2>2, <3>1 DEF PageRead, Start, WhenReady
    <3>. QED
      BY <1>3, <1>5, <3>1, <3>2
  <2>3. CASE (PageRead(call.src) \/ UNCHANGED devVars) /\ TransferFails
    <3>1. cfg' = cfg
      BY <2>3, <1>4, CommandsKeepCfg
    <3>. QED
      BY <1>3, <2>3, <3>1, FailedCall
  <2>. QED
    BY <2>1, <2>2, <2>3 DEF Send
<1>6. CASE pc = 2
  <2>1. Receive(/\ StillBusy("wait_stop_on_ecc") \/ (Ready /\ UseStatus("wait_stop_on_ecc"))
                /\ UNCHANGED <<oldCfg, buf, flag>>)
    BY <1>1, <1>6, StepByName DEF WaitSteps
  <2>2. UNCHANGED devVars
    BY <2>1 DEF Receive
  <2>3. CASE TransferFails
    BY <1>3, <2>2, <2>3, FailedCall DEF devVars
  <2>4. CASE StillBusy("wait_stop_on_ecc")
    BY <1>3, <1>6, <2>2, <2>4 DEF StillBusy, Return, devVars, Ready
  <2>5. CASE Ready /\ UseStatus("wait_stop_on_ecc")
    <3>1. CASE EccFatal /\ call.eccp
      BY <1>3, <2>2, <2>5, <3>1 DEF UseStatus, Return, devVars
    <3>2. CASE ~(EccFatal /\ call.eccp)
      BY <1>1, <1>3, <1>4, <1>6, <2>2, <2>5, <3>2, FatalIsUncorrectable, Advances
      DEF UseStatus, devVars, Ready
    <3>. QED
      BY <3>1, <3>2
  <2>. QED
    BY <2>1, <2>3, <2>4, <2>5 DEF Receive
<1>7. CASE pc = 3
  <2>1. Send(SetWel(TRUE))
    BY <1>1, <1>7, StepByName
  <2>2. CASE SetWel(TRUE) /\ Advance
    BY <1>1, <1>3, <1>7, <2>2 DEF SetWel, WhenReady, Advance, Ready
  <2>3. CASE (SetWel(TRUE) \/ UNCHANGED devVars) /\ TransferFails
    <3>1. cfg' = cfg
      BY <2>3, CommandsKeepCfg
    <3>. QED
      BY <1>3, <2>3, <3>1, FailedCall
  <2>. QED
    BY <2>1, <2>2, <2>3 DEF Send
<1>8. CASE pc = 4
  <2>1. Send(ProgramLoad(Merge(cache, Erased)))
    BY <1>1, <1>8, StepByName DEF LoadNothing, ProgramLoadRandom
  <2>2. Send(ProgramLoad(cache))
    BY <1>4, <2>1, MergeFacts
  <2>3. CASE ProgramLoad(cache) /\ Advance
    BY <1>1, <1>3, <1>8, <2>3 DEF ProgramLoad, WhenReady, Advance, Ready
  <2>4. CASE (ProgramLoad(cache) \/ UNCHANGED devVars) /\ TransferFails
    <3>1. cfg' = cfg
      BY <2>4, <1>4, CommandsKeepCfg
    <3>. QED
      BY <1>3, <2>4, <3>1, FailedCall
  <2>. QED
    BY <2>2, <2>3, <2>4 DEF Send
<1>9. CASE pc = 5
  <2>1. Send(ProgramExecute(call.addr))
    BY <1>1, <1>4, <1>9, StepByName
  <2>2. CASE ProgramExecute(call.addr) /\ Advance
    BY <1>1, <1>3, <1>9, <2>2 DEF ProgramExecute, Start, WhenReady, Advance, Ready
  <2>3. CASE (ProgramExecute(call.addr) \/ UNCHANGED devVars) /\ TransferFails
    <3>1. cfg' = cfg
      BY <2>3, <1>4, CommandsKeepCfg
    <3>. QED
      BY <1>3, <2>3, <3>1, FailedCall
  <2>. QED
    BY <2>1, <2>2, <2>3 DEF Send
<1>10. CASE pc = 6
  BY <1>1, <1>2, <1>3, <1>10, StepByName
  DEF Receive, StillBusy, UseStatus, WaitSteps, Advance, Return, TransferFails,
      devVars, Ready
<1>. QED
  BY <1>2, <1>5, <1>6, <1>7, <1>8, <1>9, <1>10

LEMMA CopyInductive ==
  /\ Init => CopyInv
  /\ TypeOK /\ CopyInv /\ [Next]_vars => CopyInv'
<1>. USE DEF CopyInv, SourceInCache, SourceChecked, Copied
<1>1. Init => CopyInv
  BY DEF Init
<1>2. ASSUME TypeOK, CopyInv, [Next]_vars PROVE CopyInv'
  <2>1. ASSUME NEW c \in ClientCalls, Invoke(c) PROVE CopyInv'
    BY <2>1, Invoked DEF PageOf, BlockFunctions, devVars, Ready
  <2>2. CASE DriverStep
    BY <1>2, <2>2, CopyStep, StepInCall
  <2>3. CASE Chip
    <3>1. UNCHANGED drvVars /\ DevNext /\ ~Ready /\ cfg' = cfg
      BY <2>3, IdleChip DEF Chip
    <3>2. CASE ~(clean /\ call.fn = "nand_copy_page" /\ pc \in {2, 6})
      BY <1>2, <3>1, <3>2 DEF drvVars
    <3>3. CASE clean /\ call.fn = "nand_copy_page" /\ pc = 2
      <4>1. FinishRead /\ row = call.src /\ cfg = "array"
        BY <1>2, <3>1, <3>3 DEF DevNext, FinishProgram, FinishErase, FinishReset, Ready
      <4>2. array[row] \in Content
        BY <1>2, <4>1, TypeSplit DEF DevTypeOK
      <4>3. cache'.marks = array[row].marks
        BY <4>1, <4>2, ReadEnds DEF Torn, Content
      <4>. QED
        BY <1>2, <3>1, <3>3, <4>1, <4>3, ReadEnds DEF drvVars, Ready
    <3>4. CASE clean /\ call.fn = "nand_copy_page" /\ pc = 6
      <4>1. FinishProgram /\ row = call.addr /\ array[row] = before /\ cfg = "array"
        BY <1>2, <3>1, <3>4 DEF DevNext, FinishRead, FinishErase, FinishReset, Ready
      <4>2. DevTypeOK /\ pfail' \in BOOLEAN /\ call.src \in Pages
        BY <1>2, <4>1, TypeSplit DEF FinishProgram, DevTypeOK, DrvTypeOK, Call
      <4>3. Ready' /\ wel' = FALSE /\ ecc' = ecc
        BY <4>1, <4>2, ProgramEnds DEF Ready
      <4>4. ASSUME Correctable(ecc), pfail' = FALSE
            PROVE  array'[call.addr] = Merge(before, array'[call.src])
        <5>1. cache = array[call.src] /\ array[call.src] \in Content
          BY <1>2, <3>4, <4>1, <4>2, <4>4 DEF FinishProgram, Ready, DevTypeOK
        <5>2. array'[call.addr] = Merge(before, array[call.src])
          BY <4>1, <4>2, <4>4, <5>1, ProgramEnds
        <5>3. CASE call.src = call.addr
          BY <4>1, <5>1, <5>2, <5>3, MergeFacts
        <5>4. CASE call.src # call.addr
          <6>1. array'[call.src] = array[call.src]
            BY <4>1, <4>2, <5>4, ProgramEnds
          <6>. QED
            BY <5>2, <6>1
        <5>. QED
          BY <5>3, <5>4
      <4>5. pc' = 6 /\ SourceChecked' /\ Copied' /\ cfg' = "array"
        BY <1>2, <3>1, <3>4, <4>1, <4>2, <4>3, <4>4 DEF drvVars
      <4>. QED
        BY <4>3, <4>5
    <3>. QED
      BY <3>2, <3>3, <3>4
  <2>4. CASE Restart
    BY <2>4 DEF Restart
  <2>5. CASE UNCHANGED vars
    BY <1>2, <2>5 DEF vars, devVars, drvVars, Ready
  <2>. QED
    BY <1>2, <2>1, <2>2, <2>3, <2>4, <2>5 DEF Next
<1>. QED
  BY <1>1, <1>2

(* A nand_copy_page that began on an idle chip, returned success and saw   *)
(* no P_FAIL has copied its source, also onto itself, if ECC could repair  *)
(* it; with an ecc_fatal pointer success alone says that it could.         *)
THEOREM CopyCorrect == Spec => []CopyDone
<1>1. TypeOK /\ CopyInv => CopyDone
  BY DEF CopyInv, SourceChecked, Copied, CopyDone, Kept, Succeeded, Running
<1>. QED
  BY <1>1, InitType, StepType, CopyInductive, PTL DEF Spec

-----------------------------------------------------------------------------
(* nand_mark_bad_block *)

Marker == [data |-> Blank, marks |-> {"ours"}]
WithMark == [before EXCEPT !.marks = @ \union {"ours"}]

LEMMA MarkerFacts ==
  ASSUME before \in Content
  PROVE  /\ Marker \in Content /\ WithMark \in Content
         /\ Merge(before, Marker) = WithMark
         /\ Merge(before, WithMark) = WithMark
  BY DEF Merge, Marker, WithMark, Content, Marks

MarkInv ==
  clean /\ call.fn = "nand_mark_bad_block" =>
    /\ cfg = "array"
    /\ pc = 1 => Ready
    /\ pc = 2 => \/ busy = "read" /\ row = PageOf(call)
                 \/ Ready /\ (Correctable(ecc) => cache = before)
    /\ pc \in 1..5 => array[PageOf(call)] = before
    /\ pc \in 3..5 => Ready
    /\ pc \in 3..4 => (Correctable(ecc) => cache = before)
    /\ pc \in 4..5 => wel
    /\ pc = 5 => (Correctable(ecc) => cache = WithMark)
    /\ pc = 6 =>
         \/ /\ busy = "program" /\ row = PageOf(call) /\ array[row] = before
            /\ Correctable(ecc) => cache = WithMark
         \/ /\ Ready /\ ~wel
            /\ Correctable(ecc) => pfail \/ array[PageOf(call)] = WithMark
    /\ pc = 0 /\ ret = "SUCCESS" =>
         Ready /\ ~wel /\ (Correctable(ecc) => array[PageOf(call)] = WithMark)

LEMMA MarkStep ==
  ASSUME TypeOK, MarkInv, DriverStep, clean, call.fn = "nand_mark_bad_block"
  PROVE  MarkInv'
<1>. USE DEF MarkInv
<1>1. /\ Len(Script(call.fn)) = 6
      /\ pc = 1 => NextStep = "page_read"
      /\ pc = 2 => NextStep = "poll_busy"
      /\ pc = 3 => NextStep = "write_enable"
      /\ pc = 4 => NextStep = "program_load_marker"
      /\ pc = 5 => NextStep = "program_execute"
      /\ pc = 6 => NextStep = "wait_check_program"
  BY DEF Script, NextStep, nand_mark_bad_block, PrivateFunctions
<1>2. pc \in 1..6 /\ Running
  <2>1. pc \in 0..6
    BY <1>1 DEF TypeOK
  <2>. QED
    BY <2>1, StepByName DEF Running
<1>3. /\ UNCHANGED <<call, clean, before>>
      /\ PageOf(call)' = PageOf(call) /\ WithMark' = WithMark
  BY StepInCall DEF PageOf, block_to_page_addr, WithMark
<1>4. /\ PageOf(call) \in Pages
      /\ cache \in Content /\ Marker \in Content
      /\ Merge(cache, Marker) \in Content
      /\ Merge(before, Marker) = WithMark
  BY TypeSplit, PageOfType, MarkerFacts, ContentFacts DEF DrvTypeOK, DevTypeOK
<1>5. CASE pc = 1
  <2>1. Send(PageRead(PageOf(call)))
    BY <1>1, <1>5, StepByName DEF nand_cmd_page_read
  <2>2. CASE PageRead(PageOf(call)) /\ Advance
    <3>1. Ready /\ pc' = 2
      BY <1>1, <1>5, <2>2, Advances
    <3>2. busy' = "read" /\ row' = PageOf(call) /\ UNCHANGED <<array, cfg>>
      BY <2>2, <3>1 DEF PageRead, Start, WhenReady
    <3>. QED
      BY <1>3, <1>5, <3>1, <3>2
  <2>3. CASE (PageRead(PageOf(call)) \/ UNCHANGED devVars) /\ TransferFails
    <3>1. cfg' = cfg
      BY <2>3, <1>4, CommandsKeepCfg
    <3>. QED
      BY <1>3, <2>3, <3>1, FailedCall
  <2>. QED
    BY <2>1, <2>2, <2>3 DEF Send
<1>6. CASE pc = 2
  <2>1. PollBusy
    BY <1>1, <1>6, StepByName
  <2>2. CASE Ready /\ Advance
    BY <1>1, <1>3, <1>6, <2>1, <2>2, Advances DEF PollBusy, Receive, devVars, Ready
  <2>3. CASE TransferFails
    BY <1>3, <2>1, <2>3, FailedCall DEF PollBusy, Receive, devVars
  <2>. QED
    BY <2>1, <2>2, <2>3 DEF PollBusy, Receive
<1>7. CASE pc = 3
  <2>1. Send(SetWel(TRUE))
    BY <1>1, <1>7, StepByName
  <2>2. CASE SetWel(TRUE) /\ Advance
    BY <1>1, <1>3, <1>7, <2>2 DEF SetWel, WhenReady, Advance, Ready
  <2>3. CASE (SetWel(TRUE) \/ UNCHANGED devVars) /\ TransferFails
    <3>1. cfg' = cfg
      BY <2>3, CommandsKeepCfg
    <3>. QED
      BY <1>3, <2>3, <3>1, FailedCall
  <2>. QED
    BY <2>1, <2>2, <2>3 DEF Send
<1>8. CASE pc = 4
  <2>1. Send(ProgramLoad(Merge(cache, Marker)))
    BY <1>1, <1>8, StepByName DEF LoadMarker, ProgramLoadRandom, Marker
  <2>2. CASE ProgramLoad(Merge(cache, Marker)) /\ Advance
    BY <1>1, <1>3, <1>4, <1>8, <2>2 DEF ProgramLoad, WhenReady, Advance, Ready
  <2>3. CASE (ProgramLoad(Merge(cache, Marker)) \/ UNCHANGED devVars) /\ TransferFails
    <3>1. cfg' = cfg
      BY <2>3, <1>4, CommandsKeepCfg
    <3>. QED
      BY <1>3, <2>3, <3>1, FailedCall
  <2>. QED
    BY <2>1, <2>2, <2>3 DEF Send
<1>9. CASE pc = 5
  <2>1. Send(ProgramExecute(PageOf(call)))
    BY <1>1, <1>9, StepByName
  <2>2. CASE ProgramExecute(PageOf(call)) /\ Advance
    BY <1>1, <1>3, <1>9, <2>2 DEF ProgramExecute, Start, WhenReady, Advance, Ready
  <2>3. CASE (ProgramExecute(PageOf(call)) \/ UNCHANGED devVars) /\ TransferFails
    <3>1. cfg' = cfg
      BY <2>3, <1>4, CommandsKeepCfg
    <3>. QED
      BY <1>3, <2>3, <3>1, FailedCall
  <2>. QED
    BY <2>1, <2>2, <2>3 DEF Send
<1>10. CASE pc = 6
  BY <1>1, <1>2, <1>3, <1>10, StepByName
  DEF Receive, StillBusy, UseStatus, WaitSteps, Advance, Return, TransferFails,
      devVars, Ready
<1>. QED
  BY <1>2, <1>5, <1>6, <1>7, <1>8, <1>9, <1>10

LEMMA MarkInductive ==
  /\ Init => MarkInv
  /\ TypeOK /\ MarkInv /\ [Next]_vars => MarkInv'
<1>. USE DEF MarkInv
<1>1. Init => MarkInv
  BY DEF Init
<1>2. ASSUME TypeOK, MarkInv, [Next]_vars PROVE MarkInv'
  <2>1. ASSUME NEW c \in ClientCalls, Invoke(c) PROVE MarkInv'
    <3>1. array'[PageOf(call)'] = before'
      BY <2>1, Invoked DEF PageOf, block_to_page_addr, devVars
    <3>. QED
      BY <2>1, <3>1, Invoked DEF devVars, Ready
  <2>2. CASE DriverStep
    BY <1>2, <2>2, MarkStep, StepInCall
  <2>3. CASE Chip
    <3>1. UNCHANGED drvVars /\ DevNext /\ ~Ready /\ cfg' = cfg
      BY <2>3, IdleChip DEF Chip
    <3>2. PageOf(call)' = PageOf(call) /\ WithMark' = WithMark
      BY <3>1 DEF PageOf, block_to_page_addr, WithMark, drvVars
    <3>3. CASE ~(clean /\ call.fn = "nand_mark_bad_block" /\ pc \in {2, 6})
      BY <1>2, <3>1, <3>3 DEF drvVars
    <3>4. CASE clean /\ call.fn = "nand_mark_bad_block" /\ pc = 2
      <4>1. FinishRead /\ row = PageOf(call) /\ array[row] = before /\ cfg = "array"
        BY <1>2, <3>1, <3>4 DEF DevNext, FinishProgram, FinishErase, FinishReset, Ready
      <4>. QED
        BY <3>1, <3>2, <3>4, <4>1, ReadEnds DEF drvVars, Ready
    <3>5. CASE clean /\ call.fn = "nand_mark_bad_block" /\ pc = 6
      <4>1. FinishProgram /\ row = PageOf(call) /\ array[row] = before /\ cfg = "array"
        BY <1>2, <3>1, <3>5 DEF DevNext, FinishRead, FinishErase, FinishReset, Ready
      <4>2. DevTypeOK /\ pfail' \in BOOLEAN /\ before \in Content
        BY <1>2, <4>1, TypeSplit DEF FinishProgram, DevTypeOK, DrvTypeOK
      <4>3. Ready' /\ wel' = FALSE /\ ecc' = ecc
        BY <4>1, <4>2, ProgramEnds DEF Ready
      <4>4. ASSUME Correctable(ecc), pfail' = FALSE PROVE array'[PageOf(call)] = WithMark
        <5>1. cache = WithMark
          BY <1>2, <3>5, <4>1, <4>4 DEF FinishProgram, Ready
        <5>. QED
          BY <4>1, <4>2, <4>4, <5>1, ProgramEnds, MarkerFacts
      <4>5. Correctable(ecc') => pfail' \/ array'[PageOf(call)'] = WithMark'
        BY <3>2, <4>2, <4>3, <4>4
      <4>6. pc' = 6 /\ cfg' = "array"
        BY <3>1, <3>5, <4>1 DEF drvVars
      <4>. QED
        BY <4>3, <4>5, <4>6
    <3>. QED
      BY <3>3, <3>4, <3>5
  <2>4. CASE Restart
    BY <2>4 DEF Restart
  <2>5. CASE UNCHANGED vars
    BY <1>2, <2>5 DEF vars, devVars, drvVars, Ready, PageOf, block_to_page_addr, WithMark
  <2>. QED
    BY <1>2, <2>1, <2>2, <2>3, <2>4, <2>5 DEF Next
<1>. QED
  BY <1>1, <1>2

(* A nand_mark_bad_block that began on an idle chip and returned success   *)
(* has added the driver's mark to the block's first page and kept the rest *)
(* of the page, as long as ECC could repair what the page held.            *)
THEOREM MarkCorrect == Spec => []MarkDone
<1>1. TypeOK /\ MarkInv => MarkDone
  BY DEF MarkInv, WithMark, MarkDone, Kept, Succeeded, Running, PageOf,
         BlockFunctions, block_to_page_addr
<1>. QED
  BY <1>1, InitType, StepType, MarkInductive, PTL DEF Spec

-----------------------------------------------------------------------------
(* A write that began on an idle chip and returned success has closed the  *)
(* write enable latch it opened: no later program or erase gets through on *)
(* its enable.                                                             *)
THEOREM LatchCorrect == Spec => []LatchClosed
<1>1. ProgInv /\ EraseInv /\ CopyInv /\ MarkInv => LatchClosed
  BY DEF ProgInv, EraseInv, CopyInv, MarkInv, LatchClosed, Writers, Kept, Succeeded,
         Running
<1>. QED
  BY <1>1, InitType, StepType, ProgInductive, EraseInductive, CopyInductive,
     MarkInductive, PTL DEF Spec

-----------------------------------------------------------------------------
(* What a call may change *)

(* The chip is at work on no page but the call's own. *)
TargetInv == clean => UnderWrite \subseteq Target(call)

(* The functions that start a program or an erase. *)
LEMMA Starters ==
  ASSUME call \in Call, pc \in 1 .. Len(Script(call.fn))
  PROVE  /\ NextStep = "program_execute" =>
              \/ call.fn = "nand_prog_page" /\ pc = 4
              \/ call.fn = "nand_copy_page" /\ pc = 5
              \/ call.fn = "nand_mark_bad_block" /\ pc = 5
         /\ NextStep = "block_erase" => call.fn = "nand_erase_block"
<1>1. call.fn \in PublicFunctions \union PrivateFunctions
  BY DEF Call
<1>. QED
  BY <1>1
  DEF NextStep, Script, PublicFunctions, PrivateFunctions, nand_init, nand_reset,
      nand_id, nand_erase_block, nand_prog_page, nand_read_page, nand_is_free,
      nand_check_bad_block, nand_copy_page, nand_mark_bad_block, nand_read_params_page

(* The commands that start none, and keep what is under write. *)
LEMMA CommandsStartNothing ==
  ASSUME DevTypeOK,
         \/ UNCHANGED devVars \/ UnlockAll \/ Reset
         \/ \E on \in BOOLEAN : SetWel(on)
         \/ \E p \in Pages : PageRead(p)
         \/ \E c \in Content : ProgramLoad(c)
         \/ \E mode \in {"array", "params"} : SetCfg(mode)
  PROVE  UnderWrite' = UnderWrite \/ UnderWrite' = {}
<1>1. UNCHANGED devVars => UnderWrite' = UnderWrite
  BY DEF devVars, UnderWrite, BlockPages
<1>2. busy' = "none" => UnderWrite' = {}
  BY DEF UnderWrite
<1>3. busy' \in {"read", "reset"} => UnderWrite' = {}
  BY DEF UnderWrite
<1>. QED
  BY <1>1, <1>2, <1>3
  DEF UnlockAll, Reset, SetWel, PageRead, Start, ProgramLoad, SetCfg, WhenReady, Ready

(* Every step of the driver is one of those commands or starts a write.    *)
LEMMA StepCommand ==
  ASSUME TypeOK, DriverStep
  PROVE  \/ UNCHANGED devVars \/ UnlockAll \/ Reset
         \/ \E on \in BOOLEAN : SetWel(on)
         \/ \E p \in Pages : PageRead(p)
         \/ \E c \in Content : ProgramLoad(c)
         \/ \E mode \in {"array", "params"} : SetCfg(mode)
         \/ NextStep = "program_execute" /\ ProgramExecute(PageOf(call))
         \/ NextStep = "block_erase" /\ BlockErase(PageOf(call))
<1>1. /\ PageOf(call) \in Pages /\ call.src \in Pages /\ oldCfg \in {"array", "params"}
      /\ NewPage \in Content
      /\ Merge(cache, Erased) \in Content
      /\ Merge(cache, [data |-> Blank, marks |-> {"ours"}]) \in Content
  <2>1. call \in Call /\ cache \in Content /\ [data |-> Blank, marks |-> {"ours"}] \in Content
    BY TypeSplit DEF DrvTypeOK, DevTypeOK, Content, Marks
  <2>. QED
    BY <2>1, PageOfType, ContentFacts, TypeSplit DEF Call, Content, DrvTypeOK, NewPage
<1>2. nand_cmd_page_read => UNCHANGED devVars \/ \E p \in Pages : PageRead(p)
  BY <1>1 DEF nand_cmd_page_read, Send
<1>3. nand_cmd_program_load_x1 \/ LoadMarker \/ LoadNothing =>
        UNCHANGED devVars \/ \E c \in Content : ProgramLoad(c)
  BY <1>1
  DEF nand_cmd_program_load_x1, LoadMarker, LoadNothing, ProgramLoadRandom, Send, NewPage
<1>4. nand_cmd_write_enable \/ nand_cmd_write_disable =>
        UNCHANGED devVars \/ \E on \in BOOLEAN : SetWel(on)
  BY DEF nand_cmd_write_enable, nand_cmd_write_disable, Send
<1>5. SetParamsMode \/ RestoreConfig =>
        UNCHANGED devVars \/ \E mode \in {"array", "params"} : SetCfg(mode)
  BY <1>1 DEF SetParamsMode, RestoreConfig, Send
<1>6. CmdReset \/ nand_init_device \/ MspiSetup =>
        UNCHANGED devVars \/ UnlockAll \/ Reset
  BY DEF CmdReset, nand_init_device, MspiSetup, Send
<1>7. nand_cmd_program_execute =>
        UNCHANGED devVars \/ (NextStep = "program_execute" /\ ProgramExecute(PageOf(call)))
  BY DEF nand_cmd_program_execute, At, NextStep, Send
<1>8. nand_cmd_block_erase =>
        UNCHANGED devVars \/ (NextStep = "block_erase" /\ BlockErase(PageOf(call)))
  BY DEF nand_cmd_block_erase, At, NextStep, Send
<1>9. \/ nand_cmd_read_x1 \/ ResetDelay \/ ReadId \/ nand_get_writable \/ nand_get_busy
      \/ PollBusy \/ CheckLen \/ GetConfig \/ nand_wait_busy
      => UNCHANGED devVars
  BY DEF nand_cmd_read_x1, ResetDelay, ReadId, nand_get_writable, nand_get_busy,
         PollBusy, CheckLen, GetConfig, nand_wait_busy, Receive
<1>. QED
  BY <1>2, <1>3, <1>4, <1>5, <1>6, <1>7, <1>8, <1>9
  DEF DriverStep, nand_cmd_program_load_random_x1

LEMMA TargetInductive ==
  /\ Init => TargetInv
  /\ TypeOK /\ TargetInv /\ [Next]_vars => TargetInv'
<1>. USE DEF TargetInv
<1>1. Init => TargetInv
  BY DEF Init
<1>2. ASSUME TypeOK, TargetInv, [Next]_vars PROVE TargetInv'
  <2>1. ASSUME NEW c \in ClientCalls, Invoke(c) PROVE TargetInv'
    <3>1. clean' => UnderWrite' = {}
      BY <2>1, Invoked DEF UnderWrite, Ready, devVars
    <3>. QED
      BY <3>1
  <2>2. CASE DriverStep
    <3>0. UNCHANGED <<call, clean>> /\ DevTypeOK /\ call \in Call /\ PageOf(call) \in Pages
          /\ pc \in 1 .. Len(Script(call.fn))
      BY <1>2, <2>2, StepInCall, StepByName, TypeSplit, PageOfType, ScriptLength
      DEF DrvTypeOK, Running, Call
    <3>1. CASE UnderWrite' \in {UnderWrite, {}}
      BY <1>2, <3>0, <3>1 DEF Target
    <3>2. CASE NextStep = "program_execute" /\ ProgramExecute(PageOf(call)) /\ Ready /\ wel
      <4>1. UnderWrite' \subseteq {PageOf(call)}
        BY <3>2 DEF ProgramExecute, WhenReady, Start, UnderWrite
      <4>2. PageOf(call) \in Target(call)
        BY <3>0, <3>2, Starters DEF Target, PageOf, BlockFunctions, block_to_page_addr
      <4>. QED
        BY <3>0, <4>1, <4>2 DEF Target
    <3>3. CASE NextStep = "block_erase" /\ BlockErase(PageOf(call)) /\ Ready /\ wel
      <4>1. UnderWrite' \subseteq BlockPages(PageOf(call))
        BY <3>3 DEF BlockErase, WhenReady, Start, UnderWrite, BlockPages
      <4>2. call.fn = "nand_erase_block" /\ call.addr \in Blocks
        BY <3>0, <3>3, Starters DEF Call, BlockFunctions
      <4>3. PageOf(call) \div PagesPerBlock = call.addr
        BY <4>2, BlockOfAddress DEF PageOf, BlockFunctions, block_to_page_addr
      <4>4. BlockPages(PageOf(call)) = Target(call)
        BY <4>2, <4>3 DEF BlockPages, Target
      <4>. QED
        BY <3>0, <4>1, <4>4 DEF Target
    <3>4. \/ UnderWrite' \in {UnderWrite, {}}
          \/ NextStep = "program_execute" /\ ProgramExecute(PageOf(call)) /\ Ready /\ wel
          \/ NextStep = "block_erase" /\ BlockErase(PageOf(call)) /\ Ready /\ wel
      <4>1. UNCHANGED devVars => UnderWrite' \in {UnderWrite, {}}
        BY <3>0, CommandsStartNothing
      <4>2. ProgramExecute(PageOf(call)) => UNCHANGED devVars \/ (Ready /\ wel)
        BY DEF ProgramExecute, WhenReady
      <4>3. BlockErase(PageOf(call)) => UNCHANGED devVars \/ (Ready /\ wel)
        BY DEF BlockErase, WhenReady
      <4>. QED
        BY <1>2, <2>2, <3>0, <4>1, <4>2, <4>3, StepCommand, CommandsStartNothing
    <3>. QED
      BY <3>1, <3>2, <3>3, <3>4
  <2>3. CASE Chip
    <3>1. busy' = "none" /\ UNCHANGED drvVars
      BY <2>3 DEF Chip, DevNext, FinishRead, FinishProgram, FinishErase, FinishReset
    <3>2. UnderWrite' = {}
      BY <3>1 DEF UnderWrite
    <3>. QED
      BY <3>2
  <2>4. CASE Restart
    BY <2>4 DEF Restart
  <2>5. CASE UNCHANGED vars
    BY <1>2, <2>5 DEF vars, devVars, drvVars, UnderWrite, BlockPages, Target
  <2>. QED
    BY <1>2, <2>1, <2>2, <2>3, <2>4, <2>5 DEF Next
<1>. QED
  BY <1>1, <1>2

(* The array changes only under write. *)
LEMMA ArraySteps ==
  ASSUME TypeOK, [Next]_vars, NEW p \in Pages, array'[p] # array[p]
  PROVE  p \in UnderWrite
<1>1. ASSUME NEW new, array' = Rewritten(new) PROVE p \in UnderWrite
  BY <1>1 DEF Rewritten
<1>2. CASE \E c \in ClientCalls : Invoke(c)
  BY <1>2 DEF Invoke, devVars
<1>3. CASE DriverStep
  <2>1. \/ array' = array
        \/ array' = Rewritten(AllTorn)
    BY <1>3, StepCommand DEF devVars, UnlockAll, Reset, SetWel, PageRead, ProgramLoad,
       SetCfg, ProgramExecute, BlockErase, Start, WhenReady
  <2>. QED
    BY <1>1, <2>1
<1>4. CASE Chip
  BY <1>1, <1>4 DEF Chip, DevNext, FinishRead, FinishProgram, FinishErase, FinishReset
<1>5. CASE Restart
  BY <1>1, <1>5 DEF Restart, PowerCycle, devVars
<1>6. CASE UNCHANGED vars
  BY <1>6 DEF vars, devVars
<1>. QED
  BY <1>2, <1>3, <1>4, <1>5, <1>6 DEF Next

(* No step of a call that began on an idle chip, nor one of the chip, a    *)
(* reset or a power cut after it, changes a page outside the call's target.*)
THEOREM FrameCorrect == Spec => OutsideUntouched
<1>1. TypeOK /\ TargetInv /\ [Next]_vars =>
        [\A p \in Pages : clean /\ array'[p] # array[p] => p \in Target(call)]_vars
  BY ArraySteps DEF TargetInv
<1>. QED
  BY <1>1, InitType, StepType, TargetInductive, PTL DEF Spec, OutsideUntouched

-----------------------------------------------------------------------------
(* Bad block marks *)

(* What a program in progress may bring into its page. *)
PurposeInv ==
  clean /\ busy = "program" =>
    /\ call.fn \in {"nand_prog_page", "nand_copy_page", "nand_mark_bad_block"}
    /\ call.fn = "nand_prog_page" => cache.marks = {}
    /\ call.fn = "nand_copy_page" => cache.marks = array[call.src].marks

LEMMA PurposeInductive ==
  /\ Init => PurposeInv
  /\ TypeOK /\ ProgInv /\ CopyInv /\ PurposeInv /\ [Next]_vars => PurposeInv'
<1>. USE DEF PurposeInv
<1>1. Init => PurposeInv
  BY DEF Init
<1>2. ASSUME TypeOK, ProgInv, CopyInv, PurposeInv, [Next]_vars PROVE PurposeInv'
  <2>1. ASSUME NEW c \in ClientCalls, Invoke(c) PROVE PurposeInv'
    BY <2>1, Invoked DEF Ready, devVars
  <2>2. CASE DriverStep
    <3>1. UNCHANGED <<call, clean>> /\ call \in Call /\ pc \in 1 .. Len(Script(call.fn))
      BY <1>2, <2>2, StepInCall, StepByName, TypeSplit, ScriptLength
      DEF DrvTypeOK, Running, Call
    <3>2. CASE busy' # "program" \/ UNCHANGED devVars
      BY <1>2, <3>1, <3>2 DEF devVars
    <3>3. CASE NextStep = "program_execute" /\ ProgramExecute(PageOf(call)) /\ Ready /\ wel
      <4>1. UNCHANGED <<cache, array>>
        BY <3>3 DEF ProgramExecute, WhenReady, Start
      <4>2. \/ call.fn = "nand_prog_page" /\ pc = 4
            \/ call.fn = "nand_copy_page" /\ pc = 5
            \/ call.fn = "nand_mark_bad_block" /\ pc = 5
        BY <3>1, <3>3, Starters
      <4>. QED
        BY <1>2, <3>1, <4>1, <4>2 DEF ProgInv, CopyInv, NewPage, SourceInCache
    <3>4. \/ busy' # "program" \/ UNCHANGED devVars
          \/ NextStep = "program_execute" /\ ProgramExecute(PageOf(call)) /\ Ready /\ wel
      BY <1>2, <2>2, StepCommand
      DEF UnlockAll, Reset, SetWel, PageRead, ProgramLoad, SetCfg, ProgramExecute,
          BlockErase, Start, WhenReady, Ready
    <3>. QED
      BY <3>2, <3>3, <3>4
  <2>3. CASE Chip
    BY <2>3 DEF Chip, DevNext, FinishRead, FinishProgram, FinishErase, FinishReset
  <2>4. CASE Restart
    BY <2>4 DEF Restart
  <2>5. CASE UNCHANGED vars
    BY <1>2, <2>5 DEF vars, devVars, drvVars
  <2>. QED
    BY <1>2, <2>1, <2>2, <2>3, <2>4, <2>5 DEF Next
<1>. QED
  BY <1>1, <1>2

(* A mark appears in a page only when a program of it ends and the cache   *)
(* carries the mark.                                                       *)
LEMMA MarkSteps ==
  ASSUME TypeOK, [Next]_vars, NEW p \in Pages, "ours" \in array'[p].marks \ array[p].marks
  PROVE  busy = "program" /\ "ours" \in cache.marks
<1>1. array[p] \in Content /\ cache \in Content
  BY DEF TypeOK, DevTypeOK
<1>2. array' # Rewritten(AllTorn) /\ array' # array
  BY <1>1 DEF Rewritten, AllTorn, Torn, Content
<1>3. ~(\E c \in ClientCalls : Invoke(c)) /\ ~UNCHANGED vars /\ ~Restart
  BY <1>2 DEF Invoke, vars, devVars, Restart, PowerCycle
<1>4. ~DriverStep
  BY <1>2, StepCommand DEF devVars, UnlockAll, Reset, SetWel, PageRead, ProgramLoad,
     SetCfg, ProgramExecute, BlockErase, Start, WhenReady
<1>5. DevNext
  BY <1>3, <1>4 DEF Next, Chip
<1>6. ~FinishErase
  BY <1>1, <1>2 DEF FinishErase, Rewritten, Erased
<1>7. FinishProgram
  BY <1>2, <1>5, <1>6 DEF DevNext, FinishRead, FinishReset
<1>8. "ours" \in Merge(array[p], cache).marks
  BY <1>1, <1>7, ZenonT(40) DEF FinishProgram, Rewritten, Torn, Merge, Content
<1>. QED
  BY <1>7, <1>8 DEF FinishProgram, Merge

(* The driver's bad block mark reaches a page only by nand_mark_bad_block, *)
(* or by a copy of a page that carries it: never with the data of a        *)
(* nand_prog_page, and never out of the cache of an earlier call.          *)
THEOREM MarksCorrect == Spec => MarkedOnPurpose
<1>1. TypeOK /\ PurposeInv /\ [Next]_vars =>
        [\A p \in Pages :
           clean /\ "ours" \in array'[p].marks \ array[p].marks =>
             \/ call.fn = "nand_mark_bad_block"
             \/ call.fn = "nand_copy_page" /\ "ours" \in array[call.src].marks]_vars
  BY MarkSteps DEF PurposeInv
<1>. QED
  BY <1>1, InitType, StepType, ProgInductive, CopyInductive, PurposeInductive, PTL
  DEF Spec, MarkedOnPurpose
=============================================================================
