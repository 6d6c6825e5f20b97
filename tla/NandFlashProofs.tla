-------------------------- MODULE NandFlashProofs --------------------------
(***************************************************************************)
(* NandFlash is well typed; the facts about steps, commands and the ends   *)
(* of the chip's operations that the proofs about the calls rest on; what  *)
(* the calls that only read have told their caller when they return        *)
(* success, that nand_init recovers the chip, and that no public function  *)
(* says success while the chip is busy.                                    *)
(*                                                                         *)
(* As in NandFlashWriteProofs, an invariant FInv per function says what    *)
(* holds at each position of its script.                                   *)
(***************************************************************************)
EXTENDS NandFlash, TLAPS

-----------------------------------------------------------------------------
(* Addresses and contents *)

(* The first page of a block is a page, and so are pages 0 and 1. *)
LEMMA BlockAddress ==
  ASSUME NEW b \in Blocks
  PROVE  b * PagesPerBlock \in Pages
<1>. DEFINE N == NumBlocks  P == PagesPerBlock
<1>1. N \in Nat \ {0} /\ P \in Nat \ {0} /\ b \in Nat /\ b + 1 <= N
  BY GeometryAssumption DEF Blocks
<1>2. b * P \in Nat
  BY <1>1
<1>3. (b + 1) * P <= N * P
  BY <1>1, Z3
<1>4. (b + 1) * P = b * P + P
  BY <1>1, Z3
<1>5. b * P <= N * P - 1
  BY <1>1, <1>2, <1>3, <1>4
<1>. QED
  BY <1>1, <1>2, <1>5 DEF Pages

(* block_to_page_addr is undone by the division the chip makes of it. *)
LEMMA BlockOfAddress ==
  ASSUME NEW b \in Blocks
  PROVE  (b * PagesPerBlock) \div PagesPerBlock = b
<1>1. PagesPerBlock \in Nat \ {0} /\ b \in Nat
  BY GeometryAssumption DEF Blocks
<1>. QED
  BY <1>1, Z3

LEMMA FirstPages == 0 \in Pages /\ 1 \in Pages
<1>1. NumBlocks \in Nat \ {0} /\ PagesPerBlock \in Nat /\ PagesPerBlock > 1
  BY GeometryAssumption, DriverAssumption
<1>2. NumBlocks * PagesPerBlock \in Nat /\ NumBlocks * PagesPerBlock >= PagesPerBlock
  BY <1>1, Z3
<1>. QED
  BY <1>1, <1>2 DEF Pages

LEMMA ContentFacts ==
  /\ Erased \in Content
  /\ Noise \in Content
  /\ \A old, new \in Content : Merge(old, new) \in Content
  /\ \A c \in Content : Torn(c) \in Content
  BY DEF Content, Erased, Noise, Merge, Torn, Marks

-----------------------------------------------------------------------------
(* Scripts *)

LEMMA ScriptLength ==
  ASSUME NEW fn \in PublicFunctions \union PrivateFunctions
  PROVE  Len(Script(fn)) \in Nat \ {0}
  BY DEF Script, PublicFunctions, PrivateFunctions, nand_init, nand_reset, nand_id,
         nand_erase_block, nand_prog_page, nand_read_page, nand_is_free,
         nand_check_bad_block, nand_copy_page, nand_mark_bad_block,
         nand_read_params_page

LEMMA ClientCallType == ClientCalls \subseteq Call /\ InitCall \in Call
  BY FirstPages DEF ClientCalls, Call, InitCall, PublicFunctions, BlockFunctions

LEMMA PageOfType ==
  ASSUME NEW c \in Call
  PROVE  PageOf(c) \in Pages
  BY BlockAddress DEF Call, PageOf, block_to_page_addr

-----------------------------------------------------------------------------
(* Types.  The driver's own variables are typed by DrvTypeOK. *)

DrvTypeOK ==
  /\ mspi \in BOOLEAN
  /\ call \in Call
  /\ pc \in 0 .. Len(Script(call.fn))
  /\ polls \in 1 .. PollLimit
  /\ oldCfg \in {"array", "params"}
  /\ ret \in Statuses
  /\ buf \in Content
  /\ eccFatal \in {"unset", "yes", "no"} /\ flag \in {"unset", "yes", "no"}
  /\ clean \in BOOLEAN
  /\ before \in Content

LEMMA TypeSplit ==
  /\ TypeOK <=> DevTypeOK /\ DrvTypeOK
  /\ TypeOK' <=> DevTypeOK' /\ DrvTypeOK'
  BY DEF TypeOK, DrvTypeOK

LEMMA InitType == Init => TypeOK
<1>. SUFFICES ASSUME Init PROVE TypeOK
  OBVIOUS
<1>1. DevTypeOK
  <2>1. {Erased, [Erased EXCEPT !.marks = {"factory"}]} \subseteq Content
    BY DEF Erased, Content, Marks
  <2>2. array \in [Pages -> Content]
    BY <2>1 DEF Init, DevInit
  <2>3. cache \in Content /\ row \in Pages
    BY ContentFacts, FirstPages DEF Init, DevInit
  <2>4. /\ wel \in BOOLEAN /\ pfail \in BOOLEAN /\ efail \in BOOLEAN
        /\ locked \in BOOLEAN
    BY DEF Init, DevInit
  <2>5. ecc \in 0..7
    BY DEF Init, DevInit
  <2>6. /\ busy \in {"none", "read", "program", "erase", "reset"}
        /\ cfg \in {"array", "params"}
    BY DEF Init, DevInit
  <2>. QED
    BY <2>2, <2>3, <2>4, <2>5, <2>6 DEF DevTypeOK
<1>2. DrvTypeOK
  <2>1. PollLimit \in 1 .. PollLimit
    BY DriverAssumption
  <2>2. 1 \in 0 .. Len(Script(InitCall.fn))
    BY ScriptLength, ClientCallType DEF Call
  <2>. QED
    BY <2>1, <2>2, ContentFacts, ClientCallType DEF Init, DrvTypeOK, Statuses
<1>. QED
  BY <1>1, <1>2, TypeSplit

(* What a step of the driver leaves well typed besides the chip and its    *)
(* out parameters.                                                         *)
ControlTypeOK ==
  /\ call \in Call
  /\ pc \in 0 .. Len(Script(call.fn))
  /\ polls \in 1 .. PollLimit
  /\ ret \in Statuses
  /\ clean \in BOOLEAN
  /\ before \in Content

LEMMA ReturnType ==
  ASSUME DrvTypeOK, NEW status \in Statuses, Return(status)
  PROVE  ControlTypeOK'
<1>1. 0 \in 0 .. Len(Script(call.fn))
  BY ScriptLength DEF DrvTypeOK, Call
<1>. QED
  BY <1>1 DEF Return, DrvTypeOK, ControlTypeOK

LEMMA AdvanceType ==
  ASSUME DrvTypeOK, Running, Advance
  PROVE  ControlTypeOK'
<1>1. CASE pc = Len(Script(call.fn))
  BY <1>1, ReturnType DEF Advance, Statuses
<1>2. CASE pc # Len(Script(call.fn))
  <2>1. PollLimit \in 1 .. PollLimit
    BY DriverAssumption
  <2>2. pc + 1 \in 0 .. Len(Script(call.fn))
    BY <1>2, ScriptLength DEF DrvTypeOK, Call
  <2>. QED
    BY <1>2, <2>1, <2>2 DEF Advance, DrvTypeOK, ControlTypeOK
<1>. QED
  BY <1>1, <1>2

LEMMA TransferFailsType ==
  ASSUME DrvTypeOK, TransferFails, mspi' = mspi \/ mspi' \in BOOLEAN
  PROVE  DrvTypeOK'
  BY ReturnType DEF TransferFails, Statuses, ControlTypeOK, DrvTypeOK, outVars

(* A transfer that brings no data back. *)
LEMMA SentType ==
  ASSUME DrvTypeOK, Running, mspi' = mspi \/ mspi' \in BOOLEAN,
         \/ Advance /\ UNCHANGED <<oldCfg, outVars>>
         \/ TransferFails
  PROVE  DrvTypeOK'
  BY AdvanceType, TransferFailsType DEF ControlTypeOK, DrvTypeOK, outVars

(* The commands keep the chip's variables well typed. *)
LEMMA CommandTypes ==
  ASSUME DevTypeOK
  PROVE  /\ UNCHANGED devVars => DevTypeOK'
         /\ \A on \in BOOLEAN : SetWel(on) => DevTypeOK'
         /\ \A p \in Pages : PageRead(p) => DevTypeOK'
         /\ \A c \in Content : ProgramLoad(c) => DevTypeOK'
         /\ \A c \in Content : ProgramLoadRandom(c) => DevTypeOK'
         /\ \A p \in Pages : ProgramExecute(p) => DevTypeOK'
         /\ \A p \in Pages : BlockErase(p) => DevTypeOK'
         /\ \A mode \in {"array", "params"} : SetCfg(mode) => DevTypeOK'
         /\ UnlockAll => DevTypeOK'
         /\ Reset => DevTypeOK'
<1>1. UNCHANGED devVars => DevTypeOK'
  BY DEF devVars, DevTypeOK
<1>2. \A on \in BOOLEAN : SetWel(on) => DevTypeOK'
  BY <1>1 DEF SetWel, WhenReady, DevTypeOK
<1>3. \A p \in Pages : PageRead(p) => DevTypeOK'
  BY <1>1 DEF PageRead, WhenReady, Start, DevTypeOK
<1>4. \A c \in Content : ProgramLoad(c) => DevTypeOK'
  BY <1>1 DEF ProgramLoad, WhenReady, DevTypeOK
<1>5. \A c \in Content : ProgramLoadRandom(c) => DevTypeOK'
  BY <1>4, ContentFacts DEF ProgramLoadRandom, DevTypeOK
<1>6. \A p \in Pages : ProgramExecute(p) => DevTypeOK'
  BY <1>1 DEF ProgramExecute, WhenReady, Start, DevTypeOK
<1>7. \A p \in Pages : BlockErase(p) => DevTypeOK'
  BY <1>1 DEF BlockErase, WhenReady, Start, DevTypeOK
<1>8. \A mode \in {"array", "params"} : SetCfg(mode) => DevTypeOK'
  BY <1>1 DEF SetCfg, WhenReady, DevTypeOK
<1>9. UnlockAll => DevTypeOK'
  BY <1>1 DEF UnlockAll, WhenReady, DevTypeOK
<1>10. Reset => DevTypeOK'
  BY ContentFacts DEF Reset, Rewritten, AllTorn, DevTypeOK
<1>. QED
  BY <1>1, <1>2, <1>3, <1>4, <1>5, <1>6, <1>7, <1>8, <1>9, <1>10

(* So do the ends of its operations and a power cycle. *)
LEMMA ChipType ==
  ASSUME DevTypeOK
  PROVE  /\ DevNext => DevTypeOK'
         /\ PowerCycle => DevTypeOK'
<1>1. FinishRead => DevTypeOK'
  <2>1. [data |-> ParamData, marks |-> {}] \in Content
    BY DEF Content
  <2>. QED
    BY <2>1, EccAssumption, ContentFacts DEF FinishRead, DevTypeOK
<1>2. FinishProgram => DevTypeOK'
  <2>. SUFFICES ASSUME FinishProgram PROVE DevTypeOK'
    OBVIOUS
  <2>1. \A c \in Content : Merge(c, cache) \in Content /\ Torn(Merge(c, cache)) \in Content
    BY ContentFacts DEF DevTypeOK
  <2>2. array' \in [Pages -> Content]
    BY <2>1 DEF FinishProgram, Rewritten, DevTypeOK
  <2>. QED
    BY <2>2 DEF FinishProgram, DevTypeOK
<1>3. FinishErase => DevTypeOK'
  BY ContentFacts DEF FinishErase, Rewritten, AllTorn, DevTypeOK
<1>4. FinishReset => DevTypeOK'
  BY DEF FinishReset, DevTypeOK
<1>5. PowerCycle => DevTypeOK'
  <2>. SUFFICES ASSUME PowerCycle PROVE DevTypeOK'
    OBVIOUS
  <2>1. array' \in [Pages -> Content]
    BY ContentFacts DEF PowerCycle, Rewritten, AllTorn, DevTypeOK
  <2>2. cache' \in Content /\ row' \in Pages
    BY ContentFacts, FirstPages DEF PowerCycle
  <2>3. /\ wel' \in BOOLEAN /\ pfail' \in BOOLEAN /\ efail' \in BOOLEAN
        /\ locked' \in BOOLEAN
    BY DEF PowerCycle
  <2>4. ecc' \in 0..7
    BY DEF PowerCycle
  <2>. QED
    BY <2>1, <2>2, <2>3, <2>4 DEF PowerCycle, DevTypeOK
<1>. QED
  BY <1>1, <1>2, <1>3, <1>4, <1>5 DEF DevNext

LEMMA DriverStepType ==
  ASSUME TypeOK, DriverStep
  PROVE  TypeOK'
<1>. USE TypeSplit
<1>1. ASSUME nand_cmd_write_enable PROVE TypeOK'
  <2>1. Running /\ Send(SetWel(TRUE))
    BY <1>1 DEF nand_cmd_write_enable, At
  <2>3. DevTypeOK'
    BY <2>1, CommandTypes DEF Send
  <2>4. DrvTypeOK'
    BY <2>1, SentType DEF Send
  <2>. QED
    BY <2>3, <2>4, TypeSplit
<1>2. ASSUME nand_cmd_write_disable PROVE TypeOK'
  <2>1. Running /\ Send(SetWel(FALSE))
    BY <1>2 DEF nand_cmd_write_disable, At
  <2>3. DevTypeOK'
    BY <2>1, CommandTypes DEF Send
  <2>4. DrvTypeOK'
    BY <2>1, SentType DEF Send
  <2>. QED
    BY <2>3, <2>4, TypeSplit
<1>3. ASSUME nand_cmd_page_read PROVE TypeOK'
  <2>1. Running /\ Send(PageRead(IF call.fn = "nand_copy_page" THEN call.src ELSE PageOf(call)))
    BY <1>3 DEF nand_cmd_page_read, At
  <2>2. (IF call.fn = "nand_copy_page" THEN call.src ELSE PageOf(call)) \in Pages
    BY PageOfType DEF DrvTypeOK, Call
  <2>3. DevTypeOK'
    BY <2>1, <2>2, CommandTypes DEF Send
  <2>4. DrvTypeOK'
    BY <2>1, SentType DEF Send
  <2>. QED
    BY <2>3, <2>4, TypeSplit
<1>4. ASSUME nand_cmd_program_load_x1 PROVE TypeOK'
  <2>1. Running /\ Send(ProgramLoad([data |-> call.data, marks |-> {}]))
    BY <1>4 DEF nand_cmd_program_load_x1, At
  <2>2. [data |-> call.data, marks |-> {}] \in Content
    BY DEF DrvTypeOK, Call, Content
  <2>3. DevTypeOK'
    BY <2>1, <2>2, CommandTypes DEF Send
  <2>4. DrvTypeOK'
    BY <2>1, SentType DEF Send
  <2>. QED
    BY <2>3, <2>4, TypeSplit
<1>5. ASSUME LoadMarker PROVE TypeOK'
  <2>1. Running /\ Send(ProgramLoadRandom([data |-> Blank, marks |-> {"ours"}]))
    BY <1>5 DEF LoadMarker, At
  <2>2. [data |-> Blank, marks |-> {"ours"}] \in Content
    BY DEF Content, Marks
  <2>3. DevTypeOK'
    BY <2>1, <2>2, CommandTypes DEF Send
  <2>4. DrvTypeOK'
    BY <2>1, SentType DEF Send
  <2>. QED
    BY <2>3, <2>4, TypeSplit
<1>6. ASSUME LoadNothing PROVE TypeOK'
  <2>1. Running /\ Send(ProgramLoadRandom(Erased))
    BY <1>6 DEF LoadNothing, At
  <2>2. Erased \in Content
    BY ContentFacts
  <2>3. DevTypeOK'
    BY <2>1, <2>2, CommandTypes DEF Send
  <2>4. DrvTypeOK'
    BY <2>1, SentType DEF Send
  <2>. QED
    BY <2>3, <2>4, TypeSplit
<1>7. ASSUME nand_cmd_program_execute PROVE TypeOK'
  <2>1. Running /\ Send(ProgramExecute(PageOf(call)))
    BY <1>7 DEF nand_cmd_program_execute, At
  <2>2. PageOf(call) \in Pages
    BY PageOfType DEF DrvTypeOK
  <2>3. DevTypeOK'
    BY <2>1, <2>2, CommandTypes DEF Send
  <2>4. DrvTypeOK'
    BY <2>1, SentType DEF Send
  <2>. QED
    BY <2>3, <2>4, TypeSplit
<1>8. ASSUME nand_cmd_block_erase PROVE TypeOK'
  <2>1. Running /\ Send(BlockErase(PageOf(call)))
    BY <1>8 DEF nand_cmd_block_erase, At
  <2>2. PageOf(call) \in Pages
    BY PageOfType DEF DrvTypeOK
  <2>3. DevTypeOK'
    BY <2>1, <2>2, CommandTypes DEF Send
  <2>4. DrvTypeOK'
    BY <2>1, SentType DEF Send
  <2>. QED
    BY <2>3, <2>4, TypeSplit
<1>9. ASSUME CmdReset PROVE TypeOK'
  <2>1. Running /\ Send(Reset)
    BY <1>9 DEF CmdReset, At
  <2>3. DevTypeOK'
    BY <2>1, CommandTypes DEF Send
  <2>4. DrvTypeOK'
    BY <2>1, SentType DEF Send
  <2>. QED
    BY <2>3, <2>4, TypeSplit
<1>10. ASSUME nand_init_device PROVE TypeOK'
  <2>1. Running /\ Send(UnlockAll)
    BY <1>10 DEF nand_init_device, At
  <2>3. DevTypeOK'
    BY <2>1, CommandTypes DEF Send
  <2>4. DrvTypeOK'
    BY <2>1, SentType DEF Send
  <2>. QED
    BY <2>3, <2>4, TypeSplit
<1>11. ASSUME MspiSetup PROVE TypeOK'
  <2>1. DevTypeOK'
    BY <1>11, CommandTypes DEF MspiSetup
  <2>2. mspi' = mspi \/ mspi' \in BOOLEAN
    BY <1>11 DEF MspiSetup
  <2>3. DrvTypeOK'
    BY <1>11, <2>2, SentType DEF MspiSetup, At
  <2>. QED
    BY <2>1, <2>3, TypeSplit
<1>12. ASSUME SetParamsMode PROVE TypeOK'
  <2>1. Running /\ Send(SetCfg("params"))
    BY <1>12 DEF SetParamsMode, At
  <2>3. DevTypeOK'
    BY <2>1, CommandTypes DEF Send
  <2>4. DrvTypeOK'
    BY <2>1, SentType DEF Send
  <2>. QED
    BY <2>3, <2>4, TypeSplit
<1>13. ASSUME RestoreConfig PROVE TypeOK'
  <2>1. Running /\ Send(SetCfg(oldCfg))
    BY <1>13 DEF RestoreConfig, At
  <2>2. oldCfg \in {"array", "params"}
    BY DEF DrvTypeOK
  <2>3. DevTypeOK'
    BY <2>1, <2>2, CommandTypes DEF Send
  <2>4. DrvTypeOK'
    BY <2>1, SentType DEF Send
  <2>. QED
    BY <2>3, <2>4, TypeSplit
<1>14. ASSUME ResetDelay PROVE TypeOK'
  <2>1. DrvTypeOK'
    BY <1>14, SentType DEF ResetDelay, At
  <2>. QED
    BY <1>14, <2>1, CommandTypes, TypeSplit DEF ResetDelay
<1>15. ASSUME ReadId PROVE TypeOK'
  <2>1. DrvTypeOK'
    BY <1>15, AdvanceType, ReturnType, TransferFailsType
    DEF ReadId, Receive, At, ControlTypeOK, DrvTypeOK, Statuses, outVars
  <2>. QED
    BY <1>15, <2>1, CommandTypes, TypeSplit DEF ReadId, Receive
<1>16. ASSUME nand_cmd_read_x1 PROVE TypeOK'
  <2>1. CASE TransferFails
    BY <1>16, <2>1, TransferFailsType, CommandTypes, TypeSplit DEF nand_cmd_read_x1, Receive
  <2>2. CASE ~TransferFails
    <3>1. ControlTypeOK'
      BY <1>16, <2>2, AdvanceType DEF nand_cmd_read_x1, Receive, At
    <3>2. buf' \in Content
      BY <1>16, <2>2, ContentFacts DEF nand_cmd_read_x1, Receive, DevTypeOK
    <3>3. flag' \in {"unset", "yes", "no"}
      BY <1>16, <2>2 DEF nand_cmd_read_x1, Receive, YesNo, DrvTypeOK
    <3>4. DrvTypeOK'
      BY <1>16, <2>2, <3>1, <3>2, <3>3
      DEF nand_cmd_read_x1, Receive, ControlTypeOK, DrvTypeOK
    <3>. QED
      BY <1>16, <3>4, CommandTypes, TypeSplit DEF nand_cmd_read_x1, Receive
  <2>. QED
    BY <2>1, <2>2
<1>17. ASSUME nand_get_writable PROVE TypeOK'
  <2>1. DrvTypeOK'
    BY <1>17, AdvanceType, TransferFailsType
    DEF nand_get_writable, Receive, At, ControlTypeOK, DrvTypeOK, YesNo
  <2>. QED
    BY <1>17, <2>1, CommandTypes, TypeSplit DEF nand_get_writable, Receive
<1>18. ASSUME nand_get_busy PROVE TypeOK'
  <2>1. DrvTypeOK'
    BY <1>18, AdvanceType, TransferFailsType
    DEF nand_get_busy, Receive, At, ControlTypeOK, DrvTypeOK, YesNo
  <2>. QED
    BY <1>18, <2>1, CommandTypes, TypeSplit DEF nand_get_busy, Receive
<1>19. ASSUME PollBusy PROVE TypeOK'
  <2>1. DrvTypeOK'
    BY <1>19, SentType DEF PollBusy, Receive, At
  <2>. QED
    BY <1>19, <2>1, CommandTypes, TypeSplit DEF PollBusy, Receive
<1>20. ASSUME CheckLen PROVE TypeOK'
  <2>1. DrvTypeOK'
    BY <1>20, AdvanceType, ReturnType
    DEF CheckLen, At, ControlTypeOK, DrvTypeOK, Statuses, outVars
  <2>. QED
    BY <1>20, <2>1, CommandTypes, TypeSplit DEF CheckLen
<1>21. ASSUME GetConfig PROVE TypeOK'
  <2>1. DrvTypeOK'
    BY <1>21, AdvanceType, TransferFailsType
    DEF GetConfig, Receive, At, ControlTypeOK, DrvTypeOK, DevTypeOK, outVars
  <2>. QED
    BY <1>21, <2>1, CommandTypes, TypeSplit DEF GetConfig, Receive
<1>22. ASSUME nand_wait_busy PROVE TypeOK'
  <2>1. PICK step \in WaitSteps :
          /\ At(step)
          /\ Receive(/\ StillBusy(step) \/ (Ready /\ UseStatus(step))
                     /\ UNCHANGED <<oldCfg, buf, flag>>)
    BY <1>22 DEF nand_wait_busy
  <2>2. CASE TransferFails
    BY <2>1, <2>2, TransferFailsType, CommandTypes, TypeSplit DEF Receive
  <2>3. CASE StillBusy(step) /\ UNCHANGED <<oldCfg, buf, flag>>
    <3>1. ControlTypeOK'
      <4>1. CASE polls = 1
        BY <2>3, <4>1, ReturnType DEF StillBusy, Statuses
      <4>2. CASE polls # 1
        <5>1. PollLimit \in Nat /\ polls - 1 \in 1 .. PollLimit
          BY <4>2, DriverAssumption DEF DrvTypeOK
        <5>. QED
          BY <2>3, <4>2, <5>1 DEF StillBusy, DrvTypeOK, ControlTypeOK
      <4>. QED
        BY <4>1, <4>2
    <3>2. DrvTypeOK'
      BY <2>1, <2>3, <3>1 DEF Receive, StillBusy, ControlTypeOK, DrvTypeOK
    <3>. QED
      BY <2>1, <3>2, CommandTypes, TypeSplit DEF Receive
  <2>4. CASE UseStatus(step) /\ UNCHANGED <<oldCfg, buf, flag>>
    <3>1. \/ Advance
          \/ Return("HW_ERR")
      BY <2>4, <2>1 DEF UseStatus, WaitSteps
    <3>2. ControlTypeOK'
      BY <2>1, <3>1, AdvanceType, ReturnType DEF At, Statuses
    <3>3. eccFatal' \in {"unset", "yes", "no"}
      BY <2>1, <2>4 DEF UseStatus, WaitSteps, DrvTypeOK, YesNo
    <3>4. DrvTypeOK'
      BY <2>1, <2>4, <3>2, <3>3 DEF Receive, ControlTypeOK, DrvTypeOK
    <3>. QED
      BY <2>1, <3>4, CommandTypes, TypeSplit DEF Receive
  <2>. QED
    BY <2>1, <2>2, <2>3, <2>4 DEF Receive
<1>. QED
  BY <1>1, <1>2, <1>3, <1>4, <1>5, <1>6, <1>7, <1>8, <1>9, <1>10, <1>11, <1>12,
     <1>13, <1>14, <1>15, <1>16, <1>17, <1>18, <1>19, <1>20, <1>21, <1>22
  DEF DriverStep, nand_cmd_program_load_random_x1

LEMMA InvokeType ==
  ASSUME TypeOK, NEW c \in Call, Invoke(c)
  PROVE  TypeOK'
<1>1. PollLimit \in 1 .. PollLimit
  BY DriverAssumption
<1>2. 1 \in 0 .. Len(Script(c.fn))
  BY ScriptLength DEF Call
<1>3. array[PageOf(c)] \in Content
  BY TypeSplit, PageOfType DEF DevTypeOK
<1>4. DrvTypeOK'
  BY <1>1, <1>2, <1>3, TypeSplit, ContentFacts DEF Invoke, DrvTypeOK, DevTypeOK, Statuses
<1>. QED
  BY <1>4, TypeSplit, CommandTypes DEF Invoke

LEMMA StepType == TypeOK /\ [Next]_vars => TypeOK'
<1>. SUFFICES ASSUME TypeOK, [Next]_vars PROVE TypeOK'
  OBVIOUS
<1>. USE TypeSplit
<1>1. ASSUME NEW c \in ClientCalls, Invoke(c) PROVE TypeOK'
  BY <1>1, InvokeType, ClientCallType
<1>2. CASE DriverStep
  BY <1>2, DriverStepType
<1>3. CASE Chip
  BY <1>3, ChipType DEF Chip, drvVars, DrvTypeOK
<1>4. CASE Restart
  <2>1. PollLimit \in 1 .. PollLimit
    BY DriverAssumption
  <2>2. 1 \in 0 .. Len(Script(InitCall.fn))
    BY ScriptLength, ClientCallType DEF Call
  <2>3. DrvTypeOK'
    BY <1>4, <2>1, <2>2, ContentFacts, ClientCallType DEF Restart, DrvTypeOK, Statuses
  <2>. QED
    BY <1>4, <2>3, ChipType, CommandTypes DEF Restart
<1>5. CASE UNCHANGED vars
  BY <1>5, CommandTypes DEF vars, drvVars, DrvTypeOK
<1>. QED
  BY <1>1, <1>2, <1>3, <1>4, <1>5 DEF Next

(* Every variable of the driver and of the chip keeps to its type: no step *)
(* runs off the end of a script, addresses a page the chip does not have,  *)
(* or lets the poll counter of nand_wait_busy reach zero.                  *)
THEOREM TypeCorrect == Spec => []TypeOK
  BY InitType, StepType, PTL DEF Spec

-----------------------------------------------------------------------------
(* What the step at the current position of the script does, by its name. *)

NextStep == Script(call.fn)[pc]

LEMMA StepByName ==
  ASSUME DriverStep
  PROVE  /\ Running
         /\ NextStep = "write_enable"        => Send(SetWel(TRUE))
         /\ NextStep = "page_read"           => nand_cmd_page_read
         /\ NextStep = "read_cache"          => nand_cmd_read_x1
         /\ NextStep = "program_load"        => nand_cmd_program_load_x1
         /\ NextStep = "program_load_marker" => LoadMarker
         /\ NextStep = "program_load_none"   => LoadNothing
         /\ NextStep = "program_execute"     => Send(ProgramExecute(PageOf(call)))
         /\ NextStep = "block_erase"         => Send(BlockErase(PageOf(call)))
         /\ NextStep = "reset"               => Send(Reset)
         /\ NextStep = "reset_delay"         => ResetDelay
         /\ NextStep = "unlock"              => Send(UnlockAll)
         /\ NextStep = "mspi_setup"          => MspiSetup
         /\ NextStep = "read_id"             => ReadId
         /\ NextStep = "poll_busy"           => PollBusy
         /\ NextStep = "check_len"           => CheckLen
         /\ NextStep = "get_config"          => GetConfig
         /\ NextStep = "set_params_mode"     => Send(SetCfg("params"))
         /\ NextStep = "restore_config"      => Send(SetCfg(oldCfg))
         /\ \A step \in WaitSteps : NextStep = step =>
              Receive(/\ StillBusy(step) \/ (Ready /\ UseStatus(step))
                      /\ UNCHANGED <<oldCfg, buf, flag>>)
<1>. USE DEF DriverStep, At, NextStep, nand_cmd_write_enable, nand_cmd_write_disable,
     nand_cmd_page_read, nand_cmd_read_x1, nand_cmd_program_load_x1,
     nand_cmd_program_load_random_x1, LoadMarker, LoadNothing,
     nand_cmd_program_execute, nand_cmd_block_erase, CmdReset, ResetDelay,
     nand_init_device, MspiSetup, ReadId, nand_get_writable, nand_get_busy,
     PollBusy, CheckLen, GetConfig, SetParamsMode, RestoreConfig
<1>1. Running
  BY DEF nand_wait_busy
<1>2. NextStep \in WaitSteps => nand_wait_busy
  BY DEF WaitSteps
<1>3. ASSUME NEW step \in WaitSteps, NextStep = step
      PROVE  Receive(/\ StillBusy(step) \/ (Ready /\ UseStatus(step))
                     /\ UNCHANGED <<oldCfg, buf, flag>>)
  BY <1>2, <1>3 DEF nand_wait_busy
<1>4. NextStep \notin WaitSteps => ~nand_wait_busy
  BY DEF nand_wait_busy
<1>5. /\ NextStep = "write_enable"    => Send(SetWel(TRUE))
      /\ NextStep = "program_execute" => Send(ProgramExecute(PageOf(call)))
      /\ NextStep = "block_erase"     => Send(BlockErase(PageOf(call)))
  BY <1>4 DEF WaitSteps
<1>6. /\ NextStep = "page_read"           => nand_cmd_page_read
      /\ NextStep = "read_cache"          => nand_cmd_read_x1
      /\ NextStep = "program_load"        => nand_cmd_program_load_x1
      /\ NextStep = "program_load_marker" => LoadMarker
      /\ NextStep = "program_load_none"   => LoadNothing
  BY <1>4 DEF WaitSteps
<1>7. /\ NextStep = "poll_busy"       => PollBusy
      /\ NextStep = "check_len"       => CheckLen
      /\ NextStep = "get_config"      => GetConfig
      /\ NextStep = "set_params_mode" => Send(SetCfg("params"))
      /\ NextStep = "restore_config"  => Send(SetCfg(oldCfg))
  BY <1>4 DEF WaitSteps
<1>8. /\ NextStep = "reset"       => Send(Reset)
      /\ NextStep = "reset_delay" => ResetDelay
      /\ NextStep = "unlock"      => Send(UnlockAll)
      /\ NextStep = "mspi_setup"  => MspiSetup
      /\ NextStep = "read_id"     => ReadId
  BY <1>4 DEF WaitSteps
<1>. QED
  BY <1>1, <1>3, <1>5, <1>6, <1>7, <1>8

(* A step stays in its call. *)
LEMMA StepInCall ==
  ASSUME DriverStep
  PROVE  UNCHANGED <<call, clean, before>>
  BY DEF DriverStep, nand_cmd_write_enable, nand_cmd_write_disable,
     nand_cmd_page_read, nand_cmd_read_x1, nand_cmd_program_load_x1,
     nand_cmd_program_load_random_x1, LoadMarker, LoadNothing,
     nand_cmd_program_execute, nand_cmd_block_erase, CmdReset, ResetDelay,
     nand_init_device, MspiSetup, ReadId, nand_get_writable, nand_get_busy,
     PollBusy, CheckLen, GetConfig, SetParamsMode, RestoreConfig, nand_wait_busy,
     Send, Receive, TransferFails, Advance, Return, StillBusy, UseStatus, WaitSteps

(* A call whose transfer fails is over. *)
LEMMA FailedCall ==
  ASSUME TransferFails
  PROVE  pc' = 0 /\ ret' = "ERROR"
  BY DEF TransferFails, Return

(* How a step goes on. *)
LEMMA Advances ==
  ASSUME Advance
  PROVE  IF pc = Len(Script(call.fn)) THEN pc' = 0 /\ ret' = "SUCCESS"
         ELSE pc' = pc + 1 /\ ret' = ret
  BY DEF Advance, Return

(* Only SET FEATURES and RESET change the CFG bits. *)
LEMMA CommandsKeepCfg ==
  /\ UNCHANGED devVars => cfg' = cfg
  /\ \A on \in BOOLEAN : SetWel(on) => cfg' = cfg
  /\ \A p \in Pages : PageRead(p) => cfg' = cfg
  /\ \A c \in Content : ProgramLoad(c) => cfg' = cfg
  /\ \A c \in Content : ProgramLoadRandom(c) => cfg' = cfg
  /\ \A p \in Pages : ProgramExecute(p) => cfg' = cfg
  /\ \A p \in Pages : BlockErase(p) => cfg' = cfg
  BY DEF devVars, SetWel, PageRead, ProgramLoad, ProgramLoadRandom, ProgramExecute,
     BlockErase, WhenReady, Start

-----------------------------------------------------------------------------
(* The ends of the chip's operations *)

LEMMA ReadEnds ==
  ASSUME FinishRead
  PROVE  /\ busy = "read" /\ busy' = "none"
         /\ UNCHANGED <<array, row, wel, pfail, efail, cfg, locked>>
         /\ cfg = "array" =>
              cache' = IF Correctable(ecc') THEN array[row] ELSE Torn(array[row])
         /\ cfg = "params" => cache'.data = ParamData
  BY DEF FinishRead

LEMMA ProgramEnds ==
  ASSUME DevTypeOK, FinishProgram
  PROVE  /\ busy = "program" /\ busy' = "none" /\ wel' = FALSE
         /\ UNCHANGED <<cache, row, efail, ecc, cfg, locked>>
         /\ \A p \in Pages \ {row} : array'[p] = array[p]
         /\ cfg = "array" /\ pfail' = FALSE => array'[row] = Merge(array[row], cache)
<1>1. \A p \in Pages \ {row} : array'[p] = array[p]
  BY DEF FinishProgram, Rewritten, UnderWrite, DevTypeOK
<1>2. ASSUME cfg = "array", pfail' = FALSE PROVE array'[row] = Merge(array[row], cache)
  <2>1. ~locked /\ row \in Pages /\ UnderWrite = {row}
    BY <1>2 DEF FinishProgram, UnderWrite, DevTypeOK
  <2>. QED
    BY <1>2, <2>1 DEF FinishProgram, Rewritten
<1>. QED
  BY <1>1, <1>2 DEF FinishProgram

LEMMA EraseEnds ==
  ASSUME DevTypeOK, FinishErase
  PROVE  /\ busy = "erase" /\ busy' = "none" /\ wel' = FALSE
         /\ UNCHANGED <<cache, row, pfail, ecc, cfg, locked>>
         /\ cfg = "array" /\ efail' = FALSE =>
              \A p \in BlockPages(row) : array'[p] = Erased
<1>1. ASSUME cfg = "array", efail' = FALSE
      PROVE  \A p \in BlockPages(row) : array'[p] = Erased
  <2>1. ~locked /\ UnderWrite = BlockPages(row)
    BY <1>1 DEF FinishErase, UnderWrite, DevTypeOK
  <2>2. BlockPages(row) \subseteq Pages
    BY DEF BlockPages
  <2>. QED
    BY <1>1, <2>1, <2>2 DEF FinishErase, Rewritten
<1>. QED
  BY <1>1 DEF FinishErase

(* An idle chip does nothing on its own. *)
LEMMA IdleChip ==
  ASSUME DevNext
  PROVE  ~Ready /\ cfg' = cfg
  BY DEF DevNext, FinishRead, FinishProgram, FinishErase, FinishReset, Ready

LEMMA Invoked ==
  ASSUME NEW c, Invoke(c)
  PROVE  /\ call' = c /\ pc' = 1 /\ before' = array[PageOf(c)]
         /\ eccFatal' = "unset" /\ flag' = "unset"
         /\ UNCHANGED devVars
         /\ clean' => Ready /\ cfg = "array"
  BY DEF Invoke

-----------------------------------------------------------------------------
(* nand_read_page, nand_is_free and nand_check_bad_block *)

Readers == {"nand_read_page", "nand_is_free", "nand_check_bad_block"}

PageInCache == Correctable(ecc) => cache = array[PageOf(call)]

(* A caller that asked for it is told whether ECC could repair the page.   *)
EccReported ==
  /\ eccFatal = "no" => Correctable(ecc)
  /\ call.eccp => eccFatal # "unset"

(* The answer is the one the bytes read call for. *)
Answered ==
  /\ call.fn = "nand_is_free" => (flag = "yes" <=> ~EccAreaWritten(buf))
  /\ call.fn = "nand_check_bad_block" => (flag = "yes" <=> buf.marks # {})

ReadInv ==
  clean /\ call.fn \in Readers =>
    /\ cfg = "array"
    /\ pc = 1 => Ready
    /\ pc \in 1..2 => eccFatal = "unset"
    /\ pc = 2 => \/ busy = "read" /\ row = PageOf(call)
                 \/ Ready /\ PageInCache
    /\ pc = 3 => Ready /\ PageInCache /\ EccReported
    /\ pc = 0 /\ ret = "SUCCESS" =>
         /\ Ready /\ EccReported /\ Answered
         /\ Correctable(ecc) => buf = array[PageOf(call)]

LEMMA CodeReported == YesNo(EccFatal) = "no" => Correctable(ecc)
  BY DEF YesNo, EccFatal, nand_status_to_ecc, Correctable

LEMMA ReadStep ==
  ASSUME TypeOK, ReadInv, DriverStep, clean, call.fn \in Readers
  PROVE  ReadInv'
<1>. USE DEF ReadInv, PageInCache, EccReported
<1>1. /\ Len(Script(call.fn)) = 3
      /\ pc = 1 => NextStep = "page_read"
      /\ pc = 2 => NextStep = "wait_report_ecc"
      /\ pc = 3 => NextStep = "read_cache"
  BY DEF Readers, Script, NextStep, nand_read_page, nand_is_free,
         nand_check_bad_block, PrivateFunctions
<1>2. pc \in 1..3 /\ Running
  <2>1. pc \in 0..3
    BY <1>1 DEF TypeOK
  <2>. QED
    BY <2>1, StepByName DEF Running
<1>3. UNCHANGED <<call, clean, before>> /\ PageOf(call)' = PageOf(call)
  BY StepInCall DEF PageOf, block_to_page_addr
<1>4. PageOf(call) \in Pages
  BY TypeSplit, PageOfType DEF DrvTypeOK
<1>5. CASE pc = 1
  <2>1. Send(PageRead(PageOf(call)))
    BY <1>1, <1>5, StepByName DEF nand_cmd_page_read, Readers
  <2>2. CASE PageRead(PageOf(call)) /\ Advance /\ UNCHANGED <<oldCfg, outVars>>
    <3>1. Ready /\ pc' = 2
      BY <1>1, <1>5, <2>2, Advances
    <3>2. busy' = "read" /\ row' = PageOf(call) /\ UNCHANGED <<array, cfg, eccFatal>>
      BY <2>2, <3>1 DEF PageRead, Start, WhenReady, outVars
    <3>. QED
      BY <1>3, <1>5, <3>1, <3>2
  <2>3. CASE (PageRead(PageOf(call)) \/ UNCHANGED devVars) /\ TransferFails
    <3>1. cfg' = cfg
      BY <2>3, <1>4, CommandsKeepCfg
    <3>. QED
      BY <1>3, <2>3, <3>1, FailedCall
  <2>. QED
    BY <2>1, <2>2, <2>3 DEF Send
<1>6. CASE pc = 2
  <2>1. Receive(/\ StillBusy("wait_report_ecc") \/ (Ready /\ UseStatus("wait_report_ecc"))
                /\ UNCHANGED <<oldCfg, buf, flag>>)
    BY <1>1, <1>6, StepByName DEF WaitSteps
  <2>2. UNCHANGED devVars
    BY <2>1 DEF Receive
  <2>3. CASE TransferFails
    BY <1>3, <2>2, <2>3, FailedCall DEF devVars
  <2>4. CASE StillBusy("wait_report_ecc")
    BY <1>3, <1>6, <2>2, <2>4 DEF StillBusy, Return, devVars, Ready
  <2>5. CASE Ready /\ UseStatus("wait_report_ecc")
    <3>1. pc' = 3 /\ eccFatal' = IF call.eccp THEN YesNo(EccFatal) ELSE eccFatal
      BY <1>1, <1>6, <2>5, Advances DEF UseStatus
    <3>2. EccReported'
      BY <1>3, <1>6, <2>2, <3>1, CodeReported DEF devVars, YesNo
    <3>. QED
      BY <1>3, <1>6, <2>2, <2>5, <3>1, <3>2 DEF devVars, Ready
  <2>. QED
    BY <2>1, <2>3, <2>4, <2>5 DEF Receive
<1>7. CASE pc = 3
  <2>1. nand_cmd_read_x1
    BY <1>1, <1>7, StepByName
  <2>2. UNCHANGED devVars
    BY <2>1 DEF nand_cmd_read_x1, Receive
  <2>3. CASE TransferFails
    BY <1>3, <2>2, <2>3, FailedCall DEF devVars
  <2>4. CASE ~TransferFails
    <3>1. /\ pc' = 0 /\ buf' = cache /\ eccFatal' = eccFatal
          /\ call.fn = "nand_is_free" => flag' = YesNo(~EccAreaWritten(buf'))
          /\ call.fn = "nand_check_bad_block" => flag' = YesNo(buf'.marks # {})
      BY <1>1, <1>7, <2>1, <2>4, Advances DEF nand_cmd_read_x1, Receive
    <3>2. Answered'
      BY <1>3, <3>1 DEF Answered, YesNo, EccAreaWritten
    <3>3. Ready' /\ EccReported' /\ cfg' = "array"
      BY <1>3, <1>7, <2>2, <3>1 DEF devVars, Ready
    <3>4. Correctable(ecc') => buf' = array'[PageOf(call)']
      BY <1>3, <1>7, <2>2, <3>1 DEF devVars
    <3>. QED
      BY <3>1, <3>2, <3>3, <3>4
  <2>. QED
    BY <2>3, <2>4
<1>. QED
  BY <1>2, <1>5, <1>6, <1>7

LEMMA ReadInductive ==
  /\ Init => ReadInv
  /\ TypeOK /\ ReadInv /\ [Next]_vars => ReadInv'
<1>. USE DEF ReadInv, PageInCache, EccReported
<1>1. Init => ReadInv
  BY DEF Init
<1>2. ASSUME TypeOK, ReadInv, [Next]_vars PROVE ReadInv'
  <2>1. ASSUME NEW c \in ClientCalls, Invoke(c) PROVE ReadInv'
    BY <2>1, Invoked DEF devVars, Ready
  <2>2. CASE DriverStep
    BY <1>2, <2>2, ReadStep, StepInCall
  <2>3. CASE Chip
    <3>1. UNCHANGED drvVars /\ DevNext /\ ~Ready /\ cfg' = cfg
      BY <2>3, IdleChip DEF Chip
    <3>2. CASE ~(clean /\ call.fn \in Readers /\ pc = 2)
      BY <1>2, <3>1, <3>2 DEF drvVars
    <3>3. CASE clean /\ call.fn \in Readers /\ pc = 2
      <4>1. FinishRead /\ row = PageOf(call) /\ cfg = "array"
        BY <1>2, <3>1, <3>3 DEF DevNext, FinishProgram, FinishErase, FinishReset, Ready
      <4>2. PageOf(call)' = PageOf(call)
        BY <3>1 DEF PageOf, block_to_page_addr, drvVars
      <4>3. Ready' /\ PageInCache'
        BY <4>1, <4>2, ReadEnds DEF Ready
      <4>. QED
        BY <1>2, <3>1, <3>3, <4>1, <4>3 DEF drvVars
    <3>. QED
      BY <3>2, <3>3
  <2>4. CASE Restart
    BY <2>4 DEF Restart
  <2>5. CASE UNCHANGED vars
    BY <1>2, <2>5 DEF vars, devVars, drvVars, Ready, PageOf, block_to_page_addr, Answered
  <2>. QED
    BY <1>2, <2>1, <2>2, <2>3, <2>4, <2>5 DEF Next
<1>. QED
  BY <1>1, <1>2

(* A nand_read_page that began on an idle chip in array mode and returned  *)
(* success without a fatal ECC error returned the page it was asked for.   *)
THEOREM ReadCorrect == Spec => []ReadTrue
<1>1. TypeOK /\ ReadInv => ReadTrue
  BY DEF ReadInv, EccReported, ReadTrue, Kept, Succeeded, Running, Readers, PageOf,
         BlockFunctions
<1>. QED
  BY <1>1, InitType, StepType, ReadInductive, PTL DEF Spec

(* nand_is_free answers for the page, nand_check_bad_block for the first   *)
(* page of the block, as long as ECC could repair what was read.           *)
THEOREM AnswersCorrect == Spec => []AnswersTrue
<1>1. TypeOK /\ ReadInv => AnswersTrue
  BY DEF ReadInv, Answered, AnswersTrue, Kept, Succeeded, Running, Readers,
         PageOf, BlockFunctions, block_to_page_addr
<1>. QED
  BY <1>1, InitType, StepType, ReadInductive, PTL DEF Spec

-----------------------------------------------------------------------------
(* nand_read_params_page *)

ParamsInv ==
  clean /\ call.fn = "nand_read_params_page" =>
    /\ pc \in 1..3 => Ready /\ cfg = "array"
    /\ pc \in 3..7 => oldCfg = "array"
    /\ pc \in 4..6 => cfg = "params"
    /\ pc = 4 => Ready
    /\ pc = 5 => busy = "read" \/ (Ready /\ cache.data = ParamData)
    /\ pc = 6 => Ready /\ cache.data = ParamData
    /\ pc = 7 => Ready /\ buf.data = ParamData
    /\ pc = 0 /\ ret = "SUCCESS" => Ready /\ buf.data = ParamData /\ cfg = "array"

LEMMA ParamsStep ==
  ASSUME TypeOK, ParamsInv, DriverStep, clean, call.fn = "nand_read_params_page"
  PROVE  ParamsInv'
<1>. USE DEF ParamsInv
<1>1. /\ Len(Script(call.fn)) = 7
      /\ pc = 1 => NextStep = "check_len"
      /\ pc = 2 => NextStep = "get_config"
      /\ pc = 3 => NextStep = "set_params_mode"
      /\ pc = 4 => NextStep = "page_read"
      /\ pc = 5 => NextStep = "wait_report_ecc"
      /\ pc = 6 => NextStep = "read_cache"
      /\ pc = 7 => NextStep = "restore_config"
  BY DEF Script, NextStep, nand_read_params_page, PrivateFunctions
<1>2. pc \in 1..7 /\ Running
  <2>1. pc \in 0..7
    BY <1>1 DEF TypeOK
  <2>. QED
    BY <2>1, StepByName DEF Running
<1>3. UNCHANGED <<call, clean, before>>
  BY StepInCall
<1>4. ASSUME TransferFails PROVE ParamsInv'
  BY <1>3, <1>4, FailedCall
<1>5. CASE pc = 1
  <2>1. CheckLen
    BY <1>1, <1>5, StepByName
  <2>2. CASE Advance
    BY <1>1, <1>5, <2>1, <2>2, Advances DEF CheckLen, devVars, Ready
  <2>3. CASE Return("INVALID_ARG")
    BY <2>3 DEF Return
  <2>. QED
    BY <2>1, <2>2, <2>3 DEF CheckLen
<1>6. CASE pc = 2
  <2>1. GetConfig
    BY <1>1, <1>6, StepByName
  <2>2. CASE Advance /\ oldCfg' = cfg
    BY <1>1, <1>6, <2>1, <2>2, Advances DEF GetConfig, Receive, devVars, Ready
  <2>. QED
    BY <1>4, <2>1, <2>2 DEF GetConfig, Receive
<1>7. CASE pc = 3
  <2>1. Send(SetCfg("params"))
    BY <1>1, <1>7, StepByName
  <2>2. CASE SetCfg("params") /\ Advance /\ UNCHANGED <<oldCfg, outVars>>
    <3>1. pc' = 4 /\ oldCfg' = "array"
      BY <1>1, <1>7, <2>2, Advances
    <3>2. Ready' /\ cfg' = "params"
      BY <1>7, <2>2 DEF SetCfg, WhenReady, Ready
    <3>. QED
      BY <3>1, <3>2
  <2>. QED
    BY <1>4, <2>1, <2>2 DEF Send
<1>8. CASE pc = 4
  <2>1. Send(PageRead(PageOf(call)))
    BY <1>1, <1>8, StepByName DEF nand_cmd_page_read
  <2>2. CASE PageRead(PageOf(call)) /\ Advance /\ UNCHANGED <<oldCfg, outVars>>
    <3>1. pc' = 5 /\ oldCfg' = "array"
      BY <1>1, <1>8, <2>2, Advances
    <3>2. busy' = "read" /\ cfg' = "params"
      BY <1>8, <2>2 DEF PageRead, WhenReady, Start
    <3>. QED
      BY <3>1, <3>2
  <2>. QED
    BY <1>4, <2>1, <2>2 DEF Send
<1>9. CASE pc = 5
  <2>1. Receive(/\ StillBusy("wait_report_ecc") \/ (Ready /\ UseStatus("wait_report_ecc"))
                /\ UNCHANGED <<oldCfg, buf, flag>>)
    BY <1>1, <1>9, StepByName DEF WaitSteps
  <2>2. UNCHANGED devVars
    BY <2>1 DEF Receive
  <2>3. CASE StillBusy("wait_report_ecc") /\ UNCHANGED oldCfg
    <3>1. (pc' = 0 /\ ret' = "TIMEOUT") \/ pc' = pc
      BY <2>3 DEF StillBusy, Return
    <3>. QED
      BY <1>9, <2>2, <2>3, <3>1 DEF StillBusy, devVars, Ready
  <2>4. CASE Ready /\ UseStatus("wait_report_ecc") /\ UNCHANGED oldCfg
    <3>1. pc' = 6
      BY <1>1, <1>9, <2>4, Advances DEF UseStatus
    <3>. QED
      BY <1>9, <2>2, <2>4, <3>1 DEF devVars, Ready
  <2>. QED
    BY <1>4, <2>1, <2>3, <2>4 DEF Receive
<1>10. CASE pc = 6
  <2>1. nand_cmd_read_x1
    BY <1>1, <1>10, StepByName
  <2>2. CASE ~TransferFails
    <3>1. pc' = 7 /\ buf' = cache /\ oldCfg' = oldCfg /\ UNCHANGED devVars
      BY <1>1, <1>10, <2>1, <2>2, Advances DEF nand_cmd_read_x1, Receive
    <3>. QED
      BY <1>10, <3>1 DEF devVars, Ready
  <2>. QED
    BY <1>4, <2>2
<1>11. CASE pc = 7
  <2>1. Send(SetCfg("array"))
    BY <1>1, <1>11, StepByName
  <2>2. CASE SetCfg("array") /\ Advance /\ UNCHANGED <<oldCfg, outVars>>
    <3>1. pc' = 0 /\ buf' = buf
      BY <1>1, <1>11, <2>2, Advances DEF outVars
    <3>2. Ready' /\ cfg' = "array"
      BY <1>11, <2>2 DEF SetCfg, WhenReady, Ready
    <3>. QED
      BY <1>11, <3>1, <3>2
  <2>. QED
    BY <1>4, <2>1, <2>2 DEF Send
<1>. QED
  BY <1>2, <1>5, <1>6, <1>7, <1>8, <1>9, <1>10, <1>11

LEMMA ParamsInductive ==
  /\ Init => ParamsInv
  /\ TypeOK /\ ParamsInv /\ [Next]_vars => ParamsInv'
<1>. USE DEF ParamsInv
<1>1. Init => ParamsInv
  BY DEF Init
<1>2. ASSUME TypeOK, ParamsInv, [Next]_vars PROVE ParamsInv'
  <2>1. ASSUME NEW c \in ClientCalls, Invoke(c) PROVE ParamsInv'
    BY <2>1, Invoked DEF devVars, Ready
  <2>2. CASE DriverStep
    BY <1>2, <2>2, ParamsStep, StepInCall
  <2>3. CASE Chip
    <3>1. UNCHANGED drvVars /\ DevNext /\ ~Ready /\ cfg' = cfg
      BY <2>3, IdleChip DEF Chip
    <3>2. CASE ~(clean /\ call.fn = "nand_read_params_page" /\ pc = 5)
      BY <1>2, <3>1, <3>2 DEF drvVars
    <3>3. CASE clean /\ call.fn = "nand_read_params_page" /\ pc = 5
      <4>1. FinishRead /\ cfg = "params"
        BY <1>2, <3>1, <3>3 DEF DevNext, FinishProgram, FinishErase, FinishReset, Ready
      <4>. QED
        BY <1>2, <3>1, <3>3, <4>1, ReadEnds DEF drvVars, Ready
    <3>. QED
      BY <3>2, <3>3
  <2>4. CASE Restart
    BY <2>4 DEF Restart
  <2>5. CASE UNCHANGED vars
    BY <1>2, <2>5 DEF vars, devVars, drvVars, Ready
  <2>. QED
    BY <1>2, <2>1, <2>2, <2>3, <2>4, <2>5 DEF Next
<1>. QED
  BY <1>1, <1>2

(* A nand_read_params_page that began on an idle chip in array mode and    *)
(* returned success returned the parameter page and undid its mode switch. *)
THEOREM ParamsCorrect == Spec => []ParamsDone
<1>1. TypeOK /\ ParamsInv => ParamsDone
  BY DEF ParamsInv, ParamsDone, Kept, Succeeded, Running
<1>. QED
  BY <1>1, InitType, StepType, ParamsInductive, PTL DEF Spec

-----------------------------------------------------------------------------
(* nand_init, with a chip that resets within its data sheet time *)

InitInv ==
  call.fn = "nand_init" =>
    /\ pc = 3 => busy \in {"reset", "none"} /\ ~wel
    /\ pc \in 4..5 => Ready /\ ~wel
    /\ pc = 5 => ~locked
    /\ pc = 0 /\ ret = "SUCCESS" => Ready /\ ~wel /\ ~locked

LEMMA InitStep ==
  ASSUME ~MayOverrun, TypeOK, InitInv, DriverStep, call.fn = "nand_init"
  PROVE  InitInv'
<1>. USE DEF InitInv
<1>1. /\ Len(Script(call.fn)) = 5
      /\ pc = 1 => NextStep = "mspi_setup"
      /\ pc = 2 => NextStep = "reset"
      /\ pc = 3 => NextStep = "reset_delay"
      /\ pc = 4 => NextStep = "unlock"
      /\ pc = 5 => NextStep = "mspi_setup"
  BY DEF Script, NextStep, nand_init, PrivateFunctions
<1>2. pc \in 1..5 /\ Running
  <2>1. pc \in 0..5
    BY <1>1 DEF TypeOK
  <2>. QED
    BY <2>1, StepByName DEF Running
<1>3. ASSUME TransferFails PROVE InitInv'
  BY <1>3, FailedCall
<1>4. CASE pc \in {1, 5}
  <2>1. MspiSetup
    BY <1>1, <1>4, StepByName
  <2>2. CASE UNCHANGED devVars /\ Advance
    <3>1. CASE pc = 1
      <4>1. pc' = 2
        BY <1>1, <2>2, <3>1, Advances
      <4>. QED
        BY <4>1
    <3>2. CASE pc = 5
      <4>1. pc' = 0
        BY <1>1, <2>2, <3>2, Advances
      <4>. QED
        BY <2>2, <3>2, <4>1 DEF devVars, Ready
    <3>. QED
      BY <1>4, <3>1, <3>2
  <2>. QED
    BY <1>3, <2>1, <2>2 DEF MspiSetup
<1>5. CASE pc = 2
  <2>1. Send(Reset)
    BY <1>1, <1>5, StepByName
  <2>2. CASE Reset /\ Advance
    <3>1. pc' = 3
      BY <1>1, <1>5, <2>2, Advances
    <3>. QED
      BY <2>2, <3>1 DEF Reset
  <2>. QED
    BY <1>3, <2>1, <2>2 DEF Send
<1>6. CASE pc = 3
  <2>1. ResetDelay
    BY <1>1, <1>6, StepByName
  <2>2. pc' = 4
    BY <1>1, <1>6, <2>1, Advances DEF ResetDelay
  <2>. QED
    BY <1>6, <2>1, <2>2 DEF ResetDelay, devVars, Ready
<1>7. CASE pc = 4
  <2>1. Send(UnlockAll)
    BY <1>1, <1>7, StepByName
  <2>2. CASE UnlockAll /\ Advance
    <3>1. pc' = 5
      BY <1>1, <1>7, <2>2, Advances
    <3>. QED
      BY <1>7, <2>2, <3>1 DEF UnlockAll, WhenReady, Ready
  <2>. QED
    BY <1>3, <2>1, <2>2 DEF Send
<1>. QED
  BY <1>2, <1>4, <1>5, <1>6, <1>7

LEMMA InitInductive ==
  ASSUME ~MayOverrun
  PROVE  /\ Init => InitInv
         /\ TypeOK /\ InitInv /\ [Next]_vars => InitInv'
<1>. USE DEF InitInv
<1>1. Init => InitInv
  BY DEF Init
<1>2. ASSUME TypeOK, InitInv, [Next]_vars PROVE InitInv'
  <2>1. ASSUME NEW c \in ClientCalls, Invoke(c) PROVE InitInv'
    BY <2>1, Invoked
  <2>2. CASE DriverStep
    BY <1>2, <2>2, InitStep, StepInCall
  <2>3. CASE Chip
    <3>1. UNCHANGED drvVars /\ DevNext /\ ~Ready
      BY <2>3, IdleChip DEF Chip
    <3>2. CASE ~(call.fn = "nand_init" /\ pc = 3)
      BY <1>2, <3>1, <3>2 DEF drvVars
    <3>3. CASE call.fn = "nand_init" /\ pc = 3
      <4>1. FinishReset
        BY <1>2, <3>1, <3>3 DEF DevNext, FinishRead, FinishProgram, FinishErase, Ready
      <4>. QED
        BY <1>2, <3>1, <3>3, <4>1 DEF FinishReset, drvVars
    <3>. QED
      BY <3>2, <3>3
  <2>4. CASE Restart
    BY <2>4 DEF Restart
  <2>5. CASE UNCHANGED vars
    BY <1>2, <2>5 DEF vars, devVars, drvVars, Ready
  <2>. QED
    BY <1>2, <2>1, <2>2, <2>3, <2>4, <2>5 DEF Next
<1>. QED
  BY <1>1, <1>2

(* Whatever a restart interrupted, a nand_init that returned success left  *)
(* the chip idle, not writable and unlocked, if the chip keeps its times.  *)
THEOREM InitCorrect ==
  ASSUME ~MayOverrun
  PROVE  Spec => []InitRecovers
<1>1. InitInv => InitRecovers
  BY DEF InitInv, InitRecovers, Succeeded, Running
<1>. QED
  BY <1>1, InitType, StepType, InitInductive, PTL DEF Spec

-----------------------------------------------------------------------------
(* Success means that the chip is idle. *)

(* The positions after the last wait of each function. *)
QuietInv ==
  /\ call.fn = "nand_reset" /\ pc = 2 => busy \in {"reset", "none"}
  /\ call.fn \in Readers /\ pc = 3 => Ready
  /\ call.fn = "nand_read_params_page" /\ pc \in 6..7 => Ready
  /\ pc = 0 /\ ret = "SUCCESS" /\ call.fn \in PublicFunctions => Ready

(* A step that is not a wait moves on, or leaves the function; success is  *)
(* said only at the end of the script.                                     *)
LEMMA StepMoves ==
  ASSUME TypeOK, DriverStep
  PROVE  /\ pc' # 0 => (pc' = pc /\ NextStep \in WaitSteps) \/ (pc' = pc + 1 /\ Advance)
         /\ pc' = 0 /\ ret' = "SUCCESS" => pc = Len(Script(call.fn)) /\ Advance
<1>1. \/ Advance
      \/ TransferFails
      \/ nand_wait_busy \/ ReadId \/ CheckLen
  BY DEF DriverStep, nand_cmd_write_enable, nand_cmd_write_disable,
     nand_cmd_page_read, nand_cmd_read_x1, nand_cmd_program_load_x1,
     nand_cmd_program_load_random_x1, LoadMarker, LoadNothing,
     nand_cmd_program_execute, nand_cmd_block_erase, CmdReset, ResetDelay,
     nand_init_device, MspiSetup, nand_get_writable, nand_get_busy,
     PollBusy, GetConfig, SetParamsMode, RestoreConfig, Send, Receive
<1>2. TransferFails => pc' = 0 /\ ret' = "ERROR"
  BY FailedCall
<1>3. \A status \in Statuses : Return(status) => pc' = 0 /\ ret' = status
  BY DEF Return
<1>4. ReadId \/ CheckLen =>
        Advance \/ (pc' = 0 /\ ret' # "SUCCESS")
  BY <1>2, <1>3 DEF ReadId, CheckLen, Receive, Statuses
<1>5. nand_wait_busy =>
        \/ Advance
        \/ pc' = pc /\ NextStep \in WaitSteps
        \/ pc' = 0 /\ ret' # "SUCCESS"
  BY <1>2, <1>3 DEF nand_wait_busy, At, NextStep, Receive, StillBusy, UseStatus,
     WaitSteps, Statuses
<1>6. pc # 0
  BY StepByName DEF Running
<1>7. Advance => IF pc = Len(Script(call.fn)) THEN pc' = 0 ELSE pc' = pc + 1
  BY Advances
<1>8. pc \in Nat /\ pc + 1 # 0
  BY TypeSplit, ScriptLength DEF DrvTypeOK, Call
<1>. QED
  BY <1>1, <1>2, <1>4, <1>5, <1>6, <1>7, <1>8

(* A wait is left on an idle chip, or with an error. *)
LEMMA WaitLeaves ==
  ASSUME DriverStep, NextStep \in WaitSteps,
         pc' # pc, ~(pc' = 0 /\ ret' # "SUCCESS")
  PROVE  Ready'
<1>1. PICK step \in WaitSteps : NextStep = step
  OBVIOUS
<1>2. Receive(/\ StillBusy(step) \/ (Ready /\ UseStatus(step))
              /\ UNCHANGED <<oldCfg, buf, flag>>)
  BY <1>1, StepByName
<1>3. ~TransferFails
  BY FailedCall
<1>4. ~StillBusy(step)
  BY DEF StillBusy, Return
<1>. QED
  BY <1>2, <1>3, <1>4 DEF Receive, devVars, Ready

(* The steps around the positions of QuietInv. *)
LEMMA QuietScripts ==
  /\ call.fn = "nand_reset" =>
       /\ Len(Script(call.fn)) = 2
       /\ pc = 1 => NextStep = "reset"
       /\ pc = 2 => NextStep = "reset_delay"
  /\ call.fn \in Readers =>
       /\ Len(Script(call.fn)) = 3
       /\ pc = 2 => NextStep = "wait_report_ecc"
       /\ pc = 3 => NextStep = "read_cache"
  /\ call.fn = "nand_read_params_page" =>
       /\ Len(Script(call.fn)) = 7
       /\ pc = 5 => NextStep = "wait_report_ecc"
       /\ pc = 6 => NextStep = "read_cache"
       /\ pc = 7 => NextStep = "restore_config"
  /\ call.fn = "nand_id" => Len(Script(call.fn)) = 1 /\ (pc = 1 => NextStep = "read_id")
  /\ call.fn \in Writers /\ pc = Len(Script(call.fn)) => NextStep \in WaitSteps
<1>. USE DEF NextStep, Script, PrivateFunctions
<1>1. call.fn = "nand_reset" =>
        /\ Len(Script(call.fn)) = 2
        /\ pc = 1 => NextStep = "reset"
        /\ pc = 2 => NextStep = "reset_delay"
  BY DEF nand_reset
<1>2. call.fn \in Readers =>
        /\ Len(Script(call.fn)) = 3
        /\ pc = 2 => NextStep = "wait_report_ecc"
        /\ pc = 3 => NextStep = "read_cache"
  BY DEF Readers, nand_read_page, nand_is_free, nand_check_bad_block
<1>3. call.fn = "nand_read_params_page" =>
        /\ Len(Script(call.fn)) = 7
        /\ pc = 5 => NextStep = "wait_report_ecc"
        /\ pc = 6 => NextStep = "read_cache"
        /\ pc = 7 => NextStep = "restore_config"
  BY DEF nand_read_params_page
<1>4. call.fn = "nand_id" => Len(Script(call.fn)) = 1 /\ (pc = 1 => NextStep = "read_id")
  BY DEF nand_id
<1>5. call.fn \in Writers /\ pc = Len(Script(call.fn)) => NextStep \in WaitSteps
  <2>1. call.fn = "nand_erase_block" /\ pc = Len(Script(call.fn)) => NextStep = "wait_check_erase"
    BY DEF nand_erase_block
  <2>2. call.fn = "nand_prog_page" /\ pc = Len(Script(call.fn)) => NextStep = "wait_check_program"
    BY DEF nand_prog_page
  <2>3. call.fn = "nand_mark_bad_block" /\ pc = Len(Script(call.fn)) =>
          NextStep = "wait_check_program"
    BY DEF nand_mark_bad_block
  <2>4. call.fn = "nand_copy_page" /\ pc = Len(Script(call.fn)) => NextStep = "wait"
    BY DEF nand_copy_page
  <2>. QED
    BY <2>1, <2>2, <2>3, <2>4 DEF Writers, WaitSteps
<1>. QED
  BY <1>1, <1>2, <1>3, <1>4, <1>5

LEMMA QuietPositions ==
  ASSUME TypeOK, QuietInv, DriverStep
  PROVE  /\ call.fn = "nand_reset" /\ pc' = 2 => busy' \in {"reset", "none"}
         /\ call.fn \in Readers /\ pc' = 3 => Ready'
         /\ call.fn = "nand_read_params_page" /\ pc' \in 6..7 => Ready'
<1>. USE DEF QuietInv
<1>0. pc \in Nat
  BY TypeSplit, ScriptLength DEF DrvTypeOK, Call
<1>1. ASSUME call.fn = "nand_reset", pc' = 2 PROVE busy' \in {"reset", "none"}
  <2>1. pc = 1 /\ NextStep = "reset"
    BY <1>0, <1>1, StepMoves, QuietScripts DEF WaitSteps
  <2>2. Send(Reset) /\ ~TransferFails
    BY <1>1, <2>1, StepByName, FailedCall
  <2>. QED
    BY <2>2 DEF Send, Reset
<1>2. ASSUME call.fn \in Readers, pc' = 3 PROVE Ready'
  <2>1. pc = 2 /\ NextStep \in WaitSteps
    BY <1>0, <1>2, StepMoves, QuietScripts DEF WaitSteps
  <2>. QED
    BY <1>2, <2>1, WaitLeaves
<1>3. ASSUME call.fn = "nand_read_params_page", pc' = 6 PROVE Ready'
  <2>1. pc = 5 /\ NextStep \in WaitSteps
    BY <1>0, <1>3, StepMoves, QuietScripts DEF WaitSteps
  <2>. QED
    BY <1>3, <2>1, WaitLeaves
<1>4. ASSUME call.fn = "nand_read_params_page", pc' = 7 PROVE Ready'
  <2>1. pc = 6 /\ NextStep = "read_cache"
    BY <1>0, <1>4, StepMoves, QuietScripts DEF WaitSteps
  <2>2. UNCHANGED devVars
    BY <2>1, StepByName DEF nand_cmd_read_x1, Receive
  <2>. QED
    BY <1>4, <2>1, <2>2 DEF devVars, Ready
<1>. QED
  BY <1>1, <1>2, <1>3, <1>4

LEMMA QuietSuccess ==
  ASSUME ~MayOverrun, TypeOK, QuietInv, InitInv', DriverStep, pc' = 0,
         ret' = "SUCCESS", call.fn \in PublicFunctions
  PROVE  Ready'
<1>. USE DEF QuietInv
<1>1. pc = Len(Script(call.fn)) /\ pc # 0 /\ Advance /\ ~TransferFails
  BY StepMoves, StepByName, FailedCall DEF Running
<1>2. CASE call.fn \in Writers
  BY <1>1, <1>2, QuietScripts, WaitLeaves
<1>3. CASE call.fn \in Readers
  <2>1. UNCHANGED devVars /\ Ready
    BY <1>1, <1>3, QuietScripts, StepByName DEF nand_cmd_read_x1, Receive
  <2>. QED
    BY <2>1 DEF devVars, Ready
<1>4. CASE call.fn = "nand_read_params_page"
  <2>1. Ready /\ Send(SetCfg(oldCfg))
    BY <1>1, <1>4, QuietScripts, StepByName
  <2>. QED
    BY <1>1, <2>1 DEF Send, SetCfg, WhenReady, Ready
<1>5. CASE call.fn = "nand_reset"
  <2>1. ResetDelay /\ busy \in {"reset", "none"}
    BY <1>1, <1>5, QuietScripts, StepByName
  <2>. QED
    BY <2>1 DEF ResetDelay, devVars, Ready
<1>6. CASE call.fn = "nand_id"
  <2>1. ReadId
    BY <1>1, <1>6, QuietScripts, StepByName
  <2>2. ~Return("ERROR")
    BY DEF Return
  <2>. QED
    BY <1>1, <2>1, <2>2 DEF ReadId, Receive, devVars, Ready
<1>7. CASE call.fn = "nand_init"
  BY <1>7, StepInCall DEF InitInv
<1>. QED
  BY <1>2, <1>3, <1>4, <1>5, <1>6, <1>7 DEF PublicFunctions, Writers, Readers

LEMMA QuietInductive ==
  ASSUME ~MayOverrun
  PROVE  /\ Init => QuietInv
         /\ TypeOK /\ InitInv /\ QuietInv /\ [Next]_vars => QuietInv'
<1>. USE DEF QuietInv
<1>1. Init => QuietInv
  BY DEF Init, InitCall, Readers
<1>2. ASSUME TypeOK, InitInv, QuietInv, [Next]_vars PROVE QuietInv'
  <2>1. ASSUME NEW c \in ClientCalls, Invoke(c) PROVE QuietInv'
    BY <2>1, Invoked
  <2>2. CASE DriverStep
    <3>1. InitInv' /\ call' = call
      BY <1>2, <2>2, InitInductive, StepInCall
    <3>. QED
      BY <1>2, <2>2, <3>1, QuietPositions, QuietSuccess
  <2>3. CASE Chip
    <3>1. UNCHANGED drvVars /\ DevNext /\ ~Ready
      BY <2>3, IdleChip DEF Chip
    <3>2. busy' = "none"
      BY <3>1 DEF DevNext, FinishRead, FinishProgram, FinishErase, FinishReset
    <3>. QED
      BY <3>2 DEF Ready
  <2>4. CASE Restart
    BY <2>4 DEF Restart, InitCall, Readers
  <2>5. CASE UNCHANGED vars
    BY <1>2, <2>5 DEF vars, devVars, drvVars, Ready
  <2>. QED
    BY <1>2, <2>1, <2>2, <2>3, <2>4, <2>5 DEF Next
<1>. QED
  BY <1>1, <1>2

(* No public function returns success while the chip is busy, if the chip  *)
(* keeps its times: the next call's commands are not ignored because of it.*)
THEOREM QuietCorrect ==
  ASSUME ~MayOverrun
  PROVE  Spec => []QuietAfterSuccess
<1>1. QuietInv => QuietAfterSuccess
  BY DEF QuietInv, QuietAfterSuccess, Running
<1>. QED
  BY <1>1, InitType, StepType, InitInductive, QuietInductive, PTL DEF Spec

=============================================================================
