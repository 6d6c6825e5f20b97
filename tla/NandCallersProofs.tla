------------------------- MODULE NandCallersProofs --------------------------
(***************************************************************************)
(* What the two callers of the driver that make something of its answers   *)
(* may rely on: the adaptor below Dhara, end to end, and the scan for bad  *)
(* blocks.  Every step of theirs is a step of the driver below them or     *)
(* none, so the invariants of NandFlashProofs and NandFlashWriteProofs     *)
(* hold here, and what the caller says follows from what its driver calls  *)
(* left behind.                                                            *)
(***************************************************************************)
EXTENDS DharaAdaptor, BadBlockScan, NandFlashWriteProofs, FiniteSetTheorems

-----------------------------------------------------------------------------
(* The driver below *)

(* A failed program, erase or copy is reported on an idle chip. *)
FailureQuiet == ~Running /\ ret = "HW_ERR" => Ready

LEMMA FailureQuietInductive ==
  /\ Init => FailureQuiet
  /\ TypeOK /\ FailureQuiet /\ [Next]_vars => FailureQuiet'
<1>. USE DEF FailureQuiet, Running
<1>1. Init => FailureQuiet
  BY DEF Init
<1>2. ASSUME TypeOK, FailureQuiet, [Next]_vars PROVE FailureQuiet'
  <2>1. ASSUME NEW c \in ClientCalls, Invoke(c) PROVE FailureQuiet'
    BY <2>1, Invoked
  <2>2. CASE DriverStep
    <3>. SUFFICES ASSUME pc' = 0, ret' = "HW_ERR" PROVE Ready'
      OBVIOUS
    <3>1. pc # 0
      BY <2>2, StepByName
    <3>2. ~TransferFails /\ ~Advance /\ ~Return("ERROR") /\ ~Return("INVALID_ARG")
      <4>0. pc \in Nat
        BY <1>2, TypeSplit, ScriptLength DEF DrvTypeOK, Call
      <4>1. Advance => pc' # 0 \/ ret' = "SUCCESS"
        BY <4>0, Advances
      <4>. QED
        BY <4>1, FailedCall DEF Return
    <3>3. nand_wait_busy
      BY <2>2, <3>2
      DEF DriverStep, nand_cmd_write_enable, nand_cmd_write_disable,
          nand_cmd_page_read, nand_cmd_read_x1, nand_cmd_program_load_x1,
          nand_cmd_program_load_random_x1, LoadMarker, LoadNothing,
          nand_cmd_program_execute, nand_cmd_block_erase, CmdReset, ResetDelay,
          nand_init_device, MspiSetup, ReadId, nand_get_writable, nand_get_busy,
          PollBusy, CheckLen, GetConfig, SetParamsMode, RestoreConfig, Send, Receive
    <3>4. PICK step \in WaitSteps :
            UNCHANGED devVars /\ (StillBusy(step) \/ Ready)
      BY <3>2, <3>3 DEF nand_wait_busy, Receive
    <3>5. ~StillBusy(step)
      BY <3>1 DEF StillBusy, Return
    <3>. QED
      BY <3>4, <3>5 DEF devVars, Ready
  <2>3. CASE Chip
    BY <2>3 DEF Chip, DevNext, FinishRead, FinishProgram, FinishErase, FinishReset, Ready
  <2>4. CASE Restart
    BY <2>4 DEF Restart
  <2>5. CASE UNCHANGED vars
    BY <1>2, <2>5 DEF vars, devVars, drvVars, Ready
  <2>. QED
    BY <1>2, <2>1, <2>2, <2>3, <2>4, <2>5 DEF Next
<1>. QED
  BY <1>1, <1>2

(* The functions that wait for the chip before their last step, or in it,  *)
(* also leave it idle when they return success, however long it takes.     *)
Waiters == Readers \union {"nand_erase_block", "nand_prog_page", "nand_copy_page"}

SuccessQuiet ==
  /\ call.fn \in Readers /\ pc = 3 => Ready
  /\ call.fn \in Waiters /\ ~Running /\ ret = "SUCCESS" => Ready

LEMMA SuccessQuietStep ==
  ASSUME TypeOK, SuccessQuiet, DriverStep
  PROVE  SuccessQuiet'
<1>. USE DEF SuccessQuiet
<1>0. pc \in Nat /\ pc # 0
  BY StepByName, TypeSplit, ScriptLength DEF DrvTypeOK, Call, Running
<1>1. call' = call
  BY StepInCall
<1>2. ASSUME call.fn \in Readers, pc' = 3 PROVE Ready'
  <2>1. pc' # 0 /\ (pc' = pc => NextStep \in WaitSteps)
    BY <1>2, StepMoves
  <2>2. pc = 2 /\ NextStep \in WaitSteps
    BY <1>0, <1>2, <2>1, StepMoves, QuietScripts DEF WaitSteps
  <2>. QED
    BY <1>2, <2>2, WaitLeaves
<1>3. ASSUME call.fn \in Waiters, pc' = 0, ret' = "SUCCESS" PROVE Ready'
  <2>1. pc = Len(Script(call.fn)) /\ Advance /\ ~TransferFails
    BY <1>3, StepMoves, FailedCall
  <2>2. CASE call.fn \in Readers
    <3>1. pc = 3 /\ UNCHANGED devVars /\ Ready
      BY <2>1, <2>2, QuietScripts, StepByName DEF nand_cmd_read_x1, Receive
    <3>. QED
      BY <3>1 DEF devVars, Ready
  <2>3. CASE call.fn \in Writers
    BY <1>0, <1>3, <2>1, <2>3, QuietScripts, WaitLeaves
  <2>. QED
    BY <1>3, <2>2, <2>3 DEF Waiters, Writers
<1>. QED
  BY <1>1, <1>2, <1>3 DEF Running

LEMMA SuccessQuietInductive ==
  /\ Init => SuccessQuiet
  /\ TypeOK /\ SuccessQuiet /\ [Next]_vars => SuccessQuiet'
<1>. USE DEF SuccessQuiet, Running
<1>1. Init => SuccessQuiet
  BY DEF Init
<1>2. ASSUME TypeOK, SuccessQuiet, [Next]_vars PROVE SuccessQuiet'
  <2>1. ASSUME NEW c \in ClientCalls, Invoke(c) PROVE SuccessQuiet'
    BY <2>1, Invoked
  <2>2. CASE DriverStep
    BY <1>2, <2>2, SuccessQuietStep
  <2>3. CASE Chip
    BY <2>3 DEF Chip, DevNext, FinishRead, FinishProgram, FinishErase, FinishReset, Ready
  <2>4. CASE Restart
    BY <2>4 DEF Restart
  <2>5. CASE UNCHANGED vars
    BY <1>2, <2>5 DEF vars, devVars, drvVars, Ready
  <2>. QED
    BY <1>2, <2>1, <2>2, <2>3, <2>4, <2>5 DEF Next
<1>. QED
  BY <1>1, <1>2

(* What is known of the driver whoever calls it. *)
DriverInv ==
  TypeOK /\ ProgInv /\ EraseInv /\ CopyInv /\ ReadInv /\ FailureQuiet /\ SuccessQuiet

LEMMA DriverInductive ==
  /\ Init => DriverInv
  /\ DriverInv /\ [Next]_vars => DriverInv'
  BY InitType, StepType, ProgInductive, EraseInductive, CopyInductive, ReadInductive,
     FailureQuietInductive, SuccessQuietInductive DEF DriverInv

(* Every step of the adaptor is a step of the driver, or leaves it alone. *)
LEMMA AdaptorStepsDriver ==
  /\ AdaptorInit => Init
  /\ [AdaptorNext]_allVars => [Next]_vars
<1>1. AdaptorInit => Init
  BY DEF AdaptorInit
<1>2. ASSUME [AdaptorNext]_allVars PROVE [Next]_vars
  <2>1. ASSUME NEW f \in DOMAIN DriverFn, NEW c \in ClientCalls, Enter(f, c) PROVE Next
    BY <2>1 DEF Enter, Next
  <2>2. dhara_nand_mark_bad \/ Leave \/ UNCHANGED allVars => UNCHANGED vars
    BY DEF dhara_nand_mark_bad, Leave, allVars
  <2>. QED
    BY <1>2, <2>1, <2>2 DEF AdaptorNext, Next
<1>. QED
  BY <1>1, <1>2

(* The functions the adaptor reaches, and the one main called before it.   *)
Reached ==
  {"nand_init", "nand_check_bad_block", "nand_erase_block", "nand_prog_page",
   "nand_is_free", "nand_read_page", "nand_copy_page"}

(* None of them switches the chip to the parameter page or locks it.       *)
LEMMA ReachedKeepMode ==
  ASSUME TypeOK, DriverStep, call.fn \in Reached, cfg = "array"
  PROVE  cfg' = "array" /\ (locked' => locked)
<1>1. pc \in 1 .. Len(Script(call.fn))
  BY StepByName, TypeSplit, ScriptLength DEF DrvTypeOK, Running, Call
<1>2. NextStep \notin {"set_params_mode", "restore_config"}
  BY <1>1
  DEF NextStep, Reached, Script, PrivateFunctions, nand_init, nand_erase_block,
      nand_prog_page, nand_read_page, nand_is_free, nand_check_bad_block,
      nand_copy_page
<1>3. ~SetParamsMode /\ ~RestoreConfig
  BY <1>2 DEF SetParamsMode, RestoreConfig, At, NextStep
<1>4. UNCHANGED devVars => cfg' = "array" /\ (locked' => locked)
  BY DEF devVars
<1>5. /\ \A on : SetWel(on) => cfg' = "array" /\ (locked' => locked)
      /\ \A p : PageRead(p) => cfg' = "array" /\ (locked' => locked)
      /\ \A c : ProgramLoad(c) => cfg' = "array" /\ (locked' => locked)
      /\ \A p : ProgramExecute(p) => cfg' = "array" /\ (locked' => locked)
      /\ \A p : BlockErase(p) => cfg' = "array" /\ (locked' => locked)
      /\ UnlockAll => cfg' = "array" /\ (locked' => locked)
      /\ Reset => cfg' = "array" /\ (locked' => locked)
  BY <1>4 DEF SetWel, PageRead, ProgramLoad, ProgramExecute, BlockErase, UnlockAll,
     Reset, WhenReady, Start
<1>6. nand_cmd_write_enable \/ nand_cmd_write_disable \/ nand_cmd_page_read =>
        cfg' = "array" /\ (locked' => locked)
  BY <1>4, <1>5 DEF nand_cmd_write_enable, nand_cmd_write_disable, nand_cmd_page_read, Send
<1>7. nand_cmd_program_load_x1 \/ nand_cmd_program_load_random_x1 =>
        cfg' = "array" /\ (locked' => locked)
  BY <1>4, <1>5 DEF nand_cmd_program_load_x1, nand_cmd_program_load_random_x1,
     LoadMarker, LoadNothing, ProgramLoadRandom, Send
<1>8. nand_cmd_program_execute \/ nand_cmd_block_erase \/ CmdReset \/ nand_init_device
      \/ MspiSetup => cfg' = "array" /\ (locked' => locked)
  BY <1>4, <1>5 DEF nand_cmd_program_execute, nand_cmd_block_erase, CmdReset,
     nand_init_device, MspiSetup, Send
<1>9. nand_cmd_read_x1 \/ ResetDelay \/ ReadId \/ nand_get_writable \/ nand_get_busy
      \/ PollBusy \/ CheckLen \/ GetConfig \/ nand_wait_busy =>
        cfg' = "array" /\ (locked' => locked)
  BY <1>4 DEF nand_cmd_read_x1, ResetDelay, ReadId, nand_get_writable, nand_get_busy,
     PollBusy, CheckLen, GetConfig, nand_wait_busy, Receive
<1>. QED
  BY <1>3, <1>6, <1>7, <1>8, <1>9 DEF DriverStep

-----------------------------------------------------------------------------
(* The adaptor's own state *)

Ops == DOMAIN DriverFn

(* Which driver call runs for which function.  op is "none" until the      *)
(* first call after a restart; then a driver call runs only inside a       *)
(* function.                                                               *)
CallInv ==
  /\ call.fn \in Reached
  /\ op = "none" => ~inside /\ ~sound
  /\ op # "none" /\ ~inside => ~Running
  /\ inside => op \in Ops
  /\ op \in Ops =>
       /\ call.fn = DriverFn[op]
       /\ call.eccp <=> op \in {"dhara_nand_read", "dhara_nand_copy"}

(* The adaptor's calls never switch the chip to the parameter page, and a  *)
(* call that ended at its end left it ready for the next one.              *)
HeardInv ==
  /\ cfg = "array"
  /\ heard /\ op \in Ops => clean

(* As long as no call ended early, each one finds and leaves the chip      *)
(* ready and unlocked.                                                     *)
SoundInv ==
  /\ sound => ~locked
  /\ sound /\ ~inside => Ready
  /\ sound /\ op \in Ops => clean

(* What a function's answer says of the outcome of its driver call.        *)
AnswerInv ==
  /\ op \in {"dhara_nand_prog", "dhara_nand_erase"} /\ ~inside =>
       ret = "SUCCESS" \/ (result = -1 /\ err = E_BAD_BLOCK)
  /\ op = "dhara_nand_is_bad" /\ ~inside =>
       (ret = "SUCCESS" /\ flag # "yes") \/ result = E_BAD_BLOCK
  /\ op = "dhara_nand_read" /\ ~inside =>
       (ret = "SUCCESS" /\ eccFatal # "yes") \/ result = -1
  /\ op = "dhara_nand_copy" /\ ~inside => ret = "SUCCESS" \/ result = -1

LEMMA OpNames ==
  /\ Ops = {"dhara_nand_is_bad", "dhara_nand_erase", "dhara_nand_prog",
            "dhara_nand_is_free", "dhara_nand_read", "dhara_nand_copy"}
  /\ "none" \notin Ops
  /\ DriverFn["dhara_nand_is_bad"] = "nand_check_bad_block"
  /\ DriverFn["dhara_nand_erase"] = "nand_erase_block"
  /\ DriverFn["dhara_nand_prog"] = "nand_prog_page"
  /\ DriverFn["dhara_nand_read"] = "nand_read_page"
  /\ DriverFn["dhara_nand_copy"] = "nand_copy_page"
  /\ \A f \in Ops : DriverFn[f] \in Reached \ {"nand_init"}
  BY DEF Ops, DriverFn, Reached

(* A function that returns is one of those that make a driver call.        *)
LEMMA Leaves ==
  ASSUME Leave
  PROVE  /\ op \in Ops /\ inside /\ ~Running /\ inside' = FALSE
         /\ sound' = (sound /\ EndedAtEnd)
         /\ UNCHANGED <<vars, op, heard>>
<1>1. \/ Returning("dhara_nand_is_bad") \/ Returning("dhara_nand_erase")
      \/ Returning("dhara_nand_prog") \/ Returning("dhara_nand_is_free")
      \/ Returning("dhara_nand_read") \/ Returning("dhara_nand_copy")
  BY DEF Leave, dhara_nand_is_bad, dhara_nand_erase, dhara_nand_prog,
     dhara_nand_is_free, dhara_nand_read, dhara_nand_copy
<1>2. inside' = FALSE
  BY DEF Leave, dhara_nand_is_bad, dhara_nand_erase, dhara_nand_prog,
     dhara_nand_is_free, dhara_nand_read, dhara_nand_copy, WriteOutcome, EccOutcome,
     Answer
<1>. QED
  BY <1>1, <1>2, OpNames DEF Leave, Returning

LEMMA CallInductive ==
  /\ AdaptorInit => CallInv
  /\ CallInv /\ [AdaptorNext]_allVars => CallInv'
<1>. USE DEF CallInv
<1>1. AdaptorInit => CallInv
  BY OpNames DEF AdaptorInit, Init, InitCall, Reached
<1>2. ASSUME CallInv, [AdaptorNext]_allVars PROVE CallInv'
  <2>1. ASSUME NEW f \in Ops, NEW c \in ClientCalls, Enter(f, c) PROVE CallInv'
    <3>1. call' = c /\ op' = f /\ inside' = TRUE /\ c.fn = DriverFn[f]
          /\ (c.eccp <=> f \in {"dhara_nand_read", "dhara_nand_copy"})
      BY <2>1, Invoked DEF Enter
    <3>. QED
      BY <3>1, OpNames
  <2>2. CASE dhara_nand_mark_bad \/ UNCHANGED allVars
    BY <1>2, <2>2 DEF dhara_nand_mark_bad, allVars, adaptorVars, vars, drvVars, Running
  <2>3. CASE Leave
    BY <1>2, <2>3, Leaves, OpNames DEF vars, drvVars, Running
  <2>4. CASE DriverStep /\ UNCHANGED adaptorVars
    <3>1. Running /\ UNCHANGED call
      BY <2>4, StepByName, StepInCall
    <3>. QED
      BY <1>2, <2>4, <3>1 DEF adaptorVars
  <2>5. CASE Chip /\ UNCHANGED adaptorVars
    BY <1>2, <2>5 DEF Chip, drvVars, adaptorVars, Running
  <2>6. CASE Restart /\ op' = "none" /\ inside' = FALSE /\ sound' = FALSE
    BY <2>6, OpNames DEF Restart, InitCall, Reached
  <2>. QED
    BY <1>2, <2>1, <2>2, <2>3, <2>4, <2>5, <2>6 DEF AdaptorNext, Ops
<1>. QED
  BY <1>1, <1>2

LEMMA AnswerInductive ==
  /\ AdaptorInit => AnswerInv
  /\ CallInv /\ AnswerInv /\ [AdaptorNext]_allVars => AnswerInv'
<1>. USE DEF AnswerInv
<1>1. AdaptorInit => AnswerInv
  BY DEF AdaptorInit
<1>2. ASSUME CallInv, AnswerInv, [AdaptorNext]_allVars PROVE AnswerInv'
  <2>1. ASSUME NEW f \in Ops, NEW c \in ClientCalls, Enter(f, c) PROVE AnswerInv'
    BY <2>1 DEF Enter
  <2>2. CASE dhara_nand_mark_bad \/ UNCHANGED allVars
    BY <1>2, <2>2 DEF dhara_nand_mark_bad, allVars, adaptorVars, vars, drvVars
  <2>3. CASE Leave
    <3>1. UNCHANGED <<op, ret, flag, eccFatal>>
      BY <2>3, Leaves DEF vars, drvVars
    <3>2. CASE op \in {"dhara_nand_prog", "dhara_nand_erase"}
      <4>1. WriteOutcome
        BY <2>3, <3>2 DEF Leave, Returning, dhara_nand_is_bad, dhara_nand_erase,
           dhara_nand_prog, dhara_nand_is_free, dhara_nand_read, dhara_nand_copy
      <4>. QED
        BY <3>1, <3>2, <4>1 DEF WriteOutcome, Answer
    <3>3. CASE op = "dhara_nand_is_bad"
      <4>1. dhara_nand_is_bad
        BY <2>3, <3>3 DEF Leave, Returning, dhara_nand_erase,
           dhara_nand_prog, dhara_nand_is_free, dhara_nand_read, dhara_nand_copy
      <4>. QED
        BY <3>1, <3>3, <4>1 DEF dhara_nand_is_bad, Answer
    <3>4. CASE op = "dhara_nand_read"
      <4>1. EccOutcome
        BY <2>3, <3>4 DEF Leave, Returning, dhara_nand_is_bad, dhara_nand_erase,
           dhara_nand_prog, dhara_nand_is_free, dhara_nand_read, dhara_nand_copy
      <4>2. ret # "SUCCESS" => result' = -1
        BY <4>1 DEF EccOutcome, Answer
      <4>3. eccFatal = "yes" => result' = -1
        BY <4>1 DEF EccOutcome, Answer
      <4>. QED
        BY <3>1, <3>4, <4>2, <4>3
    <3>5. CASE op = "dhara_nand_copy"
      <4>1. EccOutcome
        BY <2>3, <3>5 DEF Leave, Returning, dhara_nand_is_bad, dhara_nand_erase,
           dhara_nand_prog, dhara_nand_is_free, dhara_nand_read, dhara_nand_copy
      <4>2. ret # "SUCCESS" => result' = -1
        BY <4>1 DEF EccOutcome, Answer
      <4>. QED
        BY <3>1, <3>5, <4>2
    <3>. QED
      BY <3>1, <3>2, <3>3, <3>4, <3>5
  <2>4. CASE DriverStep /\ UNCHANGED adaptorVars
    <3>1. Running
      BY <2>4, StepByName
    <3>2. inside \/ op = "none"
      BY <1>2, <3>1 DEF CallInv
    <3>. QED
      BY <2>4, <3>2 DEF adaptorVars
  <2>5. CASE Chip /\ UNCHANGED adaptorVars
    BY <1>2, <2>5 DEF Chip, drvVars, adaptorVars
  <2>6. CASE Restart /\ op' = "none"
    BY <2>6
  <2>. QED
    BY <1>2, <2>1, <2>2, <2>3, <2>4, <2>5, <2>6 DEF AdaptorNext, Ops
<1>. QED
  BY <1>1, <1>2

LEMMA HeardInductive ==
  /\ AdaptorInit => HeardInv
  /\ TypeOK /\ FailureQuiet /\ SuccessQuiet /\ CallInv /\ HeardInv
       /\ [AdaptorNext]_allVars => HeardInv'
<1>. USE DEF HeardInv
<1>1. AdaptorInit => HeardInv
  BY DEF AdaptorInit, Init, DevInit
<1>2. ASSUME TypeOK, FailureQuiet, SuccessQuiet, CallInv, HeardInv, [AdaptorNext]_allVars
      PROVE  HeardInv'
  <2>1. ASSUME NEW f \in Ops, NEW c \in ClientCalls, Enter(f, c) PROVE HeardInv'
    <3>1. /\ ~Running /\ UNCHANGED devVars
          /\ clean' = (Ready /\ cfg = "array")
          /\ heard' = (call.fn # "nand_init" /\ EndedAtEnd)
      BY <2>1 DEF Enter, Invoke
    <3>2. call.fn # "nand_init" => call.fn \in Waiters
      BY <1>2 DEF CallInv, Reached, Waiters, Readers
    <3>3. heard' => Ready
      BY <1>2, <3>1, <3>2 DEF EndedAtEnd, FailureQuiet, SuccessQuiet
    <3>. QED
      BY <1>2, <3>1, <3>3 DEF devVars
  <2>2. CASE dhara_nand_mark_bad \/ UNCHANGED allVars
    BY <1>2, <2>2 DEF dhara_nand_mark_bad, allVars, adaptorVars, vars, devVars, drvVars
  <2>3. CASE Leave
    BY <1>2, <2>3, Leaves DEF vars, devVars, drvVars
  <2>4. CASE DriverStep /\ UNCHANGED adaptorVars
    BY <1>2, <2>4, ReachedKeepMode, StepInCall DEF CallInv, adaptorVars
  <2>5. CASE Chip /\ UNCHANGED adaptorVars
    <3>1. cfg' = cfg /\ UNCHANGED clean
      BY <2>5 DEF Chip, drvVars, DevNext, FinishRead, FinishProgram, FinishErase,
         FinishReset
    <3>. QED
      BY <1>2, <2>5, <3>1 DEF adaptorVars
  <2>6. CASE Restart /\ heard' = FALSE
    BY <1>2, <2>6 DEF Restart, PowerCycle, devVars
  <2>. QED
    BY <1>2, <2>1, <2>2, <2>3, <2>4, <2>5, <2>6 DEF AdaptorNext, Ops
<1>. QED
  BY <1>1, <1>2

(* What a first call finds: nand_init succeeded, or sound stays FALSE.     *)
LEMMA FirstSound ==
  ASSUME InitInv, Succeeded("nand_init")
  PROVE  Ready /\ ~locked
  BY DEF InitInv, Succeeded, Running

LEMMA SoundInductive ==
  ASSUME ~MayOverrun
  PROVE  /\ AdaptorInit => SoundInv
         /\ TypeOK /\ InitInv /\ QuietInv /\ FailureQuiet /\ CallInv /\ HeardInv
              /\ SoundInv /\ [AdaptorNext]_allVars => SoundInv'
<1>. USE DEF SoundInv
<1>1. AdaptorInit => SoundInv
  BY DEF AdaptorInit
<1>2. ASSUME TypeOK, InitInv, QuietInv, FailureQuiet, CallInv, HeardInv, SoundInv,
             [AdaptorNext]_allVars
      PROVE  SoundInv'
  <2>1. ASSUME NEW f \in Ops, NEW c \in ClientCalls, Enter(f, c) PROVE SoundInv'
    <3>1. /\ ~inside /\ inside' = TRUE
          /\ UNCHANGED devVars
          /\ clean' = (Ready /\ cfg = "array")
          /\ sound' = IF op = "none" THEN Succeeded("nand_init") ELSE sound
      BY <2>1 DEF Enter, Invoke
    <3>2. sound' => Ready /\ ~locked
      BY <1>2, <3>1, FirstSound
    <3>. QED
      BY <1>2, <3>1, <3>2 DEF HeardInv, devVars
  <2>2. CASE dhara_nand_mark_bad \/ UNCHANGED allVars
    BY <1>2, <2>2 DEF dhara_nand_mark_bad, allVars, adaptorVars, vars, devVars, drvVars, Ready
  <2>3. CASE Leave
    <3>1. /\ UNCHANGED <<vars, op>> /\ op \in Ops /\ ~Running
          /\ sound' = (sound /\ EndedAtEnd)
      BY <2>3, Leaves
    <3>2. call.fn \in PublicFunctions
      BY <1>2, <3>1, OpNames DEF CallInv, Reached, PublicFunctions
    <3>3. sound' => Ready
      BY <1>2, <3>1, <3>2 DEF EndedAtEnd, QuietInv, FailureQuiet, Running
    <3>. QED
      BY <1>2, <3>1, <3>3 DEF vars, devVars, drvVars, Ready
  <2>4. CASE DriverStep /\ UNCHANGED adaptorVars
    <3>1. (locked' => locked) /\ UNCHANGED clean
      BY <1>2, <2>4, ReachedKeepMode, StepInCall DEF CallInv, HeardInv
    <3>2. inside \/ op = "none"
      BY <1>2, <2>4, StepByName DEF CallInv
    <3>3. sound => inside
      BY <1>2, <3>2 DEF CallInv
    <3>. QED
      BY <1>2, <2>4, <3>1, <3>3 DEF adaptorVars
  <2>5. CASE Chip /\ UNCHANGED adaptorVars
    <3>1. ~Ready /\ locked' = locked /\ UNCHANGED clean
      BY <2>5, IdleChip DEF Chip, drvVars, DevNext, FinishRead, FinishProgram,
         FinishErase, FinishReset
    <3>. QED
      BY <1>2, <2>5, <3>1 DEF adaptorVars
  <2>6. CASE Restart /\ op' = "none" /\ sound' = FALSE
    BY <1>2, <2>6 DEF Restart, PowerCycle, devVars
  <2>. QED
    BY <1>2, <2>1, <2>2, <2>3, <2>4, <2>5, <2>6 DEF AdaptorNext, Ops
<1>. QED
  BY <1>1, <1>2

-----------------------------------------------------------------------------
(* The invariants of AdaptorSpec *)

LEMMA AdaptorInvariant ==
  /\ AdaptorSpec => [](DriverInv /\ CallInv /\ AnswerInv /\ HeardInv)
  /\ ~MayOverrun => (AdaptorSpec => [](InitInv /\ QuietInv /\ SoundInv))
<1>1. AdaptorSpec => [](DriverInv /\ CallInv /\ AnswerInv /\ HeardInv)
  <2>1. /\ AdaptorInit => DriverInv /\ HeardInv
        /\ DriverInv /\ CallInv /\ HeardInv /\ [AdaptorNext]_allVars
             => DriverInv' /\ HeardInv'
    BY AdaptorStepsDriver, DriverInductive, HeardInductive DEF DriverInv
  <2>. QED
    BY <2>1, CallInductive, AnswerInductive, PTL DEF AdaptorSpec
<1>2. ASSUME ~MayOverrun PROVE AdaptorSpec => [](InitInv /\ QuietInv /\ SoundInv)
  <2>1. /\ AdaptorInit => InitInv /\ QuietInv /\ SoundInv
        /\ DriverInv /\ CallInv /\ HeardInv /\ InitInv /\ QuietInv /\ SoundInv
             /\ [AdaptorNext]_allVars => InitInv' /\ QuietInv' /\ SoundInv'
    BY <1>2, AdaptorStepsDriver, InitInductive, QuietInductive, SoundInductive
    DEF DriverInv
  <2>. QED
    BY <1>1, <2>1, PTL DEF AdaptorSpec
<1>. QED
  BY <1>1, <1>2

-----------------------------------------------------------------------------
(* What Dhara may rely on *)

(* The adaptor is a client of the driver like any other: whatever is       *)
(* proved of Spec holds below it too.                                      *)
THEOREM AdaptorIsClient == AdaptorSpec => Spec
  BY AdaptorStepsDriver, PTL DEF AdaptorSpec, Spec

(* A program or erase the chip failed and a page ECC could not repair      *)
(* leave the chip ready, in array mode and unlocked for the next call, if  *)
(* the chip keeps its times.                                               *)
THEOREM NextCallReady ==
  ASSUME ~MayOverrun
  PROVE  AdaptorSpec => []ReadyForNext
<1>1. HeardInv /\ SoundInv => ReadyForNext
  BY DEF HeardInv, SoundInv, ReadyForNext
<1>. QED
  BY <1>1, AdaptorInvariant, PTL

(* What a call that found the chip idle and was answered with 0 did.       *)
LEMMA WriteAnswered ==
  ASSUME DriverInv, CallInv, AnswerInv, clean,
         NEW f \in WriteOps, Returned(f), result = 0
  PROVE  OnChip(f)
<1>1. /\ op = f /\ ~inside /\ f \in Ops /\ pc = 0 /\ call.fn = DriverFn[f]
      /\ call.eccp <=> f \in {"dhara_nand_read", "dhara_nand_copy"}
  BY OpNames DEF Returned, CallInv, Running, WriteOps
<1>2. ret = "SUCCESS"
  BY <1>1 DEF AnswerInv, WriteOps
<1>3. CASE f = "dhara_nand_prog"
  BY <1>1, <1>2, <1>3, OpNames DEF DriverInv, ProgInv, NewPage, OnChip
<1>4. CASE f = "dhara_nand_erase"
  <2>1. BlockErased
    BY <1>1, <1>2, <1>4, OpNames DEF DriverInv, EraseInv
  <2>. QED
    BY <1>4, <2>1 DEF BlockErased, OnChip
<1>5. CASE f = "dhara_nand_copy"
  <2>1. SourceChecked /\ Copied /\ call.eccp
    BY <1>1, <1>2, <1>5, OpNames DEF DriverInv, CopyInv
  <2>. QED
    BY <1>5, <2>1 DEF SourceChecked, Copied, OnChip
<1>. QED
  BY <1>3, <1>4, <1>5 DEF WriteOps

LEMMA ReadAnswered ==
  ASSUME DriverInv, CallInv, AnswerInv, clean, Returned("dhara_nand_read"), result = 0
  PROVE  buf = array[call.addr] /\ Correctable(ecc)
<1>1. /\ op = "dhara_nand_read" /\ ~inside /\ op \in Ops /\ ~Running
      /\ ret = "SUCCESS" /\ eccFatal # "yes"
  BY OpNames DEF Returned, CallInv, AnswerInv
<1>2. call.fn = "nand_read_page" /\ call.eccp /\ pc = 0
  BY <1>1, OpNames DEF CallInv, Running
<1>3. /\ EccReported
      /\ Correctable(ecc) => buf = array[PageOf(call)]
  BY <1>1, <1>2 DEF DriverInv, ReadInv, Readers
<1>4. eccFatal = "no"
  BY <1>1, <1>2, <1>3 DEF EccReported, DriverInv, TypeOK
<1>. QED
  BY <1>2, <1>3, <1>4 DEF EccReported, PageOf, BlockFunctions

(* A program or erase answered with 0 is on the chip, and so is a copy the *)
(* chip did not fail, over any sequence of calls none of which ended early.*)
THEOREM WritesCorrect ==
  ASSUME ~MayOverrun
  PROVE  AdaptorSpec => []WritesHold
<1>1. ASSUME DriverInv, CallInv, AnswerInv, SoundInv PROVE WritesHold
  <2>. SUFFICES ASSUME NEW f \in WriteOps, sound, Returned(f), result = 0
                PROVE  OnChip(f)
    BY DEF WritesHold
  <2>1. clean
    BY <1>1, OpNames DEF SoundInv, Returned, WriteOps
  <2>. QED
    BY <1>1, <2>1, WriteAnswered
<1>. QED
  BY <1>1, AdaptorInvariant, PTL

(* A read answered with 0 returned the bytes of the page Dhara asked for,  *)
(* and ECC could repair them: what the stack held where the driver wrote   *)
(* no ECC result never decides.                                            *)
THEOREM ReadsCorrect ==
  ASSUME ~MayOverrun
  PROVE  AdaptorSpec => []ReadsHold
<1>1. ASSUME DriverInv, CallInv, AnswerInv, SoundInv PROVE ReadsHold
  <2>1. sound /\ Returned("dhara_nand_read") => clean
    BY <1>1, OpNames DEF SoundInv, Returned
  <2>. QED
    BY <1>1, <2>1, ReadAnswered DEF ReadsHold
<1>. QED
  BY <1>1, AdaptorInvariant, PTL

(* However long the chip takes and whichever transfers fail: the answer 0  *)
(* of a write or a read holds if the call before it was not nand_init and  *)
(* did not time out or fail on the bus.  What those spoil is the next call *)
(* only, never one later.                                                  *)
THEOREM OneCallSpoiled == AdaptorSpec => []SpoilsOneCall
<1>1. ASSUME DriverInv, CallInv, AnswerInv, HeardInv PROVE SpoilsOneCall
  <2>1. ASSUME NEW f \in WriteOps, heard, Returned(f), result = 0 PROVE OnChip(f)
    <3>1. clean
      BY <1>1, <2>1, OpNames DEF HeardInv, Returned, WriteOps
    <3>. QED
      BY <1>1, <2>1, <3>1, WriteAnswered
  <2>2. heard /\ Returned("dhara_nand_read") => clean
    BY <1>1, OpNames DEF HeardInv, Returned
  <2>. QED
    BY <1>1, <2>1, <2>2, ReadAnswered DEF SpoilsOneCall
<1>. QED
  BY <1>1, AdaptorInvariant, PTL

(* A block dhara_nand_is_bad answers is good has no mark on its first page,*)
(* if the chip was idle when it was asked and ECC could repair that page.  *)
(* Of a page it could not repair nothing is said: nand_check_bad_block     *)
(* asks for no ECC result and answers by what was read.                    *)
THEOREM GoodBlocksUnmarked == AdaptorSpec => []GoodIsUnmarked
<1>1. ASSUME DriverInv, CallInv, AnswerInv, clean, Returned("dhara_nand_is_bad"),
             Correctable(ecc), result = E_NONE
      PROVE  array[call.addr * PagesPerBlock].marks = {}
  <2>1. ret = "SUCCESS" /\ flag # "yes"
    BY <1>1 DEF AnswerInv, Returned, E_NONE, E_BAD_BLOCK
  <2>2. call.fn = "nand_check_bad_block" /\ pc = 0
    BY <1>1, OpNames DEF Returned, CallInv, Running
  <2>3. Answered /\ buf = array[PageOf(call)]
    BY <1>1, <2>1, <2>2 DEF DriverInv, ReadInv, Readers
  <2>. QED
    BY <2>1, <2>2, <2>3 DEF Answered, PageOf, BlockFunctions, block_to_page_addr
<1>2. DriverInv /\ CallInv /\ AnswerInv => GoodIsUnmarked
  BY <1>1 DEF GoodIsUnmarked
<1>. QED
  BY <1>2, AdaptorInvariant, PTL

-----------------------------------------------------------------------------
(* The scan for bad blocks *)

CheckCall(b) ==
  [fn |-> "nand_check_bad_block", addr |-> b, src |-> 0, data |-> Blank, eccp |-> FALSE]

LEMMA CheckCallType == ASSUME NEW b \in Blocks PROVE CheckCall(b) \in Call
<1>1. b * PagesPerBlock \in Pages /\ b <= b * PagesPerBlock
  <2>1. b \in Nat /\ PagesPerBlock \in Nat \ {0}
    BY GeometryAssumption DEF Blocks
  <2>2. b <= b * PagesPerBlock
    BY <2>1, Z3
  <2>. QED
    BY <2>2, BlockAddress
<1>2. b \in Nat /\ NumBlocks * PagesPerBlock \in Nat
  BY GeometryAssumption DEF Blocks
<1>3. b \in Pages /\ 0 \in Pages
  <2>. DEFINE p == b * PagesPerBlock  all == NumBlocks * PagesPerBlock
  <2>1. p \in 0 .. all - 1 /\ b <= p /\ b \in Nat /\ all \in Nat
    BY <1>1, <1>2 DEF Pages
  <2>. HIDE DEF p
  <2>2. b \in 0 .. all - 1
    BY <2>1
  <2>. QED
    BY <2>2, FirstPages DEF Pages
<1>. QED
  BY <1>3 DEF CheckCall, Call, PublicFunctions

(* While it runs, the loop waits for the answer about block i; if it began *)
(* on an idle chip and ECC repaired what it read, the chip is idle again   *)
(* for each call, and what is printed are the marked blocks below i.       *)
MarkedBelow(n) == {b \in 0 .. n - 1 : Marked(b)}

GoesOn == Running \/ ret = "SUCCESS"

ScanInv ==
  /\ i \in Nat
  /\ scanning => i \in Blocks /\ call.fn = "nand_check_bad_block" /\ call.addr = i
  /\ scanning /\ trusted => clean
  /\ scanning /\ trusted /\ GoesOn =>
       printed = MarkedBelow(i) /\ total = Cardinality(printed)

LEMMA Asked ==
  ASSUME NEW b, CheckBlock(b)
  PROVE  /\ call' = CheckCall(b) /\ call'.fn = "nand_check_bad_block" /\ call'.addr = b
         /\ pc' = 1 /\ UNCHANGED devVars
         /\ clean' = (Ready /\ cfg = "array")
  BY DEF CheckBlock, CheckCall, Invoke

(* What one more answer makes of the list. *)
LEMMA ListGrows ==
  ASSUME ScanInv, ReadInv, NextBlock, trusted'
  PROVE  /\ scanning /\ trusted /\ Ready /\ cfg = "array" /\ array' = array
         /\ i' = i + 1 /\ printed' = MarkedBelow(i)' /\ total' = Cardinality(printed')
<1>. USE DEF ScanInv
<1>1. /\ scanning /\ trusted /\ Correctable(ecc) /\ pc = 0 /\ ret = "SUCCESS"
      /\ i \in Blocks /\ i \in Nat /\ i' = i + 1
      /\ printed' = IF flag = "yes" THEN printed \union {i} ELSE printed
      /\ total' = IF flag = "yes" THEN total + 1 ELSE total
  BY DEF NextBlock, Checked, Running
<1>2. printed = MarkedBelow(i) /\ total = Cardinality(printed) /\ clean
      /\ call.fn = "nand_check_bad_block" /\ call.addr = i
  BY <1>1 DEF GoesOn
<1>3. Ready /\ cfg = "array" /\ Answered /\ buf = array[PageOf(call)]
  BY <1>1, <1>2 DEF ReadInv, Readers
<1>4. flag = "yes" <=> Marked(i)
  BY <1>2, <1>3 DEF Answered, Marked, PageOf, BlockFunctions
<1>5. array' = array
  <2>1. CASE i' < NumBlocks
    BY <2>1, Asked DEF NextBlock, devVars
  <2>2. CASE ~(i' < NumBlocks)
    BY <2>2 DEF NextBlock, vars, devVars
  <2>. QED
    BY <2>1, <2>2
<1>6. printed' = MarkedBelow(i)'
  <2>1. MarkedBelow(i)' = {b \in 0 .. i : Marked(b)}
    BY <1>1, <1>5 DEF MarkedBelow, Marked, block_to_page_addr
  <2>2. 0 .. i = (0 .. i - 1) \union {i}
    BY <1>1
  <2>. QED
    BY <1>1, <1>2, <1>4, <2>1, <2>2 DEF MarkedBelow
<1>7. IsFiniteSet(printed) /\ i \notin printed
  <2>1. IsFiniteSet(0 .. i - 1)
    BY <1>1, FS_Interval
  <2>. QED
    BY <1>1, <1>2, <2>1, FS_Subset DEF MarkedBelow
<1>8. total' = Cardinality(printed')
  BY <1>1, <1>2, <1>7, FS_AddElement
<1>. QED
  BY <1>1, <1>3, <1>5, <1>6, <1>8

(* The scan asks for every block whether or not the client's calls do. *)
ScanDriverInv == TypeOK /\ ReadInv

LEMMA ScanDriver ==
  /\ ScanInit => ScanDriverInv
  /\ ScanDriverInv /\ i \in Nat /\ [ScanNext]_scanVars => ScanDriverInv'
<1>. USE DEF ScanDriverInv
<1>1. ScanInit => ScanDriverInv
  BY InitType, ReadInductive DEF ScanInit
<1>2. ASSUME ScanDriverInv, i \in Nat, [ScanNext]_scanVars PROVE ScanDriverInv'
  <2>1. ASSUME NEW b \in Blocks, CheckBlock(b) PROVE ScanDriverInv'
    <3>1. Invoke(CheckCall(b)) /\ CheckCall(b) \in Call
      BY <2>1, CheckCallType DEF CheckBlock, CheckCall
    <3>2. TypeOK'
      BY <1>2, <3>1, InvokeType
    <3>3. ReadInv'
      BY <3>1, Invoked DEF ReadInv, Ready, devVars
    <3>. QED
      BY <3>2, <3>3
  <2>2. ASSUME [Next]_vars PROVE ScanDriverInv'
    BY <1>2, <2>2, StepType, ReadInductive
  <2>3. CASE nand_print_bad_blocks
    BY <2>1, <2>3, GeometryAssumption DEF nand_print_bad_blocks, Blocks
  <2>4. CASE FailedToRead
    BY <2>2, <2>4 DEF FailedToRead
  <2>5. CASE NextBlock
    <3>1. CASE i' < NumBlocks
      BY <1>2, <2>1, <2>5, <3>1, GeometryAssumption DEF NextBlock, Blocks
    <3>2. CASE ~(i' < NumBlocks)
      BY <2>2, <2>5, <3>2 DEF NextBlock
    <3>. QED
      BY <3>1, <3>2
  <2>6. CASE \E c \in ClientCalls : ClientInvokes(c)
    BY <2>2, <2>6 DEF ClientInvokes, Next
  <2>7. CASE (DriverStep \/ Chip) /\ UNCHANGED loopVars
    BY <2>2, <2>7 DEF Next
  <2>8. CASE UNCHANGED scanVars
    BY <2>2, <2>8 DEF scanVars
  <2>. QED
    BY <1>2, <2>3, <2>4, <2>5, <2>6, <2>7, <2>8 DEF ScanNext
<1>. QED
  BY <1>1, <1>2

LEMMA ScanDriverStep ==
  ASSUME ScanInv, ReadInv, TypeOK, DriverStep \/ Chip, UNCHANGED loopVars,
         scanning, trusted, GoesOn'
  PROVE  array' = array
<1>1. call.fn = "nand_check_bad_block" /\ clean
  BY DEF ScanInv
<1>2. /\ Len(Script(call.fn)) = 3
      /\ pc = 1 => NextStep = "page_read"
      /\ pc = 2 => NextStep = "wait_report_ecc"
      /\ pc = 3 => NextStep = "read_cache"
  BY <1>1 DEF Script, NextStep, nand_check_bad_block, nand_read_page, PrivateFunctions
<1>3. pc \in 0 .. 3
  BY <1>2 DEF TypeOK
<1>4. CASE DriverStep
  <2>1. pc = 1 \/ pc = 2 \/ pc = 3
    BY <1>3, <1>4, StepByName DEF Running
  <2>2. nand_cmd_page_read \/ UNCHANGED devVars
    BY <1>2, <1>4, <2>1, StepByName DEF WaitSteps, nand_cmd_read_x1, Receive
  <2>. QED
    BY <2>2 DEF nand_cmd_page_read, Send, PageRead, Start, WhenReady, devVars
<1>5. CASE Chip
  <2>1. DevNext /\ ~Ready /\ UNCHANGED drvVars
    BY <1>5, IdleChip DEF Chip
  <2>2. GoesOn
    BY <2>1 DEF GoesOn, Running, drvVars
  <2>3. pc = 2 /\ busy = "read"
    BY <1>1, <1>3, <2>1, <2>2 DEF ReadInv, Readers, GoesOn, Running
  <2>. QED
    BY <2>1, <2>3 DEF DevNext, FinishRead, FinishProgram, FinishErase, FinishReset
<1>. QED
  BY <1>4, <1>5

LEMMA ScanInductive ==
  /\ ScanInit => ScanInv
  /\ ScanDriverInv /\ ScanInv /\ [ScanNext]_scanVars => ScanInv'
<1>1. ScanInit => ScanInv
  BY DEF ScanInit, ScanInv
<1>2. ASSUME ScanDriverInv, ScanInv, [ScanNext]_scanVars PROVE ScanInv'
  <2>1. CASE nand_print_bad_blocks
    <3>1. CheckBlock(0) /\ 0 \in Blocks
      BY <2>1, GeometryAssumption, Asked DEF nand_print_bad_blocks, Blocks
    <3>2. /\ i' = 0 /\ scanning' = TRUE /\ printed' = {} /\ total' = 0 /\ trusted' = clean'
      BY <2>1 DEF nand_print_bad_blocks
    <3>3. MarkedBelow(i)' = {} /\ Cardinality({}) = 0
      BY <3>2, FS_EmptySet DEF MarkedBelow
    <3>. QED
      BY <3>1, <3>2, <3>3, Asked DEF ScanInv
  <2>2. CASE FailedToRead
    BY <1>2, <2>2 DEF FailedToRead, ScanInv
  <2>3. CASE NextBlock
    <3>1. /\ i \in Nat /\ i' = i + 1 /\ scanning
      BY <1>2, <2>3 DEF NextBlock, Checked, ScanInv
    <3>2. CASE i' < NumBlocks
      <4>1. CheckBlock(i') /\ scanning' = scanning /\ i' \in Blocks
        BY <2>3, <3>1, <3>2, GeometryAssumption DEF NextBlock, Blocks
      <4>2. /\ call'.fn = "nand_check_bad_block" /\ call'.addr = i'
            /\ clean' = (Ready /\ cfg = "array")
        BY <4>1, Asked
      <4>3. ASSUME trusted'
            PROVE  clean' /\ printed' = MarkedBelow(i)' /\ total' = Cardinality(printed')
        BY <1>2, <2>3, <4>2, <4>3, ListGrows DEF ScanDriverInv
      <4>. QED
        BY <3>1, <4>1, <4>2, <4>3 DEF ScanInv
    <3>3. CASE ~(i' < NumBlocks)
      BY <2>3, <3>1, <3>3 DEF NextBlock, ScanInv
    <3>. QED
      BY <3>2, <3>3
  <2>4. CASE \E c \in ClientCalls : ClientInvokes(c)
    BY <1>2, <2>4 DEF ClientInvokes, ScanInv
  <2>5. CASE (DriverStep \/ Chip) /\ UNCHANGED loopVars
    <3>1. UNCHANGED <<call, clean>>
      BY <2>5, StepInCall DEF Chip, drvVars
    <3>2. ASSUME scanning, trusted, GoesOn' PROVE GoesOn
      <4>1. DriverStep => Running
        BY StepByName
      <4>. QED
        BY <2>5, <3>2, <4>1 DEF GoesOn, Running, Chip, drvVars
    <3>3. ASSUME scanning, trusted, GoesOn' PROVE MarkedBelow(i)' = MarkedBelow(i)
      <4>1. array' = array /\ i' = i
        BY <1>2, <2>5, <3>3, ScanDriverStep DEF ScanDriverInv, loopVars
      <4>. QED
        BY <4>1 DEF MarkedBelow, Marked, block_to_page_addr
    <3>. QED
      BY <1>2, <2>5, <3>1, <3>2, <3>3 DEF ScanInv, loopVars
  <2>6. CASE UNCHANGED scanVars
    <3>1. MarkedBelow(i)' = MarkedBelow(i) /\ GoesOn' = GoesOn
      BY <2>6
      DEF scanVars, loopVars, vars, devVars, drvVars, MarkedBelow, Marked,
          block_to_page_addr, GoesOn, Running
    <3>. QED
      BY <1>2, <2>6, <3>1 DEF ScanInv, scanVars, loopVars, vars, drvVars
  <2>. QED
    BY <1>2, <2>1, <2>2, <2>3, <2>4, <2>5, <2>6 DEF ScanNext
<1>. QED
  BY <1>1, <1>2

(* "print the address of all bad blocks": a scan that began on an idle     *)
(* chip, whose reads ECC repaired and that returns success has printed and *)
(* counted every marked block of the chip, and no other.                   *)
THEOREM ScanCorrect == ScanSpec => AllPrinted
<1>1. ScanDriverInv /\ ScanInv /\ [ScanNext]_scanVars =>
        [scanning /\ ~scanning' /\ ui32Status' = "SUCCESS" /\ trusted' =>
           printed' = {b \in Blocks : Marked(b)} /\ total' = Cardinality(printed')]_scanVars
  <2>. SUFFICES ASSUME ScanDriverInv, ScanInv, ScanNext,
                       scanning, ~scanning', ui32Status' = "SUCCESS", trusted'
                PROVE  printed' = {b \in Blocks : Marked(b)} /\ total' = Cardinality(printed')
    OBVIOUS
  <2>1. NextBlock /\ ~(i' < NumBlocks)
    BY DEF ScanNext, nand_print_bad_blocks, FailedToRead, Checked, NextBlock, ClientInvokes,
           loopVars
  <2>2. /\ array' = array /\ i' = i + 1 /\ printed' = MarkedBelow(i)'
        /\ total' = Cardinality(printed')
    BY <2>1, ListGrows DEF ScanDriverInv
  <2>3. i' = NumBlocks
    BY <2>1, <2>2, GeometryAssumption DEF ScanInv, Blocks
  <2>4. MarkedBelow(i)' = {b \in Blocks : Marked(b)}
    BY <2>2, <2>3 DEF MarkedBelow, Marked, Blocks, block_to_page_addr
  <2>. QED
    BY <2>2, <2>4
<1>2. ScanInv => i \in Nat
  BY DEF ScanInv
<1>. QED
  BY <1>1, <1>2, ScanDriver, ScanInductive, PTL DEF ScanSpec, AllPrinted
=============================================================================
