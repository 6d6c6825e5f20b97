----------------------------- MODULE NandFlash -----------------------------
(***************************************************************************)
(* The SPI NAND driver of nand_flash.c, on top of the chip of SpiNand.     *)
(*                                                                         *)
(* Every public function is a fixed sequence of bus transfers and waits,   *)
(* left at once when a step fails: its script.  One step of this module is *)
(* one step of the running function's script, so the chip may finish an    *)
(* operation, or the MCU restart, between any two of them.  A bus transfer *)
(* may fail in the HAL, whether or not the command reached the chip; on an *)
(* MSPI that nand_init did not set up every transfer fails.                *)
(*                                                                         *)
(* What a function hands back is kept in ret, buf, eccFatal and flag until *)
(* the next call.  "unset" is an out parameter the function never wrote:   *)
(* its caller then reads whatever its own variable held.                   *)
(***************************************************************************)
EXTENDS SpiNand, Sequences

CONSTANTS
  Functions,   \* the driver functions the client calls
  PollLimit,   \* polls of the status register before nand_wait_busy gives up
  BusFaults,   \* TRUE: any HAL transfer may return an error
  MayOverrun,  \* TRUE: the chip may take longer than its data sheet times
  Restarts     \* TRUE: the MCU may restart at any time, with or without power loss

ASSUME DriverAssumption ==
  /\ PagesPerBlock > 1          \* PARAMETER_PAGE_PAGE_ADDR is a page
  /\ PollLimit \in Nat \ {0}
  /\ BusFaults \in BOOLEAN /\ MayOverrun \in BOOLEAN /\ Restarts \in BOOLEAN

VARIABLES
  mspi,      \* the MSPI behind g_pMSPIHandle is set up
  pc,        \* position in the running function's script, 0 between calls
  call,      \* the running, or else the last, call and its arguments
  polls,     \* polls left in the wait at pc
  oldCfg,    \* old_reg_config of nand_read_params_page
  ret,       \* status the last call returned
  buf,       \* data the last call read
  eccFatal,  \* *ecc_fatal as the last call left it
  flag,      \* *is_free, *is_bad, *writable or *busy, likewise
  clean,     \* history: the chip was idle and in array mode when the call began
  before     \* history: what the call's page held when the call began

outVars == <<buf, eccFatal, flag>>
drvVars == <<mspi, pc, call, polls, oldCfg, ret, buf, eccFatal, flag, clean, before>>
vars    == <<devVars, drvVars>>

-----------------------------------------------------------------------------
(* The scripts.  A step named wait_x polls the status register in          *)
(* nand_wait_busy and then acts on the status as x says.                   *)
(*                                                                         *)
(* A definition named f_Bug, here and below, is f with a slip a programmer *)
(* could make.  No action uses it: it is there to show that a property     *)
(* would notice the slip.                                                  *)

nand_reset == <<"reset", "reset_delay">>

nand_init_NoDelay == <<"mspi_setup", "reset", "unlock", "mspi_setup">>

nand_init == <<"mspi_setup", "reset", "reset_delay", "unlock", "mspi_setup">>

nand_id == <<"read_id">>

nand_erase_block_Unchecked == <<"write_enable", "block_erase", "wait">>

nand_erase_block_NoWait == <<"write_enable", "block_erase">>

nand_erase_block == <<"write_enable", "block_erase", "wait_check_erase">>

nand_prog_page_NoEnable ==
  <<"program_load", "program_execute", "wait_check_program">>

nand_prog_page_Unchecked ==
  <<"write_enable", "program_load", "write_enable", "program_execute", "wait">>

nand_prog_page ==
  <<"write_enable", "program_load", "write_enable", "program_execute",
    "wait_check_program">>

nand_read_page_ReadFirst == <<"page_read", "read_cache", "wait_report_ecc">>

nand_read_page == <<"page_read", "wait_report_ecc", "read_cache">>

nand_is_free == nand_read_page

nand_check_bad_block_NoWait == <<"page_read", "read_cache">>

nand_check_bad_block == nand_read_page

nand_copy_page_ClearedCache ==
  <<"page_read", "wait_stop_on_ecc", "write_enable", "program_load",
    "program_execute", "wait">>

nand_copy_page ==
  <<"page_read", "wait_stop_on_ecc", "write_enable", "program_load_none",
    "program_execute", "wait">>

nand_mark_bad_block_NoPoll ==
  <<"page_read", "write_enable", "program_load_marker", "program_execute",
    "wait_check_program">>

nand_mark_bad_block ==
  <<"page_read", "poll_busy", "write_enable", "program_load_marker",
    "program_execute", "wait_check_program">>

nand_read_params_page_NoRestore ==
  <<"check_len", "get_config", "set_params_mode", "page_read", "wait_report_ecc",
    "read_cache">>

nand_read_params_page ==
  <<"check_len", "get_config", "set_params_mode", "page_read", "wait_report_ecc",
    "read_cache", "restore_config">>

(* Functions of nand_flash_private.h, which the test program calls itself. *)
PrivateFunctions ==
  {"write_enable", "write_disable", "get_writable", "get_busy", "page_read",
   "read_cache", "program_load"}

PublicFunctions ==
  {"nand_init", "nand_reset", "nand_id", "nand_erase_block", "nand_prog_page",
   "nand_read_page", "nand_is_free", "nand_check_bad_block", "nand_copy_page",
   "nand_mark_bad_block", "nand_read_params_page"}

Script(fn) ==
  CASE fn = "nand_init"             -> nand_init
    [] fn = "nand_reset"            -> nand_reset
    [] fn = "nand_id"               -> nand_id
    [] fn = "nand_erase_block"      -> nand_erase_block
    [] fn = "nand_prog_page"        -> nand_prog_page
    [] fn = "nand_read_page"        -> nand_read_page
    [] fn = "nand_is_free"          -> nand_is_free
    [] fn = "nand_check_bad_block"  -> nand_check_bad_block
    [] fn = "nand_copy_page"        -> nand_copy_page
    [] fn = "nand_mark_bad_block"   -> nand_mark_bad_block
    [] fn = "nand_read_params_page" -> nand_read_params_page
    [] fn \in PrivateFunctions      -> <<fn>>

-----------------------------------------------------------------------------
(* Calls and their arguments.  addr is a block number for the functions on *)
(* blocks and a page address for the others.  src and data are used by the *)
(* copy and the program; eccp says whether the caller passed an ecc_fatal  *)
(* pointer.                                                                *)

BlockFunctions == {"nand_erase_block", "nand_check_bad_block", "nand_mark_bad_block"}

Call == {c \in [fn : PublicFunctions \union PrivateFunctions, addr : Pages,
                src : Pages, data : Payloads \union {Blank}, eccp : BOOLEAN] :
           c.fn \in BlockFunctions => c.addr \in Blocks}

block_to_page_addr_NoShift(block_addr) == block_addr

block_to_page_addr(block_addr) == block_addr * PagesPerBlock

(* The page address call c works on. *)
PageOf(c) == IF c.fn \in BlockFunctions THEN block_to_page_addr(c.addr) ELSE c.addr

NoAddress == {"nand_init", "nand_reset", "nand_id"} \union PrivateFunctions

(* What the client, dhara or the test program, may ask for.  An argument a *)
(* function does not have is 0, Blank or FALSE.                            *)
ClientCalls ==
  {c \in Call :
     /\ c.fn \in Functions
     /\ c.fn \in NoAddress => c.addr = 0
     /\ c.fn = "nand_read_params_page" => c.addr = 1
     /\ c.fn # "nand_copy_page" => c.src = 0
     /\ IF c.fn = "nand_prog_page" THEN c.data \in Payloads ELSE c.data = Blank
     /\ c.eccp => c.fn \in {"nand_read_page", "nand_copy_page"}}

InitCall == [fn |-> "nand_init", addr |-> 0, src |-> 0, data |-> Blank, eccp |-> FALSE]

-----------------------------------------------------------------------------
Init ==
  /\ DevInit
  /\ mspi = FALSE
  /\ pc = 1 /\ call = InitCall /\ polls = PollLimit
  /\ oldCfg = "array" /\ ret = "none"
  /\ buf = Noise /\ eccFatal = "unset" /\ flag = "unset"
  /\ clean = FALSE /\ before = Noise

Statuses == {"none", "SUCCESS", "ERROR", "TIMEOUT", "HW_ERR", "INVALID_ARG"}

(* Every variable holds a value of its type. *)
TypeOK ==
  /\ DevTypeOK
  /\ mspi \in BOOLEAN
  /\ call \in Call
  /\ pc \in 0 .. Len(Script(call.fn))
  /\ polls \in 1 .. PollLimit
  /\ oldCfg \in {"array", "params"}
  /\ ret \in Statuses
  /\ buf \in Content
  /\ eccFatal \in {"unset", "yes", "no"} /\ flag \in {"unset", "yes", "no"}
  /\ clean \in BOOLEAN
  /\ before \in Content

YesNo(b) == IF b THEN "yes" ELSE "no"

-----------------------------------------------------------------------------
(* Control *)

Running == pc # 0
At(step) == Running /\ Script(call.fn)[pc] = step

(* return status; *)
Return(status) ==
  /\ pc' = 0
  /\ ret' = status
  /\ UNCHANGED <<call, polls, clean, before>>

(* On to the next step of the script, or out of the function. *)
Advance ==
  IF pc = Len(Script(call.fn)) THEN Return("SUCCESS")
  ELSE /\ pc' = pc + 1
       /\ polls' = PollLimit
       /\ UNCHANGED <<call, ret, clean, before>>

(* The HAL reports an error and the function returns it. *)
TransferFails == BusFaults /\ Return("ERROR") /\ UNCHANGED <<oldCfg, outVars>>

(* One blocking transfer that carries no data back to the MCU.  One that   *)
(* fails may have reached the chip all the same.                           *)
Send(Effect) ==
  /\ mspi' = mspi
  /\ \/ mspi /\ Effect /\ Advance /\ UNCHANGED <<oldCfg, outVars>>
     \/ ((mspi /\ Effect) \/ UNCHANGED devVars) /\ TransferFails

(* One blocking transfer that leaves the chip alone and brings data back,  *)
(* with which the function goes on as Use says.                            *)
Receive(Use) ==
  /\ mspi' = mspi
  /\ UNCHANGED devVars
  /\ (mspi /\ Use) \/ TransferFails

-----------------------------------------------------------------------------
(* The bus transfers *)

nand_cmd_write_enable == At("write_enable") /\ Send(SetWel(TRUE))

nand_cmd_write_disable == At("write_disable") /\ Send(SetWel(FALSE))

(* A copy reads its source page into the cache, every other call its page. *)
nand_cmd_page_read ==
  /\ At("page_read")
  /\ Send(PageRead(IF call.fn = "nand_copy_page" THEN call.src ELSE PageOf(call)))

nand_cmd_program_load_x1_Random ==
  At("program_load") /\ Send(ProgramLoadRandom([data |-> call.data, marks |-> {}]))

nand_cmd_program_load_x1 ==
  At("program_load") /\ Send(ProgramLoad([data |-> call.data, marks |-> {}]))

(* nand_mark_bad_block writes its own marker byte into the cache. *)
LoadMarker ==
  /\ At("program_load_marker")
  /\ Send(ProgramLoadRandom([data |-> Blank, marks |-> {"ours"}]))

(* nand_copy_page gives no data. *)
LoadNothing == At("program_load_none") /\ Send(ProgramLoadRandom(Erased))

nand_cmd_program_load_random_x1 == LoadMarker \/ LoadNothing

nand_cmd_program_execute == At("program_execute") /\ Send(ProgramExecute(PageOf(call)))

nand_cmd_block_erase == At("block_erase") /\ Send(BlockErase(PageOf(call)))

CmdReset == At("reset") /\ Send(Reset)

(* am_util_delay_ms(RESET_TIME_MS) outlasts the 565us of the reset. *)
ResetDelay ==
  /\ At("reset_delay")
  /\ MayOverrun \/ busy # "reset"
  /\ Advance
  /\ UNCHANGED <<devVars, mspi, oldCfg, outVars>>

nand_init_device == At("unlock") /\ Send(UnlockAll)

(* HAL and pin configuration: no command for the chip.  Any of its calls   *)
(* may fail; if one fails the second time the MSPI may be left as it was   *)
(* or disabled.                                                            *)
MspiSetup ==
  /\ At("mspi_setup")
  /\ UNCHANGED devVars
  /\ \/ mspi' = TRUE /\ Advance /\ UNCHANGED <<oldCfg, outVars>>
     \/ mspi' \in {mspi, FALSE} /\ TransferFails

(* The ID is checked; a busy chip does not answer with it. *)
ReadId ==
  /\ At("read_id")
  /\ Receive((IF Ready THEN Advance ELSE Return("ERROR")) /\ UNCHANGED <<oldCfg, outVars>>)

(* Read out of the cache.  nand_is_free takes the ECC area, which is free  *)
(* when no byte of it is programmed; nand_check_bad_block the spare bytes, *)
(* of which either mark makes the block bad.                               *)
nand_cmd_read_x1 ==
  /\ At("read_cache")
  /\ Receive(/\ Advance
             /\ buf' = IF Ready THEN cache ELSE Noise
             /\ flag' = CASE call.fn = "nand_is_free" -> YesNo(~EccAreaWritten(buf'))
                          [] call.fn = "nand_check_bad_block" -> YesNo(buf'.marks # {})
                          [] OTHER -> flag
             /\ UNCHANGED <<oldCfg, eccFatal>>)

nand_get_writable ==
  /\ At("get_writable")
  /\ Receive(Advance /\ flag' = YesNo(wel) /\ UNCHANGED <<oldCfg, buf, eccFatal>>)

nand_get_busy ==
  /\ At("get_busy")
  /\ Receive(Advance /\ flag' = YesNo(~Ready) /\ UNCHANGED <<oldCfg, buf, eccFatal>>)

(* nand_mark_bad_block polls without a limit. *)
PollBusy ==
  /\ At("poll_busy")
  /\ Receive(Ready /\ Advance /\ UNCHANGED <<oldCfg, outVars>>)

-----------------------------------------------------------------------------
(* nand_read_params_page around its page read *)

(* A buffer shorter than the parameter page is refused. *)
CheckLen ==
  /\ At("check_len")
  /\ Advance \/ Return("INVALID_ARG")
  /\ UNCHANGED <<devVars, mspi, oldCfg, outVars>>

GetConfig ==
  At("get_config") /\ Receive(Advance /\ oldCfg' = cfg /\ UNCHANGED outVars)

SetParamsMode == At("set_params_mode") /\ Send(SetCfg("params"))

RestoreConfig == At("restore_config") /\ Send(SetCfg(oldCfg))

-----------------------------------------------------------------------------
(* Waiting *)

nand_status_to_ecc(code) ==
  CASE code = 0 -> "ECC_OK"
    [] code = 1 -> "ECC_CORRECTED"
    [] code = 3 -> "ECC_SHOULD_REFRESH"
    [] code = 5 -> "ECC_MUST_REFRESH"
    [] OTHER    -> "ECC_FATAL"

EccFatal == nand_status_to_ecc(ecc) = "ECC_FATAL"

(* The operations that end within the timeout of each wait when the chip   *)
(* keeps its times: PAGE_READ_TIME_US 80 < reset 565 < PROGRAM_TIME_US 600 *)
(* < ERASE_TIME_US 10000.                                                  *)
Covered(step) ==
  CASE step \in {"wait_report_ecc", "wait_stop_on_ecc"} -> {"read"}
    [] step \in {"wait", "wait_check_program"} -> {"read", "reset", "program"}
    [] step = "wait_check_erase" -> {"read", "reset", "program", "erase"}

(* Starts over for as long as the chip reports a failed program. *)
UseStatus_Retry(step) ==
  /\ IF pfail /\ step # "wait_check_erase"
     THEN pc' = 1 /\ polls' = PollLimit /\ UNCHANGED <<call, ret, clean, before>>
     ELSE Advance
  /\ UNCHANGED eccFatal

(* What a function does with the status once the chip is ready. *)
UseStatus(step) ==
  CASE step = "wait_check_erase"   ->
         /\ IF efail THEN Return("HW_ERR") ELSE Advance
         /\ UNCHANGED eccFatal
    [] step = "wait_check_program" ->
         /\ IF pfail THEN Return("HW_ERR") ELSE Advance
         /\ UNCHANGED eccFatal
    [] step = "wait_report_ecc"    ->
         /\ Advance
         /\ eccFatal' = IF call.eccp THEN YesNo(EccFatal) ELSE eccFatal
    [] step = "wait_stop_on_ecc"   ->
         IF EccFatal /\ call.eccp
         THEN Return("HW_ERR") /\ eccFatal' = "yes"
         ELSE Advance /\ UNCHANGED eccFatal
    [] step = "wait"               -> Advance /\ UNCHANGED eccFatal

StillBusy_NoCount(step) ==
  /\ ~Ready
  /\ UNCHANGED <<pc, call, polls, ret, clean, before, eccFatal>>

StillBusy_OffByOne(step) ==
  /\ ~Ready
  /\ polls > 0 \/ MayOverrun \/ busy \notin Covered(step)
  /\ IF polls = 0 THEN Return("TIMEOUT")
     ELSE polls' = polls - 1 /\ UNCHANGED <<pc, call, ret, clean, before>>
  /\ UNCHANGED eccFatal

(* Falls out of the loop and goes on when the polls are used up. *)
StillBusy_NoTimeout(step) ==
  /\ ~Ready
  /\ polls > 1 \/ MayOverrun \/ busy \notin Covered(step)
  /\ IF polls = 1 THEN Advance
     ELSE polls' = polls - 1 /\ UNCHANGED <<pc, call, ret, clean, before>>
  /\ UNCHANGED eccFatal

(* One more poll, or the last one of the wait.  A chip that keeps its      *)
(* times is ready by the last poll if the wait covers its operation.       *)
StillBusy(step) ==
  /\ ~Ready
  /\ polls > 1 \/ MayOverrun \/ busy \notin Covered(step)
  /\ IF polls = 1 THEN Return("TIMEOUT")
     ELSE polls' = polls - 1 /\ UNCHANGED <<pc, call, ret, clean, before>>
  /\ UNCHANGED eccFatal

WaitSteps ==
  {"wait_check_erase", "wait_check_program", "wait_report_ecc", "wait_stop_on_ecc", "wait"}

nand_wait_busy ==
  \E step \in WaitSteps :
    /\ At(step)
    /\ Receive(/\ StillBusy(step) \/ (Ready /\ UseStatus(step))
               /\ UNCHANGED <<oldCfg, buf, flag>>)

-----------------------------------------------------------------------------
(* The driver's environment *)

(* The client calls the function of c. *)
Invoke(c) ==
  /\ ~Running
  /\ pc' = 1 /\ call' = c /\ polls' = PollLimit /\ ret' = "none"
  /\ buf' = Noise /\ eccFatal' = "unset" /\ flag' = "unset"
  /\ clean' = (Ready /\ cfg = "array")
  /\ before' = array[PageOf(c)]
  /\ UNCHANGED <<devVars, mspi, oldCfg>>

(* The MCU restarts and main calls nand_init; the chip carries on with what *)
(* it was doing unless its supply failed too.                              *)
Restart ==
  /\ Restarts
  /\ PowerCycle \/ UNCHANGED devVars
  /\ mspi' = FALSE
  /\ pc' = 1 /\ call' = InitCall /\ polls' = PollLimit
  /\ oldCfg' = "array" /\ ret' = "none"
  /\ buf' = Noise /\ eccFatal' = "unset" /\ flag' = "unset"
  /\ clean' = FALSE /\ before' = Noise

Chip == DevNext /\ UNCHANGED drvVars

DriverStep ==
  \/ nand_cmd_write_enable \/ nand_cmd_write_disable
  \/ nand_cmd_page_read \/ nand_cmd_read_x1
  \/ nand_cmd_program_load_x1 \/ nand_cmd_program_load_random_x1
  \/ nand_cmd_program_execute \/ nand_cmd_block_erase
  \/ CmdReset \/ ResetDelay \/ nand_init_device \/ MspiSetup
  \/ ReadId \/ nand_get_writable \/ nand_get_busy \/ PollBusy
  \/ CheckLen \/ GetConfig \/ SetParamsMode \/ RestoreConfig
  \/ nand_wait_busy

Next ==
  \/ \E c \in ClientCalls : Invoke(c)
  \/ DriverStep
  \/ Chip
  \/ Restart

Spec == Init /\ [][Next]_vars

(* The MCU keeps executing; nothing is assumed of the chip. *)
DriverFairSpec == Spec /\ WF_vars(DriverStep)

(* The chip ends every operation it started. *)
ChipAnswers == WF_vars(Chip)

-----------------------------------------------------------------------------
(* Properties *)

Succeeded(fn) == ~Running /\ ret = "SUCCESS" /\ call.fn = fn

(* A call that began on an idle chip in array mode and returned success. *)
Kept(fn) == clean /\ Succeeded(fn)

(* nand_prog_page: "Takes data[] of PAGE_SIZE and programs the lot".  When *)
(* it says success the page holds the data, programmed over what was there,*)
(* and none of it is still on its way.                                     *)
ProgramDone ==
  Kept("nand_prog_page") =>
    array[call.addr] = Merge(before, [data |-> call.data, marks |-> {}])

(* nand_erase_block says success only when every page of the block, its    *)
(* bad block marks included, is erased.                                    *)
EraseDone ==
  Kept("nand_erase_block") =>
    \A p \in Pages : p \div PagesPerBlock = call.addr => array[p] = Erased

(* nand_read_page: a read that returns success without a fatal ECC error   *)
(* returned the bytes stored in the page it was asked for.                 *)
ReadTrue ==
  Kept("nand_read_page") /\ eccFatal = "no" => buf = array[call.addr]

(* nand_is_free and nand_check_bad_block answer for the page and the block *)
(* they were asked about, as long as ECC could repair what was read.       *)
AnswersTrue ==
  /\ Kept("nand_is_free") /\ Correctable(ecc) =>
       (flag = "yes" <=> ~EccAreaWritten(array[call.addr]))
  /\ Kept("nand_check_bad_block") /\ Correctable(ecc) =>
       (flag = "yes" <=> array[call.addr * PagesPerBlock].marks # {})

(* nand_copy_page: after success the destination holds the source's bytes, *)
(* spare area included, if the chip raised no P_FAIL and ECC could repair  *)
(* the source; with an ecc_fatal pointer the latter need not be assumed.   *)
CopyDone ==
  Kept("nand_copy_page") /\ ~pfail /\ (Correctable(ecc) \/ call.eccp) =>
    array[call.addr] = Merge(before, array[call.src])

(* nand_mark_bad_block: after success the block's first page carries the   *)
(* driver's mark and still has its data ("without loosing all the page     *)
(* data").                                                                 *)
MarkDone ==
  Kept("nand_mark_bad_block") /\ Correctable(ecc) =>
    array[call.addr * PagesPerBlock] = [before EXCEPT !.marks = @ \union {"ours"}]

(* nand_read_params_page returns the parameter page and leaves the chip    *)
(* reading the array again.                                                *)
ParamsDone ==
  Kept("nand_read_params_page") => buf.data = ParamData /\ cfg = "array"

(* No function says success while the chip is still at work for it: the    *)
(* next call cannot be ignored because of this one.                        *)
QuietAfterSuccess ==
  ~Running /\ ret = "SUCCESS" /\ call.fn \in PublicFunctions => Ready

Writers == {"nand_erase_block", "nand_prog_page", "nand_copy_page", "nand_mark_bad_block"}

(* "Enable write, as gets cleared by last program or erase_block function":*)
(* a write that succeeded has closed the write enable latch it opened.     *)
LatchClosed == \A fn \in Writers : Kept(fn) => ~wel

(* nand_init recovers the chip whatever a restart interrupted: it is idle, *)
(* not writable and its blocks are unlocked.                               *)
InitRecovers == Succeeded("nand_init") => Ready /\ ~wel /\ ~locked

(* The pages a call may change. *)
Target(c) ==
  CASE c.fn = "nand_erase_block"    -> {p \in Pages : p \div PagesPerBlock = c.addr}
    [] c.fn = "nand_mark_bad_block" -> {c.addr * PagesPerBlock}
    [] c.fn \in {"nand_prog_page", "nand_copy_page"} -> {c.addr}
    [] OTHER -> {}

(* A call on an idle chip changes no page but its target, succeed or fail. *)
OutsideUntouched ==
  [][\A p \in Pages : clean /\ array'[p] # array[p] => p \in Target(call)]_vars

(* A page gets the driver's bad block mark only from nand_mark_bad_block,  *)
(* or from a copy of a page that carries it.                               *)
MarkedOnPurpose ==
  [][\A p \in Pages :
       clean /\ "ours" \in array'[p].marks \ array[p].marks =>
         \/ call.fn = "nand_mark_bad_block"
         \/ call.fn = "nand_copy_page" /\ "ours" \in array[call.src].marks]_vars

(* Every call returns if the chip ends its operations, also the one with   *)
(* the unbounded poll and those that meet a failed program.                *)
CallsReturn == ChipAnswers => (Running ~> ~Running)

(* Every call but nand_mark_bad_block returns even if the chip never does. *)
BoundedCallsReturn == Running /\ call.fn # "nand_mark_bad_block" ~> ~Running

-----------------------------------------------------------------------------
(* What a comment or a test says of the driver and the code does not do.   *)

(* "Copy a page from one address to another" (nand_copy_page): success     *)
(* means the page was copied, P_FAIL or not.                               *)
CopySaidDone ==
  Kept("nand_copy_page") /\ Correctable(ecc) =>
    array[call.addr] = Merge(before, array[call.src])

(* "Write original value back to old_reg_config to exit parameter page     *)
(* reading mode": once nand_read_params_page is over the chip reads the    *)
(* array again.                                                            *)
ParamsModeLeft == clean /\ ~Running => cfg = "array"

(* "Read a portion of a page": a successful read returned the page asked   *)
(* for, also after a read that did not end in time, on a chip that         *)
(* nand_init unlocked.                                                     *)
ReadAlwaysTrue ==
  Succeeded("nand_read_page") /\ ~locked /\ cfg = "array" /\ eccFatal = "no" =>
    buf = array[call.addr]
=============================================================================
