-------------------------------- MODULE Mspi ---------------------------------
(***************************************************************************)
(* The MSPI peripheral under nand_flash.c: its configuration register,     *)
(* which the driver changes by hand around the transfers, the two attempts *)
(* at quad reads, and the command queue and DMA that run beside the        *)
(* program and end in MSPI_IRQHandler.                                     *)
(*                                                                         *)
(* A function is the list of its steps.  A step that can fail ends the     *)
(* function at once, unless the next step is to restore ASIZE.             *)
(***************************************************************************)
EXTENDS Naturals, Sequences

CONSTANTS
  Functions,  \* private functions the program calls, with "init"
  PollLimit,  \* AM_DEVICES_MSPI_FLASH_TIMEOUT: rounds of the wait for the DMA
  QuadReads,  \* bound on the quad reads between two restarts
  HalFails    \* TRUE: any call of the HAL may return an error

ASSUME MspiAssumption ==
  /\ PollLimit \in Nat \ {0} /\ QuadReads \in Nat
  /\ HalFails \in BOOLEAN

VARIABLES
  settings,      \* g_psMSPISettings.eDeviceConfig
  cfg,           \* MSPI->CFG: address bytes, turnaround, device
  enabled,
  old_asize,     \* mspi_cfg_old_asize
  ce,            \* who drives chip enable: nobody yet, the peripheral or the GPIO, low
  fn, todo, rc,  \* the running function, its next steps, what it or the last returns
  polls,
  g_dma_complete,
  queue,         \* command queue and DMA: stages still to run, with their read
  irq            \* CQUPD or ERR interrupt pending

VARIABLE fast    \* the queue is always done within PollLimit rounds

VARIABLES        \* history
  reads,         \* quad reads since the restart
  arrived,       \* those whose data have reached their buffer
  aborted,       \* the queue was aborted since the restart
  known,         \* an init succeeded and no quad read began since
  x4_failed      \* an x4 read failed since the restart

cpu  == <<settings, enabled, old_asize, ce, fn, todo, rc, polls>>
hist == <<reads, aborted, known, x4_failed>>
mspiVars == <<cfg, cpu, g_dma_complete, queue, irq, arrived, hist, fast>>

Step(do, v) == [do |-> do, v |-> v]

(* A transfer with that many address bytes.  The chip takes every command  *)
(* and address on one line, and the data on one or, after READ FROM CACHE  *)
(* X4, on four.                                                            *)
Send(bytes) == [do |-> "send", v |-> bytes, data |-> "serial"]
SendQuad(bytes) == [do |-> "send", v |-> bytes, data |-> "quad"]

(* The lines the MSPI uses, for the command, the address and the data      *)
(* alike: "Instr is sent as Quad, not SPI as it should be".                *)
Lines == cfg.dev

Feature == <<Step("save", 0), Step("asize", 1), Send(1), Step("restore", 0)>>

mspi_set_use_quadspi(dev) ==
  <<Step("disable", 0), Step("settings", dev), Step("configure", 0), Step("enable", 0)>>

read_x1_NoSize == <<Send(3)>>

(* A dummy byte counts as the third address byte. *)
read_x1 == <<Step("asize", 3), Send(3)>>

read_x4 ==
  <<Step("asize", 2), Step("turnaround", 4)>> \o mspi_set_use_quadspi("quad")
    \o <<SendQuad(2)>> \o mspi_set_use_quadspi("serial")

read_quadio == <<Step("ce_low", 0), Step("post", 0), Step("poll", 0), Step("ce_high", 0)>>

nand_init ==
  <<Step("hal", 0), Step("configure", 0), Step("enable", 0), Step("pins", 0), Send(0)>>
    \o Feature
    \o <<Step("disable", 0), Step("configure", 0), Step("enable", 0), Step("pins", 0), Step("hal", 0)>>

Script ==
  [init         |-> nand_init,
   command      |-> <<Send(0)>>,   \* RESET, READ ID, WRITE ENABLE, WRITE DISABLE
   features     |-> Feature,       \* GET FEATURES, SET FEATURES
   page_command |-> <<Step("asize", 3), Send(3)>>,  \* PAGE READ, PROGRAM EXECUTE, BLOCK ERASE
   program_load |-> <<Step("asize", 2), Step("turnaround", 0), Send(2)>>,  \* also RANDOM
   read_x1      |-> read_x1,
   read_x4      |-> read_x4,
   read_quadio  |-> read_quadio]

ASSUME FunctionsAssumption == Functions \subseteq DOMAIN Script

(* What am_hal_mspi_device_configure makes of g_psMSPISettings. *)
Configured(dev) == [asize |-> 2, turnaround |-> 8, dev |-> dev]

(* MSPI->CFG after a reset: set up for neither device. *)
Unconfigured == [asize |-> 0, turnaround |-> 0, dev |-> "none"]

MspiInit ==
  /\ settings = "serial" /\ cfg = Unconfigured /\ enabled = FALSE
  /\ old_asize = 1 /\ ce = "none"
  /\ fn = "none" /\ todo = <<>> /\ rc = "none" /\ polls = 0
  /\ g_dma_complete = FALSE /\ queue = <<>> /\ irq = FALSE
  /\ reads = 0 /\ arrived = {} /\ aborted = FALSE /\ known = FALSE
  /\ x4_failed = FALSE /\ fast \in BOOLEAN

-----------------------------------------------------------------------------
(* The program *)

(* The program begins with nand_init and goes on, as main does, if it fails. *)
Call(f) ==
  /\ fn = "none"
  /\ rc = "none" => f = "init"
  /\ f = "read_quadio" => reads < QuadReads
  /\ fn' = f
  /\ todo' = Script[f]
  /\ rc' = "success"
  /\ reads' = IF f = "read_quadio" THEN reads + 1 ELSE reads
  /\ known' = (known /\ f # "read_quadio")
  /\ UNCHANGED <<cfg, settings, enabled, old_asize, ce, polls, g_dma_complete, queue, irq, arrived,
                 aborted, x4_failed, fast>>

Now(do) == todo # <<>> /\ Head(todo).do = do

Done == todo' = Tail(todo) /\ UNCHANGED <<fn, rc, polls>>

Leave ==
  /\ HalFails
  /\ rc' = "error"
  /\ todo' = IF Tail(todo) # <<>> /\ todo[2].do = "restore" THEN <<todo[2]>> ELSE <<>>
  /\ UNCHANGED <<fn, polls>>

Registers ==
  /\ \/ /\ Now("asize") /\ cfg' = [cfg EXCEPT !.asize = Head(todo).v]
        /\ UNCHANGED <<old_asize, settings>>
     \/ /\ Now("turnaround") /\ cfg' = [cfg EXCEPT !.turnaround = Head(todo).v]
        /\ UNCHANGED <<old_asize, settings>>
     \/ Now("save") /\ old_asize' = cfg.asize /\ UNCHANGED <<cfg, settings>>
     \/ /\ Now("restore") /\ cfg' = [cfg EXCEPT !.asize = old_asize]
        /\ UNCHANGED <<old_asize, settings>>
     \/ Now("settings") /\ settings' = Head(todo).v /\ UNCHANGED <<cfg, old_asize>>
  /\ Done
  /\ UNCHANGED <<enabled, ce, g_dma_complete, queue, irq, arrived, hist, fast>>

(* am_hal_mspi_blocking_transfer and the other calls that only succeed or not *)
Transfer ==
  /\ Now("send") \/ Now("hal")
  /\ Done \/ Leave
  /\ UNCHANGED <<cfg, settings, enabled, old_asize, ce, g_dma_complete, queue, irq, arrived, hist, fast>>

Control ==
  /\ \/ Now("disable")   /\ enabled' = FALSE /\ UNCHANGED cfg
     \/ Now("configure") /\ cfg' = Configured(settings) /\ UNCHANGED enabled
     \/ Now("enable")    /\ enabled' = TRUE /\ UNCHANGED cfg
  /\ Done
  /\ UNCHANGED <<settings, old_asize, ce, g_dma_complete, queue, irq, arrived, hist, fast>>

ControlFails ==
  /\ Now("disable") \/ Now("configure") \/ Now("enable")
  /\ Leave
  /\ UNCHANGED <<cfg, settings, enabled, old_asize, ce, g_dma_complete, queue, irq, arrived, hist, fast>>

Pins ==
  /\ \/ Now("pins") /\ ce' = "mspi"
     \/ Now("ce_low") /\ ce' = "gpio"
     \/ Now("ce_high") /\ ce' = "mspi"
  /\ Done
  /\ UNCHANGED <<cfg, settings, enabled, old_asize, g_dma_complete, queue, irq, arrived, hist, fast>>

(* AM_HAL_MSPI_REQ_CQ_RAW.  If it fails chip enable stays low. *)
Post ==
  /\ Now("post")
  /\ \/ /\ queue' = queue \o [i \in 1 .. 4 |->
             [stage |-> <<"address", "data", "dma", "update">>[i], read |-> reads]]
        /\ Done
     \/ Leave /\ UNCHANGED queue
  /\ UNCHANGED <<cfg, settings, enabled, old_asize, ce, g_dma_complete, irq, arrived, hist, fast>>

Poll_NoLimit ==
  /\ Now("poll")
  /\ IF g_dma_complete THEN todo' = Tail(todo) /\ polls' = 0 ELSE UNCHANGED <<todo, polls>>
  /\ UNCHANGED <<cfg, settings, enabled, old_asize, ce, fn, rc, g_dma_complete, queue, irq, arrived,
                 hist, fast>>

Poll_NoLoop ==
  /\ Now("poll")
  /\ todo' = Tail(todo) /\ polls' = 0
  /\ UNCHANGED <<cfg, settings, enabled, old_asize, ce, fn, rc, g_dma_complete, queue, irq, arrived,
                 hist, fast>>

(* One round of the wait; running out of rounds is no error. *)
Poll ==
  /\ Now("poll")
  /\ IF g_dma_complete \/ polls + 1 = PollLimit
     THEN todo' = Tail(todo) /\ polls' = 0
     ELSE polls' = polls + 1 /\ UNCHANGED todo
  /\ fast /\ polls + 1 = PollLimit => queue = <<>> /\ ~irq
  /\ UNCHANGED <<cfg, settings, enabled, old_asize, ce, fn, rc, g_dma_complete, queue, irq, arrived,
                 hist, fast>>

ReturnFromCall ==
  /\ fn # "none" /\ todo = <<>>
  /\ fn' = "none"
  /\ known' = IF fn = "init" THEN rc = "success" ELSE known
  /\ x4_failed' = (x4_failed \/ (fn = "read_x4" /\ rc = "error"))
  /\ UNCHANGED <<cfg, settings, enabled, old_asize, ce, todo, rc, polls, g_dma_complete, queue, irq,
                 arrived, reads, aborted, fast>>

Thread == Registers \/ Transfer \/ Control \/ ControlFails \/ Pins \/ Post \/ Poll \/ ReturnFromCall

-----------------------------------------------------------------------------
(* The command queue, the DMA and the interrupt *)

Stage(s) == queue # <<>> /\ Head(queue).stage = s

Queue ==
  /\ \/ Stage("address") /\ cfg' = Configured("serial") /\ UNCHANGED arrived
     \/ /\ Stage("data") /\ cfg' = [asize |-> 1, turnaround |-> 8, dev |-> "quad"]
        /\ UNCHANGED arrived
     \/ Stage("dma") /\ arrived' = arrived \union {Head(queue).read} /\ UNCHANGED cfg
     \/ Stage("update") /\ UNCHANGED <<cfg, arrived>>
  /\ irq' = (irq \/ Stage("update"))
  /\ queue' = Tail(queue)
  /\ UNCHANGED <<cpu, g_dma_complete, hist, fast>>

(* An error drops what is left and raises the ERR interrupt. *)
QueueAborts ==
  /\ queue # <<>> /\ ~aborted
  /\ queue' = <<>> /\ irq' = TRUE /\ aborted' = TRUE
  /\ UNCHANGED <<cfg, cpu, g_dma_complete, arrived, reads, known, x4_failed, fast>>

(* MSPI_IRQHandler and dma_complete_callback, which is not told apart.      *)
MSPI_IRQHandler ==
  /\ irq /\ irq' = FALSE
  /\ g_dma_complete' = TRUE
  /\ UNCHANGED <<cfg, cpu, queue, arrived, hist, fast>>

-----------------------------------------------------------------------------
MspiRestart ==
  /\ settings' = "serial" /\ cfg' = Unconfigured /\ enabled' = FALSE
  /\ old_asize' = 1 /\ ce' = "none"
  /\ fn' = "none" /\ todo' = <<>> /\ rc' = "none" /\ polls' = 0
  /\ g_dma_complete' = FALSE /\ queue' = <<>> /\ irq' = FALSE
  /\ reads' = 0 /\ arrived' = {} /\ aborted' = FALSE /\ known' = FALSE
  /\ x4_failed' = FALSE /\ UNCHANGED fast

MspiNext ==
  \/ \E f \in Functions : Call(f)
  \/ Thread
  \/ Queue \/ QueueAborts \/ MSPI_IRQHandler
  \/ MspiRestart

MspiSpec == MspiInit /\ [][MspiNext]_mspiVars

(* The program runs, the peripheral need not. *)
MspiFairSpec == MspiSpec /\ WF_mspiVars(Thread)

-----------------------------------------------------------------------------
(* Properties *)

(* Every command of nand_init, and every command after a nand_init that    *)
(* succeeded, goes out on an enabled peripheral that drives chip enable,   *)
(* with the address bytes and on the lines the chip expects and with no    *)
(* queue in the way, whatever the calls before it failed to do.  After a   *)
(* nand_init that failed nothing is claimed of chip enable, and the rest   *)
(* only if it left the MSPI enabled.  Of the x4 read only the data is      *)
(* claimed: its command and address go out on four lines and the chip      *)
(* takes them on one, as the code's FIXME says.  Nothing is claimed from a *)
(* failed x4 read until the next restart (it leaves the MSPI in quad mode  *)
(* or disabled, and nand_init uses the settings it left), from a queue     *)
(* that outlives the wait for it, because it is slow or not the first, or  *)
(* from any quad read until the next nand_init.                            *)
FramesRight ==
  Now("send") /\ ~x4_failed /\ fast /\ reads <= 1 =>
    /\ known \/ fn = "init" => enabled /\ ce = "mspi"
    /\ known \/ fn = "init" \/ (enabled /\ reads = 0) =>
         /\ queue = <<>>
         /\ Lines = Head(todo).data
         /\ fn # "read_x4" => Lines = "serial"
         /\ Head(todo).v # 0 => cfg.asize = Head(todo).v

QuadReturned == fn = "read_quadio" /\ todo = <<>> /\ rc = "success"

(* "Test quad read returns same as individual read": after success the     *)
(* first quad read since the restart has its data in the buffer, if the    *)
(* queue is fast enough and meets no error.                                *)
QuadTrue == QuadReturned /\ fast /\ ~aborted /\ reads = 1 => reads \in arrived

(* "FIXME: Hits an interrupt here?": however the queue and its interrupt   *)
(* fare, the quad read ends.                                               *)
QuadReadEnds == fn = "read_quadio" /\ ~fast ~> fn # "read_quadio"

-----------------------------------------------------------------------------
(* What a test says of the code and the code does not do. *)

(* "Test quad read returns same as individual read": of any quad read.     *)
QuadAlwaysTrue == QuadReturned /\ fast /\ ~aborted => reads \in arrived
=============================================================================
