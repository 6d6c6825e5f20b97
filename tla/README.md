# TLA+ models of apollo3_spi_nand

Specifications, model checking and proofs of the firmware in this repository:
an SPI NAND flash driver, the adaptor that carries Dhara (a flash translation
layer) on top of it, and the SEGGER RTT code that carries its output to a debug
probe. Paths are relative to the repository. The firmware runs on an Ambiq
Apollo3 MCU and talks to a Micron MT29F8G01AD chip over the MSPI peripheral.

Contents: [1 inventory](#1-inventory), [2 the model](#2-the-model),
[3 runs](#3-what-is-model-checked), [4 disagreements](#4-where-code-and-text-disagree),
[5 proofs](#5-what-is-proved), [6 limits](#6-what-is-not-modelled), [7 plan](#7-plan).

## 1. Inventory

### Components

| Component | Source | State it keeps | Operations |
|---|---|---|---|
| Flash chip | external; registers in `src/mt79f_cmd_regs.h` | page array, cache register, OIP, write enable latch, P_FAIL, E_FAIL, ECC bits, CFG bits, block lock | PAGE READ, READ FROM CACHE, PROGRAM LOAD (RANDOM), PROGRAM EXECUTE, BLOCK ERASE, WRITE ENABLE/DISABLE, GET/SET FEATURES, READ ID, RESET |
| NAND driver | `src/nand_flash.c` | nothing between calls: everything is in the chip and the MSPI | `nand_init`, `nand_reset`, `nand_id`, `nand_erase_block`, `nand_prog_page`, `nand_read_page`, `nand_is_free`, `nand_copy_page`, `nand_check_bad_block`, `nand_mark_bad_block`, `nand_read_params_page`, `nand_print_bad_blocks` and the private functions the tests call |
| MSPI configuration | `src/nand_flash.c` | `CFG.ASIZE`, `CFG.TURNAROUND`, device mode, `g_psMSPISettings` | every transfer sets ASIZE; `mspi_set_use_quadspi`, `_nand_cmd_read_x4` |
| Quad read | `src/nand_flash.c` | `g_dma_complete`, the command queue, chip enable pin | `_nand_cmd_read_quadio`, `MSPI_IRQHandler`, `dma_complete_callback` |
| Dhara adaptor | `src/dhara_adaptor.c` | none | `dhara_nand_is_bad`, `_mark_bad`, `_erase`, `_prog`, `_is_free`, `_read`, `_copy` |
| Main program | `src/main.c` | the Dhara map, a sector buffer | init, write, sync, resume, read back |
| ONFI printer | `src/onfi_print.c` | none | `onfi_print` |
| RTT up-buffers | `rtt/SEGGER_RTT.c`, `_Syscalls_GCC.c` | control block, ring, `WrOff` (target), `RdOff` (probe), `_ActiveTerminal` | `Write`, `WriteNoLock`, `WriteSkipNoLock`, `WriteWithOverwriteNoLock`, `WriteString`, `PutChar...`, `SetTerminal`, `TerminalOut`, `_write`, initialization |
| RTT down-buffers | `rtt/SEGGER_RTT.c` | ring, `RdOff` (target), `WrOff` (probe) | `Read`, `ReadNoLock`, `GetKey`, `WaitKey`, `HasKey`, `HasData` |
| RTT configuration | `rtt/SEGGER_RTT.c` | which buffers are in use | `AllocUp/DownBuffer`, `ConfigUp/DownBuffer`, `SetName...`, `SetFlags...` |
| System start | `src/system.c`, `src/startup_apollo3.s` | none | `system_init`, vectors, `am_print_string` from the hard fault handler |
| Tests | `test/test_nand_flash.c` | | what they assert is a source of properties |

### How they interact

Dhara (a submodule, not in the repository) calls the adaptor, which calls the
driver; the tests call the driver directly. Every driver function blocks: it
sends commands with `am_hal_mspi_blocking_transfer` and, when a command started
an operation in the chip, polls the status register in `nand_wait_busy`. The
chip works on its own in between. No two driver calls overlap, so the
concurrency of the core is that of *driver and chip*; the quad read adds a
command queue, DMA and an interrupt handler that run beside the thread.

`printf` reaches RTT through `_write`. The debug probe reads and writes the
rings in the target's memory at any moment, with no lock; on the target
`SEGGER_RTT_LOCK` raises BASEPRI to 0x20, which keeps out interrupts of that
priority and below, but neither a priority 0 interrupt nor a hard fault.

### What is hard

* The chip ignores commands while OIP is raised, and a write while the write
  enable latch is down. Nothing reports that a command was ignored. Whether a
  "success" is true depends on the order of commands and waits.
* A step may fail (HAL error, timeout, P_FAIL, E_FAIL, fatal ECC) and the
  functions return at once, leaving the chip as it is: busy, writable or in
  parameter page mode, and the MSPI with it.
* The copy and the bad block mark program whatever the cache register holds.
* The MCU may restart while the chip is at work; `nand_init` has to recover it.
* Waits are bounded by a count of delays, one of them (in
  `nand_mark_bad_block`) not at all, one by a count of rounds.
* Out parameters are not written on every path.
* Two sides of a ring move its offsets without a lock, every writer wraps around
  in its own way, and equal offsets must always mean an empty ring.
* A string framed by terminal switches goes into the ring piece by piece.
* A hard fault prints in the middle of a write, or of the first initialization.

### What makes each component correct

* *Driver*: a call that returns success did what it says; it changed no other
  page; it left the chip idle, write-protected and in array mode; every call
  returns; `nand_init` recovers a chip in any state; the scan for bad blocks
  reports all and only the marked ones.
* *Wait*: success only of a ready chip, no timeout early, none for a chip in time.
* *MSPI*: every command goes out with its own address size and on the lines the
  chip expects; the quad read's buffer is complete on success.
* *Adaptor*: a program, erase or read it answers with 0 is true on the chip, and
  after an error Dhara may go on; a block it calls good is not a marked one.
* *Main*: "Success!" means that the sectors are on the flash.
* *ONFI printer*: the capacity printed is the one of the parameter page.
* *RTT*: each ring is a bounded FIFO; return values are what was stored; each
  byte is shown on its own terminal; no buffer has two owners.

## 2. The model

| Module | Models |
|---|---|
| `SpiNand` | the chip: its state, the effect of each command, the ends of its operations, power cycles |
| `NandFlash` (EXTENDS `SpiNand`) | the driver's functions, their callers, MCU restarts, and the properties |
| `BadBlockScan` (EXTENDS `NandFlash`) | `nand_print_bad_blocks`, which makes a driver call per block |
| `DharaAdaptor` (EXTENDS `NandFlash`) | the adaptor's functions around the driver's, and their answers |
| `WaitBusy` | `nand_wait_busy` in microseconds |
| `Mspi` | the MSPI's registers, every transfer's use of them, x4 read, quad read with queue, DMA and interrupt |
| `MainProgram` | `main` over a Dhara map |
| `OnfiPrint` | the checks and the size arithmetic of `onfi_print` |
| `RttChannel` | the abstract promise of an RTT ring: a bounded FIFO |
| `RttRing` | offsets, space and copies of a ring, shared by the next three |
| `RttUp` | target to host: initialization, every writing function, terminals, probe, hard fault |
| `RttDown` | host to target: every reading and asking function, probe |
| `RttOverwrite` | `SEGGER_RTT_WriteWithOverwriteNoLock` |
| `RttBuffers` | allocation and configuration of buffers by program and interrupt |
| `MCNandFlash`, `MCBadBlockScan`, `MCDharaAdaptor`, `MCRttUp`, `MCParts` and the `.cfg` files | instances for TLC |
| `NandFlashProofs`, `NandFlashWriteProofs` | theorems about the driver |
| `NandCallersProofs` | theorems about the adaptor and the scan, from the driver's |
| `MspiProofs`, `RttUpProofs`, `RttDownProofs` | theorems about these modules |
| `RttRingProofs` | lemmas about `RttRing`, used by the two before |
| `PartsProofs` | theorems about `MainProgram`, `WaitBusy`, `RttBuffers`, `RttOverwrite` and `OnfiPrint` |

Definitions named `f_Bug` (for instance `nand_erase_block_Unchecked`) are `f`
with a slip a programmer could make. No action uses them; each shows that some
property would notice the slip.

### The chip

`SpiNand` is external: it is written from the commands the driver sends, the
registers of `mt79f_cmd_regs.h` and what the driver relies on. Its choices:

* *Pages* hold a content: a data value (one of `Payloads`, `Blank` for 0xFF,
  `Garbled` for anything else) and the set of bad block marks in the spare area
  (the factory's byte at 0x800, the driver's at 0x804). Programming only clears
  bits, so two different data values programmed over each other are `Garbled`
  (`Merge`), and marks add up.
* *OIP* is `busy # "none"`. A busy chip ignores every command but GET FEATURES
  and RESET (`WhenReady`).
* *Write enable latch*: PROGRAM EXECUTE and BLOCK ERASE do nothing while it is
  down, and leave P_FAIL and E_FAIL of the last operation standing; the end of
  either clears it.
* *Failure*: a program or erase may fail for any reason. It then raises its bit
  and leaves the page or block torn. Locked blocks always fail.
* *ECC*: the end of a page read picks a code of `EccCodes`. For codes that are
  not correctable the cache holds noise. The copy's ECC status stays in the
  register until the next page read.
* *RESET* is accepted at any time and tears what was being written. The sources
  do not say whether it restores CFG, so the model allows both.

### The driver

Every public function is straight-line code: a transfer or a wait, and
`return` at once on any error. `NandFlash` keeps each as a *script*, the tuple of
its steps in order, named after the function. For instance:

| `nand_prog_page` in the source | step | action |
|---|---|---|
| `_nand_cmd_write_enable()` | `"write_enable"` | `nand_cmd_write_enable` |
| `_nand_cmd_program_load_x1(...)` | `"program_load"` | `nand_cmd_program_load_x1` |
| `_nand_cmd_write_enable()` | `"write_enable"` | `nand_cmd_write_enable` |
| `_nand_cmd_program_execute(...)` | `"program_execute"` | `nand_cmd_program_execute` |
| `nand_wait_busy(PROGRAM_TIME_US, ...)`, then the test of P_FAIL | `"wait_check_program"` | `nand_wait_busy`, `UseStatus` |

One action is one bus transfer, or one poll of a wait; between any two the chip
may end what it is doing or the MCU may restart. `Send` and `Receive` are
`am_hal_mspi_blocking_transfer` in its two directions: with `BusFaults` a
transfer may return an error, and one that sends may have reached the chip all
the same. `Return` is the `return` of a status and `Advance` goes to the next
step or returns success.

| Variable | In the code |
|---|---|
| `pc`, `call` | the program counter inside the running function, its arguments |
| `mspi` | whether the HAL has set the MSPI up; without it a transfer can only fail |
| `polls` | `timeout_count` of `nand_wait_busy` |
| `oldCfg` | `old_reg_config` of `nand_read_params_page` |
| `ret` | the returned `AM_DEVICES_MSPI_FLASH_STATUS_*` |
| `buf`, `eccFatal`, `flag` | what the out parameters hold after the call; `"unset"` if the function never wrote them |
| `clean`, `before` | history, no code reads them: whether the chip was idle and in array mode when the call began, and what the call's page then held |

`clean` is the precondition of most properties, because the driver has no means
of its own to bring about an idle chip in array mode before a call; what
happens without it is the subject of a finding below. `QuietAfterSuccess` and
`ParamsDone` say that a call after a successful one has it.

`mspi_setup` stands for the HAL and pin calls of `nand_init`. If one of them fails
`nand_init` returns and the program goes on, as `main` does, with an MSPI on which
every transfer fails until another `nand_init` sets it up. When the second set-up
of a `nand_init` fails the MSPI may be as the first one left it, or disabled.

`Functions` selects the functions the caller uses in a run, `ClientCalls`
enumerates their arguments. `PrivateFunctions` are those of
`nand_flash_private.h` a caller can tell apart by what they do to the chip: the
write enable and disable, the two that look at a status bit, page read, x1 cache
read and program load. The initial state is the first `nand_init` of
`main.c` on a chip after power-on; a `Restart` returns there with the chip as it
was, or power cycled.

`BadBlockScan` adds the loop of `nand_print_bad_blocks`: `CheckBlock` invokes the
driver's `nand_check_bad_block` and the loop looks at its outcome when it has
returned. `DharaAdaptor` does the same for each adaptor function: `Enter` calls
the driver, and the action named after the function turns the driver's outcome
into the return value and `*err`. `dhara_nand_mark_bad` has no body, so its action
changes nothing. The adaptor's local `ecc_err` has no initial
value in C: where the driver did not write it, either value is possible
(`EccOutcome`). Two history variables remember how earlier driver calls ended; a
call ends *early* if a transfer error or a timeout ends it, and *at its end* if it
succeeds or the chip fails the operation (`EndedAtEnd`). `sound`: none ended early
since `nand_init` succeeded. `heard`: the one before this function was not
`nand_init` and ended at its end, however those before it fared.

### The wait

In `NandFlash` a wait is a number of polls. `WaitBusy` is the same loop by the
clock: a transfer takes one of `Transfers`, a delay `POLL_DELAY_US` or a little
more (`Late`), and the chip is ready at a time picked at the call. The two meet in
`PollLimit`, the number of rounds `timeout_us / POLL_DELAY_US`.

### The MSPI

`Mspi` drops what a command means and keeps how it is sent. A function is a list
of steps: registers written by hand (`Registers`), HAL calls that reconfigure
(`Control`) or only succeed or fail (`Transfer`), the chip enable pin, the posted
queue and the wait for it. A step that fails ends the function (`Leave`), except
that GET and SET FEATURES restore ASIZE first. The program begins with
`nand_init` and then calls any function at any time, also after a `nand_init` that
failed, as `main` does. The queue's four stages, the interrupt and the handler run
beside it. `fast` says for a whole behaviour whether the queue is always done
within the wait; `aborted` that the MSPI raised ERR, which `dma_complete_callback`
does not tell from the end. The callback is taken to come at the end of the
queue, after the DMA.

`FramesRight` compares what goes out (`Lines`, `cfg`, `enabled`, `ce`) with what the
chip expects of that command. It says less than one would like, because the code
does less:

* Of `_nand_cmd_read_x4` only the data lines and the number of address bytes are
  claimed. Its command and its address leave on four lines and the chip takes
  them on one: "FIXME: Not currently working! Instr is sent as Quad, not SPI as
  it should be" (`nand_flash.c:662`).
* After a failed `nand_init` the frame is claimed only where the MSPI is enabled,
  and of chip enable nothing, as the pins may not have been configured. A
  disabled MSPI is `mspi = FALSE` in `NandFlash`.
* Nothing is claimed after a failed x4 read until the next restart, after a
  queue that outlives its wait, or after any quad read until the next
  `nand_init`. Section 4 says what the code leaves behind in each case.

What becomes of a buffer whose DMA comes after the wait gave up has no property:
the wait returns success, nothing stops the queue, and the data are written
whenever they come, so there is no promise to state.

### Main and the ONFI printer

`MainProgram` models what `main` relies on of Dhara, which is not in the
repository: a write changes the map in RAM and may reach the flash, a sync that
succeeds puts it there, a resume that succeeds takes it from there; any of them
may fail, and the program may be reset at any step. `Old` is what an earlier
program may have left.

`OnfiPrint` takes a parameter page, checks it and computes the capacity in 32 bit
arithmetic. The number of values of a byte is a parameter (4 in the run), so
that 16 and 32 bit numbers wrap around within TLC's integers.

### RTT

`RttChannel` says what a ring promises: the front of what is offered may be
accepted, never more than `SizeOfBuffer - 1` bytes at a time are held, what is
taken was accepted, in order and once. `RttUp` and `RttDown` implement it under
the refinement mapping

| `RttChannel` | `RttUp` | `RttDown` |
|---|---|---|
| `offered` | `left`, what the call still has to store | `typed`, what the host still has to send |
| `channel` | `Held(mem, RdOff, WrOff)` | `Held(mem, RdOff, WrOff)` |
| `taken` | `got`, the probe's copy | `buf`, what was copied to the caller |

One step of `RttUp` is one access to what the probe shares: a look at `RdOff`, a
memcpy, the store to `WrOff`. `Begin` is the decision each function takes on its
look at the ring, `WriteNoCheck` and `WriteBlocking` the two ways to write,
`CopyStraight`, `CopyWrapped`, `PublishAll`, `PublishChunk` their steps. `HostCopy`
and `HostAck` are the probe. `HardFault` starts a new write at any point of
another and never returns to it. `Text` numbers the data bytes, so that a lost,
repeated or overtaking byte is noticed.

`RttDown` reads: `ReadOffsets` looks at the offsets once, `ReadTail` and
`ReadFront` copy, `ReadReturns` moves `RdOff`. The unsigned difference of the
offsets wraps around at `Word` where the code relies on it. `RttOverwrite` is the
writer that moves `RdOff` itself. `RttBuffers` has two contexts, the program and an
interrupt, of which the interrupt runs to its end. `Allowed` is what callers must
keep to. The code asks that configuring by index "May only be called once per
buffer"; `Allowed` asks more, for without it two owners are easily had: the
buffers used by index are known (`ByIndex`), the program configures them, and
nobody allocates before they are configured.

## 3. What is model-checked

| Run | Question | Properties |
|---|---|---|
| `calls` | program, copy, read, erase, mark in any order, everything may fail | `TypeOK`, `ProgramDone`, `ReadTrue`, `CopyDone`, `MarkedOnPurpose` |
| `mode` | parameter page, reset, ID, private functions, reads, erases; restarts at any step, with and without power loss; every ECC code | `ParamsDone`, `QuietAfterSuccess`, `InitRecovers` |
| `blocks` | erase, mark, is_free and the scan over two blocks | `EraseDone`, `AnswersTrue`, `MarkDone`, `OutsideUntouched`, `AllPrinted` |
| `liveness` | does every call return, on a chip that ends its operations and on one that may not? | `CallsReturn`, `BoundedCallsReturn` |
| `adaptor` | Dhara's calls in any order through adaptor and driver to the chip, with resets and power cuts at any step | `ReadyForNext`, `WritesHold`, `ReadsHold`, `SpoilsOneCall`, `GoodIsUnmarked` |
| `up` | every write in every mode, with probe and hard fault | `ReturnTrue`, `IdLast`, `IsChannel`, `WholeStrings`, `WritesEnd` |
| `terminals` | terminal switches around strings | `RightTerminal`, `NonBlockingEnds` |
| `parts` | seven parts, one at a time | see below |
| `stale_read`, `copy_fails`, `params_mode`, `quad_twice` | the findings of section 4 | one each, violated |

`parts` (`MCParts`) puts seven modules that share no state with one another into
one run: the first choice of a behaviour is the part that runs, the others stay
where they start, so that each part is explored exactly as on its own.

| Part | Question | Properties |
|---|---|---|
| `Mspi` | every function in any order on the registers, with failing calls, a queue that is late, hangs or aborts, restarts | `FramesRight`, `QuadTrue`, `QuadReadEnds` |
| `RttDown` | reads of any size while the host types | `IsChannel`, `PromiseKept`, `KeyTaken` |
| `RttBuffers` | program and interrupt allocate at once | `OneOwner` |
| `RttOverwrite` | texts up to more than twice the ring | `KeepsNewest` |
| `WaitBusy` | any time the chip may need, around two timeouts | `NoEarlyTimeout`, `InTime` |
| `MainProgram` | any old flash, any failure, resets | `SuccessIsDurable` |
| `OnfiPrint` | every page of the fields' values | `CapacityTrue` |

What they show, in words: a driver call that began on an idle chip and says
success did what it says, whatever other calls, failures and errors came before
it; a call changes no page but its own, not even when it fails half way; the
driver's bad block mark never gets into a page by way of stale cache contents;
after a success the chip is idle; `nand_init` recovers the chip from any
interruption; no call hangs.

A program, erase or read the adaptor answers with 0 is true on the chip as long
as no driver call ended early since `nand_init`; so is a copy, unless the chip
failed it, which the driver does not look at. A call that ends early makes the
answer to the one after it doubtful and to no other (`SpoilsOneCall`). A block
called good is unmarked, if ECC could repair the page it was judged by.

After a successful `nand_init` every command but that of an x4 read goes out in the
frame it needs, until an x4 read fails or a quad read begins. Both rings are FIFOs
whatever the probe does.

### Bounds, and why they are enough

* *Geometry*: one block of two pages, or two blocks of two. The code treats
  every page alike and the chip works on one row at a time, so the cases that
  differ are: same page, other page of the block, page of another block.
  `blocks` has all three, and 1 is the smallest block number whose conversion to
  a page address matters.
* *Payloads*: one data value; a program over another program is told from an
  erased page, and `Garbled` stands for what neither is.
* *ECC codes*: one correctable and one not; `mode` has every code of
  `mt79f_cmd_regs.h` and a reserved one. `liveness` has none, as no property of
  it depends on it.
* *PollLimit*: 1 or 2 polls instead of hundreds. The wait treats all polls but
  the last alike. In `parts` it is the rounds of the wait for the DMA, 2 as well.
* *QuadReads* is 1 in `parts`, whose properties claim nothing once there was a
  second, and 2 in `quad_twice`: the second is the first one that meets a flag
  set before. There the HAL does not fail, as the finding needs no failure.
* *Findings*: each violation run allows only the failures its finding is about.
  `stale_read` and `params_mode` have a chip that may be slow and no transfer
  errors, `copy_fails` a chip in time that may fail a program.
* *Rings*: four slots in `up`, with strings shorter and longer than the ring;
  `Values` = 3 byte values before they repeat, one more than a probe can be
  behind without a gap showing. Six slots in `terminals`, where a framed string
  of one byte (five bytes with its switches) just fits. Three slots for the
  down-buffer and the overwriting writer, with messages longer than the ring and
  texts of up to seven bytes. All offsets, wrap-arounds and the full and the
  empty ring occur.
* *Microseconds*: a delay of 10 against transfers of 4 or 6 and timeouts of 30
  and 80, a chip ready at any time up to 90: both sides of either timeout. The
  code's numbers (`POLL_DELAY_US`, the times of `mt79f_cmd_regs.h`) only scale them;
  the theorems hold for all.
* *Byte width* 4 in `OnfiPrint`: 16 bit numbers wrap at 16 and 32 bit ones at 256,
  and the fields lie at and around these edges.
* The number of calls is not bounded anywhere: the state spaces are closed.

### Fairness

* `DriverFairSpec`: weak fairness of `DriverStep`. The MCU executes the function
  it is in; nothing else runs on it that could hold it up for ever.
* `CallsReturn` also assumes weak fairness of `Chip` (`ChipAnswers`, in the
  property): an operation that was started ends. This is what the data sheet
  times promise, and what the unbounded loop of `nand_mark_bad_block` relies on.
  `BoundedCallsReturn` does without it.
* `liveness` has no bus faults, as a fault only ends a call sooner; with them,
  weak fairness of the driver would force a fault out of the unbounded poll and
  end the call for the wrong reason. Nobody is obliged to call a function.
* `Mspi`, `RttDown`, `RttUp`: weak fairness of the target's own steps. The probe is
  obliged to nothing, except in `WritesEnd`, whose premise `ProbeReads` is a probe
  that keeps reading: what the blocking writer waits for. `KeyTaken` speaks of a
  key that has arrived. The queue and the interrupt of the quad read are obliged
  to nothing.

`MayOverrun` says whether the chip may exceed its data sheet times. Where it is
FALSE a wait that covers the running operation (`Covered`) does not time out.
Only `QuietAfterSuccess` and `InitRecovers` depend on this: `nand_reset` trusts a
delay and never looks at OIP.

Deadlock is checked everywhere but in `up`, where the target halts after the
fault.

## 4. Where code and text disagree

Shown by a run, with the lines quoted in `PROJECT.json`:

| Run | What happens |
|---|---|
| `copy_fails` | `nand_copy_page` reads P_FAIL into `unused1` and ignores it: the chip fails the program, and the copy returns success with a torn destination page. Its comment says "Copy a page from one address to another". |
| `params_mode` | an error between the two SET FEATURES of `nand_read_params_page` leaves the chip in parameter page mode, which the comment at the second one says it exits. In the run the page read times out. |
| `stale_read` | a read of page 0 times out and leaves the chip busy. The next read, of page 1, has its PAGE READ ignored, waits for the end of the first, and returns success with page 0's bytes. |
| `quad_twice` | `g_dma_complete` is never cleared: from the second quad read on, success is returned and chip enable raised before the DMA has run. `test_quad_read_cache` makes one call, and reads back into the buffer it compares with, so it cannot see missing data. |

Each of the four properties differs from one that holds (`CopyDone`,
`ParamsDone`, `ReadTrue`, `QuadTrue`) by the condition that makes the difference.

Met while modelling, and in the model, but without a run of their own, for a
property would only repeat the line:

* `nand_copy_page` writes `*ecc_fatal` only when it fails; `test_program` and
  `dhara_nand_copy` read their own uninitialized variable after success, so a good
  copy may be answered with `DHARA_E_ECC` (`EccOutcome`).
* `dhara_nand_is_free` returns 0 for a free page and 1 for a written one, the
  reverse of what its name and Dhara's predicate say, and answers a failed read
  the same as a free page.
* `nand_check_bad_block` reads its marker with no ECC result asked for, "We ignore
  ECC": a page ECC could not repair is judged by what was read of it, and a
  marked block may be called good. `GoodIsUnmarked` leaves this case out.
* `dhara_nand_read` and `dhara_nand_copy` return -1 without an error code when the
  driver fails, while the erase quotes the convention "return -1 and set err".
* `_nand_cmd_read_x4` sends its command and address on four lines ("FIXME: Not
  currently working!"), so it cannot work as it stands. Nothing in
  the repository calls it.
* When a step of `_nand_cmd_read_x4` fails it returns before "Change back to SPI
  mode": settings and peripheral stay in quad mode, `nand_init` reuses those
  settings, and only a restart helps. `FramesRight` stops there (`x4_failed`).
* "4 Turnaround cycles" is written before `mspi_set_use_quadspi(true)`, whose
  configure sets the register again from settings that say 8 (taking it that the
  HAL applies what it is given).
* A quad read leaves one address byte and quad mode in `CFG` until `nand_init`, and
  a queue that is not accepted leaves chip enable low under GPIO control. An
  aborted queue is reported as success, as the code's own TODO says.
* `_write` returns `len` whatever RTT stored (`Result`), though
  `SEGGER_RTT_Write` returns "Number of bytes which have been stored".
* `SEGGER_RTT_WriteWithOverwriteNoLock` counts one slot less than there are after a
  wrap-around, so a text that wraps around twice does not leave the newest bytes,
  though the comment says it will "possibly handle multiple wrap-arounds".
  `KeepsNewest` is stated up to one wrap-around, where it holds.
* `onfi_print` returns 1 on failure, its comment says -1; the capacity is computed
  in 32 bits of bytes with the block and page counts cut to 16 bits, so a chip of
  4 GiB prints 0 MB (`Fits` is the condition under which it is right).
* `main` goes on after a failed `nand_init`, sync or resume. If an earlier run left
  the same sequences on the flash, "Success!" follows a failed sync;
  `SuccessIsDurable` holds all the same, since the sectors are there.

## 5. What is proved

TLAPS checks the following for every value of the constants that satisfies the
named assumptions of the modules: any geometry, payloads, ECC codes and poll
limits, with or without bus faults and restarts; any delay, timeout and transfer
time; any number of sectors and buffers; any size of ring, any texts and lengths;
any width of a byte; any choice of the private functions called and any limit of
the wait for the DMA.

| Theorem | Module | States |
|---|---|---|
| `TypeCorrect` | `NandFlashProofs` | `Spec => []TypeOK` |
| `ProgramCorrect` | `NandFlashWriteProofs` | `[]ProgramDone` |
| `EraseCorrect` | `NandFlashWriteProofs` | `[]EraseDone` |
| `CopyCorrect` | `NandFlashWriteProofs` | `[]CopyDone` |
| `MarkCorrect` | `NandFlashWriteProofs` | `[]MarkDone` |
| `LatchCorrect` | `NandFlashWriteProofs` | `[]LatchClosed` |
| `FrameCorrect` | `NandFlashWriteProofs` | `OutsideUntouched` |
| `MarksCorrect` | `NandFlashWriteProofs` | `MarkedOnPurpose` |
| `ReadCorrect` | `NandFlashProofs` | `[]ReadTrue` |
| `AnswersCorrect` | `NandFlashProofs` | `[]AnswersTrue` |
| `ParamsCorrect` | `NandFlashProofs` | `[]ParamsDone` |
| `InitCorrect` | `NandFlashProofs` | `[]InitRecovers`, assuming `~MayOverrun` |
| `QuietCorrect` | `NandFlashProofs` | `[]QuietAfterSuccess`, assuming `~MayOverrun` |
| `WaitCorrect` | `PartsProofs` | `[](WaitTypeOK /\ SuccessIsReady /\ NoEarlyTimeout)` |
| `InTimeCorrect` | `PartsProofs` | `[]InTime`, if the polls of a wait together take at least a delay |
| `MainCorrect` | `PartsProofs` | `[](SuccessIsDurable /\ MismatchAnnounced)` |
| `BuffersCorrect` | `PartsProofs` | `[](InArray /\ OneOwner)` |
| `NewestKept` | `PartsProofs` | `[]KeepsNewest` |
| `CapacityCorrect` | `PartsProofs` | `[]CapacityTrue` |
| `AdaptorIsClient` | `NandCallersProofs` | `AdaptorSpec => Spec` |
| `NextCallReady` | `NandCallersProofs` | `[]ReadyForNext`, assuming `~MayOverrun` |
| `WritesCorrect` | `NandCallersProofs` | `[]WritesHold`, assuming `~MayOverrun` |
| `OneCallSpoiled` | `NandCallersProofs` | `[]SpoilsOneCall` |
| `ReadsCorrect` | `NandCallersProofs` | `[]ReadsHold`, assuming `~MayOverrun` |
| `GoodBlocksUnmarked` | `NandCallersProofs` | `[]GoodIsUnmarked` |
| `ScanCorrect` | `NandCallersProofs` | `ScanSpec => AllPrinted` |
| `UpIsChannel` | `RttUpProofs` | `Spec => IsChannel` |
| `ReturnsCorrect` | `RttUpProofs` | `[]ReturnTrue` |
| `StringsWhole` | `RttUpProofs` | `WholeStrings` |
| `IdComesLast` | `RttUpProofs` | `[]IdLast` |
| `DownIsChannel` | `RttDownProofs` | `DownSpec => IsChannel` |
| `PromiseIsKept` | `RttDownProofs` | `PromiseKept` |
| `FramesAreRight` | `MspiProofs` | `[]FramesRight` |
| `FirstQuadReadTrue` | `MspiProofs` | `[]QuadTrue` |

**Types.** `TypeOK` is inductive. The interesting obligations are that `Advance`
does not run off a script, that block numbers convert to pages the chip has
(non-linear arithmetic, `BlockAddress`), and that `polls` never reaches 0.

**Success.** The properties speak of the moment a call returns and are not
inductive: nothing in `ProgramDone` keeps the cache from changing between load
and execute. For each function an invariant (`ProgInv`, `EraseInv`, `CopyInv`,
`MarkInv`, `ReadInv`, `ParamsInv`) says, under `clean`, what holds at every
position of its script. In `ProgInv`, from the second position on the latch is
open; from the third the cache holds the new page; at the wait either the
program is running on the right row over the old contents, or it is over and
P_FAIL is raised or the page is right; after success the page is right. Each
invariant is shown inductive on its own, given types:

* a step of the driver: by position. `StepByName` says what the step of that
  name does, `FailedCall` that a failed transfer ends the call, which the
  invariant then says nothing about;
* a step of the chip: an idle chip does nothing (`IdleChip`), so it can only be
  the end of the operation this call started (`ReadEnds`, `ProgramEnds`,
  `EraseEnds`);
* a call: begins with `clean` only on an idle chip in array mode;
* a restart clears `clean`.

The copy needs the case of a page copied onto itself (`MergeFacts`), the erase
that multiplying and dividing a block number by the block size gives it back
(`BlockOfAddress`), and the mark that programming the modified page over the
original adds nothing but the mark (`MarkerFacts`).

**Frame and marks.** `TargetInv`, that the chip is writing no page but the
call's own, is inductive because only three scripts contain a PROGRAM EXECUTE
and one a BLOCK ERASE (`Starters`), and every other command starts nothing
(`StepCommand`). Since the array changes only under write (`ArraySteps`),
`OutsideUntouched` follows, for failed calls, resets and power cuts too.
`PurposeInv` adds what the cache's marks are while a program runs, from
`ProgInv` and `CopyInv`.

**Idle after success.** `InitInv` and `QuietInv` hold for calls that began on a
busy chip as well. A wait is left only on an idle chip or with an error
(`WaitLeaves`), and success is said only at the end of a script (`StepMoves`).

**The adaptor.** Every step of the adaptor is a step of the driver or leaves the
driver alone (`AdaptorStepsDriver`), so every invariant of the driver holds below
it and is not proved again. Four invariants of its own connect the two:
`CallInv` says which driver call runs for which function, `AnswerInv` what an
answer of the adaptor says about the outcome of that call, `HeardInv` that a
call which follows one that ended at its end (`heard`) begins with `clean`, the
premise of the driver's properties, and `SoundInv` that as long as no call ended
early (`sound`) each one does, and leaves the chip ready and unlocked. `HeardInv`
needs that a call ends on an idle chip if the chip failed it (`FailureQuiet`) or
it succeeded (`SuccessQuiet`): every driver function the adaptor uses waits
before it says either. It holds for a chip of any speed, and therefore
`SpoilsOneCall` does. `SoundInv` begins with what `nand_init` leaves behind, and
`nand_reset` trusts a delay, hence its premise `~MayOverrun`. With the four, the
adaptor's properties are the driver's `ProgInv`, `EraseInv`, `CopyInv` and `ReadInv`
at the end of a call (`WriteAnswered`, `ReadAnswered`).

**The scan.** Its calls are driver calls as well (`InvokeType`). While its first
call began on an idle chip and ECC repaired what was read, every later call
begins on one, since a check that succeeded leaves the chip idle, and what is
printed are the marked blocks below the one asked about (`ScanInv`). No step of a
check changes the array (`ScanDriverStep`), so the marks it reported earlier are
still the marks at the end.

**The wait.** The invariant ties the clock to the count: the time that has
passed is at least the delays counted, and for `InTime` at least that plus the
polls' transfers. A chip that is called late was busy at the last poll, one delay
before the end; it can have become ready within `timeout_us` only if the polls
took less than that delay. That is the premise of `InTimeCorrect` in terms of the
constants (`T * timeout >= POLL_DELAY_US * POLL_DELAY_US` for transfers of at least
`T`), and the code's numbers meet it by far.

**Main.** While `main` writes, the map holds the sectors up to the counter; while
it reads, the map is the flash's or empty, and what was read matched. A mismatch
therefore needs an empty or an older map, and both come only with a printed error.

**Buffers.** Whoever is past its range check holds the lock, what it is about to
take is free, no search begins before the buffers chosen by index are taken, and
those are taken by the program, each once (`BuffersInv`). The interesting case is
the interrupt that allocates while the program is on its way to configure a
buffer by index: `ChosenTaken` says that it cannot be.

**The overwriting log.** While it copies, the last bytes of `newest` are the ones
still to be copied and those before them already lie in the ring where the probe
will read them (`Filling`). A piece copied moves the boundary between the two
(`ChunkCopied`), and `Adjust` moves RdOff by as many bytes as `newest` loses. The
premise is `WrapsOnce`: from its second wrap-around on the code counts one slot
less than the ring has, leaves the last slot alone, and nothing is claimed.

**The capacity.** A partial product of the counts is at most the whole product
unless a later factor is 0, so if the true size fits into 32 bits either nothing
wraps on the way or a zero hides what did (`PartsFit`).

**The ring.** `RttRingProofs` has what both directions need of offsets that wrap:
how much is held and free, that a copy to a free place keeps what is held
(`CopyFacts`, `FreeSlots`), that publishing appends to it (`HeldGrows`) and
acknowledging takes its front away (`HeldFront`, `HeldShrinks`).

**The up-buffer implements the FIFO.** `UpInv` is `RingInv /\ CountInv`. `RingInv`
is about the ring: it is set up before its id can be found, also if a fault
starts the initialization over (`SetUpFirst`); the probe's copy is its front
(`GotHeld`); a writer that does not check has room for all it was given
(`NoCheckReady`), although the probe may have moved RdOff since the check,
because it can only have made more room; and the blocking writer has room for
the chunk it copies and is in the piece it believes to be in (`BlockingReady`).
`CountInv` is about the bytes: which of those left are text and which belong to
a terminal switch (`Kinds`), and that what was stored and what is left make up
what will be returned (`Counts`). Both are proved together for each action, with
the step of the FIFO it maps to and what it says of a string that ends (`Fine`):
a publication is `Accept`, the probe's copy `Look`, its acknowledgement `Remove`,
a call `Offer`, everything else a stutter. A hard fault is a call like any other
to the ring, except that what it interrupted never ends. TLC had checked `UpInv` as
an invariant of `up` (209352 states) and of `terminals` (727286 states) before it
was proved.

**The down-buffer implements the FIFO.** `DownInv` says that what the probe has
copied and not published lies in free slots (`SentInRing`) and that what the
reader has copied is the front of the ring, with its own `rd` just behind it
(`TakenFromRing`), whatever the probe published since the reader looked. Then each
step maps: `HostTypes` is `Offer`, `HostPublishes` is `Accept`, a copy that fetches
something is `Look`, `ReadReturns` is `Remove`, and everything else leaves the
FIFO as it is, the probe's copying included, since the ring only changes in free
slots (`CopyFacts`). The code's wrapped subtraction is harmless because a read that
ended before the end of the ring has no room left (`ReaderInStep`). For the
promise of `HasKey` and `HasData`, `PromiseInv` adds that the ring is not empty
since it was made, and that a reader with room has copied a byte by the time it
moves RdOff: only a reader can empty the ring, and there is one.

**The MSPI.** A function that met no error has the steps from some `k` on of its
script left, and one that met an error at most the restoring of ASIZE
(`Position`). `RegistersAt(k)` says what `CFG`, the settings, the enable and chip
enable are at step `k` of each function, `RegistersReady` what they are around
it, as long as no x4 read failed and no queue was late. After a failed `nand_init`
the MSPI may be disabled, but an enabled one is configured, since `nand_init`
enables only what it has just configured. `QueueAt(k)` ties the
queue to the quad read: untouched before it is posted, done once the wait is
over, and in between with `QueueRuns(q)`, which says that its data have arrived
when the DMA command is gone and that neither the interrupt nor
`g_dma_complete` comes before the last one. The queue writes `CFG` too, so the
frames of the other functions need `QueueRests`: no queue outlives the quad read.
`InitScript`, `ReadX4Script` and `OtherScripts` read the scripts off once,
`StepPositions` turns them round to where each kind of step stands, and `Walk`
moves down them.

Only model-checked:

* the liveness properties `CallsReturn`, `BoundedCallsReturn`, `WritesEnd`,
  `NonBlockingEnds`, `QuadReadEnds` and `KeyTaken`: liveness under fairness is
  beyond this prover;
* `RightTerminal`: the terminal a byte is shown on is a fold over all bytes before
  it, and a theorem about it needs an induction over the sequence in the ring;
* the four findings, which are counterexamples.

## 6. What is not modelled

* *Dhara* and the *HAL* are not in the repository. Dhara is what `MainProgram`
  and `DharaAdaptor` say of it; a HAL call succeeds or fails.
* *Inside a transfer*: `am_hal_mspi_blocking_transfer` is one atomic step. The
  commands' meaning (`NandFlash`) and their frames (`Mspi`) are separate models.
* *Sub-page access*: reads of a part of a page are reads of the page. Offsets
  are passed through by the code unchanged and not checked.
* *The assembler version* of `SEGGER_RTT_WriteSkipNoLock` in
  `SEGGER_RTT_ASM_ARMv7M.S` is not modelled apart from its C source, and
  `SEGGER_RTT_HasDataUp`, which only looks at an up-buffer's offsets, is left out.
* *Several up-buffers*: `RttUp` and `RttDown` are one ring each; rings share
  nothing but the lock, and `RttBuffers` is about which exist.
* *What is printed* by `onfi_print` about the manufacturer, and all other wording.
* *System start*: clock, cache, board and vector table set-up run once and in
  order; `SysTick_Handler` counts a tick nothing reads.

## 7. Plan

Done: the chip, the driver, the scan, the adaptor, the wait, the MSPI with both
quad reads, main, the ONFI arithmetic, RTT in both directions with its abstract
FIFO, and the theorems of section 5. Left, in this order:

1. `RightTerminal` as a theorem. The shape of the invariant: from the screen's
   state on, the bytes held by the ring and those left to write are whole
   switches and text behind its own switch. Its induction over the sequence can
   go by the shortest prefix that is shown wrong.
2. The safety halves of what is only checked as liveness, for instance that the
   blocking writer waits only for a full ring.
3. A second premise for `QuadTrue`, that the caller clears `g_dma_complete`, to
   say what a repaired driver would promise of every quad read.
