------------------------------ MODULE SpiNand ------------------------------
(***************************************************************************)
(* The Micron MT29F8G01AD as the driver sees it: a page array, one cache   *)
(* register, a status register and three feature bits.  The chip is not    *)
(* part of the repository; what it does is taken from how nand_flash.c     *)
(* uses it, from the register names of mt79f_cmd_regs.h and from what      *)
(* test_nand_flash.c expects of it.                                        *)
(*                                                                         *)
(* A command that works on the array (PAGE READ, PROGRAM EXECUTE, BLOCK    *)
(* ERASE, RESET) only starts an operation: it raises OIP and the operation *)
(* ends later, in a Finish* action of the chip.  While OIP is raised the   *)
(* chip answers GET FEATURES and RESET and ignores every other command,    *)
(* which is why the driver polls OIP before it goes on.                    *)
(***************************************************************************)
EXTENDS Integers, FiniteSets

CONSTANTS
  NumBlocks,       \* NUM_BLOCKS, 2048 in the code
  PagesPerBlock,   \* PAGES_PER_BLOCK, 64 in the code
  Payloads,        \* what a page's 2048 data bytes may be programmed to
  Blank,           \* data bytes that are all 0xFF
  Garbled,         \* data bytes nobody asked for: torn, merged or beyond ECC
  ParamData,       \* the contents of the ONFI parameter page
  EccCodes         \* the ECC status codes the chip may report after a read

ASSUME GeometryAssumption ==
  /\ NumBlocks \in Nat \ {0}
  /\ PagesPerBlock \in Nat \ {0}

ASSUME DataAssumption ==
  /\ Garbled \notin Payloads \union {Blank, ParamData}
  /\ ParamData \notin Payloads \union {Blank}

ASSUME EccAssumption == EccCodes \subseteq 0..7 /\ 0 \in EccCodes

VARIABLES
  array,    \* what every page of the main array holds
  cache,    \* the cache register, data and spare bytes
  busy,     \* OIP, with the operation in progress
  row,      \* the page address the operation in progress works on
  wel,      \* write enable latch
  pfail,    \* P_FAIL, the last program failed
  efail,    \* E_FAIL, the last erase failed
  ecc,      \* ECC status bits of the last page read
  cfg,      \* CFG bits: page reads address the array or the parameter page
  locked    \* block lock register: all blocks locked

devVars == <<array, cache, busy, row, wel, pfail, efail, ecc, cfg, locked>>

-----------------------------------------------------------------------------
(* Addresses *)

Blocks == 0 .. NumBlocks - 1
Pages  == 0 .. NumBlocks * PagesPerBlock - 1

(* The pages that share the block of page p. *)
BlockPages(p) == {q \in Pages : q \div PagesPerBlock = p \div PagesPerBlock}

-----------------------------------------------------------------------------
(* Page contents: the data bytes, and in the spare area the bad block      *)
(* marks that are set (bytes 0x800, the factory's, and 0x804, the driver's).*)

Marks   == {"factory", "ours"}
Content == [data : Payloads \union {Blank, Garbled, ParamData},
            marks : SUBSET Marks]

Erased  == [data |-> Blank, marks |-> {}]
Noise   == [data |-> Garbled, marks |-> {}]

(* NAND programming can only clear bits, so programming new over old keeps *)
(* the zeros of both.                                                      *)
Merge(old, new) ==
  [data  |-> IF new.data \in {Blank, old.data} THEN old.data
             ELSE IF old.data = Blank THEN new.data
             ELSE Garbled,
   marks |-> old.marks \union new.marks]

(* What an interrupted or failed program or erase leaves behind. *)
Torn(c) == [c EXCEPT !.data = Garbled]

(* The ECC area (0x840..0x87F) leaves 0xFF once anything was programmed. *)
EccAreaWritten(c) == c.data # Blank \/ "ours" \in c.marks

-----------------------------------------------------------------------------
(* Power-on: an array with factory marks and otherwise erased, all blocks  *)
(* locked.  A factory mark is in the first page of its block.              *)

DevInit ==
  /\ array \in [Pages -> {Erased, [Erased EXCEPT !.marks = {"factory"}]}]
  /\ \A p \in Pages : p % PagesPerBlock # 0 => array[p] = Erased
  /\ cache = Noise
  /\ busy = "none" /\ row = 0
  /\ wel = FALSE /\ pfail = FALSE /\ efail = FALSE /\ ecc = 0
  /\ cfg = "array" /\ locked = TRUE

DevTypeOK ==
  /\ array \in [Pages -> Content]
  /\ cache \in Content
  /\ busy \in {"none", "read", "program", "erase", "reset"}
  /\ row \in Pages
  /\ wel \in BOOLEAN /\ pfail \in BOOLEAN /\ efail \in BOOLEAN
  /\ ecc \in 0..7
  /\ cfg \in {"array", "params"}
  /\ locked \in BOOLEAN

Ready == busy = "none"

-----------------------------------------------------------------------------
(* Commands.  Each is the effect of one bus transfer that arrives intact.  *)

(* A command the chip acts on only while no operation is in progress. *)
WhenReady(Effect) == IF Ready THEN Effect ELSE UNCHANGED devVars

SetWel(on) ==
  WhenReady(/\ wel' = on
            /\ UNCHANGED <<array, cache, busy, row, pfail, efail, ecc, cfg, locked>>)

Start(op, p) ==
  /\ busy' = op
  /\ row' = p
  /\ UNCHANGED <<array, cache, wel, ecc, cfg, locked>>

PageRead(p) ==
  WhenReady(Start("read", p) /\ UNCHANGED <<pfail, efail>>)

(* PROGRAM LOAD resets the cache to 0xFF before it takes the data. *)
ProgramLoad(c) ==
  WhenReady(/\ cache' = c
            /\ UNCHANGED <<array, busy, row, wel, pfail, efail, ecc, cfg, locked>>)

(* PROGRAM LOAD RANDOM DATA changes only the bytes it is given. *)
ProgramLoadRandom(c) == ProgramLoad(Merge(cache, c))

(* PROGRAM EXECUTE and BLOCK ERASE are ignored while writing is disabled. *)
ProgramExecute(p) ==
  WhenReady(IF wel THEN Start("program", p) /\ pfail' = FALSE /\ UNCHANGED efail
                   ELSE UNCHANGED devVars)

BlockErase(p) ==
  WhenReady(IF wel THEN Start("erase", p) /\ efail' = FALSE /\ UNCHANGED pfail
                   ELSE UNCHANGED devVars)

SetCfg(mode) ==
  WhenReady(/\ cfg' = mode
            /\ UNCHANGED <<array, cache, busy, row, wel, pfail, efail, ecc, locked>>)

UnlockAll ==
  WhenReady(/\ locked' = FALSE
            /\ UNCHANGED <<array, cache, busy, row, wel, pfail, efail, ecc, cfg>>)

(* The pages the operation in progress may change.  A locked block is never  *)
(* changed, and while CFG selects the parameter page the main array is not  *)
(* addressed.                                                               *)
UnderWrite ==
  CASE locked \/ cfg # "array" -> {}
    [] busy = "program"        -> {row}
    [] busy = "erase"          -> BlockPages(row)
    [] OTHER                   -> {}

(* The array with new[p] in every page p under write. *)
Rewritten(new) ==
  [p \in Pages |-> IF p \in UnderWrite THEN new[p] ELSE array[p]]

AllTorn == [p \in Pages |-> Torn(array[p])]

(* RESET is accepted at any time.  Nothing in the sources says whether it  *)
(* restores the CFG bits, so both outcomes are allowed.                    *)
Reset ==
  /\ array' = Rewritten(AllTorn)
  /\ cache' = Noise
  /\ busy' = "reset"
  /\ wel' = FALSE /\ pfail' = FALSE /\ efail' = FALSE
  /\ cfg' \in {cfg, "array"}
  /\ UNCHANGED <<row, ecc, locked>>

-----------------------------------------------------------------------------
(* The chip on its own *)

(* The codes that stand for a number of corrected bits; with any other the *)
(* data is not what was stored.                                            *)
Correctable(code) == code \in {0, 1, 3, 5}

(* tRD is over: the cache holds the page, or noise beyond what ECC repairs. *)
FinishRead ==
  /\ busy = "read"
  /\ busy' = "none"
  /\ \/ /\ cfg = "array"
        /\ \E code \in EccCodes :
             /\ ecc' = code
             /\ cache' = IF Correctable(code) THEN array[row] ELSE Torn(array[row])
     \/ /\ cfg = "params"
        /\ ecc' = 0
        /\ cache' = [data |-> ParamData, marks |-> {}]
  /\ UNCHANGED <<array, row, wel, pfail, efail, cfg, locked>>

(* tPROG is over: done, or failed with the page torn.  A program of a      *)
(* locked block always fails.                                              *)
FinishProgram ==
  LET Programmed == [p \in Pages |-> Merge(array[p], cache)]
      Failed     == [p \in Pages |-> Torn(Programmed[p])]
  IN
  /\ busy = "program"
  /\ busy' = "none"
  /\ wel' = FALSE
  /\ \/ ~locked /\ pfail' = FALSE /\ array' = Rewritten(Programmed)
     \/ pfail' = TRUE /\ array' = Rewritten(Failed)
  /\ UNCHANGED <<cache, row, efail, ecc, cfg, locked>>

(* tERS is over: done, or failed with the block's pages torn. *)
FinishErase ==
  /\ busy = "erase"
  /\ busy' = "none"
  /\ wel' = FALSE
  /\ \/ ~locked /\ efail' = FALSE /\ array' = Rewritten([p \in Pages |-> Erased])
     \/ efail' = TRUE /\ array' = Rewritten(AllTorn)
  /\ UNCHANGED <<cache, row, pfail, ecc, cfg, locked>>

(* tRST is over. *)
FinishReset ==
  /\ busy = "reset"
  /\ busy' = "none"
  /\ UNCHANGED <<array, cache, row, wel, pfail, efail, ecc, cfg, locked>>

(* The supply drops and returns. *)
PowerCycle ==
  /\ array' = Rewritten(AllTorn)
  /\ cache' = Noise
  /\ busy' = "none" /\ row' = 0
  /\ wel' = FALSE /\ pfail' = FALSE /\ efail' = FALSE /\ ecc' = 0
  /\ cfg' = "array" /\ locked' = TRUE

DevNext == FinishRead \/ FinishProgram \/ FinishErase \/ FinishReset
=============================================================================
