---------------------------- MODULE BadBlockScan -----------------------------
(***************************************************************************)
(* nand_print_bad_blocks: the one driver function that makes several       *)
(* driver calls.  Between two scans the client erases blocks and marks     *)
(* them bad.                                                               *)
(***************************************************************************)
EXTENDS NandFlash

VARIABLES
  i,        \* the loop's block number
  scanning, \* the function runs
  printed,  \* the addresses it printed
  total,
  ui32Status

VARIABLE trusted \* history: an idle chip at the start, and ECC repaired every read

loopVars == <<i, scanning, printed, total, ui32Status, trusted>>
scanVars == <<vars, loopVars>>

ScanInit ==
  /\ Init
  /\ i = 0 /\ scanning = FALSE /\ printed = {} /\ total = 0
  /\ ui32Status = "none" /\ trusted = FALSE

CheckBlock(b) ==
  Invoke([fn |-> "nand_check_bad_block", addr |-> b, src |-> 0, data |-> Blank,
          eccp |-> FALSE])

nand_print_bad_blocks ==
  /\ ~scanning
  /\ CheckBlock(0)
  /\ i' = 0 /\ scanning' = TRUE /\ printed' = {} /\ total' = 0
  /\ ui32Status' = "none"
  /\ trusted' = clean'

Checked == scanning /\ ~Running

FailedToRead ==
  /\ Checked /\ ret # "SUCCESS"
  /\ scanning' = FALSE /\ ui32Status' = ret
  /\ UNCHANGED <<vars, i, printed, total, trusted>>

(* Moves on from a block that could not be read. *)
NextBlock_Onward ==
  /\ Checked
  /\ printed' = IF flag = "yes" THEN printed \union {i} ELSE printed
  /\ total' = IF flag = "yes" THEN total + 1 ELSE total
  /\ trusted' = (trusted /\ Correctable(ecc))
  /\ i' = i + 1
  /\ IF i' < NumBlocks
     THEN CheckBlock(i') /\ UNCHANGED <<scanning, ui32Status>>
     ELSE scanning' = FALSE /\ ui32Status' = "SUCCESS" /\ UNCHANGED vars

NextBlock ==
  /\ Checked /\ ret = "SUCCESS"
  /\ printed' = IF flag = "yes" THEN printed \union {i} ELSE printed
  /\ total' = IF flag = "yes" THEN total + 1 ELSE total
  /\ trusted' = (trusted /\ Correctable(ecc))
  /\ i' = i + 1
  /\ IF i' < NumBlocks
     THEN CheckBlock(i') /\ UNCHANGED <<scanning, ui32Status>>
     ELSE scanning' = FALSE /\ ui32Status' = ret /\ UNCHANGED vars

(* The client's own calls, between two scans; the scan's locals are gone.  *)
ClientInvokes(c) ==
  /\ ~scanning
  /\ Invoke(c)
  /\ i' = 0 /\ printed' = {} /\ total' = 0 /\ ui32Status' = "none" /\ trusted' = FALSE
  /\ UNCHANGED scanning

ScanNext ==
  \/ nand_print_bad_blocks
  \/ FailedToRead
  \/ NextBlock
  \/ \E c \in ClientCalls : ClientInvokes(c)
  \/ (DriverStep \/ Chip) /\ UNCHANGED loopVars

ScanSpec == ScanInit /\ [][ScanNext]_scanVars

-----------------------------------------------------------------------------
(* Properties *)

Marked(b) == array[block_to_page_addr(b)].marks # {}

(* "print the address of all bad blocks": a scan that returns success has  *)
(* printed and counted every marked block of the chip, and no other.       *)
AllPrinted ==
  [][scanning /\ ~scanning' /\ ui32Status' = "SUCCESS" /\ trusted' =>
       printed' = {b \in Blocks : Marked(b)} /\ total' = Cardinality(printed')]_scanVars
=============================================================================
