---------------------------- MODULE DharaAdaptor -----------------------------
(***************************************************************************)
(* dhara_adaptor.c on top of the driver of NandFlash: the functions the    *)
(* Dhara map calls, each of which makes one call of the driver and turns   *)
(* its outcome into a return value and an error code.  Dhara itself is not *)
(* in the repository; it may call any function at any time, also after     *)
(* main went on from a nand_init that failed.                              *)
(***************************************************************************)
EXTENDS NandFlash, Integers

VARIABLES
  op,     \* the running or last adaptor function that calls the driver, or "none"
  inside, \* it has not returned yet
  result, \* what it returned
  err     \* *err as it left it

VARIABLES         \* history
  sound, \* since nand_init succeeded, no driver call ended early
  heard  \* the last driver call before this function was not nand_init and ended at its end

adaptorVars == <<op, inside, result, err, sound, heard>>
allVars     == <<vars, adaptorVars>>

(* dhara_error_t, of which is_bad returns one: only zero means a good block. *)
E_NONE      == 0
E_BAD_BLOCK == 1
E_ECC       == 2

(* *err as its owner left it: the adaptor wrote no code there. *)
Unset == -1

DriverFn ==
  [dhara_nand_is_bad  |-> "nand_check_bad_block",
   dhara_nand_erase   |-> "nand_erase_block",
   dhara_nand_prog    |-> "nand_prog_page",
   dhara_nand_is_free |-> "nand_is_free",
   dhara_nand_read    |-> "nand_read_page",
   dhara_nand_copy    |-> "nand_copy_page"]

AdaptorInit ==
  /\ Init
  /\ op = "none" /\ inside = FALSE /\ result = 0 /\ err = Unset
  /\ sound = FALSE /\ heard = FALSE

(* A chip that fails or an ECC error ends the driver's call at its end;    *)
(* a transfer error or a timeout ends it early.                            *)
EndedAtEnd == ret \in {"SUCCESS", "HW_ERR"}

(* The adaptor always passes an ecc pointer. *)
Enter(f, c) ==
  /\ ~inside
  /\ c.fn = DriverFn[f]
  /\ c.eccp <=> f \in {"dhara_nand_read", "dhara_nand_copy"}
  /\ Invoke(c)
  /\ op' = f /\ inside' = TRUE /\ result' = 0 /\ err' = Unset
  /\ sound' = IF op = "none" THEN Succeeded("nand_init") ELSE sound
  /\ heard' = (call.fn # "nand_init" /\ EndedAtEnd)

(* "Bad Block marking not implemented!": it calls nobody and returns void. *)
dhara_nand_mark_bad == ~Running /\ ~inside /\ UNCHANGED allVars

Returning(f) == op = f /\ inside /\ ~Running

Answer(value, code) == inside' = FALSE /\ result' = value /\ err' = code

dhara_nand_is_bad_Trusting ==
  /\ Returning("dhara_nand_is_bad")
  /\ Answer(IF ret = "SUCCESS" /\ flag = "yes" THEN E_BAD_BLOCK ELSE E_NONE, Unset)

dhara_nand_is_bad ==
  /\ Returning("dhara_nand_is_bad")
  /\ Answer(IF ret # "SUCCESS" \/ flag = "yes" THEN E_BAD_BLOCK ELSE E_NONE, Unset)

WriteOutcome_HwErrOnly ==
  IF ret = "HW_ERR" THEN Answer(-1, E_BAD_BLOCK) ELSE Answer(0, Unset)

(* "If an erase operation fails, return -1 and set err to E_BAD_BLOCK" *)
WriteOutcome ==
  IF ret # "SUCCESS" THEN Answer(-1, E_BAD_BLOCK) ELSE Answer(0, Unset)

dhara_nand_erase == Returning("dhara_nand_erase") /\ WriteOutcome
dhara_nand_prog  == Returning("dhara_nand_prog") /\ WriteOutcome

(* return is_free ? 0 : 1 *)
dhara_nand_is_free ==
  /\ Returning("dhara_nand_is_free")
  /\ Answer(IF ret # "SUCCESS" \/ flag = "yes" THEN 0 ELSE 1, Unset)

EccOutcome_Ignored == Answer(IF ret = "SUCCESS" THEN 0 ELSE -1, Unset)

(* bool ecc_err; has no value of its own: what the driver did not write is *)
(* whatever the stack held.                                                *)
EccOutcome ==
  IF ret # "SUCCESS" THEN Answer(-1, Unset)
  ELSE \E ecc_err \in (IF eccFatal = "unset" THEN {"yes", "no"} ELSE {eccFatal}) :
         IF ecc_err = "yes" THEN Answer(-1, E_ECC) ELSE Answer(0, Unset)

dhara_nand_read == Returning("dhara_nand_read") /\ EccOutcome
dhara_nand_copy == Returning("dhara_nand_copy") /\ EccOutcome

Leave ==
  /\ \/ dhara_nand_is_bad \/ dhara_nand_erase \/ dhara_nand_prog
     \/ dhara_nand_is_free \/ dhara_nand_read \/ dhara_nand_copy
  /\ sound' = (sound /\ EndedAtEnd)
  /\ UNCHANGED <<vars, op, heard>>

AdaptorNext ==
  \/ \E f \in DOMAIN DriverFn, c \in ClientCalls : Enter(f, c)
  \/ dhara_nand_mark_bad
  \/ Leave
  \/ (DriverStep \/ Chip) /\ UNCHANGED adaptorVars
  \/ /\ Restart
     /\ op' = "none" /\ inside' = FALSE /\ result' = 0 /\ err' = Unset
     /\ sound' = FALSE /\ heard' = FALSE

AdaptorSpec == AdaptorInit /\ [][AdaptorNext]_allVars

-----------------------------------------------------------------------------
(* Properties *)

Returned(f) == op = f /\ ~inside

(* Dhara goes on after E_BAD_BLOCK and E_ECC: a program or erase the chip  *)
(* failed and a page ECC could not repair leave the chip ready for the     *)
(* next call, whatever calls follow each other.                            *)
ReadyForNext ==
  sound /\ ~inside => Ready /\ cfg = "array" /\ ~locked

(* What a write promises when the adaptor answers it with 0: the page or   *)
(* the block holds what was asked for.  A copy's P_FAIL is never looked at *)
(* ("wait", not "check"), so of a copy that is promised only if the chip   *)
(* did not fail it.                                                        *)
OnChip(f) ==
  CASE f = "dhara_nand_prog"  ->
         array[call.addr] = Merge(before, [data |-> call.data, marks |-> {}])
    [] f = "dhara_nand_erase" ->
         \A p \in Pages : p \div PagesPerBlock = call.addr => array[p] = Erased
    [] f = "dhara_nand_copy"  ->
         ~pfail => array[call.addr] = Merge(before, array[call.src])

WriteOps == {"dhara_nand_prog", "dhara_nand_erase", "dhara_nand_copy"}

(* A program or an erase the adaptor answers with 0 is on the chip, and so *)
(* is a copy unless the chip failed it: end to end, and over any sequence  *)
(* of calls none of which ended early.                                     *)
WritesHold ==
  \A f \in WriteOps : sound /\ Returned(f) /\ result = 0 => OnChip(f)

(* A read answered with 0 returned the page, with no more errors than ECC  *)
(* could repair.                                                           *)
ReadsHold ==
  sound /\ Returned("dhara_nand_read") /\ result = 0 =>
    buf = array[call.addr] /\ Correctable(ecc)

(* A transfer error or a timeout spoils its own call and, since the chip   *)
(* may then still be at work and ignore commands, the one after it, but no *)
(* third: the answer 0 holds whenever the call before ended at its end,    *)
(* however the calls before that one ended.                                *)
SpoilsOneCall ==
  /\ \A f \in WriteOps : heard /\ Returned(f) /\ result = 0 => OnChip(f)
  /\ heard /\ Returned("dhara_nand_read") /\ result = 0 =>
       buf = array[call.addr] /\ Correctable(ecc)

(* A block dhara_nand_is_bad calls good carries no mark, if the chip was   *)
(* idle when the call began and ECC could repair the page last read.  A    *)
(* read that fails counts as bad; a first page that ECC could not repair   *)
(* does not, it is judged by what was read of it, which may hide its mark. *)
GoodIsUnmarked ==
  clean /\ Returned("dhara_nand_is_bad") /\ result = E_NONE /\ Correctable(ecc) =>
    array[call.addr * PagesPerBlock].marks = {}
=============================================================================
