--------------------------- MODULE MCBadBlockScan ----------------------------
(* Instance of BadBlockScan for TLC. *)
EXTENDS BadBlockScan

CONSTANTS d1, d2, blank, garbled, onfi

MCPayloads1 == {d1}
MCEccCodes  == {0, 2}

(* The scan itself calls nand_check_bad_block. *)
MCBlockCalls == {"nand_erase_block", "nand_mark_bad_block", "nand_is_free"}
=============================================================================
