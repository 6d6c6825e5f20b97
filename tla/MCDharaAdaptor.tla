--------------------------- MODULE MCDharaAdaptor ----------------------------
(* Instance of DharaAdaptor for TLC. *)
EXTENDS DharaAdaptor

CONSTANTS d1, d2, blank, garbled, onfi

MCPayloads1 == {d1}
MCEccCodes  == {0, 2}

(* The driver functions the adaptor may reach. *)
Everything == {"nand_erase_block", "nand_prog_page", "nand_read_page", "nand_check_bad_block",
               "nand_is_free", "nand_copy_page"}
=============================================================================
