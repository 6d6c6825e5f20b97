----------------------------- MODULE MCNandFlash ----------------------------
(* Instances of NandFlash for TLC. *)
EXTENDS NandFlash

CONSTANTS d1, d2, blank, garbled, onfi

MCPayloads1 == {d1}

(* No error at all. *)
MCNoEccCodes == {0}
(* One code of each kind: no error, uncorrectable. *)
MCEccCodes == {0, 2}
(* Every code of mt79f_cmd_regs.h and a reserved one. *)
MCAllEccCodes == {0, 1, 2, 3, 5, 7}

(* What changes and reads pages. *)
MCCalls == {"nand_erase_block", "nand_prog_page", "nand_read_page", "nand_copy_page",
            "nand_mark_bad_block"}
(* The mode calls and the private functions, with calls they could upset.  *)
MCModeFunctions == {"nand_read_params_page", "nand_reset", "nand_id", "nand_read_page",
                    "nand_erase_block"} \union PrivateFunctions
MCCopyFunctions == {"nand_prog_page", "nand_copy_page"}
MCReadFunctions == {"nand_prog_page", "nand_read_page"}
MCParamsFunctions == {"nand_read_params_page"}
MCLiveFunctions == {"nand_copy_page", "nand_read_params_page", "nand_mark_bad_block"}
=============================================================================
