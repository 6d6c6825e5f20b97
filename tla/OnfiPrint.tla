------------------------------ MODULE OnfiPrint ------------------------------
(***************************************************************************)
(* onfi_print: the checks on a parameter page and the capacity computed    *)
(* from its memory organisation block.  Fields are the little endian byte  *)
(* sequences of the page; the width of a byte and the size of a "MB" are   *)
(* parameters, 256 and 2^20 in the code, so that the 16 and 32 bit         *)
(* arithmetic wraps within TLC's integers.  What is printed about the      *)
(* manufacturer is left out.                                               *)
(***************************************************************************)
EXTENDS Integers, Sequences

CONSTANTS
  ByteValues,  \* 256
  MB,          \* 1024*1024
  PageLen,     \* 256, the length of a parameter page
  Fields4,     \* the four-byte fields' values to consider
  Fields1      \* the one-byte fields' values to consider

ASSUME OnfiAssumption ==
  /\ ByteValues \in Nat \ {0} /\ MB \in Nat \ {0} /\ PageLen \in Nat
  /\ Fields4 \subseteq [1 .. 4 -> 0 .. ByteValues - 1]
  /\ Fields1 \subseteq 0 .. ByteValues - 1

Width16 == ByteValues * ByteValues
Width32 == Width16 * Width16

VARIABLES
  page,      \* parameter_page, or a buffer that holds none
  page_len,
  detailed,
  printed,   \* what was printed of the memory organisation, and the capacity
  onfi_result     \* -2 before the function returned

onfiVars == <<page, page_len, detailed, printed, onfi_result>>

ParameterPages ==
  [signature : BOOLEAN, revision : 0 .. 3, bytes_per_page : Fields4,
   pages_per_block : Fields4, blocks_per_lun : Fields4, num_lun : Fields1]

Nothing == [organisation |-> <<>>, capacity |-> -1]

OnfiInit ==
  /\ page \in ParameterPages
  /\ page_len \in {PageLen - 1, PageLen}
  /\ detailed \in BOOLEAN
  /\ printed = Nothing /\ onfi_result = -2

extract_int16(b) == b[1] + b[2] * ByteValues

extract_int32(b) == extract_int16(b) + (b[3] + b[4] * ByteValues) * Width16

(* The product of two uint32_t. *)
Times(a, b) == (a * b) % Width32

total_size_Narrow(p) ==
  Times(Times(Times(extract_int16(p.bytes_per_page),
                    extract_int16(p.pages_per_block)),
              extract_int16(p.blocks_per_lun)), p.num_lun)

(* pages_per_block and blocks_per_lun are read as 16 bits. *)
total_size(p) ==
  Times(Times(Times(extract_int32(p.bytes_per_page),
                    extract_int16(p.pages_per_block)),
              extract_int16(p.blocks_per_lun)), p.num_lun)

revision_max == 2

Refuse ==
  /\ onfi_result = -2
  /\ page_len < PageLen \/ ~page.signature \/ page.revision > revision_max
  /\ onfi_result' = 1
  /\ UNCHANGED <<page, page_len, detailed, printed>>

PrintOrganisation ==
  /\ onfi_result = -2
  /\ page_len >= PageLen /\ page.signature /\ page.revision <= revision_max
  /\ printed' = [organisation |-> IF detailed
                                  THEN <<extract_int32(page.bytes_per_page),
                                         extract_int32(page.pages_per_block),
                                         extract_int32(page.blocks_per_lun),
                                         page.num_lun>>
                                  ELSE <<>>,
                 capacity |-> total_size(page) \div MB]
  /\ onfi_result' = 0
  /\ UNCHANGED <<page, page_len, detailed>>

OnfiNext == Refuse \/ PrintOrganisation

OnfiSpec == OnfiInit /\ [][OnfiNext]_onfiVars

-----------------------------------------------------------------------------
(* Properties *)

(* The size without any width: a number below 32 bits for each factor and  *)
(* the product is the only case the arithmetic can be right for.           *)
TrueSize ==
  extract_int32(page.bytes_per_page) * extract_int32(page.pages_per_block)
    * extract_int32(page.blocks_per_lun) * page.num_lun

Fits ==
  /\ TrueSize < Width32
  /\ extract_int32(page.pages_per_block) < Width16
  /\ extract_int32(page.blocks_per_lun) < Width16

(* "Show total size in Mega Bytes": right for a chip whose block and page  *)
(* counts are 16 bits wide and whose size is below 32 bits.                *)
CapacityTrue == onfi_result = 0 /\ Fits => printed.capacity = TrueSize \div MB
=============================================================================
