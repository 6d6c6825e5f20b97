------------------------------ MODULE MCParts -------------------------------
(***************************************************************************)
(* The parts that share no state with one another, each explored alone:    *)
(* the first choice of a behaviour is the part that runs, and the others   *)
(* stay where they start.                                                  *)
(***************************************************************************)
EXTENDS Mspi, RttDown, RttBuffers, RttOverwrite, WaitBusy, MainProgram, OnfiPrint

VARIABLE part

partsVars == <<part, mspiVars, downVars, buffersVars, logVars, waitVars, mainVars, onfiVars>>

(* The MSPI *)
MCFunctions ==
  {"init", "command", "features", "page_command", "program_load", "read_x1", "read_x4",
   "read_quadio"}

(* The down-buffer and the overwritten up-buffer *)
MCMessages == {<<"a">>, <<"b">>, <<"b", "a", "a", "b">>}
MCTexts    == UNION {[1 .. k -> {"a", "b"}] : k \in {0, 1, 2, 3, 4, 7}}

(* Three up-buffers, the second of them configured by index; the only      *)
(* down-buffer is the terminal's.                                          *)
MCMaxNum  == [up |-> 3, down |-> 1]
MCByIndex == [up |-> {1}, down |-> {}]

(* Parameter pages in bytes of four values: nothing, one, the largest 16   *)
(* bit number and the smallest that needs more bits, and one between.      *)
MCFields4 == {<<0, 0, 0, 0>>, <<1, 0, 0, 0>>, <<2, 1, 0, 0>>, <<3, 3, 0, 0>>, <<0, 0, 1, 0>>}
MCFields1 == {0, 1, 3}

-----------------------------------------------------------------------------
(* A part that does not run has one initial state. *)
PartsInit ==
  /\ part \in {"mspi", "down", "buffers", "overwrite", "wait", "main", "onfi"}
  /\ IF part = "mspi" THEN MspiInit ELSE fast = TRUE /\ MspiInit
  /\ IF part = "down" THEN DownInit ELSE mem = [o \in Offsets |-> "a"] /\ DownInit
  /\ BuffersInit
  /\ IF part = "overwrite" THEN LogInit ELSE log_mem = [o \in Offsets |-> "a"] /\ LogInit
  /\ IF part = "wait" THEN WaitInit ELSE timeout_us = 80 /\ WaitInit
  /\ IF part = "main" THEN MainInit ELSE flash = NoMap /\ MainInit
  /\ IF part = "onfi" THEN OnfiInit
     ELSE /\ page = CHOOSE p \in ParameterPages : TRUE
          /\ page_len = PageLen /\ detailed = TRUE /\ OnfiInit

(* The printer stops when it has returned. *)
Printed == onfi_result # -2 /\ UNCHANGED onfiVars

PartsNext ==
  \/ /\ part = "mspi" /\ MspiNext
     /\ UNCHANGED <<part, downVars, buffersVars, logVars, waitVars, mainVars, onfiVars>>
  \/ /\ part = "down" /\ DownNext
     /\ UNCHANGED <<part, mspiVars, buffersVars, logVars, waitVars, mainVars, onfiVars>>
  \/ /\ part = "buffers" /\ BuffersNext
     /\ UNCHANGED <<part, mspiVars, downVars, logVars, waitVars, mainVars, onfiVars>>
  \/ /\ part = "overwrite" /\ LogNext
     /\ UNCHANGED <<part, mspiVars, downVars, buffersVars, waitVars, mainVars, onfiVars>>
  \/ /\ part = "wait" /\ WaitNext
     /\ UNCHANGED <<part, mspiVars, downVars, buffersVars, logVars, mainVars, onfiVars>>
  \/ /\ part = "main" /\ MainNext
     /\ UNCHANGED <<part, mspiVars, downVars, buffersVars, logVars, waitVars, onfiVars>>
  \/ /\ part = "onfi" /\ (OnfiNext \/ Printed)
     /\ UNCHANGED <<part, mspiVars, downVars, buffersVars, logVars, waitVars, mainVars>>

PartsSpec ==
  /\ PartsInit /\ [][PartsNext]_partsVars
  /\ WF_mspiVars(Thread) /\ WF_downVars(Reading)
=============================================================================
