---------------------------- MODULE RttOverwrite -----------------------------
(***************************************************************************)
(* SEGGER_RTT_WriteWithOverwriteNoLock: a log that keeps its newest bytes  *)
(* in an up-buffer no probe reads while the target runs.  A probe that is  *)
(* attached later empties the ring between two calls.                      *)
(***************************************************************************)
EXTENDS RttRing

CONSTANTS
  Letters,
  Texts    \* what the program writes

ASSUME OverwriteAssumption == Texts \subseteq Seq(Letters)

VARIABLES
  log_mem, log_RdOff, log_WrOff,
  left,     \* pData, NumBytes
  Avail,    \* space up to the end of the ring, as the function counts it
  log_pc

VARIABLES
  newest,   \* history: what the ring ought to hold after the call
  wraps     \* history: wrap-arounds of the call

logVars == <<log_mem, log_RdOff, log_WrOff, left, Avail, log_pc, newest, wraps>>

Last(bytes, k) == SubSeq(bytes, Len(bytes) - Lesser(k, Len(bytes)) + 1, Len(bytes))

LogInit ==
  /\ log_mem \in [Offsets -> Letters] /\ \A i \in Offsets : log_mem[i] = log_mem[0]
  /\ log_RdOff = 0 /\ log_WrOff = 0
  /\ left = <<>> /\ Avail = 0 /\ log_pc = "idle"
  /\ newest = <<>> /\ wraps = 0

(* "Check if we will overwrite data and need to adjust the RdOff." *)
Adjust ==
  /\ log_pc = "idle"
  /\ \E bytes \in Texts :
       LET free == GetAvailWriteSpace(log_RdOff, log_WrOff)
       IN  /\ left' = bytes
           /\ log_RdOff' = IF Len(bytes) > free
                       THEN (log_RdOff + (Len(bytes) - free)) % SizeOfBuffer ELSE log_RdOff
           /\ newest' = Last(Held(log_mem, log_RdOff, log_WrOff) \o bytes, SizeOfBuffer - 1)
  /\ Avail' = SizeOfBuffer - log_WrOff
  /\ wraps' = 0
  /\ log_pc' = "copy"
  /\ UNCHANGED <<log_mem, log_WrOff>>

LastRound ==
  /\ log_pc = "copy"
  /\ Avail > Len(left)
  /\ log_mem' = Copy(log_mem, log_WrOff, left)
  /\ log_WrOff' = log_WrOff + Len(left)
  /\ left' = <<>>
  /\ log_pc' = "idle"
  /\ UNCHANGED <<log_RdOff, Avail, newest, wraps>>

Wrap_NoRest ==
  /\ log_pc = "copy"
  /\ Avail <= Len(left)
  /\ log_mem' = Copy(log_mem, log_WrOff, SubSeq(left, 1, Avail))
  /\ log_WrOff' = 0
  /\ left' = <<>>
  /\ log_pc' = "idle"
  /\ UNCHANGED <<log_RdOff, Avail, newest, wraps>>

(* "Wrap-around necessary, write until wrap-around and reset WrOff": the   *)
(* next round starts at slot 0 and counts one slot less than there are.    *)
Wrap ==
  /\ log_pc = "copy"
  /\ Avail <= Len(left)
  /\ log_mem' = Copy(log_mem, log_WrOff, SubSeq(left, 1, Avail))
  /\ log_WrOff' = 0
  /\ left' = SubSeq(left, Avail + 1, Len(left))
  /\ Avail' = SizeOfBuffer - 1
  /\ log_pc' = IF Len(left) > Avail THEN "copy" ELSE "idle"
  /\ wraps' = wraps + 1
  /\ UNCHANGED <<log_RdOff, newest>>

(* The probe, between two calls. *)
HostReads ==
  /\ log_pc = "idle"
  /\ \E k \in 1 .. Used(log_RdOff, log_WrOff) :
       log_RdOff' = Ahead(log_RdOff, k) /\ newest' = Last(newest, Used(log_RdOff, log_WrOff) - k)
  /\ UNCHANGED <<log_mem, log_WrOff, left, Avail, log_pc, wraps>>

LogNext == Adjust \/ LastRound \/ Wrap \/ HostReads

LogSpec == LogInit /\ [][LogNext]_logVars

-----------------------------------------------------------------------------
(* Properties *)

(* "If there is not enough space in the Up-buffer, data is overwritten":   *)
(* the ring holds the newest bytes, old and new, oldest first, as long as  *)
(* the write wraps around at most once.                                    *)
KeepsNewest ==
  log_pc = "idle" /\ wraps <= 1 => Held(log_mem, log_RdOff, log_WrOff) = newest
=============================================================================
