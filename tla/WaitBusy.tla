------------------------------ MODULE WaitBusy -------------------------------
(***************************************************************************)
(* nand_wait_busy by the clock: polls of the status register, delays       *)
(* between them and a count of the delays, against a chip that becomes     *)
(* ready on its own.  Times are in microseconds.                           *)
(***************************************************************************)
EXTENDS Integers

CONSTANTS
  POLL_DELAY_US,
  Timeouts,    \* PAGE_READ_TIME_US, PROGRAM_TIME_US, ERASE_TIME_US
  Transfers,   \* how long GET FEATURES may take
  Late,        \* how much longer am_util_delay_us may take than asked for
  Longest      \* bound on the time the chip may need

ASSUME WaitAssumption ==
  /\ POLL_DELAY_US \in Nat \ {0}
  /\ Timeouts \subseteq Nat \ {0}
  /\ Transfers \subseteq Nat /\ Late \subseteq Nat
  /\ Longest \in Nat

VARIABLES
  now,            \* since the call
  ready_at,       \* when the chip becomes ready
  timeout_us, timeout_count,
  busy,           \* as last polled
  wait_pc, wait_result

waitVars == <<now, ready_at, timeout_us, timeout_count, busy, wait_pc, wait_result>>

WaitResults == {"SUCCESS", "TIMEOUT", "ERROR"}

WaitInit ==
  /\ now = 0 /\ ready_at = 0
  /\ timeout_us \in Timeouts /\ timeout_count = timeout_us
  /\ busy = FALSE /\ wait_pc = "idle" /\ wait_result = "SUCCESS"

(* Every variable holds a value of its type; the count ends within one     *)
(* delay below zero.                                                       *)
WaitTypeOK ==
  /\ now \in Nat /\ ready_at \in Nat
  /\ timeout_us \in Timeouts
  /\ timeout_count \in Int /\ timeout_count > -POLL_DELAY_US
  /\ busy \in BOOLEAN
  /\ wait_pc \in {"idle", "poll", "delay", "check"}
  /\ wait_result \in WaitResults

Called ==
  /\ wait_pc = "idle"
  /\ now' = 0
  /\ ready_at' \in 0 .. Longest
  /\ timeout_us' \in Timeouts /\ timeout_count' = timeout_us'
  /\ wait_pc' = "poll"
  /\ UNCHANGED <<busy, wait_result>>

(* The chip's bit is taken at the end of the transfer. *)
GetFeatures ==
  /\ wait_pc = "poll"
  /\ \E t \in Transfers : now' = now + t
  /\ \/ now' < ready_at  /\ busy' = TRUE  /\ wait_pc' = "delay" /\ UNCHANGED wait_result
     \/ now' >= ready_at /\ busy' = FALSE /\ wait_pc' = "check" /\ UNCHANGED wait_result
     \/ wait_result' = "ERROR" /\ wait_pc' = "idle" /\ UNCHANGED busy
  /\ UNCHANGED <<ready_at, timeout_us, timeout_count>>

Delay_Twice ==
  /\ wait_pc = "delay"
  /\ \E l \in Late : now' = now + POLL_DELAY_US + l
  /\ timeout_count' = timeout_count - 2 * POLL_DELAY_US
  /\ wait_pc' = IF timeout_count' > 0 THEN "poll" ELSE "check"
  /\ UNCHANGED <<ready_at, timeout_us, busy, wait_result>>

(* am_util_delay_us, timeout_count -= POLL_DELAY_US, while (timeout_count > 0) *)
Delay ==
  /\ wait_pc = "delay"
  /\ \E l \in Late : now' = now + POLL_DELAY_US + l
  /\ timeout_count' = timeout_count - POLL_DELAY_US
  /\ wait_pc' = IF timeout_count' > 0 THEN "poll" ELSE "check"
  /\ UNCHANGED <<ready_at, timeout_us, busy, wait_result>>

(* if (busy & (timeout_count <= 0)) return AM_HAL_STATUS_TIMEOUT *)
CheckTimeout ==
  /\ wait_pc = "check"
  /\ wait_result' = IF busy /\ timeout_count <= 0 THEN "TIMEOUT" ELSE "SUCCESS"
  /\ wait_pc' = "idle"
  /\ UNCHANGED <<now, ready_at, timeout_us, timeout_count, busy>>

WaitNext == Called \/ GetFeatures \/ Delay \/ CheckTimeout

WaitSpec == WaitInit /\ [][WaitNext]_waitVars

-----------------------------------------------------------------------------
(* Properties *)

(* "Wait until NAND is no longer busy": success is never reported of a     *)
(* chip that is still busy.                                                *)
SuccessIsReady == wait_pc = "idle" /\ wait_result = "SUCCESS" => now >= ready_at

(* The wait does not give up before timeout_us have passed.                *)
NoEarlyTimeout == wait_pc = "idle" /\ wait_result = "TIMEOUT" => now >= timeout_us

(* A chip that is ready in time is not reported as timed out, although the *)
(* last delay is not followed by a poll: the transfers of the polls before *)
(* it have taken longer than that delay.                                   *)
InTime == wait_pc = "idle" /\ wait_result = "TIMEOUT" => ready_at > timeout_us
=============================================================================
