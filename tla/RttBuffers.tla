----------------------------- MODULE RttBuffers ------------------------------
(***************************************************************************)
(* The run-time configuration of RTT's buffers: which slots of aUp and     *)
(* aDown are in use and with what flags, while the program and an          *)
(* interrupt both set up buffers of their own.  The offsets that each      *)
(* configuration zeroes belong to RttUp and RttDown.                       *)
(***************************************************************************)
EXTENDS Naturals

CONSTANTS
  MaxNum,    \* MaxNumUpBuffers and MaxNumDownBuffers by direction
  ByIndex,   \* buffers the program configures by index before any is allocated
  Flags

Directions == {"up", "down"}
Contexts   == {"main", "interrupt"}

ASSUME BuffersAssumption ==
  /\ MaxNum \in [Directions -> Nat \ {0}]
  /\ \A d \in Directions : ByIndex[d] \subseteq 1 .. MaxNum[d] - 1

VARIABLES
  ring,     \* aUp and aDown: pBuffer (whose memory, or "NULL") and Flags
  lock,     \* context that has masked the interrupts, or "none"
  buf_pc, call, \* per context
  BufferIndex

VARIABLE granted \* history: buffers a context was told it may use

buffersVars == <<ring, lock, buf_pc, call, BufferIndex, granted>>

Indices(d) == 0 .. MaxNum[d] - 1
Slots      == UNION {{d} \X Indices(d) : d \in Directions}

(* A caller may also pass an index beyond the last. *)
Passed == UNION {0 .. MaxNum[d] : d \in Directions}

Requests ==
  [op : {"Alloc", "Config", "SetName", "SetFlags"}, dir : Directions, i : Passed, flags : Flags]

NoCall == [op |-> "none", dir |-> "up", i |-> 0, flags |-> 0]

(* After SEGGER_RTT_Init, which sets up buffer 0 of each direction.  The   *)
(* INIT() of every function then does nothing.                             *)
BuffersInit ==
  /\ ring = [s \in Slots |-> IF s[2] = 0 THEN [pBuffer |-> "static", flags |-> 0]
                                         ELSE [pBuffer |-> "NULL", flags |-> 0]]
  /\ lock = "none"
  /\ buf_pc = [c \in Contexts |-> "idle"]
  /\ call = [c \in Contexts |-> NoCall]
  /\ BufferIndex = [c \in Contexts |-> 0]
  /\ granted = [c \in Contexts |-> {}]

(* The interrupt runs to its end before the program goes on. *)
Runs(c) == c = "main" => buf_pc["interrupt"] = "idle"

(* "May only be called once per buffer." *)
Allowed(c, k) ==
  /\ k.op = "Config" /\ k.i > 0 =>
       c = "main" /\ (k.i \in ByIndex[k.dir] => ring[<<k.dir, k.i>>].pBuffer = "NULL")
                  /\ (k.i \in Indices(k.dir) => k.i \in ByIndex[k.dir])
  /\ k.op = "Alloc" => k.i = 0 /\ \A i \in ByIndex[k.dir] : ring[<<k.dir, i>>].pBuffer # "NULL"

Masked_Never(c) == FALSE

(* SEGGER_RTT_LOCK raises BASEPRI over the interrupt's priority. *)
Masked(c) == c = "interrupt" /\ lock = "main"

Begin(c) ==
  /\ buf_pc[c] = "idle" /\ Runs(c) /\ ~Masked(c)
  /\ \E k \in Requests : Allowed(c, k) /\ call' = [call EXCEPT ![c] = k]
  /\ buf_pc' = [buf_pc EXCEPT ![c] = "range"]
  /\ UNCHANGED <<ring, lock, BufferIndex, granted>>

(* SEGGER_RTT_UNLOCK, if locked, and return: -1 or what is granted. *)
Return(c) ==
  /\ lock' = "none"
  /\ buf_pc' = [buf_pc EXCEPT ![c] = "idle"]
  /\ call' = [call EXCEPT ![c] = NoCall]
  /\ BufferIndex' = [BufferIndex EXCEPT ![c] = 0]

(* The functions with an index check it, then all lock. *)
Lock(c) ==
  /\ buf_pc[c] = "range" /\ Runs(c)
  /\ IF call[c].op # "Alloc" /\ call[c].i \notin Indices(call[c].dir)
     THEN Return(c)
     ELSE /\ lock' = c
          /\ BufferIndex' = [BufferIndex EXCEPT ![c] = call[c].i]
          /\ buf_pc' = [buf_pc EXCEPT ![c] = IF call[c].op = "Alloc" THEN "search" ELSE "set"]
          /\ UNCHANGED call
  /\ UNCHANGED <<ring, granted>>

(* do ... while (BufferIndex < MaxNum): one round. *)
Search(c) ==
  /\ buf_pc[c] = "search" /\ Runs(c)
  /\ LET d == call[c].dir  i == BufferIndex[c]
     IN  IF ring[<<d, i>>].pBuffer = "NULL"
         THEN buf_pc' = [buf_pc EXCEPT ![c] = "set"] /\ UNCHANGED <<lock, call, BufferIndex>>
         ELSE IF i + 1 < MaxNum[d]
         THEN BufferIndex' = [BufferIndex EXCEPT ![c] = i + 1] /\ UNCHANGED <<lock, buf_pc, call>>
         ELSE Return(c)
  /\ UNCHANGED <<ring, granted>>

(* Buffer 0 keeps its memory; SetName and SetFlags leave the memory alone. *)
Set(c) ==
  /\ buf_pc[c] = "set" /\ Runs(c)
  /\ LET s    == <<call[c].dir, BufferIndex[c]>>
         mine == call[c].op = "Alloc" \/ (call[c].op = "Config" /\ BufferIndex[c] > 0)
     IN  /\ ring' = [ring EXCEPT ![s] =
              [pBuffer |-> IF mine THEN c ELSE @.pBuffer,
               flags   |-> IF call[c].op = "SetName" THEN @.flags ELSE call[c].flags]]
         /\ granted' = IF mine THEN [granted EXCEPT ![c] = @ \union {s}] ELSE granted
  /\ Return(c)

BuffersNext == \E c \in Contexts : Begin(c) \/ Lock(c) \/ Search(c) \/ Set(c)

BuffersSpec == BuffersInit /\ [][BuffersNext]_buffersVars

-----------------------------------------------------------------------------
(* Properties *)

(* The search stays in the array, and at most one context holds the lock.  *)
InArray ==
  \A c \in Contexts :
    buf_pc[c] \in {"search", "set"} => lock = c /\ BufferIndex[c] \in Indices(call[c].dir)

(* "The next buffer, which is not used yet is configured": what a context  *)
(* was granted stays its own, whenever the interrupt strikes.              *)
OneOwner ==
  \A c \in Contexts : \A s \in granted[c] : ring[s].pBuffer = c
=============================================================================
