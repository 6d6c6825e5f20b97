---------------------------- MODULE MainProgram ------------------------------
(***************************************************************************)
(* main of main.c: writes three sectors to a Dhara map, syncs, throws the  *)
(* map in RAM away, resumes it from the flash and reads the sectors back.  *)
(* Errors of the writes and reads end the program; errors of nand_init,    *)
(* sync and resume are only shown, and main goes on.                       *)
(*                                                                         *)
(* The map is Dhara's, which is not in the repository: modelled is what    *)
(* main relies on.  A write changes the map in RAM and may reach the flash *)
(* with a checkpoint of Dhara's own, a sync that succeeds puts it there, a *)
(* resume that succeeds takes it from there, and a sector never written    *)
(* reads as blank bytes or as an error.                                    *)
(***************************************************************************)
EXTENDS Integers

CONSTANTS
  test_sectors,  \* 3 in the code
  Old            \* what an earlier program may have left in a sector

ASSUME MainAssumption ==
  test_sectors \in Nat /\ Old \subseteq Nat \ 0 .. test_sectors - 1

VARIABLES
  main_pc,
  i,              \* the loop counter of either loop
  flash,          \* the map a resume finds
  map,            \* the map in RAM
  dhara_test_buf,
  led             \* LED0, nand_init failed

VARIABLE shown    \* history: errors of this start of the program were printed

mainVars == <<main_pc, i, flash, map, dhara_test_buf, led, shown>>

Sectors == 0 .. test_sectors - 1

Blank  == -1
NoMap  == [s \in Sectors |-> Blank]
SectorValues   == Old \union {Blank} \union Sectors

MainInit ==
  /\ main_pc = "init" /\ i = 0
  /\ flash \in [Sectors -> SectorValues]
  /\ map = NoMap
  /\ dhara_test_buf = Blank
  /\ led = FALSE
  /\ shown = {}

(* Printed, and the program goes on. *)
Show(error, next) ==
  shown' = shown \union {error} /\ main_pc' = next

InitDevice ==
  /\ main_pc = "init"
  /\ \/ main_pc' = "first_resume" /\ UNCHANGED <<led, shown>>
     \/ Show("init", "first_resume") /\ led' = TRUE
  /\ UNCHANGED <<i, flash, map, dhara_test_buf>>

(* dhara_map_init, then dhara_map_resume without an error pointer. *)
FirstResume ==
  /\ main_pc = "first_resume"
  /\ map' \in {NoMap, flash}
  /\ main_pc' = "write" /\ i' = 0
  /\ UNCHANGED <<flash, dhara_test_buf, led, shown>>

(* The bytes rand() gives after srand(seed). *)
seq_gen(seed) == seed

Write ==
  /\ main_pc = "write" /\ i < test_sectors
  /\ dhara_test_buf' = seq_gen(i)
  /\ \/ /\ map' = [map EXCEPT ![i] = dhara_test_buf']
        /\ flash' \in {flash, map'}
        /\ i' = i + 1
        /\ UNCHANGED main_pc
     \/ main_pc' = "exit" /\ flash' \in {flash, map} /\ UNCHANGED <<map, i>>
  /\ UNCHANGED <<led, shown>>

Sync ==
  /\ main_pc = "write" /\ i = test_sectors
  /\ \/ flash' = map /\ main_pc' = "resume" /\ UNCHANGED shown
     \/ flash' \in {flash, map} /\ Show("sync", "resume")
  /\ UNCHANGED <<i, map, dhara_test_buf, led>>

(* Trusts the map it has. *)
Resume_KeepMap ==
  /\ main_pc = "resume"
  /\ main_pc' = "read"
  /\ i' = 0
  /\ UNCHANGED <<flash, map, dhara_test_buf, led, shown>>

Resume ==
  /\ main_pc = "resume"
  /\ \/ map' = flash /\ main_pc' = "read" /\ UNCHANGED shown
     \/ map' = NoMap /\ Show("resume", "read")
  /\ i' = 0
  /\ UNCHANGED <<flash, dhara_test_buf, led>>

(* dhara_map_read and seq_assert, which hangs on a mismatch. *)
ReadBack ==
  /\ main_pc = "read" /\ i < test_sectors
  /\ \/ /\ dhara_test_buf' = map[i]
        /\ IF dhara_test_buf' = seq_gen(i) THEN i' = i + 1 /\ UNCHANGED main_pc
                                             ELSE main_pc' = "mismatch" /\ UNCHANGED i
     \/ main_pc' = "exit" /\ UNCHANGED <<i, dhara_test_buf>>
  /\ UNCHANGED <<flash, map, led, shown>>

Success ==
  /\ main_pc = "read" /\ i = test_sectors
  /\ main_pc' = "success"
  /\ UNCHANGED <<i, flash, map, dhara_test_buf, led, shown>>

(* A reset at any time: the flash stays. *)
MainRestart ==
  /\ main_pc' = "init" /\ i' = 0 /\ map' = NoMap /\ dhara_test_buf' = Blank
  /\ led' = FALSE /\ shown' = {}
  /\ UNCHANGED flash

main == InitDevice \/ FirstResume \/ Write \/ Sync \/ Resume \/ ReadBack \/ Success

MainNext == main \/ MainRestart

MainSpec == MainInit /\ [][MainNext]_mainVars

-----------------------------------------------------------------------------
(* Properties *)

(* "Success!" means that the flash itself, not the map in RAM, holds every *)
(* sector's sequence, whatever failed on the way and however often the     *)
(* program was restarted.                                                  *)
SuccessIsDurable ==
  main_pc = "success" => \A s \in Sectors : flash[s] = s

(* A hang in seq_assert never comes out of the blue: an error of the sync  *)
(* or the resume was printed before it.                                    *)
MismatchAnnounced ==
  main_pc = "mismatch" => shown \cap {"sync", "resume"} # {}
=============================================================================
