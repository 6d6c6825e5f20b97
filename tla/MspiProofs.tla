----------------------------- MODULE MspiProofs -----------------------------
(***************************************************************************)
(* Frames and the quad read, proved for any choice of the functions the    *)
(* program calls, any limit of the wait and any number of quad reads.      *)
(***************************************************************************)
EXTENDS Mspi, TLAPS, SequenceTheorems

Devices == {"serial", "quad"}

MspiTypeOK ==
  /\ settings \in Devices
  /\ cfg \in [asize : Nat, turnaround : Nat, dev : Devices \union {"none"}]
  /\ old_asize \in Nat
  /\ fn \in {"none"} \union DOMAIN Script
  /\ rc \in {"none", "success", "error"}
  /\ reads \in Nat
  /\ known \in BOOLEAN /\ x4_failed \in BOOLEAN

(* A function that met no error has steps k and up of its script left. *)
StepsLeft(f, k) == SubSeq(Script[f], k, Len(Script[f]))

Restore == Step("restore", 0)

(* Nothing has spoiled the registers since the restart. *)
Unspoiled == fast /\ reads <= 1 /\ ~x4_failed

(* The settings and the registers before step k of the running function. *)
RegistersAt(k) ==
  /\ fn = "read_x4" /\ ~x4_failed => settings = IF k \in 5 .. 9 THEN "quad" ELSE "serial"
  /\ Unspoiled =>
       /\ fn = "init" =>
            /\ k >= 3 => cfg.dev = "serial"
            /\ k \in 4 .. 10 \/ k >= 13 => enabled
            /\ k >= 5 => ce = "mspi"
            /\ k = 8 => cfg.asize = 1
       /\ fn = "read_x4" =>
            /\ k >= 2 => cfg.asize = 2
            /\ k \in 6 .. 10 => cfg.dev = "quad"
            /\ k >= 11 => cfg.dev = "serial"
            /\ k \in {7, 8, 12} => enabled
       /\ fn = "features" /\ k = 3 => cfg.asize = 1
       /\ fn \in {"page_command", "read_x1"} /\ k = 2 => cfg.asize = 3
       /\ fn = "program_load" /\ k \in 2 .. 3 => cfg.asize = 2

(* Between the other functions the MSPI is set up as nand_init left it; if *)
(* nand_init failed it may be disabled, and if it is not it is configured. *)
RegistersReady ==
  /\ fn # "read_x4" /\ ~x4_failed => settings = "serial"
  /\ fn = "read_quadio" => ~known
  /\ Unspoiled /\ known /\ fn # "init" => ce = "mspi"
  /\ Unspoiled /\ known /\ fn \notin {"init", "read_x4"} => enabled /\ cfg.dev = "serial"
  /\ Unspoiled /\ reads = 0 /\ enabled /\ fn # "read_x4" => cfg.dev = "serial"

(* What the first quad read posts, and how far the queue has got. *)
Commands(r) ==
  [i \in 1 .. 4 |-> [stage |-> <<"address", "data", "dma", "update">>[i], read |-> r]]

QueueDone == queue = <<>> /\ (~aborted => 1 \in arrived)

Untouched == queue = <<>> /\ ~irq /\ ~g_dma_complete

(* Commands q and up are still to run. *)
QueueRuns(q) ==
  /\ queue = SubSeq(Commands(1), q, 4)
  /\ q >= 4 /\ ~aborted => 1 \in arrived
  /\ irq \/ g_dma_complete => q = 5

QueueAt(k) ==
  fn = "read_quadio" /\ fast /\ reads = 1 =>
    /\ k <= 2 => Untouched
    /\ k = 3 => \E q \in 1 .. 5 : QueueRuns(q)
    /\ k >= 4 => QueueDone

QueueRests ==
  /\ reads = 0 => Untouched /\ fn # "read_quadio"
  /\ fast /\ reads = 1 /\ (fn # "read_quadio" \/ rc = "error") => queue = <<>>

Position ==
  /\ fn = "none" => todo = <<>>
  /\ fn # "none" => rc # "none"
  /\ fn # "none" /\ rc = "error" => todo \in {<<>>, <<Restore>>}
  /\ fn # "none" /\ rc = "success" =>
       \E k \in 1 .. Len(Script[fn]) + 1 :
         todo = StepsLeft(fn, k) /\ RegistersAt(k) /\ QueueAt(k)

MspiInv == MspiTypeOK /\ Position /\ RegistersReady /\ QueueRests

-----------------------------------------------------------------------------
(* The scripts *)

LEMMA ScriptNames ==
  DOMAIN Script = {"init", "command", "features", "page_command", "program_load", "read_x1",
                   "read_x4", "read_quadio"}
BY DEF Script

LEMMA ScriptLengths ==
  /\ Len(Script["init"]) = 14
  /\ Len(Script["command"]) = 1
  /\ Len(Script["features"]) = 4
  /\ Len(Script["page_command"]) = 2
  /\ Len(Script["program_load"]) = 3
  /\ Len(Script["read_x1"]) = 2
  /\ Len(Script["read_x4"]) = 11
  /\ Len(Script["read_quadio"]) = 4
<1>1. Len(Script["init"]) = 14
  BY DEF Script, nand_init, Feature
<1>2. Len(Script["read_x4"]) = 11
  BY DEF Script, read_x4, mspi_set_use_quadspi
<1>. QED
  BY <1>1, <1>2 DEF Script, Feature, read_x1, read_quadio

LEMMA InitScript ==
  /\ Script["init"][1] = Step("hal", 0)
  /\ Script["init"][2] = Step("configure", 0)
  /\ Script["init"][3] = Step("enable", 0)
  /\ Script["init"][4] = Step("pins", 0)
  /\ Script["init"][5] = Send(0)
  /\ Script["init"][6] = Step("save", 0)
  /\ Script["init"][7] = Step("asize", 1)
  /\ Script["init"][8] = Send(1)
  /\ Script["init"][9] = Restore
  /\ Script["init"][10] = Step("disable", 0)
  /\ Script["init"][11] = Step("configure", 0)
  /\ Script["init"][12] = Step("enable", 0)
  /\ Script["init"][13] = Step("pins", 0)
  /\ Script["init"][14] = Step("hal", 0)
BY DEF Script, nand_init, Feature, read_x1, read_x4, read_quadio, mspi_set_use_quadspi, Restore

LEMMA ReadX4Script ==
  /\ Script["read_x4"][1] = Step("asize", 2)
  /\ Script["read_x4"][2] = Step("turnaround", 4)
  /\ Script["read_x4"][3] = Step("disable", 0)
  /\ Script["read_x4"][4] = Step("settings", "quad")
  /\ Script["read_x4"][5] = Step("configure", 0)
  /\ Script["read_x4"][6] = Step("enable", 0)
  /\ Script["read_x4"][7] = SendQuad(2)
  /\ Script["read_x4"][8] = Step("disable", 0)
  /\ Script["read_x4"][9] = Step("settings", "serial")
  /\ Script["read_x4"][10] = Step("configure", 0)
  /\ Script["read_x4"][11] = Step("enable", 0)
BY DEF Script, nand_init, Feature, read_x1, read_x4, read_quadio, mspi_set_use_quadspi, Restore

LEMMA OtherScripts ==
  /\ Script["command"][1] = Send(0)
  /\ Script["features"][1] = Step("save", 0)
  /\ Script["features"][2] = Step("asize", 1)
  /\ Script["features"][3] = Send(1)
  /\ Script["features"][4] = Restore
  /\ Script["page_command"][1] = Step("asize", 3)
  /\ Script["page_command"][2] = Send(3)
  /\ Script["program_load"][1] = Step("asize", 2)
  /\ Script["program_load"][2] = Step("turnaround", 0)
  /\ Script["program_load"][3] = Send(2)
  /\ Script["read_x1"][1] = Step("asize", 3)
  /\ Script["read_x1"][2] = Send(3)
  /\ Script["read_quadio"][1] = Step("ce_low", 0)
  /\ Script["read_quadio"][2] = Step("post", 0)
  /\ Script["read_quadio"][3] = Step("poll", 0)
  /\ Script["read_quadio"][4] = Step("ce_high", 0)
BY DEF Script, nand_init, Feature, read_x1, read_x4, read_quadio, mspi_set_use_quadspi, Restore

LEMMA InitSteps ==
  /\ Script["init"][1].do = "hal"
  /\ Script["init"][2].do = "configure"
  /\ Script["init"][3].do = "enable"
  /\ Script["init"][4].do = "pins"
  /\ Script["init"][5].do = "send" /\ Script["init"][5].v = 0 /\ Script["init"][5].data = "serial"
  /\ Script["init"][6].do = "save"
  /\ Script["init"][7].do = "asize" /\ Script["init"][7].v = 1
  /\ Script["init"][8].do = "send" /\ Script["init"][8].v = 1 /\ Script["init"][8].data = "serial"
  /\ Script["init"][9] = Restore /\ Script["init"][9].do = "restore"
  /\ Script["init"][10].do = "disable"
  /\ Script["init"][11].do = "configure"
  /\ Script["init"][12].do = "enable"
  /\ Script["init"][13].do = "pins"
  /\ Script["init"][14].do = "hal"
BY InitScript DEF Step, Send, SendQuad, Restore

LEMMA ReadX4Steps ==
  /\ Script["read_x4"][1].do = "asize" /\ Script["read_x4"][1].v = 2
  /\ Script["read_x4"][2].do = "turnaround" /\ Script["read_x4"][2].v = 4
  /\ Script["read_x4"][3].do = "disable"
  /\ Script["read_x4"][4].do = "settings" /\ Script["read_x4"][4].v = "quad"
  /\ Script["read_x4"][5].do = "configure"
  /\ Script["read_x4"][6].do = "enable"
  /\ Script["read_x4"][7].do = "send" /\ Script["read_x4"][7].v = 2 /\ Script["read_x4"][7].data = "quad"
  /\ Script["read_x4"][8].do = "disable"
  /\ Script["read_x4"][9].do = "settings" /\ Script["read_x4"][9].v = "serial"
  /\ Script["read_x4"][10].do = "configure"
  /\ Script["read_x4"][11].do = "enable"
BY ReadX4Script DEF Step, Send, SendQuad, Restore

LEMMA OtherSteps ==
  /\ Script["command"][1].do = "send" /\ Script["command"][1].v = 0 /\ Script["command"][1].data = "serial"
  /\ Script["features"][1].do = "save"
  /\ Script["features"][2].do = "asize" /\ Script["features"][2].v = 1
  /\ Script["features"][3].do = "send" /\ Script["features"][3].v = 1 /\ Script["features"][3].data = "serial"
  /\ Script["features"][4] = Restore /\ Script["features"][4].do = "restore"
  /\ Script["page_command"][1].do = "asize" /\ Script["page_command"][1].v = 3
  /\ Script["page_command"][2].do = "send" /\ Script["page_command"][2].v = 3 /\ Script["page_command"][2].data = "serial"
  /\ Script["program_load"][1].do = "asize" /\ Script["program_load"][1].v = 2
  /\ Script["program_load"][2].do = "turnaround" /\ Script["program_load"][2].v = 0
  /\ Script["program_load"][3].do = "send" /\ Script["program_load"][3].v = 2 /\ Script["program_load"][3].data = "serial"
  /\ Script["read_x1"][1].do = "asize" /\ Script["read_x1"][1].v = 3
  /\ Script["read_x1"][2].do = "send" /\ Script["read_x1"][2].v = 3 /\ Script["read_x1"][2].data = "serial"
  /\ Script["read_quadio"][1].do = "ce_low"
  /\ Script["read_quadio"][2].do = "post"
  /\ Script["read_quadio"][3].do = "poll"
  /\ Script["read_quadio"][4].do = "ce_high"
BY OtherScripts DEF Step, Send, SendQuad, Restore

(* Where each kind of step stands, and what it carries. *)
Positions(f, k, step) ==
  /\ step.do \in {"disable", "configure", "enable", "pins", "hal", "send", "asize", "turnaround",
                  "save", "restore", "settings", "ce_low", "post", "poll", "ce_high"}
  /\ step.do = "disable"   => (f = "init" /\ k = 10) \/ (f = "read_x4" /\ k \in {3, 8})
  /\ step.do = "configure" => (f = "init" /\ k \in {2, 11}) \/ (f = "read_x4" /\ k \in {5, 10})
  /\ step.do = "enable"    => (f = "init" /\ k \in {3, 12}) \/ (f = "read_x4" /\ k \in {6, 11})
  /\ step.do = "pins"      => f = "init" /\ k \in {4, 13}
  /\ step.do = "hal"       => f = "init" /\ k \in {1, 14}
  /\ step.do = "save"      => (f = "init" /\ k = 6) \/ (f = "features" /\ k = 1)
  /\ step.do = "restore"   =>
       /\ step = Restore
       /\ (f = "init" /\ k = 9) \/ (f = "features" /\ k = 4)
  /\ step.do = "asize"     =>
       \/ f = "init" /\ k = 7 /\ step.v = 1
       \/ f = "features" /\ k = 2 /\ step.v = 1
       \/ f \in {"page_command", "read_x1"} /\ k = 1 /\ step.v = 3
       \/ f \in {"program_load", "read_x4"} /\ k = 1 /\ step.v = 2
  /\ step.do = "turnaround" =>
       \/ f = "program_load" /\ k = 2 /\ step.v = 0
       \/ f = "read_x4" /\ k = 2 /\ step.v = 4
  /\ step.do = "settings"  =>
       \/ f = "read_x4" /\ k = 4 /\ step.v = "quad"
       \/ f = "read_x4" /\ k = 9 /\ step.v = "serial"
  /\ step.do = "send"      =>
       \/ f = "init" /\ k = 5 /\ step.v = 0 /\ step.data = "serial"
       \/ f = "command" /\ k = 1 /\ step.v = 0 /\ step.data = "serial"
       \/ f = "init" /\ k = 8 /\ step.v = 1 /\ step.data = "serial"
       \/ f = "features" /\ k = 3 /\ step.v = 1 /\ step.data = "serial"
       \/ f \in {"page_command", "read_x1"} /\ k = 2 /\ step.v = 3 /\ step.data = "serial"
       \/ f = "program_load" /\ k = 3 /\ step.v = 2 /\ step.data = "serial"
       \/ f = "read_x4" /\ k = 7 /\ step.v = 2 /\ step.data = "quad"
  /\ step.do = "ce_low"    => f = "read_quadio" /\ k = 1
  /\ step.do = "post"      => f = "read_quadio" /\ k = 2
  /\ step.do = "poll"      => f = "read_quadio" /\ k = 3
  /\ step.do = "ce_high"   => f = "read_quadio" /\ k = 4

LEMMA InitPositions ==
  ASSUME NEW k \in 1 .. 14
  PROVE  Positions("init", k, Script["init"][k])
BY InitSteps DEF Positions

LEMMA ReadX4Positions ==
  ASSUME NEW k \in 1 .. 11
  PROVE  Positions("read_x4", k, Script["read_x4"][k])
BY ReadX4Steps DEF Positions

LEMMA StepPositions ==
  ASSUME NEW f \in DOMAIN Script, NEW k \in 1 .. Len(Script[f])
  PROVE  Positions(f, k, Script[f][k])
<1>1. CASE f = "init"
  BY <1>1, ScriptLengths, InitPositions
<1>2. CASE f = "command"
  <2>1. Positions("command", 1, Script["command"][1])
    BY OtherSteps DEF Positions
  <2>. QED
    BY <1>2, <2>1, ScriptLengths
<1>3. CASE f = "features"
  <2>1. Positions("features", 1, Script["features"][1])
    BY OtherSteps DEF Positions
  <2>2. Positions("features", 2, Script["features"][2])
    BY OtherSteps DEF Positions
  <2>3. Positions("features", 3, Script["features"][3])
    BY OtherSteps DEF Positions
  <2>4. Positions("features", 4, Script["features"][4])
    BY OtherSteps DEF Positions
  <2>. QED
    BY <1>3, <2>1, <2>2, <2>3, <2>4, ScriptLengths
<1>4. CASE f = "page_command"
  <2>1. Positions("page_command", 1, Script["page_command"][1])
    BY OtherSteps DEF Positions
  <2>2. Positions("page_command", 2, Script["page_command"][2])
    BY OtherSteps DEF Positions
  <2>. QED
    BY <1>4, <2>1, <2>2, ScriptLengths
<1>5. CASE f = "program_load"
  <2>1. Positions("program_load", 1, Script["program_load"][1])
    BY OtherSteps DEF Positions
  <2>2. Positions("program_load", 2, Script["program_load"][2])
    BY OtherSteps DEF Positions
  <2>3. Positions("program_load", 3, Script["program_load"][3])
    BY OtherSteps DEF Positions
  <2>. QED
    BY <1>5, <2>1, <2>2, <2>3, ScriptLengths
<1>6. CASE f = "read_x1"
  <2>1. Positions("read_x1", 1, Script["read_x1"][1])
    BY OtherSteps DEF Positions
  <2>2. Positions("read_x1", 2, Script["read_x1"][2])
    BY OtherSteps DEF Positions
  <2>. QED
    BY <1>6, <2>1, <2>2, ScriptLengths
<1>7. CASE f = "read_x4"
  BY <1>7, ScriptLengths, ReadX4Positions
<1>8. CASE f = "read_quadio"
  <2>1. Positions("read_quadio", 1, Script["read_quadio"][1])
    BY OtherSteps DEF Positions
  <2>2. Positions("read_quadio", 2, Script["read_quadio"][2])
    BY OtherSteps DEF Positions
  <2>3. Positions("read_quadio", 3, Script["read_quadio"][3])
    BY OtherSteps DEF Positions
  <2>4. Positions("read_quadio", 4, Script["read_quadio"][4])
    BY OtherSteps DEF Positions
  <2>. QED
    BY <1>8, <2>1, <2>2, <2>3, <2>4, ScriptLengths
<1>. QED
  BY <1>1, <1>2, <1>3, <1>4, <1>5, <1>6, <1>7, <1>8, ScriptNames

(* A function walks down its script. *)
AnyStep ==
  {Step("hal", 0), Step("configure", 0), Step("enable", 0), Step("disable", 0), Step("pins", 0),
   Step("save", 0), Restore, Step("asize", 1), Step("asize", 2), Step("asize", 3),
   Step("turnaround", 0), Step("turnaround", 4), Step("settings", "quad"),
   Step("settings", "serial"), Step("ce_low", 0), Step("post", 0), Step("poll", 0),
   Step("ce_high", 0), Send(0), Send(1), Send(2), Send(3), SendQuad(2)}

LEMMA ScriptIsSequence ==
  ASSUME NEW f \in DOMAIN Script
  PROVE  Script[f] \in Seq(AnyStep)
<1>1. Feature \in Seq(AnyStep)
  BY DEF Feature, AnyStep, Restore
<1>2. nand_init \in Seq(AnyStep)
  <2>1. <<Step("hal", 0), Step("configure", 0), Step("enable", 0), Step("pins", 0), Send(0)>>
          \in Seq(AnyStep)
    BY DEF AnyStep
  <2>2. <<Step("disable", 0), Step("configure", 0), Step("enable", 0), Step("pins", 0),
          Step("hal", 0)>> \in Seq(AnyStep)
    BY DEF AnyStep
  <2>. QED
    BY <1>1, <2>1, <2>2, ConcatProperties DEF nand_init
<1>3. read_x4 \in Seq(AnyStep)
  <2>1. <<Step("asize", 2), Step("turnaround", 4)>> \in Seq(AnyStep)
        /\ <<SendQuad(2)>> \in Seq(AnyStep)
    BY DEF AnyStep
  <2>2. mspi_set_use_quadspi("quad") \in Seq(AnyStep)
    BY DEF AnyStep, mspi_set_use_quadspi
  <2>3. mspi_set_use_quadspi("serial") \in Seq(AnyStep)
    BY DEF AnyStep, mspi_set_use_quadspi
  <2>. QED
    BY <2>1, <2>2, <2>3, ConcatProperties DEF read_x4
<1>4. read_x1 \in Seq(AnyStep) /\ read_quadio \in Seq(AnyStep)
  BY DEF AnyStep, read_x1, read_quadio
<1>5. Script["command"] \in Seq(AnyStep) /\ Script["page_command"] \in Seq(AnyStep)
  BY DEF AnyStep, Script
<1>6. Script["program_load"] \in Seq(AnyStep)
  BY DEF AnyStep, Script
<1>7. /\ Script["init"] = nand_init /\ Script["features"] = Feature
      /\ Script["read_x4"] = read_x4 /\ Script["read_x1"] = read_x1
      /\ Script["read_quadio"] = read_quadio
  BY DEF Script
<1>. QED
  BY <1>1, <1>2, <1>3, <1>4, <1>5, <1>6, <1>7, ScriptNames

LEMMA Walk ==
  ASSUME NEW f \in DOMAIN Script, NEW k \in 1 .. Len(Script[f]) + 1
  PROVE  /\ StepsLeft(f, k) = <<>> <=> k = Len(Script[f]) + 1
         /\ k <= Len(Script[f]) =>
              /\ Head(StepsLeft(f, k)) = Script[f][k]
              /\ Tail(StepsLeft(f, k)) = StepsLeft(f, k + 1)
         /\ k + 1 <= Len(Script[f]) => StepsLeft(f, k)[2] = Script[f][k + 1]
<1>. DEFINE s == Script[f]
<1>1. s \in Seq(AnyStep) /\ Len(s) \in Nat /\ \A i \in 1 .. Len(s) : s[i] \in AnyStep
  BY ScriptIsSequence
<1>. HIDE DEF s
<1>2. CASE k = Len(s) + 1
  BY <1>1, <1>2, SubSeqEmpty DEF StepsLeft, s
<1>3. CASE k <= Len(s)
  <2>1. Head(SubSeq(s, k, Len(s))) = s[k] /\ Tail(SubSeq(s, k, Len(s))) = SubSeq(s, k + 1, Len(s))
    BY <1>1, <1>3, HeadTailOfSubSeq
  <2>2. /\ SubSeq(s, k, Len(s)) \in Seq(AnyStep)
        /\ Len(SubSeq(s, k, Len(s))) = Len(s) - k + 1
        /\ \A i \in 1 .. Len(s) - k + 1 : SubSeq(s, k, Len(s))[i] = s[k + i - 1]
    BY <1>1, <1>3, SubSeqProperties
  <2>3. SubSeq(s, k, Len(s)) # <<>>
    <3>1. Len(SubSeq(s, k, Len(s))) # 0
      BY <1>1, <1>3, <2>2
    <3>. QED
      BY <3>1, EmptySeq
  <2>4. k + 1 <= Len(s) => SubSeq(s, k, Len(s))[2] = s[k + 1]
    BY <1>1, <2>2
  <2>. QED
    BY <1>1, <1>3, <2>1, <2>3, <2>4 DEF StepsLeft, s
<1>. QED
  BY <1>1, <1>2, <1>3 DEF s

LEMMA WholeScript ==
  ASSUME NEW f \in DOMAIN Script
  PROVE  StepsLeft(f, 1) = Script[f]
BY ScriptIsSequence, SubSeqFull DEF StepsLeft

-----------------------------------------------------------------------------
(* The invariant *)

(* A step that is not the restoring of ASIZE after an error is a step of   *)
(* the script.                                                             *)
OnStep(k) ==
  /\ todo = StepsLeft(fn, k)
  /\ Head(todo) = Script[fn][k]
  /\ Tail(todo) = StepsLeft(fn, k + 1)
  /\ Positions(fn, k, Head(todo))
  /\ RegistersAt(k)
  /\ QueueAt(k)

LEMMA StepTaken ==
  ASSUME MspiInv, todo # <<>>
  PROVE  /\ fn \in DOMAIN Script /\ rc \in {"success", "error"}
         /\ rc = "error" => todo = <<Restore>>
         /\ rc = "success" => \E k \in 1 .. Len(Script[fn]) : OnStep(k)
<1>1. fn \in DOMAIN Script /\ rc \in {"success", "error"}
  BY DEF MspiInv, MspiTypeOK, Position
<1>2. fn # "none"
  BY DEF MspiInv, Position
<1>3. rc = "error" => todo = <<Restore>>
  BY <1>2 DEF MspiInv, Position
<1>4. ASSUME rc = "success" PROVE \E k \in 1 .. Len(Script[fn]) : OnStep(k)
  <2>1. PICK k \in 1 .. Len(Script[fn]) + 1 :
          todo = StepsLeft(fn, k) /\ RegistersAt(k) /\ QueueAt(k)
    BY <1>2, <1>4 DEF MspiInv, Position
  <2>2. Len(Script[fn]) \in Nat
    BY <1>1, ScriptIsSequence
  <2>3. k \in 1 .. Len(Script[fn])
    BY <1>1, <2>1, <2>2, Walk
  <2>4. Head(todo) = Script[fn][k] /\ Tail(todo) = StepsLeft(fn, k + 1)
    BY <1>1, <2>1, <2>3, Walk
  <2>5. Positions(fn, k, Head(todo))
    BY <1>1, <2>3, <2>4, StepPositions
  <2>. QED
    BY <2>1, <2>3, <2>4, <2>5 DEF OnStep
<1>. QED
  BY <1>1, <1>3, <1>4

(* The running function goes one step on, or gives up.                     *)
LEMMA Advance ==
  ASSUME fn \in DOMAIN Script, rc = "success", NEW k \in 1 .. Len(Script[fn]), OnStep(k),
         Done, RegistersAt(k + 1)', QueueAt(k + 1)'
  PROVE  Position'
<1>1. fn' = fn /\ rc' = "success" /\ todo' = StepsLeft(fn, k + 1)
  BY DEF Done, OnStep
<1>2. k + 1 \in 1 .. Len(Script[fn]) + 1
  BY ScriptIsSequence
<1>3. fn # "none"
  BY ScriptNames
<1>. QED
  BY <1>1, <1>2, <1>3 DEF Position, StepsLeft

LEMMA GiveUp ==
  ASSUME fn \in DOMAIN Script, rc = "success", NEW k \in 1 .. Len(Script[fn]), OnStep(k), Leave
  PROVE  Position'
<1>1. fn' = fn /\ rc' = "error" /\ fn # "none"
  BY ScriptNames DEF Leave
<1>2. ASSUME Tail(todo) # <<>>, todo[2].do = "restore" PROVE todo[2] = Restore
  <2>1. Len(Script[fn]) \in Nat
    BY ScriptIsSequence
  <2>2. k + 1 \in 1 .. Len(Script[fn])
    BY <1>2, <2>1, Walk DEF OnStep
  <2>3. todo[2] = Script[fn][k + 1]
    BY <2>2, Walk DEF OnStep
  <2>. QED
    BY <1>2, <2>2, <2>3, StepPositions DEF Positions
<1>3. todo' \in {<<>>, <<Restore>>}
  BY <1>2 DEF Leave
<1>. QED
  BY <1>1, <1>3 DEF Position

LEMMA OffScript ==
  ASSUME MspiInv, todo # <<>>, Head(todo).do # "restore"
  PROVE  rc = "success"
BY StepTaken DEF Restore, Step

(* What a step on the registers changes. *)
LEMMA RegistersChange ==
  ASSUME Registers, cfg \in [asize : Nat, turnaround : Nat, dev : Devices \union {"none"}]
  PROVE  /\ Head(todo).do \in {"asize", "turnaround", "save", "restore", "settings"}
         /\ cfg'.dev = cfg.dev
         /\ cfg'.asize = IF Head(todo).do = "asize" THEN Head(todo).v
                         ELSE IF Head(todo).do = "restore" THEN old_asize ELSE cfg.asize
         /\ settings' = IF Head(todo).do = "settings" THEN Head(todo).v ELSE settings
BY DEF Registers, Now

LEMMA RegistersOn ==
  ASSUME Registers, cfg \in [asize : Nat, turnaround : Nat, dev : Devices \union {"none"}],
         fn' = fn, UNCHANGED <<enabled, ce, reads, known, x4_failed, fast>>,
         NEW k \in 1 .. Len(Script[fn]), Len(Script[fn]) \in Nat,
         Positions(fn, k, Head(todo)), RegistersAt(k)
  PROVE  RegistersAt(k + 1)'
<1>1. k + 1 \in Nat /\ k \in Nat
  OBVIOUS
<1>2. CASE fn = "init"
  BY <1>1, <1>2, RegistersChange DEF RegistersAt, Unspoiled, Positions
<1>3. CASE fn = "read_x4"
  BY <1>1, <1>3, RegistersChange DEF RegistersAt, Unspoiled, Positions
<1>4. CASE fn \notin {"init", "read_x4"}
  BY <1>1, <1>4, RegistersChange DEF RegistersAt, Unspoiled, Positions
<1>. QED
  BY <1>2, <1>3, <1>4

LEMMA RegistersKeep ==
  ASSUME MspiInv, Registers
  PROVE  MspiInv'
<1>. USE DEF Registers, Now, Done
<1>1. todo # <<>> /\ fn' = fn /\ rc' = rc /\ fn \in DOMAIN Script
  BY StepTaken
<1>2. UNCHANGED <<enabled, ce, g_dma_complete, queue, irq, arrived, reads, aborted, known,
                  x4_failed, fast>>
  BY DEF hist
<1>3. CASE rc = "error"
  <2>1. todo = <<Restore>>
    BY <1>1, <1>3, StepTaken
  <2>2. todo' = <<>> /\ cfg' = [cfg EXCEPT !.asize = old_asize] /\ UNCHANGED <<old_asize, settings>>
    BY <2>1 DEF Restore, Step
  <2>. QED
    BY <1>1, <1>2, <1>3, <2>2
       DEF MspiInv, MspiTypeOK, Position, RegistersReady, QueueRests, Untouched, Unspoiled, Devices
<1>4. CASE rc = "success"
  <2>1. PICK k \in 1 .. Len(Script[fn]) : OnStep(k)
    BY <1>1, <1>4, StepTaken
  <2>2. Positions(fn, k, Head(todo))
    BY <2>1 DEF OnStep
  <2>3. Len(Script[fn]) \in Nat
    BY <1>1, ScriptIsSequence
  <2>4. MspiTypeOK'
    BY <1>1, <1>2, <2>2, SMTT(20) DEF MspiInv, MspiTypeOK, Positions, Devices
  <2>5. RegistersAt(k + 1)'
    <3>1. RegistersAt(k) /\ cfg \in [asize : Nat, turnaround : Nat, dev : Devices \union {"none"}]
      BY <2>1 DEF OnStep, MspiInv, MspiTypeOK
    <3>. QED
      BY <1>1, <1>2, <2>2, <2>3, <3>1, RegistersOn
  <2>6. QueueAt(k + 1)'
    BY <1>1, <1>2, <2>1, <2>2, <2>3 DEF Positions, OnStep, QueueAt
  <2>7. Position'
    BY <1>1, <1>4, <2>1, <2>5, <2>6, Advance
  <2>8. RegistersReady'
    BY <1>1, <1>2, <2>2 DEF MspiInv, MspiTypeOK, Positions, RegistersReady, Unspoiled
  <2>9. QueueRests'
    BY <1>1, <1>2 DEF MspiInv, QueueRests, Untouched
  <2>. QED
    BY <2>4, <2>7, <2>8, <2>9 DEF MspiInv
<1>. QED
  BY <1>1, <1>3, <1>4, StepTaken

LEMMA TransferKeeps ==
  ASSUME MspiInv, Transfer
  PROVE  MspiInv'
<1>. USE DEF Transfer, Now
<1>1. todo # <<>> /\ fn \in DOMAIN Script /\ rc = "success"
  BY StepTaken, OffScript
<1>2. PICK k \in 1 .. Len(Script[fn]) : OnStep(k)
  BY <1>1, StepTaken
<1>3. Positions(fn, k, Head(todo)) /\ Len(Script[fn]) \in Nat
  BY <1>1, <1>2, ScriptIsSequence DEF OnStep
<1>4. UNCHANGED <<cfg, settings, enabled, old_asize, ce, g_dma_complete, queue, irq, arrived, reads,
                  aborted, known, x4_failed, fast>>
  BY DEF hist
<1>5. CASE Done
  <2>1. fn' = fn /\ rc' = rc
    BY <1>5 DEF Done
  <2>2. RegistersAt(k + 1)'
    BY <1>2, <1>3, <1>4, <2>1 DEF Positions, OnStep, RegistersAt, Unspoiled
  <2>3. QueueAt(k + 1)'
    BY <1>2, <1>3, <1>4, <2>1 DEF Positions, OnStep, QueueAt
  <2>4. Position'
    BY <1>1, <1>2, <1>5, <2>2, <2>3, Advance
  <2>. QED
    BY <1>4, <2>1, <2>4
       DEF MspiInv, MspiTypeOK, RegistersReady, Unspoiled, QueueRests, Untouched
<1>6. CASE Leave
  <2>1. Position'
    BY <1>1, <1>2, <1>6, GiveUp
  <2>2. fn' = fn /\ rc' = "error" /\ fn # "read_quadio"
    BY <1>3, <1>6 DEF Leave, Positions
  <2>. QED
    BY <1>4, <2>1, <2>2
       DEF MspiInv, MspiTypeOK, RegistersReady, Unspoiled, QueueRests, Untouched
<1>. QED
  BY <1>5, <1>6

LEMMA ControlKeeps ==
  ASSUME MspiInv, Control
  PROVE  MspiInv'
<1>. USE DEF Control, Now
<1>1. todo # <<>> /\ fn \in DOMAIN Script /\ rc = "success"
  BY StepTaken, OffScript
<1>2. PICK k \in 1 .. Len(Script[fn]) : OnStep(k)
  BY <1>1, StepTaken
<1>3. Positions(fn, k, Head(todo)) /\ Len(Script[fn]) \in Nat
  BY <1>1, <1>2, ScriptIsSequence DEF OnStep
<1>4. UNCHANGED <<settings, old_asize, ce, g_dma_complete, queue, irq, arrived, reads, aborted,
                  known, x4_failed, fast>>
  BY DEF hist
<1>5. fn' = fn /\ rc' = rc /\ fn \in {"init", "read_x4"}
  BY <1>3 DEF Done, Positions
<1>6. RegistersAt(k + 1)'
  <2>1. RegistersAt(k) /\ RegistersReady /\ settings \in Devices
    BY <1>2 DEF OnStep, MspiInv, MspiTypeOK
  <2>. USE <1>3, <1>4, <1>5, <2>1
       DEF RegistersAt, RegistersReady, Unspoiled, Positions, Configured
  <2>2. CASE Now("disable")
    BY <2>2
  <2>3. CASE Now("configure")
    BY <2>3
  <2>4. CASE Now("enable")
    BY <2>4
  <2>. QED
    BY <2>2, <2>3, <2>4
<1>7. QueueAt(k + 1)'
  BY <1>5 DEF QueueAt
<1>8. Position'
  BY <1>1, <1>2, <1>6, <1>7, Advance
<1>9. MspiTypeOK'
  BY <1>4, <1>5 DEF MspiInv, MspiTypeOK, Configured
<1>10. RegistersReady'
  <2>1. RegistersAt(k) /\ RegistersReady
    BY <1>2 DEF OnStep, MspiInv
  <2>. QED
    BY <1>3, <1>4, <1>5, <2>1 DEF RegistersAt, RegistersReady, Unspoiled, Positions, Configured
<1>. QED
  BY <1>4, <1>5, <1>8, <1>9, <1>10
     DEF MspiInv, QueueRests, Untouched

LEMMA ControlFailsKeeps ==
  ASSUME MspiInv, ControlFails
  PROVE  MspiInv'
<1>. USE DEF ControlFails, Now
<1>1. todo # <<>> /\ fn \in DOMAIN Script /\ rc = "success"
  BY StepTaken, OffScript
<1>2. PICK k \in 1 .. Len(Script[fn]) : OnStep(k)
  BY <1>1, StepTaken
<1>3. fn' = fn /\ rc' = "error" /\ fn \in {"init", "read_x4"}
  BY <1>2 DEF OnStep, Positions, Leave
<1>4. Position'
  BY <1>1, <1>2, GiveUp
<1>. QED
  BY <1>3, <1>4
     DEF MspiInv, MspiTypeOK, RegistersReady, Unspoiled, QueueRests, Untouched, hist

LEMMA PinsKeep ==
  ASSUME MspiInv, Pins
  PROVE  MspiInv'
<1>. USE DEF Pins, Now
<1>1. todo # <<>> /\ fn \in DOMAIN Script /\ rc = "success"
  BY StepTaken, OffScript
<1>2. PICK k \in 1 .. Len(Script[fn]) : OnStep(k)
  BY <1>1, StepTaken
<1>3. Positions(fn, k, Head(todo)) /\ Len(Script[fn]) \in Nat
  BY <1>1, <1>2, ScriptIsSequence DEF OnStep
<1>4. UNCHANGED <<cfg, settings, enabled, old_asize, g_dma_complete, queue, irq, arrived, reads,
                  aborted, known, x4_failed, fast>>
  BY DEF hist
<1>5. fn' = fn /\ rc' = rc
  BY DEF Done
<1>6. RegistersAt(k + 1)'
  BY <1>2, <1>3, <1>4, <1>5 DEF Positions, OnStep, RegistersAt, Unspoiled
<1>7. QueueAt(k + 1)'
  BY <1>2, <1>3, <1>4, <1>5 DEF Positions, OnStep, QueueAt, Untouched, QueueDone
<1>8. Position'
  BY <1>1, <1>2, <1>6, <1>7, Advance
<1>9. RegistersReady'
  BY <1>3, <1>4, <1>5 DEF MspiInv, RegistersReady, Unspoiled, Positions
<1>. QED
  BY <1>4, <1>5, <1>8, <1>9 DEF MspiInv, MspiTypeOK, QueueRests, Untouched

LEMMA CommandsFacts ==
  ASSUME NEW q \in 1 .. 5
  PROVE  /\ SubSeq(Commands(1), 1, 4) = Commands(1)
         /\ SubSeq(Commands(1), q, 4) = <<>> <=> q = 5
         /\ q <= 4 =>
              /\ Head(SubSeq(Commands(1), q, 4)).stage = <<"address", "data", "dma", "update">>[q]
              /\ Head(SubSeq(Commands(1), q, 4)).read = 1
              /\ Tail(SubSeq(Commands(1), q, 4)) = SubSeq(Commands(1), q + 1, 4)
<1>. DEFINE C == {Commands(1)[j] : j \in 1 .. 4}
<1>1. Commands(1) \in Seq(C) /\ Len(Commands(1)) = 4
  BY DEF Commands
<1>2. SubSeq(Commands(1), 1, 4) = Commands(1)
  BY <1>1, SubSeqFull
<1>3. CASE q = 5
  BY <1>2, <1>3, SubSeqEmpty
<1>4. CASE q <= 4
  <2>1. /\ Head(SubSeq(Commands(1), q, 4)) = Commands(1)[q]
        /\ Tail(SubSeq(Commands(1), q, 4)) = SubSeq(Commands(1), q + 1, 4)
    BY <1>1, <1>4, HeadTailOfSubSeq
  <2>2. \A j \in q .. 4 : Commands(1)[j] \in C
    OBVIOUS
  <2>3. SubSeq(Commands(1), q, 4) \in Seq(C) /\ Len(SubSeq(Commands(1), q, 4)) = 4 - q + 1
    BY <1>4, <2>2, SubSeqProperties
  <2>4. SubSeq(Commands(1), q, 4) # <<>>
    <3>1. Len(SubSeq(Commands(1), q, 4)) # 0
      BY <1>4, <2>3
    <3>. QED
      BY <3>1, EmptySeq
  <2>. QED
    BY <1>2, <1>4, <2>1, <2>4 DEF Commands
<1>. QED
  BY <1>3, <1>4

LEMMA PostKeeps ==
  ASSUME MspiInv, Post
  PROVE  MspiInv'
<1>. USE DEF Post, Now
<1>1. todo # <<>> /\ fn \in DOMAIN Script /\ rc = "success"
  BY StepTaken, OffScript
<1>2. PICK k \in 1 .. Len(Script[fn]) : OnStep(k)
  BY <1>1, StepTaken
<1>3. fn = "read_quadio" /\ k = 2
  BY <1>2 DEF OnStep, Positions
<1>4. UNCHANGED <<cfg, settings, enabled, old_asize, ce, g_dma_complete, irq, arrived, reads,
                  aborted, known, x4_failed, fast>>
  BY DEF hist
<1>5. reads # 0
  BY <1>3 DEF MspiInv, QueueRests
<1>6. ~known
  BY <1>3 DEF MspiInv, RegistersReady
<1>7. CASE Done
  <2>1. fn' = fn /\ rc' = rc
    BY <1>7 DEF Done
  <2>2. queue' = queue \o Commands(reads)
    <3>1. CASE Leave
      BY <1>1, <1>7, <3>1 DEF Leave, Done
    <3>. QED
      BY <3>1 DEF Commands
  <2>3. QueueAt(k + 1)'
    <3>. SUFFICES ASSUME fast, reads = 1 PROVE QueueAt(3)'
      BY <1>3, <1>4 DEF QueueAt
    <3>1. Untouched
      BY <1>2, <1>3 DEF OnStep, QueueAt
    <3>2. queue' = Commands(1)
      <4>1. Commands(1) \in Seq({Commands(1)[j] : j \in 1 .. 4})
        BY DEF Commands
      <4>. QED
        BY <2>2, <3>1, <4>1, ConcatEmptySeq DEF Untouched
    <3>3. queue' = SubSeq(Commands(1), 1, 4)
      BY <3>2, CommandsFacts
    <3>4. ~irq' /\ ~g_dma_complete'
      BY <1>4, <3>1 DEF Untouched
    <3>5. QueueRuns(1)'
      BY <3>3, <3>4 DEF QueueRuns
    <3>. QED
      BY <3>5 DEF QueueAt
  <2>4. RegistersAt(k + 1)'
    BY <1>3, <2>1 DEF RegistersAt
  <2>5. Position'
    BY <1>1, <1>2, <1>7, <2>3, <2>4, Advance
  <2>. QED
    BY <1>1, <1>3, <1>4, <1>5, <1>6, <2>1, <2>5
       DEF MspiInv, MspiTypeOK, RegistersReady, QueueRests
<1>8. CASE Leave
  <2>1. Position'
    BY <1>1, <1>2, <1>8, GiveUp
  <2>2. fn' = fn /\ rc' = "error"
    BY <1>8 DEF Leave
  <2>3. queue' = queue
    <3>1. CASE Done
      BY <1>1, <2>2, <3>1 DEF Done
    <3>. QED
      BY <3>1
  <2>4. fast /\ reads = 1 => queue = <<>>
    BY <1>2, <1>3 DEF OnStep, QueueAt, Untouched
  <2>. QED
    BY <1>3, <1>4, <1>5, <1>6, <2>1, <2>2, <2>3, <2>4
       DEF MspiInv, MspiTypeOK, RegistersReady, QueueRests
<1>. QED
  BY <1>7, <1>8

LEMMA PollKeeps ==
  ASSUME MspiInv, Poll
  PROVE  MspiInv'
<1>. USE DEF Poll, Now
<1>1. todo # <<>> /\ fn \in DOMAIN Script /\ rc = "success"
  BY StepTaken, OffScript
<1>2. PICK k \in 1 .. Len(Script[fn]) : OnStep(k)
  BY <1>1, StepTaken
<1>3. fn = "read_quadio" /\ k = 3
  BY <1>2 DEF OnStep, Positions
<1>4. UNCHANGED <<cfg, settings, enabled, old_asize, ce, fn, rc, g_dma_complete, queue, irq,
                  arrived, reads, aborted, known, x4_failed, fast>>
  BY DEF hist
<1>5. Position'
  <2>1. CASE ~(g_dma_complete \/ polls + 1 = PollLimit)
    <3>0. todo' = todo
      BY <2>1
    <3>1. todo' = StepsLeft(fn, 3) /\ RegistersAt(3)'
      BY <1>2, <1>3, <1>4, <3>0 DEF OnStep, RegistersAt
    <3>2. QueueAt(3)'
      BY <1>2, <1>3, <1>4 DEF OnStep, QueueAt, QueueRuns
    <3>3. fn' # "none" /\ fn' = fn /\ rc' = "success" /\ 3 \in 1 .. Len(Script[fn]) + 1
      BY <1>1, <1>3, <1>4, ScriptLengths
    <3>. QED
      BY <3>1, <3>2, <3>3 DEF Position, StepsLeft
  <2>2. CASE g_dma_complete \/ polls + 1 = PollLimit
    <3>0. todo' = Tail(todo)
      BY <2>2
    <3>1. todo' = StepsLeft(fn, 4) /\ RegistersAt(4)'
      BY <1>2, <1>3, <1>4, <3>0 DEF OnStep, RegistersAt
    <3>2. QueueAt(4)'
      <4>. SUFFICES ASSUME fast, reads = 1 PROVE QueueDone
        BY <1>3, <1>4 DEF QueueAt, QueueDone
      <4>1. PICK q \in 1 .. 5 : QueueRuns(q)
        BY <1>2, <1>3 DEF OnStep, QueueAt
      <4>2. q = 5
        BY <2>2, <4>1, CommandsFacts DEF QueueRuns
      <4>. QED
        BY <4>1, <4>2, CommandsFacts DEF QueueRuns, QueueDone
    <3>3. fn' # "none" /\ fn' = fn /\ rc' = "success" /\ 4 \in 1 .. Len(Script[fn]) + 1
      BY <1>1, <1>3, <1>4, ScriptLengths
    <3>. QED
      BY <3>1, <3>2, <3>3 DEF Position, StepsLeft
  <2>. QED
    BY <2>1, <2>2
<1>. QED
  BY <1>4, <1>5 DEF MspiInv, MspiTypeOK, RegistersReady, Unspoiled, QueueRests, Untouched

LEMMA ReturnKeeps ==
  ASSUME MspiInv, ReturnFromCall
  PROVE  MspiInv'
<1>. USE DEF ReturnFromCall
<1>1. fn \in DOMAIN Script /\ Len(Script[fn]) \in Nat /\ rc \in {"success", "error"}
  BY ScriptIsSequence DEF MspiInv, MspiTypeOK, Position
<1>2. rc = "success" => RegistersAt(Len(Script[fn]) + 1) /\ QueueAt(Len(Script[fn]) + 1)
  BY <1>1, Walk DEF MspiInv, Position
<1>3. UNCHANGED <<cfg, settings, enabled, old_asize, ce, todo, rc, g_dma_complete, queue, irq,
                  arrived, reads, aborted, fast>>
  OBVIOUS
<1>4. Position'
  BY <1>3 DEF Position
<1>5. RegistersReady'
  <2>1. CASE fn \notin {"init", "read_x4"}
    <3>1. fn' = "none" /\ known' = known /\ x4_failed' = x4_failed
      BY <2>1 DEF MspiInv, MspiTypeOK
    <3>. QED
      BY <1>3, <2>1, <3>1 DEF MspiInv, RegistersReady, Unspoiled
  <2>2. CASE fn = "init"
    BY <1>2, <1>3, <2>2, ScriptLengths DEF MspiInv, MspiTypeOK, RegistersReady, Unspoiled, RegistersAt
  <2>3. CASE fn = "read_x4"
    <3>1. fn' = "none" /\ known' = known /\ (~x4_failed' => ~x4_failed /\ rc = "success")
      BY <1>1, <2>3 DEF MspiInv, MspiTypeOK
    <3>2. ~x4_failed' => RegistersAt(12)
      BY <1>2, <2>3, <3>1, ScriptLengths
    <3>. QED
      BY <1>3, <2>3, <3>1, <3>2 DEF MspiInv, RegistersReady, Unspoiled, RegistersAt
  <2>. QED
    BY <2>1, <2>2, <2>3
<1>6. QueueRests'
  <2>1. CASE fn = "read_quadio" /\ rc = "success"
    <3>1. QueueAt(5)
      BY <1>2, <2>1, ScriptLengths
    <3>. QED
      BY <1>3, <2>1, <3>1 DEF MspiInv, QueueRests, QueueAt, QueueDone
  <2>2. CASE ~(fn = "read_quadio" /\ rc = "success")
    BY <1>1, <1>3, <2>2 DEF MspiInv, MspiTypeOK, QueueRests, Untouched
  <2>. QED
    BY <2>1, <2>2
<1>. QED
  BY <1>3, <1>4, <1>5, <1>6 DEF MspiInv, MspiTypeOK

LEMMA CallKeeps ==
  ASSUME MspiInv, NEW f \in Functions, Call(f)
  PROVE  MspiInv'
<1>. USE DEF Call
<1>1. f \in DOMAIN Script /\ f # "none" /\ Len(Script[f]) \in Nat
  BY FunctionsAssumption, ScriptNames, ScriptIsSequence
<1>2. UNCHANGED <<cfg, settings, enabled, old_asize, ce, g_dma_complete, queue, irq, arrived,
                  aborted, x4_failed, fast>>
  OBVIOUS
<1>3. fn' = f /\ rc' = "success" /\ todo' = StepsLeft(f, 1)
  BY <1>1, WholeScript
<1>4. /\ f = "read_quadio" => ~known' /\ reads' = reads + 1
      /\ f # "read_quadio" => known' = known /\ reads' = reads
  BY DEF MspiInv, MspiTypeOK
<1>5. RegistersAt(1)'
  BY <1>2, <1>3, <1>4 DEF MspiInv, MspiTypeOK, RegistersReady, RegistersAt, Unspoiled
<1>6. QueueAt(1)'
  <2>. SUFFICES ASSUME f = "read_quadio", reads' = 1 PROVE Untouched'
    BY <1>3 DEF QueueAt
  <2>1. reads = 0
    BY <1>4 DEF MspiInv, MspiTypeOK
  <2>. QED
    BY <1>2, <2>1 DEF MspiInv, QueueRests, Untouched
<1>7. Position'
  BY <1>1, <1>3, <1>5, <1>6 DEF Position, StepsLeft
<1>8. RegistersReady'
  BY <1>2, <1>3, <1>4 DEF MspiInv, MspiTypeOK, RegistersReady, Unspoiled
<1>9. QueueRests'
  BY <1>2, <1>3, <1>4 DEF MspiInv, MspiTypeOK, QueueRests, Untouched
<1>10. MspiTypeOK'
  BY <1>1, <1>2, <1>3, <1>4 DEF MspiInv, MspiTypeOK
<1>. QED
  BY <1>7, <1>8, <1>9, <1>10 DEF MspiInv

(* What the queue, the interrupt and an abort do to the position of the    *)
(* running function: nothing, if they may run at all.                      *)
LEMMA BesideTheProgram ==
  ASSUME MspiInv, UNCHANGED cpu, UNCHANGED <<reads, known, x4_failed, fast>>,
         MspiTypeOK', QueueRests',
         cfg' = cfg \/ queue # <<>>,
         \A k \in 1 .. 5 : fn = "read_quadio" /\ QueueAt(k) => QueueAt(k)'
  PROVE  MspiInv'
<1>1. UNCHANGED <<settings, enabled, old_asize, ce, fn, todo, rc>>
  BY DEF cpu
<1>2. Unspoiled /\ cfg' # cfg => fn = "read_quadio" /\ reads # 0
  BY DEF MspiInv, MspiTypeOK, QueueRests, Unspoiled, Untouched
<1>3. ASSUME fn # "none", rc = "success" PROVE Position'
  <2>1. fn \in DOMAIN Script /\ Len(Script[fn]) \in Nat
    BY <1>3, ScriptIsSequence DEF MspiInv, MspiTypeOK
  <2>2. PICK k \in 1 .. Len(Script[fn]) + 1 :
          todo = StepsLeft(fn, k) /\ RegistersAt(k) /\ QueueAt(k)
    BY <1>3 DEF MspiInv, Position
  <2>3. RegistersAt(k)'
    BY <1>1, <1>2, <2>2 DEF RegistersAt, Unspoiled
  <2>4. QueueAt(k)'
    <3>1. CASE fn = "read_quadio"
      BY <2>2, <3>1, ScriptLengths
    <3>2. CASE fn # "read_quadio"
      BY <1>1, <3>2 DEF QueueAt
    <3>. QED
      BY <3>1, <3>2
  <2>. QED
    BY <1>1, <1>3, <2>2, <2>3, <2>4 DEF Position, StepsLeft
<1>4. Position'
  BY <1>1, <1>3 DEF MspiInv, MspiTypeOK, Position
<1>5. RegistersReady'
  BY <1>1, <1>2 DEF MspiInv, RegistersReady, Unspoiled
<1>. QED
  BY <1>4, <1>5 DEF MspiInv

LEMMA QueueKeeps ==
  ASSUME MspiInv, Queue
  PROVE  MspiInv'
<1>. USE DEF Queue, Stage
<1>1. /\ UNCHANGED cpu /\ UNCHANGED <<g_dma_complete, reads, aborted, known, x4_failed, fast>>
      /\ queue # <<>> /\ queue' = Tail(queue)
  BY DEF hist
<1>2. MspiTypeOK'
  BY <1>1 DEF MspiInv, MspiTypeOK, Configured, Devices, cpu
<1>3. fast /\ reads <= 1 => reads = 1 /\ fn = "read_quadio" /\ rc = "success"
  BY <1>1 DEF MspiInv, MspiTypeOK, Position, QueueRests, Untouched
<1>4. QueueRests'
  BY <1>1, <1>3 DEF MspiInv, MspiTypeOK, QueueRests, Untouched, cpu
<1>5. ASSUME NEW k \in 1 .. 5, fn = "read_quadio", QueueAt(k) PROVE QueueAt(k)'
  <2>. SUFFICES ASSUME fast, reads = 1 PROVE QueueAt(k)'
    BY <1>1 DEF QueueAt
  <2>1. k = 3
    BY <1>1, <1>5 DEF QueueAt, Untouched, QueueDone
  <2>2. PICK q \in 1 .. 5 : QueueRuns(q)
    BY <1>5, <2>1 DEF QueueAt
  <2>3. q <= 4 /\ queue' = SubSeq(Commands(1), q + 1, 4)
    BY <1>1, <2>2, CommandsFacts DEF QueueRuns
  <2>4. Head(queue).stage = <<"address", "data", "dma", "update">>[q] /\ Head(queue).read = 1
    BY <2>2, <2>3, CommandsFacts DEF QueueRuns
  <2>5. ~irq /\ ~g_dma_complete
    BY <2>2, <2>3 DEF QueueRuns
  <2>6. irq' => q = 4
    <3>1. q \in 1 .. 3 => Head(queue).stage # "update"
      BY <2>4
    <3>2. irq' => Head(queue).stage = "update"
      BY <2>5
    <3>. QED
      BY <2>3, <3>1, <3>2
  <2>7. q + 1 >= 4 /\ ~aborted' => 1 \in arrived'
    <3>1. CASE q = 3
      BY <2>4, <3>1
    <3>2. CASE q = 4
      BY <1>1, <2>2, <2>4, <3>2 DEF QueueRuns
    <3>. QED
      BY <2>3, <3>1, <3>2
  <2>8. QueueRuns(q + 1)'
    BY <1>1, <2>3, <2>5, <2>6, <2>7 DEF QueueRuns
  <2>. QED
    BY <2>1, <2>3, <2>8 DEF QueueAt
<1>. QED
  BY <1>1, <1>2, <1>4, <1>5, BesideTheProgram

LEMMA QueueAbortsKeeps ==
  ASSUME MspiInv, QueueAborts
  PROVE  MspiInv'
<1>. USE DEF QueueAborts
<1>1. /\ UNCHANGED cpu /\ UNCHANGED <<cfg, g_dma_complete, arrived, reads, known, x4_failed, fast>>
      /\ queue # <<>> /\ queue' = <<>> /\ aborted' = TRUE
  OBVIOUS
<1>2. MspiTypeOK'
  BY <1>1 DEF MspiInv, MspiTypeOK, cpu
<1>3. QueueRests'
  BY <1>1 DEF MspiInv, QueueRests, Untouched, cpu
<1>4. ASSUME NEW k \in 1 .. 5, fn = "read_quadio", QueueAt(k) PROVE QueueAt(k)'
  <2>. SUFFICES ASSUME fast, reads = 1 PROVE QueueAt(k)'
    BY <1>1 DEF QueueAt
  <2>1. k = 3
    BY <1>1, <1>4 DEF QueueAt, Untouched, QueueDone
  <2>2. QueueRuns(5)'
    BY <1>1, CommandsFacts DEF QueueRuns
  <2>. QED
    BY <2>1, <2>2 DEF QueueAt
<1>. QED
  BY <1>1, <1>2, <1>3, <1>4, BesideTheProgram

LEMMA InterruptKeeps ==
  ASSUME MspiInv, MSPI_IRQHandler
  PROVE  MspiInv'
<1>. USE DEF MSPI_IRQHandler
<1>1. /\ UNCHANGED cpu
      /\ UNCHANGED <<cfg, queue, arrived, reads, aborted, known, x4_failed, fast>>
      /\ irq
  BY DEF hist
<1>2. MspiTypeOK'
  BY <1>1 DEF MspiInv, MspiTypeOK, cpu
<1>3. QueueRests'
  BY <1>1 DEF MspiInv, QueueRests, Untouched, cpu
<1>4. ASSUME NEW k \in 1 .. 5, fn = "read_quadio", QueueAt(k) PROVE QueueAt(k)'
  <2>1. ASSUME NEW q \in 1 .. 5, QueueRuns(q) PROVE QueueRuns(q)'
    BY <1>1, <2>1 DEF QueueRuns
  <2>. QED
    BY <1>1, <1>4, <2>1 DEF QueueAt, Untouched, QueueDone, cpu
<1>. QED
  BY <1>1, <1>2, <1>3, <1>4, BesideTheProgram

LEMMA MspiInitial == MspiInit => MspiInv
<1>. SUFFICES ASSUME MspiInit PROVE MspiInv
  OBVIOUS
<1>1. MspiTypeOK
  BY DEF MspiInit, MspiTypeOK, Unconfigured, Devices
<1>2. Position
  BY DEF MspiInit, Position
<1>3. RegistersReady
  BY DEF MspiInit, RegistersReady
<1>4. QueueRests
  BY DEF MspiInit, QueueRests, Untouched
<1>. QED
  BY <1>1, <1>2, <1>3, <1>4 DEF MspiInv

LEMMA RestartKeeps ==
  ASSUME MspiRestart
  PROVE  MspiInv'
BY DEF MspiRestart, MspiInv, MspiTypeOK, Position, RegistersReady, QueueRests, Untouched,
       Unspoiled, Unconfigured, Devices

LEMMA StutterKeeps ==
  ASSUME MspiInv, UNCHANGED mspiVars
  PROVE  MspiInv'
BY DEF mspiVars, cpu, hist, MspiInv, MspiTypeOK, Position, StepsLeft, RegistersAt, RegistersReady,
       QueueAt, QueueRuns, QueueDone, QueueRests, Untouched, Unspoiled

LEMMA MspiStep == MspiInv /\ [MspiNext]_mspiVars => MspiInv'
BY RegistersKeep, TransferKeeps, ControlKeeps, ControlFailsKeeps, PinsKeep, PostKeeps, PollKeeps,
   ReturnKeeps, CallKeeps, QueueKeeps, QueueAbortsKeeps, InterruptKeeps, RestartKeeps, StutterKeeps
   DEF MspiNext, Thread

-----------------------------------------------------------------------------
(* The theorems *)

(* The MSPI's registers, the running function's place in its script and    *)
(* the queue of the first quad read belong together.                       *)
THEOREM MspiInvariant == MspiSpec => []MspiInv
BY MspiInitial, MspiStep, PTL DEF MspiSpec

(* Every command goes out in the frame the chip expects, on an MSPI that   *)
(* nand_init has set up, whatever functions were called before it and      *)
(* whatever failed in them, but for an x4 read and a quad read; after a    *)
(* nand_init that failed, if the MSPI is enabled.                          *)
THEOREM FramesAreRight == MspiSpec => []FramesRight
<1>1. MspiInv => FramesRight
  <2>. SUFFICES ASSUME MspiInv, Now("send"), ~x4_failed, fast, reads <= 1
                PROVE  /\ known \/ fn = "init" => enabled /\ ce = "mspi"
                       /\ known \/ fn = "init" \/ (enabled /\ reads = 0) =>
                            /\ queue = <<>>
                            /\ Lines = Head(todo).data
                            /\ fn # "read_x4" => Lines = "serial"
                            /\ Head(todo).v # 0 => cfg.asize = Head(todo).v
    BY DEF FramesRight
  <2>1. todo # <<>> /\ fn \in DOMAIN Script /\ rc = "success"
    BY StepTaken, OffScript DEF Now
  <2>2. PICK k \in 1 .. Len(Script[fn]) : OnStep(k)
    BY <2>1, StepTaken
  <2>3. Positions(fn, k, Head(todo)) /\ RegistersAt(k) /\ Unspoiled
    BY <2>2 DEF OnStep, Unspoiled
  <2>4. fn # "read_quadio" /\ fn # "none"
    BY <2>3 DEF Now, Positions
  <2>5. queue = <<>>
    BY <2>4 DEF MspiInv, MspiTypeOK, QueueRests, Untouched
  <2>6. RegistersReady
    BY DEF MspiInv
  <2>7. known \/ fn = "init" => enabled /\ ce = "mspi"
    BY <2>3, <2>6 DEF Now, Positions, RegistersAt, RegistersReady
  <2>8. known \/ fn = "init" \/ (enabled /\ reads = 0) =>
          Lines = Head(todo).data /\ (fn # "read_x4" => Lines = "serial")
    BY <2>3, <2>6 DEF Now, Positions, RegistersAt, RegistersReady, Lines
  <2>9. Head(todo).v # 0 => cfg.asize = Head(todo).v
    BY <2>3 DEF Now, Positions, RegistersAt
  <2>. QED
    BY <2>5, <2>7, <2>8, <2>9
<1>. QED
  BY <1>1, MspiInvariant, PTL

(* The first quad read that reports success has its data.                  *)
THEOREM FirstQuadReadTrue == MspiSpec => []QuadTrue
<1>1. MspiInv => QuadTrue
  <2>. SUFFICES ASSUME MspiInv, QuadReturned, fast, ~aborted, reads = 1
                PROVE  1 \in arrived
    BY DEF QuadTrue
  <2>1. PICK k \in 1 .. 5 : todo = StepsLeft("read_quadio", k) /\ QueueAt(k)
    BY ScriptLengths DEF QuadReturned, MspiInv, Position
  <2>2. k = 5
    <3>1. "read_quadio" \in DOMAIN Script /\ Len(Script["read_quadio"]) = 4
      BY ScriptNames, ScriptLengths
    <3>2. k \in 1 .. Len(Script["read_quadio"]) + 1
      BY <3>1
    <3>3. StepsLeft("read_quadio", k) = <<>> <=> k = 4 + 1
      <4>1. StepsLeft("read_quadio", k) = <<>> <=> k = Len(Script["read_quadio"]) + 1
        BY <3>1, <3>2, Walk
      <4>. QED
        BY <3>1, <4>1
    <3>. QED
      BY <2>1, <3>3 DEF QuadReturned
  <2>. QED
    BY <2>1, <2>2 DEF QueueAt, QueueDone, QuadReturned
<1>. QED
  BY <1>1, MspiInvariant, PTL
=============================================================================
