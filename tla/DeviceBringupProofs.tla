------------------------ MODULE DeviceBringupProofs ------------------------
(***************************************************************************)
(* Theorems about DeviceBringup, for every set of images and every number  *)
(* of faults: it keeps its types, the CPU only ever runs a whole image, a  *)
(* download the driver takes for good has started it, and frontend_detach  *)
(* releases the demodulators that were probed with their tuner.            *)
(*                                                                         *)
(* None of the three is inductive.  What the driver holds at each place of *)
(* download_firmware (Loading), which device may look warm (WarmRuns), and *)
(* what frontend_attach has found by then (Registered) make them so.       *)
(***************************************************************************)
EXTENDS DeviceBringup, TLAPS

Cpus == {"none", "loader", "reset", "boot", "firmware"}
Rams == {"empty", "part", "whole"}
Fx2States == [plugged : BOOLEAN, on : BOOLEAN, pid : Pids, renum : BOOLEAN,
              cpu : Cpus, ram : Rams]

(***************************************************************************)
(* The inductive invariant.                                                *)
(***************************************************************************)

\* Only a device that is plugged is on the bus or talked to.
Present == (fx2.on => fx2.plugged) /\ (alive => fx2.plugged)

\* A device identifies itself as warm only when its firmware made it renumerate.
WarmRuns == fx2.pid = "1004" => fx2.cpu = "firmware"

\* The walk through the image has nothing left to write.
Complete == record > Len(image.records) \/ image.records[record] = "stub"

Downloading == {"cpu_stop", "load", "cpu_run"}

\* The walk begins at the first record, of an image that is not too short; the CPU
\* stays in reset until the walk is complete, and by then the device holds it all.
Loading ==
  /\ host \in Downloading =>
       /\ image \in Images /\ ~image.short
       /\ alive => fx2.pid = "8613"
  /\ host \in {"cpu_stop", "load"} => ~cpu_run
  /\ host = "cpu_stop" => record = 1
  /\ host = "load" /\ alive =>
       /\ fx2.cpu = "reset"
       /\ Complete => fx2.ram = "whole"
  /\ host = "cpu_run" /\ alive =>
       /\ fx2.ram = "whole"
       /\ cpu_run => fx2.cpu \in {"boot", "firmware"}

\* What has been probed by the time the driver is at a place of attach.
Found == IF host = "tuner_s" THEN {"demod_s"}
         ELSE IF host = "demod_t" THEN {"demod_s", "tuner_s"}
         ELSE IF host = "tuner_t" THEN {"demod_s", "tuner_s", "demod_t"}
         ELSE IF host \in {"core_init", "up"} THEN Chips ELSE {}

\* The driver remembers what is registered, and a demodulator that is still there
\* when it detaches is one it remembers or one whose tuner was not found.
Registered ==
  /\ host \notin {"none", "detach"} => i2c_clt = Found /\ clients = Found
  /\ host = "detach" =>
      \A demod \in Demods \cap clients : demod \in i2c_clt \/ TunerOf(demod) \notin clients

IInv ==
  /\ TypeOK /\ Present /\ WarmRuns /\ RunsWholeImages /\ StartedIfGood
  /\ Loading /\ Registered /\ DemodsReleased

-----------------------------------------------------------------------------
(* The device's states. *)

LEMMA CpuOnly ==
  ASSUME NEW f \in Fx2States, NEW c \in Cpus
  PROVE  LET g == [f EXCEPT !.cpu = c] IN
         /\ g \in Fx2States
         /\ g.cpu = c /\ g.ram = f.ram
         /\ g.plugged = f.plugged /\ g.on = f.on /\ g.pid = f.pid /\ g.renum = f.renum
  BY DEF Fx2States

LEMMA OnOnly ==
  ASSUME NEW f \in Fx2States
  PROVE  LET g == [f EXCEPT !.on = TRUE] IN
         /\ g \in Fx2States
         /\ g.on = TRUE /\ g.cpu = f.cpu /\ g.ram = f.ram
         /\ g.plugged = f.plugged /\ g.pid = f.pid /\ g.renum = f.renum
  BY DEF Fx2States

LEMMA Leaves ==
  ASSUME NEW f \in Fx2States, NEW p \in Pids
  PROVE  LET g == [f EXCEPT !.cpu = "firmware", !.on = FALSE, !.renum = TRUE, !.pid = p] IN
         /\ g \in Fx2States
         /\ g.on = FALSE /\ g.cpu = "firmware" /\ g.ram = f.ram
         /\ g.plugged = f.plugged /\ g.pid = p /\ g.renum = TRUE
  BY DEF Fx2States, Cpus

LEMMA PluggedState ==
  LET g == [Unplugged EXCEPT !.plugged = TRUE, !.on = TRUE, !.cpu = "loader"] IN
  /\ g \in Fx2States
  /\ g.on = TRUE /\ g.cpu = "loader" /\ g.ram = "empty"
  /\ g.plugged = TRUE /\ g.pid = "8613"
  BY DEF Fx2States, Cpus, Rams, Pids, Unplugged

LEMMA UnpluggedState ==
  /\ Unplugged \in Fx2States
  /\ Unplugged.on = FALSE /\ Unplugged.cpu = "none" /\ Unplugged.ram = "empty"
  /\ Unplugged.plugged = FALSE /\ Unplugged.pid = "8613"
  BY DEF Fx2States, Cpus, Rams, Pids, Unplugged

-----------------------------------------------------------------------------
(* The image. *)

LEMMA ImageTyped ==
  ASSUME TypeOK
  PROVE  /\ image.pid \in Pids /\ image.records \in Seq(Kinds)
         /\ Len(image.records) \in Nat /\ record \in Nat \ {0}
<1>1. image.pid \in Pids /\ image.records \in Seq(Kinds)
  <2>1. CASE image \in Images
    BY <2>1, ImageAssumption
  <2>2. CASE image = NoImage
    BY <2>2 DEF NoImage, Pids
  <2> QED BY <2>1, <2>2 DEF TypeOK
<1> QED BY <1>1 DEF TypeOK

\* The walk of an image that is not too short has a record to begin with.
LEMMA NotCompleteAtFirst ==
  ASSUME TypeOK, image \in Images, ~image.short
  PROVE  image.records # <<>> /\ image.records[1] # "stub" /\ 1 <= Len(image.records)
<1>1. image.records # <<>> /\ image.records[1] # "stub"
  BY WalkAssumption
<1>2. image.records \in Seq(Kinds)
  BY ImageTyped
<1> QED BY <1>1, <1>2

\* The record after which the walk ends is the last one there is to write.
LEMMA WalkEndsAtLast ==
  ASSUME TypeOK, image \in Images, ~image.short, Left
  PROVE  /\ Kind \in {"end", "endrun"} => Last
         /\ record + 1 > Len(image.records) => Last
         /\ record + 1 <= Len(image.records) /\ image.records[record + 1] = "stub" => Last
<1>1. \A k \in 1..Len(image.records) - 1 : image.records[k] = "data"
  BY WalkAssumption
<1>2. /\ Len(image.records) \in Nat /\ record \in Nat /\ 1 <= record
      /\ record <= Len(image.records)
  BY ImageTyped DEF Left
<1>3. Kind \in {"end", "endrun"} => record = Len(image.records)
  BY <1>1, <1>2 DEF Kind
<1>4. record + 1 <= Len(image.records) /\ image.records[record + 1] = "stub"
        => record + 1 = Len(image.records)
  BY <1>1, <1>2
<1> QED BY <1>2, <1>3, <1>4 DEF Last

-----------------------------------------------------------------------------
(* One lemma per action. *)

\* What the invariant says, with the type of the device named.
LEMMA Typed ==
  TypeOK <=> /\ fx2 \in Fx2States
             /\ host \in Places /\ alive \in BOOLEAN
             /\ image \in Images \cup {NoImage} /\ record \in 1..Len(image.records) + 1
             /\ cpu_run \in BOOLEAN
             /\ i2c_clt \subseteq Chips /\ clients \subseteq Chips
             /\ faults \in 0..MaxFaults
  BY DEF TypeOK, Fx2States, Cpus, Rams

LEMMA FaultTyped ==
  ASSUME TypeOK, Fault PROVE faults' \in 0..MaxFaults
  BY FaultAssumption DEF TypeOK, Fault

LEMMA InitIInv == Init => IInv
<1> SUFFICES ASSUME Init PROVE IInv
  OBVIOUS
<1> USE DEF Init
<1>1. TypeOK
  <2>1. fx2 \in Fx2States
    BY UnpluggedState
  <2>2. record \in 1..Len(image.records) + 1
    BY DEF NoImage
  <2>3. faults \in 0..MaxFaults
    BY FaultAssumption
  <2> QED BY <2>1, <2>2, <2>3 DEF TypeOK, Fx2States, Cpus, Rams, Places, Chips
<1>2. Present /\ WarmRuns /\ RunsWholeImages
  BY UnpluggedState DEF Present, WarmRuns, RunsWholeImages
<1>3. StartedIfGood /\ Loading /\ Registered /\ DemodsReleased
  BY DEF StartedIfGood, Loading, Downloading, Registered, DemodsReleased
<1> QED BY <1>1, <1>2, <1>3 DEF IInv

\* The steps of the device, of the user and of the firmware's start change what the
\* driver keeps in nothing but alive.
LEMMA DriverUnchanged ==
  ASSUME IInv, UNCHANGED <<host, image, record, cpu_run, i2c_clt, clients>>
  PROVE  Registered' /\ DemodsReleased'
  BY DEF IInv, Registered, DemodsReleased, Found

LEMMA PlugKeeps == ASSUME IInv, Plug PROVE IInv'
<1> USE DEF Plug, download, attached
<1>1. TypeOK'
  <2>1. fx2' \in Fx2States
    BY PluggedState
  <2> QED BY <2>1 DEF IInv, TypeOK, Fx2States, Cpus, Rams
<1>2. ~alive /\ ~alive'
  BY DEF IInv, Present
<1>3. Present' /\ WarmRuns' /\ RunsWholeImages' /\ StartedIfGood' /\ Loading'
  BY <1>2, PluggedState DEF IInv, Present, WarmRuns, RunsWholeImages, StartedIfGood, Loading
<1> QED BY <1>1, <1>3, DriverUnchanged DEF IInv

LEMMA UnplugKeeps == ASSUME IInv, Unplug PROVE IInv'
<1> USE DEF Unplug, download, attached
<1>1. TypeOK'
  <2>1. fx2' \in Fx2States
    BY UnpluggedState
  <2> QED BY <2>1, FaultTyped DEF IInv, TypeOK, Fx2States, Cpus, Rams
<1>2. Present' /\ WarmRuns' /\ RunsWholeImages' /\ StartedIfGood' /\ Loading'
  BY UnpluggedState DEF IInv, Present, WarmRuns, RunsWholeImages, StartedIfGood, Loading
<1> QED BY <1>1, <1>2, DriverUnchanged DEF IInv

LEMMA BootKeeps == ASSUME IInv, Boot PROVE IInv'
<1> USE DEF Boot, download, attached
<1> DEFINE leaving == [fx2 EXCEPT !.cpu = "firmware", !.on = FALSE, !.renum = TRUE,
                                  !.pid = image.pid]
           staying == [fx2 EXCEPT !.cpu = "firmware"]
<1>1. fx2 \in Fx2States /\ image.pid \in Pids
  BY Typed, ImageTyped DEF IInv
<1>2. /\ leaving \in Fx2States /\ leaving.ram = fx2.ram /\ leaving.cpu = "firmware"
      /\ ~leaving.on
  BY <1>1, Leaves
<1>3. /\ staying \in Fx2States /\ staying.ram = fx2.ram /\ staying.cpu = "firmware"
      /\ staying.on = fx2.on /\ staying.plugged = fx2.plugged /\ staying.pid = fx2.pid
  BY <1>1, CpuOnly DEF Cpus
<1>4. /\ fx2.cpu = "boot"
      /\ \/ fx2' = staying /\ alive' = alive
         \/ fx2' = leaving /\ alive' = FALSE
      /\ UNCHANGED <<host, image, record, cpu_run, i2c_clt, clients, faults>>
  OBVIOUS
<1> HIDE DEF leaving, staying, Boot
<1>5. TypeOK'
  BY <1>2, <1>3, <1>4 DEF IInv, TypeOK, Fx2States, Cpus, Rams
<1>6. Present' /\ WarmRuns' /\ RunsWholeImages' /\ StartedIfGood'
  BY <1>2, <1>3, <1>4 DEF IInv, Present, WarmRuns, RunsWholeImages, StartedIfGood
<1>7. Loading'
  BY <1>2, <1>3, <1>4 DEF IInv, Loading, Downloading
<1> QED BY <1>4, <1>5, <1>6, <1>7, DriverUnchanged DEF IInv

LEMMA ReconnectKeeps == ASSUME IInv, Reconnect PROVE IInv'
<1> USE DEF Reconnect, download, attached
<1>1. fx2 \in Fx2States
  BY Typed DEF IInv
<1>2. /\ fx2' \in Fx2States /\ fx2'.ram = fx2.ram /\ fx2'.cpu = fx2.cpu
      /\ fx2'.plugged = fx2.plugged /\ fx2'.pid = fx2.pid
  BY <1>1, OnOnly
<1>3. /\ fx2.plugged
      /\ UNCHANGED <<host, alive, image, record, cpu_run, i2c_clt, clients, faults>>
  OBVIOUS
<1> HIDE DEF Reconnect
<1>4. TypeOK'
  BY <1>2, <1>3 DEF IInv, TypeOK, Fx2States, Cpus, Rams
<1>5. Present' /\ WarmRuns' /\ RunsWholeImages' /\ StartedIfGood'
  BY <1>2, <1>3 DEF IInv, Present, WarmRuns, RunsWholeImages, StartedIfGood
<1>6. Loading'
  BY <1>2, <1>3 DEF IInv, Loading, Downloading, Complete
<1> QED BY <1>3, <1>4, <1>5, <1>6, DriverUnchanged DEF IInv

\* Probe and Rebind are this step with one more condition each.
LEMMA BindKeeps == ASSUME IInv, Bind PROVE IInv'
<1> USE DEF Bind, Goto, download
<1>1. TypeOK'
  BY DEF IInv, TypeOK, Places, Chips
<1>2. Present' /\ WarmRuns' /\ RunsWholeImages' /\ StartedIfGood'
  BY DEF IInv, Present, WarmRuns, RunsWholeImages, StartedIfGood
<1>3. Loading' /\ Registered' /\ DemodsReleased'
  BY DEF Loading, Downloading, Registered, Found, DemodsReleased
<1> QED BY <1>1, <1>2, <1>3 DEF IInv

LEMMA IdentifyKeeps == ASSUME IInv, Identify PROVE IInv'
<1> USE DEF Identify, Goto, attached
<1>1. TypeOK'
  <2>1. image' \in Images \cup {NoImage} /\ host' \in Places
    BY DEF IInv, TypeOK, Places
  <2>2. Len(image'.records) \in Nat
    <3>1. CASE image' \in Images
      BY <3>1, ImageAssumption
    <3>2. CASE image' = NoImage
      BY <3>2 DEF NoImage
    <3> QED BY <2>1, <3>1, <3>2
  <2>3. record' \in 1..Len(image'.records) + 1
    BY <2>2
  <2>4. faults' \in 0..MaxFaults
    BY FaultTyped DEF IInv, TypeOK
  <2> QED BY <2>1, <2>3, <2>4 DEF IInv, TypeOK
<1>2. Present' /\ WarmRuns' /\ RunsWholeImages'
  BY DEF IInv, Present, WarmRuns, RunsWholeImages
<1>3. StartedIfGood'
  BY DEF IInv, StartedIfGood, WarmRuns
<1>4. Loading'
  BY DEF Loading, Downloading
<1>5. Registered' /\ DemodsReleased'
  BY DEF IInv, Registered, Found, DemodsReleased
<1> QED BY <1>1, <1>2, <1>3, <1>4, <1>5 DEF IInv

LEMMA NoFirmwareKeeps == ASSUME IInv, NoFirmware PROVE IInv'
<1> USE DEF NoFirmware, Goto, download, attached
<1>1. TypeOK'
  BY FaultTyped DEF IInv, TypeOK, Places
<1>2. Present' /\ WarmRuns' /\ RunsWholeImages' /\ StartedIfGood' /\ Loading'
  BY DEF IInv, Present, WarmRuns, RunsWholeImages, StartedIfGood, Loading, Downloading
<1>3. Registered' /\ DemodsReleased'
  BY DEF IInv, Registered, Found, DemodsReleased
<1> QED BY <1>1, <1>2, <1>3 DEF IInv

\* A transfer leaves faults in its range, also when it fails.
LEMMA TransferTyped ==
  ASSUME TypeOK, NEW STATE effect, Transfer(effect) \/ TransferFails(effect)
  PROVE  /\ faults' \in 0..MaxFaults /\ alive' = alive
         /\ (fx2' = fx2 \/ (alive /\ fx2' = effect))
<1>1. faults' = faults \/ Fault
  BY DEF Transfer, TransferFails
<1>2. faults' \in 0..MaxFaults
  BY <1>1, FaultTyped DEF TypeOK
<1>3. alive' = alive /\ (fx2' = fx2 \/ (alive /\ fx2' = effect))
  BY DEF Transfer, TransferFails
<1> QED BY <1>2, <1>3

LEMMA CpuStopKeeps == ASSUME IInv, CpuStop PROVE IInv'
<1> DEFINE halted == [fx2 EXCEPT !.cpu = "reset", !.ram = "part"]
<1>1. /\ host = "cpu_stop"
      /\ \/ Transfer(halted) /\ host' = "load"
         \/ TransferFails(halted) /\ host' = "none"
      /\ UNCHANGED <<image, record, cpu_run, i2c_clt, clients>>
  BY DEF CpuStop, Goto, download, attached
<1>2. fx2 \in Fx2States
  BY Typed DEF IInv
<1>3. /\ halted \in Fx2States /\ halted.cpu = "reset" /\ halted.ram = "part"
      /\ halted.plugged = fx2.plugged /\ halted.on = fx2.on /\ halted.pid = fx2.pid
  BY <1>2 DEF Fx2States, Cpus, Rams
<1> HIDE DEF halted
<1>4. /\ faults' \in 0..MaxFaults /\ alive' = alive
      /\ (fx2' = fx2 \/ (alive /\ fx2' = halted))
      /\ host' = "load" => alive /\ fx2' = halted
  BY <1>1, TransferTyped DEF IInv, Transfer
<1>5. TypeOK'
  BY <1>1, <1>3, <1>4 DEF IInv, TypeOK, Fx2States, Cpus, Rams, Places
<1>6. Present' /\ WarmRuns' /\ RunsWholeImages' /\ StartedIfGood'
  BY <1>1, <1>3, <1>4
  DEF IInv, Present, WarmRuns, RunsWholeImages, StartedIfGood, Loading, Downloading
<1>7. Loading'
  <2>1. image \in Images /\ ~image.short /\ record = 1 /\ ~cpu_run
    BY <1>1 DEF IInv, Loading, Downloading
  <2>2. ~Complete /\ ~Complete'
    BY <1>1, <2>1, NotCompleteAtFirst, ImageTyped DEF IInv, Complete
  <2> QED BY <1>1, <1>3, <1>4, <2>1, <2>2 DEF IInv, Loading, Downloading
<1>8. Registered' /\ DemodsReleased'
  BY <1>1 DEF IInv, Registered, Found, DemodsReleased
<1> QED BY <1>5, <1>6, <1>7, <1>8 DEF IInv

LEMMA LoadRecordKeeps == ASSUME IInv, LoadRecord PROVE IInv'
<1>1. /\ host = "load" /\ Left
      /\ \/ /\ Kind = "cut" /\ host' = "none"
            /\ UNCHANGED <<fx2, alive, record, cpu_run, faults>>
         \/ /\ Kind # "cut" /\ Transfer(Written)
            /\ record' = record + 1 /\ cpu_run' = (Kind = "endrun")
            /\ host' = IF Kind \in {"end", "endrun"} THEN "cpu_run" ELSE "load"
         \/ /\ Kind # "cut" /\ TransferFails(Written)
            /\ host' = "none" /\ UNCHANGED <<record, cpu_run>>
      /\ UNCHANGED <<image, i2c_clt, clients>>
  BY DEF LoadRecord, Goto, attached
<1>2. fx2 \in Fx2States
  BY Typed DEF IInv
<1>3. /\ Written \in Fx2States
      /\ Written.cpu = IF Kind = "endrun" THEN "boot" ELSE fx2.cpu
      /\ Written.ram = IF Last THEN "whole" ELSE "part"
      /\ Written.plugged = fx2.plugged /\ Written.on = fx2.on /\ Written.pid = fx2.pid
  <2> DEFINE r == IF Last THEN "whole" ELSE "part"
             c == IF Kind = "endrun" THEN "boot" ELSE fx2.cpu
  <2>1. r \in Rams /\ c \in Cpus
    BY <1>2 DEF Fx2States, Rams, Cpus
  <2>2. Written = [fx2 EXCEPT !.ram = r, !.cpu = c]
    BY <1>2 DEF Written, Fx2States
  <2>3. r = (IF Last THEN "whole" ELSE "part")
        /\ c = (IF Kind = "endrun" THEN "boot" ELSE fx2.cpu)
    OBVIOUS
  <2> HIDE DEF r, c
  <2> QED BY <1>2, <2>1, <2>2, <2>3 DEF Fx2States
<1>4. /\ faults' \in 0..MaxFaults /\ alive' = alive
      /\ (fx2' = fx2 \/ (alive /\ fx2' = Written))
      /\ host' # "none" => alive /\ fx2' = Written
  BY <1>1, TransferTyped DEF IInv, Transfer, TypeOK
<1>5. image \in Images /\ ~image.short /\ (alive => fx2.pid = "8613" /\ fx2.cpu = "reset")
  BY <1>1 DEF IInv, Loading, Downloading
<1>6. /\ record \in Nat /\ 1 <= record /\ Len(image.records) \in Nat
      /\ record <= Len(image.records)
  BY <1>1, ImageTyped DEF IInv, Left
<1>7. TypeOK'
  <2>1. record' \in 1..Len(image'.records) + 1 /\ cpu_run' \in BOOLEAN
    <3>1. record' \in {record, record + 1} /\ image' = image
      BY <1>1
    <3>2. cpu_run' \in BOOLEAN
      BY <1>1, Zenon DEF IInv, TypeOK
    <3> QED BY <1>6, <3>1, <3>2
  <2> QED BY <1>1, <1>3, <1>4, <2>1 DEF IInv, TypeOK, Fx2States, Cpus, Rams, Places
<1>8. /\ Kind \in {"end", "endrun"} => Last
      /\ record + 1 > Len(image.records) => Last
      /\ record + 1 <= Len(image.records) /\ image.records[record + 1] = "stub" => Last
  BY <1>1, <1>5, WalkEndsAtLast DEF IInv
<1>9. Present' /\ WarmRuns' /\ StartedIfGood'
  BY <1>1, <1>3, <1>4, <1>5 DEF IInv, Present, WarmRuns, StartedIfGood
<1>10. RunsWholeImages'
  BY <1>3, <1>4, <1>5, <1>8 DEF IInv, RunsWholeImages
<1>11. Loading'
  <2>1. CASE host' = "none"
    BY <2>1 DEF Loading, Downloading
  <2>2. CASE host' # "none"
    <3>1. /\ record' = record + 1 /\ cpu_run' = (Kind = "endrun")
          /\ host' = IF Kind \in {"end", "endrun"} THEN "cpu_run" ELSE "load"
          /\ fx2' = Written /\ alive /\ alive' /\ image' = image
      BY <1>1, <1>4, <2>2
    <3>2. Complete' => Last
      BY <1>6, <1>8, <3>1 DEF Complete
    <3>3. host' = "load" => fx2'.cpu = "reset" /\ ~cpu_run'
      BY <1>3, <1>5, <3>1
    <3>4. host' = "cpu_run" => fx2'.ram = "whole" /\ (cpu_run' => fx2'.cpu = "boot")
      BY <1>3, <1>8, <3>1
    <3>5. Last => fx2'.ram = "whole"
      BY <1>3, <3>1
    <3> QED BY <1>3, <1>5, <3>1, <3>2, <3>3, <3>4, <3>5 DEF Loading, Downloading
  <2> QED BY <2>1, <2>2
<1>12. Registered' /\ DemodsReleased'
  BY <1>1 DEF IInv, Registered, Found, DemodsReleased
<1> QED BY <1>7, <1>9, <1>10, <1>11, <1>12 DEF IInv

LEMMA LoadEndsKeeps == ASSUME IInv, LoadEnds PROVE IInv'
<1> USE DEF LoadEnds, Goto, download, attached
<1>1. TypeOK'
  BY DEF IInv, TypeOK, Places
<1>2. Present' /\ WarmRuns' /\ RunsWholeImages' /\ StartedIfGood'
  BY DEF IInv, Present, WarmRuns, RunsWholeImages, StartedIfGood
<1>3. Complete
  BY ImageTyped DEF IInv, Left, Kind, Complete
<1>4. Loading'
  BY <1>3 DEF IInv, Loading, Downloading
<1>5. Registered' /\ DemodsReleased'
  BY DEF IInv, Registered, Found, DemodsReleased
<1> QED BY <1>1, <1>2, <1>4, <1>5 DEF IInv

LEMMA CpuRunKeeps == ASSUME IInv, CpuRun PROVE IInv'
<1> DEFINE started == [fx2 EXCEPT !.cpu = "boot"]
<1>1. /\ host = "cpu_run"
      /\ \/ cpu_run /\ host' = "transfer_init" /\ UNCHANGED <<fx2, alive, faults>>
         \/ ~cpu_run /\ Transfer(started) /\ host' = "transfer_init"
         \/ ~cpu_run /\ TransferFails(started) /\ host' = "none"
      /\ UNCHANGED <<image, record, cpu_run, i2c_clt, clients>>
  BY DEF CpuRun, Goto, download, attached
<1>2. fx2 \in Fx2States
  BY Typed DEF IInv
<1>3. /\ started \in Fx2States /\ started.cpu = "boot" /\ started.ram = fx2.ram
      /\ started.plugged = fx2.plugged /\ started.on = fx2.on /\ started.pid = fx2.pid
  BY <1>2, CpuOnly DEF Cpus
<1> HIDE DEF started
<1>4. /\ faults' \in 0..MaxFaults /\ alive' = alive
      /\ (fx2' = fx2 \/ (alive /\ fx2' = started))
      /\ host' = "transfer_init" => cpu_run \/ fx2' = started
  BY <1>1, TransferTyped, FaultTyped DEF IInv, Transfer, TypeOK
<1>5. alive => fx2.pid = "8613" /\ fx2.ram = "whole"
                 /\ (cpu_run => fx2.cpu \in {"boot", "firmware"})
  BY <1>1 DEF IInv, Loading, Downloading
<1>6. TypeOK'
  BY <1>1, <1>3, <1>4 DEF IInv, TypeOK, Fx2States, Cpus, Rams, Places
<1>7. Present' /\ WarmRuns' /\ RunsWholeImages'
  BY <1>3, <1>4, <1>5 DEF IInv, Present, WarmRuns, RunsWholeImages
<1>8. StartedIfGood'
  BY <1>1, <1>3, <1>4, <1>5 DEF StartedIfGood
<1>9. Loading'
  BY <1>1 DEF Loading, Downloading
<1>10. Registered' /\ DemodsReleased'
  BY <1>1 DEF IInv, Registered, Found, DemodsReleased
<1> QED BY <1>6, <1>7, <1>8, <1>9, <1>10 DEF IInv

LEMMA TransferInitKeeps == ASSUME IInv, TransferInit PROVE IInv'
<1>1. /\ host = "transfer_init"
      /\ \/ Transfer(fx2) /\ host' = "demod_s"
         \/ TransferFails(fx2) /\ host' = "detach"
      /\ UNCHANGED <<image, record, cpu_run, i2c_clt, clients>>
  BY DEF TransferInit, Goto, download, attached
<1>2. faults' \in 0..MaxFaults /\ alive' = alive /\ fx2' = fx2
  BY <1>1, TransferTyped DEF IInv
<1>3. TypeOK'
  BY <1>1, <1>2 DEF IInv, TypeOK, Places, Chips
<1>4. Present' /\ WarmRuns' /\ RunsWholeImages' /\ StartedIfGood' /\ Loading'
  BY <1>1, <1>2
  DEF IInv, Present, WarmRuns, RunsWholeImages, StartedIfGood, Loading, Downloading
<1>5. Registered' /\ DemodsReleased'
  BY <1>1 DEF IInv, Registered, Found, DemodsReleased
<1> QED BY <1>3, <1>4, <1>5 DEF IInv

\* The four chips are probed in this order.
LEMMA ProbeOrder ==
  ASSUME IInv, NEW chip \in Chips, host = chip
  PROVE  /\ i2c_clt = Found /\ clients = Found
         /\ \/ chip = "demod_s" /\ Found = {}
            \/ chip = "tuner_s" /\ Found = {"demod_s"}
            \/ chip = "demod_t" /\ Found = {"demod_s", "tuner_s"}
            \/ chip = "tuner_t" /\ Found = {"demod_s", "tuner_s", "demod_t"}
  BY DEF IInv, Registered, Found, Chips

LEMMA ProbeChipKeeps == ASSUME IInv, NEW chip \in Chips, ProbeChip(chip) PROVE IInv'
<1>1. /\ host = chip /\ Transfer(fx2) /\ host' = After(chip)
      /\ i2c_clt' = i2c_clt \cup {chip} /\ clients' = clients \cup {chip}
      /\ UNCHANGED <<image, record, cpu_run>>
  BY DEF ProbeChip, Goto, download
<1>2. faults' \in 0..MaxFaults /\ alive' = alive /\ fx2' = fx2
  BY <1>1, TransferTyped DEF IInv
<1>3. host' \in Places \ {"none", "identify", "detach", "transfer_init"} /\ host' \notin Downloading
  BY <1>1 DEF After, Places, Chips, Downloading
<1>4. i2c_clt' = Found' /\ clients' = Found'
  BY <1>1, ProbeOrder DEF After, Found, Chips
<1>5. TypeOK'
  BY <1>1, <1>2, <1>3 DEF IInv, TypeOK
<1>6. Present' /\ WarmRuns' /\ RunsWholeImages' /\ StartedIfGood' /\ Loading'
  BY <1>2, <1>3
  DEF IInv, Present, WarmRuns, RunsWholeImages, StartedIfGood, Loading, Downloading
<1>7. Registered' /\ DemodsReleased'
  BY <1>3, <1>4 DEF Registered, DemodsReleased, Found
<1> QED BY <1>5, <1>6, <1>7 DEF IInv

LEMMA ProbeChipFailsKeeps ==
  ASSUME IInv, NEW chip \in Chips, ProbeChipFails(chip) PROVE IInv'
<1>1. /\ host = chip /\ TransferFails(fx2) /\ host' = "detach"
      /\ i2c_clt' = i2c_clt \ {demod \in Demods : chip \in {demod, TunerOf(demod)}}
      /\ clients' \in {clients, clients \cup ({chip} \cap {"demod_s"})}
      /\ UNCHANGED <<image, record, cpu_run>>
  BY DEF ProbeChipFails, Goto, download
<1>2. faults' \in 0..MaxFaults /\ alive' = alive /\ fx2' = fx2
  BY <1>1, TransferTyped DEF IInv
<1>3. TypeOK'
  BY <1>1, <1>2 DEF IInv, TypeOK, Places
<1>4. Present' /\ WarmRuns' /\ RunsWholeImages' /\ StartedIfGood' /\ Loading'
  BY <1>1, <1>2
  DEF IInv, Present, WarmRuns, RunsWholeImages, StartedIfGood, Loading, Downloading
<1>5. Registered'
  <2> SUFFICES ASSUME NEW demod \in Demods, demod \in clients', demod \notin i2c_clt'
               PROVE  TunerOf(demod) \notin clients'
    BY <1>1 DEF Registered
  <2>1. CASE demod \in clients
    <3>1. demod \in i2c_clt
      BY <1>1, <2>1, ProbeOrder
    <3>2. chip = demod \/ chip = TunerOf(demod)
      BY <1>1, <3>1
    <3> QED BY <1>1, <2>1, <3>2, ProbeOrder DEF Demods, TunerOf
  <2>2. CASE demod \notin clients
    <3>1. chip = "demod_s" /\ demod = "demod_s" /\ clients' = {"demod_s"}
      BY <1>1, <2>2, ProbeOrder
    <3> QED BY <3>1 DEF TunerOf
  <2> QED BY <2>1, <2>2
<1> QED BY <1>1, <1>3, <1>4, <1>5 DEF IInv, DemodsReleased

LEMMA CoreInitKeeps == ASSUME IInv, CoreInit PROVE IInv'
<1> USE DEF CoreInit, Goto, download, attached
<1>1. TypeOK'
  BY DEF IInv, TypeOK, Places
<1>2. Present' /\ WarmRuns' /\ RunsWholeImages' /\ StartedIfGood' /\ Loading'
  BY DEF IInv, Present, WarmRuns, RunsWholeImages, StartedIfGood, Loading, Downloading
<1>3. Registered' /\ DemodsReleased'
  BY DEF IInv, Registered, Found, DemodsReleased
<1> QED BY <1>1, <1>2, <1>3 DEF IInv

\* Disconnect is this step once the device has gone.
LEMMA UnbindKeeps == ASSUME IInv, Unbind PROVE IInv'
<1> USE DEF Unbind, Goto, download, attached
<1>1. TypeOK'
  BY DEF IInv, TypeOK, Places
<1>2. Present' /\ WarmRuns' /\ RunsWholeImages' /\ StartedIfGood' /\ Loading'
  BY DEF IInv, Present, WarmRuns, RunsWholeImages, StartedIfGood, Loading, Downloading
<1>3. Registered' /\ DemodsReleased'
  BY DEF IInv, Registered, Found, DemodsReleased
<1> QED BY <1>1, <1>2, <1>3 DEF IInv

LEMMA FrontendDetachKeeps == ASSUME IInv, FrontendDetach PROVE IInv'
<1> USE DEF FrontendDetach, Goto, download
<1>1. TypeOK'
  BY DEF IInv, TypeOK, Places
<1>2. Present' /\ WarmRuns' /\ RunsWholeImages' /\ StartedIfGood' /\ Loading'
  BY DEF IInv, Present, WarmRuns, RunsWholeImages, StartedIfGood, Loading, Downloading
<1>3. Registered'
  BY DEF Registered
<1>4. DemodsReleased'
  BY DEF IInv, Registered, DemodsReleased
<1> QED BY <1>1, <1>2, <1>3, <1>4 DEF IInv

LEMMA StutterKeeps == ASSUME IInv, UNCHANGED vars PROVE IInv'
<1> USE DEF vars, download, attached
<1>1. TypeOK'
  BY DEF IInv, TypeOK
<1>2. Present' /\ WarmRuns' /\ RunsWholeImages' /\ StartedIfGood'
  BY DEF IInv, Present, WarmRuns, RunsWholeImages, StartedIfGood
<1>3. Loading'
  BY DEF IInv, Loading, Downloading, Complete
<1> QED BY <1>1, <1>2, <1>3, DriverUnchanged DEF IInv

-----------------------------------------------------------------------------
(* The theorems. *)

THEOREM Inductive == Spec => []IInv
<1>1. ASSUME IInv, [Next]_vars PROVE IInv'
  <2>1. CASE User
    BY <1>1, <2>1, PlugKeeps, UnplugKeeps, BindKeeps, UnbindKeeps DEF User, Rebind
  <2>2. CASE Device
    BY <1>1, <2>2, BootKeeps, ReconnectKeeps DEF Device
  <2>3. CASE Driver
    <3>1. CASE Probe \/ Identify \/ NoFirmware
      BY <1>1, <3>1, BindKeeps, IdentifyKeeps, NoFirmwareKeeps DEF Probe
    <3>2. CASE CpuStop \/ LoadRecord \/ LoadEnds \/ CpuRun
      BY <1>1, <3>2, CpuStopKeeps, LoadRecordKeeps, LoadEndsKeeps, CpuRunKeeps
    <3>3. CASE TransferInit \/ CoreInit \/ Disconnect \/ FrontendDetach
      BY <1>1, <3>3, TransferInitKeeps, CoreInitKeeps, UnbindKeeps, FrontendDetachKeeps
      DEF Disconnect
    <3>4. CASE \E chip \in Chips : ProbeChip(chip) \/ ProbeChipFails(chip)
      BY <1>1, <3>4, ProbeChipKeeps, ProbeChipFailsKeeps
    <3> QED BY <2>3, <3>1, <3>2, <3>3, <3>4 DEF Driver
  <2>4. CASE UNCHANGED vars
    BY <1>1, <2>4, StutterKeeps
  <2> QED BY <1>1, <2>1, <2>2, <2>3, <2>4 DEF Next
<1> QED BY <1>1, InitIInv, PTL DEF Spec

(***************************************************************************)
(* Every state of a bring-up is one of the types of TypeOK: the walk never *)
(* reads behind the end of the image, and faults stay within their bound.  *)
(***************************************************************************)
THEOREM TypeCorrect == Spec => []TypeOK
<1>1. IInv => TypeOK
  BY DEF IInv
<1> QED BY <1>1, Inductive, PTL

(***************************************************************************)
(* download_firmware and the firmware's own start never run a CPU on part  *)
(* of an image, whatever images there are and however many transfers fail. *)
(***************************************************************************)
THEOREM ImagesAreWhole == Spec => []RunsWholeImages
<1>1. IInv => RunsWholeImages
  BY DEF IInv
<1> QED BY <1>1, Inductive, PTL

(***************************************************************************)
(* When download_firmware returns 0 for a device that is still there, or   *)
(* identify_state says warm, its CPU has been started.                     *)
(***************************************************************************)
THEOREM GoodIsStarted == Spec => []StartedIfGood
<1>1. IInv => StartedIfGood
  BY DEF IInv
<1> QED BY <1>1, Inductive, PTL

(***************************************************************************)
(* After frontend_detach no demodulator that was probed with its tuner is  *)
(* still registered, and a device that is up has all four chips.           *)
(***************************************************************************)
THEOREM DemodsAreReleased == Spec => []DemodsReleased
<1>1. IInv => DemodsReleased
  BY DEF IInv
<1> QED BY <1>1, Inductive, PTL
=============================================================================
