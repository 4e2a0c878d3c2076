---------------------------- MODULE DeviceBringup ----------------------------
(***************************************************************************)
(* How a receiver comes up: the driver identifies it, downloads the        *)
(* firmware into a cold one and starts its CPU, the firmware may leave the *)
(* bus and come back, and the driver attaches demodulators and tuners,     *)
(* until the device is taken away and they are detached.                   *)
(*                                                                         *)
(* The firmware image is a sequence of records, of which only the kind is  *)
(* kept.  External, from their use: the USB core, which probes a device    *)
(* after it is through with its predecessor; the DVB core, which goes on   *)
(* to attach after a download that returned 0 and detaches what an attach  *)
(* began; and RENUMERATE of fx2lib, which leaves the bus unless the FX2    *)
(* has done so since it was powered, the CPU reset in between regardless.  *)
(***************************************************************************)
EXTENDS Integers, Sequences

CONSTANTS
  Images,   \* what akb_pcr20x.fw may hold
  MaxFaults \* bound of the model on what goes wrong

\* A record before the last that writes 0 to FX2_REG_CPU_RESET, which would start the
\* CPU on what is there, is none of them: the format as the driver describes it starts
\* the CPU with the last record only.
Kinds == {"data",   \* code or data for the FX2
          "end",    \* the last record, which starts nothing
          "endrun", \* the last record, a write of 0 to FX2_REG_CPU_RESET
          "cut",    \* a record the file ends in
          "stub"}   \* up to three bytes behind the last record
Pids == {"8613", "1004"}

ASSUME ImageAssumption ==
  Images \subseteq [records : Seq(Kinds), short : BOOLEAN, pid : Pids]
\* A file that is not too short starts with the header of a record; the walk ends
\* at the first record that is not a plain one, and what follows is not kept.
ASSUME WalkAssumption ==
  \A i \in Images : i.short
    \/ /\ i.records # <<>> /\ i.records[1] # "stub"
       /\ \A k \in 1..Len(i.records) - 1 : i.records[k] = "data"
ASSUME FaultAssumption == MaxFaults \in Nat

VARIABLES
  fx2,    \* the device: plugged, on the bus, its product id, whether it has
          \* renumerated, what its CPU does, how much of an image it holds
  host,   \* where the driver is with it
  alive,  \* the device the driver talks to is still there
  image, record, cpu_run, \* of download_firmware
  i2c_clt, \* the clients the driver remembers
  clients, \* no variable of the driver: the clients that are registered
  faults   \* no variable of the code

download == <<image, record, cpu_run>>
attached == <<i2c_clt, clients>>
vars == <<fx2, host, alive, download, attached, faults>>

Chips  == {"demod_s", "tuner_s", "demod_t", "tuner_t"}
Demods == {"demod_s", "demod_t"}
TunerOf(demod) == IF demod = "demod_s" THEN "tuner_s" ELSE "tuner_t"
NoImage == [records |-> <<>>, short |-> TRUE, pid |-> "8613"]
Unplugged == [plugged |-> FALSE, on |-> FALSE, pid |-> "8613", renum |-> FALSE,
              cpu |-> "none", ram |-> "empty"]

Init ==
  /\ fx2 = Unplugged /\ host = "none" /\ alive = FALSE
  /\ image = NoImage /\ record = 1 /\ cpu_run = FALSE
  /\ i2c_clt = {} /\ clients = {} /\ faults = 0

Fault == faults < MaxFaults /\ faults' = faults + 1

-----------------------------------------------------------------------------
(* The device. *)

Plug ==
  /\ ~fx2.plugged
  /\ fx2' = [Unplugged EXCEPT !.plugged = TRUE, !.on = TRUE, !.cpu = "loader"]
  /\ UNCHANGED <<host, alive, download, attached, faults>>

Unplug ==
  /\ fx2.plugged /\ Fault
  /\ fx2' = Unplugged /\ alive' = FALSE
  /\ UNCHANGED <<host, download, attached>>

\* Slip: RENUMERATE_UNCOND, the macro without the condition.
BootAlwaysLeaving ==
  /\ fx2.cpu = "boot"
  /\ fx2' = [fx2 EXCEPT !.cpu = "firmware", !.on = FALSE, !.renum = TRUE,
                        !.pid = image.pid]
  /\ alive' = FALSE
  /\ UNCHANGED <<host, download, attached, faults>>

\* main: main_init, then RENUMERATE.
Boot ==
  /\ fx2.cpu = "boot"
  /\ \/ /\ fx2.renum
        /\ fx2' = [fx2 EXCEPT !.cpu = "firmware"]
        /\ UNCHANGED alive
     \/ /\ ~fx2.renum
        /\ fx2' = [fx2 EXCEPT !.cpu = "firmware", !.on = FALSE, !.renum = TRUE,
                              !.pid = image.pid]
        /\ alive' = FALSE
  /\ UNCHANGED <<host, download, attached, faults>>

Reconnect ==
  /\ fx2.plugged /\ ~fx2.on
  /\ fx2' = [fx2 EXCEPT !.on = TRUE]
  /\ UNCHANGED <<host, alive, download, attached, faults>>

-----------------------------------------------------------------------------
(* The driver. *)

Goto(place) == host' = place

\* The driver is bound to a device, with a new struct akb_pcr20x; a CPU started
\* before has booted by then.
Bind ==
  /\ host = "none" /\ fx2.on /\ fx2.cpu # "boot"
  /\ Goto("identify") /\ alive' = TRUE
  /\ i2c_clt' = {} /\ clients' = {}
  /\ UNCHANGED <<fx2, download, faults>>

\* The USB core finds a device on the bus; somebody binds the driver once more
\* to a device whose probe failed.
Probe  == ~alive /\ Bind
Rebind == alive /\ Bind

\* A transfer that has its effect, given as the device's next state.
Transfer(effect) ==
  /\ alive
  /\ fx2' = effect
  /\ UNCHANGED <<alive, faults>>

\* A transfer that is reported as failed, with or without its effect.
TransferFails(effect) ==
  /\ \/ ~alive /\ UNCHANGED <<fx2, faults>>
     \/ alive /\ Fault /\ fx2' \in {fx2, effect}
  /\ UNCHANGED alive

\* Slip: the walk through the image resumes where the last one ended.
IdentifyResuming ==
  /\ host = "identify"
  /\ UNCHANGED record /\ cpu_run' = FALSE
  /\ \/ fx2.pid = "1004" /\ Goto("transfer_init") /\ UNCHANGED <<image, faults>>
     \/ /\ fx2.pid = "8613"
        /\ \E i \in Images :
             /\ image' = i
             /\ UNCHANGED faults
             /\ Goto(IF i.short THEN "none" ELSE "cpu_stop")
  /\ UNCHANGED <<fx2, alive, attached>>

\* identify_state; the DVB core loads the file for a cold device.
Identify ==
  /\ host = "identify"
  /\ record' = 1 /\ cpu_run' = FALSE
  /\ \/ fx2.pid = "1004" /\ Goto("transfer_init") /\ UNCHANGED <<image, faults>>
     \/ /\ fx2.pid = "8613"
        /\ \E i \in Images :
             /\ image' = i
             /\ IF i.short \/ \E k \in DOMAIN i.records : i.records[k] = "cut"
                THEN Fault ELSE UNCHANGED faults
             /\ Goto(IF i.short THEN "none" ELSE "cpu_stop")
  /\ UNCHANGED <<fx2, alive, attached>>

\* kmalloc and request_firmware, the failures before the first transfer.
NoFirmware ==
  /\ host = "identify" /\ fx2.pid = "8613" /\ Fault
  /\ Goto("none")
  /\ UNCHANGED <<fx2, alive, download, attached>>

CpuStop ==
  LET halted == [fx2 EXCEPT !.cpu = "reset", !.ram = "part"] IN
  /\ host = "cpu_stop"
  /\ \/ Transfer(halted) /\ Goto("load")
     \/ TransferFails(halted) /\ Goto("none")
  /\ UNCHANGED <<download, attached>>

Kind == image.records[record]
Left == record <= Len(image.records) /\ Kind # "stub"
Last == \A k \in record + 1..Len(image.records) : image.records[k] = "stub"

\* The device after the record has been written.
Written ==
  [fx2 EXCEPT !.ram = IF Last THEN "whole" ELSE "part",
              !.cpu = IF Kind = "endrun" THEN "boot" ELSE @]

\* Slip: a record that is cut off ends the walk like the end of the file.
LoadRecordCut ==
  /\ host = "load" /\ Left
  /\ \/ /\ Kind = "cut" /\ Goto("cpu_run")
        /\ UNCHANGED <<fx2, alive, record, cpu_run, faults>>
     \/ /\ Kind # "cut" /\ Transfer(Written)
        /\ record' = record + 1 /\ cpu_run' = (Kind = "endrun")
        /\ Goto(IF Kind \in {"end", "endrun"} THEN "cpu_run" ELSE "load")
     \/ /\ Kind # "cut" /\ TransferFails(Written)
        /\ Goto("none") /\ UNCHANGED <<record, cpu_run>>
  /\ UNCHANGED <<image, attached>>

LoadRecord ==
  /\ host = "load" /\ Left
  /\ \/ /\ Kind = "cut" /\ Goto("none")
        /\ UNCHANGED <<fx2, alive, record, cpu_run, faults>>
     \/ /\ Kind # "cut" /\ Transfer(Written)
        /\ record' = record + 1 /\ cpu_run' = (Kind = "endrun")
        /\ Goto(IF Kind \in {"end", "endrun"} THEN "cpu_run" ELSE "load")
     \/ /\ Kind # "cut" /\ TransferFails(Written)
        /\ Goto("none") /\ UNCHANGED <<record, cpu_run>>
  /\ UNCHANGED <<image, attached>>

\* The file has ended without a last record, or with less than the header of one.
LoadEnds ==
  /\ host = "load" /\ ~Left
  /\ Goto("cpu_run")
  /\ UNCHANGED <<fx2, alive, download, attached, faults>>

\* Slip: any last record is taken for a start of the CPU.
CpuRunSkipped ==
  /\ host = "cpu_run"
  /\ Goto("transfer_init") /\ UNCHANGED <<fx2, alive, faults>>
  /\ UNCHANGED <<download, attached>>

\* The CPU is started unless the last record has, and the core goes on.
CpuRun ==
  LET started == [fx2 EXCEPT !.cpu = "boot"] IN
  /\ host = "cpu_run"
  /\ \/ cpu_run /\ Goto("transfer_init") /\ UNCHANGED <<fx2, alive, faults>>
     \/ ~cpu_run /\ Transfer(started) /\ Goto("transfer_init")
     \/ ~cpu_run /\ TransferFails(started) /\ Goto("none")
  /\ UNCHANGED <<download, attached>>

\* frontend_attach: the frame the command loop has to take, after 100 ms in
\* which the firmware has come as far as RENUMERATE.
TransferInit ==
  /\ host = "transfer_init" /\ fx2.cpu # "boot"
  /\ \/ fx2.cpu = "firmware" /\ Transfer(fx2) /\ Goto("demod_s")
     \/ TransferFails(fx2) /\ Goto("detach")
  /\ UNCHANGED <<download, attached>>

\* What frontend_attach_s and frontend_attach_t probe next.
After(chip) == IF chip = "demod_s" THEN "tuner_s"
               ELSE IF chip = "tuner_s" THEN "demod_t"
               ELSE IF chip = "demod_t" THEN "tuner_t" ELSE "core_init"

ProbeChip(chip) ==
  /\ host = chip
  /\ Transfer(fx2)
  /\ i2c_clt' = i2c_clt \cup {chip} /\ clients' = clients \cup {chip}
  /\ Goto(After(chip))
  /\ UNCHANGED download

\* Slip: a tuner that is not found takes both demodulators along.
ProbeChipFailsForgetful(chip) ==
  /\ host = chip
  /\ TransferFails(fx2)
  /\ i2c_clt' = i2c_clt \ Demods
  /\ Goto("detach")
  /\ UNCHANGED <<download, clients>>

\* A demodulator whose tuner is not found is forgotten, not released; so is the
\* satellite one that is bound and has left its frontend NULL.
ProbeChipFails(chip) ==
  /\ host = chip
  /\ TransferFails(fx2)
  /\ i2c_clt' = i2c_clt \ {demod \in Demods : chip \in {demod, TunerOf(demod)}}
  /\ clients' \in {clients, clients \cup ({chip} \cap {"demod_s"})}
  /\ Goto("detach")
  /\ UNCHANGED download

\* The core registers the frontends and calls init.
CoreInit ==
  /\ host = "core_init"
  /\ Goto("up")
  /\ UNCHANGED <<fx2, alive, download, attached, faults>>

\* The driver is unbound: the device has gone, or somebody asks for it.
Unbind ==
  /\ host = "up"
  /\ Goto("detach")
  /\ UNCHANGED <<fx2, alive, download, attached, faults>>

Disconnect == ~alive /\ Unbind

FrontendDetach ==
  /\ host = "detach"
  /\ clients' = clients \ (i2c_clt \cap Demods)
  /\ i2c_clt' = i2c_clt \ Demods
  /\ Goto("none")
  /\ UNCHANGED <<fx2, alive, download, faults>>

Device == Boot \/ Reconnect
Driver ==
  \/ Probe \/ Identify \/ NoFirmware \/ CpuStop \/ LoadRecord \/ LoadEnds \/ CpuRun
  \/ TransferInit \/ CoreInit \/ Disconnect \/ FrontendDetach
  \/ \E chip \in Chips : ProbeChip(chip) \/ ProbeChipFails(chip)

User == Plug \/ Unplug \/ Rebind \/ Unbind

Next == User \/ Device \/ Driver

\* The firmware boots, the USB core probes what appears on the bus and the driver
\* goes on; nobody has to plug, unplug or bind.
Spec == Init /\ [][Next]_vars /\ WF_vars(Device) /\ WF_vars(Driver)

-----------------------------------------------------------------------------

Places == Chips \cup {"none", "identify", "cpu_stop", "load", "cpu_run",
                      "transfer_init", "core_init", "up", "detach"}

TypeOK ==
  /\ fx2 \in [plugged : BOOLEAN, on : BOOLEAN, pid : Pids, renum : BOOLEAN,
              cpu : {"none", "loader", "reset", "boot", "firmware"},
              ram : {"empty", "part", "whole"}]
  /\ host \in Places /\ alive \in BOOLEAN
  /\ image \in Images \cup {NoImage} /\ record \in 1..Len(image.records) + 1
  /\ cpu_run \in BOOLEAN
  /\ i2c_clt \subseteq Chips /\ clients \subseteq Chips
  /\ faults \in 0..MaxFaults

(***************************************************************************)
(* The CPU is never started on part of an image: not after a transfer that *)
(* failed, not on a file that is cut off in the data of a record, and not  *)
(* while an image is being written over an older one.  "whole" means every *)
(* record that can be read: the driver takes a file without its last       *)
(* record, or cut off within a header, for complete and starts the CPU.    *)
(***************************************************************************)
RunsWholeImages == fx2.cpu \in {"boot", "firmware"} => fx2.ram = "whole"

(***************************************************************************)
(* A download that the driver takes for good has started the CPU: no       *)
(* frame is sent to a device that is still held in reset.                  *)
(***************************************************************************)
StartedIfGood ==
  host = "transfer_init" /\ alive => fx2.cpu \in {"boot", "firmware"}

(***************************************************************************)
(* frontend_detach releases every demodulator that was probed with its     *)
(* tuner.  One whose tuner was not found, or that came without a frontend, *)
(* stays registered: frontend_attach_s and _t forget it, and no doc says   *)
(* what becomes of it.  A device that is up has all four.                  *)
(***************************************************************************)
DemodsReleased ==
  /\ host = "none" => \A demod \in Demods \cap clients : TunerOf(demod) \notin clients
  /\ host = "up" => i2c_clt = Chips

(***************************************************************************)
(* Whatever went wrong before, a device that is probed comes up once       *)
(* nothing goes wrong any more: also one that still identifies itself as   *)
(* cold with the firmware running and is loaded a second time.             *)
(***************************************************************************)
ComesUp == host = "identify" /\ alive /\ faults = MaxFaults ~> host = "up"
=============================================================================
