------------------------------ MODULE Stv6110x ------------------------------
(***************************************************************************)
(* The driver of the satellite tuner (stv6110x.c): a cache of the chip's   *)
(* registers, and operations that change the cache and write parts of it.  *)
(*                                                                         *)
(* A register is a record of the fields the driver sets.  Left out: CTRL2, *)
(* STAT2 and STAT3, which keep their defaults, and the lock bit of STAT1,  *)
(* which is only reported.  The frontend calls one operation at a time.    *)
(*                                                                         *)
(* A write may be reported as failed, whatever the chip has taken of it;   *)
(* and it may be reported as done although the chip has refused it, since  *)
(* the firmware tells nobody.                                              *)
(***************************************************************************)
EXTENDS Integers, Sequences

CONSTANTS
  Frequencies, \* in kHz
  Bandwidths,  \* in Hz
  TRIALS       \* 10 in the code

ASSUME FrequencyAssumption ==
  \A f \in Frequencies : f \in Nat /\ 950000 <= f /\ f <= 2150000
ASSUME BandwidthAssumption == Bandwidths \subseteq Nat
ASSUME TrialsAssumption    == TRIALS \in Nat \ {0}

VARIABLES
  stv_regs,    \* the cache
  stv_chip,    \* no variable of the driver: the registers of the chip
  stv_at,      \* where set_params is, "idle" outside it
  stv_trial,   \* i of the polling loops
  stv_request, \* what set_params was last asked for
  stv_tuned,   \* it has returned 0 and the tuner has not been put to sleep since
  stv_intact   \* no variable of the driver: nothing has gone wrong on the bus
               \* since it began

stv_vars == <<stv_regs, stv_chip, stv_at, stv_trial, stv_request, stv_tuned,
              stv_intact>>

\* The registers in the order of their addresses.
StvOrder == <<"CTRL1", "TNG0", "TNG1", "CTRL3", "STAT1">>

default_regs ==
  [CTRL1 |-> TRUE, \* awake: SYN, RX and LPT, which change together
   TNG0  |-> 220,
   TNG1  |-> [r_div |-> 2, presc32 |-> FALSE, div4sel |-> 0, n_div |-> 5],
   CTRL3 |-> [cf |-> 23, rcclk_off |-> FALSE],
   STAT1 |-> [vco |-> FALSE, rc |-> FALSE]] \* the calibrations to be started

StvRequests == [frequency : Frequencies, bandwidth : Bandwidths]

\* The chip holds anything when the driver is probed, asleep or awake.
StvInit ==
  /\ stv_regs = default_regs
  /\ stv_chip \in {default_regs, [default_regs EXCEPT !.CTRL1 = FALSE, !.TNG0 = 0]}
  /\ stv_at = "idle" /\ stv_trial = 0
  /\ stv_request \in StvRequests
  /\ stv_tuned = FALSE /\ stv_intact = FALSE

-----------------------------------------------------------------------------
(* The arithmetic of set_frequency, get_frequency and set_bandwidth. *)

REFCLOCK_kHz == 16000

R_DIV(div) == <<2, 4, 8, 16>>[div + 1]

\* Slip: the limit of the prescaler taken for that of the divider.
PValPrescaled(f) == IF f <= 1023000 THEN 40 ELSE 20

PVal(f) == IF f <= 1300000 THEN 40 ELSE 20

PCalc(div) == (REFCLOCK_kHz \div 100) \div R_DIV(div)

Distance(a, b) == IF a < b THEN b - a ELSE a - b

\* One round of the loop: the candidate, if it is nearer to pVal.
Nearer(f, best, div) ==
  IF Distance(PCalc(div), PVal(f)) < Distance(PCalc(best), PVal(f)) THEN div ELSE best

RDivOpt(f) == Nearer(f, Nearer(f, Nearer(f, 0, 1), 2), 3)

\* Slip: the rounding without the division.
DividerTenfold(f) == (f * R_DIV(RDivOpt(f)) * PVal(f)) \div REFCLOCK_kHz + 5

Divider(f) == ((f * R_DIV(RDivOpt(f)) * PVal(f)) \div REFCLOCK_kHz + 5) \div 10

Prescaled(f) == IF f <= 1300000 THEN f > 1023000 ELSE f > 2046000

\* SETFIELD masks what it replaces and not the new value.
Retuned(regs, f) ==
  [regs EXCEPT
     !.TNG0 = Divider(f) % 256,
     !.TNG1 = [r_div   |-> RDivOpt(f),
               presc32 |-> Prescaled(f),
               div4sel |-> IF f <= 1300000 THEN 1 ELSE 0,
               n_div   |-> (Divider(f) \div 256) % 256],
     !.STAT1 = [vco |-> TRUE, rc |-> regs.STAT1.rc]]

FrequencyOf(regs) ==
  (((256 * regs.TNG1.n_div + regs.TNG0) * REFCLOCK_kHz)
     \div <<1, 2, 4, 8, 16>>[regs.TNG1.r_div + regs.TNG1.div4sel + 1]) \div 4

FilterCode(bandwidth) ==
  LET halfbw == bandwidth \div 2 IN
  IF halfbw > 36000000 THEN 31
  ELSE IF halfbw < 5000000 THEN 0 ELSE halfbw \div 1000000 - 5

Refiltered(regs, bandwidth) ==
  [regs EXCEPT !.CTRL3 = [cf |-> FilterCode(bandwidth), rcclk_off |-> FALSE],
               !.STAT1 = [vco |-> regs.STAT1.vco, rc |-> TRUE]]

-----------------------------------------------------------------------------
(* Transfers. *)

\* The cache becomes regs and its registers rs are written; the chip takes the
\* first of them, in the good case all, and the driver is told ok.
Write(regs, rs, ok) ==
  \E taken \in 0..Len(rs) :
    /\ stv_regs' = regs
    /\ stv_chip' = [r \in DOMAIN stv_chip |->
                      IF \E i \in 1..taken : rs[i] = r THEN regs[r] ELSE stv_chip[r]]
    /\ stv_intact' = (stv_intact /\ ok /\ taken = Len(rs))

\* Of the registers rs those that could be read are now in the cache.
Read(rs) ==
  /\ \E got \in SUBSET rs :
       stv_regs' = [r \in DOMAIN stv_regs |->
                      IF r \in got THEN stv_chip[r] ELSE stv_regs[r]]
  /\ UNCHANGED <<stv_chip, stv_intact>>

\* A calibration ends whenever the chip sees fit.
CalibrationEnds ==
  /\ \E c \in {"vco", "rc"} : /\ stv_chip.STAT1[c]
                              /\ stv_chip' = [stv_chip EXCEPT !.STAT1[c] = FALSE]
  /\ UNCHANGED <<stv_regs, stv_at, stv_trial, stv_request, stv_tuned, stv_intact>>

-----------------------------------------------------------------------------
(* set_params: everything is written once, then the frequency is set and the *)
(* VCO calibrated, then the bandwidth is set and the filter calibrated.      *)

SetParams(request) ==
  /\ stv_at = "idle"
  /\ stv_at' = "init"
  /\ stv_request' = request
  /\ stv_regs' = default_regs
  /\ stv_tuned' = FALSE /\ stv_intact' = TRUE
  /\ UNCHANGED <<stv_chip, stv_trial>>

\* The only step whose failure is reported.
InitRegs ==
  /\ stv_at = "init"
  /\ \E ok \in BOOLEAN : /\ Write(stv_regs, StvOrder, ok)
                         /\ stv_at' = IF ok THEN "frequency" ELSE "idle"
  /\ UNCHANGED <<stv_trial, stv_request, stv_tuned>>

\* The register each step writes, and the step that follows.
Written == [frequency |-> "CTRL1", TNG1 |-> "TNG1", TNG0 |-> "TNG0",
            calvco |-> "STAT1", bandwidth |-> "CTRL3", calrc |-> "STAT1",
            caldone |-> "CTRL3"]

\* Slip: the calibration is started before the second half of the divider.
StepAfterHasty(at) ==
  [frequency |-> "TNG1", TNG1 |-> "calvco", calvco |-> "TNG0", TNG0 |-> "vco",
   bandwidth |-> "calrc", calrc |-> "rc", caldone |-> "idle"][at]

StepAfter(at) ==
  [frequency |-> "TNG1", TNG1 |-> "TNG0", TNG0 |-> "calvco", calvco |-> "vco",
   bandwidth |-> "calrc", calrc |-> "rc", caldone |-> "idle"][at]

\* The cache as a step changes it before it writes.
Prepared ==
  CASE stv_at = "frequency" -> Retuned(stv_regs, stv_request.frequency)
    [] stv_at = "bandwidth" -> Refiltered(stv_regs, stv_request.bandwidth)
    [] stv_at = "caldone"   -> [stv_regs EXCEPT !.CTRL3.rcclk_off = TRUE]
    [] OTHER                -> stv_regs

\* A step of set_frequency or set_bandwidth, which ignore what they are told.
WriteReg ==
  /\ stv_at \in DOMAIN Written
  /\ \E ok \in BOOLEAN : Write(Prepared, <<Written[stv_at]>>, ok)
  /\ stv_at' = StepAfter(stv_at)
  /\ stv_tuned' = (stv_at = "caldone")
  /\ stv_trial' = 0
  /\ UNCHANGED stv_request

\* Slip: polling until the calibration has ended.
PollForever(calibration, next) ==
  /\ stv_at = calibration
  /\ Read({"STAT1"})
  /\ stv_at' = IF stv_regs'.STAT1[calibration] THEN calibration ELSE next
  /\ UNCHANGED <<stv_trial, stv_request, stv_tuned>>

Poll(calibration, next) ==
  /\ stv_at = calibration
  /\ Read({"STAT1"})
  /\ LET again == stv_regs'.STAT1[calibration] /\ stv_trial + 1 < TRIALS IN
       /\ stv_at' = IF again THEN calibration ELSE next
       /\ stv_trial' = IF again THEN stv_trial + 1 ELSE 0
  /\ UNCHANGED <<stv_request, stv_tuned>>

StvWork == InitRegs \/ WriteReg \/ Poll("vco", "bandwidth") \/ Poll("rc", "caldone")

-----------------------------------------------------------------------------
(* The other operations. *)

\* stv6110x_init, when the frontend is opened.
Initialise ==
  /\ stv_at = "idle"
  /\ \E ok \in BOOLEAN : Write(stv_regs, StvOrder, ok)
  /\ UNCHANGED <<stv_at, stv_trial, stv_request, stv_tuned>>

\* Slip: the register is written before the cache is changed.
SleepLate ==
  /\ stv_at = "idle"
  /\ \E taken \in BOOLEAN : /\ stv_chip' = IF taken THEN [stv_chip EXCEPT !.CTRL1 = stv_regs.CTRL1]
                                                    ELSE stv_chip
                           /\ stv_intact' = (stv_intact /\ taken)
  /\ stv_regs' = [stv_regs EXCEPT !.CTRL1 = FALSE]
  /\ stv_tuned' = FALSE
  /\ UNCHANGED <<stv_at, stv_trial, stv_request>>

Sleep ==
  /\ stv_at = "idle"
  /\ \E ok \in BOOLEAN : Write([stv_regs EXCEPT !.CTRL1 = FALSE], <<"CTRL1">>, ok)
  /\ stv_tuned' = FALSE
  /\ UNCHANGED <<stv_at, stv_trial, stv_request>>

\* get_frequency, get_bandwidth and get_status read into the cache.
Query ==
  /\ stv_at = "idle"
  /\ \E rs \in {{"TNG1", "TNG0"}, {"CTRL3"}, {"STAT1"}} : Read(rs)
  /\ UNCHANGED <<stv_at, stv_trial, stv_request, stv_tuned>>

\* The client is removed, its state freed, and probed anew.
StvProbe ==
  /\ stv_at = "idle"
  /\ stv_regs' = default_regs
  /\ stv_tuned' = FALSE /\ stv_intact' = FALSE
  /\ UNCHANGED <<stv_chip, stv_at, stv_trial, stv_request>>

StvNext ==
  \/ \E request \in StvRequests : SetParams(request)
  \/ StvWork \/ Initialise \/ Sleep \/ Query \/ StvProbe \/ CalibrationEnds

\* A call runs on; no call has to be made and no calibration has to end.
StvSpec == StvInit /\ [][StvNext]_stv_vars /\ WF_stv_vars(StvWork)

-----------------------------------------------------------------------------

StvRegs ==
  [CTRL1 : BOOLEAN,
   TNG0  : 0..255,
   TNG1  : [r_div : 0..3, presc32 : BOOLEAN, div4sel : 0..1, n_div : 0..15],
   CTRL3 : [cf : 0..31, rcclk_off : BOOLEAN],
   STAT1 : [vco : BOOLEAN, rc : BOOLEAN]]

\* In particular no value runs out of its field into the next.
TypeOKStv ==
  /\ stv_regs \in StvRegs /\ stv_chip \in StvRegs
  /\ stv_at \in {"idle", "init", "vco", "rc"} \cup DOMAIN Written
  /\ stv_trial \in 0..TRIALS - 1
  /\ stv_request \in StvRequests
  /\ stv_tuned \in BOOLEAN /\ stv_intact \in BOOLEAN

\* The synthesizer is tuned to f, to the megahertz its divider can express.
TunedTo(regs, f) == Distance(FrequencyOf(regs), f) <= 500

\* The widest setting within half the bandwidth, or the first or last there is.
FilterFits(cf, bandwidth) ==
  LET halfbw == bandwidth \div 2 IN
  /\ cf > 0  => (cf + 5) * 1000000 <= halfbw
  /\ cf < 31 => halfbw < (cf + 6) * 1000000

(***************************************************************************)
(* Outside set_params the control registers of the chip are what the cache *)
(* says, through sleeping, opening and reading back, until a transfer goes *)
(* wrong; and the next set_params repairs what has gone wrong.             *)
(***************************************************************************)
CacheAgrees ==
  stv_at = "idle" /\ stv_intact =>
    \A r \in {"CTRL1", "TNG0", "TNG1", "CTRL3"} : stv_chip[r] = stv_regs[r]

(***************************************************************************)
(* A set_params that has returned 0, with nothing gone wrong on the way,   *)
(* leaves the chip awake, tuned to the frequency asked for (as get_        *)
(* frequency reads it), with the filter for its bandwidth and the clock of *)
(* the calibration off, whatever state it found the chip in.               *)
(***************************************************************************)
TunedAsAsked ==
  stv_at = "idle" /\ stv_tuned /\ stv_intact =>
    /\ stv_chip.CTRL1
    /\ TunedTo(stv_chip, stv_request.frequency)
    /\ FilterFits(stv_chip.CTRL3.cf, stv_request.bandwidth)
    /\ stv_chip.CTRL3.rcclk_off

(***************************************************************************)
(* Within set_params a calibration starts only when what it calibrates is  *)
(* in place: the VCO with both halves of the divider, the filter with its  *)
(* setting and its clock on.  This covers a stale start bit as well that   *)
(* the cache has kept from a calibration that did not end in time.         *)
(***************************************************************************)
CalibratesInOrder ==
  [][stv_at # "idle" /\ stv_intact' =>
       /\ ~stv_chip.STAT1.vco /\ stv_chip'.STAT1.vco =>
            TunedTo(stv_chip', stv_request.frequency)
       /\ ~stv_chip.STAT1.rc /\ stv_chip'.STAT1.rc =>
            /\ FilterFits(stv_chip'.CTRL3.cf, stv_request.bandwidth)
            /\ ~stv_chip'.CTRL3.rcclk_off]_stv_vars

(***************************************************************************)
(* set_params returns, also when a calibration never ends or the bus is    *)
(* dead: the frontend thread holds mutex_fe meanwhile.                     *)
(***************************************************************************)
StvReturns == stv_at # "idle" ~> stv_at = "idle"
=============================================================================
