------------------------------ MODULE Mxl5007t ------------------------------
(***************************************************************************)
(* The driver of the terrestrial tuner (mxl5007t.c).  Two tables of        *)
(* registers are computed for each call of set_params and written one      *)
(* register after another; the state of the driver is an instance that is  *)
(* found by the adapter and address of the chip and counted by its users   *)
(* (tuner-i2c.h).                                                          *)
(*                                                                         *)
(* Left out: the rows of the tables that are marked OVERRIDE, constants    *)
(* nothing is computed for; delays; the I2C gate, which TC90522 lacks; the *)
(* chip's revision and lock bits, which are only reported.  The frontend   *)
(* calls one operation at a time.  A write fails as in Stv6110x.           *)
(***************************************************************************)
EXTENDS Integers, SequencesExt

CONSTANTS
  MxlRequests, \* what set_params may be asked for
  MxlConfig,   \* struct mxl5007t_config
  MaxFaults    \* bound of the model on what goes wrong

Systems == {"ATSC", "DVBC_ANNEX_B", "DVBT", "DVBT2", "ISDBT", "DVBS2"}
Widths  == {0, 6, 7, 8} \* bandwidth_hz in MHz, 0 for another one

ASSUME RequestAssumption ==
  \A request \in MxlRequests : request \in [delsys : Systems, freq : Nat, bw : Widths]
ASSUME ConfigAssumption ==
  MxlConfig \in [if_diff_out_level : 0..8, clk_out_amp : 0..7, xtal : 0..13,
                 if_freq : 0..10, invert_if : 0..1, loop_thru_enable : 0..1,
                 clk_out_enable : 0..1]
ASSUME FaultAssumption == MaxFaults \in Nat

VARIABLES
  mxl_count,   \* i2c_props.count, 0 while there is no instance
  mxl_priv,    \* tuner_priv of the frontend is the instance
  mxl_client,  \* the client is bound, and keeps a pointer to the instance
  mxl_freq,    \* frequency and bandwidth of the last set_params
  mxl_at,      \* the operation under way, "idle" between calls
  mxl_rest,    \* what is left to be written of its table
  mxl_request, \* what set_params was last asked for
  mxl_tuned,   \* it has returned 0 and nothing has been written since
  mxl_chip,    \* no variable of the driver: the registers of the chip
  mxl_intact,  \* nor this: nothing has gone wrong on the bus since set_params began
  mxl_failed,  \* nor this: an attach to this instance has failed
  mxl_faults   \* nor this: how much has gone wrong

mxl_instance == <<mxl_count, mxl_priv, mxl_client, mxl_failed>>
mxl_tuning   == <<mxl_freq, mxl_request, mxl_tuned>>
mxl_bus      == <<mxl_chip, mxl_intact, mxl_faults>>
mxl_vars == <<mxl_instance, mxl_tuning, mxl_bus, mxl_at, mxl_rest>>

-----------------------------------------------------------------------------
(* The tables. *)

Row(reg, val) == [reg |-> reg, val |-> val]

init_tab ==
  <<Row(\h02, \h06), Row(\h03, \h48), Row(\h05, \h04), Row(\h06, \h10), Row(\h01, 1)>>

init_tab_cable ==
  <<Row(\h02, \h06), Row(\h03, \h48), Row(\h05, \h04), Row(\h06, \h10),
    Row(\h09, \h3f), Row(\h0a, \h3f), Row(\h0b, \h3f), Row(\h01, 1)>>

\* Slip: the abort in front of the start, and not of the table.
reg_pair_rftuneLate ==
  <<Row(\h0c, \h15), Row(\h0d, \h40), Row(\h0e, \h0e), Row(\h80, 1), Row(\h0f, 0),
    Row(\h0f, 1)>>

\* 0x0f stops the tuning and starts it.
reg_pair_rftune ==
  <<Row(\h0f, 0), Row(\h0c, \h15), Row(\h0d, \h40), Row(\h0e, \h0e), Row(\h80, 1),
    Row(\h0f, 1)>>

MxlRegs == {\h01, \h02, \h03, \h04, \h05, \h06, \h09, \h0a, \h0b, \h0c, \h0d, \h0e,
            \h0f, \h80}

\* The register with its bits lo to hi - 1 replaced by those of v, of which no
\* others are masked.
SetField(val, lo, hi, v) ==
  (val \div 2^hi) * 2^hi + v * 2^lo + (val % 2^lo)

set_reg_bits(tab, reg, lo, hi, v) ==
  [i \in DOMAIN tab |->
     IF tab[i].reg = reg THEN [tab[i] EXCEPT !.val = SetField(@, lo, hi, v)] ELSE tab[i]]

\* The first row of the register from row j on, one past the end if there is none.
SeekReg(tab, reg, j) ==
  LET k == SelectInSubSeq(tab, j, Len(tab), LAMBDA row : row.reg = reg) IN
  IF k = 0 THEN Len(tab) + 1 ELSE k

\* The cursor through the second table moves on with i and never back: where it
\* stands after each row of the first.
Cursor(tab1, tab2) ==
  LET j[i \in 0..Len(tab1)] ==
        IF i = 0 THEN 1 ELSE SeekReg(tab2, tab1[i].reg, j[i - 1])
  IN j

copy_reg_bits(tab1, tab2) ==
  LET j == Cursor(tab1, tab2) IN
  [k \in DOMAIN tab2 |->
     IF \E i \in DOMAIN tab1 : j[i] = k
     THEN tab1[CHOOSE i \in DOMAIN tab1 : j[i] = k] ELSE tab2[k]]

Mode(delsys) == IF delsys = "DVBT2" THEN "DVBT" ELSE delsys

ModeBits == [ATSC |-> \h12, DVBT |-> \h11, ISDBT |-> \h10, DVBC_ANNEX_B |-> \h10]

\* The code of the intermediate frequency is its place in the enumeration, but
\* that nothing has the code 1.
IfCode(if_freq) == IF if_freq = 0 THEN 0 ELSE if_freq + 1

CalcInitRegs(mode) ==
  LET cfg == MxlConfig
      a == set_reg_bits(init_tab, \h06, 0, 5, ModeBits[mode])
      b == set_reg_bits(a, \h02, 0, 5, 16 * cfg.invert_if + IfCode(cfg.if_freq))
      c == set_reg_bits(set_reg_bits(b, \h03, 4, 8, cfg.xtal), \h05, 0, 4, cfg.xtal)
      tab_init == set_reg_bits(c, \h03, 0, 4, 8 * cfg.clk_out_enable + cfg.clk_out_amp)
      tab_init_cable ==
        set_reg_bits(set_reg_bits(set_reg_bits(init_tab_cable, \h09, 0, 8, \hc1),
                                  \h0a, 0, 8, 8 - cfg.if_diff_out_level),
                     \h0b, 0, 8, \h17)
  IN IF mode = "DVBC_ANNEX_B" THEN copy_reg_bits(tab_init, tab_init_cable) ELSE tab_init

Bandwidth(request) == IF Mode(request.delsys) = "DVBT" THEN request.bw ELSE 6

BwBits(bw) == CASE bw = 6 -> \h15 [] bw = 7 -> \h2a [] bw = 8 -> \h3f

\* The fraction: one round of the loop, on the bits found so far, what is left of
\* the frequency and the weight of the last bit.
Halve(s) ==
  LET weight == s.weight \div 2 IN
  IF s.left > weight
  THEN [bits |-> 2 * s.bits + 1, left |-> s.left - weight, weight |-> weight]
  ELSE [bits |-> 2 * s.bits, left |-> s.left, weight |-> weight]

\* What the rounds of the loop come to.
Halvings(freq) ==
  LET s[i \in 0..6] ==
        IF i = 0
        THEN [bits |-> freq \div 1000000, left |-> freq % 1000000, weight |-> 1000000]
        ELSE Halve(s[i - 1])
  IN s

Fraction(freq) == Halvings(freq)[6]

\* Slip: a remainder of 7813 Hz, more than half a unit, is not rounded up.
DigRfFreqLow(freq) ==
  LET s == Fraction(freq) IN IF s.left > 7813 THEN s.bits + 1 ELSE s.bits

\* In units of 15.625 kHz, of which the registers take the last 16 bits.
DigRfFreq(freq) ==
  LET s == Fraction(freq) IN IF s.left > 7812 THEN s.bits + 1 ELSE s.bits

\* The upper band.
Upper(request) == request.freq >= 333000000

CalcRfTuneRegs(request) ==
  LET dig == DigRfFreq(request.freq)
      a == set_reg_bits(reg_pair_rftune, \h0c, 0, 6, BwBits(Bandwidth(request)))
      b == set_reg_bits(set_reg_bits(a, \h0d, 0, 8, dig % 256),
                        \h0e, 0, 8, (dig \div 256) % 256)
  IN IF Upper(request) THEN set_reg_bits(b, \h80, 6, 7, 1) ELSE b

-----------------------------------------------------------------------------
(* Transfers and the instance. *)

NoRequest == [delsys |-> "ISDBT", freq |-> 0, bw |-> 0]

Fault == mxl_faults < MaxFaults /\ mxl_faults' = mxl_faults + 1

\* The effect is had and reported, or silently refused; or reported as failed,
\* with or without it.
Transfer(effect, ok) ==
  \/ /\ ok
     /\ mxl_chip' = effect
     /\ UNCHANGED <<mxl_intact, mxl_faults>>
  \/ /\ Fault
     /\ mxl_chip' \in {mxl_chip, effect}
     /\ ok => mxl_chip' = mxl_chip
     /\ mxl_intact' = FALSE

WriteRow(row, ok) == Transfer([mxl_chip EXCEPT ![row.reg] = row.val], ok)

MxlInit ==
  /\ mxl_count = 0 /\ mxl_priv = FALSE /\ mxl_client = FALSE /\ mxl_failed = FALSE
  /\ mxl_freq = 0 /\ mxl_request = NoRequest /\ mxl_tuned = FALSE
  /\ mxl_at = "idle" /\ mxl_rest = <<>>
  /\ mxl_chip = [reg \in MxlRegs |-> 0] /\ mxl_intact = FALSE /\ mxl_faults = 0

\* hybrid_tuner_request_state, when the client is probed; a new instance is asked
\* for its revision first.
Attach ==
  /\ mxl_at = "idle" /\ ~mxl_client
  /\ mxl_count' = mxl_count + 1
  /\ mxl_at' = IF mxl_count = 0 THEN "chip_id" ELSE "reset"
  /\ mxl_failed' = (mxl_failed /\ mxl_count > 0)
  /\ mxl_freq' = IF mxl_count = 0 THEN 0 ELSE mxl_freq
  /\ UNCHANGED <<mxl_priv, mxl_client, mxl_request, mxl_tuned, mxl_bus, mxl_rest>>

\* An attach that fails calls release for a frontend without an instance.
AttachStep(at, effect, next) ==
  /\ mxl_at = at
  /\ mxl_tuned' = FALSE
  /\ \/ /\ Transfer(effect, TRUE)
        /\ mxl_at' = next
        /\ mxl_priv' = (next = "idle") /\ mxl_client' = (next = "idle")
        /\ UNCHANGED mxl_failed
     \/ /\ Transfer(effect, FALSE)
        /\ mxl_at' = "idle"
        /\ mxl_failed' = TRUE
        /\ UNCHANGED <<mxl_priv, mxl_client>>
  /\ UNCHANGED <<mxl_count, mxl_freq, mxl_request, mxl_rest>>

\* mxl5007t_get_chip_id, mxl5007t_soft_reset, loop_thru_enable.
AttachSteps ==
  \/ AttachStep("chip_id", mxl_chip, "reset")
  \/ AttachStep("reset", [reg \in MxlRegs |-> 0], "loop_thru")
  \/ AttachStep("loop_thru", [mxl_chip EXCEPT ![\h04] = MxlConfig.loop_thru_enable], "idle")

\* Slip: tuner_priv is not cleared, and the instance left again.
LeaveInstanceTwice ==
  /\ mxl_count' = IF mxl_priv THEN mxl_count - 1 ELSE mxl_count
  /\ mxl_tuned' = FALSE
  /\ UNCHANGED <<mxl_priv, mxl_failed, mxl_freq, mxl_request, mxl_bus, mxl_at, mxl_rest>>

\* mxl5007t_release: a frontend without an instance has nothing to release.
LeaveInstance ==
  /\ mxl_count' = IF mxl_priv THEN mxl_count - 1 ELSE mxl_count
  /\ mxl_priv' = FALSE
  /\ mxl_tuned' = FALSE
  /\ UNCHANGED <<mxl_failed, mxl_freq, mxl_request, mxl_bus, mxl_at, mxl_rest>>

\* As an operation of the tuner, when the DVB core lets go of the frontend.
MxlRelease == mxl_at = "idle" /\ LeaveInstance /\ UNCHANGED mxl_client

\* Slip: the removal takes its user off the count whatever tuner_priv is.
MxlRemoveAgain ==
  /\ mxl_at = "idle" /\ mxl_client
  /\ mxl_client' = FALSE /\ mxl_priv' = FALSE /\ mxl_tuned' = FALSE
  /\ mxl_count' = mxl_count - 1
  /\ UNCHANGED <<mxl_failed, mxl_freq, mxl_request, mxl_bus, mxl_at, mxl_rest>>

\* When the client is removed, before the other or after it.  The frontend is found
\* by way of the instance, which the other has freed if it was the last to leave it:
\* of what can become of that read, this is the case in which the memory is still as
\* it was.
MxlRemove ==
  /\ mxl_at = "idle" /\ mxl_client
  /\ mxl_client' = FALSE
  /\ LeaveInstance

-----------------------------------------------------------------------------
(* The operations of a tuner. *)

Supported(request) ==
  /\ request.delsys \in {"ATSC", "DVBC_ANNEX_B", "DVBT", "DVBT2", "ISDBT"}
  /\ Mode(request.delsys) = "DVBT" => request.bw \in {6, 7, 8}

\* A request that is not supported returns at once.
MxlSetParams(request) ==
  /\ mxl_at = "idle" /\ mxl_priv
  /\ Supported(request)
  /\ mxl_at' = "init"
  /\ mxl_rest' = CalcInitRegs(Mode(request.delsys))
  /\ mxl_request' = request /\ mxl_tuned' = FALSE /\ mxl_intact' = TRUE
  /\ UNCHANGED <<mxl_instance, mxl_freq, mxl_chip, mxl_faults>>

\* mxl5007t_write_regs stops at the first write that fails.
MxlWriteReg ==
  /\ mxl_rest # <<>>
  /\ \/ WriteRow(Head(mxl_rest), TRUE) /\ mxl_rest' = Tail(mxl_rest) /\ UNCHANGED mxl_at
     \/ WriteRow(Head(mxl_rest), FALSE) /\ mxl_rest' = <<>> /\ mxl_at' = "idle"
  /\ UNCHANGED <<mxl_instance, mxl_tuning>>

MxlTune ==
  /\ mxl_at = "init" /\ mxl_rest = <<>>
  /\ mxl_at' = "tune"
  /\ mxl_rest' = CalcRfTuneRegs(mxl_request)
  /\ UNCHANGED <<mxl_instance, mxl_tuning, mxl_bus>>

MxlTuned ==
  /\ mxl_at = "tune" /\ mxl_rest = <<>>
  /\ mxl_at' = "idle"
  /\ mxl_freq' = mxl_request.freq /\ mxl_tuned' = TRUE
  /\ UNCHANGED <<mxl_instance, mxl_request, mxl_bus, mxl_rest>>

\* mxl5007t_init.
MxlWake ==
  /\ mxl_at = "idle" /\ mxl_priv
  /\ \E ok \in BOOLEAN : WriteRow(Row(\h01, 1), ok)
  /\ UNCHANGED <<mxl_instance, mxl_tuning, mxl_at, mxl_rest>>

\* mxl5007t_sleep, the second write whatever became of the first.
MxlSleep ==
  /\ mxl_at = "idle" /\ mxl_priv
  /\ \E ok \in BOOLEAN : WriteRow(Row(\h01, 0), ok)
  /\ mxl_at' = "sleep" /\ mxl_tuned' = FALSE
  /\ UNCHANGED <<mxl_instance, mxl_freq, mxl_request, mxl_rest>>

MxlSleeps ==
  /\ mxl_at = "sleep"
  /\ \E ok \in BOOLEAN : WriteRow(Row(\h0f, 0), ok)
  /\ mxl_at' = "idle"
  /\ UNCHANGED <<mxl_instance, mxl_tuning, mxl_rest>>

MxlWork == AttachSteps \/ MxlWriteReg \/ MxlTune \/ MxlTuned \/ MxlSleeps

MxlNext ==
  \/ Attach \/ MxlRelease \/ MxlRemove \/ MxlWake \/ MxlSleep \/ MxlWork
  \/ \E request \in MxlRequests : MxlSetParams(request)

MxlSpec == MxlInit /\ [][MxlNext]_mxl_vars

-----------------------------------------------------------------------------

\* In particular each register is a byte, and a release has its attach.
TypeOKMxl ==
  /\ mxl_count \in 0..MaxFaults + 1
  /\ mxl_priv \in BOOLEAN /\ mxl_client \in BOOLEAN /\ mxl_failed \in BOOLEAN
  /\ mxl_request \in MxlRequests \cup {NoRequest}
  /\ mxl_freq \in {r.freq : r \in MxlRequests} \cup {0} /\ mxl_tuned \in BOOLEAN
  /\ mxl_at \in {"idle", "chip_id", "reset", "loop_thru", "init", "tune", "sleep"}
  /\ mxl_rest \in Seq([reg : MxlRegs, val : 0..255])
  /\ mxl_chip \in [MxlRegs -> 0..255]
  /\ mxl_intact \in BOOLEAN /\ mxl_faults \in 0..MaxFaults

\* Bits lo to hi - 1 of a register of the chip.
Field(reg, lo, hi) == (mxl_chip[reg] % 2^hi) \div 2^lo

\* No multiple of 15.625 kHz is nearer to the frequency.
Nearest(dig, freq) == dig * 15625 - freq \in -7812..7812

\* The frequencies whose multiple 16 bits can express.
Expressible(freq) == freq <= 65535 * 15625 + 7812

(***************************************************************************)
(* A set_params that has returned 0, with nothing gone wrong on the way,   *)
(* leaves the chip awake and tuning, at the multiple of 15.625 kHz nearest *)
(* to the frequency asked for, which is what get_frequency reports; with   *)
(* the width and mode of the request and the crystal, clock and            *)
(* intermediate frequency of the configuration, also in the table for      *)
(* cable, which gets them by copying; whatever another system has left in  *)
(* the registers.  Nothing checks a limit of the frequency: 16 bits of the *)
(* multiple go into the registers, and one that needs more tunes somewhere *)
(* else.                                                                   *)
(***************************************************************************)
TunedComplete ==
  LET request == mxl_request
      dig == 256 * mxl_chip[\h0e] + mxl_chip[\h0d] IN
  mxl_at = "idle" /\ mxl_tuned /\ mxl_intact =>
    /\ mxl_chip[\h01] = 1 /\ mxl_chip[\h0f] = 1
    /\ mxl_freq = request.freq
    /\ Expressible(mxl_freq) => Nearest(dig, mxl_freq)
    /\ Field(\h80, 6, 7) = 1 <=> Upper(request)
    /\ Field(\h0c, 0, 6) = 21 * (Bandwidth(request) - 5)
    /\ Field(\h03, 4, 8) = MxlConfig.xtal /\ Field(\h05, 0, 4) = MxlConfig.xtal
    /\ Field(\h02, 0, 5) = 16 * MxlConfig.invert_if + IfCode(MxlConfig.if_freq)
    /\ Field(\h03, 0, 4) = 8 * MxlConfig.clk_out_enable + MxlConfig.clk_out_amp
    /\ mxl_chip[\h06] = ModeBits[Mode(request.delsys)]
    /\ request.delsys = "DVBC_ANNEX_B" =>
         /\ mxl_chip[\h09] = \hc1 /\ mxl_chip[\h0b] = \h17
         /\ mxl_chip[\h0a] = 8 - MxlConfig.if_diff_out_level

(***************************************************************************)
(* While nothing goes wrong, the synthesizer's registers change only when  *)
(* the tuning is stopped: a retune never runs on half of the old and half  *)
(* of the new frequency.                                                   *)
(***************************************************************************)
QuietWhileSet ==
  [][mxl_intact' /\ mxl_at = "tune" =>
       \A reg \in {\h0c, \h0d, \h0e, \h80} :
         mxl_chip'[reg] # mxl_chip[reg] => mxl_chip[\h0f] = 0]_mxl_vars

(***************************************************************************)
(* The count of an instance is the number of its users, so that it is      *)
(* freed with the last of them and, when the core releases it and the      *)
(* client is removed, in either order, it goes down once; unless an attach *)
(* to it has failed, which keeps its place, so that the count is no longer *)
(* what the comment in tuner-i2c.h:109 says.  In no case is the instance   *)
(* freed under a user.                                                     *)
(***************************************************************************)
CountIsUsers ==
  /\ mxl_priv => mxl_count > 0
  /\ mxl_at = "idle" /\ ~mxl_failed => mxl_count = IF mxl_priv THEN 1 ELSE 0
=============================================================================
