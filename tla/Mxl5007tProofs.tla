--------------------------- MODULE Mxl5007tProofs ---------------------------
(***************************************************************************)
(* Proofs about the driver of the terrestrial tuner: for every set of      *)
(* requests, every configuration the driver knows and any number of        *)
(* transfers that fail.                                                    *)
(***************************************************************************)
EXTENDS Mxl5007t, TLAPS

-----------------------------------------------------------------------------
(* The instance and its users. *)

Attaching == mxl_at \in {"chip_id", "reset", "loop_thru"}
InUse == mxl_priv \/ Attaching

\* An attach that is under way is a user already.  What the count has beyond the
\* users was left by attaches that failed, each with a fault of its own.
Places ==
  /\ mxl_priv \in BOOLEAN /\ mxl_client \in BOOLEAN /\ mxl_failed \in BOOLEAN
  /\ mxl_at \in {"idle", "chip_id", "reset", "loop_thru", "init", "tune", "sleep"}
  /\ mxl_priv => mxl_client
  /\ mxl_client => ~Attaching
  /\ mxl_at \in {"init", "tune", "sleep"} => mxl_priv
  /\ mxl_rest # <<>> => mxl_at \in {"init", "tune"}

Counted ==
  /\ mxl_faults \in 0..MaxFaults /\ mxl_count \in Nat
  /\ InUse => mxl_count - 1 \in 0..mxl_faults
  /\ ~InUse => mxl_count \in 0..mxl_faults
  /\ ~mxl_failed /\ InUse => mxl_count = 1
  /\ ~mxl_failed /\ ~InUse => mxl_count = 0

UserInv == Places /\ Counted

\* A transfer leaves the number of faults in its bound; one that is reported as
\* failed is a fault.
LEMMA TransferFaults ==
  ASSUME mxl_faults \in 0..MaxFaults, NEW effect, NEW ok \in BOOLEAN,
         Transfer(effect, ok)
  PROVE  /\ mxl_faults' \in mxl_faults..MaxFaults
         /\ ~ok => mxl_faults' = mxl_faults + 1
  BY FaultAssumption DEF Transfer, Fault

\* A step that touches neither the count nor the users.
LEMMA UsersKept ==
  ASSUME UserInv, mxl_count' = mxl_count, mxl_priv' = mxl_priv,
         mxl_client' = mxl_client, mxl_failed' = mxl_failed, mxl_faults' \in mxl_faults..MaxFaults,
         \/ mxl_at' = mxl_at
         \/ mxl_at \in {"idle", "init", "tune", "sleep"} /\ mxl_at' = "idle"
         \/ mxl_priv /\ mxl_at' \in {"init", "tune", "sleep"},
         mxl_rest' # <<>> => mxl_at' \in {"init", "tune"}
  PROVE  UserInv'
<1>1. Places' /\ (InUse' <=> InUse)
  BY Zenon DEF UserInv, Places, InUse, Attaching
<1>2. /\ mxl_faults \in 0..MaxFaults /\ mxl_count \in Nat
      /\ InUse => mxl_count - 1 \in 0..mxl_faults
      /\ ~InUse => mxl_count \in 0..mxl_faults
      /\ ~mxl_failed /\ InUse => mxl_count = 1
      /\ ~mxl_failed /\ ~InUse => mxl_count = 0
  BY DEF UserInv, Counted
<1>3. Counted'
  <2>1. /\ mxl_faults' \in 0..MaxFaults /\ mxl_faults <= mxl_faults'
        /\ mxl_faults' \in Nat /\ mxl_faults \in Nat
    BY <1>2, FaultAssumption
  <2>2. CASE InUse
    <3>1. mxl_count - 1 \in 0..mxl_faults'
      BY <1>2, <2>1, <2>2, FaultAssumption
    <3>2. QED
      BY <1>1, <1>2, <2>1, <2>2, <3>1, Zenon DEF Counted
  <2>3. CASE ~InUse
    <3>1. mxl_count \in 0..mxl_faults'
      BY <1>2, <2>1, <2>3, FaultAssumption
    <3>2. QED
      BY <1>1, <1>2, <2>1, <2>3, <3>1, Zenon DEF Counted
  <2>4. QED
    BY <2>2, <2>3
<1>4. QED
  BY <1>1, <1>3 DEF UserInv

LEMMA UserInit == MxlInit => UserInv
<1> SUFFICES ASSUME MxlInit PROVE UserInv
  OBVIOUS
<1>1. Places /\ ~InUse
  BY DEF MxlInit, Places, InUse, Attaching
<1>2. Counted
  BY <1>1, FaultAssumption DEF MxlInit, Counted
<1>3. QED
  BY <1>1, <1>2 DEF UserInv

\* An attach goes on, becomes a user, or leaves its count behind.
LEMMA AttachUsers ==
  ASSUME UserInv, NEW at \in {"chip_id", "reset", "loop_thru"}, NEW effect,
         NEW next \in {"reset", "loop_thru", "idle"}, AttachStep(at, effect, next)
  PROVE  UserInv'
<1>1. /\ mxl_at = at /\ mxl_count' = mxl_count
      /\ InUse /\ ~mxl_priv /\ Places /\ Counted
      /\ mxl_rest = <<>> /\ mxl_rest' = <<>>
  BY DEF AttachStep, UserInv, Places, InUse, Attaching
<1>2. CASE /\ Transfer(effect, TRUE) /\ mxl_at' = next /\ mxl_priv' = (next = "idle")
           /\ mxl_client' = (next = "idle") /\ UNCHANGED mxl_failed
  <2>1. mxl_faults' \in mxl_faults..MaxFaults
    BY <1>1, <1>2, TransferFaults DEF Counted
  <2>2. Places' /\ InUse'
    BY <1>1, <1>2 DEF Places, InUse, Attaching
  <2>3. Counted'
    <3>1. /\ mxl_faults \in 0..MaxFaults /\ mxl_count - 1 \in 0..mxl_faults
          /\ mxl_count \in Nat /\ (~mxl_failed => mxl_count = 1)
      BY <1>1, Zenon DEF Counted
    <3>2. /\ mxl_faults' \in 0..MaxFaults /\ mxl_faults <= mxl_faults'
          /\ mxl_faults' \in Nat /\ mxl_faults \in Nat
      BY <2>1, <3>1, FaultAssumption
    <3>3. mxl_count - 1 \in 0..mxl_faults'
      BY <3>1, <3>2, FaultAssumption
    <3>4. QED
      BY <1>1, <1>2, <2>2, <3>1, <3>2, <3>3, Zenon DEF Counted
  <2>4. QED
    BY <2>2, <2>3 DEF UserInv
<1>3. CASE /\ Transfer(effect, FALSE) /\ mxl_at' = "idle" /\ mxl_failed' = TRUE
           /\ UNCHANGED <<mxl_priv, mxl_client>>
  <2>1. mxl_faults' \in mxl_faults..MaxFaults /\ mxl_faults' = mxl_faults + 1
    BY <1>1, <1>3, TransferFaults DEF Counted
  <2>2. Places' /\ ~InUse'
    BY <1>1, <1>3 DEF Places, InUse, Attaching
  <2>3. Counted'
    BY <1>1, <1>3, <2>1, <2>2, FaultAssumption DEF Counted
  <2>4. QED
    BY <2>2, <2>3 DEF UserInv
<1>4. QED
  BY <1>2, <1>3 DEF AttachStep

LEMMA AttachUser ==
  ASSUME UserInv, Attach
  PROVE  UserInv'
<1>1. /\ ~InUse /\ Counted /\ mxl_count' = mxl_count + 1 /\ mxl_faults' = mxl_faults
      /\ mxl_failed' = (mxl_failed /\ mxl_count > 0)
  BY DEF Attach, UserInv, Places, InUse, Attaching, mxl_bus
<1>2. Places' /\ InUse'
  BY DEF Attach, UserInv, Places, InUse, Attaching
<1>3. Counted'
  <2>1. /\ mxl_faults \in 0..MaxFaults /\ mxl_count \in 0..mxl_faults
        /\ (~mxl_failed => mxl_count = 0)
    BY <1>1, Zenon DEF Counted
  <2>2. /\ (mxl_count + 1) - 1 \in 0..mxl_faults /\ mxl_count + 1 \in Nat
        /\ (mxl_count > 0 => mxl_count # 0) /\ (mxl_count = 0 => mxl_count + 1 = 1)
        /\ (mxl_count > 0 \/ mxl_count = 0)
    BY <2>1, FaultAssumption
  <2>3. ~mxl_failed' => mxl_count + 1 = 1
    BY <1>1, <2>1, <2>2, Zenon
  <2>4. QED
    BY <1>1, <1>2, <2>1, <2>2, <2>3, Zenon DEF Counted
<1>4. QED
  BY <1>2, <1>3 DEF UserInv

\* Of a release and a removal only the first has an instance to leave.
LEMMA LeavesUser ==
  ASSUME UserInv, mxl_at = "idle", LeaveInstance,
         mxl_client' = mxl_client \/ mxl_client' = FALSE
  PROVE  UserInv'
<1>1. /\ Counted /\ mxl_faults' = mxl_faults /\ mxl_failed' = mxl_failed
      /\ mxl_count' = IF mxl_priv THEN mxl_count - 1 ELSE mxl_count
      /\ InUse <=> mxl_priv
  BY DEF LeaveInstance, UserInv, InUse, Attaching, mxl_bus
<1>2. Places' /\ ~InUse'
  BY DEF LeaveInstance, UserInv, Places, InUse, Attaching
<1>3. Counted'
  <2>1. CASE mxl_priv
    BY <1>1, <1>2, <2>1, FaultAssumption DEF Counted
  <2>2. CASE ~mxl_priv
    BY <1>1, <1>2, <2>2, FaultAssumption DEF Counted
  <2>3. QED
    BY <2>1, <2>2
<1>4. QED
  BY <1>2, <1>3 DEF UserInv

LEMMA UserStep == UserInv /\ [MxlNext]_mxl_vars => UserInv'
<1>1. SUFFICES ASSUME UserInv, [MxlNext]_mxl_vars
               PROVE  UserInv'
  OBVIOUS
<1>2. mxl_faults \in 0..MaxFaults /\ mxl_faults \in mxl_faults..MaxFaults
  BY <1>1, FaultAssumption DEF UserInv, Counted
<1>3. CASE Attach
  BY <1>1, <1>3, AttachUser
<1>4. CASE MxlRelease \/ MxlRemove
  BY <1>1, <1>4, LeavesUser DEF MxlRelease, MxlRemove
<1>5. CASE AttachSteps
  BY <1>1, <1>5, AttachUsers DEF AttachSteps
<1>6. CASE MxlWriteReg
  <2>1. mxl_faults' \in mxl_faults..MaxFaults
    BY <1>2, <1>6, TransferFaults DEF MxlWriteReg, WriteRow
  <2>2. /\ UNCHANGED mxl_instance /\ mxl_at \in {"init", "tune"}
        /\ mxl_at' = mxl_at \/ (mxl_at' = "idle" /\ mxl_rest' = <<>>)
    BY <1>1, <1>6 DEF MxlWriteReg, UserInv, Places
  <2>3. QED
    BY <1>1, <2>1, <2>2, UsersKept DEF mxl_instance
<1>7. CASE MxlTune \/ MxlTuned
  BY <1>1, <1>2, <1>7, UsersKept DEF MxlTune, MxlTuned, mxl_instance, mxl_bus, UserInv, Places
<1>8. CASE MxlWake \/ MxlSleep \/ MxlSleeps
  <2>1. mxl_faults' \in mxl_faults..MaxFaults
    BY <1>2, <1>8, TransferFaults DEF MxlWake, MxlSleep, MxlSleeps, WriteRow
  <2>2. QED
    BY <1>1, <1>8, <2>1, UsersKept
       DEF MxlWake, MxlSleep, MxlSleeps, mxl_instance, UserInv, Places
<1>9. ASSUME NEW request \in MxlRequests, MxlSetParams(request)
      PROVE  UserInv'
  BY <1>1, <1>2, <1>9, UsersKept DEF MxlSetParams, mxl_instance
<1>10. CASE UNCHANGED mxl_vars
  BY <1>1, <1>2, <1>10, UsersKept DEF mxl_vars, mxl_instance, mxl_bus, UserInv, Places
<1>11. QED
  BY <1>1, <1>3, <1>4, <1>5, <1>6, <1>7, <1>8, <1>9, <1>10 DEF MxlNext, MxlWork

LEMMA UsersInvariant == MxlSpec => []UserInv
  BY UserInit, UserStep, PTL DEF MxlSpec

\* The count is the number of users, unless an attach has failed; and no instance
\* is freed under a user.
THEOREM InstanceHasItsUsers == MxlSpec => []CountIsUsers
<1>1. UserInv => CountIsUsers
  BY FaultAssumption DEF UserInv, Places, Counted, CountIsUsers, InUse, Attaching
<1>2. QED
  BY <1>1, UsersInvariant, PTL
-----------------------------------------------------------------------------
(* The tables. *)

RowType == [reg : MxlRegs, val : 0..255]

Five(a, b, c, d, e) == <<a, b, c, d, e>>
Six(a, b, c, d, e, f) == <<a, b, c, d, e, f>>
Eight(a, b, c, d, e, f, g, h) == <<a, b, c, d, e, f, g, h>>

\* A field of a register that is set has its value; the others keep theirs.
LEMMA FieldsSet ==
  /\ \A v \in 0..31 : SetField(\h06, 0, 5, v) = v /\ SetField(\h10, 0, 5, v) = v
  /\ \A v \in 0..15 : SetField(\h48, 4, 8, v) = 16 * v + 8 /\ SetField(\h04, 0, 4, v) = v
  /\ \A v, w \in 0..15 : SetField(16 * v + 8, 0, 4, w) = 16 * v + w
  /\ \A v \in 0..255 : /\ SetField(\h3f, 0, 8, v) = v /\ SetField(\h40, 0, 8, v) = v
                       /\ SetField(\h0e, 0, 8, v) = v
  /\ \A v \in 0..63 : SetField(\h15, 0, 6, v) = v
  /\ SetField(1, 6, 7, 1) = 65
  BY DEF SetField

Modes == {"ATSC", "DVBT", "ISDBT", "DVBC_ANNEX_B"}
IfBits == 16 * MxlConfig.invert_if + IfCode(MxlConfig.if_freq)
ClkBits == 8 * MxlConfig.clk_out_enable + MxlConfig.clk_out_amp

\* What the tables come to.
InitRows(mode) ==
  Five(Row(\h02, IfBits), Row(\h03, 16 * MxlConfig.xtal + ClkBits),
       Row(\h05, MxlConfig.xtal), Row(\h06, ModeBits[mode]), Row(\h01, 1))

CableRows ==
  Eight(Row(\h02, IfBits), Row(\h03, 16 * MxlConfig.xtal + ClkBits),
        Row(\h05, MxlConfig.xtal), Row(\h06, \h10), Row(\h09, \hc1),
        Row(\h0a, 8 - MxlConfig.if_diff_out_level), Row(\h0b, \h17), Row(\h01, 1))

BandBits(request) == IF Upper(request) THEN 65 ELSE 1

TuneRows(request) ==
  Six(Row(\h0f, 0), Row(\h0c, BwBits(Bandwidth(request))),
      Row(\h0d, DigRfFreq(request.freq) % 256),
      Row(\h0e, (DigRfFreq(request.freq) \div 256) % 256),
      Row(\h80, BandBits(request)), Row(\h0f, 1))

\* What the configuration contributes fits its fields.
LEMMA ConfigBits ==
  /\ IfBits \in 0..31 /\ ClkBits \in 0..15 /\ MxlConfig.xtal \in 0..15
  /\ 8 - MxlConfig.if_diff_out_level \in 0..255
<1>1. /\ MxlConfig.invert_if \in 0..1 /\ MxlConfig.if_freq \in 0..10
      /\ MxlConfig.clk_out_enable \in 0..1 /\ MxlConfig.clk_out_amp \in 0..7
      /\ MxlConfig.xtal \in 0..13 /\ MxlConfig.if_diff_out_level \in 0..8
  BY ConfigAssumption
<1>2. QED
  BY <1>1 DEF IfBits, ClkBits, IfCode

LEMMA ModeFits ==
  \A mode \in Modes : ModeBits[mode] \in 16..18
  BY DEF ModeBits, Modes

\* The table of an aerial, from the bits for mode, intermediate frequency, crystal
\* and clock.
PlainTable(m, f, x, k) ==
  LET a == set_reg_bits(init_tab, \h06, 0, 5, m)
      b == set_reg_bits(a, \h02, 0, 5, f)
      c == set_reg_bits(set_reg_bits(b, \h03, 4, 8, x), \h05, 0, 4, x)
  IN  set_reg_bits(c, \h03, 0, 4, k)

LEMMA PlainRows ==
  ASSUME NEW m \in 0..31, NEW f \in 0..31, NEW x \in 0..15, NEW k \in 0..15
  PROVE  PlainTable(m, f, x, k)
         = Five(Row(\h02, f), Row(\h03, 16 * x + k), Row(\h05, x), Row(\h06, m), Row(\h01, 1))
<1> DEFINE a == set_reg_bits(init_tab, \h06, 0, 5, m)
           b == set_reg_bits(a, \h02, 0, 5, f)
           b1 == set_reg_bits(b, \h03, 4, 8, x)
           c == set_reg_bits(b1, \h05, 0, 4, x)
           d == set_reg_bits(c, \h03, 0, 4, k)
<1>0. init_tab = Five(Row(\h02, \h06), Row(\h03, \h48), Row(\h05, \h04),
                     Row(\h06, \h10), Row(\h01, 1))
  BY DEF init_tab, Five
<1>1. a = Five(Row(\h02, \h06), Row(\h03, \h48), Row(\h05, \h04), Row(\h06, m),
              Row(\h01, 1))
  <2>1. SetField(\h10, 0, 5, m) = m
    BY FieldsSet
  <2>2. QED
    BY <1>0, <2>1 DEF set_reg_bits, Row, Five
<1> HIDE DEF a
<1>2. b = Five(Row(\h02, f), Row(\h03, \h48), Row(\h05, \h04), Row(\h06, m),
              Row(\h01, 1))
  <2>1. SetField(\h06, 0, 5, f) = f
    BY FieldsSet
  <2>2. QED
    BY <1>1, <2>1 DEF set_reg_bits, Row, Five
<1> HIDE DEF b
<1>3. b1 = Five(Row(\h02, f), Row(\h03, 16 * x + 8), Row(\h05, \h04),
               Row(\h06, m), Row(\h01, 1))
  <2>1. SetField(\h48, 4, 8, x) = 16 * x + 8
    BY FieldsSet
  <2>2. QED
    BY <1>2, <2>1 DEF set_reg_bits, Row, Five
<1> HIDE DEF b1
<1>4. c = Five(Row(\h02, f), Row(\h03, 16 * x + 8), Row(\h05, x), Row(\h06, m),
              Row(\h01, 1))
  <2>1. SetField(\h04, 0, 4, x) = x
    BY FieldsSet
  <2>2. QED
    BY <1>3, <2>1 DEF set_reg_bits, Row, Five
<1> HIDE DEF c
<1>5. d = Five(Row(\h02, f), Row(\h03, 16 * x + k), Row(\h05, x), Row(\h06, m),
              Row(\h01, 1))
  <2>1. SetField(16 * x + 8, 0, 4, k) = 16 * x + k
    BY FieldsSet
  <2>2. QED
    BY <1>4, <2>1 DEF set_reg_bits, Row, Five
<1> HIDE DEF d
<1>6. QED
  BY <1>5, Zenon DEF PlainTable, d, c, b1, b, a

\* The table for cable, before the other is copied into it.
CableTable(l) ==
  set_reg_bits(set_reg_bits(set_reg_bits(init_tab_cable, \h09, 0, 8, \hc1),
                            \h0a, 0, 8, l), \h0b, 0, 8, \h17)

LEMMA CableOnlyRows ==
  ASSUME NEW l \in 0..255
  PROVE  CableTable(l)
         = Eight(Row(\h02, \h06), Row(\h03, \h48), Row(\h05, \h04), Row(\h06, \h10),
                 Row(\h09, \hc1), Row(\h0a, l), Row(\h0b, \h17), Row(\h01, 1))
<1> DEFINE a == set_reg_bits(init_tab_cable, \h09, 0, 8, \hc1)
           b == set_reg_bits(a, \h0a, 0, 8, l)
           c == set_reg_bits(b, \h0b, 0, 8, \h17)
<1>0. init_tab_cable = Eight(Row(\h02, \h06), Row(\h03, \h48), Row(\h05, \h04),
                            Row(\h06, \h10), Row(\h09, \h3f), Row(\h0a, \h3f),
                            Row(\h0b, \h3f), Row(\h01, 1))
  BY DEF init_tab_cable, Eight
<1>1. a = Eight(Row(\h02, \h06), Row(\h03, \h48), Row(\h05, \h04),
               Row(\h06, \h10), Row(\h09, \hc1), Row(\h0a, \h3f),
               Row(\h0b, \h3f), Row(\h01, 1))
  <2>1. SetField(\h3f, 0, 8, \hc1) = \hc1
    BY FieldsSet
  <2>2. QED
    BY <1>0, <2>1 DEF set_reg_bits, Row, Eight
<1> HIDE DEF a
<1>2. b = Eight(Row(\h02, \h06), Row(\h03, \h48), Row(\h05, \h04),
               Row(\h06, \h10), Row(\h09, \hc1), Row(\h0a, l), Row(\h0b, \h3f),
               Row(\h01, 1))
  <2>1. SetField(\h3f, 0, 8, l) = l
    BY FieldsSet
  <2>2. QED
    BY <1>1, <2>1 DEF set_reg_bits, Row, Eight
<1> HIDE DEF b
<1>3. c = Eight(Row(\h02, \h06), Row(\h03, \h48), Row(\h05, \h04),
               Row(\h06, \h10), Row(\h09, \hc1), Row(\h0a, l), Row(\h0b, \h17),
               Row(\h01, 1))
  <2>1. SetField(\h3f, 0, 8, \h17) = \h17
    BY FieldsSet
  <2>2. QED
    BY <1>2, <2>1 DEF set_reg_bits, Row, Eight
<1> HIDE DEF c
<1>4. QED
  BY <1>3, Zenon DEF CableTable, c, b, a

\* The table that tunes, from the bits for the width and the bytes of the frequency.
TuneTable(w, lo, hi) ==
  LET a == set_reg_bits(reg_pair_rftune, \h0c, 0, 6, w) IN
  set_reg_bits(set_reg_bits(a, \h0d, 0, 8, lo), \h0e, 0, 8, hi)

LEMMA TuneTableRows ==
  ASSUME NEW w \in 0..63, NEW lo \in 0..255, NEW hi \in 0..255
  PROVE  /\ TuneTable(w, lo, hi)
            = Six(Row(\h0f, 0), Row(\h0c, w), Row(\h0d, lo), Row(\h0e, hi), Row(\h80, 1),
                  Row(\h0f, 1))
         /\ set_reg_bits(TuneTable(w, lo, hi), \h80, 6, 7, 1)
            = Six(Row(\h0f, 0), Row(\h0c, w), Row(\h0d, lo), Row(\h0e, hi), Row(\h80, 65),
                  Row(\h0f, 1))
<1> DEFINE a == set_reg_bits(reg_pair_rftune, \h0c, 0, 6, w)
           b == set_reg_bits(a, \h0d, 0, 8, lo)
           c == set_reg_bits(b, \h0e, 0, 8, hi)
           d == set_reg_bits(c, \h80, 6, 7, 1)
<1>0. reg_pair_rftune = Six(Row(\h0f, 0), Row(\h0c, \h15), Row(\h0d, \h40),
                           Row(\h0e, \h0e), Row(\h80, 1), Row(\h0f, 1))
  BY DEF reg_pair_rftune, Six
<1>1. a = Six(Row(\h0f, 0), Row(\h0c, w), Row(\h0d, \h40), Row(\h0e, \h0e),
             Row(\h80, 1), Row(\h0f, 1))
  <2>1. SetField(\h15, 0, 6, w) = w
    BY FieldsSet
  <2>2. QED
    BY <1>0, <2>1 DEF set_reg_bits, Row, Six
<1> HIDE DEF a
<1>2. b = Six(Row(\h0f, 0), Row(\h0c, w), Row(\h0d, lo), Row(\h0e, \h0e),
             Row(\h80, 1), Row(\h0f, 1))
  <2>1. SetField(\h40, 0, 8, lo) = lo
    BY FieldsSet
  <2>2. QED
    BY <1>1, <2>1 DEF set_reg_bits, Row, Six
<1> HIDE DEF b
<1>3. c = Six(Row(\h0f, 0), Row(\h0c, w), Row(\h0d, lo), Row(\h0e, hi),
             Row(\h80, 1), Row(\h0f, 1))
  <2>1. SetField(\h0e, 0, 8, hi) = hi
    BY FieldsSet
  <2>2. QED
    BY <1>2, <2>1 DEF set_reg_bits, Row, Six
<1> HIDE DEF c
<1>4. d = Six(Row(\h0f, 0), Row(\h0c, w), Row(\h0d, lo), Row(\h0e, hi),
             Row(\h80, 65), Row(\h0f, 1))
  <2>1. SetField(1, 6, 7, 1) = 65
    BY FieldsSet
  <2>2. QED
    BY <1>3, <2>1 DEF set_reg_bits, Row, Six
<1> HIDE DEF d
<1>5. QED
  BY <1>3, <1>4, Zenon DEF TuneTable, d, c, b, a

-----------------------------------------------------------------------------
(* Copying the bits of one table into another. *)

\* The first row of a register is where the cursor stops.
LEMMA Sought ==
  ASSUME NEW tab, Len(tab) \in Nat, NEW reg, NEW j \in Nat, NEW k \in j..Len(tab), k # 0,
         tab[k].reg = reg, \A i \in j..k - 1 : tab[i].reg # reg
  PROVE  SeekReg(tab, reg, j) = k
<1> DEFINE I == {i \in j..Len(tab) : tab[i].reg = reg}
<1>1. k \in I /\ \A i \in I : k <= i
  OBVIOUS
<1>2. I \subseteq Int
  OBVIOUS
<1> HIDE DEF I
<1>3. Min(I) = k
  <2>1. \A m \in I : (\A i \in I : m <= i) => m = k
    BY <1>1, <1>2
  <2>2. QED
    BY <1>1, <2>1, Zenon DEF Min
<1>4. SelectInSubSeq(tab, j, Len(tab), LAMBDA row : row.reg = reg)
      = IF I # {} THEN Min(I) ELSE 0
  BY Zenon DEF SelectInSubSeq, I
<1>5. QED
  BY <1>1, <1>3, <1>4 DEF SeekReg

\* Where the cursor stands after each row of the first table.
Stands == [i \in 0..5 |-> IF i = 0 THEN 1 ELSE IF i = 5 THEN 8 ELSE i]

LEMMA CursorStands ==
  ASSUME NEW t1, NEW t2, Len(t1) = 5,
         SeekReg(t2, t1[1].reg, 1) = 1, SeekReg(t2, t1[2].reg, 1) = 2,
         SeekReg(t2, t1[3].reg, 2) = 3, SeekReg(t2, t1[4].reg, 3) = 4,
         SeekReg(t2, t1[5].reg, 4) = 8
  PROVE  Cursor(t1, t2) = Stands
<1> DEFINE Moved(j, i) == IF i = 0 THEN 1 ELSE SeekReg(t2, t1[i].reg, j[i - 1])
           stands == Stands
<1>1. Cursor(t1, t2) = CHOOSE j : j = [i \in 0..5 |-> Moved(j, i)]
  BY Zenon DEF Cursor
<1>2. stands = [i \in 0..5 |-> Moved(stands, i)]
  <2>1. \A i \in 0..5 : stands[i] = Moved(stands, i)
    BY DEF Stands
  <2>2. QED
    BY <2>1 DEF Stands
<1>3. ASSUME NEW j, j = [i \in 0..5 |-> Moved(j, i)]
      PROVE  j = stands
  <2>1. \A i \in 0..5 : j[i] = Moved(j, i)
    BY <1>3, Zenon
  <2>2. j[0] = 1 /\ j[1] = 1
    BY <2>1
  <2>3. j[2] = 2
    BY <2>1, <2>2
  <2>4. j[3] = 3
    BY <2>1, <2>3
  <2>5. j[4] = 4
    BY <2>1, <2>4
  <2>6. j[5] = 8
    BY <2>1, <2>5
  <2>7. \A i \in 0..5 : Moved(j, i) = IF i = 0 THEN 1 ELSE IF i = 5 THEN 8 ELSE i
    BY <2>1, <2>2, <2>3, <2>4, <2>5, <2>6
  <2>8. QED
    BY <1>3, <2>7 DEF Stands
<1> HIDE DEF stands, Moved
<1>4. QED
  BY <1>1, <1>2, <1>3 DEF stands

\* The table for cable gets every row the other table has too.
LEMMA CopiedRows ==
  ASSUME NEW f, NEW u, NEW x, NEW m, NEW l
  PROVE  copy_reg_bits(
           Five(Row(\h02, f), Row(\h03, u), Row(\h05, x), Row(\h06, m), Row(\h01, 1)),
           Eight(Row(\h02, \h06), Row(\h03, \h48), Row(\h05, \h04), Row(\h06, \h10),
                 Row(\h09, \hc1), Row(\h0a, l), Row(\h0b, \h17), Row(\h01, 1)))
         = Eight(Row(\h02, f), Row(\h03, u), Row(\h05, x), Row(\h06, m),
                 Row(\h09, \hc1), Row(\h0a, l), Row(\h0b, \h17), Row(\h01, 1))
<1> DEFINE t1 == Five(Row(\h02, f), Row(\h03, u), Row(\h05, x), Row(\h06, m), Row(\h01, 1))
           t2 == Eight(Row(\h02, \h06), Row(\h03, \h48), Row(\h05, \h04), Row(\h06, \h10),
                       Row(\h09, \hc1), Row(\h0a, l), Row(\h0b, \h17), Row(\h01, 1))
<1>1. /\ DOMAIN t1 = 1..5 /\ Len(t1) = 5
      /\ t1[1] = Row(\h02, f) /\ t1[2] = Row(\h03, u) /\ t1[3] = Row(\h05, x)
      /\ t1[4] = Row(\h06, m) /\ t1[5] = Row(\h01, 1)
  BY DEF Five
<1>2. /\ DOMAIN t2 = 1..8 /\ Len(t2) = 8
      /\ t2[1] = Row(\h02, \h06) /\ t2[2] = Row(\h03, \h48) /\ t2[3] = Row(\h05, \h04)
      /\ t2[4] = Row(\h06, \h10) /\ t2[5] = Row(\h09, \hc1) /\ t2[6] = Row(\h0a, l)
      /\ t2[7] = Row(\h0b, \h17) /\ t2[8] = Row(\h01, 1)
  BY DEF Eight
<1> HIDE DEF t1, t2
<1>3. /\ t1[1].reg = \h02 /\ t1[2].reg = \h03 /\ t1[3].reg = \h05
      /\ t1[4].reg = \h06 /\ t1[5].reg = \h01
  BY <1>1 DEF Row
<1>4. /\ t2[1].reg = \h02 /\ t2[2].reg = \h03 /\ t2[3].reg = \h05 /\ t2[4].reg = \h06
      /\ t2[5].reg = \h09 /\ t2[6].reg = \h0a /\ t2[7].reg = \h0b /\ t2[8].reg = \h01
  BY <1>2 DEF Row
<1>5. /\ SeekReg(t2, \h02, 1) = 1 /\ SeekReg(t2, \h03, 1) = 2 /\ SeekReg(t2, \h05, 2) = 3
      /\ SeekReg(t2, \h06, 3) = 4
  <2>1. SeekReg(t2, \h02, 1) = 1
    <3>1. \A i \in 1..1 - 1 : t2[i].reg # \h02
      BY <1>4
    <3>2. /\ 1 \in Nat /\ 1 \in 1..Len(t2) /\ 1 # 0 /\ Len(t2) \in Nat
          /\ t2[1].reg = \h02
      BY <1>2, <1>4
    <3>3. QED
      BY <3>1, <3>2, Sought, Zenon
  <2>2. SeekReg(t2, \h03, 1) = 2
    <3>1. \A i \in 1..2 - 1 : t2[i].reg # \h03
      BY <1>4
    <3>2. /\ 1 \in Nat /\ 2 \in 1..Len(t2) /\ 2 # 0 /\ Len(t2) \in Nat
          /\ t2[2].reg = \h03
      BY <1>2, <1>4
    <3>3. QED
      BY <3>1, <3>2, Sought, Zenon
  <2>3. SeekReg(t2, \h05, 2) = 3
    <3>1. \A i \in 2..3 - 1 : t2[i].reg # \h05
      BY <1>4
    <3>2. /\ 2 \in Nat /\ 3 \in 2..Len(t2) /\ 3 # 0 /\ Len(t2) \in Nat
          /\ t2[3].reg = \h05
      BY <1>2, <1>4
    <3>3. QED
      BY <3>1, <3>2, Sought, Zenon
  <2>4. SeekReg(t2, \h06, 3) = 4
    <3>1. \A i \in 3..4 - 1 : t2[i].reg # \h06
      BY <1>4
    <3>2. /\ 3 \in Nat /\ 4 \in 3..Len(t2) /\ 4 # 0 /\ Len(t2) \in Nat
          /\ t2[4].reg = \h06
      BY <1>2, <1>4
    <3>3. QED
      BY <3>1, <3>2, Sought, Zenon
  <2>5. QED
    BY <2>1, <2>2, <2>3, <2>4
<1>6. SeekReg(t2, \h01, 4) = 8
  <2>1. \A i \in 4..8 - 1 : t2[i].reg # \h01
    BY <1>4
  <2>2. 4 \in Nat /\ 8 \in 4..Len(t2) /\ 8 # 0 /\ Len(t2) \in Nat /\ t2[8].reg = \h01
    BY <1>2, <1>4
  <2>3. QED
    BY <2>1, <2>2, Sought, Zenon
<1>7. Cursor(t1, t2) = Stands
  BY <1>1, <1>3, <1>5, <1>6, CursorStands
<1>8. \A k \in 1..8 :
        copy_reg_bits(t1, t2)[k] = IF k < 5 THEN t1[k] ELSE IF k = 8 THEN t1[5] ELSE t2[k]
  <2>1. TAKE k \in 1..8
  <2>2. \A i \in 1..5 : Stands[i] = k <=> (k < 5 /\ i = k) \/ (k = 8 /\ i = 5)
    BY DEF Stands
  <2>3. copy_reg_bits(t1, t2)[k] = IF \E i \in 1..5 : Stands[i] = k
                                   THEN t1[CHOOSE i \in 1..5 : Stands[i] = k] ELSE t2[k]
    BY <1>1, <1>2, <1>7 DEF copy_reg_bits
  <2>4. CASE k < 5 \/ k = 8
    <3>1. PICK n \in 1..5 : n = IF k < 5 THEN k ELSE 5
      OBVIOUS
    <3>2. Stands[n] = k /\ \A i \in 1..5 : Stands[i] = k => i = n
      BY <2>2, <2>4, <3>1
    <3>3. (CHOOSE i \in 1..5 : Stands[i] = k) = n
      BY <3>2, Zenon
    <3>4. copy_reg_bits(t1, t2)[k] = t1[n]
      BY <2>3, <3>2, <3>3, Zenon
    <3>5. QED
      BY <2>4, <3>1, <3>4
  <2>5. CASE ~(k < 5 \/ k = 8)
    BY <2>2, <2>3, <2>5
  <2>6. QED
    BY <2>4, <2>5
<1>9. copy_reg_bits(t1, t2) = [k \in 1..8 |-> copy_reg_bits(t1, t2)[k]]
  BY <1>2 DEF copy_reg_bits
<1> DEFINE c == copy_reg_bits(t1, t2)
<1>10. /\ c[1] = t1[1] /\ c[2] = t1[2] /\ c[3] = t1[3] /\ c[4] = t1[4]
       /\ c[5] = t2[5] /\ c[6] = t2[6] /\ c[7] = t2[7] /\ c[8] = t1[5]
  BY <1>8
<1>11. c = [k \in 1..8 |-> c[k]]
  BY <1>9
<1> HIDE DEF c
<1>12. c = Eight(Row(\h02, f), Row(\h03, u), Row(\h05, x), Row(\h06, m),
                 Row(\h09, \hc1), Row(\h0a, l), Row(\h0b, \h17), Row(\h01, 1))
  BY <1>1, <1>2, <1>10, <1>11 DEF Eight
<1>13. QED
  BY <1>12, Zenon DEF c, t1, t2

\* The table that is written first.
LEMMA InitTable ==
  ASSUME NEW mode \in Modes
  PROVE  CalcInitRegs(mode) = IF mode = "DVBC_ANNEX_B" THEN CableRows ELSE InitRows(mode)
<1> DEFINE plain == PlainTable(ModeBits[mode], IfBits, MxlConfig.xtal, ClkBits)
           cable == CableTable(8 - MxlConfig.if_diff_out_level)
<1>1. CalcInitRegs(mode)
      = IF mode = "DVBC_ANNEX_B" THEN copy_reg_bits(plain, cable) ELSE plain
  BY Zenon DEF CalcInitRegs, PlainTable, CableTable, IfBits, ClkBits
<1>2. plain = InitRows(mode)
  <2>1. ModeBits[mode] \in 0..31
    BY ModeFits
  <2>2. QED
    BY <2>1, ConfigBits, PlainRows, Zenon DEF InitRows
<1>3. ModeBits["DVBC_ANNEX_B"] = \h10
  BY DEF ModeBits
<1>4. cable = Eight(Row(\h02, \h06), Row(\h03, \h48), Row(\h05, \h04), Row(\h06, \h10),
                    Row(\h09, \hc1), Row(\h0a, 8 - MxlConfig.if_diff_out_level),
                    Row(\h0b, \h17), Row(\h01, 1))
  BY ConfigBits, CableOnlyRows, Zenon
<1> HIDE DEF plain, cable
<1>5. CASE mode = "DVBC_ANNEX_B"
  <2> DEFINE l == 8 - MxlConfig.if_diff_out_level
             u == 16 * MxlConfig.xtal + ClkBits
             t1 == Five(Row(\h02, IfBits), Row(\h03, u), Row(\h05, MxlConfig.xtal),
                        Row(\h06, \h10), Row(\h01, 1))
             t2 == Eight(Row(\h02, \h06), Row(\h03, \h48), Row(\h05, \h04),
                         Row(\h06, \h10), Row(\h09, \hc1), Row(\h0a, l), Row(\h0b, \h17),
                         Row(\h01, 1))
  <2>1. plain = t1 /\ cable = t2
    BY <1>2, <1>3, <1>4, <1>5, Zenon DEF InitRows
  <2> HIDE DEF l, u
  <2>2. copy_reg_bits(t1, t2) = Eight(Row(\h02, IfBits), Row(\h03, u),
                                      Row(\h05, MxlConfig.xtal), Row(\h06, \h10),
                                      Row(\h09, \hc1), Row(\h0a, l), Row(\h0b, \h17),
                                      Row(\h01, 1))
    BY CopiedRows, ZenonT(40)
  <2> HIDE DEF t1, t2
  <2>3. copy_reg_bits(plain, cable) = CableRows
    BY <2>1, <2>2, Zenon DEF CableRows, l, u
  <2>4. QED
    BY <1>1, <1>5, <2>3
<1>6. CASE mode # "DVBC_ANNEX_B"
  BY <1>1, <1>2, <1>6
<1>7. QED
  BY <1>5, <1>6
-----------------------------------------------------------------------------
(* The frequency. *)

\* The bits found so far and what is left add up to the frequency, and what is left
\* is no more than the last bit weighs.
Split(s, freq, weight) ==
  /\ s \in [bits : Nat, left : Nat, weight : Nat] /\ s.weight = weight
  /\ s.bits * weight + s.left = freq /\ s.left <= weight

LEMMA HalveIs ==
  ASSUME NEW s, NEW w, s.weight \div 2 = w
  PROVE  Halve(s) = IF s.left > w
                    THEN [bits |-> 2 * s.bits + 1, left |-> s.left - w, weight |-> w]
                    ELSE [bits |-> 2 * s.bits, left |-> s.left, weight |-> w]
  BY SMT DEF Halve

\* One round of the loop keeps that.
LEMMA HalveSplits ==
  ASSUME NEW freq \in Nat, NEW s, NEW w \in Nat,
         Split(s, freq, 2 * w)
  PROVE  Split(Halve(s), freq, w)
<1>1. PICK b \in Nat, l \in Nat : b = s.bits /\ l = s.left /\ l <= 2 * w /\ s.weight = 2 * w
  BY SMT DEF Split
<1>2. b * (2 * w) + l = freq
  BY <1>1, SMT DEF Split
<1>3. s.weight \div 2 = w
  BY <1>1, SMT
<1>4. CASE l > w
  <2>1. Halve(s) = [bits |-> 2 * b + 1, left |-> l - w, weight |-> w]
    BY <1>1, <1>3, <1>4, HalveIs, Zenon
  <2>2. (2 * b + 1) * w + (l - w) = freq
    BY <1>2, SMT
  <2>3. l - w \in Nat /\ l - w <= w /\ 2 * b + 1 \in Nat /\ w \in Nat
    BY <1>1, <1>4, SMT
  <2>4. QED
    BY <2>1, <2>2, <2>3, SMT DEF Split
<1>5. CASE ~(l > w)
  <2>1. Halve(s) = [bits |-> 2 * b, left |-> l, weight |-> w]
    BY <1>1, <1>3, <1>5, HalveIs, Zenon
  <2>2. (2 * b) * w + l = freq
    BY <1>2, SMT
  <2>3. l <= w /\ 2 * b \in Nat /\ w \in Nat
    BY <1>1, <1>5, SMT
  <2>4. QED
    BY <2>1, <2>2, <2>3, SMT DEF Split
<1>6. QED
  BY <1>4, <1>5, SMT

\* The fraction is what is left of the frequency in units of 15.625 kHz.
LEMMA FractionSplits ==
  ASSUME NEW freq \in Nat
  PROVE  Split(Fraction(freq), freq, 15625)
<1> DEFINE s0 == [bits |-> freq \div 1000000, left |-> freq % 1000000, weight |-> 1000000]
           s1 == Halve(s0)
           s2 == Halve(s1)
           s3 == Halve(s2)
           s4 == Halve(s3)
           s5 == Halve(s4)
           s6 == Halve(s5)
           Round(s, i) == IF i = 0 THEN s0 ELSE Halve(s[i - 1])
           rounds == [i \in 0..6 |-> IF i = 0 THEN s0 ELSE IF i = 1 THEN s1
                                     ELSE IF i = 2 THEN s2 ELSE IF i = 3 THEN s3
                                     ELSE IF i = 4 THEN s4 ELSE IF i = 5 THEN s5 ELSE s6]
<1>1. freq \in Nat
  OBVIOUS
<1>2. Split(s0, freq, 1000000)
  <2>1. PICK q \in Nat, m \in Nat : q = freq \div 1000000 /\ m = freq % 1000000
    BY <1>1, SMT
  <2>2. q * 1000000 + m = freq /\ m <= 1000000
    BY <1>1, <2>1, SMT
  <2>3. s0 = [bits |-> q, left |-> m, weight |-> 1000000]
    BY <2>1, SMT
  <2>4. QED
    BY <2>2, <2>3, SMT DEF Split
<1>3. Halvings(freq) = CHOOSE s : s = [i \in 0..6 |-> Round(s, i)]
  BY SMT DEF Halvings
<1> HIDE DEF s0
<1>4. rounds = [i \in 0..6 |-> Round(rounds, i)]
  <2> HIDE DEF s1, s2, s3, s4, s5, s6
  <2>1. /\ rounds[0] = s0 /\ rounds[1] = s1 /\ rounds[2] = s2 /\ rounds[3] = s3
        /\ rounds[4] = s4 /\ rounds[5] = s5 /\ rounds[6] = s6
    BY SMT
  <2>2. \A i \in 0..6 : rounds[i] = Round(rounds, i)
    BY <2>1, SMT DEF s1, s2, s3, s4, s5, s6
  <2>3. rounds = [i \in 0..6 |-> rounds[i]]
    BY SMT
  <2> HIDE DEF rounds, Round
  <2>4. QED
    BY <2>2, <2>3, SMT
<1> HIDE DEF rounds
<1> DEFINE s == Halvings(freq)
<1>5. s = [i \in 0..6 |-> Round(s, i)]
  <2> HIDE DEF Round
  <2>1. QED
    BY <1>3, <1>4, Zenon
<1> HIDE DEF s
<1>6. /\ s[0] = s0 /\ s[1] = Halve(s[0]) /\ s[2] = Halve(s[1]) /\ s[3] = Halve(s[2])
      /\ s[4] = Halve(s[3]) /\ s[5] = Halve(s[4]) /\ s[6] = Halve(s[5])
  <2> HIDE DEF s1, s2, s3, s4, s5, s6
  <2>1. \A i \in 0..6 : s[i] = Round(s, i)
    <3> HIDE DEF Round
    <3>1. QED
      BY <1>5, Zenon
  <2>2. QED
    BY <2>1, SMT
<1>7. Split(s[1], freq, 500000)
  BY <1>1, <1>2, <1>6, HalveSplits, SMT
<1>8. Split(s[2], freq, 250000)
  BY <1>1, <1>6, <1>7, HalveSplits, SMT
<1>9. Split(s[3], freq, 125000)
  BY <1>1, <1>6, <1>8, HalveSplits, SMT
<1>10. Split(s[4], freq, 62500)
  BY <1>1, <1>6, <1>9, HalveSplits, SMT
<1>11. Split(s[5], freq, 31250)
  BY <1>1, <1>6, <1>10, HalveSplits, SMT
<1>12. Split(s[6], freq, 15625)
  BY <1>1, <1>6, <1>11, HalveSplits, SMT
<1>13. QED
  BY <1>12, SMT DEF Fraction, s

\* The multiple of 15.625 kHz nearest to the frequency, and when it has 16 bits.
LEMMA DigIsNearest ==
  ASSUME NEW freq \in Nat
  PROVE  /\ DigRfFreq(freq) \in Nat /\ Nearest(DigRfFreq(freq), freq)
         /\ Expressible(freq) => DigRfFreq(freq) <= 65535
<1> DEFINE s == Fraction(freq)
<1>1. Split(s, freq, 15625)
  BY FractionSplits, SMT
<1> HIDE DEF s
<1>2. PICK b \in Nat, l \in Nat : b = s.bits /\ l = s.left
  BY <1>1, SMT DEF Split
<1>3. b * 15625 + l = freq /\ l <= 15625
  BY <1>1, <1>2, SMT DEF Split
<1>4. DigRfFreq(freq) = IF l > 7812 THEN b + 1 ELSE b
  BY <1>2, SMT DEF DigRfFreq, s
<1> DEFINE dig == DigRfFreq(freq)
<1>6. dig = IF l > 7812 THEN b + 1 ELSE b
  BY <1>4
<1> HIDE DEF dig
<1>7. /\ dig \in Nat
      /\ -7812 <= dig * 15625 - freq /\ dig * 15625 - freq <= 7812
  BY <1>3, <1>6, SMT
<1>8. Nearest(dig, freq)
  BY <1>7, SMTT(30) DEF Nearest
<1>9. Expressible(freq) => dig <= 65535
  BY <1>7, SMTT(30) DEF Expressible
<1>10. QED
  BY <1>7, <1>8, <1>9, SMT DEF dig

\* The requests the driver knows.
Known(request) == request \in MxlRequests /\ Supported(request)

LEMMA RequestFits ==
  ASSUME NEW request, Known(request)
  PROVE  /\ request.freq \in Nat /\ Mode(request.delsys) \in Modes
         /\ Bandwidth(request) \in {6, 7, 8}
         /\ BwBits(Bandwidth(request)) = 21 * (Bandwidth(request) - 5)
         /\ BwBits(Bandwidth(request)) \in 0..63
<1>1. /\ request.freq \in Nat /\ Mode(request.delsys) \in Modes
      /\ Bandwidth(request) \in {6, 7, 8}
  BY RequestAssumption, SMT DEF Known, Supported, Mode, Modes, Bandwidth
<1>2. BwBits(6) = 21 /\ BwBits(7) = 42 /\ BwBits(8) = 63
  BY SMT DEF BwBits
<1>3. QED
  BY <1>1, <1>2, SMT

\* The table that is written second.
LEMMA TuneTableIs ==
  ASSUME NEW request, Known(request)
  PROVE  CalcRfTuneRegs(request) = TuneRows(request)
<1> DEFINE dig == DigRfFreq(request.freq)
           w == BwBits(Bandwidth(request))
           tab == TuneTable(w, dig % 256, (dig \div 256) % 256)
<1>1. CalcRfTuneRegs(request)
      = IF Upper(request) THEN set_reg_bits(tab, \h80, 6, 7, 1) ELSE tab
  BY SMT DEF CalcRfTuneRegs, TuneTable
<1>2. dig \in Nat /\ w \in 0..63
  BY RequestFits, DigIsNearest, SMT
<1> HIDE DEF dig, w
<1>3. PICK lo \in 0..255 : lo = dig % 256
  <2>1. dig % 256 \in 0..255
    BY <1>2, SMT
  <2>2. QED
    BY <2>1, Zenon
<1>4. PICK hi \in 0..255 : hi = (dig \div 256) % 256
  <2>1. PICK q \in Nat : q = dig \div 256
    BY <1>2, SMT
  <2>2. q % 256 \in 0..255
    BY <2>1, SMT
  <2>3. QED
    BY <2>1, <2>2, Zenon
<1>5. tab = TuneTable(w, lo, hi)
  BY <1>3, <1>4, Zenon
<1> HIDE DEF tab
<1>6. /\ tab = Six(Row(\h0f, 0), Row(\h0c, w), Row(\h0d, lo), Row(\h0e, hi),
                   Row(\h80, 1), Row(\h0f, 1))
      /\ set_reg_bits(tab, \h80, 6, 7, 1)
         = Six(Row(\h0f, 0), Row(\h0c, w), Row(\h0d, lo), Row(\h0e, hi),
               Row(\h80, 65), Row(\h0f, 1))
  <2>1. /\ TuneTable(w, lo, hi)
           = Six(Row(\h0f, 0), Row(\h0c, w), Row(\h0d, lo), Row(\h0e, hi), Row(\h80, 1),
                 Row(\h0f, 1))
        /\ set_reg_bits(TuneTable(w, lo, hi), \h80, 6, 7, 1)
           = Six(Row(\h0f, 0), Row(\h0c, w), Row(\h0d, lo), Row(\h0e, hi), Row(\h80, 65),
                 Row(\h0f, 1))
    <3>1. w \in 0..63
      BY <1>2, SMT
    <3>2. QED
      BY <3>1, TuneTableRows, ZenonT(40)
  <2>2. QED
    BY <1>5, <2>1
<1>7. TuneRows(request)
      = Six(Row(\h0f, 0), Row(\h0c, w), Row(\h0d, lo), Row(\h0e, hi),
            Row(\h80, BandBits(request)), Row(\h0f, 1))
  BY <1>3, <1>4, Zenon DEF TuneRows, dig, w
<1>8. QED
  BY <1>1, <1>6, <1>7, SMT DEF BandBits
-----------------------------------------------------------------------------
(* The types. *)

FirstTable(request) == CalcInitRegs(Mode(request.delsys))
SecondTable(request) == CalcRfTuneRegs(request)

\* The tables have no register in common.
FirstRegs  == {\h01, \h02, \h03, \h05, \h06, \h09, \h0a, \h0b}
SecondRegs == {\h0c, \h0d, \h0e, \h0f, \h80}
RowIn(regs) == [reg : regs, val : 0..255]

LEMMA FiveRows ==
  ASSUME NEW R, NEW a \in R, NEW b \in R, NEW c \in R, NEW d \in R, NEW e \in R
  PROVE  Five(a, b, c, d, e) \in Seq(R)
  BY SMT DEF Five

LEMMA SixRows ==
  ASSUME NEW R, NEW a \in R, NEW b \in R, NEW c \in R, NEW d \in R, NEW e \in R, NEW f \in R
  PROVE  Six(a, b, c, d, e, f) \in Seq(R)
  BY SMT DEF Six

LEMMA EightRows ==
  ASSUME NEW R, NEW a \in R, NEW b \in R, NEW c \in R, NEW d \in R, NEW e \in R,
         NEW f \in R, NEW g \in R, NEW h \in R
  PROVE  Eight(a, b, c, d, e, f, g, h) \in Seq(R)
  BY SMT DEF Eight

LEMMA FirstRows ==
  ASSUME NEW request, Known(request)
  PROVE  FirstTable(request) \in Seq(RowIn(FirstRegs))
<1> DEFINE mode == Mode(request.delsys)
           R == RowIn(FirstRegs)
<1>1. mode \in Modes
  BY RequestFits, Zenon
<1> HIDE DEF mode
<1>2. ModeBits[mode] \in 16..18
  BY <1>1, ModeFits, Zenon
<1>3. /\ IfBits \in 0..31 /\ ClkBits \in 0..15 /\ MxlConfig.xtal \in 0..15
      /\ 8 - MxlConfig.if_diff_out_level \in 0..255
  BY ConfigBits, Zenon
<1>4. /\ Row(\h02, IfBits) \in R /\ Row(\h05, MxlConfig.xtal) \in R
      /\ Row(\h06, ModeBits[mode]) \in R /\ Row(\h01, 1) \in R
      /\ Row(\h06, \h10) \in R /\ Row(\h09, \hc1) \in R
      /\ Row(\h0a, 8 - MxlConfig.if_diff_out_level) \in R /\ Row(\h0b, \h17) \in R
  BY <1>2, <1>3, SMT DEF Row, RowIn, FirstRegs
<1>5. Row(\h03, 16 * MxlConfig.xtal + ClkBits) \in R
  BY <1>3, SMT DEF Row, RowIn, FirstRegs
<1> HIDE DEF R
<1>6. InitRows(mode) \in Seq(R)
  BY <1>4, <1>5, FiveRows, Zenon DEF InitRows
<1>7. CableRows \in Seq(R)
  BY <1>4, <1>5, EightRows, Zenon DEF CableRows
<1>8. QED
  BY <1>1, <1>6, <1>7, InitTable, Zenon DEF FirstTable, mode, R

LEMMA SecondRows ==
  ASSUME NEW request, Known(request)
  PROVE  SecondTable(request) \in Seq(RowIn(SecondRegs))
<1> DEFINE dig == DigRfFreq(request.freq)
           w == BwBits(Bandwidth(request))
           R == RowIn(SecondRegs)
<1>1. dig \in Nat
  BY RequestFits, DigIsNearest, SMT
<1>2. w \in 0..63
  BY RequestFits, SMT
<1> HIDE DEF dig, w
<1>3. dig % 256 \in 0..255 /\ (dig \div 256) % 256 \in 0..255
  BY <1>1, SMT
<1>4. /\ Row(\h0f, 0) \in R /\ Row(\h0c, w) \in R /\ Row(\h0d, dig % 256) \in R
      /\ Row(\h0e, (dig \div 256) % 256) \in R /\ Row(\h80, 65) \in R /\ Row(\h80, 1) \in R
      /\ Row(\h0f, 1) \in R
  BY <1>2, <1>3, SMT DEF Row, RowIn, SecondRegs
<1> HIDE DEF R
<1> DEFINE z == Row(\h80, BandBits(request))
<1>5. z \in R
  BY <1>4, Zenon DEF BandBits
<1> HIDE DEF z
<1>6. Six(Row(\h0f, 0), Row(\h0c, w), Row(\h0d, dig % 256),
          Row(\h0e, (dig \div 256) % 256), z, Row(\h0f, 1)) \in Seq(R)
  BY <1>4, <1>5, SixRows, ZenonT(40)
<1>7. TuneRows(request) \in Seq(R)
  BY <1>6, Zenon DEF TuneRows, dig, w, z
<1>8. QED
  BY <1>7, TuneTableIs, Zenon DEF SecondTable, R

LEMMA TablesFit ==
  ASSUME NEW request, Known(request)
  PROVE  FirstTable(request) \in Seq(RowType) /\ SecondTable(request) \in Seq(RowType)
<1>1. RowIn(FirstRegs) \subseteq RowType /\ RowIn(SecondRegs) \subseteq RowType
  BY SMT DEF RowIn, RowType, FirstRegs, SecondRegs, MxlRegs
<1>2. \A R, S : R \subseteq S => Seq(R) \subseteq Seq(S)
  BY SMT
<1>3. QED
  BY <1>1, <1>2, FirstRows, SecondRows, Zenon

\* What the tables and the requests need of each other, and the types.
Asked ==
  /\ mxl_request \in MxlRequests \cup {NoRequest}
  /\ mxl_at \in {"init", "tune"} => Known(mxl_request)

Stored ==
  /\ mxl_freq \in {r.freq : r \in MxlRequests} \cup {0} /\ mxl_tuned \in BOOLEAN
  /\ mxl_rest \in Seq(RowType) /\ mxl_chip \in [MxlRegs -> 0..255]
  /\ mxl_intact \in BOOLEAN

TypeInv == UserInv /\ Asked /\ Stored

LEMMA TypeInit == MxlInit => TypeInv
<1> SUFFICES ASSUME MxlInit PROVE TypeInv
  OBVIOUS
<1>1. Asked
  BY SMT DEF MxlInit, Asked
<1>2. Stored
  <2>1. <<>> \in Seq(RowType) /\ [reg \in MxlRegs |-> 0] \in [MxlRegs -> 0..255]
    BY SMT
  <2>2. QED
    BY <2>1, Zenon DEF MxlInit, Stored
<1>3. QED
  BY <1>1, <1>2, UserInit, Zenon DEF TypeInv

\* A transfer whose effect is typed leaves a typed chip.
LEMMA TransferTypes ==
  ASSUME Stored, NEW effect \in [MxlRegs -> 0..255], NEW ok \in BOOLEAN,
         Transfer(effect, ok)
  PROVE  mxl_chip' \in [MxlRegs -> 0..255] /\ mxl_intact' \in BOOLEAN
  BY ZenonT(40) DEF Transfer, Stored

LEMMA WriteTypes ==
  ASSUME Stored, NEW row \in RowType, NEW ok \in BOOLEAN, WriteRow(row, ok)
  PROVE  mxl_chip' \in [MxlRegs -> 0..255] /\ mxl_intact' \in BOOLEAN
<1>1. [mxl_chip EXCEPT ![row.reg] = row.val] \in [MxlRegs -> 0..255]
  BY SMT DEF Stored, RowType
<1>2. QED
  BY <1>1, TransferTypes, Zenon DEF WriteRow

\* The rows that are written outside of tables.
LEMMA SingleRows ==
  /\ Row(\h01, 1) \in RowType /\ Row(\h01, 0) \in RowType /\ Row(\h0f, 0) \in RowType
  BY SMT DEF Row, RowType, MxlRegs

LEMMA TypeStep == TypeInv /\ [MxlNext]_mxl_vars => TypeInv'
<1>1. SUFFICES ASSUME TypeInv, [MxlNext]_mxl_vars
               PROVE  TypeInv'
  OBVIOUS
<1>2. UserInv /\ UserInv' /\ Places /\ Asked /\ Stored
  BY <1>1, UserStep, Zenon DEF TypeInv, UserInv
<1>3. SUFFICES Asked' /\ Stored'
  BY <1>2, Zenon DEF TypeInv
<1>4. CASE Attach \/ MxlRelease \/ MxlRemove
  <2>1. /\ mxl_request' = mxl_request /\ mxl_rest' = mxl_rest /\ mxl_chip' = mxl_chip
        /\ mxl_intact' = mxl_intact /\ mxl_tuned' \in {mxl_tuned, FALSE}
        /\ mxl_freq' \in {mxl_freq, 0} /\ mxl_at' \in {"idle", "chip_id", "reset"}
    BY <1>4, Zenon DEF Attach, MxlRelease, MxlRemove, LeaveInstance, mxl_bus
  <2>2. QED
    BY <1>2, <2>1, Zenon DEF Asked, Stored
<1>5. ASSUME NEW at, NEW effect \in [MxlRegs -> 0..255],
             NEW next \in {"reset", "loop_thru", "idle"}, AttachStep(at, effect, next)
      PROVE  Asked' /\ Stored'
  <2>1. mxl_chip' \in [MxlRegs -> 0..255] /\ mxl_intact' \in BOOLEAN
    BY <1>2, <1>5, TransferTypes, Zenon DEF AttachStep
  <2>2. mxl_at' \notin {"init", "tune"}
    BY <1>5, Zenon DEF AttachStep
  <2>3. QED
    BY <1>2, <1>5, <2>1, <2>2, Zenon DEF AttachStep, Asked, Stored
<1>5a. CASE AttachSteps
  <2>1. mxl_chip \in [MxlRegs -> 0..255] /\ \h04 \in MxlRegs
        /\ MxlConfig.loop_thru_enable \in 0..255
    BY <1>2, ConfigAssumption, SMT DEF Stored, MxlRegs
  <2>2. \A f \in [MxlRegs -> 0..255], r \in MxlRegs, v \in 0..255 :
          [f EXCEPT ![r] = v] \in [MxlRegs -> 0..255]
    BY SMT
  <2>3. [mxl_chip EXCEPT ![\h04] = MxlConfig.loop_thru_enable] \in [MxlRegs -> 0..255]
    BY <2>1, <2>2, Zenon
  <2>4. [reg \in MxlRegs |-> 0] \in [MxlRegs -> 0..255]
    BY SMT
  <2>5. CASE AttachStep("chip_id", mxl_chip, "reset")
    BY <1>5, <2>1, <2>5, Zenon
  <2>6. CASE AttachStep("reset", [reg \in MxlRegs |-> 0], "loop_thru")
    BY <1>5, <2>4, <2>6, Zenon
  <2>7. CASE AttachStep("loop_thru", [mxl_chip EXCEPT ![\h04] = MxlConfig.loop_thru_enable],
                        "idle")
    BY <1>5, <2>3, <2>7, Zenon
  <2>8. QED
    BY <1>5a, <2>5, <2>6, <2>7, Zenon DEF AttachSteps
<1>6. CASE MxlWriteReg
  <2>1. Head(mxl_rest) \in RowType /\ Tail(mxl_rest) \in Seq(RowType)
    BY <1>2, <1>6, SMT DEF MxlWriteReg, Stored
  <2>2. mxl_chip' \in [MxlRegs -> 0..255] /\ mxl_intact' \in BOOLEAN
    BY <1>2, <1>6, <2>1, WriteTypes, Zenon DEF MxlWriteReg
  <2>3. mxl_rest' \in Seq(RowType) /\ mxl_at' \in {mxl_at, "idle"}
    <3>1. <<>> \in Seq(RowType)
      BY SMT
    <3>2. QED
      BY <1>6, <2>1, <3>1, Zenon DEF MxlWriteReg
  <2>4. mxl_request' = mxl_request /\ mxl_freq' = mxl_freq /\ mxl_tuned' = mxl_tuned
    BY <1>6, Zenon DEF MxlWriteReg, mxl_tuning
  <2>5. QED
    BY <1>2, <2>2, <2>3, <2>4, Zenon DEF Asked, Stored
<1>7. CASE MxlTune
  <2>1. Known(mxl_request) /\ mxl_rest' = SecondTable(mxl_request)
        /\ mxl_request' = mxl_request
    BY <1>2, <1>7, Zenon DEF MxlTune, Asked, SecondTable, mxl_tuning
  <2>2. mxl_rest' \in Seq(RowType)
    BY <2>1, TablesFit, Zenon
  <2>3. QED
    BY <1>2, <1>7, <2>1, <2>2, Zenon DEF MxlTune, Asked, Stored, mxl_tuning, mxl_bus
<1>8. CASE MxlTuned
  <2>1. mxl_request \in MxlRequests
    BY <1>2, <1>8, Zenon DEF MxlTuned, Asked, Known
  <2>2. QED
    BY <1>2, <1>8, <2>1, Zenon DEF MxlTuned, Asked, Stored, mxl_bus
<1>9. CASE MxlWake \/ MxlSleep \/ MxlSleeps
  <2>1. \E row \in RowType, ok \in BOOLEAN : WriteRow(row, ok)
    BY <1>9, SingleRows, Zenon DEF MxlWake, MxlSleep, MxlSleeps
  <2>2. mxl_chip' \in [MxlRegs -> 0..255] /\ mxl_intact' \in BOOLEAN
    BY <1>2, <2>1, WriteTypes, Zenon
  <2>3. /\ mxl_request' = mxl_request /\ mxl_freq' = mxl_freq /\ mxl_rest' = mxl_rest
        /\ mxl_tuned' \in BOOLEAN /\ mxl_at' \in {mxl_at, "idle", "sleep"}
    BY <1>2, <1>9, Zenon DEF MxlWake, MxlSleep, MxlSleeps, mxl_tuning, Stored
  <2>4. QED
    BY <1>2, <2>2, <2>3, Zenon DEF Asked, Stored
<1>10. ASSUME NEW request \in MxlRequests, MxlSetParams(request)
       PROVE  Asked' /\ Stored'
  <2>1. Known(request) /\ mxl_rest' = FirstTable(request)
    BY <1>10, Zenon DEF MxlSetParams, Known, FirstTable
  <2>2. mxl_rest' \in Seq(RowType)
    BY <2>1, TablesFit, Zenon
  <2>3. QED
    BY <1>2, <1>10, <2>1, <2>2, Zenon DEF MxlSetParams, Asked, Stored
<1>11. CASE UNCHANGED mxl_vars
  BY <1>2, <1>11, Zenon DEF mxl_vars, mxl_tuning, mxl_bus, Asked, Stored
<1>12. QED
  BY <1>1, <1>4, <1>5a, <1>6, <1>7, <1>8, <1>9, <1>10, <1>11, Zenon DEF MxlNext, MxlWork

LEMMA Typed == MxlSpec => []TypeInv
  BY TypeInit, TypeStep, PTL DEF MxlSpec

\* The registers are bytes, the tables name registers of the chip, and the count of
\* the instance exceeds its users by no more than what has gone wrong.
THEOREM TypeCorrect == MxlSpec => []TypeOKMxl
<1>1. TypeInv => TypeOKMxl
  <2>1. SUFFICES ASSUME TypeInv PROVE TypeOKMxl
    OBVIOUS
  <2>2. mxl_count \in 0..MaxFaults + 1 /\ mxl_faults \in 0..MaxFaults
    <3>1. /\ mxl_faults \in 0..MaxFaults /\ mxl_count \in Nat
          /\ mxl_count - 1 \in 0..mxl_faults \/ mxl_count \in 0..mxl_faults
      BY <2>1, Zenon DEF TypeInv, UserInv, Counted
    <3>2. QED
      BY <3>1, FaultAssumption, SMT
  <2>3. QED
    BY <2>1, <2>2, Zenon DEF TypeInv, UserInv, Places, Asked, Stored, RowType, TypeOKMxl
<1>2. QED
  BY <1>1, Typed, PTL
-----------------------------------------------------------------------------
(* What is written stays written. *)

\* The rows that are left are the end of the table, and of those that went before
\* the last one of a register is what the register holds.
EndOf(rest, tab) ==
  /\ Len(rest) <= Len(tab)
  /\ \A i \in 1..Len(rest) : rest[i] = tab[Len(tab) - Len(rest) + i]

Holds(chip, tab, n) ==
  \A i \in 1..n :
    (\A j \in i + 1..n : tab[j].reg # tab[i].reg) => chip[tab[i].reg] = tab[i].val

Writing(chip, rest, tab) == EndOf(rest, tab) /\ Holds(chip, tab, Len(tab) - Len(rest))
Whole(chip, tab) == Holds(chip, tab, Len(tab))

LEMMA HoldsRow ==
  ASSUME NEW tab \in Seq(RowType), NEW n \in Nat, n + 1 <= Len(tab),
         NEW chip \in [MxlRegs -> 0..255], Holds(chip, tab, n), NEW chip2,
         chip2 = [chip EXCEPT ![tab[n + 1].reg] = tab[n + 1].val]
  PROVE  Holds(chip2, tab, n + 1)
<1>1. \A i \in 1..n + 1 : tab[i] \in RowType
  BY SMT
<1>2. \A i \in 1..n + 1 : tab[i].reg \in MxlRegs
  BY <1>1, Zenon DEF RowType
<1>3. ASSUME NEW i \in 1..n + 1, \A j \in i + 1..n + 1 : tab[j].reg # tab[i].reg
      PROVE  chip2[tab[i].reg] = tab[i].val
  <2>1. CASE i = n + 1
    BY <1>2, <2>1, SMT
  <2>2. CASE i # n + 1
    <3>1. i \in 1..n /\ n + 1 \in i + 1..n + 1 /\ \A j \in i + 1..n : j \in i + 1..n + 1
      BY <2>2, SMT
    <3>2. tab[n + 1].reg # tab[i].reg /\ \A j \in i + 1..n : tab[j].reg # tab[i].reg
      BY <1>3, <3>1, Zenon
    <3>3. chip[tab[i].reg] = tab[i].val
      BY <3>1, <3>2, Zenon DEF Holds
    <3>4. QED
      BY <1>2, <3>2, <3>3, SMT
  <2>3. QED
    BY <2>1, <2>2, Zenon
<1>4. QED
  BY <1>3, Zenon DEF Holds

LEMMA HoldsStill ==
  ASSUME NEW tab, NEW n \in Nat, NEW chip \in [MxlRegs -> 0..255], Holds(chip, tab, n),
         NEW reg, NEW val, \A i \in 1..n : tab[i].reg \in MxlRegs /\ tab[i].reg # reg
  PROVE  Holds([chip EXCEPT ![reg] = val], tab, n)
<1>1. \A r \in MxlRegs : r # reg => [chip EXCEPT ![reg] = val][r] = chip[r]
  BY Zenon
<1>2. QED
  BY <1>1, Zenon DEF Holds

\* A row that arrives moves the boundary on.
LEMMA RowWritten ==
  ASSUME NEW tab \in Seq(RowType), NEW rest \in Seq(RowType), rest # <<>>,
         NEW chip \in [MxlRegs -> 0..255], Writing(chip, rest, tab), NEW chip2,
         chip2 = [chip EXCEPT ![Head(rest).reg] = Head(rest).val]
  PROVE  Writing(chip2, Tail(rest), tab)
<1> DEFINE n == Len(tab) - Len(rest)
<1>1. /\ n \in Nat /\ n + 1 <= Len(tab) /\ Len(Tail(rest)) = Len(rest) - 1
      /\ Len(tab) - Len(Tail(rest)) = n + 1
  BY SMT DEF Writing, EndOf
<1>2. Head(rest) = tab[n + 1]
  BY SMT DEF Writing, EndOf
<1>3. EndOf(Tail(rest), tab)
  <2>1. \A i \in 1..Len(Tail(rest)) : Tail(rest)[i] = rest[i + 1] /\ i + 1 \in 1..Len(rest)
    BY <1>1, SMT
  <2>2. \A i \in 1..Len(Tail(rest)) :
          Len(tab) - Len(Tail(rest)) + i = Len(tab) - Len(rest) + (i + 1)
    BY <1>1, SMT
  <2>3. Len(Tail(rest)) <= Len(tab)
    BY <1>1, SMT DEF Writing, EndOf
  <2>4. QED
    BY <2>1, <2>2, <2>3, Zenon DEF Writing, EndOf
<1>4. Holds(chip2, tab, n + 1)
  BY <1>1, <1>2, HoldsRow, Zenon DEF Writing
<1>5. QED
  BY <1>1, <1>3, <1>4, Zenon DEF Writing

LEMMA NothingWritten ==
  ASSUME NEW tab \in Seq(RowType), NEW chip
  PROVE  Writing(chip, tab, tab)
<1>1. Len(tab) - Len(tab) = 0 /\ Len(tab) <= Len(tab) /\ 1..0 = {}
  BY SMT
<1>2. \A i \in 1..Len(tab) : 0 + i = i
  BY SMT
<1>3. QED
  BY <1>1, <1>2, Zenon DEF Writing, EndOf, Holds

LEMMA AllWritten ==
  ASSUME NEW tab \in Seq(RowType), NEW chip, Writing(chip, <<>>, tab)
  PROVE  Whole(chip, tab)
<1>1. Len(tab) - Len(<<>>) = Len(tab)
  BY SMT
<1>2. QED
  BY <1>1, Zenon DEF Writing, Whole

\* The rows of the second table do not touch what the first has set.
LEMMA FirstStays ==
  ASSUME NEW request, Known(request), NEW chip \in [MxlRegs -> 0..255],
         Whole(chip, FirstTable(request)), NEW rest \in Seq(RowType), rest # <<>>,
         EndOf(rest, SecondTable(request)), NEW val
  PROVE  Whole([chip EXCEPT ![Head(rest).reg] = val], FirstTable(request))
<1> DEFINE t1 == FirstTable(request)
           t2 == SecondTable(request)
<1>1. t1 \in Seq(RowIn(FirstRegs)) /\ t2 \in Seq(RowIn(SecondRegs))
  BY FirstRows, SecondRows, Zenon
<1>2. EndOf(rest, t2)
  OBVIOUS
<1> HIDE DEF t1, t2
<1>3. \A i \in 1..Len(t1) : t1[i].reg \in FirstRegs
  <2>1. \A i \in 1..Len(t1) : t1[i] \in RowIn(FirstRegs)
    BY <1>1, SMT
  <2>2. QED
    BY <2>1, Zenon DEF RowIn
<1>4. Head(rest).reg \in SecondRegs
  <2>1. Head(rest) = t2[Len(t2) - Len(rest) + 1] /\ Len(t2) - Len(rest) + 1 \in 1..Len(t2)
    BY <1>1, <1>2, SMT DEF EndOf
  <2>2. Head(rest) \in RowIn(SecondRegs)
    BY <1>1, <2>1, SMT
  <2>3. QED
    BY <2>2, Zenon DEF RowIn
<1>5. \A r \in FirstRegs : r \in MxlRegs /\ \A s \in SecondRegs : r # s
  BY SMT DEF FirstRegs, SecondRegs, MxlRegs
<1>6. Len(t1) \in Nat
  BY <1>1, SMT
<1>7. Holds(chip, t1, Len(t1))
  BY Zenon DEF Whole, t1
<1>8. Holds([chip EXCEPT ![Head(rest).reg] = val], t1, Len(t1))
  BY <1>3, <1>4, <1>5, <1>6, <1>7, HoldsStill, Zenon
<1>9. QED
  BY <1>8, Zenon DEF Whole, t1

-----------------------------------------------------------------------------
(* The call that tunes. *)

\* How far a call is, as long as nothing has gone wrong.
Underway ==
  /\ mxl_at = "init" /\ mxl_intact =>
       Writing(mxl_chip, mxl_rest, FirstTable(mxl_request))
  /\ mxl_at = "tune" /\ mxl_intact =>
       /\ Writing(mxl_chip, mxl_rest, SecondTable(mxl_request))
       /\ Whole(mxl_chip, FirstTable(mxl_request))

Returned ==
  /\ mxl_at \in {"init", "tune", "sleep"} => ~mxl_tuned
  /\ mxl_at = "idle" /\ mxl_tuned =>
       /\ Known(mxl_request) /\ mxl_freq = mxl_request.freq
       /\ mxl_intact => /\ Whole(mxl_chip, FirstTable(mxl_request))
                        /\ Whole(mxl_chip, SecondTable(mxl_request))

TuneInv == TypeInv /\ Underway /\ Returned

\* What the registers hold when a table has been written.
LEMMA FirstHeld ==
  ASSUME NEW request, Known(request), NEW chip, Whole(chip, FirstTable(request))
  PROVE  /\ chip[\h01] = 1 /\ chip[\h02] = IfBits
         /\ chip[\h03] = 16 * MxlConfig.xtal + ClkBits /\ chip[\h05] = MxlConfig.xtal
         /\ chip[\h06] = ModeBits[Mode(request.delsys)]
         /\ request.delsys = "DVBC_ANNEX_B" =>
              /\ chip[\h09] = \hc1 /\ chip[\h0b] = \h17
              /\ chip[\h0a] = 8 - MxlConfig.if_diff_out_level
<1> DEFINE u == 16 * MxlConfig.xtal + ClkBits
           tab == FirstTable(request)
<1>1. Mode(request.delsys) \in Modes
  BY RequestFits, Zenon
<1>2. (Mode(request.delsys) = "DVBC_ANNEX_B") <=> (request.delsys = "DVBC_ANNEX_B")
  BY Zenon DEF Mode
<1>3. tab = IF request.delsys = "DVBC_ANNEX_B" THEN CableRows ELSE InitRows(Mode(request.delsys))
  BY <1>1, <1>2, InitTable, Zenon DEF FirstTable
<1>4. Holds(chip, tab, Len(tab))
  BY Zenon DEF Whole
<1> HIDE DEF u, tab
<1>5. CASE request.delsys = "DVBC_ANNEX_B"
  <2> DEFINE l == 8 - MxlConfig.if_diff_out_level
  <2>1. tab = Eight(Row(\h02, IfBits), Row(\h03, u), Row(\h05, MxlConfig.xtal), Row(\h06, \h10),
                    Row(\h09, \hc1), Row(\h0a, l), Row(\h0b, \h17), Row(\h01, 1))
    BY <1>3, <1>5, Zenon DEF CableRows, u
  <2> HIDE DEF l
  <2>2. /\ Len(tab) = 8
        /\ tab[1] = Row(\h02, IfBits) /\ tab[2] = Row(\h03, u)
        /\ tab[3] = Row(\h05, MxlConfig.xtal) /\ tab[4] = Row(\h06, \h10)
        /\ tab[5] = Row(\h09, \hc1) /\ tab[6] = Row(\h0a, l) /\ tab[7] = Row(\h0b, \h17)
        /\ tab[8] = Row(\h01, 1)
    BY <2>1, SMT DEF Eight, Row
  <2>3. /\ tab[1].reg = \h02 /\ tab[2].reg = \h03 /\ tab[3].reg = \h05
        /\ tab[4].reg = \h06 /\ tab[5].reg = \h09 /\ tab[6].reg = \h0a /\ tab[7].reg = \h0b
        /\ tab[8].reg = \h01 /\ tab[1].val = IfBits /\ tab[2].val = u
        /\ tab[3].val = MxlConfig.xtal /\ tab[4].val = \h10 /\ tab[5].val = \hc1
        /\ tab[6].val = l /\ tab[7].val = \h17 /\ tab[8].val = 1
    BY <2>2, SMT DEF Row
  <2>4. \A i, j \in 1..8 : j \in i + 1..8 => tab[j].reg # tab[i].reg
    BY <2>3, SMT
  <2>5. \A i \in 1..8 : chip[tab[i].reg] = tab[i].val
    <3>1. \A i \in 1..8 : i + 1..8 \subseteq 1..8
      BY SMT
    <3>2. QED
      BY <1>4, <2>2, <2>4, <3>1, Zenon DEF Holds
  <2>6. /\ chip[\h01] = 1 /\ chip[\h02] = IfBits /\ chip[\h03] = u
        /\ chip[\h05] = MxlConfig.xtal /\ chip[\h06] = \h10 /\ chip[\h09] = \hc1
        /\ chip[\h0a] = l /\ chip[\h0b] = \h17
    BY <2>3, <2>5, SMT
  <2>7. ModeBits[Mode(request.delsys)] = \h10
    BY <1>5, SMT DEF ModeBits, Mode
  <2>8. QED
    BY <1>5, <2>6, <2>7, Zenon DEF u, l
<1>6. CASE request.delsys # "DVBC_ANNEX_B"
  <2> DEFINE m == ModeBits[Mode(request.delsys)]
  <2>1. tab = Five(Row(\h02, IfBits), Row(\h03, u), Row(\h05, MxlConfig.xtal), Row(\h06, m),
                   Row(\h01, 1))
    BY <1>3, <1>6, Zenon DEF InitRows, u
  <2> HIDE DEF m
  <2>2. /\ Len(tab) = 5
        /\ tab[1] = Row(\h02, IfBits) /\ tab[2] = Row(\h03, u)
        /\ tab[3] = Row(\h05, MxlConfig.xtal) /\ tab[4] = Row(\h06, m)
        /\ tab[5] = Row(\h01, 1)
    BY <2>1, SMT DEF Five, Row
  <2>3. /\ tab[1].reg = \h02 /\ tab[2].reg = \h03 /\ tab[3].reg = \h05
        /\ tab[4].reg = \h06 /\ tab[5].reg = \h01
        /\ tab[1].val = IfBits /\ tab[2].val = u
        /\ tab[3].val = MxlConfig.xtal /\ tab[4].val = m /\ tab[5].val = 1
    BY <2>2, SMT DEF Row
  <2>4. \A i, j \in 1..5 : j \in i + 1..5 => tab[j].reg # tab[i].reg
    BY <2>3, SMT
  <2>5. \A i \in 1..5 : chip[tab[i].reg] = tab[i].val
    <3>1. \A i \in 1..5 : i + 1..5 \subseteq 1..5
      BY SMT
    <3>2. QED
      BY <1>4, <2>2, <2>4, <3>1, Zenon DEF Holds
  <2>6. QED
    BY <1>6, <2>3, <2>5, SMT DEF u, m
<1>7. QED
  BY <1>5, <1>6, Zenon

LEMMA SecondShape ==
  ASSUME NEW request, Known(request), NEW tab, tab = SecondTable(request)
  PROVE  /\ Len(tab) = 6
         /\ tab[1].reg = \h0f /\ tab[2].reg = \h0c /\ tab[3].reg = \h0d
         /\ tab[4].reg = \h0e /\ tab[5].reg = \h80 /\ tab[6].reg = \h0f
         /\ tab[1].val = 0 /\ tab[2].val = BwBits(Bandwidth(request))
         /\ tab[3].val = DigRfFreq(request.freq) % 256
         /\ tab[4].val = (DigRfFreq(request.freq) \div 256) % 256
         /\ tab[5].val = BandBits(request)
         /\ tab[6].val = 1
<1> DEFINE w == BwBits(Bandwidth(request))
           lo == DigRfFreq(request.freq) % 256
           hi == (DigRfFreq(request.freq) \div 256) % 256
           z == BandBits(request)
<1>1. tab = Six(Row(\h0f, 0), Row(\h0c, w), Row(\h0d, lo), Row(\h0e, hi), Row(\h80, z),
                Row(\h0f, 1))
  BY TuneTableIs, Zenon DEF SecondTable, TuneRows
<1> HIDE DEF w, lo, hi, z
<1>2. /\ Len(tab) = 6
      /\ tab[1] = Row(\h0f, 0) /\ tab[2] = Row(\h0c, w) /\ tab[3] = Row(\h0d, lo)
      /\ tab[4] = Row(\h0e, hi) /\ tab[5] = Row(\h80, z) /\ tab[6] = Row(\h0f, 1)
  BY <1>1, SMT DEF Six
<1>3. /\ tab[1].reg = \h0f /\ tab[2].reg = \h0c /\ tab[3].reg = \h0d
      /\ tab[4].reg = \h0e /\ tab[5].reg = \h80 /\ tab[6].reg = \h0f
      /\ tab[1].val = 0 /\ tab[2].val = w /\ tab[3].val = lo
      /\ tab[4].val = hi /\ tab[5].val = z /\ tab[6].val = 1
  BY <1>2, SMT DEF Row
<1>4. QED
  BY <1>2, <1>3, Zenon DEF w, lo, hi, z

LEMMA SecondHeld ==
  ASSUME NEW request, Known(request), NEW chip, Whole(chip, SecondTable(request))
  PROVE  /\ chip[\h0f] = 1 /\ chip[\h0c] = BwBits(Bandwidth(request))
         /\ chip[\h0d] = DigRfFreq(request.freq) % 256
         /\ chip[\h0e] = (DigRfFreq(request.freq) \div 256) % 256
         /\ chip[\h80] = BandBits(request)
<1>1. PICK tab : tab = SecondTable(request)
  BY Zenon
<1>2. PICK w, lo, hi, z :
        /\ w = BwBits(Bandwidth(request)) /\ lo = DigRfFreq(request.freq) % 256
        /\ hi = (DigRfFreq(request.freq) \div 256) % 256 /\ z = BandBits(request)
  BY Zenon
<1>3. /\ Len(tab) = 6
      /\ tab[1].reg = \h0f /\ tab[2].reg = \h0c /\ tab[3].reg = \h0d
      /\ tab[4].reg = \h0e /\ tab[5].reg = \h80 /\ tab[6].reg = \h0f
      /\ tab[2].val = w /\ tab[3].val = lo /\ tab[4].val = hi /\ tab[5].val = z
      /\ tab[6].val = 1
  <2>1. /\ Len(tab) = 6
        /\ tab[1].reg = \h0f /\ tab[2].reg = \h0c /\ tab[3].reg = \h0d
        /\ tab[4].reg = \h0e /\ tab[5].reg = \h80 /\ tab[6].reg = \h0f
        /\ tab[6].val = 1
    BY <1>1, SecondShape, SMT
  <2>2. tab[2].val = w
    BY <1>1, <1>2, SecondShape, ZenonT(40)
  <2>3. tab[3].val = lo
    BY <1>1, <1>2, SecondShape, ZenonT(40)
  <2>4. tab[4].val = hi
    BY <1>1, <1>2, SecondShape, ZenonT(40)
  <2>5. tab[5].val = z
    BY <1>1, <1>2, SecondShape, Zenon
  <2>6. QED
    BY <2>1, <2>2, <2>3, <2>4, <2>5, Zenon
<1>4. Holds(chip, tab, 6)
  BY <1>1, <1>3, Zenon DEF Whole
<1>5. \A i \in 2..6 : \A j \in i + 1..6 : tab[j].reg # tab[i].reg
  BY <1>3, SMT
<1>6. \A i \in 2..6 : i \in 1..6
  BY SMT
<1>7. \A i \in 2..6 : chip[tab[i].reg] = tab[i].val
  BY <1>4, <1>5, <1>6, Zenon DEF Holds
<1>8. chip[\h0f] = 1 /\ chip[\h0c] = w /\ chip[\h0d] = lo /\ chip[\h0e] = hi /\ chip[\h80] = z
  BY <1>3, <1>7, SMT
<1>9. QED
  BY <1>2, <1>8, Zenon

LEMMA TuneInit == MxlInit => TuneInv
<1> SUFFICES ASSUME MxlInit PROVE TuneInv
  OBVIOUS
<1>1. TypeInv
  BY TypeInit, Zenon
<1>2. mxl_at = "idle" /\ mxl_tuned = FALSE
  BY Zenon DEF MxlInit
<1>3. QED
  BY <1>1, <1>2, Zenon DEF TuneInv, Underway, Returned

\* A transfer that leaves everything intact is one that is had and reported.
LEMMA CleanTransfer ==
  ASSUME NEW effect, NEW ok, Transfer(effect, ok), mxl_intact'
  PROVE  ok /\ mxl_chip' = effect /\ mxl_intact
  BY Zenon DEF Transfer

LEMMA WritesOn ==
  ASSUME TuneInv, MxlWriteReg, mxl_at' # "idle", mxl_intact'
  PROVE  /\ mxl_intact /\ mxl_at' = mxl_at /\ mxl_rest # <<>> /\ mxl_rest' = Tail(mxl_rest)
         /\ mxl_chip' = [mxl_chip EXCEPT ![Head(mxl_rest).reg] = Head(mxl_rest).val]
<1>1. WriteRow(Head(mxl_rest), TRUE) /\ mxl_rest' = Tail(mxl_rest) /\ mxl_at' = mxl_at
  BY Zenon DEF MxlWriteReg
<1>2. mxl_rest # <<>>
  BY Zenon DEF MxlWriteReg
<1>3. QED
  BY <1>1, <1>2, CleanTransfer, Zenon DEF WriteRow

LEMMA TuneStep == TuneInv /\ [MxlNext]_mxl_vars => TuneInv'
<1>1. SUFFICES ASSUME TuneInv, [MxlNext]_mxl_vars
               PROVE  TuneInv'
  OBVIOUS
<1>2. /\ TypeInv /\ TypeInv' /\ Places /\ Asked /\ Stored /\ Underway /\ Returned
      /\ mxl_chip \in [MxlRegs -> 0..255] /\ mxl_rest \in Seq(RowType)
  BY <1>1, TypeStep, Zenon DEF TuneInv, TypeInv, UserInv, Stored
<1>3. SUFFICES Underway' /\ Returned'
  BY <1>2, Zenon DEF TuneInv
<1>4. CASE Attach
  <2>1. mxl_at' \in {"chip_id", "reset"}
    BY <1>4, Zenon DEF Attach
  <2>2. QED
    BY <2>1, Zenon DEF Underway, Returned
<1>5. CASE MxlRelease \/ MxlRemove
  BY <1>5, Zenon DEF MxlRelease, MxlRemove, LeaveInstance, Underway, Returned
<1>6. CASE AttachSteps
  <2>1. mxl_at' \in {"reset", "loop_thru", "idle"} /\ mxl_tuned' = FALSE
    BY <1>6, Zenon DEF AttachSteps, AttachStep
  <2>2. QED
    BY <2>1, Zenon DEF Underway, Returned
<1>7. CASE MxlWriteReg
  <2>1. mxl_request' = mxl_request /\ ~mxl_tuned /\ ~mxl_tuned' /\ mxl_at \in {"init", "tune"}
    BY <1>2, <1>7, Zenon DEF MxlWriteReg, mxl_tuning, Places, Returned
  <2>2. Returned'
    BY <2>1, Zenon DEF Returned
  <2>3. Known(mxl_request)
    BY <1>2, <2>1, Zenon DEF Asked
  <2>4. ASSUME mxl_at' # "idle", mxl_intact'
        PROVE  Underway'
    <3>1. /\ mxl_intact /\ mxl_at' = mxl_at /\ mxl_rest # <<>> /\ mxl_rest' = Tail(mxl_rest)
          /\ mxl_chip' = [mxl_chip EXCEPT ![Head(mxl_rest).reg] = Head(mxl_rest).val]
      BY <1>1, <1>7, <2>4, WritesOn, Zenon
    <3>2. PICK request, chip, chip2, rest, rest2 :
            /\ request = mxl_request /\ chip = mxl_chip /\ chip2 = mxl_chip'
            /\ rest = mxl_rest /\ rest2 = mxl_rest'
      BY Zenon
    <3>3. /\ Known(request) /\ chip \in [MxlRegs -> 0..255] /\ rest \in Seq(RowType)
          /\ rest # <<>> /\ rest2 = Tail(rest)
          /\ chip2 = [chip EXCEPT ![Head(rest).reg] = Head(rest).val]
      BY <1>2, <2>3, <3>1, <3>2, Zenon
    <3>4. FirstTable(request) \in Seq(RowType) /\ SecondTable(request) \in Seq(RowType)
      BY <3>3, TablesFit, Zenon
    <3>5. CASE mxl_at = "init"
      <4>1. Writing(chip, rest, FirstTable(request))
        BY <1>2, <3>1, <3>2, <3>5, Zenon DEF Underway
      <4>2. Writing(chip2, rest2, FirstTable(request))
        BY <3>3, <3>4, <4>1, RowWritten, Zenon
      <4>3. QED
        BY <2>1, <3>1, <3>2, <3>5, <4>2, Zenon DEF Underway
    <3>6. CASE mxl_at = "tune"
      <4>1. Writing(chip, rest, SecondTable(request)) /\ Whole(chip, FirstTable(request))
        BY <1>2, <3>1, <3>2, <3>6, Zenon DEF Underway
      <4>2. Writing(chip2, rest2, SecondTable(request))
        BY <3>3, <3>4, <4>1, RowWritten, Zenon
      <4>3. Whole(chip2, FirstTable(request))
        BY <3>3, <4>1, FirstStays, Zenon DEF Writing
      <4>4. QED
        BY <2>1, <3>1, <3>2, <3>6, <4>2, <4>3, Zenon DEF Underway
    <3>7. QED
      BY <2>1, <3>5, <3>6, Zenon
  <2>5. Underway'
    BY <2>4, Zenon DEF Underway
  <2>6. QED
    BY <2>2, <2>5, Zenon
<1>8. CASE MxlTune
  <2>1. /\ mxl_at = "init" /\ mxl_rest = <<>> /\ mxl_at' = "tune"
        /\ mxl_rest' = SecondTable(mxl_request) /\ mxl_request' = mxl_request
        /\ mxl_tuned' = mxl_tuned /\ mxl_chip' = mxl_chip /\ mxl_intact' = mxl_intact
    BY <1>8, Zenon DEF MxlTune, SecondTable, mxl_tuning, mxl_bus
  <2>2. Known(mxl_request)
    BY <1>2, <2>1, Zenon DEF Asked
  <2>3. FirstTable(mxl_request) \in Seq(RowType) /\ SecondTable(mxl_request) \in Seq(RowType)
    BY <2>2, TablesFit, Zenon
  <2>4. mxl_intact => Whole(mxl_chip, FirstTable(mxl_request))
    BY <1>2, <2>1, <2>3, AllWritten, Zenon DEF Underway
  <2>5. Writing(mxl_chip, SecondTable(mxl_request), SecondTable(mxl_request))
    BY <2>3, NothingWritten, Zenon
  <2>6. QED
    BY <1>2, <2>1, <2>4, <2>5, Zenon DEF Underway, Returned
<1>9. CASE MxlTuned
  <2>1. /\ mxl_at = "tune" /\ mxl_rest = <<>> /\ mxl_at' = "idle"
        /\ mxl_freq' = mxl_request.freq /\ mxl_request' = mxl_request
        /\ mxl_chip' = mxl_chip /\ mxl_intact' = mxl_intact
    BY <1>9, Zenon DEF MxlTuned, mxl_bus
  <2>2. Known(mxl_request)
    BY <1>2, <2>1, Zenon DEF Asked
  <2>3. SecondTable(mxl_request) \in Seq(RowType)
    BY <2>2, TablesFit, Zenon
  <2>4. mxl_intact => /\ Whole(mxl_chip, FirstTable(mxl_request))
                      /\ Whole(mxl_chip, SecondTable(mxl_request))
    BY <1>2, <2>1, <2>3, AllWritten, Zenon DEF Underway
  <2>5. QED
    BY <2>1, <2>2, <2>4, Zenon DEF Underway, Returned
<1>10. CASE MxlWake
  <2>1. /\ mxl_at = "idle" /\ mxl_at' = "idle" /\ mxl_tuned' = mxl_tuned
        /\ mxl_freq' = mxl_freq /\ mxl_request' = mxl_request
        /\ \E ok \in BOOLEAN : WriteRow(Row(\h01, 1), ok)
    BY <1>10, Zenon DEF MxlWake, mxl_tuning
  <2>2. ASSUME mxl_tuned, mxl_intact'
        PROVE  mxl_intact /\ mxl_chip' = mxl_chip
    <3>1. mxl_intact /\ mxl_chip' = [mxl_chip EXCEPT ![Row(\h01, 1).reg] = Row(\h01, 1).val]
      BY <2>1, <2>2, CleanTransfer, Zenon DEF WriteRow
    <3>2. Row(\h01, 1).reg = \h01 /\ Row(\h01, 1).val = 1
      BY SMT DEF Row
    <3>3. Known(mxl_request) /\ Whole(mxl_chip, FirstTable(mxl_request))
      BY <1>2, <2>1, <2>2, <3>1, Zenon DEF Returned
    <3>4. mxl_chip[\h01] = 1
      BY <3>3, FirstHeld, SMT
    <3>5. \A f \in [MxlRegs -> 0..255] : \A r, v : f[r] = v => [f EXCEPT ![r] = v] = f
      BY SMT
    <3>6. QED
      BY <1>2, <3>1, <3>2, <3>4, <3>5, Zenon
  <2>3. QED
    BY <1>2, <2>1, <2>2, Zenon DEF Underway, Returned
<1>11. CASE MxlSleep
  BY <1>11, Zenon DEF MxlSleep, Underway, Returned
<1>12. CASE MxlSleeps
  BY <1>2, <1>12, Zenon DEF MxlSleeps, mxl_tuning, Underway, Returned
<1>13. ASSUME NEW request \in MxlRequests, MxlSetParams(request)
       PROVE  Underway' /\ Returned'
  <2>1. /\ Known(request) /\ mxl_at' = "init" /\ mxl_rest' = FirstTable(request)
        /\ mxl_request' = request /\ mxl_tuned' = FALSE
    BY <1>13, Zenon DEF MxlSetParams, FirstTable, Known
  <2>2. PICK chip2 : chip2 = mxl_chip'
    BY Zenon
  <2>3. Writing(chip2, FirstTable(request), FirstTable(request))
    BY <2>1, TablesFit, NothingWritten, Zenon
  <2>4. QED
    BY <2>1, <2>2, <2>3, Zenon DEF Underway, Returned
<1>14. CASE UNCHANGED mxl_vars
  BY <1>2, <1>14, Zenon DEF mxl_vars, mxl_tuning, mxl_bus, Underway, Returned
<1>15. QED
  BY <1>1, <1>4, <1>5, <1>6, <1>7, <1>8, <1>9, <1>10, <1>11, <1>12, <1>13, <1>14, Zenon
     DEF MxlNext, MxlWork

LEMMA Tuning == MxlSpec => []TuneInv
  BY TuneInit, TuneStep, PTL DEF MxlSpec

\* A set_params that has returned 0, with nothing gone wrong, leaves the chip awake
\* and tuning at the multiple of 15.625 kHz nearest to the frequency asked for, if 16
\* bits can express it, with the bandwidth and system of the request, and with the
\* crystal, clock output, intermediate frequency and, for cable, output level of the
\* configuration.
THEOREM TunesCompletely == MxlSpec => []TunedComplete
<1>1. TuneInv => TunedComplete
  <2>1. SUFFICES ASSUME TuneInv, mxl_at = "idle", mxl_tuned, mxl_intact
                 PROVE  TunedComplete
    BY Zenon DEF TunedComplete
  <2>2. PICK request, chip : request = mxl_request /\ chip = mxl_chip
    BY Zenon
  <2>3. /\ Known(request) /\ mxl_freq = request.freq
        /\ Whole(chip, FirstTable(request)) /\ Whole(chip, SecondTable(request))
    BY <2>1, <2>2, Zenon DEF TuneInv, Returned
  <2>4. /\ chip[\h01] = 1 /\ chip[\h02] = IfBits
        /\ chip[\h03] = 16 * MxlConfig.xtal + ClkBits /\ chip[\h05] = MxlConfig.xtal
        /\ chip[\h06] = ModeBits[Mode(request.delsys)]
        /\ request.delsys = "DVBC_ANNEX_B" =>
             /\ chip[\h09] = \hc1 /\ chip[\h0b] = \h17
             /\ chip[\h0a] = 8 - MxlConfig.if_diff_out_level
    BY <2>3, FirstHeld, SMT
  <2>5. /\ chip[\h0f] = 1 /\ chip[\h0c] = BwBits(Bandwidth(request))
        /\ chip[\h0d] = DigRfFreq(request.freq) % 256
        /\ chip[\h0e] = (DigRfFreq(request.freq) \div 256) % 256
        /\ chip[\h80] = BandBits(request)
    BY <2>3, SecondHeld, Zenon
  <2>6. ASSUME Expressible(request.freq)
        PROVE  256 * chip[\h0e] + chip[\h0d] = DigRfFreq(request.freq)
    <3>1. PICK dig \in Nat : dig = DigRfFreq(request.freq)
      BY <2>3, RequestFits, DigIsNearest, SMT
    <3>2. PICK q \in Nat, m \in Nat : q = dig \div 256 /\ m = dig % 256
      BY <3>1, SMT
    <3>3. 256 * q + m = dig /\ q \in 0..255
      <4>1. dig <= 65535
        BY <2>3, <2>6, <3>1, RequestFits, DigIsNearest, SMT
      <4>2. QED
        BY <3>1, <3>2, <4>1, SMT
    <3>4. chip[\h0e] = q /\ chip[\h0d] = m
      <4>1. q % 256 = q
        BY <3>3, SMT
      <4>2. QED
        BY <2>5, <3>1, <3>2, <4>1, Zenon
    <3>5. QED
      BY <3>1, <3>3, <3>4, Zenon
  <2>7. Nearest(DigRfFreq(request.freq), request.freq)
    <3>1. request.freq \in Nat
      BY <2>3, RequestFits, SMT
    <3>2. QED
      BY <3>1, DigIsNearest, SMT
  <2>8. /\ Field(\h03, 4, 8) = MxlConfig.xtal /\ Field(\h05, 0, 4) = MxlConfig.xtal
        /\ Field(\h03, 0, 4) = ClkBits
    <3>1. PICK x \in 0..15, k \in 0..15 : x = MxlConfig.xtal /\ k = ClkBits
      BY ConfigBits, Zenon
    <3>2. mxl_chip[\h03] = 16 * x + k /\ mxl_chip[\h05] = x
      BY <2>2, <2>4, <3>1, Zenon
    <3>3. Field(\h03, 4, 8) = x /\ Field(\h05, 0, 4) = x /\ Field(\h03, 0, 4) = k
      BY <3>2, SMT DEF Field
    <3>4. QED
      BY <3>1, <3>3, Zenon
  <2>9. Field(\h02, 0, 5) = IfBits
    <3>1. PICK f \in 0..31 : f = IfBits
      BY ConfigBits, Zenon
    <3>2. mxl_chip[\h02] = f
      BY <2>2, <2>4, <3>1, Zenon
    <3>3. Field(\h02, 0, 5) = f
      BY <3>2, SMT DEF Field
    <3>4. QED
      BY <3>1, <3>3, Zenon
  <2>10. Field(\h0c, 0, 6) = 21 * (Bandwidth(request) - 5)
    <3>1. PICK w \in 0..63 : w = BwBits(Bandwidth(request)) /\ w = 21 * (Bandwidth(request) - 5)
      BY <2>3, RequestFits, SMT
    <3>2. mxl_chip[\h0c] = w
      BY <2>2, <2>5, <3>1, Zenon
    <3>3. Field(\h0c, 0, 6) = w
      BY <3>2, SMT DEF Field
    <3>4. QED
      BY <3>1, <3>3, Zenon
  <2>11. (Field(\h80, 6, 7) = 1) <=> Upper(request)
    <3>1. CASE Upper(request)
      <4>1. mxl_chip[\h80] = 65
        BY <2>2, <2>5, <3>1, Zenon DEF BandBits
      <4>2. QED
        BY <3>1, <4>1, SMT DEF Field
    <3>2. CASE ~Upper(request)
      <4>1. mxl_chip[\h80] = 1
        BY <2>2, <2>5, <3>2, Zenon DEF BandBits
      <4>2. QED
        BY <3>2, <4>1, SMT DEF Field
    <3>3. QED
      BY <3>1, <3>2, Zenon
  <2>12. Expressible(mxl_freq) => Nearest(256 * mxl_chip[\h0e] + mxl_chip[\h0d], mxl_freq)
    BY <2>2, <2>3, <2>6, <2>7, Zenon
  <2>13. QED
    BY <2>2, <2>3, <2>4, <2>5, <2>8, <2>9, <2>10, <2>11, <2>12, Zenon
       DEF TunedComplete, IfBits, ClkBits
<1>2. QED
  BY <1>1, Tuning, PTL

\* While nothing goes wrong, the registers of the synthesizer change only after the
\* row that stops it and before the row that starts it.
THEOREM RetunesQuietly == MxlSpec => QuietWhileSet
<1> DEFINE Quiet ==
      mxl_intact' /\ mxl_at = "tune" =>
        \A reg \in {\h0c, \h0d, \h0e, \h80} :
          mxl_chip'[reg] # mxl_chip[reg] => mxl_chip[\h0f] = 0
<1>1. TuneInv /\ [MxlNext]_mxl_vars => [Quiet]_mxl_vars
  <2>1. SUFFICES ASSUME TuneInv, MxlNext, mxl_intact', mxl_at = "tune",
                        NEW reg \in {\h0c, \h0d, \h0e, \h80},
                        mxl_chip'[reg] # mxl_chip[reg]
                 PROVE  mxl_chip[\h0f] = 0
    BY Zenon
  <2>2. MxlWriteReg
    <3>1. mxl_chip' # mxl_chip
      BY <2>1, Zenon
    <3>2. ~AttachSteps
      BY <2>1, Zenon DEF AttachSteps, AttachStep
    <3>3. QED
      BY <2>1, <3>1, <3>2, Zenon
         DEF MxlNext, MxlWork, Attach, MxlRelease, MxlRemove, LeaveInstance, MxlTune,
             MxlTuned, MxlWake, MxlSleep, MxlSleeps, MxlSetParams, mxl_bus
  <2>3. PICK request, chip, rest :
          request = mxl_request /\ chip = mxl_chip /\ rest = mxl_rest
    BY Zenon
  <2>4. rest # <<>> /\ (WriteRow(Head(rest), TRUE) \/ WriteRow(Head(rest), FALSE))
    BY <2>2, <2>3, Zenon DEF MxlWriteReg
  <2>5. /\ mxl_intact /\ rest # <<>>
        /\ mxl_chip' = [chip EXCEPT ![Head(rest).reg] = Head(rest).val]
    <3>1. \A ok : WriteRow(Head(rest), ok) =>
            ok /\ mxl_intact /\ mxl_chip' = [mxl_chip EXCEPT ![Head(rest).reg] = Head(rest).val]
      BY <2>1, Zenon DEF WriteRow, Transfer
    <3>2. QED
      BY <2>3, <2>4, <3>1, Zenon
  <2>6. /\ Known(request) /\ chip \in [MxlRegs -> 0..255] /\ rest \in Seq(RowType)
        /\ Writing(chip, rest, SecondTable(request))
    BY <2>1, <2>3, <2>5, Zenon DEF TuneInv, TypeInv, Asked, Stored, Underway
  <2>7. PICK tab : tab = SecondTable(request)
    BY Zenon
  <2>8. /\ Len(tab) = 6
        /\ tab[1].reg = \h0f /\ tab[2].reg = \h0c /\ tab[3].reg = \h0d
        /\ tab[4].reg = \h0e /\ tab[5].reg = \h80 /\ tab[6].reg = \h0f
        /\ tab[1].val = 0
    BY <2>6, <2>7, SecondShape, SMT
  <2>9. PICK n \in 0..5 : n = 6 - Len(rest) /\ Head(rest) = tab[n + 1] /\ Holds(chip, tab, n)
    <3>1. /\ Len(rest) <= 6 /\ Len(rest) \in Nat /\ Len(rest) # 0 /\ Head(rest) = rest[1]
          /\ \A i \in 1..Len(rest) : rest[i] = tab[6 - Len(rest) + i]
      <4>1. EndOf(rest, tab)
        BY <2>6, <2>7, Zenon DEF Writing
      <4>2. Len(rest) \in Nat /\ Len(rest) # 0 /\ Head(rest) = rest[1]
        BY <2>5, <2>6, SMT
      <4>3. QED
        BY <2>8, <4>1, <4>2, ZenonT(40) DEF EndOf
    <3>2. 6 - Len(rest) \in 0..5 /\ 1 \in 1..Len(rest)
      <4>1. PICK l \in Nat : l = Len(rest)
        BY <3>1, Zenon
      <4>2. l <= 6 /\ l # 0
        BY <3>1, <4>1, Zenon
      <4>3. 6 - l \in 0..5 /\ 1 \in 1..l
        BY <4>2, SMT
      <4>4. QED
        BY <4>1, <4>3, Zenon
    <3>3. Holds(chip, tab, 6 - Len(rest))
      BY <2>6, <2>7, <2>8, Zenon DEF Writing
    <3>4. QED
      BY <3>1, <3>2, <3>3, Zenon
  <2>10. Head(rest).reg = reg
    <3>1. reg \in MxlRegs
      BY SMT DEF MxlRegs
    <3>2. PICK chip2 : chip2 = mxl_chip'
      BY Zenon
    <3>3. chip2[reg] # chip[reg] /\ chip2 = [chip EXCEPT ![Head(rest).reg] = Head(rest).val]
      BY <2>1, <2>3, <2>5, <3>2, Zenon
    <3>4. QED
      BY <2>6, <3>1, <3>3, SMT
  <2>11. n \in 1..4
    <3>1. tab[n + 1].reg \in {\h0c, \h0d, \h0e, \h80}
      BY <2>9, <2>10, Zenon
    <3>2. n # 0 /\ n # 5
      BY <2>8, <3>1, SMT
    <3>3. QED
      BY <3>2, SMT
  <2>12. 1 \in 1..n /\ \A j \in 1 + 1..n : tab[j].reg # tab[1].reg
    BY <2>8, <2>11, SMT
  <2>13. chip[tab[1].reg] = tab[1].val
    BY <2>9, <2>12, Zenon DEF Holds
  <2>14. QED
    BY <2>3, <2>8, <2>13, Zenon
<1>2. QED
  BY <1>1, Tuning, PTL DEF MxlSpec, QuietWhileSet
=============================================================================
