--------------------------- MODULE Stv6110xProofs ---------------------------
(***************************************************************************)
(* Proofs about the driver of the satellite tuner: for every frequency and *)
(* bandwidth, any number of trials and every way a transfer may go.        *)
(*                                                                         *)
(* Leaves with numbers of the size of a frequency name SMT: the other      *)
(* prover counts them in unary.                                            *)
(***************************************************************************)
EXTENDS Stv6110x, TLAPS

-----------------------------------------------------------------------------
(* The arithmetic. *)

InBand(f) == f \in Nat /\ 950000 <= f /\ f <= 2150000

\* The input divider the loop over rDiv ends with.
LEMMA BestDivider ==
  ASSUME NEW f \in Nat, 950000 <= f, f <= 2150000
  PROVE  RDivOpt(f) = IF f <= 1300000 THEN 1 ELSE 2
<1>1. PCalc(0) = 80 /\ PCalc(1) = 40 /\ PCalc(2) = 20 /\ PCalc(3) = 10
  <2>1. R_DIV(0) = 2 /\ R_DIV(1) = 4 /\ R_DIV(2) = 8 /\ R_DIV(3) = 16
    BY SMT DEF R_DIV
  <2>2. REFCLOCK_kHz \div 100 = 160
    BY SMT DEF REFCLOCK_kHz
  <2> QED
    BY <2>1, <2>2, SMT DEF PCalc
<1>2. CASE f <= 1300000
  <2>1. PVal(f) = 40
    BY <1>2, SMT DEF PVal
  <2>2. Nearer(f, 0, 1) = 1 /\ Nearer(f, 1, 2) = 1 /\ Nearer(f, 1, 3) = 1
    BY <1>1, <2>1, SMT DEF Nearer, Distance
  <2> QED
    BY <1>2, <2>2, SMT DEF RDivOpt
<1>3. CASE ~(f <= 1300000)
  <2>1. PVal(f) = 20
    BY <1>3, SMT DEF PVal
  <2>2. Nearer(f, 0, 1) = 1 /\ Nearer(f, 1, 2) = 2 /\ Nearer(f, 2, 3) = 2
    BY <1>1, <2>1, SMT DEF Nearer, Distance
  <2> QED
    BY <1>3, <2>2, SMT DEF RDivOpt
<1> QED
  BY <1>2, <1>3, SMT

\* In both halves of the band the divider is the frequency in MHz, rounded.
LEMMA DividerRounds ==
  ASSUME NEW f \in Nat, 950000 <= f, f <= 2150000
  PROVE  /\ Divider(f) \in Nat /\ Divider(f) < 4096
         /\ Divider(f) * 1000 - f <= 500 /\ f - Divider(f) * 1000 <= 500
<1> DEFINE n == f * 160
           q == n \div 16000
           m == q + 5
           d == m \div 10
<1>1. Divider(f) = d
  <2>1. R_DIV(1) = 4 /\ R_DIV(2) = 8
    BY SMT DEF R_DIV
  <2>2. R_DIV(RDivOpt(f)) * PVal(f) = 160 /\ R_DIV(RDivOpt(f)) \in Int /\ PVal(f) \in Int
    BY <2>1, BestDivider, SMT DEF PVal
  <2>3. f * R_DIV(RDivOpt(f)) * PVal(f) = f * 160
    BY <2>1, BestDivider, SMT DEF PVal
  <2> QED
    BY <2>3, SMT DEF Divider, REFCLOCK_kHz
<1>2. n \in Nat /\ 160 * f = n
  BY SMT
<1> HIDE DEF n
<1>3. q \in Int /\ 16000 * q <= n /\ n < 16000 * q + 16000
  BY <1>2, SMT
<1> HIDE DEF q
<1>4. q \in Nat /\ q <= 21500 /\ 100 * q <= f /\ f < 100 * q + 100
  BY <1>2, <1>3, SMT
<1>5. m \in Nat /\ m = q + 5
  BY <1>4, SMT
<1> HIDE DEF m
<1>6. d \in Int /\ 10 * d <= m /\ m < 10 * d + 10
  BY <1>5, SMT
<1> HIDE DEF d
<1>7. d \in Nat /\ d < 4096 /\ d * 1000 - f <= 500 /\ f - d * 1000 <= 500
  BY <1>4, <1>5, <1>6, SMT
<1> QED
  BY <1>1, <1>7, SMT

\* The code for the filter is the one that fits.
LEMMA CodeFits ==
  ASSUME NEW b \in Nat
  PROVE  FilterCode(b) \in 0..31 /\ FilterFits(FilterCode(b), b)
<1> DEFINE half == b \div 2
           q == half \div 1000000
<1>1. half \in Nat
  BY SMT
<1>2. FilterCode(b) = IF half > 36000000 THEN 31 ELSE IF half < 5000000 THEN 0 ELSE q - 5
  BY SMT DEF FilterCode
<1>3. FilterFits(FilterCode(b), b) <=>
        /\ FilterCode(b) > 0  => (FilterCode(b) + 5) * 1000000 <= half
        /\ FilterCode(b) < 31 => half < (FilterCode(b) + 6) * 1000000
  BY SMT DEF FilterFits
<1> HIDE DEF half
<1>4. q \in Int /\ 1000000 * q <= half /\ half < 1000000 * q + 1000000
  BY <1>1, SMT
<1> HIDE DEF q
<1> QED
  BY <1>1, <1>2, <1>3, <1>4, SMT

-----------------------------------------------------------------------------
(* Registers. *)

RegNames == {"CTRL1", "TNG0", "TNG1", "CTRL3", "STAT1"}
Ctrl     == {"CTRL1", "TNG0", "TNG1", "CTRL3"}
Dividers == [r_div : 0..3, presc32 : BOOLEAN, div4sel : 0..1, n_div : 0..15]
Filters  == [cf : 0..31, rcclk_off : BOOLEAN]
Starts   == [vco : BOOLEAN, rc : BOOLEAN]

LEMMA RegShape ==
  /\ \A regs \in StvRegs :
       /\ DOMAIN regs = RegNames
       /\ regs.CTRL1 \in BOOLEAN /\ regs.TNG0 \in 0..255 /\ regs.TNG1 \in Dividers
       /\ regs.CTRL3 \in Filters /\ regs.STAT1 \in Starts
  /\ \A a \in BOOLEAN, b \in 0..255, c \in Dividers, d \in Filters, e \in Starts :
       [CTRL1 |-> a, TNG0 |-> b, TNG1 |-> c, CTRL3 |-> d, STAT1 |-> e] \in StvRegs
<1>1. \A regs \in StvRegs :
       /\ DOMAIN regs = RegNames
       /\ regs.CTRL1 \in BOOLEAN /\ regs.TNG0 \in 0..255 /\ regs.TNG1 \in Dividers
       /\ regs.CTRL3 \in Filters /\ regs.STAT1 \in Starts
  BY SMT DEF StvRegs, RegNames, Dividers, Filters, Starts
<1>2. \A a \in BOOLEAN, b \in 0..255, c \in Dividers, d \in Filters, e \in Starts :
       [CTRL1 |-> a, TNG0 |-> b, TNG1 |-> c, CTRL3 |-> d, STAT1 |-> e] \in StvRegs
  BY Zenon DEF StvRegs, Dividers, Filters, Starts
<1> QED
  BY <1>1, <1>2

\* Some registers from one set, the others from another.
LEMMA Mixture ==
  ASSUME NEW regs \in StvRegs, NEW chip \in StvRegs, NEW S
  PROVE  [r \in RegNames |-> IF r \in S THEN regs[r] ELSE chip[r]] \in StvRegs
<1> DEFINE Pick(r) == IF r \in S THEN regs[r] ELSE chip[r]
<1>1. [r \in RegNames |-> Pick(r)] =
        [CTRL1 |-> Pick("CTRL1"), TNG0 |-> Pick("TNG0"), TNG1 |-> Pick("TNG1"),
         CTRL3 |-> Pick("CTRL3"), STAT1 |-> Pick("STAT1")]
  <2> HIDE DEF Pick
  <2> QED
    BY SMT DEF RegNames
<1>2. /\ Pick("CTRL1") \in BOOLEAN /\ Pick("TNG0") \in 0..255 /\ Pick("TNG1") \in Dividers
      /\ Pick("CTRL3") \in Filters /\ Pick("STAT1") \in Starts
  BY RegShape, Zenon
<1> HIDE DEF Pick
<1>3. [CTRL1 |-> Pick("CTRL1"), TNG0 |-> Pick("TNG0"), TNG1 |-> Pick("TNG1"),
       CTRL3 |-> Pick("CTRL3"), STAT1 |-> Pick("STAT1")] \in StvRegs
  BY <1>2, RegShape, Zenon
<1> QED
  BY <1>1, <1>3 DEF Pick

\* One register replaced.
LEMMA Replaced ==
  ASSUME NEW regs \in StvRegs
  PROVE  /\ \A a \in BOOLEAN : [regs EXCEPT !.CTRL1 = a] \in StvRegs
         /\ \A b \in 0..255 : [regs EXCEPT !.TNG0 = b] \in StvRegs
         /\ \A c \in Dividers : [regs EXCEPT !.TNG1 = c] \in StvRegs
         /\ \A d \in Filters : [regs EXCEPT !.CTRL3 = d] \in StvRegs
         /\ \A e \in Starts : [regs EXCEPT !.STAT1 = e] \in StvRegs
<1>1. \A a \in BOOLEAN : [regs EXCEPT !.CTRL1 = a] \in StvRegs
  BY Zenon DEF StvRegs
<1>2. \A b \in 0..255 : [regs EXCEPT !.TNG0 = b] \in StvRegs
  BY SMT DEF StvRegs
<1>3. \A c \in Dividers : [regs EXCEPT !.TNG1 = c] \in StvRegs
  BY SMT DEF StvRegs, Dividers
<1>4. /\ \A d \in Filters : [regs EXCEPT !.CTRL3 = d] \in StvRegs
      /\ \A e \in Starts : [regs EXCEPT !.STAT1 = e] \in StvRegs
  BY SMT DEF StvRegs, Filters, Starts
<1> QED
  BY <1>1, <1>2, <1>3, <1>4, Zenon

LEMMA StartShape ==
  ASSUME NEW x \in Starts
  PROVE  /\ x.vco \in BOOLEAN /\ x.rc \in BOOLEAN
         /\ [x EXCEPT !.vco = TRUE] \in Starts /\ [x EXCEPT !.rc = TRUE] \in Starts
         /\ \A c \in {"vco", "rc"} : [x EXCEPT ![c] = FALSE] \in Starts
         /\ [x EXCEPT !.vco = TRUE].rc = x.rc
<1>1. \A a \in BOOLEAN : [x EXCEPT !.vco = a] \in Starts /\ [x EXCEPT !.rc = a] \in Starts
  BY SMT DEF Starts
<1>2. \A a \in BOOLEAN : [x EXCEPT !.vco = a].rc = x.rc
  BY SMT DEF Starts
<1>3. x.vco \in BOOLEAN /\ x.rc \in BOOLEAN
  BY Zenon DEF Starts
<1>4. \A c \in {"vco", "rc"} : [x EXCEPT ![c] = FALSE] \in Starts
  BY <1>1, Zenon
<1> QED
  BY <1>1, <1>2, <1>3, <1>4, Zenon

\* What the divider set for f says of the frequency.
LEMMA RetunedIsTuned ==
  ASSUME NEW regs \in StvRegs, NEW f, InBand(f)
  PROVE  /\ Retuned(regs, f) \in StvRegs
         /\ Retuned(regs, f).CTRL1 = regs.CTRL1
         /\ Retuned(regs, f).CTRL3 = regs.CTRL3
         /\ Retuned(regs, f).STAT1.rc = regs.STAT1.rc
         /\ TunedTo(Retuned(regs, f), f)
<1> DEFINE D     == Divider(f)
           low   == D % 256
           high  == (D \div 256) % 256
           r     == RDivOpt(f)
           four  == IF f <= 1300000 THEN 1 ELSE 0
           pre   == Prescaled(f)
           tng1  == [r_div |-> r, presc32 |-> pre, div4sel |-> four, n_div |-> high]
           start == [vco |-> TRUE, rc |-> regs.STAT1.rc]
           new   == [regs EXCEPT !.TNG0 = low, !.TNG1 = tng1, !.STAT1 = start]
<1>1. D \in Nat /\ D < 4096 /\ D * 1000 - f <= 500 /\ f - D * 1000 <= 500
  BY DividerRounds, SMT DEF InBand
<1>2. r \in 0..3 /\ four \in 0..1 /\ r + four = 2
  BY BestDivider, SMT DEF InBand
<1>3. pre \in BOOLEAN
  <2>1. f \in Nat
    BY DEF InBand
  <2>2. pre = TRUE \/ pre = FALSE
    BY <2>1, SMT DEF Prescaled
  <2> HIDE DEF pre
  <2> QED
    BY <2>2, Zenon
<1>4. Retuned(regs, f) = new
  BY SMT DEF Retuned
<1> HIDE DEF D, r, four, pre
<1>5. low \in 0..255 /\ high \in 0..15 /\ 256 * high + low = D
  BY <1>1, SMT
<1>6. tng1 \in Dividers /\ start \in Starts /\ start.rc = regs.STAT1.rc
  <2>1. regs.STAT1.rc \in BOOLEAN
    BY RegShape, StartShape, Zenon
  <2>2. start \in Starts
    BY <2>1, Zenon DEF Starts
  <2> HIDE DEF high
  <2>3. tng1 \in Dividers
    BY <1>2, <1>3, <1>5, Zenon DEF Dividers
  <2> QED
    BY <2>2, <2>3
<1> HIDE DEF low, high, start
<1>7. new \in StvRegs
  <2> HIDE DEF tng1
  <2>1. new = [[[regs EXCEPT !.TNG0 = low] EXCEPT !.TNG1 = tng1] EXCEPT !.STAT1 = start]
    BY Zenon
  <2> QED
    BY <2>1, <1>5, <1>6, Replaced, Zenon
<1>8. new.TNG0 = low /\ new.TNG1 = tng1
  <2> HIDE DEF tng1
  <2> QED
    BY Zenon DEF StvRegs
<1>9. TunedTo(new, f)
  <2>0. new.TNG1.n_div = high /\ new.TNG1.r_div = r /\ new.TNG1.div4sel = four
    BY <1>8
  <2>1. FrequencyOf(new) = (((256 * high + low) * 16000) \div <<1, 2, 4, 8, 16>>[r + four + 1]) \div 4
    BY <1>8, <2>0, SMT DEF FrequencyOf, REFCLOCK_kHz
  <2>2. <<1, 2, 4, 8, 16>>[r + four + 1] = 4
    BY <1>2, SMT
  <2>3. FrequencyOf(new) = ((D * 16000) \div 4) \div 4
    BY <2>1, <2>2, <1>5, SMT
  <2>4. FrequencyOf(new) = D * 1000
    BY <2>3, <1>1, SMT
  <2> HIDE DEF new
  <2> QED
    BY <2>4, <1>1, SMT DEF TunedTo, Distance, InBand
<1>10. new.CTRL1 = regs.CTRL1 /\ new.CTRL3 = regs.CTRL3 /\ new.STAT1 = start
  <2> HIDE DEF tng1
  <2> QED
    BY Zenon DEF StvRegs
<1> HIDE DEF new
<1> QED
  BY <1>4, <1>6, <1>7, <1>9, <1>10, Zenon

LEMMA RefilteredFits ==
  ASSUME NEW regs \in StvRegs, NEW b \in Nat
  PROVE  /\ Refiltered(regs, b) \in StvRegs
         /\ Refiltered(regs, b).CTRL1 = regs.CTRL1
         /\ Refiltered(regs, b).TNG0 = regs.TNG0
         /\ Refiltered(regs, b).TNG1 = regs.TNG1
         /\ FilterFits(Refiltered(regs, b).CTRL3.cf, b)
         /\ Refiltered(regs, b).CTRL3.rcclk_off = FALSE
<1> DEFINE code   == FilterCode(b)
           filter == [cf |-> code, rcclk_off |-> FALSE]
           start  == [vco |-> regs.STAT1.vco, rc |-> TRUE]
           new    == [regs EXCEPT !.CTRL3 = filter, !.STAT1 = start]
<1>1. code \in 0..31 /\ FilterFits(code, b)
  BY CodeFits, Zenon
<1>2. Refiltered(regs, b) = new
  BY Zenon DEF Refiltered
<1> HIDE DEF code
<1>3. filter \in Filters /\ start \in Starts
  <2>1. regs.STAT1.vco \in BOOLEAN
    BY RegShape, StartShape, Zenon
  <2> QED
    BY <1>1, <2>1, Zenon DEF Filters, Starts
<1>4. new \in StvRegs
  <2> HIDE DEF filter, start
  <2>1. new = [[regs EXCEPT !.CTRL3 = filter] EXCEPT !.STAT1 = start]
    BY Zenon
  <2> QED
    BY <2>1, <1>3, Replaced, Zenon
<1>5. /\ new.CTRL1 = regs.CTRL1 /\ new.TNG0 = regs.TNG0 /\ new.TNG1 = regs.TNG1
      /\ new.CTRL3 = filter
  <2> HIDE DEF filter, start
  <2> QED
    BY Zenon DEF StvRegs
<1>6. filter.cf = code /\ filter.rcclk_off = FALSE
  OBVIOUS
<1> HIDE DEF new, filter
<1> QED
  BY <1>1, <1>2, <1>4, <1>5, <1>6, Zenon

LEMMA DefaultShape ==
  /\ default_regs \in StvRegs
  /\ default_regs.CTRL1 /\ ~default_regs.STAT1.vco /\ ~default_regs.STAT1.rc
<1> DEFINE tng1   == [r_div |-> 2, presc32 |-> FALSE, div4sel |-> 0, n_div |-> 5]
           filter == [cf |-> 23, rcclk_off |-> FALSE]
           start  == [vco |-> FALSE, rc |-> FALSE]
<1>1. tng1 \in Dividers /\ filter \in Filters /\ start \in Starts
  BY SMT DEF Dividers, Filters, Starts
<1>2. 220 \in 0..255
  BY SMT
<1>3. default_regs = [CTRL1 |-> TRUE, TNG0 |-> 220, TNG1 |-> tng1,
                      CTRL3 |-> filter, STAT1 |-> start]
  BY DEF default_regs
<1>4. default_regs \in StvRegs
  <2> HIDE DEF tng1, filter, start
  <2> QED
    BY <1>1, <1>2, <1>3, RegShape, Zenon
<1> QED
  BY <1>3, <1>4

-----------------------------------------------------------------------------
(* Transfers. *)

Among(r, rs) == \E i \in 1..Len(rs) : rs[i] = r

LEMMA WrittenSome ==
  ASSUME stv_chip \in StvRegs, stv_intact \in BOOLEAN,
         NEW regs \in StvRegs, NEW rs, NEW ok \in BOOLEAN, Write(regs, rs, ok)
  PROVE  /\ stv_regs' = regs
         /\ stv_chip' \in StvRegs
         /\ stv_intact' \in BOOLEAN
         /\ stv_intact' =>
              /\ stv_intact /\ ok
              /\ \A r \in RegNames : /\ Among(r, rs)  => stv_chip'[r] = regs[r]
                                     /\ ~Among(r, rs) => stv_chip'[r] = stv_chip[r]
<1>1. PICK taken \in 0..Len(rs) :
        /\ stv_regs' = regs
        /\ stv_chip' = [r \in DOMAIN stv_chip |->
                          IF \E i \in 1..taken : rs[i] = r THEN regs[r] ELSE stv_chip[r]]
        /\ stv_intact' = (stv_intact /\ ok /\ taken = Len(rs))
  BY Zenon DEF Write
<1> DEFINE S == {r \in RegNames : \E i \in 1..taken : rs[i] = r}
<1>2. DOMAIN stv_chip = RegNames
  BY RegShape, Zenon
<1>3. stv_chip' = [r \in RegNames |-> IF r \in S THEN regs[r] ELSE stv_chip[r]]
  BY <1>1, <1>2, Zenon
<1>4. stv_chip' \in StvRegs
  <2> HIDE DEF S
  <2> QED
    BY <1>3, Mixture, Zenon
<1>5. stv_intact' \in BOOLEAN
  BY <1>1, Zenon
<1>6. ASSUME stv_intact'
      PROVE  stv_intact /\ ok /\ taken = Len(rs)
  BY <1>1, <1>6, Zenon
<1>7. ASSUME stv_intact', NEW r \in RegNames
      PROVE  /\ Among(r, rs)  => stv_chip'[r] = regs[r]
             /\ ~Among(r, rs) => stv_chip'[r] = stv_chip[r]
  BY <1>1, <1>2, <1>6, <1>7, Zenon DEF Among
<1> QED
  BY <1>1, <1>4, <1>5, <1>6, <1>7, Zenon

LEMMA ReadBack ==
  ASSUME stv_regs \in StvRegs, stv_chip \in StvRegs, NEW rs, Read(rs)
  PROVE  /\ stv_regs' \in StvRegs
         /\ UNCHANGED <<stv_chip, stv_intact>>
         /\ \A r \in RegNames : \/ stv_regs'[r] = stv_regs[r]
                                \/ r \in rs /\ stv_regs'[r] = stv_chip[r]
<1>1. PICK got \in SUBSET rs :
        stv_regs' = [r \in DOMAIN stv_regs |->
                       IF r \in got THEN stv_chip[r] ELSE stv_regs[r]]
  BY Zenon DEF Read
<1>2. DOMAIN stv_regs = RegNames
  BY RegShape, Zenon
<1>3. stv_regs' \in StvRegs
  BY <1>1, <1>2, Mixture, Zenon
<1>4. UNCHANGED <<stv_chip, stv_intact>>
  BY DEF Read
<1> QED
  BY <1>1, <1>2, <1>3, <1>4, Zenon

\* A single register.
LEMMA WrittenOne ==
  ASSUME stv_chip \in StvRegs, stv_intact \in BOOLEAN,
         NEW regs \in StvRegs, NEW w, NEW ok \in BOOLEAN, Write(regs, <<w>>, ok)
  PROVE  /\ stv_regs' = regs
         /\ stv_chip' \in StvRegs
         /\ stv_intact' \in BOOLEAN
         /\ stv_intact' =>
              /\ stv_intact
              /\ \A r \in RegNames : /\ r = w => stv_chip'[r] = regs[r]
                                     /\ r # w => stv_chip'[r] = stv_chip[r]
<1>1. \A r : Among(r, <<w>>) <=> r = w
  BY SMT DEF Among
<1> QED
  BY <1>1, WrittenSome, Zenon

\* All of them.
LEMMA WrittenAll ==
  ASSUME stv_chip \in StvRegs, stv_intact \in BOOLEAN,
         NEW regs \in StvRegs, NEW ok \in BOOLEAN, Write(regs, StvOrder, ok)
  PROVE  /\ stv_regs' = regs
         /\ stv_chip' \in StvRegs
         /\ stv_intact' \in BOOLEAN
         /\ stv_intact' => stv_intact /\ ok /\ \A r \in RegNames : stv_chip'[r] = regs[r]
<1>1. \A r \in RegNames : Among(r, StvOrder)
  BY SMT DEF StvOrder, RegNames, Among
<1> QED
  BY <1>1, WrittenSome, Zenon

-----------------------------------------------------------------------------
(* The inductive invariant. *)

\* What of the chip set_params has still to write.
Outdated ==
  IF stv_at = "init" THEN Ctrl
  ELSE IF stv_at = "TNG1" THEN {"TNG1", "TNG0"}
  ELSE IF stv_at = "TNG0" THEN {"TNG0"} ELSE {}

\* While nothing has gone wrong the chip has the rest from the cache.
Synced == stv_intact => \A r \in Ctrl \ Outdated : stv_chip[r] = stv_regs[r]

\* What the cache holds at each step of set_params.
Prepares ==
  /\ stv_at = "init" => stv_regs = default_regs
  /\ stv_at \notin {"idle", "init"} => stv_regs.CTRL1
  /\ stv_at \in {"frequency", "TNG1", "TNG0", "calvco"} => ~stv_regs.STAT1.rc
  /\ stv_at \notin {"idle", "init", "frequency"} => TunedTo(stv_regs, stv_request.frequency)
  /\ stv_at \in {"calrc", "rc", "caldone"} =>
       FilterFits(stv_regs.CTRL3.cf, stv_request.bandwidth)
  /\ stv_at \in {"calrc", "rc"} => ~stv_regs.CTRL3.rcclk_off

IInv == TypeOKStv /\ Synced /\ Prepares /\ TunedAsAsked

\* A frequency is read from the divider and nothing else.
LEMMA TunedByDivider ==
  ASSUME NEW x, NEW y, NEW f, x.TNG0 = y.TNG0, x.TNG1 = y.TNG1
  PROVE  TunedTo(x, f) = TunedTo(y, f)
<1>1. FrequencyOf(x) = FrequencyOf(y)
  BY SMT DEF FrequencyOf
<1> QED
  BY <1>1, Zenon DEF TunedTo

LEMMA RequestShape ==
  ASSUME NEW q \in StvRequests
  PROVE  InBand(q.frequency) /\ q.bandwidth \in Nat
<1>1. q.frequency \in Frequencies /\ q.bandwidth \in Bandwidths
  BY SMT DEF StvRequests
<1>2. \A f \in Frequencies : InBand(f)
  <2> TAKE f \in Frequencies
  <2>1. f \in Nat /\ 950000 <= f /\ f <= 2150000
    BY FrequencyAssumption, SMT
  <2> QED
    BY <2>1, SMT DEF InBand
<1> QED
  BY <1>1, <1>2, BandwidthAssumption, Zenon

\* The steps of set_frequency and set_bandwidth: what each writes, what follows
\* and how the cache is prepared for it.
LEMMA Steps ==
  ASSUME stv_at \in DOMAIN Written
  PROVE  \/ /\ stv_at = "frequency" /\ Written[stv_at] = "CTRL1" /\ StepAfter(stv_at) = "TNG1"
            /\ Prepared = Retuned(stv_regs, stv_request.frequency)
         \/ /\ stv_at = "TNG1" /\ Written[stv_at] = "TNG1" /\ StepAfter(stv_at) = "TNG0"
            /\ Prepared = stv_regs
         \/ /\ stv_at = "TNG0" /\ Written[stv_at] = "TNG0" /\ StepAfter(stv_at) = "calvco"
            /\ Prepared = stv_regs
         \/ /\ stv_at = "calvco" /\ Written[stv_at] = "STAT1" /\ StepAfter(stv_at) = "vco"
            /\ Prepared = stv_regs
         \/ /\ stv_at = "bandwidth" /\ Written[stv_at] = "CTRL3" /\ StepAfter(stv_at) = "calrc"
            /\ Prepared = Refiltered(stv_regs, stv_request.bandwidth)
         \/ /\ stv_at = "calrc" /\ Written[stv_at] = "STAT1" /\ StepAfter(stv_at) = "rc"
            /\ Prepared = stv_regs
         \/ /\ stv_at = "caldone" /\ Written[stv_at] = "CTRL3" /\ StepAfter(stv_at) = "idle"
            /\ Prepared = [stv_regs EXCEPT !.CTRL3.rcclk_off = TRUE]
<1>1. stv_at \in {"frequency", "TNG1", "TNG0", "calvco", "bandwidth", "calrc", "caldone"}
  BY SMT DEF Written
<1>2. CASE stv_at = "frequency"
  BY <1>2, SMT DEF Written, StepAfter, Prepared
<1>3. CASE stv_at = "TNG1"
  BY <1>3, SMT DEF Written, StepAfter, Prepared
<1>4. CASE stv_at = "TNG0"
  BY <1>4, SMT DEF Written, StepAfter, Prepared
<1>5. CASE stv_at = "calvco"
  BY <1>5, SMT DEF Written, StepAfter, Prepared
<1>6. CASE stv_at = "bandwidth"
  BY <1>6, SMT DEF Written, StepAfter, Prepared
<1>7. CASE stv_at = "calrc"
  BY <1>7, SMT DEF Written, StepAfter, Prepared
<1>8. CASE stv_at = "caldone"
  BY <1>8, SMT DEF Written, StepAfter, Prepared
<1> QED
  BY <1>1, <1>2, <1>3, <1>4, <1>5, <1>6, <1>7, <1>8, Zenon

\* The clock of the calibration turned off.
LEMMA ClockOff ==
  ASSUME NEW regs \in StvRegs
  PROVE  LET new == [regs EXCEPT !.CTRL3.rcclk_off = TRUE] IN
         /\ new \in StvRegs
         /\ new.CTRL1 = regs.CTRL1 /\ new.TNG0 = regs.TNG0 /\ new.TNG1 = regs.TNG1
         /\ new.CTRL3.cf = regs.CTRL3.cf /\ new.CTRL3.rcclk_off
<1> DEFINE filter == [regs.CTRL3 EXCEPT !.rcclk_off = TRUE]
           new    == [regs EXCEPT !.CTRL3 = filter]
<1>1. regs.CTRL3 \in Filters
  BY RegShape, Zenon
<1>2. filter \in Filters /\ filter.cf = regs.CTRL3.cf /\ filter.rcclk_off
  BY <1>1, Zenon DEF Filters
<1>3. new = [regs EXCEPT !.CTRL3.rcclk_off = TRUE]
  BY Zenon
<1> HIDE DEF filter
<1>4. new \in StvRegs
  BY <1>2, Replaced, Zenon
<1>5. /\ new.CTRL1 = regs.CTRL1 /\ new.TNG0 = regs.TNG0 /\ new.TNG1 = regs.TNG1
      /\ new.CTRL3 = filter
  BY Zenon DEF StvRegs
<1> HIDE DEF new
<1> QED
  BY <1>2, <1>3, <1>4, <1>5, Zenon

-----------------------------------------------------------------------------
(* Each operation keeps the invariant. *)

Ats == {"idle", "init", "vco", "rc"} \cup DOMAIN Written

LEMMA AtShape ==
  Ats = {"idle", "init", "vco", "rc", "frequency", "TNG1", "TNG0", "calvco", "bandwidth",
         "calrc", "caldone"}
  BY SMT DEF Ats, Written

LEMMA Typed ==
  TypeOKStv <=>
    /\ stv_regs \in StvRegs /\ stv_chip \in StvRegs
    /\ stv_at \in Ats
    /\ stv_trial \in 0..TRIALS - 1
    /\ stv_request \in StvRequests
    /\ stv_tuned \in BOOLEAN /\ stv_intact \in BOOLEAN
  BY Zenon DEF TypeOKStv, Ats

LEMMA InitKeeps ==
  ASSUME StvInit
  PROVE  IInv
<1>1. [default_regs EXCEPT !.CTRL1 = FALSE, !.TNG0 = 0] \in StvRegs
  <2>1. 0 \in 0..255 /\ FALSE \in BOOLEAN
    BY SMT
  <2>2. [[default_regs EXCEPT !.CTRL1 = FALSE] EXCEPT !.TNG0 = 0] \in StvRegs
    BY <2>1, DefaultShape, Replaced, Zenon
  <2> QED
    BY <2>2, Zenon
<1>2. stv_at \in Ats /\ stv_trial \in 0..TRIALS - 1
  BY AtShape, TrialsAssumption, SMT DEF StvInit
<1>3. TypeOKStv
  BY <1>1, <1>2, DefaultShape, Typed, Zenon DEF StvInit
<1>4. Synced /\ Prepares /\ TunedAsAsked
  BY Zenon DEF StvInit, Synced, Prepares, TunedAsAsked
<1> QED
  BY <1>3, <1>4 DEF IInv

LEMMA SetParamsKeeps ==
  ASSUME IInv, NEW request \in StvRequests, SetParams(request)
  PROVE  IInv'
<1>1. stv_at' \in Ats
  BY AtShape, SMT DEF SetParams
<1>2. TypeOKStv'
  BY <1>1, DefaultShape, Typed, Zenon DEF IInv, TypeOKStv, Ats, SetParams
<1>3. Synced'
  BY Zenon DEF SetParams, Synced, Outdated
<1>4. Prepares'
  BY DefaultShape, SMT DEF SetParams, Prepares
<1>5. TunedAsAsked'
  BY SMT DEF SetParams, TunedAsAsked
<1> QED
  BY <1>2, <1>3, <1>4, <1>5 DEF IInv

LEMMA InitRegsKeeps ==
  ASSUME IInv, InitRegs
  PROVE  IInv'
<1>1. PICK ok \in BOOLEAN :
        /\ Write(stv_regs, StvOrder, ok)
        /\ stv_at' = IF ok THEN "frequency" ELSE "idle"
  BY Zenon DEF InitRegs
<1>2. /\ stv_at = "init" /\ stv_regs = default_regs
      /\ UNCHANGED <<stv_trial, stv_request, stv_tuned>>
  BY DEF IInv, Prepares, InitRegs
<1>3. stv_regs \in StvRegs /\ stv_chip \in StvRegs /\ stv_intact \in BOOLEAN
  BY Zenon DEF IInv, TypeOKStv
<1>4. /\ stv_regs' = stv_regs /\ stv_chip' \in StvRegs /\ stv_intact' \in BOOLEAN
      /\ stv_intact' => stv_intact /\ ok /\ \A r \in RegNames : stv_chip'[r] = stv_regs[r]
  BY <1>1, <1>3, WrittenAll, Zenon
<1>5. stv_at' \in {"frequency", "idle"} /\ (stv_intact' => stv_at' = "frequency")
  BY <1>1, <1>4, Zenon
<1>6. TypeOKStv'
  BY <1>2, <1>3, <1>4, <1>5, AtShape, SMT DEF IInv, TypeOKStv, Ats
<1>7. Synced'
  BY <1>4, SMT DEF Synced, Ctrl, RegNames
<1>8. Prepares'
  BY <1>2, <1>4, <1>5, DefaultShape, SMT DEF Prepares
<1>9. TunedAsAsked'
  BY <1>5, SMT DEF TunedAsAsked
<1> QED
  BY <1>6, <1>7, <1>8, <1>9 DEF IInv

LEMMA InitialiseKeeps ==
  ASSUME IInv, Initialise
  PROVE  IInv'
<1>1. PICK ok \in BOOLEAN : Write(stv_regs, StvOrder, ok)
  BY Zenon DEF Initialise
<1>2. stv_at = "idle" /\ UNCHANGED <<stv_at, stv_trial, stv_request, stv_tuned>>
  BY DEF Initialise
<1>3. stv_regs \in StvRegs /\ stv_chip \in StvRegs /\ stv_intact \in BOOLEAN
  BY Zenon DEF IInv, TypeOKStv
<1>4. /\ stv_regs' = stv_regs /\ stv_chip' \in StvRegs /\ stv_intact' \in BOOLEAN
      /\ stv_intact' => stv_intact /\ ok /\ \A r \in RegNames : stv_chip'[r] = stv_regs[r]
  BY <1>1, <1>3, WrittenAll, Zenon
<1>5. TypeOKStv'
  BY <1>2, <1>3, <1>4, Zenon DEF IInv, TypeOKStv
<1>6. Synced'
  BY <1>4, SMT DEF Synced, Ctrl, RegNames
<1>7. Prepares'
  BY <1>2, SMT DEF Prepares
<1>8. TunedAsAsked'
  <2> SUFFICES ASSUME stv_tuned, stv_intact' PROVE TunedAsAsked'
    BY <1>2, Zenon DEF TunedAsAsked
  <2>1. \A r \in Ctrl : stv_chip'[r] = stv_chip[r]
    BY <1>2, <1>4, SMT DEF IInv, Synced, Outdated, Ctrl, RegNames
  <2>2. /\ stv_chip'.CTRL1 = stv_chip.CTRL1 /\ stv_chip'.TNG0 = stv_chip.TNG0
        /\ stv_chip'.TNG1 = stv_chip.TNG1 /\ stv_chip'.CTRL3 = stv_chip.CTRL3
    BY <2>1, Zenon DEF Ctrl
  <2>3. TunedTo(stv_chip', stv_request.frequency) = TunedTo(stv_chip, stv_request.frequency)
    BY <2>2, TunedByDivider, Zenon
  <2> QED
    BY <1>2, <1>4, <2>2, <2>3, Zenon DEF IInv, TunedAsAsked
<1> QED
  BY <1>5, <1>6, <1>7, <1>8 DEF IInv

LEMMA SleepKeeps ==
  ASSUME IInv, Sleep
  PROVE  IInv'
<1> DEFINE regs == [stv_regs EXCEPT !.CTRL1 = FALSE]
<1>1. PICK ok \in BOOLEAN : Write(regs, <<"CTRL1">>, ok)
  BY Zenon DEF Sleep
<1>2. /\ stv_at = "idle" /\ stv_tuned' = FALSE
      /\ UNCHANGED <<stv_at, stv_trial, stv_request>>
  BY DEF Sleep
<1>3. stv_regs \in StvRegs /\ stv_chip \in StvRegs /\ stv_intact \in BOOLEAN
  BY Zenon DEF IInv, TypeOKStv
<1>4. regs \in StvRegs /\ \A r \in RegNames : r # "CTRL1" => regs[r] = stv_regs[r]
  <2>1. regs \in StvRegs
    BY <1>3, Replaced, Zenon
  <2>2. DOMAIN stv_regs = RegNames
    BY <1>3, RegShape, Zenon
  <2> QED
    BY <2>1, <2>2, Zenon
<1> HIDE DEF regs
<1>5. /\ stv_regs' = regs /\ stv_chip' \in StvRegs /\ stv_intact' \in BOOLEAN
      /\ stv_intact' =>
           /\ stv_intact
           /\ \A r \in RegNames : /\ r = "CTRL1" => stv_chip'[r] = regs[r]
                                  /\ r # "CTRL1" => stv_chip'[r] = stv_chip[r]
  BY <1>1, <1>3, <1>4, WrittenOne, Zenon
<1>6. TypeOKStv'
  BY <1>2, <1>4, <1>5, Zenon DEF IInv, TypeOKStv
<1>7. Synced'
  BY <1>2, <1>4, <1>5, SMT DEF IInv, Synced, Outdated, Ctrl, RegNames
<1>8. Prepares' /\ TunedAsAsked'
  BY <1>2, SMT DEF Prepares, TunedAsAsked
<1> QED
  BY <1>6, <1>7, <1>8 DEF IInv

LEMMA QueryKeeps ==
  ASSUME IInv, Query
  PROVE  IInv'
<1>1. PICK rs : Read(rs)
  BY Zenon DEF Query
<1>2. stv_at = "idle" /\ UNCHANGED <<stv_at, stv_trial, stv_request, stv_tuned>>
  BY DEF Query
<1>3. stv_regs \in StvRegs /\ stv_chip \in StvRegs
  BY Zenon DEF IInv, TypeOKStv
<1>4. /\ stv_regs' \in StvRegs
      /\ UNCHANGED <<stv_chip, stv_intact>>
      /\ \A r \in RegNames : \/ stv_regs'[r] = stv_regs[r]
                             \/ r \in rs /\ stv_regs'[r] = stv_chip[r]
  BY <1>1, <1>3, ReadBack, Zenon
<1>5. TypeOKStv'
  BY <1>2, <1>4, Zenon DEF IInv, TypeOKStv
<1>6. Synced'
  BY <1>2, <1>4, SMT DEF IInv, Synced, Outdated, Ctrl, RegNames
<1>7. Prepares'
  BY <1>2, SMT DEF Prepares
<1>8. TunedAsAsked'
  BY <1>2, <1>4, Zenon DEF IInv, TunedAsAsked
<1> QED
  BY <1>5, <1>6, <1>7, <1>8 DEF IInv

LEMMA ProbeKeeps ==
  ASSUME IInv, StvProbe
  PROVE  IInv'
<1>1. TypeOKStv'
  BY DefaultShape, Zenon DEF IInv, TypeOKStv, StvProbe
<1>2. Synced' /\ TunedAsAsked'
  BY Zenon DEF StvProbe, Synced, TunedAsAsked
<1>3. Prepares'
  BY SMT DEF StvProbe, Prepares
<1> QED
  BY <1>1, <1>2, <1>3 DEF IInv

\* A calibration that ends clears its start bit in the chip.
LEMMA CalibrationShape ==
  ASSUME stv_chip \in StvRegs, CalibrationEnds
  PROVE  /\ stv_chip' \in StvRegs
         /\ \A r \in Ctrl : stv_chip'[r] = stv_chip[r]
         /\ stv_chip'.STAT1.vco => stv_chip.STAT1.vco
         /\ stv_chip'.STAT1.rc  => stv_chip.STAT1.rc
<1>1. PICK c \in {"vco", "rc"} : stv_chip' = [stv_chip EXCEPT !.STAT1[c] = FALSE]
  BY Zenon DEF CalibrationEnds
<1> DEFINE start == [stv_chip.STAT1 EXCEPT ![c] = FALSE]
<1>2. stv_chip.STAT1 \in Starts /\ DOMAIN stv_chip = RegNames
  BY RegShape, Zenon
<1>3. start \in Starts
  BY <1>2, StartShape, Zenon
<1>4. (start.vco => stv_chip.STAT1.vco) /\ (start.rc => stv_chip.STAT1.rc)
  BY <1>2, Zenon DEF Starts
<1>5. stv_chip' = [stv_chip EXCEPT !.STAT1 = start]
  BY <1>1, Zenon
<1> HIDE DEF start
<1>6. stv_chip' \in StvRegs /\ stv_chip'.STAT1 = start
  BY <1>2, <1>3, <1>5, Replaced, Zenon DEF RegNames
<1>7. \A r \in Ctrl : stv_chip'[r] = stv_chip[r]
  BY <1>2, <1>5, Zenon DEF Ctrl, RegNames
<1> QED
  BY <1>4, <1>6, <1>7, Zenon

LEMMA CalibrationKeeps ==
  ASSUME IInv, CalibrationEnds
  PROVE  IInv'
<1>1. UNCHANGED <<stv_regs, stv_at, stv_trial, stv_request, stv_tuned, stv_intact>>
  BY DEF CalibrationEnds
<1>2. stv_chip \in StvRegs
  BY Zenon DEF IInv, TypeOKStv
<1>3. stv_chip' \in StvRegs /\ \A r \in Ctrl : stv_chip'[r] = stv_chip[r]
  BY <1>2, CalibrationShape, Zenon
<1>4. /\ stv_chip'.CTRL1 = stv_chip.CTRL1 /\ stv_chip'.TNG0 = stv_chip.TNG0
      /\ stv_chip'.TNG1 = stv_chip.TNG1 /\ stv_chip'.CTRL3 = stv_chip.CTRL3
  BY <1>3, Zenon DEF Ctrl
<1>5. TypeOKStv'
  BY <1>1, <1>3, Zenon DEF IInv, TypeOKStv
<1>6. Synced'
  BY <1>1, <1>3, Zenon DEF IInv, Synced, Outdated
<1>7. Prepares'
  BY <1>1, Zenon DEF IInv, Prepares
<1>8. TunedAsAsked'
  <2>1. TunedTo(stv_chip', stv_request.frequency) = TunedTo(stv_chip, stv_request.frequency)
    BY <1>4, TunedByDivider, Zenon
  <2> QED
    BY <1>1, <1>4, <2>1, Zenon DEF IInv, TunedAsAsked
<1> QED
  BY <1>5, <1>6, <1>7, <1>8 DEF IInv

\* A step of set_frequency or set_bandwidth.
LEMMA WriteRegShape ==
  ASSUME IInv, WriteReg
  PROVE  /\ stv_at \in DOMAIN Written
         /\ stv_regs' = Prepared /\ Prepared \in StvRegs
         /\ stv_chip' \in StvRegs
         /\ stv_intact' \in BOOLEAN
         /\ stv_intact' =>
              /\ stv_intact
              /\ \A r \in RegNames :
                   /\ r = Written[stv_at] => stv_chip'[r] = Prepared[r]
                   /\ r # Written[stv_at] => stv_chip'[r] = stv_chip[r]
         /\ stv_at' = StepAfter(stv_at)
         /\ stv_tuned' = (stv_at = "caldone") /\ stv_trial' = 0
         /\ stv_request' = stv_request
<1>1. PICK ok \in BOOLEAN : Write(Prepared, <<Written[stv_at]>>, ok)
  BY Zenon DEF WriteReg
<1>2. stv_regs \in StvRegs /\ stv_chip \in StvRegs /\ stv_intact \in BOOLEAN
  BY Zenon DEF IInv, TypeOKStv
<1>3. InBand(stv_request.frequency) /\ stv_request.bandwidth \in Nat
  BY RequestShape, Zenon DEF IInv, TypeOKStv
<1>4. stv_at \in DOMAIN Written
  BY DEF WriteReg
<1>5. Prepared \in StvRegs
  <2>1. /\ Retuned(stv_regs, stv_request.frequency) \in StvRegs
        /\ Refiltered(stv_regs, stv_request.bandwidth) \in StvRegs
    BY <1>2, <1>3, RetunedIsTuned, RefilteredFits, Zenon
  <2>2. [stv_regs EXCEPT !.CTRL3.rcclk_off = TRUE] \in StvRegs
    BY <1>2, ClockOff, Zenon
  <2>3. \/ Prepared = stv_regs
        \/ Prepared = Retuned(stv_regs, stv_request.frequency)
        \/ Prepared = Refiltered(stv_regs, stv_request.bandwidth)
        \/ Prepared = [stv_regs EXCEPT !.CTRL3.rcclk_off = TRUE]
    BY <1>4, Steps, Zenon
  <2> QED
    BY <1>2, <2>1, <2>2, <2>3, Zenon
<1> DEFINE regs == Prepared
           w    == Written[stv_at]
<1> HIDE DEF regs, w
<1>6. Write(regs, <<w>>, ok) /\ regs \in StvRegs
  BY <1>1, <1>5 DEF regs, w
<1>7. /\ stv_regs' = regs /\ stv_chip' \in StvRegs /\ stv_intact' \in BOOLEAN
      /\ stv_intact' =>
           /\ stv_intact
           /\ \A r \in RegNames : /\ r = w => stv_chip'[r] = regs[r]
                                  /\ r # w => stv_chip'[r] = stv_chip[r]
  BY <1>2, <1>6, WrittenOne, Zenon
<1>8. /\ stv_at' = StepAfter(stv_at)
      /\ stv_tuned' = (stv_at = "caldone") /\ stv_trial' = 0
      /\ stv_request' = stv_request
  BY DEF WriteReg
<1> QED
  BY <1>4, <1>5, <1>7, <1>8, Zenon DEF regs, w

LEMMA WriteRegTyped ==
  ASSUME IInv, WriteReg
  PROVE  TypeOKStv'
<1>1. StepAfter(stv_at) \in Ats
  BY WriteRegShape, Steps, AtShape, SMT
<1>2. 0 \in 0..TRIALS - 1
  BY TrialsAssumption, SMT
<1>3. stv_tuned' \in BOOLEAN
  BY WriteRegShape, Zenon
<1> QED
  BY <1>1, <1>2, <1>3, WriteRegShape, Zenon DEF IInv, TypeOKStv, Ats

LEMMA WriteRegKeeps ==
  ASSUME IInv, WriteReg
  PROVE  Synced' /\ Prepares' /\ TunedAsAsked'
<1> DEFINE f == stv_request.frequency
           b == stv_request.bandwidth
<1>1. stv_regs \in StvRegs /\ InBand(f) /\ b \in Nat
  BY RequestShape, Zenon DEF IInv, TypeOKStv
<1>2. stv_request' = stv_request
  BY WriteRegShape, Zenon
<1>3. Synced /\ Prepares
  BY DEF IInv
<1>4. CASE stv_at = "frequency"
  <2>1. /\ Written[stv_at] = "CTRL1" /\ stv_at' = "TNG1"
        /\ Prepared = Retuned(stv_regs, f) /\ stv_regs' = Prepared
    BY <1>4, Steps, WriteRegShape, SMT
  <2>2. /\ stv_regs'.CTRL1 = stv_regs.CTRL1 /\ stv_regs'.CTRL3 = stv_regs.CTRL3
        /\ stv_regs'.STAT1.rc = stv_regs.STAT1.rc /\ TunedTo(stv_regs', f)
    BY <1>1, <2>1, RetunedIsTuned, Zenon
  <2>3. Synced'
    BY <1>3, <1>4, <2>1, <2>2, WriteRegShape, SMT DEF Synced, Outdated, Ctrl, RegNames
  <2>4. Prepares'
    BY <1>2, <1>3, <1>4, <2>1, <2>2, SMT DEF Prepares
  <2> QED
    BY <2>1, <2>3, <2>4, SMT DEF TunedAsAsked
<1>5. CASE stv_at \in {"TNG1", "TNG0", "calvco"}
  <2>1. /\ stv_at' = StepAfter(stv_at) /\ Written[stv_at] \in {"TNG1", "TNG0", "STAT1"}
        /\ stv_at' \in {"TNG0", "calvco", "vco"} /\ stv_regs' = stv_regs
    BY <1>5, Steps, WriteRegShape, SMT
  <2>2. Synced'
    BY <1>3, <1>5, <2>1, Steps, WriteRegShape, SMT DEF Synced, Outdated, Ctrl, RegNames
  <2>3. Prepares'
    BY <1>2, <1>3, <1>5, <2>1, SMT DEF Prepares
  <2> QED
    BY <2>1, <2>2, <2>3, SMT DEF TunedAsAsked
<1>6. CASE stv_at = "bandwidth"
  <2>1. /\ Written[stv_at] = "CTRL3" /\ stv_at' = "calrc"
        /\ Prepared = Refiltered(stv_regs, b) /\ stv_regs' = Prepared
    BY <1>6, Steps, WriteRegShape, SMT
  <2>2. /\ stv_regs'.CTRL1 = stv_regs.CTRL1 /\ stv_regs'.TNG0 = stv_regs.TNG0
        /\ stv_regs'.TNG1 = stv_regs.TNG1 /\ FilterFits(stv_regs'.CTRL3.cf, b)
        /\ stv_regs'.CTRL3.rcclk_off = FALSE
    BY <1>1, <2>1, RefilteredFits, Zenon
  <2>3. TunedTo(stv_regs', f) = TunedTo(stv_regs, f)
    BY <2>2, TunedByDivider, Zenon
  <2>4. Synced'
    BY <1>3, <1>6, <2>1, <2>2, WriteRegShape, SMT DEF Synced, Outdated, Ctrl, RegNames
  <2>5. Prepares'
    BY <1>2, <1>3, <1>6, <2>1, <2>2, <2>3, SMT DEF Prepares
  <2> QED
    BY <2>1, <2>4, <2>5, SMT DEF TunedAsAsked
<1>7. CASE stv_at = "calrc"
  <2>1. /\ Written[stv_at] = "STAT1" /\ stv_at' = "rc"
        /\ Prepared = stv_regs /\ stv_regs' = stv_regs
    BY <1>7, Steps, WriteRegShape, SMT
  <2>2. Synced'
    BY <1>3, <1>7, <2>1, WriteRegShape, SMT DEF Synced, Outdated, Ctrl, RegNames
  <2>3. Prepares'
    BY <1>2, <1>3, <1>7, <2>1, SMT DEF Prepares
  <2> QED
    BY <2>1, <2>2, <2>3, SMT DEF TunedAsAsked
<1>8. CASE stv_at = "caldone"
  <2>1. /\ Written[stv_at] = "CTRL3" /\ stv_at' = "idle"
        /\ Prepared = [stv_regs EXCEPT !.CTRL3.rcclk_off = TRUE] /\ stv_regs' = Prepared
    BY <1>8, Steps, WriteRegShape, SMT
  <2>2. /\ stv_regs'.CTRL1 = stv_regs.CTRL1 /\ stv_regs'.TNG0 = stv_regs.TNG0
        /\ stv_regs'.TNG1 = stv_regs.TNG1 /\ stv_regs'.CTRL3.cf = stv_regs.CTRL3.cf
        /\ stv_regs'.CTRL3.rcclk_off
    BY <1>1, <2>1, ClockOff, Zenon
  <2>3. Synced'
    <3>1. /\ Written[stv_at] = "CTRL3" /\ stv_at' = "idle" /\ stv_regs' = Prepared
          /\ \A r \in Ctrl \ {"CTRL3"} : stv_regs'[r] = stv_regs[r]
      BY <2>1, <2>2, Zenon DEF Ctrl
    <3> QED
      BY <1>3, <1>8, <3>1, WriteRegShape, SMT DEF Synced, Outdated, Ctrl, RegNames
  <2>4. Prepares'
    BY <2>1, SMT DEF Prepares
  <2>5. ASSUME stv_intact'
        PROVE  /\ stv_chip'.CTRL1 = stv_regs'.CTRL1 /\ stv_chip'.TNG0 = stv_regs'.TNG0
               /\ stv_chip'.TNG1 = stv_regs'.TNG1 /\ stv_chip'.CTRL3 = stv_regs'.CTRL3
    BY <2>1, <2>3, <2>5, SMT DEF Synced, Outdated, Ctrl
  <2>6. stv_regs.CTRL1 /\ TunedTo(stv_regs, f) /\ FilterFits(stv_regs.CTRL3.cf, b)
    BY <1>3, <1>8, SMT DEF Prepares
  <2>7. ASSUME stv_intact'
        PROVE  TunedTo(stv_chip', f) = TunedTo(stv_regs, f)
    <3>1. stv_chip'.TNG0 = stv_regs.TNG0 /\ stv_chip'.TNG1 = stv_regs.TNG1
      BY <2>2, <2>5, <2>7, Zenon
    <3> QED
      BY <3>1, TunedByDivider, Zenon
  <2>8. TunedAsAsked'
    BY <1>2, <2>2, <2>5, <2>6, <2>7, Zenon DEF TunedAsAsked
  <2> QED
    BY <2>3, <2>4, <2>8
<1> QED
  BY <1>4, <1>5, <1>6, <1>7, <1>8, WriteRegShape, Steps, Zenon

\* A round of one of the polling loops.
LEMMA PollKeeps ==
  ASSUME IInv, NEW c, NEW next, Poll(c, next),
         \/ c = "vco" /\ next = "bandwidth"
         \/ c = "rc" /\ next = "caldone"
  PROVE  IInv'
<1>1. /\ stv_at = c /\ Read({"STAT1"}) /\ stv_at' \in {c, next}
      /\ UNCHANGED <<stv_request, stv_tuned>>
  BY Zenon DEF Poll
<1>2. stv_trial' \in 0..TRIALS - 1
  <2>1. stv_trial \in 0..TRIALS - 1
    BY DEF IInv, TypeOKStv
  <2>2. stv_trial' = 0 \/ (stv_trial + 1 < TRIALS /\ stv_trial' = stv_trial + 1)
    BY Zenon DEF Poll
  <2> QED
    BY <2>1, <2>2, TrialsAssumption, SMT
<1>3. stv_regs \in StvRegs /\ stv_chip \in StvRegs
  BY Zenon DEF IInv, TypeOKStv
<1>4. /\ stv_regs' \in StvRegs
      /\ UNCHANGED <<stv_chip, stv_intact>>
      /\ \A r \in Ctrl : stv_regs'[r] = stv_regs[r]
  <2>1. \A r \in Ctrl : r \in RegNames /\ r \notin {"STAT1"}
    BY SMT DEF Ctrl, RegNames
  <2> QED
    BY <1>1, <1>3, <2>1, ReadBack, Zenon
<1>5. /\ stv_regs'.CTRL1 = stv_regs.CTRL1 /\ stv_regs'.TNG0 = stv_regs.TNG0
      /\ stv_regs'.TNG1 = stv_regs.TNG1 /\ stv_regs'.CTRL3 = stv_regs.CTRL3
  BY <1>4, Zenon DEF Ctrl
<1>6. TunedTo(stv_regs', stv_request.frequency) = TunedTo(stv_regs, stv_request.frequency)
  BY <1>5, TunedByDivider, Zenon
<1>7. TypeOKStv'
  <2>1. stv_at' \in Ats
    BY <1>1, AtShape, SMT
  <2> QED
    BY <1>1, <1>2, <1>3, <1>4, <2>1, Zenon DEF IInv, TypeOKStv, Ats
<1>8. Synced'
  BY <1>1, <1>4, SMT DEF IInv, Synced, Outdated, Ctrl
<1>9. Prepares'
  BY <1>1, <1>5, <1>6, SMT DEF IInv, Prepares
<1>10. TunedAsAsked'
  BY <1>1, SMT DEF TunedAsAsked
<1> QED
  BY <1>7, <1>8, <1>9, <1>10 DEF IInv

LEMMA NextKeeps ==
  ASSUME IInv, [StvNext]_stv_vars
  PROVE  IInv'
<1>1. CASE UNCHANGED stv_vars
  <2>1. TypeOKStv' /\ Synced'
    BY <1>1, Zenon DEF IInv, TypeOKStv, Synced, Outdated, stv_vars
  <2>2. Prepares' /\ TunedAsAsked'
    BY <1>1, Zenon DEF IInv, Prepares, TunedAsAsked, stv_vars
  <2> QED
    BY <2>1, <2>2 DEF IInv
<1>2. CASE WriteReg
  BY <1>2, WriteRegTyped, WriteRegKeeps, Zenon DEF IInv
<1>3. CASE Poll("vco", "bandwidth") \/ Poll("rc", "caldone")
  BY <1>3, PollKeeps, Zenon
<1> QED
  BY <1>1, <1>2, <1>3, SetParamsKeeps, InitRegsKeeps, InitialiseKeeps, SleepKeeps, QueryKeeps,
     ProbeKeeps, CalibrationKeeps, Zenon DEF StvNext, StvWork

-----------------------------------------------------------------------------
(* The theorems. *)

LEMMA Invariant == StvSpec => []IInv
<1>1. StvInit => IInv
  BY InitKeeps
<1>2. IInv /\ [StvNext]_stv_vars => IInv'
  BY NextKeeps
<1> QED
  BY <1>1, <1>2, PTL DEF StvSpec

(***************************************************************************)
(* Every register keeps its type through every history: no frequency or    *)
(* bandwidth the frontend lets through makes a value run out of its field. *)
(***************************************************************************)
THEOREM TypeCorrect == StvSpec => []TypeOKStv
<1>1. IInv => TypeOKStv
  BY DEF IInv
<1> QED
  BY <1>1, Invariant, PTL

(***************************************************************************)
(* Outside set_params the control registers of the chip are what the cache *)
(* says, as long as no transfer of the last set_params or after it failed. *)
(***************************************************************************)
THEOREM CacheFollows == StvSpec => []CacheAgrees
<1>1. IInv => CacheAgrees
  BY SMT DEF IInv, Synced, Outdated, Ctrl, CacheAgrees
<1> QED
  BY <1>1, Invariant, PTL

(***************************************************************************)
(* A set_params that returned 0 with nothing gone wrong on the bus has     *)
(* left the chip awake, within half a megahertz of the frequency and with  *)
(* the filter for the bandwidth, whatever they are.                        *)
(***************************************************************************)
THEOREM TuningIsTrue == StvSpec => []TunedAsAsked
<1>1. IInv => TunedAsAsked
  BY DEF IInv
<1> QED
  BY <1>1, Invariant, PTL

(***************************************************************************)
(* No calibration starts before what it calibrates is in the chip.         *)
(***************************************************************************)
THEOREM CalibrationsInOrder == StvSpec => CalibratesInOrder
<1> DEFINE Step ==
      stv_at # "idle" /\ stv_intact' =>
        /\ ~stv_chip.STAT1.vco /\ stv_chip'.STAT1.vco =>
             TunedTo(stv_chip', stv_request.frequency)
        /\ ~stv_chip.STAT1.rc /\ stv_chip'.STAT1.rc =>
             /\ FilterFits(stv_chip'.CTRL3.cf, stv_request.bandwidth)
             /\ ~stv_chip'.CTRL3.rcclk_off
<1>1. ASSUME IInv, InitRegs
      PROVE  Step
  <2>1. PICK ok \in BOOLEAN : Write(stv_regs, StvOrder, ok)
    BY <1>1, Zenon DEF InitRegs
  <2>2. stv_regs \in StvRegs /\ stv_chip \in StvRegs /\ stv_intact \in BOOLEAN
    BY <1>1, Zenon DEF IInv, TypeOKStv
  <2>3. stv_intact' => \A r \in RegNames : stv_chip'[r] = stv_regs[r]
    BY <2>1, <2>2, WrittenAll, Zenon
  <2>4. stv_regs = default_regs
    BY <1>1 DEF IInv, Prepares, InitRegs
  <2>5. stv_intact' => ~stv_chip'.STAT1.vco /\ ~stv_chip'.STAT1.rc
    BY <2>3, <2>4, DefaultShape, Zenon DEF RegNames
  <2> QED
    BY <2>5, Zenon
<1>2. ASSUME IInv, WriteReg
      PROVE  Step
  <2> SUFFICES ASSUME stv_intact' PROVE Step
    OBVIOUS
  <2>1. /\ Synced' /\ Prepares' /\ stv_request' = stv_request
        /\ stv_intact /\ \A r \in RegNames :
                            /\ r = Written[stv_at] => stv_chip'[r] = Prepared[r]
                            /\ r # Written[stv_at] => stv_chip'[r] = stv_chip[r]
    BY <1>2, WriteRegShape, WriteRegKeeps, Zenon
  <2>2. CASE Written[stv_at] # "STAT1"
    <3>1. stv_chip'.STAT1 = stv_chip.STAT1
      BY <2>1, <2>2, Zenon DEF RegNames
    <3> QED
      BY <3>1, Zenon
  <2>3. CASE Written[stv_at] = "STAT1"
    <3>1. /\ stv_at \in {"calvco", "calrc"} /\ Prepared = stv_regs
          /\ stv_at' \in {"vco", "rc"} /\ (stv_at = "calrc" => stv_at' = "rc")
      BY <1>2, <2>3, WriteRegShape, Steps, SMT
    <3>2. stv_chip'.STAT1 = stv_regs.STAT1 /\ stv_regs' = stv_regs
      BY <1>2, <2>1, <2>3, <3>1, WriteRegShape, Zenon DEF RegNames
    <3>3. /\ stv_chip'.TNG0 = stv_regs'.TNG0 /\ stv_chip'.TNG1 = stv_regs'.TNG1
          /\ stv_chip'.CTRL3 = stv_regs'.CTRL3
      BY <2>1, <3>1, SMT DEF Synced, Outdated, Ctrl
    <3>4. TunedTo(stv_chip', stv_request.frequency)
      <4>1. TunedTo(stv_regs', stv_request.frequency)
        BY <2>1, <3>1, SMT DEF Prepares
      <4> QED
        BY <3>3, <4>1, TunedByDivider, Zenon
    <3>5. CASE stv_at = "calvco"
      <4>1. ~stv_chip'.STAT1.rc
        BY <1>2, <3>2, <3>5, SMT DEF IInv, Prepares
      <4> QED
        BY <3>4, <4>1, Zenon
    <3>6. CASE stv_at = "calrc"
      <4>1. /\ FilterFits(stv_chip'.CTRL3.cf, stv_request.bandwidth)
            /\ ~stv_chip'.CTRL3.rcclk_off
        BY <2>1, <3>1, <3>3, <3>6, SMT DEF Prepares
      <4> QED
        BY <3>4, <4>1, Zenon
    <3> QED
      BY <3>1, <3>5, <3>6, Zenon
  <2> QED
    BY <2>2, <2>3, Zenon
<1>3. ASSUME IInv, CalibrationEnds
      PROVE  Step
  <2>1. stv_chip \in StvRegs
    BY <1>3, Zenon DEF IInv, TypeOKStv
  <2> QED
    BY <1>3, <2>1, CalibrationShape, Zenon
<1>4. ASSUME stv_at = "idle" \/ stv_chip' = stv_chip
      PROVE  Step
  BY <1>4, Zenon
<1>5. ASSUME StvNext
      PROVE  \/ InitRegs \/ WriteReg \/ CalibrationEnds
             \/ stv_at = "idle" \/ stv_chip' = stv_chip
  <2>1. ASSUME NEW c, NEW next, Poll(c, next)
        PROVE  stv_chip' = stv_chip
    BY <2>1, Zenon DEF Poll, Read
  <2> QED
    BY <1>5, <2>1, Zenon
       DEF StvNext, StvWork, SetParams, Initialise, Sleep, Query, StvProbe
<1> HIDE DEF Step
<1>6. IInv /\ [StvNext]_stv_vars => [Step]_stv_vars
  BY <1>1, <1>2, <1>3, <1>4, <1>5, Zenon
<1>7. StvSpec => [][Step]_stv_vars
  BY <1>6, Invariant, PTL DEF StvSpec
<1> QED
  BY <1>7 DEF CalibratesInOrder, Step
=============================================================================
