------------------------ MODULE FrontendArbiterProofs ------------------------
(***************************************************************************)
(* Proofs about FrontendArbiter for any finite set of sessions.  Those of  *)
(* exclusiveness assume that no device is opened before akb_pcr20x_init    *)
(* has run; without it they are false.                                     *)
(***************************************************************************)
EXTENDS FrontendArbiter, FiniteSetTheorems, TLAPS

USE DEF Frontends

-----------------------------------------------------------------------------
\* What the two register programs have in common.

LEMMA ProgramFacts ==
  ASSUME NEW f \in Frontends
  PROVE  /\ Len(Program[f]) \in 1..8
         /\ DOMAIN Program[f] = 1..Len(Program[f])
         /\ \A i \in 1..Len(Program[f]) : /\ Program[f][i].at \in Registers
                                          /\ Program[f][i].val \in 0..255
         /\ \A i, j \in 1..Len(Program[f]) :
              Program[f][i].at = Program[f][j].at => i = j
<1>1. CASE f = "S"
  <2>1. Program[f] = ProgramS
    BY <1>1 DEF Program
  <2>2. Len(ProgramS) = 8 /\ DOMAIN ProgramS = 1..8
    BY DEF ProgramS
  <2>3. \A i \in 1..8 : /\ ProgramS[i].at \in Registers
                        /\ ProgramS[i].val \in 0..255
    BY DEF ProgramS, Write, Registers
  <2>4. \A i, j \in 1..8 : ProgramS[i].at = ProgramS[j].at => i = j
    BY DEF ProgramS, Write
  <2>5. QED
    BY <2>1, <2>2, <2>3, <2>4
<1>2. CASE f = "T"
  <2>1. Program[f] = ProgramT
    BY <1>2 DEF Program
  <2>2. Len(ProgramT) = 4 /\ DOMAIN ProgramT = 1..4
    BY DEF ProgramT
  <2>3. \A i \in 1..4 : /\ ProgramT[i].at \in Registers
                        /\ ProgramT[i].val \in 0..255
    BY DEF ProgramT, Write, Registers
  <2>4. \A i, j \in 1..4 : ProgramT[i].at = ProgramT[j].at => i = j
    BY DEF ProgramT, Write
  <2>5. QED
    BY <2>1, <2>2, <2>3, <2>4
<1>3. QED
  BY <1>1, <1>2

-----------------------------------------------------------------------------
\* The types hold after attach.
LEMMA TypeInit == Init => TypeOK
<1> SUFFICES ASSUME Init PROVE TypeOK
  OBVIOUS
<1>1. session \in [Sessions -> {Closed} \cup
                      [st : {"opening", "open", "closing"}, fe : Frontends]]
  BY DEF Init
<1>2. /\ pc \in [Frontends -> {"idle", "lock", "write"}]
      /\ step \in [Frontends -> 1..9]
  BY DEF Init
<1>3. reg \in [Registers -> 0..255]
  BY DEF Init
<1>4. /\ inited \in BOOLEAN /\ open_count \in Nat
      /\ mutex_fe \in Frontends \cup {None} /\ active_fe \in Frontends \cup {None}
      /\ alive \subseteq Frontends /\ tuned \subseteq Frontends
  BY DEF Init
<1>5. QED
  BY <1>1, <1>2, <1>3, <1>4 DEF TypeOK

\* Every step keeps the types, before init as well as after it.
LEMMA TypeStep == TypeOK /\ [Next]_vars => TypeOK'
<1> SUFFICES ASSUME TypeOK, [Next]_vars PROVE TypeOK'
  OBVIOUS
<1> USE DEF TypeOK
<1>1. CASE DriverInit
  BY <1>1 DEF DriverInit
<1>2. ASSUME NEW s \in Sessions, NEW f \in Frontends, OpenCall(s, f)
      PROVE  TypeOK'
  BY <1>2 DEF OpenCall
<1>3. ASSUME NEW s \in Sessions, CloseCall(s) PROVE TypeOK'
  <2>1. session[s].fe \in Frontends
    BY <1>3 DEF CloseCall, Closed
  <2>2. QED
    BY <1>3, <2>1 DEF CloseCall
<1>4. ASSUME NEW s \in Sessions, Acquire(s) PROVE TypeOK'
  <2>1. session[s].fe \in Frontends
    BY <1>4 DEF Acquire, Closed
  <2>2. QED
    BY <1>4, <2>1 DEF Acquire
<1>5. ASSUME NEW s \in Sessions, Refuse(s) PROVE TypeOK'
  BY <1>5 DEF Refuse
<1>6. ASSUME NEW s \in Sessions, Release(s) PROVE TypeOK'
  BY <1>6 DEF Release
<1>7. ASSUME NEW f \in Frontends, ThreadExit(f) PROVE TypeOK'
  BY <1>7 DEF ThreadExit
<1>8. ASSUME NEW f \in Frontends, SetFrontend(f) PROVE TypeOK'
  BY <1>8 DEF SetFrontend, bus
<1>9. ASSUME NEW f \in Frontends, Enter(f) PROVE TypeOK'
  BY <1>9 DEF Enter
<1>10. ASSUME NEW f \in Frontends, Busy(f) PROVE TypeOK'
  BY <1>10 DEF Busy, bus
<1>11. ASSUME NEW f \in Frontends, WriteRegister(f) PROVE TypeOK'
  <2>1. step[f] \in 1..8
    BY <1>11, ProgramFacts DEF WriteRegister
  <2>2. step[f] \in 1..Len(Program[f])
    BY <1>11, <2>1, ProgramFacts DEF WriteRegister
  <2>3. /\ Program[f][step[f]].at \in Registers
        /\ Program[f][step[f]].val \in 0..255
    BY <2>2, ProgramFacts
  <2>4. reg' \in [Registers -> 0..255]
    <3>1. PICK r \in Registers, v \in 0..255 : reg' = [reg EXCEPT ![r] = v]
      BY <1>11, <2>3 DEF WriteRegister
    <3>2. QED
      BY <3>1
  <2>5. step' \in [Frontends -> 1..9]
    BY <1>11, <2>1 DEF WriteRegister
  <2>6. QED
    BY <1>11, <2>4, <2>5 DEF WriteRegister, bus
<1>12. ASSUME NEW f \in Frontends, WriteFails(f) PROVE TypeOK'
  <2>1. step[f] \in 1..Len(Program[f])
    BY <1>12, ProgramFacts DEF WriteFails
  <2>2. /\ Program[f][step[f]].at \in Registers
        /\ Program[f][step[f]].val \in 0..255
    BY <2>1, ProgramFacts
  <2>3. reg' \in [Registers -> 0..255]
    <3>1. PICK r \in Registers, v \in 0..255 : reg' \in {reg, [reg EXCEPT ![r] = v]}
      BY <1>12, <2>2 DEF WriteFails
    <3>2. QED
      BY <3>1
  <2>4. QED
    BY <1>12, <2>3 DEF WriteFails, Unlocked
<1>13. ASSUME NEW f \in Frontends, Tune(f) PROVE TypeOK'
  BY <1>13 DEF Tune, Unlocked
<1>14. CASE UNCHANGED vars
  BY <1>14 DEF vars
<1>15. QED
  BY <1>1, <1>2, <1>3, <1>4, <1>5, <1>6, <1>7, <1>8, <1>9, <1>10, <1>11,
     <1>12, <1>13, <1>14 DEF Next, Answer, Proceed

(***************************************************************************)
(* Type correctness, whatever the order of opening and init.               *)
(***************************************************************************)
THEOREM TypeCorrect == Spec => []TypeOK
  BY TypeInit, TypeStep, PTL DEF Spec

-----------------------------------------------------------------------------
(***************************************************************************)
(* The inductive invariant.  Nothing has happened before init; the mutex   *)
(* is held exactly by the thread inside its register program, whose        *)
(* partner then is not in use; and the part of the program behind that     *)
(* thread is in the registers.                                             *)
(***************************************************************************)
Quiet ==
  ~inited => /\ mutex_fe = None /\ active_fe = None /\ open_count = 0
             /\ alive = {}
             /\ \A s \in Sessions : session[s] = Closed
             /\ \A f \in Frontends : pc[f] = "idle"

MutexHeld ==
  \A f \in Frontends :
    /\ pc[f] = "write" <=> mutex_fe = f
    /\ mutex_fe = f => active_fe \in {None, f} /\ f \notin tuned

WritesDone ==
  \A f \in Frontends :
    /\ pc[f] # "write" => step[f] = 1
    /\ pc[f] = "write" =>
         \A i \in 1..Len(Program[f]) :
           i < step[f] => reg[Program[f][i].at] = Program[f][i].val

IInv == TypeOK /\ Quiet /\ MutexHeld /\ CountMatches /\ WritesDone /\ RouteHeld

\* The sessions that hold the bus can be counted.
LEMMA HoldersFinite == IsFiniteSet(Holders) /\ Cardinality(Holders) \in Nat
  BY SessionAssumption, FS_Subset, FS_CardinalityType DEF Holders

\* The invariant holds after attach.
LEMMA InitInv == Init => IInv
<1> SUFFICES ASSUME Init PROVE IInv
  OBVIOUS
<1>1. TypeOK
  BY TypeInit
<1>2. Quiet /\ MutexHeld /\ WritesDone
  BY NoneAssumption DEF Init, Quiet, MutexHeld, WritesDone
<1>3. Holders = {}
  BY DEF Init, Holders, Closed
<1>4. CountMatches
  BY <1>3, FS_EmptySet DEF Init, CountMatches
<1>5. RouteHeld
  BY DEF Init, RouteHeld
<1>6. QED
  BY <1>1, <1>2, <1>4, <1>5 DEF IInv

\* Who holds the mutex.
LEMMA MutexStep ==
  ASSUME TypeOK, Quiet, MutexHeld, [Next]_vars
  PROVE  MutexHeld'
<1> USE NoneAssumption DEF MutexHeld
<1>1. CASE DriverInit
  BY <1>1 DEF DriverInit, Quiet
<1>2. ASSUME NEW s \in Sessions, NEW f \in Frontends, OpenCall(s, f) PROVE MutexHeld'
  BY <1>2 DEF OpenCall
<1>3. ASSUME NEW s \in Sessions, CloseCall(s) PROVE MutexHeld'
  BY <1>3 DEF CloseCall
<1>4. ASSUME NEW s \in Sessions, Acquire(s) PROVE MutexHeld'
  BY <1>4 DEF Acquire
<1>5. ASSUME NEW s \in Sessions, Refuse(s) PROVE MutexHeld'
  BY <1>5 DEF Refuse
<1>6. ASSUME NEW s \in Sessions, Release(s) PROVE MutexHeld'
  BY <1>6 DEF Release
<1>7. ASSUME NEW f \in Frontends, ThreadExit(f) PROVE MutexHeld'
  BY <1>7 DEF ThreadExit
<1>8. ASSUME NEW f \in Frontends, SetFrontend(f) PROVE MutexHeld'
  BY <1>8 DEF SetFrontend, bus, TypeOK
<1>9. ASSUME NEW f \in Frontends, Enter(f) PROVE MutexHeld'
  BY <1>9 DEF Enter, TypeOK
<1>10. ASSUME NEW f \in Frontends, Busy(f) PROVE MutexHeld'
  BY <1>10 DEF Busy, bus, TypeOK
<1>11. ASSUME NEW f \in Frontends, WriteRegister(f) PROVE MutexHeld'
  BY <1>11 DEF WriteRegister, bus
<1>12. ASSUME NEW f \in Frontends, WriteFails(f) PROVE MutexHeld'
  BY <1>12 DEF WriteFails, Unlocked, TypeOK
<1>13. ASSUME NEW f \in Frontends, Tune(f) PROVE MutexHeld'
  BY <1>13 DEF Tune, Unlocked, TypeOK
<1>14. CASE UNCHANGED vars
  BY <1>14 DEF vars
<1>15. QED
  BY <1>1, <1>2, <1>3, <1>4, <1>5, <1>6, <1>7, <1>8, <1>9, <1>10, <1>11,
     <1>12, <1>13, <1>14 DEF Next, Answer, Proceed

\* Before init nothing is open and no thread runs.
LEMMA QuietStep ==
  ASSUME EARLY_OPEN = FALSE, TypeOK, Quiet, [Next]_vars
  PROVE  Quiet'
<1> USE DEF Quiet
<1>1. CASE DriverInit
  BY <1>1 DEF DriverInit
<1>2. ASSUME NEW s \in Sessions, NEW f \in Frontends, OpenCall(s, f) PROVE Quiet'
  BY <1>2 DEF OpenCall
<1>3. ASSUME NEW s \in Sessions, CloseCall(s) \/ Answer(s) PROVE Quiet'
  BY <1>3 DEF CloseCall, Answer, Acquire, Refuse, Release, Closed
<1>4. ASSUME NEW f \in Frontends, ThreadExit(f) \/ SetFrontend(f) PROVE Quiet'
  BY <1>4 DEF ThreadExit, SetFrontend, bus
<1>5. ASSUME NEW f \in Frontends, Enter(f) \/ Busy(f) PROVE Quiet'
  BY <1>5 DEF Enter, Busy, bus
<1>6. ASSUME NEW f \in Frontends, Proceed(f) PROVE Quiet'
  BY <1>6 DEF Proceed, WriteRegister, WriteFails, Tune, bus
<1>7. CASE UNCHANGED vars
  BY <1>7 DEF vars
<1>8. QED
  BY <1>1, <1>2, <1>3, <1>4, <1>5, <1>6, <1>7 DEF Next

\* The driver's count of the sessions.
LEMMA CountStep ==
  ASSUME TypeOK, Quiet, CountMatches, [Next]_vars
  PROVE  CountMatches'
<1> USE NoneAssumption DEF CountMatches
<1>1. ASSUME Holders' = Holders, UNCHANGED <<active_fe, open_count>>,
             \A s \in Holders : session'[s].fe = session[s].fe
      PROVE  CountMatches'
  BY <1>1
<1>2. CASE DriverInit
  BY <1>1, <1>2, FS_EmptySet DEF DriverInit, Quiet, Holders, Closed
<1>3. ASSUME NEW s \in Sessions, NEW f \in Frontends, OpenCall(s, f) PROVE CountMatches'
  BY <1>1, <1>3 DEF OpenCall, Holders, Closed, TypeOK
<1>4. ASSUME NEW s \in Sessions, CloseCall(s) PROVE CountMatches'
  BY <1>1, <1>4 DEF CloseCall, Holders, TypeOK
<1>5. ASSUME NEW s \in Sessions, Refuse(s) PROVE CountMatches'
  BY <1>1, <1>5 DEF Refuse, Holders, Closed, TypeOK
<1>6. ASSUME NEW s \in Sessions, Acquire(s) PROVE CountMatches'
  <2>1. s \notin Holders /\ session[s].fe \in Frontends
    BY <1>6 DEF Acquire, Holders, TypeOK, Closed
  <2>2. /\ session'[s].fe = session[s].fe
        /\ \A o \in Sessions \ {s} : session'[o] = session[o]
    BY <1>6 DEF Acquire, TypeOK
  <2>3. Holders' = Holders \cup {s}
    BY <1>6 DEF Acquire, Holders, TypeOK
  <2>4. Cardinality(Holders') = Cardinality(Holders) + 1
    BY <2>1, <2>3, HoldersFinite, FS_AddElement
  <2>5. active_fe' = session[s].fe /\ open_count' = open_count + 1
    BY <1>6 DEF Acquire
  <2>6. \A o \in Holders : session[o].fe = session[s].fe
    BY <1>6 DEF Acquire
  <2>7. \A o \in Holders' : session'[o].fe = active_fe'
    BY <2>1, <2>2, <2>3, <2>5, <2>6 DEF Holders
  <2>8. QED
    BY <2>1, <2>3, <2>4, <2>5, <2>7
<1>7. ASSUME NEW s \in Sessions, Release(s) PROVE CountMatches'
  <2>1. s \in Holders
    BY <1>7 DEF Release, Holders
  <2>2. \A o \in Sessions \ {s} : session'[o] = session[o]
    BY <1>7 DEF Release, TypeOK
  <2>3. Holders' = Holders \ {s}
    BY <1>7 DEF Release, Holders, Closed, TypeOK
  <2>4. Cardinality(Holders') = Cardinality(Holders) - 1
    BY <2>1, <2>3, HoldersFinite, FS_RemoveElement
  <2>5. Cardinality(Holders) # 0
    BY <2>1, HoldersFinite, FS_EmptySet
  <2>6. /\ open_count' = open_count - 1
        /\ active_fe' = IF open_count = 1 THEN None ELSE active_fe
    BY <1>7, <2>1, <2>5, HoldersFinite DEF Release
  <2>7. IsFiniteSet(Holders')
    BY <2>3, HoldersFinite, FS_RemoveElement
  <2>8. Holders' = {} <=> open_count = 1
    BY <2>4, <2>7, HoldersFinite, FS_EmptySet
  <2>9. \A o \in Holders' : session'[o].fe = active_fe
    BY <2>2, <2>3 DEF Holders
  <2>10. QED
    BY <2>1, <2>4, <2>6, <2>8, <2>9
<1>8. ASSUME NEW f \in Frontends, ThreadExit(f) \/ SetFrontend(f) \/ Enter(f) \/ Busy(f)
      PROVE  CountMatches'
  BY <1>1, <1>8 DEF ThreadExit, SetFrontend, Enter, Busy, bus, Holders
<1>9. ASSUME NEW f \in Frontends, Proceed(f) PROVE CountMatches'
  BY <1>1, <1>9 DEF Proceed, WriteRegister, WriteFails, Tune, bus, Holders
<1>10. CASE UNCHANGED vars
  BY <1>1, <1>10 DEF vars, Holders
<1>11. QED
  BY <1>2, <1>3, <1>4, <1>5, <1>6, <1>7, <1>8, <1>9, <1>10 DEF Next, Answer

\* The part of its program a thread has written is in the registers.
LEMMA WritesStep ==
  ASSUME TypeOK, Quiet, MutexHeld, WritesDone, [Next]_vars
  PROVE  WritesDone'
<1> USE NoneAssumption DEF WritesDone
<1>1. CASE DriverInit
  BY <1>1 DEF DriverInit
<1>2. ASSUME NEW s \in Sessions, (\E f \in Frontends : OpenCall(s, f)) \/ CloseCall(s) \/ Answer(s)
      PROVE  WritesDone'
  BY <1>2 DEF OpenCall, CloseCall, Answer, Acquire, Refuse, Release
<1>3. ASSUME NEW f \in Frontends, ThreadExit(f) \/ SetFrontend(f) \/ Busy(f) PROVE WritesDone'
  BY <1>3 DEF ThreadExit, SetFrontend, Busy, bus, TypeOK
<1>4. ASSUME NEW f \in Frontends, Enter(f) PROVE WritesDone'
  BY <1>4 DEF Enter, TypeOK
<1>5. ASSUME NEW f \in Frontends, WriteRegister(f) PROVE WritesDone'
  <2> DEFINE w == Program[f][step[f]]
  <2>1. step[f] \in 1..Len(Program[f])
    BY <1>5, ProgramFacts DEF WriteRegister, TypeOK
  <2>0. \A g \in Frontends : pc'[g] # "write" => step'[g] = 1
    BY <1>5 DEF WriteRegister, bus, TypeOK
  <2>2. SUFFICES ASSUME NEW g \in Frontends, pc'[g] = "write",
                        NEW i \in 1..Len(Program[g]), i < step'[g]
                 PROVE  reg'[Program[g][i].at] = Program[g][i].val
    BY <2>0
  <2>3. g = f
    BY <1>5, <2>2 DEF WriteRegister, bus, MutexHeld
  <2>4. step'[f] = step[f] + 1 /\ reg' = [reg EXCEPT ![w.at] = w.val]
    BY <1>5 DEF WriteRegister, TypeOK
  <2>5. Program[f][i].at \in DOMAIN reg
    BY <2>2, <2>3, ProgramFacts DEF TypeOK
  <2>6. CASE i = step[f]
    BY <2>3, <2>4, <2>5, <2>6
  <2>7. CASE i < step[f]
    <3>1. Program[f][i].at # w.at
      BY <2>1, <2>2, <2>3, <2>7, ProgramFacts
    <3>2. pc[f] = "write"
      BY <1>5 DEF WriteRegister
    <3>3. reg[Program[f][i].at] = Program[f][i].val
      BY <2>2, <2>3, <2>7, <3>2
    <3>4. QED
      BY <2>3, <2>4, <2>5, <3>1, <3>3
  <2>8. step[f] \in Int /\ i \in Int
    BY <2>1, <2>2
  <2>9. QED
    BY <2>2, <2>3, <2>4, <2>6, <2>7, <2>8
<1>6. ASSUME NEW f \in Frontends, WriteFails(f) PROVE WritesDone'
  BY <1>6 DEF WriteFails, MutexHeld, TypeOK
<1>7. ASSUME NEW f \in Frontends, Tune(f) PROVE WritesDone'
  BY <1>7 DEF Tune, MutexHeld, TypeOK
<1>8. CASE UNCHANGED vars
  BY <1>8 DEF vars
<1>9. QED
  BY <1>1, <1>2, <1>3, <1>4, <1>5, <1>6, <1>7, <1>8 DEF Next, Proceed

\* The registers of a tuned frontend in use.
LEMMA RouteStep ==
  ASSUME TypeOK, Quiet, MutexHeld, WritesDone, RouteHeld, [Next]_vars
  PROVE  RouteHeld'
<1> USE NoneAssumption DEF RouteHeld
<1>1. CASE DriverInit
  BY <1>1 DEF DriverInit, TypeOK
<1>2. ASSUME NEW s \in Sessions, (\E f \in Frontends : OpenCall(s, f)) \/ CloseCall(s)
                                  \/ Refuse(s) \/ Release(s)
      PROVE  RouteHeld'
  BY <1>2 DEF OpenCall, CloseCall, Refuse, Release, TypeOK
<1>3. ASSUME NEW s \in Sessions, Acquire(s) PROVE RouteHeld'
  BY <1>3 DEF Acquire, TypeOK
<1>4. ASSUME NEW f \in Frontends, ThreadExit(f) \/ SetFrontend(f) \/ Busy(f) \/ Enter(f)
      PROVE  RouteHeld'
  BY <1>4 DEF ThreadExit, SetFrontend, Busy, Enter, bus
<1>5. ASSUME NEW f \in Frontends, WriteRegister(f) \/ WriteFails(f) PROVE RouteHeld'
  <2>1. pc[f] = "write" /\ tuned' = tuned /\ active_fe' = active_fe
    BY <1>5 DEF WriteRegister, WriteFails, bus
  <2>2. active_fe \in {None, f} /\ f \notin tuned
    BY <2>1 DEF MutexHeld
  <2>3. \A g \in tuned' : active_fe' # g
    BY <2>1, <2>2 DEF TypeOK
  <2>4. QED
    BY <2>3
<1>6. ASSUME NEW f \in Frontends, Tune(f) PROVE RouteHeld'
  <2>1. \A i \in 1..Len(Program[f]) : reg[Program[f][i].at] = Program[f][i].val
    <3>1. pc[f] = "write" /\ step[f] > Len(Program[f])
      BY <1>6 DEF Tune
    <3>2. step[f] \in Int /\ Len(Program[f]) \in Int
      BY ProgramFacts DEF TypeOK
    <3>3. QED
      BY <3>1, <3>2 DEF WritesDone
  <2>2. tuned' \in {tuned, tuned \cup {f}} /\ UNCHANGED <<active_fe, reg>>
    BY <1>6 DEF Tune
  <2>3. DOMAIN Program[f] = 1..Len(Program[f])
    BY ProgramFacts
  <2>4. QED
    BY <2>1, <2>2, <2>3
<1>7. CASE UNCHANGED vars
  BY <1>7 DEF vars
<1>8. QED
  BY <1>1, <1>2, <1>3, <1>4, <1>5, <1>6, <1>7 DEF Next, Answer, Proceed

-----------------------------------------------------------------------------
\* So, with no open before init, the invariant holds in every state.
LEMMA Invariance == ASSUME EARLY_OPEN = FALSE PROVE Spec => []IInv
<1>1. IInv /\ [Next]_vars => IInv'
  BY TypeStep, QuietStep, MutexStep, CountStep, WritesStep, RouteStep DEF IInv
<1>2. QED
  BY InitInv, <1>1, PTL DEF Spec

(***************************************************************************)
(* Sessions on the two frontends are never open together.                  *)
(***************************************************************************)
THEOREM BusIsExclusive == ASSUME EARLY_OPEN = FALSE PROVE Spec => []Exclusive
<1>1. IInv => Exclusive
  BY DEF IInv, CountMatches, Exclusive
<1>2. QED
  BY Invariance, <1>1, PTL

(***************************************************************************)
(* open_count and active_fe agree with the sessions.                       *)
(***************************************************************************)
THEOREM CountIsTrue == ASSUME EARLY_OPEN = FALSE PROVE Spec => []CountMatches
<1>1. IInv => CountMatches
  BY DEF IInv
<1>2. QED
  BY Invariance, <1>1, PTL

(***************************************************************************)
(* A tuned frontend keeps its registers for as long as it is in use.       *)
(***************************************************************************)
THEOREM RouteIsHeld == ASSUME EARLY_OPEN = FALSE PROVE Spec => []RouteHeld
<1>1. IInv => RouteHeld
  BY DEF IInv
<1>2. QED
  BY Invariance, <1>1, PTL

-----------------------------------------------------------------------------
(***************************************************************************)
(* The driver implements the exclusive bus: Acquire and Release are its    *)
(* steps, everything else leaves it alone.                                 *)
(***************************************************************************)
THEOREM BusRefinement == ASSUME EARLY_OPEN = FALSE PROVE Spec => ImplementsBus
<1> USE NoneAssumption
<1>1. Init => Bus!Init
  BY DEF Init, Bus!Init, holding, Holders, Closed
<1>2. IInv /\ [Next]_vars => [Bus!Next]_holding
  <2> SUFFICES ASSUME IInv, [Next]_vars PROVE [Bus!Next]_holding
    OBVIOUS
  <2>0. TypeOK /\ Quiet /\ CountMatches
    BY DEF IInv
  <2>1. CASE DriverInit
    BY <2>1 DEF DriverInit, holding, Holders
  <2>2. ASSUME NEW s \in Sessions, (\E f \in Frontends : OpenCall(s, f)) \/ CloseCall(s) \/ Refuse(s)
        PROVE  holding' = holding
    BY <2>0, <2>2 DEF OpenCall, CloseCall, Refuse, holding, Holders, Closed, TypeOK
  <2>3. ASSUME NEW s \in Sessions, Acquire(s) PROVE Bus!Next
    <3> DEFINE f == session[s].fe
    <3>1. s \notin Holders /\ f \in Frontends
      BY <2>0, <2>3 DEF Acquire, Holders, TypeOK, Closed
    <3>2. holding[s] = None
      BY <3>1 DEF holding
    <3>3. \A o \in Sessions : holding[o] \in {None, f}
      BY <2>0, <2>3 DEF Acquire, holding, CountMatches
    <3>4. holding' = [holding EXCEPT ![s] = f]
      BY <2>0, <2>3 DEF Acquire, holding, Holders, TypeOK
    <3>5. QED
      BY <3>1, <3>2, <3>3, <3>4 DEF Bus!Next, Bus!Acquire
  <2>4. ASSUME NEW s \in Sessions, Release(s) PROVE Bus!Next
    <3>1. holding[s] # None
      BY <2>0, <2>4 DEF Release, holding, Holders, TypeOK, Closed
    <3>2. holding' = [holding EXCEPT ![s] = None]
      BY <2>0, <2>4 DEF Release, holding, Holders, TypeOK, Closed
    <3>3. QED
      BY <3>1, <3>2 DEF Bus!Next, Bus!Release
  <2>5. ASSUME NEW f \in Frontends, \/ ThreadExit(f) \/ SetFrontend(f)
                                    \/ Enter(f) \/ Busy(f) \/ Proceed(f)
        PROVE  holding' = holding
    BY <2>5 DEF ThreadExit, SetFrontend, Enter, Busy, Proceed, WriteRegister,
                WriteFails, Tune, bus, holding, Holders
  <2>6. CASE UNCHANGED vars
    BY <2>6 DEF vars, holding, Holders
  <2>7. QED
    BY <2>1, <2>2, <2>3, <2>4, <2>5, <2>6 DEF Next, Answer
<1>3. QED
  BY <1>1, <1>2, Invariance, PTL DEF Spec, ImplementsBus, Bus!Spec
=============================================================================
