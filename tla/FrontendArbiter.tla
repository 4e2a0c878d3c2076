--------------------------- MODULE FrontendArbiter ---------------------------
(***************************************************************************)
(* How the driver shares one device between the ISDB-S and the ISDB-T      *)
(* frontend (src/akb_pcr20x.c): akb_pcr20x_init, akb_pcr20x_ts_bus_control *)
(* and the two set_frontend wrappers, all around priv->mutex_fe.           *)
(*                                                                         *)
(* Applications open and close frontends in sessions; the DVB core calls   *)
(* ts_bus_control for each and runs one thread per frontend that calls     *)
(* set_frontend, possibly once more after the last session has closed.     *)
(* ts_bus_control runs within mutex_fe and touches nothing that is changed *)
(* outside it, so it is one step; set_frontend holds mutex_fe across its   *)
(* I2C writes, which are one step each.                                    *)
(***************************************************************************)
EXTENDS Integers, Sequences, FiniteSets

CONSTANTS
  Sessions,   \* opens of a frontend device by applications
  None,       \* no frontend: NULL
  EARLY_OPEN  \* devices may be opened before the core has called init

Frontends == {"S", "T"}

ASSUME SessionAssumption == IsFiniteSet(Sessions)
ASSUME NoneAssumption    == None \notin Frontends
ASSUME EarlyAssumption   == EARLY_OPEN \in BOOLEAN

VARIABLES
  inited,     \* akb_pcr20x_init has run
  mutex_fe,   \* the frontend whose set_frontend holds the mutex
  active_fe,  \* priv->active_fe
  open_count, \* priv->open_count
  session,    \* what each session is doing, and with which frontend
  alive,      \* frontends whose thread is running
  pc,         \* where the set_frontend of each frontend stands
  step,       \* the register write it has come to
  reg,        \* what the demodulators' registers hold
  tuned       \* frontends tuned since they were last taken into use

vars == <<inited, mutex_fe, active_fe, open_count, session, alive, pc, step,
          reg, tuned>>
bus == <<inited, mutex_fe, active_fe, open_count, session, alive>>

-----------------------------------------------------------------------------
\* The register writes of akb_pcr20x_set_frontend_s and _t, in their order.

Write(chip, r, v) == [at |-> <<chip, r>>, val |-> v]

ProgramS == << Write("demod_t", \h0e, \h77), Write("demod_t", \h0f, \h77),
               Write("demod_s", \h06, \h40), Write("demod_s", \h07, \h11),
               Write("demod_s", \h08, \h11), Write("demod_s", \h85, \h7a),
               Write("demod_s", \h8e, \h26), Write("demod_s", \ha3, \hf7) >>
ProgramT == << Write("demod_t", \h0e, \h11), Write("demod_t", \h0f, \h11),
               Write("demod_t", \h71, \h20), Write("demod_t", \h76, \h08) >>

Program == [f \in Frontends |-> IF f = "S" THEN ProgramS ELSE ProgramT]

Registers == ({"demod_t"} \X {\h0e, \h0f, \h71, \h76})
       \cup ({"demod_s"} \X {\h06, \h07, \h08, \h85, \h8e, \ha3})

Closed == [st |-> "closed", fe |-> None]

Init ==
  /\ inited = FALSE
  /\ mutex_fe = None
  /\ active_fe = None
  /\ open_count = 0
  /\ session = [s \in Sessions |-> Closed]
  /\ alive = {}
  /\ pc = [f \in Frontends |-> "idle"]
  /\ step = [f \in Frontends |-> 1]
  /\ reg = [r \in Registers |-> 0]
  /\ tuned = {}

\* The core calls init when the adapters and frontends are already there.
DriverInit ==
  /\ ~inited
  /\ inited' = TRUE
  /\ mutex_fe' = None
  /\ active_fe' = None
  /\ open_count' = 0
  /\ UNCHANGED <<session, alive, pc, step, reg, tuned>>

-----------------------------------------------------------------------------
\* Sessions.

OpenCall(s, f) ==
  /\ inited \/ EARLY_OPEN
  /\ session[s] = Closed
  /\ session' = [session EXCEPT ![s] = [st |-> "opening", fe |-> f]]
  /\ UNCHANGED <<inited, mutex_fe, active_fe, open_count, alive, pc, step, reg, tuned>>

\* Slip: whether the partner is in use is not looked at.
AcquireUnchecked(s) ==
  LET f == session[s].fe IN
  /\ session[s].st = "opening"
  /\ mutex_fe = None
  /\ active_fe' = f
  /\ open_count' = open_count + 1
  /\ session' = [session EXCEPT ![s] = [st |-> "open", fe |-> f]]
  /\ alive' = alive \cup {f}
  /\ tuned' = IF active_fe = None THEN tuned \ {f} ELSE tuned
  /\ UNCHANGED <<inited, mutex_fe, pc, step, reg>>

\* ts_bus_control(fe, 1): the partner is not in use.
Acquire(s) ==
  LET f == session[s].fe IN
  /\ session[s].st = "opening"
  /\ mutex_fe = None
  /\ active_fe \in {None, f}
  /\ active_fe' = f
  /\ open_count' = open_count + 1
  /\ session' = [session EXCEPT ![s] = [st |-> "open", fe |-> f]]
  /\ alive' = alive \cup {f}
  /\ tuned' = IF active_fe = None THEN tuned \ {f} ELSE tuned
  /\ UNCHANGED <<inited, mutex_fe, pc, step, reg>>

\* ts_bus_control(fe, 1): the partner is in use, -EBUSY.
Refuse(s) ==
  /\ session[s].st = "opening"
  /\ mutex_fe = None
  /\ active_fe \notin {None, session[s].fe}
  /\ session' = [session EXCEPT ![s] = Closed]
  /\ UNCHANGED <<inited, mutex_fe, active_fe, open_count, alive, pc, step, reg, tuned>>

CloseCall(s) ==
  /\ session[s].st = "open"
  /\ session' = [session EXCEPT ![s] = [st |-> "closing", fe |-> session[s].fe]]
  /\ UNCHANGED <<inited, mutex_fe, active_fe, open_count, alive, pc, step, reg, tuned>>

\* Slip: the count is compared with zero before it is decremented.
ReleaseLate(s) ==
  /\ session[s].st = "closing"
  /\ mutex_fe = None
  /\ IF active_fe = session[s].fe /\ open_count > 0
     THEN /\ open_count' = open_count - 1
          /\ active_fe' = IF open_count = 0 THEN None ELSE active_fe
     ELSE UNCHANGED <<open_count, active_fe>>
  /\ session' = [session EXCEPT ![s] = Closed]
  /\ UNCHANGED <<inited, mutex_fe, alive, pc, step, reg, tuned>>

\* ts_bus_control(fe, 0).
Release(s) ==
  /\ session[s].st = "closing"
  /\ mutex_fe = None
  /\ IF active_fe = session[s].fe /\ open_count > 0
     THEN /\ open_count' = open_count - 1
          /\ active_fe' = IF open_count = 1 THEN None ELSE active_fe
     ELSE UNCHANGED <<open_count, active_fe>>
  /\ session' = [session EXCEPT ![s] = Closed]
  /\ UNCHANGED <<inited, mutex_fe, alive, pc, step, reg, tuned>>

-----------------------------------------------------------------------------
\* Frontend threads.

Unused(f) == \A s \in Sessions : session[s].st \in {"open", "closing"} => session[s].fe # f

ThreadExit(f) ==
  /\ f \in alive /\ pc[f] = "idle" /\ Unused(f)
  /\ alive' = alive \ {f}
  /\ UNCHANGED <<inited, mutex_fe, active_fe, open_count, session, pc, step, reg, tuned>>

SetFrontend(f) ==
  /\ f \in alive /\ pc[f] = "idle"
  /\ pc' = [pc EXCEPT ![f] = "lock"]
  /\ UNCHANGED <<bus, step, reg, tuned>>

\* Slip: whether the partner is in use is not looked at.
EnterUnchecked(f) ==
  /\ pc[f] = "lock"
  /\ mutex_fe = None
  /\ mutex_fe' = f
  /\ pc' = [pc EXCEPT ![f] = "write"]
  /\ tuned' = tuned \ {f}
  /\ UNCHANGED <<inited, active_fe, open_count, session, alive, step, reg>>

\* The wrapper takes mutex_fe and finds its frontend in use, or none.
Enter(f) ==
  /\ pc[f] = "lock"
  /\ mutex_fe = None
  /\ active_fe \in {None, f}
  /\ mutex_fe' = f
  /\ pc' = [pc EXCEPT ![f] = "write"]
  /\ tuned' = tuned \ {f}
  /\ UNCHANGED <<inited, active_fe, open_count, session, alive, step, reg>>

\* It finds the partner in use: -EBUSY.
Busy(f) ==
  /\ pc[f] = "lock"
  /\ mutex_fe = None
  /\ active_fe \notin {None, f}
  /\ pc' = [pc EXCEPT ![f] = "idle"]
  /\ UNCHANGED <<bus, step, reg, tuned>>

\* One register write of akb_pcr20x_i2c_write that succeeds.
WriteRegister(f) ==
  LET w == Program[f][step[f]] IN
  /\ pc[f] = "write"
  /\ step[f] <= Len(Program[f])
  /\ reg' = [reg EXCEPT ![w.at] = w.val]
  /\ step' = [step EXCEPT ![f] = @ + 1]
  /\ UNCHANGED <<bus, pc, tuned>>

\* mutex_unlock, when the mutex is still the one that was locked.
Unlocked(f) == IF mutex_fe = f THEN None ELSE mutex_fe

\* Slip: the error path returns without unlocking.
WriteFailsLocked(f) ==
  /\ pc[f] = "write"
  /\ step[f] <= Len(Program[f])
  /\ pc' = [pc EXCEPT ![f] = "idle"]
  /\ step' = [step EXCEPT ![f] = 1]
  /\ UNCHANGED <<bus, reg, tuned>>

\* Slip: after an error the writes go on from the register before.
WriteFailsBack(f) ==
  /\ pc[f] = "write"
  /\ step[f] <= Len(Program[f])
  /\ step' = [step EXCEPT ![f] = @ - 1]
  /\ UNCHANGED <<bus, pc, reg, tuned>>

\* One that fails: the chip may or may not have taken the value.
WriteFails(f) ==
  LET w == Program[f][step[f]] IN
  /\ pc[f] = "write"
  /\ step[f] <= Len(Program[f])
  /\ reg' \in {reg, [reg EXCEPT ![w.at] = w.val]}
  /\ pc' = [pc EXCEPT ![f] = "idle"]
  /\ step' = [step EXCEPT ![f] = 1]
  /\ mutex_fe' = Unlocked(f)
  /\ UNCHANGED <<inited, active_fe, open_count, session, alive, tuned>>

\* The demodulator driver's own set_frontend, called through the saved pointer.
Tune(f) ==
  /\ pc[f] = "write"
  /\ step[f] > Len(Program[f])
  /\ tuned' \in {tuned, tuned \cup {f}}
  /\ pc' = [pc EXCEPT ![f] = "idle"]
  /\ step' = [step EXCEPT ![f] = 1]
  /\ mutex_fe' = Unlocked(f)
  /\ UNCHANGED <<inited, active_fe, open_count, session, alive, reg>>

Answer(s) == Acquire(s) \/ Refuse(s) \/ Release(s)
Proceed(f) == WriteRegister(f) \/ WriteFails(f) \/ Tune(f)

Next ==
  \/ DriverInit
  \/ \E s \in Sessions : (\E f \in Frontends : OpenCall(s, f)) \/ CloseCall(s) \/ Answer(s)
  \/ \E f \in Frontends : \/ ThreadExit(f) \/ SetFrontend(f)
                          \/ Enter(f) \/ Busy(f) \/ Proceed(f)

Spec == Init /\ [][Next]_vars

\* A kernel mutex starves nobody, I2C writes end, and the core calls init;
\* nobody has to open, close or tune.
Fairness ==
  /\ WF_vars(DriverInit)
  /\ \A s \in Sessions : SF_vars(Answer(s))
  /\ \A f \in Frontends : SF_vars(Enter(f) \/ Busy(f)) /\ WF_vars(Proceed(f))

FairSpec == Spec /\ Fairness

-----------------------------------------------------------------------------

Holders == {s \in Sessions : session[s].st \in {"open", "closing"}}

TypeOK ==
  /\ inited \in BOOLEAN
  /\ mutex_fe \in Frontends \cup {None}
  /\ active_fe \in Frontends \cup {None}
  /\ open_count \in Nat
  /\ session \in [Sessions -> {Closed} \cup
                     [st : {"opening", "open", "closing"}, fe : Frontends]]
  /\ alive \subseteq Frontends
  /\ pc \in [Frontends -> {"idle", "lock", "write"}]
  /\ step \in [Frontends -> 1..9]
  /\ reg \in [Registers -> 0..255]
  /\ tuned \subseteq Frontends

(***************************************************************************)
(* Sessions on the two frontends are never open at the same time: while    *)
(* one frontend is in use, opening its partner fails.                      *)
(***************************************************************************)
Exclusive == \A s, o \in Holders : session[s].fe = session[o].fe

(***************************************************************************)
(* The driver's bookkeeping is the truth about the sessions: open_count is *)
(* their number and active_fe is the frontend they hold, so the bus is     *)
(* given back with the last close and never before it.                     *)
(***************************************************************************)
CountMatches ==
  /\ open_count = Cardinality(Holders)
  /\ \A s \in Holders : session[s].fe = active_fe
  /\ active_fe = None <=> Holders = {}

(***************************************************************************)
(* While a frontend in use has been tuned successfully, the demodulators'  *)
(* pin and mode registers are exactly as its set_frontend left them; no    *)
(* late set_frontend of the partner has touched them.                      *)
(***************************************************************************)
RouteHeld ==
  \A f \in tuned : active_fe = f =>
    \A i \in DOMAIN Program[f] : reg[Program[f][i].at] = Program[f][i].val

(***************************************************************************)
(* open, close and set_frontend always come back.                          *)
(***************************************************************************)
CallsReturn ==
  /\ \A s \in Sessions : session[s].st \in {"opening", "closing"}
                           ~> session[s].st \in {"closed", "open"}
  /\ \A f \in Frontends : pc[f] # "idle" ~> pc[f] = "idle"

(***************************************************************************)
(* The driver implements the exclusive bus.                                *)
(***************************************************************************)
holding == [s \in Sessions |-> IF s \in Holders THEN session[s].fe ELSE None]
Bus == INSTANCE ExclusiveBus
ImplementsBus == Bus!Spec
=============================================================================
