---------------------------- MODULE ExclusiveBus ----------------------------
(***************************************************************************)
(* What ts_bus_control promises the applications: the two frontends share  *)
(* one transport stream bus, and sessions on both are never open at once.  *)
(***************************************************************************)
CONSTANTS Sessions, Frontends, None

VARIABLE holding \* the frontend each session holds, None for a closed one

Init == holding = [s \in Sessions |-> None]

Acquire(s, f) ==
  /\ holding[s] = None
  /\ \A o \in Sessions : holding[o] \in {None, f}
  /\ holding' = [holding EXCEPT ![s] = f]

Release(s) ==
  /\ holding[s] # None
  /\ holding' = [holding EXCEPT ![s] = None]

Next == \E s \in Sessions : Release(s) \/ \E f \in Frontends : Acquire(s, f)

Spec == Init /\ [][Next]_holding
=============================================================================
