----------------------------- MODULE I2cService -----------------------------
(***************************************************************************)
(* What i2c_read and i2c_write promise main_loop: one call at a time, a    *)
(* call comes back, and it comes back with TRUE only when the bytes that   *)
(* passed the bus are all the bytes of the call.                           *)
(***************************************************************************)
EXTENDS Integers, Sequences

CONSTANTS Requests, NoRequest

\* The bytes w are the whole transfer c asks for: all data acknowledged by the
\* chip, or as many bytes as wanted with only the last one refused.  A read of
\* no bytes takes one nevertheless, and acknowledges it.
Complete(c, w) ==
  IF c.op = "write"
  THEN /\ Len(w) = Len(c.data)
       /\ \A i \in 1..Len(w) : w[i] = [byte |-> c.data[i], ack |-> TRUE]
  ELSE /\ Len(w) = IF c.len = 0 THEN 1 ELSE c.len
       /\ \A i \in 1..Len(w) : w[i].ack = (i # c.len)

VARIABLES request, passed, outcome

Init == request = NoRequest /\ passed = <<>> /\ outcome \in BOOLEAN

Call(r) ==
  /\ request = NoRequest
  /\ request' = r
  /\ UNCHANGED outcome

Transfer ==
  /\ request # NoRequest
  /\ UNCHANGED <<request, outcome>>

Return ==
  /\ request # NoRequest
  /\ request' = NoRequest
  /\ outcome' \in BOOLEAN
  /\ outcome' => Complete(request, passed')

Next == (\E r \in Requests : Call(r)) \/ Transfer \/ Return

\* Every call comes back.
Answered == request # NoRequest ~> request = NoRequest

Safety == Init /\ [][Next]_<<request, passed, outcome>>

Spec == Safety /\ Answered
=============================================================================
