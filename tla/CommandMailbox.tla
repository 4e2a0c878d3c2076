--------------------------- MODULE CommandMailbox ---------------------------
(***************************************************************************)
(* What the firmware promises the host about EP1: a mailbox with one place *)
(* for a request and one for an answer.  A request stays until it is       *)
(* served, once; from then on the host may submit the next.  An answer, if *)
(* the request has one, is posted later under the name of the request, and *)
(* stays until collected; nothing else is served before it is posted, and  *)
(* nothing at all while the last answer has not been collected.            *)
(***************************************************************************)
CONSTANTS Tags, NoTag

VARIABLES
  request, \* the request submitted and not yet served
  pending, \* the request served whose answer is still to be posted
  answer   \* the request whose answer waits to be collected

Init == request = NoTag /\ pending = NoTag /\ answer = NoTag

Submit(t) ==
  /\ request = NoTag
  /\ request' = t
  /\ UNCHANGED <<pending, answer>>

Serve ==
  /\ request # NoTag
  /\ pending = NoTag
  /\ answer = NoTag
  /\ request' = NoTag
  /\ pending' \in {NoTag, request}
  /\ UNCHANGED answer

Post ==
  /\ pending # NoTag
  /\ answer = NoTag
  /\ answer' = pending
  /\ pending' = NoTag
  /\ UNCHANGED request

Collect ==
  /\ answer # NoTag
  /\ answer' = NoTag
  /\ UNCHANGED <<request, pending>>

Next == (\E t \in Tags : Submit(t)) \/ Serve \/ Post \/ Collect

Spec == Init /\ [][Next]_<<request, pending, answer>>
=============================================================================
