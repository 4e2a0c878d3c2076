----------------------------- MODULE Fx2Device -----------------------------
(***************************************************************************)
(* The firmware's command loop together with the most general host: one    *)
(* that sends any frame of Frames whenever EP1OUT is armed and fetches     *)
(* answers from EP1IN whenever there is one.                               *)
(***************************************************************************)
EXTENDS Fx2CommandLoop

CONSTANT Frames \* the packets the host may send

ASSUME FrameAssumption ==
  Frames \subseteq {f \in Seq(Byte) : Len(f) \in 1..EP1_SIZE}

Send(t, f) ==
  /\ ep1out.busy
  /\ ep1out' = [busy |-> FALSE, tag |-> t, bytes |-> f]
  /\ UNCHANGED <<ep1in, due, cpu, port, fifo>>

Fetch ==
  /\ ep1in.busy
  /\ ep1in' = EmptyIn
  /\ UNCHANGED <<ep1out, due, cpu, port, fifo>>

Init == InitFx2

Next ==
  \/ MainLoop
  \/ \E t \in Tags, f \in Frames : Send(t, f)
  \/ Fetch

Spec == Init /\ [][Next]_fx2

\* The main loop never waits for anything but the host, and this host fetches.
FairSpec == Spec /\ WF_fx2(MainLoop) /\ WF_fx2(Fetch)

-----------------------------------------------------------------------------

(***************************************************************************)
(* An answer once handed to EP1IN is neither replaced nor altered before   *)
(* the host has fetched it: main_loop does not touch a new frame until     *)
(* then.                                                                   *)
(***************************************************************************)
AnswersIntact == [][ep1in.busy /\ ep1in'.busy => ep1in' = ep1in]_fx2

(***************************************************************************)
(* Whatever a frame contains, cut off or unknown commands included, it is  *)
(* worked off and EP1OUT armed again, provided the host fetches answers.   *)
(***************************************************************************)
FramesAreServed == ~ep1out.busy ~> ep1out.busy

(***************************************************************************)
(* The command loop is a mailbox: every frame is served once and in turn,  *)
(* and its answer is posted under its own name, before the next frame is   *)
(* served, even when that has already arrived: between the re-arming of    *)
(* EP1OUT and the hand-over of the answer the host may send.               *)
(***************************************************************************)
Mailbox == INSTANCE CommandMailbox
             WITH request <- ep1out.tag, pending <- due, answer <- ep1in.tag
ImplementsMailbox == Mailbox!Spec
=============================================================================
