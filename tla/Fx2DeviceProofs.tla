--------------------------- MODULE Fx2DeviceProofs ---------------------------
(***************************************************************************)
(* Proofs about the firmware's command loop under any host: for every set  *)
(* of packets it may send and every outcome of the I2C bus.                *)
(***************************************************************************)
EXTENDS Fx2Device, Fx2CommandLoopProofs

-----------------------------------------------------------------------------
\* The host's steps keep the invariant of the command loop as well.
LEMMA StepInv == LoopInv /\ [Next]_fx2 => LoopInv'
<1> SUFFICES ASSUME LoopInv, [Next]_fx2 PROVE LoopInv'
  OBVIOUS
<1>1. CASE MainLoop
  BY <1>1, LoopStep
<1>2. ASSUME NEW t \in Tags, NEW f \in Frames, Send(t, f) PROVE LoopInv'
  <2>1. f \in Seq(Byte) /\ Len(f) <= EP1_SIZE
    <3>1. f \in Seq(Byte) /\ Len(f) \in 1..EP1_SIZE
      BY <1>2, FrameAssumption, Zenon
    <3>2. QED
      BY <3>1, PacketLength, Zenon
  <2>2. QED
    BY <1>2, <2>1, FrameAccepted DEF Send
<1>3. CASE Fetch
  BY <1>3, AnswerFetched DEF Fetch
<1>4. CASE UNCHANGED fx2
  BY <1>4, LoopUnchanged
<1>5. QED
  BY <1>1, <1>2, <1>3, <1>4 DEF Next

\* So it holds in every state.
LEMMA Invariance == Spec => []LoopInv
<1>1. Init => LoopInv
  BY LoopInit DEF Init
<1>2. QED
  BY <1>1, StepInv, PTL DEF Spec

(***************************************************************************)
(* Type correctness: no command, however malformed the frame, takes a      *)
(* counter or a register out of its range.                                 *)
(***************************************************************************)
THEOREM TypeCorrect == Spec => []TypeOKFx2
<1>1. LoopInv => TypeOKFx2
  BY DEF LoopInv
<1>2. QED
  BY Invariance, <1>1, PTL

(***************************************************************************)
(* The interpreter never reads beyond the frame the host sent.             *)
(***************************************************************************)
THEOREM ParserStaysInFrame == Spec => []ParserInSync
<1>1. LoopInv => ParserInSync
  BY DEF LoopInv
<1>2. QED
  BY Invariance, <1>1, PTL

(***************************************************************************)
(* The endpoint buffers belong to the firmware while it works on a frame.  *)
(***************************************************************************)
THEOREM BuffersAreReserved == Spec => []BuffersReserved
<1>1. LoopInv => BuffersReserved
  BY DEF LoopInv
<1>2. QED
  BY Invariance, <1>1, PTL

(***************************************************************************)
(* An answer stays as it is until the host has fetched it.                 *)
(***************************************************************************)
THEOREM AnswersAreIntact == Spec => AnswersIntact
<1>1. LoopInv /\ [Next]_fx2 => [ep1in.busy /\ ep1in'.busy => ep1in' = ep1in]_fx2
  <2> SUFFICES ASSUME LoopInv, Next, ep1in.busy, ep1in'.busy PROVE ep1in' = ep1in
    OBVIOUS
  <2>1. ~parsing /\ due = NoTag
    BY DEF LoopInv, BuffersReserved
  <2>2. ~Rearm /\ ~HandOver /\ ~Poll
    BY <2>1 DEF Rearm, HandOver, Poll
  <2>3. CASE Execute
    BY <2>3, CommandsInFrame DEF LoopInv
  <2>4. ~Fetch
    BY DEF Fetch, EmptyIn
  <2>5. ASSUME NEW t \in Tags, NEW f \in Frames, Send(t, f) PROVE ep1in' = ep1in
    BY <2>5 DEF Send
  <2>6. QED
    BY <2>2, <2>3, <2>4, <2>5 DEF Next, MainLoop
<1>2. QED
  BY Invariance, <1>1, PTL DEF Spec, AnswersIntact

(***************************************************************************)
(* The command loop implements the mailbox: Send submits, Rearm serves,    *)
(* HandOver posts, Fetch collects, every other step is one the mailbox     *)
(* does not see.  Send may come between Rearm and HandOver.                *)
(***************************************************************************)
THEOREM MailboxRefinement == Spec => ImplementsMailbox
<1>1. Init => Mailbox!Init
  BY DEF Init, InitFx2, Mailbox!Init, EmptyOut, EmptyIn
<1>2. LoopInv /\ [Next]_fx2 => [Mailbox!Next]_<<ep1out.tag, due, ep1in.tag>>
  <2> SUFFICES ASSUME LoopInv, [Next]_fx2
               PROVE  [Mailbox!Next]_<<ep1out.tag, due, ep1in.tag>>
    OBVIOUS
  <2>0. TypeOKFx2 /\ ParserInSync /\ BuffersReserved /\ TagsAgree
    BY DEF LoopInv
  <2>1. CASE Poll
    BY <2>1 DEF Poll
  <2>2. CASE Execute
    BY <2>0, <2>2, CommandsInFrame
  <2>3. CASE Rearm
    <3>1. ep1out.tag # NoTag /\ due = NoTag /\ ep1in.tag = NoTag
      BY <2>0, <2>3 DEF Rearm, BuffersReserved, TagsAgree
    <3>2. ep1out'.tag = NoTag /\ ep1in' = ep1in /\ due' \in {NoTag, ep1out.tag}
      BY <2>3 DEF Rearm, EmptyOut
    <3>3. QED
      BY <3>1, <3>2 DEF Mailbox!Next, Mailbox!Serve
  <2>4. CASE HandOver
    <3>1. due # NoTag /\ ep1in.tag = NoTag
      BY <2>0, <2>4 DEF HandOver, BuffersReserved, TagsAgree
    <3>2. ep1in'.tag = due /\ due' = NoTag /\ ep1out' = ep1out
      BY <2>4 DEF HandOver
    <3>3. QED
      BY <3>1, <3>2 DEF Mailbox!Next, Mailbox!Post
  <2>5. ASSUME NEW t \in Tags, NEW f \in Frames, Send(t, f) PROVE Mailbox!Next
    <3>1. ep1out.tag = NoTag /\ ep1out'.tag = t /\ ep1in' = ep1in /\ due' = due
      BY <2>0, <2>5 DEF Send, TagsAgree
    <3>2. QED
      BY <3>1 DEF Mailbox!Next, Mailbox!Submit
  <2>6. CASE Fetch
    <3>1. ep1in.tag # NoTag /\ ep1in'.tag = NoTag /\ ep1out' = ep1out /\ due' = due
      BY <2>0, <2>6 DEF Fetch, TagsAgree, EmptyIn
    <3>2. QED
      BY <3>1 DEF Mailbox!Next, Mailbox!Collect
  <2>7. CASE UNCHANGED fx2
    BY <2>7 DEF fx2
  <2>8. QED
    BY <2>1, <2>2, <2>3, <2>4, <2>5, <2>6, <2>7 DEF Next, MainLoop
<1>3. QED
  BY <1>1, <1>2, Invariance, PTL DEF Spec, ImplementsMailbox, Mailbox!Spec
=============================================================================
