-------------------------- MODULE MCControlTiming --------------------------
(***************************************************************************)
(* ControlChannel with a firmware that answers within the timeout, or with *)
(* one that may be later than that; which of the two is chosen at the      *)
(* start.  The second is given fewer calls, and chips that acknowledge.    *)
(* What it adds are stray answers, and frames it never takes after one.    *)
(***************************************************************************)
EXTENDS MCControlChannel

VARIABLE late

Late == INSTANCE ControlChannel WITH
          SLOW <- TRUE, Calls <- ReadCalls, I2cResults <- {TRUE}

TimingInit == Init /\ late \in BOOLEAN

TimingNext ==
  \/ ~late /\ Next /\ UNCHANGED late
  \/ late /\ Late!Next /\ UNCHANGED late

\* As in ControlChannel.
TimingFairness ==
  /\ WF_vars(Firmware)
  /\ \A t \in Threads : SF_vars(IF late THEN Late!Work(t) ELSE Work(t))

TimingSpec == TimingInit /\ [][TimingNext]_<<vars, late>> /\ TimingFairness

(***************************************************************************)
(* AnswersMatch for a firmware that answers in time: the bytes a caller    *)
(* copies into its read message (akb_pcr20x.c:322) were read on its own    *)
(* behalf, and there are as many as it asked for, whatever another caller  *)
(* or a chip that does not acknowledge does in between.                    *)
(***************************************************************************)
AnswersMatchInTime ==
  [][\A c \in Callers : ~late /\ BulkIn(c) =>
       ep1in.tag = c /\ ep1in.cnt = job[c].rlen]_vars

(***************************************************************************)
(* FramesAreServed for the same firmware: it works off every frame it has  *)
(* accepted, since whoever is owed an answer waits for it (wedge shows     *)
(* what becomes of it otherwise).                                          *)
(***************************************************************************)
FramesAreServedInTime == (~late /\ ~ep1out.busy) ~> ep1out.busy
=============================================================================
