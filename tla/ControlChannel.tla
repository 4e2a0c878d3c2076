--------------------------- MODULE ControlChannel ---------------------------
(***************************************************************************)
(* The control channel between the driver and the firmware: every thread   *)
(* of the host that talks to the FX2 through EP1, the buffer priv->wbuf    *)
(* they compose their frames in, the two mutexes around it, and the        *)
(* firmware's command loop at the other end (src/akb_pcr20x.c,             *)
(* akb_pcr20x_i2c_xfer, akb_pcr20x_transfer_init and                       *)
(* akb_pcr20x_streaming_ctrl over fw/akb_pcr20x_fw.c).                     *)
(*                                                                         *)
(* The USB core and dvb_usbv2_generic_rw/_write are modelled from how the  *)
(* driver uses them: under usb_mutex, a bulk-out transfer that waits for   *)
(* EP1OUT to be armed and then, if an answer is expected, a bulk-in        *)
(* transfer that waits for EP1IN; both give up after two seconds.          *)
(***************************************************************************)
EXTENDS Fx2CommandLoop, FiniteSets

CONSTANTS
  Callers,  \* threads that call i2c_transfer: frontend threads, ioctls
  Attacher, \* the thread that runs frontend_attach
  Streamer, \* the thread that starts and stops the feed
  Nobody,   \* the owner of a free mutex
  Old,      \* tag of a frame whose sender has gone on to other work
  Calls,    \* the message lists callers pass to i2c_transfer
  SLOW,     \* the firmware may take longer than the two seconds of a timeout
  OVERLAP   \* which of Attacher and Streamer may send while a caller is in i2c_xfer

Threads == Callers \cup {Attacher, Streamer}

ASSUME ThreadAssumption ==
  /\ Attacher \notin Callers /\ Streamer \notin Callers /\ Attacher # Streamer
  /\ Nobody \notin Threads /\ Old \notin Threads
  /\ Tags = Threads \cup {Old}
Messages == [addr : Nat, len : Nat, rd : BOOLEAN, ten : BOOLEAN, fill : Byte]
ASSUME CallAssumption == Calls \subseteq Seq(Messages)
ASSUME TimingAssumption == SLOW \in BOOLEAN /\ OVERLAP \subseteq {Attacher, Streamer}

MAX_I2C_BUFFER_SIZE == 64
U8_MAX == 255

VARIABLES
  wbuf,      \* priv->wbuf
  i2c_mutex, \* d->i2c_mutex: its owner
  usb_mutex, \* d->usb_mutex: its owner
  pc,        \* where each thread stands
  job,       \* the locals of the call a thread is in
  ret,       \* how its last call ended
  streaming, \* what the feed control last asked for
  refused    \* callers one of whose messages the firmware has not carried out

host == <<wbuf, i2c_mutex, usb_mutex, pc, job, ret, streaming, refused>>
vars == <<fx2, host>>

NoJob == [msgs |-> <<>>, i |-> 1, frame |-> <<>>, stored |-> 0, rlen |-> 0]

\* The frames of akb_pcr20x_transfer_init and akb_pcr20x_streaming_ctrl.
FX2_PIO_START == \h20
InitFrame  == <<CMD_PORT_CFG, 0, FX2_PIO_START, CMD_MODE_IDLE, CMD_IFCONFIG, \he3>>
StartFrame == <<CMD_EP6IN_START, CMD_PORT_WRITE, FX2_PIO_START>>
StopFrameRunning == <<CMD_EP6IN_STOP>> \* slip: the mode pins are left at start
StopFrame  == <<CMD_EP6IN_STOP, CMD_MODE_IDLE>>

Init ==
  /\ InitFx2
  /\ wbuf = [k \in 1..MAX_I2C_BUFFER_SIZE |-> 0]
  /\ i2c_mutex = Nobody
  /\ usb_mutex = Nobody
  /\ pc = [t \in Threads |-> IF t = Attacher THEN "store" ELSE "idle"]
  /\ job = [t \in Threads |-> IF t = Attacher THEN [NoJob EXCEPT !.frame = InitFrame]
                              ELSE NoJob]
  /\ ret = [t \in Threads |-> "none"]
  /\ streaming = FALSE
  /\ refused = {}

-----------------------------------------------------------------------------
\* akb_pcr20x_i2c_xfer: what becomes of one message.

Current(c) == job[c].msgs[job[c].i]

\* The next message is a read from the same address: both travel in one frame.
Paired(c) ==
  /\ job[c].i < Len(job[c].msgs)
  /\ job[c].msgs[job[c].i + 1].rd
  /\ job[c].msgs[job[c].i + 1].addr = Current(c).addr

ReadLength(c) == IF Paired(c) THEN job[c].msgs[job[c].i + 1].len ELSE 0

Unsupported(m) == \/ m.len \notin 1..U8_MAX
                  \/ m.addr > U8_MAX \/ m.ten
                  \/ m.rd

Oversize(c) ==
  IF Paired(c)
  THEN \/ ReadLength(c) \notin 1..MAX_I2C_BUFFER_SIZE
       \/ 3 + Current(c).len + 3 > MAX_I2C_BUFFER_SIZE
  ELSE 3 + Current(c).len > MAX_I2C_BUFFER_SIZE

\* Slip: the read command asks for as many bytes as are written.
I2cFrameSameLength(c) ==
  LET m == Current(c) IN
  <<CMD_I2C_WRITE, m.addr, m.len>> \o [k \in 1..m.len |-> m.fill]
    \o IF Paired(c) THEN <<CMD_I2C_READ, m.addr, m.len>> ELSE <<>>

\* Slip: every read that follows is put into the frame, not just the next one.
I2cFrameAllReads(c) ==
  LET m == Current(c)
      later == SubSeq(job[c].msgs, job[c].i + 1, Len(job[c].msgs)) IN
  <<CMD_I2C_WRITE, m.addr, m.len>> \o [k \in 1..m.len |-> m.fill]
    \o [k \in 1..3 * Len(later) |->
          CASE k % 3 = 1 -> CMD_I2C_READ
            [] k % 3 = 2 -> m.addr
            [] OTHER -> later[k \div 3].len]

\* A message carries len copies of one byte: what the bytes are is immaterial
\* as long as they can be mistaken for commands.
I2cFrame(c) ==
  LET m == Current(c) IN
  <<CMD_I2C_WRITE, m.addr, m.len>> \o [k \in 1..m.len |-> m.fill]
    \o IF Paired(c) THEN <<CMD_I2C_READ, m.addr, ReadLength(c)>> ELSE <<>>

-----------------------------------------------------------------------------

\* Slip: a failed call leaves without giving i2c_mutex back.
ReturnLocked(t, result) ==
  /\ pc' = [pc EXCEPT ![t] = "idle"]
  /\ ret' = [ret EXCEPT ![t] = result]
  /\ job' = [job EXCEPT ![t] = NoJob]
  /\ i2c_mutex' = IF i2c_mutex = t /\ result = "ok" THEN Nobody ELSE i2c_mutex
  /\ usb_mutex' = IF usb_mutex = t THEN Nobody ELSE usb_mutex

\* The transfer is over: usb_mutex and i2c_mutex are given back by who has them.
Return(t, result) ==
  /\ pc' = [pc EXCEPT ![t] = "idle"]
  /\ ret' = [ret EXCEPT ![t] = result]
  /\ job' = [job EXCEPT ![t] = NoJob]
  /\ i2c_mutex' = IF i2c_mutex = t THEN Nobody ELSE i2c_mutex
  /\ usb_mutex' = IF usb_mutex = t THEN Nobody ELSE usb_mutex

\* A message is done; the caller keeps i2c_mutex and looks at the next one.
Proceed(t) ==
  IF t \in Callers
  THEN /\ pc' = [pc EXCEPT ![t] = "next"]
       /\ job' = [job EXCEPT ![t].i = @ + IF job[t].rlen > 0 THEN 2 ELSE 1]
       /\ usb_mutex' = Nobody
       /\ UNCHANGED <<i2c_mutex, ret>>
  ELSE Return(t, "ok")

Retagged(ep, t) == IF ep.tag = t THEN [ep EXCEPT !.tag = Old] ELSE ep

\* A new call: what an earlier one left in the endpoint buffers is not its own.
Begin(t) ==
  /\ pc[t] = "idle"
  /\ ep1out' = Retagged(ep1out, t)
  /\ ep1in' = Retagged(ep1in, t)
  /\ due' = IF due = t THEN Old ELSE due
  /\ ret' = [ret EXCEPT ![t] = "none"]
  /\ refused' = refused \ {t}
  /\ UNCHANGED <<cpu, port, fifo, wbuf, i2c_mutex, usb_mutex>>

\* akb_pcr20x_i2c_xfer.  The adapter is there for everybody before attach sends
\* its frame; that nobody uses it until then is true unless OVERLAP says otherwise.
XferCall(c) ==
  /\ Begin(c)
  /\ \A t \in {Attacher, Streamer} \ OVERLAP : pc[t] = "idle"
  /\ ret[Attacher] # "error"
  /\ \E msgs \in Calls : job' = [job EXCEPT ![c] = [NoJob EXCEPT !.msgs = msgs]]
  /\ pc' = [pc EXCEPT ![c] = "lock"]
  /\ UNCHANGED streaming

\* Slip: the frame is composed without waiting for i2c_mutex.
XferLockFree(c) ==
  /\ pc[c] = "lock"
  /\ i2c_mutex' = c
  /\ pc' = [pc EXCEPT ![c] = "next"]
  /\ UNCHANGED <<fx2, wbuf, usb_mutex, job, ret, streaming, refused>>

XferLock(c) ==
  /\ pc[c] = "lock"
  /\ i2c_mutex = Nobody
  /\ i2c_mutex' = c
  /\ pc' = [pc EXCEPT ![c] = "next"]
  /\ UNCHANGED <<fx2, wbuf, usb_mutex, job, ret, streaming, refused>>

\* A signal ends the wait for i2c_mutex: -ERESTARTSYS.
XferInterrupted(c) ==
  /\ pc[c] = "lock"
  /\ i2c_mutex # Nobody
  /\ Return(c, "error")
  /\ UNCHANGED <<fx2, wbuf, streaming, refused>>

XferReject(c) ==
  /\ pc[c] = "next"
  /\ job[c].i <= Len(job[c].msgs)
  /\ Unsupported(Current(c)) \/ Oversize(c)
  /\ Return(c, "error")
  /\ UNCHANGED <<fx2, wbuf, streaming, refused>>

XferCompose(c) ==
  /\ pc[c] = "next"
  /\ job[c].i <= Len(job[c].msgs)
  /\ ~Unsupported(Current(c)) /\ ~Oversize(c)
  /\ job' = [job EXCEPT ![c].frame = I2cFrame(c), ![c].rlen = ReadLength(c),
                        ![c].stored = 0]
  /\ pc' = [pc EXCEPT ![c] = "store"]
  /\ UNCHANGED <<fx2, wbuf, i2c_mutex, usb_mutex, ret, streaming, refused>>

\* All messages are done: i2c_xfer returns their number.
XferDone(c) ==
  /\ pc[c] = "next"
  /\ job[c].i > Len(job[c].msgs)
  /\ Return(c, "ok")
  /\ UNCHANGED <<fx2, wbuf, streaming, refused>>

\* akb_pcr20x_streaming_ctrl, called when the first feed starts and the last ends;
\* there are no feeds before attach has succeeded.
StreamCtrl ==
  /\ Begin(Streamer)
  /\ ret[Attacher] = "ok"
  /\ Streamer \in OVERLAP \/ \A c \in Callers : pc[c] = "idle"
  /\ streaming' = ~streaming
  /\ job' = [job EXCEPT ![Streamer] =
               [NoJob EXCEPT !.frame = IF streaming THEN StopFrame ELSE StartFrame]]
  /\ pc' = [pc EXCEPT ![Streamer] = "store"]

\* The frame is written to wbuf: its first three bytes, as many as a streaming
\* frame has, one by one, the rest of a longer frame at once.
Store(t) ==
  LET k == job[t].stored
      n == IF k < 3 THEN k + 1 ELSE Len(job[t].frame) IN
  /\ pc[t] = "store"
  /\ wbuf' = [j \in DOMAIN wbuf |-> IF j \in (k + 1)..n THEN job[t].frame[j] ELSE wbuf[j]]
  /\ job' = [job EXCEPT ![t].stored = n]
  /\ pc' = [pc EXCEPT ![t] = IF n < Len(job[t].frame) THEN "store"
                             ELSE IF t = Streamer THEN "out" ELSE "usb"]
  /\ UNCHANGED <<fx2, i2c_mutex, usb_mutex, ret, streaming, refused>>

\* dvb_usbv2_generic_rw and generic_write; the _locked variant skips this step.
UsbLock(t) ==
  /\ pc[t] = "usb"
  /\ usb_mutex = Nobody
  /\ usb_mutex' = t
  /\ pc' = [pc EXCEPT ![t] = "out"]
  /\ UNCHANGED <<fx2, wbuf, i2c_mutex, job, ret, streaming, refused>>

\* EP1OUT is armed and takes what wbuf holds at this moment.
BulkOut(t) ==
  /\ pc[t] = "out"
  /\ ep1out.busy
  /\ ep1out' = [busy |-> FALSE, tag |-> t,
                bytes |-> SubSeq(wbuf, 1, Len(job[t].frame))]
  /\ IF job[t].rlen > 0
     THEN /\ pc' = [pc EXCEPT ![t] = "in"]
          /\ UNCHANGED <<usb_mutex, i2c_mutex, job, ret>>
     ELSE Proceed(t)
  /\ UNCHANGED <<ep1in, due, cpu, port, fifo, wbuf, streaming, refused>>

BulkOutTimeout(t) ==
  /\ pc[t] = "out"
  /\ ~ep1out.busy
  /\ SLOW \/ (ep1in.busy /\ ~parsing)
  /\ Return(t, "error")
  /\ UNCHANGED <<fx2, wbuf, streaming, refused>>

\* An answer no longer than the buffer ends the bulk-in transfer successfully.
BulkIn(t) ==
  /\ pc[t] = "in"
  /\ ep1in.busy
  /\ ep1in.cnt <= job[t].rlen
  /\ ep1in' = EmptyIn
  /\ Proceed(t)
  /\ UNCHANGED <<ep1out, due, cpu, port, fifo, wbuf, streaming, refused>>

\* A longer one is -EOVERFLOW; the driver clears the halt.  Whether the packet
\* survives that in EP1IN is up to the hardware.
Babble(t) ==
  /\ pc[t] = "in"
  /\ ep1in.busy
  /\ ep1in.cnt > job[t].rlen
  /\ ep1in' \in {ep1in, EmptyIn}
  /\ Return(t, "error")
  /\ UNCHANGED <<ep1out, due, cpu, port, fifo, wbuf, streaming, refused>>

BulkInTimeout(t) ==
  /\ pc[t] = "in"
  /\ ~ep1in.busy
  /\ SLOW \/ (ep1out.busy /\ ~parsing /\ due = NoTag)
  /\ Return(t, "error")
  /\ UNCHANGED <<fx2, wbuf, streaming, refused>>

\* The firmware works on; refused remembers whose frame it did not carry out.
Firmware ==
  /\ MainLoop
  /\ refused' = IF parsing /\ ~parsing' /\ failed
                THEN refused \cup ({ep1out.tag} \cap Callers) ELSE refused
  /\ UNCHANGED <<wbuf, i2c_mutex, usb_mutex, pc, job, ret, streaming>>

\* What a thread does by itself once it is inside a call and holds its locks.
Advance(t) ==
  \/ Store(t) \/ BulkOut(t) \/ BulkOutTimeout(t)
  \/ BulkIn(t) \/ Babble(t) \/ BulkInTimeout(t)
  \/ t \in Callers /\ (XferReject(t) \/ XferCompose(t) \/ XferDone(t))

Next ==
  \/ \E c \in Callers : XferCall(c) \/ XferLock(c) \/ XferInterrupted(c)
  \/ StreamCtrl
  \/ \E t \in Threads : UsbLock(t) \/ Advance(t)
  \/ Firmware

Spec == Init /\ [][Next]_vars

\* All a thread inside a call does, its waits for a mutex included.
Work(t) == UsbLock(t) \/ Advance(t) \/ (t \in Callers /\ XferLock(t))

\* The firmware keeps running, and so do threads inside a call: the kernel's mutexes
\* starve nobody, and there is one thing to do next at each place but theirs.  That
\* anyone starts a call is not assumed.
Fairness == WF_vars(Firmware) /\ \A t \in Threads : SF_vars(Work(t))

FairSpec == Spec /\ Fairness

-----------------------------------------------------------------------------

TypeOK ==
  /\ TypeOKFx2
  /\ wbuf \in [1..MAX_I2C_BUFFER_SIZE -> Byte]
  /\ i2c_mutex \in Callers \cup {Nobody}
  /\ usb_mutex \in Threads \cup {Nobody}
  /\ pc \in [Threads -> {"idle", "lock", "next", "store", "usb", "out", "in"}]
  /\ \A t \in Threads : /\ job[t].frame \in Seq(Byte)
                        /\ Len(job[t].frame) <= MAX_I2C_BUFFER_SIZE
  /\ ret \in [Threads -> {"none", "ok", "error"}]
  /\ streaming \in BOOLEAN
  /\ refused \subseteq Callers

(***************************************************************************)
(* Every frame arrives at the firmware as its sender composed it: nothing  *)
(* overwrites wbuf between the first store and the transfer.               *)
(***************************************************************************)
FrameIntegrity ==
  [][\A t \in Threads : BulkOut(t) => ep1out'.bytes = job[t].frame]_vars

(***************************************************************************)
(* The bytes a caller copies into its read message were read on its own    *)
(* behalf, and there are as many as it asked for.                          *)
(***************************************************************************)
AnswersMatch ==
  [][\A c \in Callers : BulkIn(c) => ep1in.tag = c /\ ep1in.cnt = job[c].rlen]_vars

(***************************************************************************)
(* i2c_xfer reports success only for calls whose messages were all carried *)
(* out on the I2C bus.                                                     *)
(***************************************************************************)
NoSilentFailure == \A c \in Callers : ret[c] = "ok" => c \notin refused

(***************************************************************************)
(* Once the firmware has worked off the frame of a streaming_ctrl call     *)
(* that reported success, EP6, the mode pins, the PIO start pin and the    *)
(* FIFO interface are in the state that was asked for.                     *)
(***************************************************************************)
StreamingAgrees ==
  ret[Streamer] = "ok" /\ ep1out.tag # Streamer =>
    IF streaming
    THEN /\ fifo[6] = "auto" /\ port.ifconfig = \he3
         /\ MODE_START \cup Bits(FX2_PIO_START) \subseteq port.iod
    ELSE fifo[6] = "manual" /\ port.iod \cap ModeBits = MODE_IDLE

(***************************************************************************)
(* Every call of i2c_xfer and streaming_ctrl returns, with or without      *)
(* success: no thread waits for ever for a mutex or an endpoint, also when *)
(* the firmware answers too late (SLOW) or takes no frame any more.        *)
(***************************************************************************)
EveryCallReturns == \A t \in Threads : pc[t] # "idle" ~> pc[t] = "idle"

(***************************************************************************)
(* The firmware works off every frame it has accepted.                     *)
(***************************************************************************)
FramesAreServed == ~ep1out.busy ~> ep1out.busy
=============================================================================
