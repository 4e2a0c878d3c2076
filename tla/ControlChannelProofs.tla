------------------------ MODULE ControlChannelProofs ------------------------
(***************************************************************************)
(* Theorems about ControlChannel, for any set of callers and any message   *)
(* lists.  Types are kept whatever happens.  The others assume what d->    *)
(* i2c_mutex alone does not give: that neither streaming_ctrl nor the      *)
(* frame of frontend_attach falls into a call of i2c_xfer (OVERLAP = {});  *)
(* without it they are false.  Then every frame arrives as it was          *)
(* composed, the answer to it fits EP1, the feed control and the firmware  *)
(* agree, and, if the firmware is never later than a timeout (~SLOW),      *)
(* answers reach the calls they belong to.                                 *)
(***************************************************************************)
EXTENDS ControlChannel, Fx2CommandLoopProofs, SequenceTheorems

-----------------------------------------------------------------------------
(* Types. *)

Jobs == [msgs : Seq(Messages), i : Nat \ {0}, frame : Seq(Byte), stored : Nat, rlen : Byte]
Places == {"idle", "lock", "next", "store", "usb", "out", "in"}

JobsOK == /\ job \in [Threads -> Jobs]
          /\ \A t \in Threads : Len(job[t].frame) <= MAX_I2C_BUFFER_SIZE

HostOK ==
  /\ wbuf \in [1..MAX_I2C_BUFFER_SIZE -> Byte]
  /\ i2c_mutex \in Callers \cup {Nobody}
  /\ usb_mutex \in Threads \cup {Nobody}
  /\ pc \in [Threads -> Places]
  /\ ret \in [Threads -> {"none", "ok", "error"}]
  /\ streaming \in BOOLEAN
  /\ refused \subseteq Callers

\* A thread that stores has something left to store.
Unfinished == \A t \in Threads : pc[t] = "store" => job[t].stored < Len(job[t].frame)

BaseInv == LoopInv /\ JobsOK /\ HostOK /\ Unfinished

LEMMA BaseTypes == BaseInv => TypeOK
<1> SUFFICES ASSUME BaseInv PROVE TypeOK
  OBVIOUS
<1>1. \A t \in Threads : /\ job[t].frame \in Seq(Byte)
                         /\ Len(job[t].frame) <= MAX_I2C_BUFFER_SIZE
  BY DEF BaseInv, JobsOK, Jobs
<1> QED BY <1>1 DEF TypeOK, BaseInv, LoopInv, HostOK, Places

LEMMA ThreadFacts ==
  /\ Attacher \in Threads /\ Streamer \in Threads /\ Attacher # Streamer
  /\ \A c \in Callers : c \in Threads /\ c # Attacher /\ c # Streamer
  /\ \A t \in Threads : t \in Tags /\ t # NoTag /\ t # Old /\ t # Nobody
  /\ Old \in Tags /\ Old # NoTag
  /\ \A t \in Threads : t \in Callers \/ t = Attacher \/ t = Streamer
  BY ThreadAssumption, TagAssumption DEF Threads

\* The frames the driver composes itself.
LEMMA DriverFrames ==
  \A f \in {InitFrame, StartFrame, StopFrame} :
    f \in Seq(Byte) /\ 0 < Len(f) /\ Len(f) <= MAX_I2C_BUFFER_SIZE
<1>1. InitFrame \in Seq(Byte) /\ 0 < Len(InitFrame) /\ Len(InitFrame) <= MAX_I2C_BUFFER_SIZE
  <2>1. InitFrame \in Seq(Byte) /\ Len(InitFrame) = 6
    BY DEF InitFrame, CMD_PORT_CFG, FX2_PIO_START, CMD_MODE_IDLE, CMD_IFCONFIG, Byte
  <2> QED BY <2>1 DEF MAX_I2C_BUFFER_SIZE
<1>2. StartFrame \in Seq(Byte) /\ 0 < Len(StartFrame) /\ Len(StartFrame) <= MAX_I2C_BUFFER_SIZE
  <2>1. StartFrame \in Seq(Byte) /\ Len(StartFrame) = 3
    BY DEF StartFrame, CMD_EP6IN_START, CMD_PORT_WRITE, FX2_PIO_START, Byte
  <2> QED BY <2>1 DEF MAX_I2C_BUFFER_SIZE
<1>3. StopFrame \in Seq(Byte) /\ 0 < Len(StopFrame) /\ Len(StopFrame) <= MAX_I2C_BUFFER_SIZE
  <2>1. StopFrame \in Seq(Byte) /\ Len(StopFrame) = 2
    BY DEF StopFrame, CMD_EP6IN_STOP, CMD_MODE_IDLE, Byte
  <2> QED BY <2>1 DEF MAX_I2C_BUFFER_SIZE
<1> QED BY <1>1, <1>2, <1>3

\* A job that only has a frame, or only messages, to begin with.
LEMMA NewJobs ==
  /\ NoJob \in Jobs /\ Len(NoJob.frame) = 0
  /\ \A f \in {InitFrame, StartFrame, StopFrame} :
       LET j == [NoJob EXCEPT !.frame = f] IN
       j \in Jobs /\ j.frame = f /\ j.rlen = 0 /\ j.stored = 0
  /\ \A m \in Calls :
       LET j == [NoJob EXCEPT !.msgs = m] IN
       j \in Jobs /\ Len(j.frame) = 0
<1>1. NoJob \in Jobs /\ Len(NoJob.frame) = 0
  BY DEF NoJob, Jobs, Byte
<1>2. ASSUME NEW f \in {InitFrame, StartFrame, StopFrame}
      PROVE  LET j == [NoJob EXCEPT !.frame = f] IN
             j \in Jobs /\ j.frame = f /\ j.rlen = 0 /\ j.stored = 0
  <2>1. f \in Seq(Byte)
    BY DriverFrames
  <2>2. [NoJob EXCEPT !.frame = f] \in Jobs
    BY <1>1, <2>1 DEF Jobs
  <2> QED BY <2>2 DEF NoJob
<1>3. ASSUME NEW m \in Calls
      PROVE  LET j == [NoJob EXCEPT !.msgs = m] IN j \in Jobs /\ Len(j.frame) = 0
  <2>1. m \in Seq(Messages)
    BY CallAssumption
  <2>2. [NoJob EXCEPT !.msgs = m] \in Jobs /\ [NoJob EXCEPT !.msgs = m].frame = NoJob.frame
    BY <1>1, <2>1 DEF Jobs
  <2> QED BY <1>1, <2>2
<1> QED BY <1>1, <1>2, <1>3

\* Changes of one thread's job.
LEMMA SetJob ==
  ASSUME NEW j \in [Threads -> Jobs], NEW t \in Threads, NEW v \in Jobs
  PROVE  LET k == [j EXCEPT ![t] = v] IN
         /\ k \in [Threads -> Jobs] /\ k[t] = v
         /\ \A u \in Threads \ {t} : k[u] = j[u]
  BY DEF Jobs

LEMMA SetStored ==
  ASSUME NEW j \in [Threads -> Jobs], NEW t \in Threads, NEW n \in Nat
  PROVE  LET k == [j EXCEPT ![t].stored = n] IN
         /\ k \in [Threads -> Jobs]
         /\ \A u \in Threads \ {t} : k[u] = j[u]
         /\ k[t].stored = n /\ k[t].frame = j[t].frame /\ k[t].rlen = j[t].rlen
  BY DEF Jobs

LEMMA SetPosition ==
  ASSUME NEW j \in [Threads -> Jobs], NEW t \in Threads, NEW n \in Nat \ {0}
  PROVE  LET k == [j EXCEPT ![t].i = n] IN
         /\ k \in [Threads -> Jobs]
         /\ \A u \in Threads \ {t} : k[u] = j[u]
         /\ k[t].frame = j[t].frame
  BY DEF Jobs

-----------------------------------------------------------------------------
(* What the building blocks of the actions do. *)

\* t has gone elsewhere, nobody else has moved.
Moves(t, place) ==
  /\ pc' \in [Threads -> Places] /\ pc'[t] = place
  /\ \A u \in Threads \ {t} : pc'[u] = pc[u]

LEMMA PcMoves ==
  ASSUME BaseInv, NEW t \in Threads, NEW place \in Places, pc' = [pc EXCEPT ![t] = place]
  PROVE  Moves(t, place)
  BY DEF BaseInv, HostOK, Moves

\* t's job is another one, nobody else's is.
Takes(t) == /\ JobsOK'
            /\ \A u \in Threads \ {t} : job'[u] = job[u]

\* t's last call has ended so, nobody else's is affected.
Ends(t, result) ==
  /\ ret' \in [Threads -> {"none", "ok", "error"}] /\ ret'[t] = result
  /\ \A u \in Threads \ {t} : ret'[u] = ret[u]

LEMMA StillUnfinished ==
  ASSUME BaseInv, NEW t \in Threads, NEW place \in Places \ {"store"}, Moves(t, place),
         \A u \in Threads \ {t} : job'[u] = job[u]
  PROVE  Unfinished'
  BY DEF BaseInv, Unfinished, Moves

LEMMA ReturnEffect ==
  ASSUME BaseInv, NEW t \in Threads, NEW result \in {"ok", "error"}, Return(t, result)
  PROVE  /\ Moves(t, "idle") /\ Takes(t) /\ Ends(t, result)
         /\ i2c_mutex' = IF i2c_mutex = t THEN Nobody ELSE i2c_mutex
         /\ i2c_mutex' \in Callers \cup {Nobody} /\ usb_mutex' \in Threads \cup {Nobody}
<1>1. Moves(t, "idle")
  BY PcMoves, "idle" \in Places DEF Return, Places
<1>2. Takes(t)
  BY NewJobs, SetJob DEF Return, Takes, BaseInv, JobsOK, MAX_I2C_BUFFER_SIZE
<1>3. Ends(t, result)
  BY DEF Return, Ends, BaseInv, HostOK
<1> QED BY <1>1, <1>2, <1>3 DEF Return, BaseInv, HostOK

LEMMA RetaggedFacts ==
  ASSUME NEW t \in Threads
  PROVE  /\ \A ep \in [busy : BOOLEAN, tag : Tags \cup {NoTag}, bytes : Seq(Byte)] :
              LET r == Retagged(ep, t) IN
              /\ r \in [busy : BOOLEAN, tag : Tags \cup {NoTag}, bytes : Seq(Byte)]
              /\ r.busy = ep.busy /\ r.bytes = ep.bytes
              /\ r.tag = IF ep.tag = t THEN Old ELSE ep.tag
         /\ \A ep \in [busy : BOOLEAN, tag : Tags \cup {NoTag}, cnt : Byte] :
              LET r == Retagged(ep, t) IN
              /\ r \in [busy : BOOLEAN, tag : Tags \cup {NoTag}, cnt : Byte]
              /\ r.busy = ep.busy /\ r.cnt = ep.cnt
              /\ r.tag = IF ep.tag = t THEN Old ELSE ep.tag
  BY ThreadFacts DEF Retagged

LEMMA BeginEffect ==
  ASSUME BaseInv, NEW t \in Threads, Begin(t)
  PROVE  /\ pc[t] = "idle"
         /\ LoopInv' /\ Ends(t, "none") /\ refused' \subseteq Callers
         /\ ep1out'.busy = ep1out.busy /\ ep1out'.bytes = ep1out.bytes
         /\ ep1out'.tag = IF ep1out.tag = t THEN Old ELSE ep1out.tag
         /\ ep1in'.busy = ep1in.busy /\ ep1in'.cnt = ep1in.cnt
         /\ ep1in'.tag = IF ep1in.tag = t THEN Old ELSE ep1in.tag
         /\ due' = IF due = t THEN Old ELSE due
         /\ UNCHANGED <<parsing, ptr, cmd_cnt, ret_cnt, failed, port, fifo, wbuf,
                        i2c_mutex, usb_mutex>>
<1>1. /\ ep1out \in [busy : BOOLEAN, tag : Tags \cup {NoTag}, bytes : Seq(Byte)]
      /\ ep1in \in [busy : BOOLEAN, tag : Tags \cup {NoTag}, cnt : Byte]
  BY DEF BaseInv, LoopInv, TypeOKFx2
<1>2. /\ ep1out' = Retagged(ep1out, t) /\ ep1in' = Retagged(ep1in, t)
      /\ due' = IF due = t THEN Old ELSE due
      /\ pc[t] = "idle" /\ ret' = [ret EXCEPT ![t] = "none"]
      /\ refused' = refused \ {t}
      /\ UNCHANGED <<parsing, ptr, cmd_cnt, ret_cnt, failed, port, fifo, wbuf,
                     i2c_mutex, usb_mutex>>
  BY DEF Begin, cpu
<1>3. /\ ep1out' \in [busy : BOOLEAN, tag : Tags \cup {NoTag}, bytes : Seq(Byte)]
      /\ ep1out'.busy = ep1out.busy /\ ep1out'.bytes = ep1out.bytes
      /\ ep1out'.tag = IF ep1out.tag = t THEN Old ELSE ep1out.tag
  BY <1>1, <1>2, RetaggedFacts
<1>4. /\ ep1in' \in [busy : BOOLEAN, tag : Tags \cup {NoTag}, cnt : Byte]
      /\ ep1in'.busy = ep1in.busy /\ ep1in'.cnt = ep1in.cnt
      /\ ep1in'.tag = IF ep1in.tag = t THEN Old ELSE ep1in.tag
  BY <1>1, <1>2, RetaggedFacts
<1>5. TypeOKFx2'
  BY <1>2, <1>3, <1>4, ThreadFacts DEF BaseInv, LoopInv, TypeOKFx2
<1>6. TagsAgree'
  BY <1>3, <1>4, ThreadFacts DEF BaseInv, LoopInv, TagsAgree
<1>7. ParserInSync' /\ BuffersReserved'
  BY <1>2, <1>3, <1>4, ThreadFacts DEF BaseInv, LoopInv, ParserInSync, BuffersReserved
<1>8. Ends(t, "none") /\ refused' \subseteq Callers
  BY <1>2 DEF Ends, BaseInv, HostOK
<1> QED BY <1>2, <1>3, <1>4, <1>5, <1>6, <1>7, <1>8 DEF LoopInv

-----------------------------------------------------------------------------
(* The frames of i2c_xfer. *)

\* A write and, possibly, a read behind it.
I2cShape(f) ==
  /\ Len(f) >= 4 /\ f[1] = CMD_I2C_WRITE /\ f[3] >= 1
  /\ \/ Len(f) = 3 + f[3]
     \/ Len(f) = 6 + f[3] /\ f[4 + f[3]] = CMD_I2C_READ

\* How many bytes the frame asks for.
AskedFor(f) == IF Len(f) = 3 + f[3] THEN 0 ELSE f[6 + f[3]]

\* The elements of a concatenation.
LEMMA Concat ==
  ASSUME NEW s \in Seq(Byte), NEW u \in Seq(Byte)
  PROVE  /\ s \o u \in Seq(Byte) /\ Len(s \o u) = Len(s) + Len(u)
         /\ \A k \in 1..Len(s) : (s \o u)[k] = s[k]
         /\ \A k \in 1..Len(u) : (s \o u)[Len(s) + k] = u[k]
  OBVIOUS

\* A write alone.
LEMMA ShapeOfWrite ==
  ASSUME NEW a \in Byte, NEW l \in 1..255, NEW x \in Byte
  PROVE LET f == <<CMD_I2C_WRITE, a, l>> \o [k \in 1..l |-> x] \o <<>> IN
   f \in Seq(Byte) /\ Len(f) = 3 + l /\ I2cShape(f) /\ AskedFor(f) = 0
<1> DEFINE head == <<CMD_I2C_WRITE, a, l>>
      body == [k \in 1..l |-> x]
      f == head \o body
<1>1. head \in Seq(Byte) /\ Len(head) = 3 /\ head[1] = CMD_I2C_WRITE /\ head[3] = l
  BY DEF Byte, CMD_I2C_WRITE
<1>2. body \in Seq(Byte) /\ Len(body) = l
  OBVIOUS
<1> HIDE DEF head, body
<1>a. /\ f \in Seq(Byte) /\ Len(f) = Len(head) + Len(body)
      /\ \A k \in 1..Len(head) : f[k] = head[k]
  BY <1>1, <1>2, Concat, Zenon
<1>b. Len(f) = 3 + l /\ \A k \in 1..3 : f[k] = head[k]
  BY <1>1, <1>2, <1>a
<1> HIDE DEF f
<1>3. f \in Seq(Byte) /\ Len(f) = 3 + l /\ f[1] = CMD_I2C_WRITE /\ f[3] = l
  BY <1>1, <1>2, <1>a, <1>b
<1>4. f \o <<>> = f
  BY <1>3 DEF f
<1>5. Len(f) >= 4 /\ f[3] >= 1
  BY <1>3
<1> HIDE DEF f
<1>6. I2cShape(f) /\ AskedFor(f) = 0
  BY <1>3, <1>5 DEF I2cShape, AskedFor
<1>7. QED BY <1>3, <1>4, <1>6 DEF f, head, body

\* A write and the read of the next message.
LEMMA ShapeOfPair ==
  ASSUME NEW a \in Byte, NEW l \in 1..255, NEW x \in Byte, NEW r \in Byte
  PROVE LET f == <<CMD_I2C_WRITE, a, l>> \o [k \in 1..l |-> x] \o <<CMD_I2C_READ, a, r>> IN
   f \in Seq(Byte) /\ Len(f) = 6 + l /\ I2cShape(f) /\ AskedFor(f) = r
<1> DEFINE head == <<CMD_I2C_WRITE, a, l>>
      body == [k \in 1..l |-> x]
      tail == <<CMD_I2C_READ, a, r>>
      f == head \o body \o tail
<1>1. head \in Seq(Byte) /\ Len(head) = 3 /\ head[1] = CMD_I2C_WRITE /\ head[3] = l
  BY DEF Byte, CMD_I2C_WRITE
<1>2. body \in Seq(Byte) /\ Len(body) = l
  OBVIOUS
<1>3. tail \in Seq(Byte) /\ Len(tail) = 3 /\ tail[1] = CMD_I2C_READ /\ tail[3] = r
  BY DEF Byte, CMD_I2C_READ
<1> HIDE DEF head, body, tail
<1>4. /\ head \o body \in Seq(Byte) /\ Len(head \o body) = 3 + l
      /\ (head \o body)[1] = CMD_I2C_WRITE /\ (head \o body)[3] = l
  <2> DEFINE g == head \o body
  <2>1. /\ g \in Seq(Byte) /\ Len(g) = Len(head) + Len(body)
        /\ \A k \in 1..Len(head) : g[k] = head[k]
    BY <1>1, <1>2, Concat, Zenon
  <2> HIDE DEF g
  <2>2. Len(g) = 3 + l /\ \A k \in 1..3 : g[k] = head[k]
    BY <1>1, <1>2, <2>1
  <2>3. g[1] = CMD_I2C_WRITE /\ g[3] = l
    BY <1>1, <2>2
  <2> QED BY <2>1, <2>2, <2>3 DEF g
<1>5. /\ f \in Seq(Byte) /\ Len(f) = 6 + l /\ f[1] = CMD_I2C_WRITE /\ f[3] = l
      /\ f[4 + l] = CMD_I2C_READ /\ f[6 + l] = r
  <2> DEFINE g == head \o body
             h == g \o tail
  <2>1. g \in Seq(Byte) /\ Len(g) = 3 + l /\ g[1] = CMD_I2C_WRITE /\ g[3] = l
    BY <1>4
  <2> HIDE DEF g
  <2>2. /\ h \in Seq(Byte) /\ Len(h) = Len(g) + Len(tail)
        /\ \A k \in 1..Len(g) : h[k] = g[k]
        /\ \A k \in 1..Len(tail) : h[Len(g) + k] = tail[k]
    BY <1>3, <2>1, Concat, Zenon
  <2>3. f = h
    BY DEF g
  <2> HIDE DEF h
  <2>4. /\ Len(h) = 6 + l
        /\ \A k \in 1..3 + l : h[k] = g[k]
        /\ \A k \in 1..3 : h[(3 + l) + k] = tail[k]
    BY <1>3, <2>1, <2>2
  <2>5. 1 \in 1..3 + l /\ 3 \in 1..3 + l /\ (3 + l) + 1 = 4 + l /\ (3 + l) + 3 = 6 + l
    OBVIOUS
  <2>6. h[1] = CMD_I2C_WRITE /\ h[3] = l
    BY <2>1, <2>4, <2>5
  <2>7. h[4 + l] = CMD_I2C_READ /\ h[6 + l] = r
    <3>1. h[(3 + l) + 1] = tail[1] /\ h[(3 + l) + 3] = tail[3]
      BY <2>4
    <3> QED BY <1>3, <2>5, <3>1
  <2> QED BY <2>2, <2>3, <2>4, <2>6, <2>7
<1> HIDE DEF f
<1>6. I2cShape(f) /\ AskedFor(f) = r
  BY <1>5 DEF I2cShape, AskedFor
<1>7. QED BY <1>5, <1>6 DEF f, head, body, tail

\* What i2c_xfer lets through.
LEMMA Supported ==
  ASSUME NEW m \in Messages, ~Unsupported(m)
  PROVE  m.addr \in Byte /\ m.len \in 1..255 /\ m.fill \in Byte
<1>1. m.addr \in Nat /\ m.fill \in Byte
  BY DEF Messages
<1>2. m.addr <= 255 /\ m.len \in 1..255
  BY <1>1, SMT DEF Unsupported, U8_MAX
<1> QED BY <1>1, <1>2, SMT DEF Byte

\* What fits into wbuf.
LEMMA Fitting ==
  /\ \A l \in 1..255 : ~(3 + l + 3 > MAX_I2C_BUFFER_SIZE) => 6 + l <= MAX_I2C_BUFFER_SIZE
  /\ \A l \in 1..255 : ~(3 + l > MAX_I2C_BUFFER_SIZE) => 3 + l <= MAX_I2C_BUFFER_SIZE
  /\ \A r \in 1..MAX_I2C_BUFFER_SIZE : r \in Byte
  /\ 0 \in Byte
  BY SMT DEF MAX_I2C_BUFFER_SIZE, Byte

LEMMA ComposedFrame ==
  ASSUME BaseInv, NEW c \in Callers, job[c].i <= Len(job[c].msgs),
         ~Unsupported(Current(c)), ~Oversize(c)
  PROVE  /\ I2cFrame(c) \in Seq(Byte) /\ Len(I2cFrame(c)) <= MAX_I2C_BUFFER_SIZE
         /\ ReadLength(c) \in Byte
         /\ I2cShape(I2cFrame(c)) /\ AskedFor(I2cFrame(c)) = ReadLength(c)
<1> DEFINE m == Current(c)
<1>1. job[c] \in Jobs
  BY ThreadFacts DEF BaseInv, JobsOK
<1>2. m \in Messages
  BY <1>1 DEF Jobs, Current
<1>3. m.addr \in Byte /\ m.len \in 1..255 /\ m.fill \in Byte
  BY <1>2, Supported
<1> HIDE DEF m
<1>4. CASE Paired(c)
  <2>1. ReadLength(c) \in 1..MAX_I2C_BUFFER_SIZE /\ 6 + m.len <= MAX_I2C_BUFFER_SIZE
    <3>1. /\ ReadLength(c) \in 1..MAX_I2C_BUFFER_SIZE
          /\ ~(3 + m.len + 3 > MAX_I2C_BUFFER_SIZE)
      BY <1>4 DEF Oversize, m
    <3> QED BY <1>3, <3>1, Fitting, Zenon
  <2>2. ReadLength(c) \in Byte
    BY <2>1, Fitting, Zenon
  <2> DEFINE l == m.len
             f == <<CMD_I2C_WRITE, m.addr, l>> \o [k \in 1..l |-> m.fill]
                    \o <<CMD_I2C_READ, m.addr, ReadLength(c)>>
  <2>3. I2cFrame(c) = f
    BY <1>4 DEF I2cFrame, m
  <2>5. f \in Seq(Byte) /\ Len(f) = 6 + l /\ I2cShape(f) /\ AskedFor(f) = ReadLength(c)
    BY <1>3, <2>2, ShapeOfPair
  <2> HIDE DEF f
  <2>4. /\ I2cFrame(c) \in Seq(Byte) /\ Len(I2cFrame(c)) = 6 + m.len
        /\ I2cShape(I2cFrame(c)) /\ AskedFor(I2cFrame(c)) = ReadLength(c)
    BY <2>3, <2>5
  <2> QED BY <2>1, <2>2, <2>4
<1>5. CASE ~Paired(c)
  <2>1. ReadLength(c) = 0 /\ 3 + m.len <= MAX_I2C_BUFFER_SIZE
    <3>1. ReadLength(c) = 0 /\ ~(3 + m.len > MAX_I2C_BUFFER_SIZE)
      BY <1>5 DEF Oversize, ReadLength, m
    <3> QED BY <1>3, <3>1, Fitting, Zenon
  <2>2. 0 \in Byte
    BY Fitting
  <2> DEFINE l == m.len
             f == <<CMD_I2C_WRITE, m.addr, l>> \o [k \in 1..l |-> m.fill] \o <<>>
  <2>3. I2cFrame(c) = f
    BY <1>5 DEF I2cFrame, m
  <2>5. f \in Seq(Byte) /\ Len(f) = 3 + l /\ I2cShape(f) /\ AskedFor(f) = 0
    BY <1>3, ShapeOfWrite
  <2> HIDE DEF f
  <2>4. /\ I2cFrame(c) \in Seq(Byte) /\ Len(I2cFrame(c)) = 3 + m.len
        /\ I2cShape(I2cFrame(c)) /\ AskedFor(I2cFrame(c)) = 0
    BY <2>3, <2>5
  <2> QED BY <2>1, <2>2, <2>4
<1> QED BY <1>4, <1>5

-----------------------------------------------------------------------------
(* What each action does; it keeps the types. *)

LEMMA XferCallEffect ==
  ASSUME BaseInv, NEW c \in Callers, XferCall(c)
  PROVE  /\ BaseInv' /\ Begin(c) /\ ret[Attacher] # "error"
         /\ \A t \in {Attacher, Streamer} \ OVERLAP : pc[t] = "idle"
         /\ Moves(c, "lock") /\ Takes(c) /\ streaming' = streaming
<1>1. /\ Begin(c) /\ ret[Attacher] # "error" /\ streaming' = streaming
      /\ \A t \in {Attacher, Streamer} \ OVERLAP : pc[t] = "idle"
      /\ pc' = [pc EXCEPT ![c] = "lock"]
      /\ \E msgs \in Calls : job' = [job EXCEPT ![c] = [NoJob EXCEPT !.msgs = msgs]]
  BY DEF XferCall
<1>2. c \in Threads
  BY ThreadFacts
<1>3. Moves(c, "lock")
  BY <1>1, <1>2, PcMoves, "lock" \in Places DEF Places
<1>4. Takes(c)
  <2>1. PICK msgs \in Calls : job' = [job EXCEPT ![c] = [NoJob EXCEPT !.msgs = msgs]]
    BY <1>1
  <2> DEFINE v == [NoJob EXCEPT !.msgs = msgs]
  <2>2. v \in Jobs /\ Len(v.frame) = 0
    BY NewJobs
  <2> HIDE DEF v
  <2>3. job' = [job EXCEPT ![c] = v]
    BY <2>1 DEF v
  <2> QED BY <1>2, <2>2, <2>3, SetJob DEF Takes, BaseInv, JobsOK, MAX_I2C_BUFFER_SIZE
<1>5. BaseInv'
  <2>1. HostOK'
    BY <1>1, <1>2, <1>3, BeginEffect DEF BaseInv, HostOK, Moves, Ends
  <2>2. Unfinished'
    BY <1>2, <1>3, <1>4, StillUnfinished DEF Takes, Places
  <2> QED BY <1>1, <1>2, <1>4, <2>1, <2>2, BeginEffect DEF BaseInv, Takes
<1> QED BY <1>1, <1>3, <1>4, <1>5

LEMMA StreamCtrlEffect ==
  ASSUME BaseInv, StreamCtrl
  PROVE  /\ BaseInv' /\ Begin(Streamer) /\ ret[Attacher] = "ok"
         /\ Streamer \in OVERLAP \/ \A c \in Callers : pc[c] = "idle"
         /\ Moves(Streamer, "store") /\ Takes(Streamer) /\ streaming' = ~streaming
         /\ job'[Streamer].frame = IF streaming THEN StopFrame ELSE StartFrame
         /\ job'[Streamer].rlen = 0 /\ job'[Streamer].stored = 0
<1> DEFINE f == IF streaming THEN StopFrame ELSE StartFrame
           v == [NoJob EXCEPT !.frame = f]
<1>1. /\ Begin(Streamer) /\ ret[Attacher] = "ok"
      /\ Streamer \in OVERLAP \/ \A c \in Callers : pc[c] = "idle"
      /\ streaming' = ~streaming
      /\ pc' = [pc EXCEPT ![Streamer] = "store"] /\ job' = [job EXCEPT ![Streamer] = v]
  BY DEF StreamCtrl
<1>2. Streamer \in Threads
  BY ThreadFacts
<1>3. Moves(Streamer, "store")
  BY <1>1, <1>2, PcMoves, "store" \in Places DEF Places
<1>4. /\ v \in Jobs /\ v.frame = f /\ v.rlen = 0 /\ v.stored = 0
      /\ 0 < Len(f) /\ Len(f) <= MAX_I2C_BUFFER_SIZE
  <2>1. f \in {InitFrame, StartFrame, StopFrame}
    OBVIOUS
  <2> HIDE DEF f
  <2> QED BY <2>1, NewJobs, DriverFrames
<1>5. f = IF streaming THEN StopFrame ELSE StartFrame
  OBVIOUS
<1> HIDE DEF f, v
<1>6. /\ job' \in [Threads -> Jobs] /\ job'[Streamer] = v
      /\ \A u \in Threads \ {Streamer} : job'[u] = job[u]
  BY <1>1, <1>2, <1>4, SetJob DEF BaseInv, JobsOK
<1>7. Takes(Streamer)
  <2>1. Len(job'[Streamer].frame) <= MAX_I2C_BUFFER_SIZE
    BY <1>4, <1>6, Zenon
  <2> QED BY <1>6, <2>1 DEF Takes, BaseInv, JobsOK
<1>8. BaseInv'
  <2>1. HostOK'
    BY <1>1, <1>2, <1>3, BeginEffect DEF BaseInv, HostOK, Moves, Ends
  <2>2. Unfinished'
    <3>1. job'[Streamer].stored < Len(job'[Streamer].frame)
      BY <1>4, <1>6, Zenon
    <3> QED BY <1>3, <1>6, <3>1 DEF BaseInv, Unfinished, Moves
  <2> QED BY <1>1, <1>2, <1>7, <2>1, <2>2, BeginEffect DEF BaseInv, Takes
<1> QED BY <1>1, <1>3, <1>4, <1>5, <1>6, <1>7, <1>8

LEMMA XferLockEffect ==
  ASSUME BaseInv, NEW c \in Callers, XferLock(c)
  PROVE  /\ BaseInv' /\ pc[c] = "lock" /\ i2c_mutex = Nobody /\ i2c_mutex' = c
         /\ Moves(c, "next")
         /\ UNCHANGED <<fx2, wbuf, usb_mutex, job, ret, streaming, refused>>
<1>1. /\ pc[c] = "lock" /\ i2c_mutex = Nobody /\ i2c_mutex' = c
      /\ pc' = [pc EXCEPT ![c] = "next"]
      /\ UNCHANGED <<fx2, wbuf, usb_mutex, job, ret, streaming, refused>>
  BY DEF XferLock
<1>2. Moves(c, "next")
  BY <1>1, ThreadFacts, PcMoves, "next" \in Places DEF Places
<1>3. HostOK' /\ JobsOK' /\ Unfinished'
  BY <1>1, <1>2 DEF BaseInv, HostOK, JobsOK, Unfinished, Moves
<1> QED BY <1>1, <1>2, <1>3, LoopUnchanged DEF BaseInv

LEMMA UsbLockEffect ==
  ASSUME BaseInv, NEW t \in Threads, UsbLock(t)
  PROVE  /\ BaseInv' /\ pc[t] = "usb" /\ Moves(t, "out")
         /\ UNCHANGED <<fx2, wbuf, i2c_mutex, job, ret, streaming, refused>>
<1>1. /\ pc[t] = "usb" /\ usb_mutex' = t /\ pc' = [pc EXCEPT ![t] = "out"]
      /\ UNCHANGED <<fx2, wbuf, i2c_mutex, job, ret, streaming, refused>>
  BY DEF UsbLock
<1>2. Moves(t, "out")
  BY <1>1, PcMoves, "out" \in Places DEF Places
<1>3. HostOK' /\ JobsOK' /\ Unfinished'
  BY <1>1, <1>2 DEF BaseInv, HostOK, JobsOK, Unfinished, Moves
<1> QED BY <1>1, <1>2, <1>3, LoopUnchanged DEF BaseInv

LEMMA XferComposeEffect ==
  ASSUME BaseInv, NEW c \in Callers, XferCompose(c)
  PROVE  /\ BaseInv' /\ pc[c] = "next" /\ Moves(c, "store") /\ Takes(c)
         /\ I2cShape(job'[c].frame) /\ job'[c].rlen = AskedFor(job'[c].frame)
         /\ job'[c].stored = 0
         /\ UNCHANGED <<fx2, wbuf, i2c_mutex, usb_mutex, ret, streaming, refused>>
<1>1. /\ pc[c] = "next" /\ pc' = [pc EXCEPT ![c] = "store"]
      /\ job' = [job EXCEPT ![c].frame = I2cFrame(c), ![c].rlen = ReadLength(c),
                            ![c].stored = 0]
      /\ UNCHANGED <<fx2, wbuf, i2c_mutex, usb_mutex, ret, streaming, refused>>
      /\ job[c].i <= Len(job[c].msgs) /\ ~Unsupported(Current(c)) /\ ~Oversize(c)
  BY DEF XferCompose
<1>2. Moves(c, "store")
  BY <1>1, ThreadFacts, PcMoves, "store" \in Places DEF Places
<1>3. /\ I2cFrame(c) \in Seq(Byte) /\ Len(I2cFrame(c)) <= MAX_I2C_BUFFER_SIZE
      /\ ReadLength(c) \in Byte
      /\ I2cShape(I2cFrame(c)) /\ AskedFor(I2cFrame(c)) = ReadLength(c)
  BY <1>1, ComposedFrame
<1>4. /\ job' \in [Threads -> Jobs]
      /\ \A u \in Threads \ {c} : job'[u] = job[u]
      /\ job'[c].stored = 0 /\ job'[c].frame = I2cFrame(c) /\ job'[c].rlen = ReadLength(c)
  <2> DEFINE f == I2cFrame(c)
             r == ReadLength(c)
  <2>1. job \in [Threads -> Jobs] /\ c \in Threads /\ f \in Seq(Byte) /\ r \in Byte
    BY <1>3, ThreadFacts DEF BaseInv, JobsOK
  <2> DEFINE k == [job EXCEPT ![c].frame = f, ![c].rlen = r, ![c].stored = 0]
  <2>2. job' = k
    BY <1>1
  <2> HIDE DEF f, r
  <2>3. /\ k \in [Threads -> Jobs]
        /\ \A u \in Threads \ {c} : k[u] = job[u]
        /\ k[c].stored = 0 /\ k[c].frame = f /\ k[c].rlen = r
    BY <2>1 DEF Jobs
  <2> HIDE DEF k
  <2> QED BY <2>2, <2>3 DEF f, r
<1>5. Takes(c)
  BY <1>3, <1>4 DEF Takes, BaseInv, JobsOK
<1>6. HostOK'
  BY <1>1, <1>2 DEF BaseInv, HostOK, Moves
<1>7. Unfinished'
  <2>1. Len(I2cFrame(c)) >= 4 /\ Len(I2cFrame(c)) \in Nat
    BY <1>3 DEF I2cShape
  <2>2. job'[c].stored < Len(job'[c].frame)
    BY <1>4, <2>1
  <2> QED BY <1>2, <1>4, <2>2 DEF BaseInv, Unfinished, Moves
<1> QED BY <1>1, <1>2, <1>3, <1>4, <1>5, <1>6, <1>7, LoopUnchanged DEF BaseInv, Takes

\* The calls that end without having sent anything: interrupted while they wait for
\* i2c_mutex, at a message that is rejected, behind the last one, or in a transfer
\* that timed out or brought too much.
GivesUp(t) ==
  \/ t \in Callers /\ (XferInterrupted(t) \/ XferReject(t) \/ XferDone(t))
  \/ BulkOutTimeout(t) \/ BulkInTimeout(t) \/ Babble(t)

LEMMA GivesUpEffect ==
  ASSUME BaseInv, NEW t \in Threads, GivesUp(t)
  PROVE  /\ BaseInv' /\ pc[t] # "idle" /\ Moves(t, "idle") /\ Takes(t)
         /\ Ends(t, "error") \/ (t \in Callers /\ Ends(t, "ok"))
         /\ i2c_mutex' = IF i2c_mutex = t THEN Nobody ELSE i2c_mutex
         /\ UNCHANGED <<ep1out, due, parsing, ptr, cmd_cnt, ret_cnt, failed, port, fifo, wbuf,
                        streaming, refused>>
         /\ ep1in' \in {ep1in, EmptyIn}
         /\ pc[t] # "in" => ep1in' = ep1in
         /\ pc[t] = "in" => \/ ep1in.busy /\ ep1in.cnt > job[t].rlen
                            \/ /\ ep1in' = ep1in /\ ~ep1in.busy
                               /\ SLOW \/ (ep1out.busy /\ ~parsing /\ due = NoTag)
<1>1. /\ pc[t] # "idle"
      /\ Return(t, "error") \/ (t \in Callers /\ Return(t, "ok"))
      /\ UNCHANGED <<ep1out, due, parsing, ptr, cmd_cnt, ret_cnt, failed, port, fifo, wbuf,
                     streaming, refused>>
      /\ ep1in' \in {ep1in, EmptyIn}
      /\ pc[t] # "in" => ep1in' = ep1in
      /\ pc[t] = "in" => \/ ep1in.busy /\ ep1in.cnt > job[t].rlen
                         \/ /\ ep1in' = ep1in /\ ~ep1in.busy
                            /\ SLOW \/ (ep1out.busy /\ ~parsing /\ due = NoTag)
  BY DEF GivesUp, XferInterrupted, XferReject, XferDone, BulkOutTimeout, BulkInTimeout,
         Babble, fx2, cpu
<1>2. /\ Moves(t, "idle") /\ Takes(t)
      /\ Ends(t, "error") \/ (t \in Callers /\ Ends(t, "ok"))
      /\ i2c_mutex' = IF i2c_mutex = t THEN Nobody ELSE i2c_mutex
      /\ i2c_mutex' \in Callers \cup {Nobody} /\ usb_mutex' \in Threads \cup {Nobody}
  BY <1>1, ReturnEffect
<1>3. HostOK'
  BY <1>1, <1>2 DEF BaseInv, HostOK, Moves, Ends
<1>4. LoopInv'
  BY <1>1, LoopUnchanged, AnswerFetched DEF BaseInv, fx2, cpu
<1>5. Unfinished'
  BY <1>2, StillUnfinished DEF Takes, Places
<1> QED BY <1>1, <1>2, <1>3, <1>4, <1>5 DEF BaseInv, Takes

\* A message has been dealt with.
LEMMA ProceedEffect ==
  ASSUME BaseInv, NEW t \in Threads, Proceed(t)
  PROVE  /\ Takes(t) /\ Unfinished'
         /\ \/ /\ t \in Callers /\ Moves(t, "next")
               /\ UNCHANGED <<i2c_mutex, ret>>
            \/ /\ t \notin Callers /\ Moves(t, "idle") /\ Ends(t, "ok")
               /\ i2c_mutex' = IF i2c_mutex = t THEN Nobody ELSE i2c_mutex
         /\ i2c_mutex' \in Callers \cup {Nobody} /\ usb_mutex' \in Threads \cup {Nobody}
         /\ ret' \in [Threads -> {"none", "ok", "error"}]
<1>1. CASE t \in Callers
  <2>1. /\ pc' = [pc EXCEPT ![t] = "next"]
        /\ job' = [job EXCEPT ![t].i = job[t].i + IF job[t].rlen > 0 THEN 2 ELSE 1]
        /\ usb_mutex' = Nobody /\ UNCHANGED <<i2c_mutex, ret>>
    BY <1>1 DEF Proceed, BaseInv, JobsOK
  <2>2. Moves(t, "next")
    BY <2>1, PcMoves, "next" \in Places DEF Places
  <2>3. job \in [Threads -> Jobs] /\ job[t].i \in Nat \ {0}
    BY DEF BaseInv, JobsOK, Jobs
  <2> DEFINE n == job[t].i + IF job[t].rlen > 0 THEN 2 ELSE 1
  <2>4. n \in Nat \ {0}
    BY <2>3
  <2>5. job' = [job EXCEPT ![t].i = n]
    BY <2>1
  <2> HIDE DEF n
  <2>6. /\ job' \in [Threads -> Jobs] /\ \A u \in Threads \ {t} : job'[u] = job[u]
        /\ job'[t].frame = job[t].frame
    BY <2>3, <2>4, <2>5, SetPosition
  <2>7. Takes(t)
    BY <2>6 DEF Takes, BaseInv, JobsOK
  <2>8. Unfinished'
    BY <2>2, <2>6, StillUnfinished DEF Places
  <2> QED BY <1>1, <2>1, <2>2, <2>7, <2>8 DEF BaseInv, HostOK
<1>2. CASE t \notin Callers
  <2>1. Return(t, "ok")
    BY <1>2 DEF Proceed
  <2>2. Unfinished'
    BY <2>1, ReturnEffect, StillUnfinished DEF Places, Takes
  <2> QED BY <1>2, <2>1, <2>2, ReturnEffect DEF Ends
<1> QED BY <1>1, <1>2

\* The packet BulkOut sends.
LEMMA Prefix ==
  ASSUME NEW w \in [1..MAX_I2C_BUFFER_SIZE -> Byte],
         NEW f \in Seq(Byte), Len(f) <= MAX_I2C_BUFFER_SIZE
  PROVE  /\ SubSeq(w, 1, Len(f)) \in Seq(Byte) /\ Len(SubSeq(w, 1, Len(f))) = Len(f)
         /\ (\A j \in 1..Len(f) : w[j] = f[j]) => SubSeq(w, 1, Len(f)) = f
<1>1. Len(f) \in Nat /\ MAX_I2C_BUFFER_SIZE \in Nat
  BY DEF MAX_I2C_BUFFER_SIZE
<1>2. \A j \in 1..Len(f) : w[j] \in Byte
  BY <1>1
<1> DEFINE n == Len(f)
<1>3. n \in Int /\ 1 \in Int /\ \A j \in 1..n : w[j] \in Byte
  BY <1>1, <1>2
<1> HIDE DEF n
<1>4. /\ SubSeq(w, 1, n) \in Seq(Byte)
      /\ Len(SubSeq(w, 1, n)) = IF 1 <= n THEN n - 1 + 1 ELSE 0
      /\ \A i \in 1..n - 1 + 1 : SubSeq(w, 1, n)[i] = w[1 + i - 1]
  BY <1>3, SubSeqProperties
<1>5. Len(SubSeq(w, 1, n)) = n
  BY <1>1, <1>4 DEF n
<1>6. \A i \in 1..n : SubSeq(w, 1, n)[i] = w[i]
  BY <1>1, <1>4 DEF n
<1>7. ASSUME \A j \in 1..Len(f) : w[j] = f[j] PROVE SubSeq(w, 1, n) = f
  BY <1>4, <1>5, <1>6, <1>7 DEF n
<1> QED BY <1>4, <1>5, <1>7 DEF n

LEMMA NoBytes == \A r \in Byte : ~(r > 0) => r = 0
  BY DEF Byte

LEMMA BulkOutEffect ==
  ASSUME BaseInv, NEW t \in Threads, BulkOut(t)
  PROVE  /\ BaseInv' /\ pc[t] = "out" /\ ep1out.busy
         /\ ep1out' = [busy |-> FALSE, tag |-> t,
                       bytes |-> SubSeq(wbuf, 1, Len(job[t].frame))]
         /\ \/ /\ job[t].rlen > 0 /\ Moves(t, "in") /\ UNCHANGED <<i2c_mutex, job, ret>>
            \/ /\ job[t].rlen = 0 /\ t \in Callers /\ Moves(t, "next") /\ Takes(t)
               /\ UNCHANGED <<i2c_mutex, ret>>
            \/ /\ job[t].rlen = 0 /\ t \notin Callers /\ Moves(t, "idle") /\ Takes(t)
               /\ Ends(t, "ok")
               /\ i2c_mutex' = IF i2c_mutex = t THEN Nobody ELSE i2c_mutex
         /\ UNCHANGED <<ep1in, due, parsing, ptr, cmd_cnt, ret_cnt, failed, port, fifo, wbuf,
                        streaming, refused>>
<1> DEFINE f == SubSeq(wbuf, 1, Len(job[t].frame))
<1>1. /\ pc[t] = "out" /\ ep1out.busy
      /\ ep1out' = [busy |-> FALSE, tag |-> t, bytes |-> f]
      /\ IF job[t].rlen > 0
         THEN pc' = [pc EXCEPT ![t] = "in"] /\ UNCHANGED <<usb_mutex, i2c_mutex, job, ret>>
         ELSE Proceed(t)
      /\ UNCHANGED <<ep1in, due, parsing, ptr, cmd_cnt, ret_cnt, failed, port, fifo, wbuf,
                     streaming, refused>>
  BY DEF BulkOut, cpu
<1>2. /\ job[t].frame \in Seq(Byte) /\ Len(job[t].frame) <= MAX_I2C_BUFFER_SIZE
      /\ job[t].rlen \in Byte
  BY DEF BaseInv, JobsOK, Jobs
<1>3. f \in Seq(Byte) /\ Len(f) <= EP1_SIZE
  BY <1>2, Prefix DEF BaseInv, HostOK, MAX_I2C_BUFFER_SIZE, EP1_SIZE
<1> HIDE DEF f
<1>4. LoopInv'
  BY <1>1, <1>3, ThreadFacts, FrameAccepted DEF BaseInv, cpu
<1>5. CASE job[t].rlen > 0
  <2>1. Moves(t, "in")
    BY <1>1, <1>5, PcMoves, "in" \in Places DEF Places
  <2>2. HostOK' /\ JobsOK' /\ Unfinished'
    BY <1>1, <1>5, <2>1 DEF BaseInv, HostOK, JobsOK, Unfinished, Moves
  <2> QED BY <1>1, <1>4, <1>5, <2>1, <2>2 DEF BaseInv, f
<1>6. CASE ~(job[t].rlen > 0)
  <2>1. job[t].rlen = 0
    BY <1>2, <1>6, NoBytes, Zenon
  <2>2. Proceed(t)
    BY <1>1, <1>6
  <2>3. HostOK'
    BY <1>1, <2>2, ProceedEffect DEF BaseInv, HostOK, Moves, Ends
  <2>4. Takes(t)
    BY <2>2, ProceedEffect
  <2>5. BaseInv'
    BY <1>4, <2>2, <2>3, <2>4, ProceedEffect DEF BaseInv, Takes
  <2> QED BY <1>1, <2>1, <2>2, <2>4, <2>5, ProceedEffect DEF f
<1> QED BY <1>5, <1>6

LEMMA BulkInEffect ==
  ASSUME BaseInv, NEW t \in Threads, BulkIn(t)
  PROVE  /\ BaseInv' /\ pc[t] = "in" /\ ep1in.busy /\ ep1in' = EmptyIn /\ Takes(t)
         /\ \/ t \in Callers /\ Moves(t, "next") /\ UNCHANGED <<i2c_mutex, ret>>
            \/ t \notin Callers
         /\ UNCHANGED <<ep1out, due, parsing, ptr, cmd_cnt, ret_cnt, failed, port, fifo, wbuf,
                        streaming, refused>>
<1>1. /\ pc[t] = "in" /\ ep1in.busy /\ ep1in' = EmptyIn /\ Proceed(t)
      /\ UNCHANGED <<ep1out, due, parsing, ptr, cmd_cnt, ret_cnt, failed, port, fifo, wbuf,
                     streaming, refused>>
  BY DEF BulkIn, cpu
<1>2. LoopInv'
  BY <1>1, AnswerFetched DEF BaseInv, cpu
<1>3. HostOK'
  BY <1>1, ProceedEffect DEF BaseInv, HostOK, Moves, Ends
<1> QED BY <1>1, <1>2, <1>3, ProceedEffect DEF BaseInv, Takes

LEMMA StoreEffect ==
  ASSUME BaseInv, NEW t \in Threads, Store(t)
  PROVE  LET n == IF job[t].stored < 3 THEN job[t].stored + 1 ELSE Len(job[t].frame) IN
         /\ BaseInv' /\ pc[t] = "store" /\ Takes(t)
         /\ Moves(t, IF n < Len(job[t].frame) THEN "store"
                     ELSE IF t = Streamer THEN "out" ELSE "usb")
         /\ job'[t].frame = job[t].frame /\ job'[t].rlen = job[t].rlen /\ job'[t].stored = n
         /\ \A j \in 1..MAX_I2C_BUFFER_SIZE :
              wbuf'[j] = IF j \in (job[t].stored + 1)..n THEN job[t].frame[j] ELSE wbuf[j]
         /\ UNCHANGED <<fx2, i2c_mutex, usb_mutex, ret, streaming, refused>>
<1> DEFINE k == job[t].stored
           n == IF k < 3 THEN k + 1 ELSE Len(job[t].frame)
           place == IF n < Len(job[t].frame) THEN "store"
                    ELSE IF t = Streamer THEN "out" ELSE "usb"
<1>1. /\ pc[t] = "store"
      /\ wbuf' = [j \in DOMAIN wbuf |-> IF j \in (k + 1)..n THEN job[t].frame[j] ELSE wbuf[j]]
      /\ job' = [job EXCEPT ![t].stored = n]
      /\ pc' = [pc EXCEPT ![t] = place]
      /\ UNCHANGED <<fx2, i2c_mutex, usb_mutex, ret, streaming, refused>>
  BY DEF Store
<1>2. /\ job \in [Threads -> Jobs]
      /\ k \in Nat /\ job[t].frame \in Seq(Byte) /\ Len(job[t].frame) \in Nat
  BY DEF BaseInv, JobsOK, Jobs
<1>3. n \in Nat /\ place \in Places
  BY <1>2 DEF Places
<1> HIDE DEF n, place
<1>4. Moves(t, place)
  BY <1>1, <1>3, PcMoves
<1>5. /\ job' \in [Threads -> Jobs] /\ \A u \in Threads \ {t} : job'[u] = job[u]
      /\ job'[t].stored = n /\ job'[t].frame = job[t].frame /\ job'[t].rlen = job[t].rlen
  BY <1>1, <1>2, <1>3, SetStored
<1>6. Takes(t)
  BY <1>5 DEF Takes, BaseInv, JobsOK
<1>7. \A j \in 1..MAX_I2C_BUFFER_SIZE :
        wbuf'[j] = IF j \in (k + 1)..n THEN job[t].frame[j] ELSE wbuf[j]
  BY <1>1 DEF BaseInv, HostOK
<1>8. wbuf' \in [1..MAX_I2C_BUFFER_SIZE -> Byte]
  <2>1. \A j \in (k + 1)..n : j \in 1..Len(job[t].frame)
    BY <1>1, <1>2 DEF n, BaseInv, Unfinished
  <2>2. \A j \in (k + 1)..n : job[t].frame[j] \in Byte
    BY <1>2, <2>1
  <2> QED BY <1>1, <2>2 DEF BaseInv, HostOK
<1>9. HostOK'
  BY <1>1, <1>4, <1>8 DEF BaseInv, HostOK, Moves
<1>10. Unfinished'
  <2>1. place = "store" => job'[t].stored < Len(job'[t].frame)
    BY <1>5 DEF place
  <2> QED BY <1>4, <1>5, <2>1 DEF BaseInv, Unfinished, Moves
<1> QED BY <1>1, <1>4, <1>5, <1>6, <1>7, <1>9, <1>10, LoopUnchanged
        DEF BaseInv, Takes, n, place

-----------------------------------------------------------------------------
(* Types, without any assumption on how the calls overlap. *)

LEMMA FirmwareEffect ==
  ASSUME BaseInv, Firmware
  PROVE  /\ BaseInv' /\ MainLoop
         /\ UNCHANGED <<wbuf, i2c_mutex, usb_mutex, pc, job, ret, streaming>>
<1>1. /\ MainLoop /\ UNCHANGED <<wbuf, i2c_mutex, usb_mutex, pc, job, ret, streaming>>
      /\ refused' \in {refused, refused \cup ({ep1out.tag} \cap Callers)}
  BY DEF Firmware
<1>2. HostOK' /\ JobsOK' /\ Unfinished'
  BY <1>1 DEF BaseInv, HostOK, JobsOK, Unfinished
<1> QED BY <1>1, <1>2, LoopStep DEF BaseInv

LEMMA BaseInit == Init => BaseInv
<1> SUFFICES ASSUME Init PROVE BaseInv
  OBVIOUS
<1> DEFINE j == [NoJob EXCEPT !.frame = InitFrame]
<1>1. NoJob \in Jobs /\ j \in Jobs /\ j.frame = InitFrame /\ j.stored = 0
  BY NewJobs
<1>2. 0 < Len(InitFrame) /\ Len(InitFrame) <= MAX_I2C_BUFFER_SIZE
  BY DriverFrames
<1> HIDE DEF j
<1>3. job = [t \in Threads |-> IF t = Attacher THEN j ELSE NoJob]
  BY DEF Init, j
<1>4. Len(NoJob.frame) <= MAX_I2C_BUFFER_SIZE
  BY NewJobs DEF MAX_I2C_BUFFER_SIZE
<1>5. JobsOK
  BY <1>1, <1>2, <1>3, <1>4 DEF JobsOK
<1>6. HostOK
  <2>1. 0 \in Byte
    BY DEF Byte
  <2> QED BY <2>1, ThreadFacts DEF Init, HostOK, Places
<1>7. Unfinished
  <2>1. j.stored < Len(j.frame)
    BY <1>1, <1>2, Zenon
  <2> QED BY <1>3, <2>1 DEF Init, Unfinished
<1> QED BY <1>5, <1>6, <1>7, LoopInit DEF Init, BaseInv

LEMMA BaseStep == BaseInv /\ [Next]_vars => BaseInv'
<1> SUFFICES ASSUME BaseInv, [Next]_vars PROVE BaseInv'
  OBVIOUS
<1>1. ASSUME NEW c \in Callers, XferCall(c) \/ XferLock(c) \/ XferInterrupted(c)
      PROVE  BaseInv'
  BY <1>1, ThreadFacts, XferCallEffect, XferLockEffect, GivesUpEffect DEF GivesUp
<1>2. CASE StreamCtrl
  BY <1>2, StreamCtrlEffect
<1>3. ASSUME NEW t \in Threads, UsbLock(t) \/ Advance(t) PROVE BaseInv'
  <2>1. CASE UsbLock(t)
    BY <2>1, UsbLockEffect
  <2>2. CASE Store(t)
    BY <2>2, StoreEffect
  <2>3. CASE BulkOut(t)
    BY <2>3, BulkOutEffect
  <2>4. CASE BulkIn(t)
    BY <2>4, BulkInEffect
  <2>5. CASE GivesUp(t)
    BY <2>5, GivesUpEffect
  <2>6. CASE t \in Callers /\ XferCompose(t)
    BY <2>6, XferComposeEffect
  <2> QED BY <1>3, <2>1, <2>2, <2>3, <2>4, <2>5, <2>6 DEF Advance, GivesUp
<1>4. CASE Firmware
  BY <1>4, FirmwareEffect
<1>5. CASE UNCHANGED vars
  <2>1. HostOK' /\ JobsOK' /\ Unfinished'
    BY <1>5 DEF vars, host, BaseInv, HostOK, JobsOK, Unfinished
  <2> QED BY <1>5, <2>1, LoopUnchanged DEF vars, BaseInv
<1> QED BY <1>1, <1>2, <1>3, <1>4, <1>5 DEF Next

(***************************************************************************)
(* Type correctness of the whole channel, streaming_ctrl in the middle of  *)
(* an I2C transfer included: no frame is longer than wbuf, and no packet   *)
(* takes a register or a counter of the firmware out of its range.         *)
(***************************************************************************)
THEOREM TypeCorrect == Spec => []TypeOK
<1>1. Spec => []BaseInv
  BY BaseInit, BaseStep, PTL DEF Spec
<1> QED BY <1>1, BaseTypes, PTL

-----------------------------------------------------------------------------
(* The frame in wbuf: the second part of the invariant. *)

Working == {"next", "store", "usb", "out", "in"}

\* The feed control's last frame.
StreamFrame == IF streaming THEN StartFrame ELSE StopFrame

\* Who owns i2c_mutex is at work on a message, the feed control only when no caller
\* is, and frontend_attach before everybody else.
Exclusive ==
  /\ \A c \in Callers : i2c_mutex = c <=> pc[c] \in Working
  /\ pc[Streamer] # "idle" => \A c \in Callers : pc[c] = "idle"
  /\ pc[Attacher] # "idle" <=> ret[Attacher] = "none"
  /\ ret[Attacher] # "ok" =>
       \A t \in Threads \ {Attacher} : pc[t] = "idle" /\ ret[t] = "none"
  /\ pc[Streamer] \in {"idle", "store", "out"}
  /\ pc[Attacher] \in {"idle", "store", "usb", "out"}

\* As much of the frame as has been stored is in wbuf.
StoredOK ==
  \A t \in Threads :
    /\ pc[t] = "store" => \A j \in 1..job[t].stored : wbuf[j] = job[t].frame[j]
    /\ pc[t] \in {"usb", "out"} => \A j \in 1..Len(job[t].frame) : wbuf[j] = job[t].frame[j]

\* What kind of frame it is.
Composed ==
  /\ \A c \in Callers : pc[c] \in {"store", "usb", "out", "in"} =>
       I2cShape(job[c].frame) /\ job[c].rlen = AskedFor(job[c].frame)
  /\ pc[Attacher] # "idle" => job[Attacher].frame = InitFrame /\ job[Attacher].rlen = 0
  /\ pc[Streamer] # "idle" => job[Streamer].frame = StreamFrame /\ job[Streamer].rlen = 0

ChannelInv == BaseInv /\ Exclusive /\ StoredOK /\ Composed

\* No two threads are at work at a time.
LEMMA Alone ==
  ASSUME BaseInv, Exclusive, NEW t \in Threads, pc[t] \in Working
  PROVE  /\ \A u \in Threads \ {t} : pc[u] \notin Working
         /\ t # Streamer => pc[Streamer] = "idle"
         /\ t # Attacher => pc[Attacher] = "idle" /\ ret[Attacher] = "ok"
         /\ t \notin Callers => \A c \in Callers : pc[c] = "idle"
<1>1. t \in Callers \/ t = Attacher \/ t = Streamer
  BY ThreadFacts
<1>2. pc[t] # "idle"
  BY DEF Working
<1>3. t # Attacher => pc[Attacher] = "idle" /\ ret[Attacher] = "ok"
  BY <1>2 DEF Exclusive
<1>4. t # Streamer => pc[Streamer] = "idle"
  BY <1>1, <1>2, <1>3, ThreadFacts DEF Exclusive
<1>5. t \notin Callers => \A c \in Callers : pc[c] = "idle"
  BY <1>1, <1>2, <1>3, ThreadFacts DEF Exclusive
<1>6. ASSUME NEW u \in Threads \ {t} PROVE pc[u] \notin Working
  <2>1. CASE u \in Callers /\ t \in Callers
    BY <2>1, <1>6 DEF Exclusive
  <2>2. CASE ~(u \in Callers /\ t \in Callers)
    BY <1>1, <1>3, <1>4, <1>5, <1>6, <2>2, ThreadFacts DEF Working
  <2> QED BY <2>1, <2>2
<1> QED BY <1>3, <1>4, <1>5, <1>6

LEMMA ChannelInit == Init => ChannelInv
<1> SUFFICES ASSUME Init PROVE ChannelInv
  OBVIOUS
<1> DEFINE j == [NoJob EXCEPT !.frame = InitFrame]
<1>1. j.frame = InitFrame /\ j.rlen = 0 /\ j.stored = 0
  BY NewJobs
<1> HIDE DEF j
<1>2. job = [t \in Threads |-> IF t = Attacher THEN j ELSE NoJob]
  BY DEF Init, j
<1>3. /\ pc = [t \in Threads |-> IF t = Attacher THEN "store" ELSE "idle"]
      /\ i2c_mutex = Nobody /\ ret = [t \in Threads |-> "none"]
  BY DEF Init
<1>4. Exclusive
  BY <1>3, ThreadFacts DEF Exclusive, Working
<1>5. StoredOK
  BY <1>1, <1>2, <1>3, ThreadFacts DEF StoredOK
<1>6. Composed
  BY <1>1, <1>2, <1>3, ThreadFacts DEF Composed
<1> QED BY <1>4, <1>5, <1>6, BaseInit DEF ChannelInv

LEMMA ChannelXferCall ==
  ASSUME OVERLAP = {}, ChannelInv, NEW c \in Callers, XferCall(c) PROVE ChannelInv'
<1>1. /\ BaseInv' /\ Begin(c) /\ pc[Streamer] = "idle" /\ pc[Attacher] = "idle"
      /\ ret[Attacher] # "error"
      /\ Moves(c, "lock") /\ Takes(c) /\ streaming' = streaming
  BY XferCallEffect DEF ChannelInv
<1>2. /\ pc[c] = "idle" /\ Ends(c, "none") /\ UNCHANGED <<wbuf, i2c_mutex>>
      /\ ret[Attacher] = "ok"
  BY <1>1, ThreadFacts, BeginEffect DEF ChannelInv, BaseInv, HostOK, Exclusive
<1>3. Exclusive'
  BY <1>1, <1>2, ThreadFacts DEF ChannelInv, Exclusive, Moves, Ends, Working
<1>4. StoredOK'
  BY <1>1, <1>2, ThreadFacts DEF ChannelInv, StoredOK, Moves, Takes
<1>5. Composed'
  BY <1>1, <1>2, ThreadFacts DEF ChannelInv, Composed, Moves, Takes, StreamFrame
<1> QED BY <1>1, <1>3, <1>4, <1>5 DEF ChannelInv

LEMMA ChannelStreamCtrl ==
  ASSUME OVERLAP = {}, ChannelInv, StreamCtrl PROVE ChannelInv'
<1>1. /\ BaseInv' /\ Begin(Streamer) /\ (\A c \in Callers : pc[c] = "idle")
      /\ ret[Attacher] = "ok"
      /\ Moves(Streamer, "store") /\ Takes(Streamer) /\ streaming' = ~streaming
      /\ job'[Streamer].frame = IF streaming THEN StopFrame ELSE StartFrame
      /\ job'[Streamer].rlen = 0 /\ job'[Streamer].stored = 0
  BY StreamCtrlEffect DEF ChannelInv
<1>2. /\ pc[Streamer] = "idle" /\ Ends(Streamer, "none")
      /\ UNCHANGED <<wbuf, i2c_mutex>>
  BY <1>1, ThreadFacts, BeginEffect DEF ChannelInv
<1>3. Exclusive'
  BY <1>1, <1>2, ThreadFacts DEF ChannelInv, Exclusive, Moves, Ends, Working
<1>4. StoredOK'
  BY <1>1, <1>2, ThreadFacts DEF ChannelInv, StoredOK, Moves, Takes
<1>5. Composed'
  <2>1. job'[Streamer].frame = StreamFrame'
    BY <1>1 DEF StreamFrame
  <2> QED BY <1>1, <1>2, <2>1, ThreadFacts DEF ChannelInv, Composed, Moves, Takes
<1> QED BY <1>1, <1>3, <1>4, <1>5 DEF ChannelInv

LEMMA ChannelXferLock ==
  ASSUME ChannelInv, NEW c \in Callers, XferLock(c) PROVE ChannelInv'
<1>1. /\ BaseInv' /\ pc[c] = "lock" /\ i2c_mutex = Nobody /\ i2c_mutex' = c
      /\ Moves(c, "next")
      /\ UNCHANGED <<wbuf, job, ret, streaming>>
  BY XferLockEffect DEF ChannelInv
<1>2. Exclusive'
  BY <1>1, ThreadFacts DEF ChannelInv, Exclusive, Moves, Working
<1>3. StoredOK' /\ Composed'
  BY <1>1, ThreadFacts DEF ChannelInv, StoredOK, Composed, Moves, StreamFrame
<1> QED BY <1>1, <1>2, <1>3 DEF ChannelInv

LEMMA ChannelXferCompose ==
  ASSUME ChannelInv, NEW c \in Callers, XferCompose(c) PROVE ChannelInv'
<1>1. /\ BaseInv' /\ pc[c] = "next" /\ Moves(c, "store") /\ Takes(c)
      /\ I2cShape(job'[c].frame) /\ job'[c].rlen = AskedFor(job'[c].frame)
      /\ job'[c].stored = 0
      /\ UNCHANGED <<wbuf, i2c_mutex, ret, streaming>>
  BY XferComposeEffect DEF ChannelInv
<1>2. Exclusive'
  BY <1>1, ThreadFacts DEF ChannelInv, Exclusive, Moves, Working
<1>3. StoredOK'
  BY <1>1, ThreadFacts DEF ChannelInv, StoredOK, Moves, Takes
<1>4. Composed'
  BY <1>1, ThreadFacts DEF ChannelInv, Composed, Moves, Takes, StreamFrame
<1> QED BY <1>1, <1>2, <1>3, <1>4 DEF ChannelInv

LEMMA ChannelUsbLock ==
  ASSUME ChannelInv, NEW t \in Threads, UsbLock(t) PROVE ChannelInv'
<1>1. /\ BaseInv' /\ pc[t] = "usb" /\ Moves(t, "out")
      /\ UNCHANGED <<wbuf, i2c_mutex, job, ret, streaming>>
  BY UsbLockEffect DEF ChannelInv
<1>2. t # Streamer
  BY <1>1 DEF ChannelInv, Exclusive
<1>3. Exclusive'
  BY <1>1, <1>2, ThreadFacts DEF ChannelInv, Exclusive, Moves, Working
<1>4. StoredOK' /\ Composed'
  BY <1>1, ThreadFacts DEF ChannelInv, StoredOK, Composed, Moves, StreamFrame
<1> QED BY <1>1, <1>3, <1>4 DEF ChannelInv

LEMMA ChannelGivesUp ==
  ASSUME ChannelInv, NEW t \in Threads, GivesUp(t) PROVE ChannelInv'
<1>1. /\ BaseInv' /\ pc[t] # "idle" /\ Moves(t, "idle") /\ Takes(t)
      /\ Ends(t, "error") \/ (t \in Callers /\ Ends(t, "ok"))
      /\ i2c_mutex' = IF i2c_mutex = t THEN Nobody ELSE i2c_mutex
      /\ UNCHANGED <<wbuf, streaming>>
  BY GivesUpEffect DEF ChannelInv
<1>2. Exclusive'
  BY <1>1, ThreadFacts DEF ChannelInv, Exclusive, Moves, Ends, Working
<1>3. StoredOK'
  BY <1>1, ThreadFacts DEF ChannelInv, StoredOK, Moves, Takes
<1>4. Composed'
  BY <1>1, ThreadFacts DEF ChannelInv, Composed, Moves, Takes, StreamFrame
<1> QED BY <1>1, <1>2, <1>3, <1>4 DEF ChannelInv

LEMMA ChannelBulkOut ==
  ASSUME ChannelInv, NEW t \in Threads, BulkOut(t) PROVE ChannelInv'
<1>1. /\ BaseInv' /\ pc[t] = "out"
      /\ \/ /\ job[t].rlen > 0 /\ Moves(t, "in") /\ UNCHANGED <<i2c_mutex, job, ret>>
         \/ /\ job[t].rlen = 0 /\ t \in Callers /\ Moves(t, "next") /\ Takes(t)
            /\ UNCHANGED <<i2c_mutex, ret>>
         \/ /\ job[t].rlen = 0 /\ t \notin Callers /\ Moves(t, "idle") /\ Takes(t)
            /\ Ends(t, "ok")
            /\ i2c_mutex' = IF i2c_mutex = t THEN Nobody ELSE i2c_mutex
      /\ UNCHANGED <<wbuf, streaming>>
  BY BulkOutEffect DEF ChannelInv
<1>2. CASE job[t].rlen > 0
  <2>1. t \in Callers
    BY <1>1, <1>2, ThreadFacts DEF ChannelInv, Composed
  <2>2. Moves(t, "in") /\ UNCHANGED <<i2c_mutex, job, ret>>
    BY <1>1, <1>2
  <2>3. Exclusive'
    BY <1>1, <2>1, <2>2, ThreadFacts DEF ChannelInv, Exclusive, Moves, Working
  <2>4. StoredOK' /\ Composed'
    BY <1>1, <2>1, <2>2, ThreadFacts DEF ChannelInv, StoredOK, Composed, Moves, StreamFrame
  <2> QED BY <1>1, <2>3, <2>4 DEF ChannelInv
<1>3. CASE t \in Callers /\ Moves(t, "next") /\ Takes(t) /\ UNCHANGED <<i2c_mutex, ret>>
  <2>1. Exclusive'
    BY <1>1, <1>3, ThreadFacts DEF ChannelInv, Exclusive, Moves, Working
  <2>2. StoredOK' /\ Composed'
    BY <1>1, <1>3, ThreadFacts
    DEF ChannelInv, StoredOK, Composed, Moves, Takes, StreamFrame
  <2> QED BY <1>1, <2>1, <2>2 DEF ChannelInv
<1>4. CASE /\ t \notin Callers /\ Moves(t, "idle") /\ Takes(t) /\ Ends(t, "ok")
           /\ i2c_mutex' = IF i2c_mutex = t THEN Nobody ELSE i2c_mutex
  <2>1. Exclusive'
    BY <1>1, <1>4, ThreadFacts DEF ChannelInv, Exclusive, Moves, Ends, Working
  <2>2. StoredOK' /\ Composed'
    BY <1>1, <1>4, ThreadFacts
    DEF ChannelInv, StoredOK, Composed, Moves, Takes, StreamFrame
  <2> QED BY <1>1, <2>1, <2>2 DEF ChannelInv
<1> QED BY <1>1, <1>2, <1>3, <1>4

LEMMA ChannelBulkIn ==
  ASSUME ChannelInv, NEW t \in Threads, BulkIn(t) PROVE ChannelInv'
<1>1. /\ BaseInv' /\ pc[t] = "in" /\ Takes(t)
      /\ \/ t \in Callers /\ Moves(t, "next") /\ UNCHANGED <<i2c_mutex, ret>>
         \/ t \notin Callers
      /\ UNCHANGED <<wbuf, streaming>>
  BY BulkInEffect DEF ChannelInv
<1>2. t \in Callers
  BY <1>1, ThreadFacts DEF ChannelInv, Exclusive
<1>3. Exclusive'
  BY <1>1, <1>2, ThreadFacts DEF ChannelInv, Exclusive, Moves, Working
<1>4. StoredOK' /\ Composed'
  BY <1>1, <1>2, ThreadFacts DEF ChannelInv, StoredOK, Composed, Moves, Takes, StreamFrame
<1> QED BY <1>1, <1>3, <1>4 DEF ChannelInv

\* The only step that writes to wbuf: by then nobody else has anything there.
LEMMA ChannelStore ==
  ASSUME ChannelInv, NEW t \in Threads, Store(t) PROVE ChannelInv'
<1> DEFINE k == job[t].stored
           len == Len(job[t].frame)
           n == IF k < 3 THEN k + 1 ELSE len
           place == IF n < len THEN "store" ELSE IF t = Streamer THEN "out" ELSE "usb"
<1>1. /\ BaseInv' /\ pc[t] = "store" /\ Takes(t) /\ Moves(t, place)
      /\ job'[t].frame = job[t].frame /\ job'[t].rlen = job[t].rlen /\ job'[t].stored = n
      /\ \A j \in 1..MAX_I2C_BUFFER_SIZE :
           wbuf'[j] = IF j \in (k + 1)..n THEN job[t].frame[j] ELSE wbuf[j]
      /\ UNCHANGED <<i2c_mutex, ret, streaming>>
  BY StoreEffect DEF ChannelInv
<1>2. k \in Nat /\ len \in Nat /\ k < len /\ len <= MAX_I2C_BUFFER_SIZE
  BY <1>1 DEF ChannelInv, BaseInv, JobsOK, Jobs, Unfinished
<1>3. \A u \in Threads \ {t} : pc[u] \notin Working
  BY <1>1, Alone DEF ChannelInv, Working
<1>4. \A j \in 1..k : wbuf[j] = job[t].frame[j]
  BY <1>1 DEF ChannelInv, StoredOK
<1>5. n \in Nat /\ n <= len
  BY <1>2
<1>6. /\ place \in {"store", "usb", "out"}
      /\ (place = "store" <=> n < len)
      /\ (t = Streamer => place \in {"store", "out"})
      /\ (t # Streamer => place \in {"store", "usb"})
  BY <1>5
<1>7. MAX_I2C_BUFFER_SIZE \in Nat
  BY DEF MAX_I2C_BUFFER_SIZE
<1> HIDE DEF k, len, place
<1>8. \A j \in 1..n : wbuf'[j] = job[t].frame[j]
  BY <1>1, <1>2, <1>4, <1>5, <1>7
<1> HIDE DEF n
<1>9. Exclusive'
  <2>1. /\ pc[t] \in Working /\ pc'[t] \in Working /\ pc'[t] # "idle" /\ pc'[t] # "in"
        /\ (t = Streamer => pc'[t] \in {"store", "out"})
        /\ (t # Streamer => pc'[t] \in {"store", "usb"})
        /\ \A u \in Threads \ {t} : pc'[u] = pc[u]
    BY <1>1, <1>6 DEF Moves, Working
  <2>2. \A c \in Callers : i2c_mutex' = c <=> pc'[c] \in Working
    BY <1>1, <2>1, ThreadFacts DEF ChannelInv, Exclusive
  <2>3. pc'[Streamer] # "idle" => \A c \in Callers : pc'[c] = "idle"
    BY <1>1, <2>1, ThreadFacts DEF ChannelInv, Exclusive
  <2>4. /\ pc'[Attacher] # "idle" <=> ret'[Attacher] = "none"
        /\ ret'[Attacher] # "ok" =>
             \A u \in Threads \ {Attacher} : pc'[u] = "idle" /\ ret'[u] = "none"
    BY <1>1, <2>1, ThreadFacts DEF ChannelInv, Exclusive
  <2>5. pc'[Streamer] \in {"idle", "store", "out"}
    BY <2>1, ThreadFacts DEF ChannelInv, Exclusive
  <2>6. pc'[Attacher] \in {"idle", "store", "usb", "out"}
    BY <2>1, ThreadFacts DEF ChannelInv, Exclusive
  <2> QED BY <2>2, <2>3, <2>4, <2>5, <2>6 DEF Exclusive
<1>10. StoredOK'
  <2>1. ASSUME NEW u \in Threads \ {t}
        PROVE  pc'[u] \notin {"store", "usb", "out"}
    BY <1>1, <1>3 DEF Moves, Working
  <2>2. place = "store" => \A j \in 1..job'[t].stored : wbuf'[j] = job'[t].frame[j]
    BY <1>1, <1>8
  <2>3. place # "store" => \A j \in 1..Len(job'[t].frame) : wbuf'[j] = job'[t].frame[j]
    <3>1. place # "store" => n = len
      BY <1>2, <1>5, <1>6
    <3> QED BY <1>1, <1>8, <3>1 DEF len
  <2> QED BY <1>1, <2>1, <2>2, <2>3 DEF StoredOK, Moves
<1>11. Composed'
  BY <1>1, <1>6, ThreadFacts DEF ChannelInv, Composed, Moves, Takes, StreamFrame
<1> QED BY <1>1, <1>9, <1>10, <1>11 DEF ChannelInv

LEMMA ChannelFirmware ==
  ASSUME ChannelInv, Firmware PROVE ChannelInv'
  BY FirmwareEffect DEF ChannelInv, Exclusive, StoredOK, Composed, StreamFrame

LEMMA ChannelStep ==
  OVERLAP = {} => (ChannelInv /\ [Next]_vars => ChannelInv')
<1> SUFFICES ASSUME OVERLAP = {}, ChannelInv, [Next]_vars PROVE ChannelInv'
  OBVIOUS
<1>1. ASSUME NEW c \in Callers, XferCall(c) \/ XferLock(c) \/ XferInterrupted(c)
      PROVE  ChannelInv'
  BY <1>1, ThreadFacts, ChannelXferCall, ChannelXferLock, ChannelGivesUp DEF GivesUp
<1>2. CASE StreamCtrl
  BY <1>2, ChannelStreamCtrl
<1>3. ASSUME NEW t \in Threads, UsbLock(t) \/ Advance(t) PROVE ChannelInv'
  <2>1. CASE UsbLock(t)
    BY <2>1, ChannelUsbLock
  <2>2. CASE Store(t)
    BY <2>2, ChannelStore
  <2>3. CASE BulkOut(t)
    BY <2>3, ChannelBulkOut
  <2>4. CASE BulkIn(t)
    BY <2>4, ChannelBulkIn
  <2>5. CASE GivesUp(t)
    BY <2>5, ChannelGivesUp
  <2>6. CASE t \in Callers /\ XferCompose(t)
    BY <2>6, ChannelXferCompose
  <2> QED BY <1>3, <2>1, <2>2, <2>3, <2>4, <2>5, <2>6 DEF Advance, GivesUp
<1>4. CASE Firmware
  BY <1>4, ChannelFirmware
<1>5. CASE UNCHANGED vars
  <2>1. BaseInv'
    BY <1>5, BaseStep DEF ChannelInv
  <2> QED BY <1>5, <2>1 DEF vars, host, ChannelInv, Exclusive, StoredOK, Composed, StreamFrame
<1> QED BY <1>1, <1>2, <1>3, <1>4, <1>5 DEF Next

LEMMA ChannelInvariance == ASSUME OVERLAP = {} PROVE Spec => []ChannelInv
<1>1. ChannelInv /\ [Next]_vars => ChannelInv'
  BY ChannelStep
<1> QED BY <1>1, ChannelInit, PTL DEF Spec

\* A packet is the frame of the job.
LEMMA WholeFrame ==
  ASSUME ChannelInv, NEW t \in Threads, BulkOut(t)
  PROVE  ep1out'.bytes = job[t].frame
<1>1. pc[t] = "out" /\ ep1out'.bytes = SubSeq(wbuf, 1, Len(job[t].frame))
  BY BulkOutEffect DEF ChannelInv
<1>2. \A j \in 1..Len(job[t].frame) : wbuf[j] = job[t].frame[j]
  BY <1>1 DEF ChannelInv, StoredOK
<1>3. /\ wbuf \in [1..MAX_I2C_BUFFER_SIZE -> Byte]
      /\ job[t].frame \in Seq(Byte) /\ Len(job[t].frame) <= MAX_I2C_BUFFER_SIZE
  BY DEF ChannelInv, BaseInv, HostOK, JobsOK, Jobs
<1> QED BY <1>1, <1>2, <1>3, Prefix

(***************************************************************************)
(* Every frame arrives at the firmware as it was composed, provided that   *)
(* streaming_ctrl, which takes no mutex for wbuf, keeps clear of the I2C   *)
(* transfers: d->i2c_mutex is enough between any number of callers.        *)
(***************************************************************************)
THEOREM FramesArriveWhole == ASSUME OVERLAP = {} PROVE Spec => FrameIntegrity
<1>1. ChannelInv /\ [Next]_vars =>
        [\A t \in Threads : BulkOut(t) => ep1out'.bytes = job[t].frame]_vars
  BY WholeFrame
<1> QED BY <1>1, ChannelInvariance, PTL DEF Spec, FrameIntegrity

-----------------------------------------------------------------------------
(* How the firmware walks through the driver's frames. *)

\* No frame is taken for another.
LEMMA FramesDiffer ==
  /\ \A f \in {InitFrame, StartFrame, StopFrame} : ~I2cShape(f)
  /\ InitFrame # StartFrame /\ InitFrame # StopFrame /\ StartFrame # StopFrame
  /\ ~I2cShape(<<>>) /\ \A f \in {InitFrame, StartFrame, StopFrame} : f # <<>>
<1>1. InitFrame[1] = \h54 /\ StartFrame[1] = \h50 /\ StopFrame[1] = \h51
  BY DEF InitFrame, StartFrame, StopFrame, CMD_PORT_CFG, CMD_EP6IN_START, CMD_EP6IN_STOP
<1>2. \A f : I2cShape(f) => f[1] = \h61
  BY DEF I2cShape, CMD_I2C_WRITE
<1>3. \A f : I2cShape(f) => f # <<>>
  <2>1. Len(<<>>) = 0
    OBVIOUS
  <2> QED BY <2>1 DEF I2cShape
<1>4. \A f \in {InitFrame, StartFrame, StopFrame} : f # <<>>
  <2>1. \A f \in {InitFrame, StartFrame, StopFrame} : 0 < Len(f)
    BY DriverFrames
  <2>2. Len(<<>>) = 0
    OBVIOUS
  <2> QED BY <2>1, <2>2
<1> QED BY <1>1, <1>2, <1>3, <1>4

\* The argument counts of the commands the driver uses.
LEMMA ArgCounts ==
  /\ ArgCount(CMD_PORT_CFG) = 2 /\ ArgCount(CMD_I2C_WRITE) = 2 /\ ArgCount(CMD_I2C_READ) = 2
  /\ ArgCount(CMD_PORT_WRITE) = 1 /\ ArgCount(CMD_IFCONFIG) = 1
  /\ ArgCount(CMD_MODE_IDLE) = 0
  /\ ArgCount(CMD_EP6IN_START) = 0 /\ ArgCount(CMD_EP6IN_STOP) = 0
  BY DEF ArgCount, WithTwoArguments, WithOneArgument, CMD_PORT_CFG, CMD_I2C_WRITE,
         CMD_I2C_READ, CMD_PORT_WRITE, CMD_IFCONFIG, CMD_MODE_IDLE, CMD_EP6IN_START,
         CMD_EP6IN_STOP, CMD_REG_WRITE, CMD_REG_READ

\* What Consume does to byte-sized counters.
LEMMA ConsumeFacts ==
  ASSUME NEW n, NEW m, NEW ok, Consume(n, m, ok)
  PROVE  /\ ptr' = ptr + 1 + n /\ cmd_cnt' = (cmd_cnt - 1 - n) % 256
         /\ ret_cnt' = (ret_cnt + m) % 256
  BY DEF Consume

LEMMA InitFrameStep ==
  ASSUME LoopInv, Execute, ep1out.bytes = InitFrame,
         ptr \in {1, 4, 5, 7}, cmd_cnt = 7 - ptr, ret_cnt = 0
  PROVE  /\ ptr' \in {1, 4, 5, 7} /\ cmd_cnt' = 7 - ptr' /\ ret_cnt' = 0
         /\ ptr' = 7 => port'.val_ifconfig = \he3
<1>1. TypeOKFx2 /\ port \in Ports
  BY DEF LoopInv, TypeOKFx2
<1>2. CASE ptr = 1
  <2>1. Arg(0) = CMD_PORT_CFG /\ cmd_cnt = 6
    BY <1>2 DEF Arg, InitFrame
  <2>2. PortCfg
    BY <1>1, <2>1, ArgCounts, Dispatch
  <2>3. ptr' = 1 + 1 + 2 /\ cmd_cnt' = (6 - 1 - 2) % 256 /\ ret_cnt' = (0 + 0) % 256
    <3>1. Consume(2, 0, TRUE)
      BY <2>2 DEF PortCfg
    <3> QED BY <1>2, <2>1, <3>1 DEF Consume
  <2> QED BY <2>3
<1>3. CASE ptr = 4
  <2>1. Arg(0) = CMD_MODE_IDLE /\ cmd_cnt = 3
    BY <1>3 DEF Arg, InitFrame
  <2>2. ModeIdle
    BY <1>1, <2>1, ArgCounts, Dispatch
  <2>3. ptr' = 4 + 1 + 0 /\ cmd_cnt' = (3 - 1 - 0) % 256 /\ ret_cnt' = (0 + 0) % 256
    BY <1>3, <2>1, <2>2, ConsumeFacts, ZenonT(40) DEF ModeIdle
  <2> QED BY <2>3
<1>4. CASE ptr = 5
  <2>1. Arg(0) = CMD_IFCONFIG /\ Arg(1) = \he3 /\ cmd_cnt = 2
    BY <1>4 DEF Arg, InitFrame
  <2>2. IfConfig
    BY <1>1, <2>1, ArgCounts, Dispatch
  <2>3. ptr' = 5 + 1 + 1 /\ cmd_cnt' = (2 - 1 - 1) % 256 /\ ret_cnt' = (0 + 0) % 256
    BY <1>4, <2>1, <2>2, ConsumeFacts, ZenonT(40) DEF IfConfig
  <2>4. port'.val_ifconfig = \he3
    BY <1>1, <2>1, <2>2 DEF IfConfig, Ports
  <2> QED BY <2>3, <2>4
<1>5. ptr # 7
  BY ExecuteBusy
<1> QED BY <1>2, <1>3, <1>4, <1>5

LEMMA StartFrameStep ==
  ASSUME LoopInv, ModePins, Execute, ep1out.bytes = StartFrame,
         ptr \in {1, 2, 4}, cmd_cnt = 4 - ptr, ret_cnt = 0
  PROVE  /\ ptr' \in {2, 4} /\ cmd_cnt' = 4 - ptr' /\ ret_cnt' = 0
         /\ port'.val_ifconfig = port.val_ifconfig
         /\ ptr' = 2 => /\ fifo'[6] = "auto" /\ port'.ifconfig = port.val_ifconfig
                        /\ MODE_START \subseteq port'.iod
         /\ ptr' = 4 => /\ ptr = 2 /\ fifo' = fifo /\ port'.ifconfig = port.ifconfig
                        /\ (MODE_START \subseteq port.iod => MODE_START \subseteq port'.iod)
                        /\ Bits(FX2_PIO_START) \subseteq port'.iod
<1>1. TypeOKFx2 /\ port \in Ports /\ fifo \in [FifoEps -> {"manual", "auto"}]
  BY DEF LoopInv, TypeOKFx2
<1>2. CASE ptr = 1
  <2>1. Arg(0) = CMD_EP6IN_START /\ cmd_cnt = 3
    BY <1>2 DEF Arg, StartFrame
  <2>2. FifoStart(6)
    BY <1>1, <2>1, ArgCounts, Dispatch
  <2>3. ptr' = 1 + 1 + 0 /\ cmd_cnt' = (3 - 1 - 0) % 256 /\ ret_cnt' = (0 + 0) % 256
    BY <1>2, <2>1, <2>2, ConsumeFacts, ZenonT(40) DEF FifoStart
  <2>4. /\ port'.ifconfig = port.val_ifconfig /\ port'.val_ifconfig = port.val_ifconfig
        /\ port'.iod = MODE_START \cup (ReadIOD \ ModeBits)
    BY <1>1, <2>2 DEF FifoStart, Ports
  <2>5. fifo'[6] = "auto"
    BY <1>1, <2>2 DEF FifoStart, FifoEps
  <2> QED BY <2>3, <2>4, <2>5
<1>3. CASE ptr = 2
  <2>1. Arg(0) = CMD_PORT_WRITE /\ Arg(1) = FX2_PIO_START /\ cmd_cnt = 2
    BY <1>3 DEF Arg, StartFrame
  <2>2. PortWrite
    BY <1>1, <2>1, ArgCounts, Dispatch
  <2>3. ptr' = 2 + 1 + 1 /\ cmd_cnt' = (2 - 1 - 1) % 256 /\ ret_cnt' = (0 + 0) % 256
    <3>1. Consume(1, 0, TRUE)
      BY <2>2 DEF PortWrite
    <3> QED BY <1>3, <2>1, <3>1 DEF Consume
  <2>4. /\ port'.ifconfig = port.ifconfig /\ port'.val_ifconfig = port.val_ifconfig
        /\ port'.iod = (ReadIOD \ port.addr_mask) \cup Bits(FX2_PIO_START)
        /\ fifo' = fifo
    BY <1>1, <2>1, <2>2 DEF PortWrite, Ports
  <2>5. MODE_START \subseteq port.iod => MODE_START \subseteq port'.iod
    BY <2>4 DEF ModePins, MODE_START, ModeBits, ReadIOD
  <2> QED BY <1>3, <2>3, <2>4, <2>5
<1>4. ptr # 4
  BY ExecuteBusy
<1> QED BY <1>2, <1>3, <1>4

LEMMA StopFrameStep ==
  ASSUME LoopInv, Execute, ep1out.bytes = StopFrame,
         ptr \in {1, 2, 3}, cmd_cnt = 3 - ptr, ret_cnt = 0
  PROVE  /\ ptr' \in {2, 3} /\ cmd_cnt' = 3 - ptr' /\ ret_cnt' = 0
         /\ port'.val_ifconfig = port.val_ifconfig
         /\ ptr' = 2 => fifo'[6] = "manual"
         /\ ptr' = 3 => ptr = 2 /\ fifo' = fifo /\ port'.iod \cap ModeBits = MODE_IDLE
<1>1. TypeOKFx2 /\ port \in Ports /\ fifo \in [FifoEps -> {"manual", "auto"}]
  BY DEF LoopInv, TypeOKFx2
<1>2. CASE ptr = 1
  <2>1. Arg(0) = CMD_EP6IN_STOP /\ cmd_cnt = 2
    BY <1>2 DEF Arg, StopFrame
  <2>2. FifoStop(6)
    BY <1>1, <2>1, ArgCounts, Dispatch
  <2>3. ptr' = 1 + 1 + 0 /\ cmd_cnt' = (2 - 1 - 0) % 256 /\ ret_cnt' = (0 + 0) % 256
    BY <1>2, <2>1, <2>2, ConsumeFacts, ZenonT(40) DEF FifoStop
  <2>4. fifo'[6] = "manual" /\ port' = port
    BY <1>1, <2>2 DEF FifoStop, FifoEps
  <2> QED BY <2>3, <2>4
<1>3. CASE ptr = 2
  <2>1. Arg(0) = CMD_MODE_IDLE /\ cmd_cnt = 1
    BY <1>3 DEF Arg, StopFrame
  <2>2. ModeIdle
    BY <1>1, <2>1, ArgCounts, Dispatch
  <2>3. ptr' = 2 + 1 + 0 /\ cmd_cnt' = (1 - 1 - 0) % 256 /\ ret_cnt' = (0 + 0) % 256
    BY <1>3, <2>1, <2>2, ConsumeFacts, ZenonT(40) DEF ModeIdle
  <2>4. /\ port'.val_ifconfig = port.val_ifconfig
        /\ port'.iod = MODE_IDLE \cup (ReadIOD \ ModeBits) /\ fifo' = fifo
    BY <1>1, <2>2 DEF ModeIdle, Ports
  <2>5. port'.iod \cap ModeBits = MODE_IDLE
    BY <2>4 DEF MODE_IDLE
  <2> QED BY <1>3, <2>3, <2>4, <2>5
<1>4. ptr # 3
  BY ExecuteBusy
<1> QED BY <1>2, <1>3, <1>4

\* Where the interpreter stands in a frame of i2c_xfer with l bytes, w of them
\* written, that asks for r.
WalkI2c(l, w, r) ==
  \/ ptr \in {1, 4 + w} /\ cmd_cnt = l + 1 - ptr /\ ret_cnt = 0
  \/ cmd_cnt = 0 /\ ret_cnt \in {0, r} /\ ret_cnt <= I2C_BUF_LEN

\* The lengths and commands in such a frame.
LEMMA ShapeFacts ==
  ASSUME NEW f \in Seq(Byte), I2cShape(f), Len(f) <= EP1_SIZE
  PROVE  /\ Len(f) \in 4..64 /\ f[3] \in 1..255
         /\ DOMAIN f = 1..Len(f) /\ f[1] = CMD_I2C_WRITE
         /\ \/ Len(f) = 3 + f[3] /\ AskedFor(f) = 0
            \/ /\ Len(f) = 6 + f[3] /\ f[4 + f[3]] = CMD_I2C_READ
               /\ AskedFor(f) = f[6 + f[3]]
<1>1. Len(f) \in Nat /\ DOMAIN f = 1..Len(f)
  OBVIOUS
<1>2. Len(f) \in 4..64
  <2>1. \A l \in Nat : l >= 4 /\ l <= EP1_SIZE => l \in 4..64
    BY DEF EP1_SIZE
  <2>2. Len(f) >= 4
    BY DEF I2cShape
  <2> QED BY <1>1, <2>1, <2>2, Zenon
<1>3. f[3] \in Byte
  BY <1>1, <1>2
<1>4. f[3] \in 1..255
  BY <1>3 DEF I2cShape, Byte
<1>5. ASSUME NEW w \in 1..255, w = f[3]
      PROVE  \/ Len(f) = 3 + w /\ AskedFor(f) = 0
             \/ Len(f) = 6 + w /\ f[4 + w] = CMD_I2C_READ /\ AskedFor(f) = f[6 + w]
  <2>1. CASE Len(f) = 3 + w
    BY <1>5, <2>1 DEF AskedFor
  <2>2. CASE Len(f) = 6 + w /\ f[4 + w] = CMD_I2C_READ
    <3>1. 6 + w # 3 + w
      OBVIOUS
    <3> QED BY <1>5, <2>2, <3>1 DEF AskedFor
  <2> QED BY <1>5, <2>1, <2>2 DEF I2cShape
<1> QED BY <1>1, <1>2, <1>4, <1>5 DEF I2cShape

LEMMA I2cFrameStep ==
  ASSUME LoopInv, Execute, I2cShape(ep1out.bytes),
         WalkI2c(Len(ep1out.bytes), ep1out.bytes[3], AskedFor(ep1out.bytes))
  PROVE  /\ WalkI2c(Len(ep1out.bytes), ep1out.bytes[3], AskedFor(ep1out.bytes))'
         /\ UNCHANGED <<port, fifo>>
<1> DEFINE f == ep1out.bytes
           l == Len(f)
           w == f[3]
           r == AskedFor(f)
<1>1. /\ TypeOKFx2 /\ f \in Seq(Byte) /\ Len(f) <= EP1_SIZE /\ cmd_cnt > 0
      /\ ep1out' = ep1out
  BY ExecuteBusy, CommandsInFrame DEF LoopInv, TypeOKFx2
<1>2. /\ l \in 4..64 /\ w \in 1..255 /\ DOMAIN f = 1..l /\ f[1] = CMD_I2C_WRITE /\ f[3] = w
      /\ \/ l = 3 + w /\ r = 0
         \/ l = 6 + w /\ f[4 + w] = CMD_I2C_READ /\ r = f[6 + w]
  BY <1>1, ShapeFacts
<1>4. /\ ptr \in {1, 4 + w} /\ cmd_cnt = l + 1 - ptr /\ ret_cnt = 0
  BY <1>1 DEF WalkI2c
<1>6. f' = f /\ l' = l /\ w' = w /\ r' = r
  BY <1>1 DEF AskedFor
<1> HIDE DEF f, l, w, r
<1>7. CASE ptr = 1
  <2>1. Arg(0) = CMD_I2C_WRITE /\ Arg(2) = w /\ cmd_cnt = l
    BY <1>2, <1>4, <1>7 DEF Arg, f
  <2>2. I2cWrite
    <3>1. cmd_cnt - 1 >= 2
      BY <1>2, <2>1
    <3> QED BY <1>1, <2>1, <3>1, ArgCounts, Dispatch
  <2>3. GiveUp(2) \/ \E ok \in I2cResults : Consume(2 + w, 0, ok)
    BY <2>1, <2>2 DEF I2cWrite
  <2>4. UNCHANGED <<port, fifo>>
    BY <2>2 DEF I2cWrite
  <2>5. CASE GiveUp(2)
    <3>1. cmd_cnt' = 0 /\ ret_cnt' = 0
      BY <1>4, <2>5 DEF GiveUp
    <3>2. WalkI2c(l, w, r)'
      BY <3>1 DEF WalkI2c, I2C_BUF_LEN
    <3> QED BY <2>4, <3>2 DEF f, l, w, r
  <2>6. CASE \E ok \in I2cResults : Consume(2 + w, 0, ok)
    <3>1. /\ ptr' = 1 + 1 + (2 + w) /\ cmd_cnt' = (l - 1 - (2 + w)) % 256
          /\ ret_cnt' = (0 + 0) % 256
      BY <1>4, <1>7, <2>1, <2>6, ConsumeFacts
    <3>2. ptr' = 4 + w /\ cmd_cnt' = l + 1 - (4 + w) /\ ret_cnt' = 0
      BY <1>2, <3>1
    <3>3. WalkI2c(l, w, r)'
      BY <1>6, <3>2 DEF WalkI2c
    <3> QED BY <2>4, <3>3 DEF f, l, w, r
  <2> QED BY <2>3, <2>5, <2>6
<1>8. CASE ptr = 4 + w
  <2>1. l = 6 + w /\ cmd_cnt = 3
    <3>1. \A x \in 4..64, y \in 1..255 :
            /\ x = 3 + y => ~(x + 1 - (4 + y) > 0)
            /\ x = 6 + y => x + 1 - (4 + y) = 3
      OBVIOUS
    <3>2. cmd_cnt = l + 1 - (4 + w) /\ l + 1 - (4 + w) > 0
      <4>1. cmd_cnt > 0
        BY <1>1
      <4>2. cmd_cnt = l + 1 - (4 + w)
        BY <1>4, <1>8, Zenon
      <4> QED BY <4>1, <4>2, Zenon
    <3>3. l = 6 + w
      BY <1>2, <3>1, <3>2, Zenon
    <3> QED BY <1>2, <3>1, <3>2, <3>3, Zenon
  <2>2. Arg(0) = CMD_I2C_READ /\ Arg(2) = r
    <3>1. (4 + w) + 0 \in 1..l /\ (4 + w) + 2 \in 1..l /\ (4 + w) + 0 = 4 + w
          /\ (4 + w) + 2 = 6 + w
      <4>1. \A x \in 1..255 : /\ (4 + x) + 0 \in 1..(6 + x) /\ (4 + x) + 2 \in 1..(6 + x)
                              /\ (4 + x) + 0 = 4 + x /\ (4 + x) + 2 = 6 + x
        OBVIOUS
      <4> QED BY <1>2, <2>1, <4>1, Zenon
    <3>2. f[4 + w] = CMD_I2C_READ /\ r = f[6 + w]
      BY <1>2, <2>1
    <3> QED BY <1>2, <1>8, <3>1, <3>2 DEF Arg, f
  <2>3. I2cRead
    <3>1. cmd_cnt - 1 >= 2
      BY <2>1
    <3> QED BY <1>1, <2>2, <3>1, ArgCounts, Dispatch
  <2>4. \/ GiveUp(2)
        \/ r <= I2C_BUF_LEN /\ \E ok \in I2cResults : Consume(2, IF ok THEN r ELSE 0, ok)
    BY <2>2, <2>3 DEF I2cRead
  <2>5. UNCHANGED <<port, fifo>>
    BY <2>3 DEF I2cRead
  <2>6. CASE GiveUp(2)
    <3>1. cmd_cnt' = 0 /\ ret_cnt' = 0
      BY <1>4, <2>6 DEF GiveUp
    <3>2. WalkI2c(l, w, r)'
      BY <3>1 DEF WalkI2c, I2C_BUF_LEN
    <3> QED BY <2>5, <3>2 DEF f, l, w, r
  <2>7. ASSUME r <= I2C_BUF_LEN, NEW ok \in I2cResults, Consume(2, IF ok THEN r ELSE 0, ok)
        PROVE  WalkI2c(l, w, r)'
    <3>1. r \in 0..255
      BY <1>1, <2>2, ArgIsByte DEF Byte
    <3>2. /\ cmd_cnt' = (3 - 1 - 2) % 256
          /\ ret_cnt' = (0 + IF ok THEN r ELSE 0) % 256
      BY <1>4, <2>1, <2>7, ConsumeFacts
    <3>3. cmd_cnt' = 0 /\ ret_cnt' \in {0, r} /\ ret_cnt' <= I2C_BUF_LEN
      BY <2>7, <3>1, <3>2 DEF I2C_BUF_LEN
    <3> QED BY <1>6, <3>3 DEF WalkI2c
  <2> QED BY <2>4, <2>5, <2>6, <2>7 DEF f, l, w, r
<1> QED BY <1>4, <1>7, <1>8

-----------------------------------------------------------------------------
(* The feed control and the firmware: the third part of the invariant. *)

\* Whose frame is in EP1OUT.  Once the feed control has had its way, only frames
\* of i2c_xfer follow.
Packets ==
  /\ ep1out.tag \in Callers => I2cShape(ep1out.bytes)
  /\ ep1out.tag = Attacher => ep1out.bytes = InitFrame
  /\ ep1out.tag = Streamer => ep1out.bytes = StreamFrame
  /\ ep1out.tag = Old => I2cShape(ep1out.bytes) \/ ep1out.bytes \in {StartFrame, StopFrame}
  /\ ep1out.tag \notin {NoTag, Attacher} => ret[Attacher] = "ok"
  /\ ret[Streamer] = "ok" /\ ep1out.tag \notin {NoTag, Streamer} => I2cShape(ep1out.bytes)

\* Where the interpreter stands in it.
Walk ==
  /\ parsing /\ ep1out.bytes = InitFrame =>
       /\ ptr \in {1, 4, 5, 7} /\ cmd_cnt = 7 - ptr /\ ret_cnt = 0
       /\ ptr = 7 => port.val_ifconfig = \he3
  /\ parsing /\ ep1out.bytes = StartFrame =>
       ptr \in {1, 2, 4} /\ cmd_cnt = 4 - ptr /\ ret_cnt = 0
  /\ parsing /\ ep1out.bytes = StopFrame =>
       ptr \in {1, 2, 3} /\ cmd_cnt = 3 - ptr /\ ret_cnt = 0
  /\ parsing /\ I2cShape(ep1out.bytes) =>
       WalkI2c(Len(ep1out.bytes), ep1out.bytes[3], AskedFor(ep1out.bytes))

\* What the frame of frontend_attach has set up.
Registers ==
  /\ ModePins
  /\ ret[Attacher] = "ok" /\ ep1out.tag # Attacher => port.val_ifconfig = \he3

\* A frame of the feed control, half worked off.
Switching ==
  parsing /\ ep1out.tag = Streamer =>
    /\ streaming /\ ptr >= 2 => /\ fifo[6] = "auto" /\ port.ifconfig = \he3
                                /\ MODE_START \subseteq port.iod
    /\ streaming /\ ptr = 4 => Bits(FX2_PIO_START) \subseteq port.iod
    /\ ~streaming /\ ptr >= 2 => fifo[6] = "manual"
    /\ ~streaming /\ ptr = 3 => port.iod \cap ModeBits = MODE_IDLE

\* No answer is longer than i2cbf, neither one fetched nor one still to be handed over.
SmallAnswers ==
  /\ ep1in.cnt <= I2C_BUF_LEN
  /\ ~parsing => ret_cnt <= I2C_BUF_LEN

FeedInv ==
  /\ ChannelInv
  /\ Packets /\ Walk /\ Registers /\ Switching /\ SmallAnswers /\ StreamingAgrees

\* EmptyIn and EmptyOut.
LEMMA EmptyBuffers ==
  /\ EmptyIn.cnt = 0 /\ ~EmptyIn.busy /\ EmptyIn.tag = NoTag
  /\ EmptyOut.busy /\ EmptyOut.tag = NoTag /\ EmptyOut.bytes = <<>>
  /\ 0 <= I2C_BUF_LEN
  BY DEF EmptyIn, EmptyOut, I2C_BUF_LEN

\* Every packet is one of four kinds, and its sender tells which.
LEMMA Kinds ==
  ASSUME ChannelInv, Packets, parsing
  PROVE  /\ ep1out.tag # NoTag /\ ep1out.tag \in Threads \cup {Old}
         /\ I2cShape(ep1out.bytes) \/ ep1out.bytes \in {InitFrame, StartFrame, StopFrame}
         /\ ep1out.bytes = InitFrame => ep1out.tag = Attacher
         /\ ep1out.bytes \in {StartFrame, StopFrame} => ep1out.tag \in {Streamer, Old}
<1>1. ep1out.tag # NoTag /\ ep1out.tag \in Threads \cup {Old}
  BY ThreadAssumption
  DEF ChannelInv, BaseInv, LoopInv, BuffersReserved, TagsAgree, TypeOKFx2
<1>2. StreamFrame \in {StartFrame, StopFrame}
  BY DEF StreamFrame
<1> QED BY <1>1, <1>2, ThreadFacts, FramesDiffer DEF Packets

LEMMA FeedInit == Init => FeedInv
<1> SUFFICES ASSUME Init PROVE FeedInv
  OBVIOUS
<1>1. /\ ep1out = EmptyOut /\ ep1in = EmptyIn /\ parsing = FALSE /\ ret_cnt = 0
      /\ port.oed = ModeBits /\ port.addr_mask = {}
      /\ ret[Attacher] = "none" /\ ret[Streamer] = "none"
  BY ThreadFacts DEF Init, InitFx2
<1>2. Packets
  BY <1>1, EmptyBuffers, TagAssumption, ThreadFacts DEF Packets
<1>3. Walk /\ Switching /\ StreamingAgrees
  BY <1>1 DEF Walk, Switching, StreamingAgrees
<1>4. Registers /\ SmallAnswers
  BY <1>1, EmptyBuffers DEF Registers, ModePins, SmallAnswers
<1> QED BY <1>2, <1>3, <1>4, ChannelInit DEF FeedInv

\* Steps the firmware takes no part in and that send nothing.
LEMMA FeedQuiet ==
  ASSUME FeedInv, ChannelInv',
         UNCHANGED <<ep1out, parsing, ptr, cmd_cnt, ret_cnt, port, fifo, streaming>>,
         ep1in' \in {ep1in, EmptyIn},
         ret'[Attacher] = "ok" <=> ret[Attacher] = "ok",
         ret'[Streamer] = "ok" => ret[Streamer] = "ok"
  PROVE  FeedInv'
<1>1. Packets'
  BY DEF FeedInv, Packets, StreamFrame
<1>2. Walk'
  BY DEF FeedInv, Walk, WalkI2c, AskedFor
<1>3. Registers' /\ Switching' /\ StreamingAgrees'
  BY DEF FeedInv, Registers, ModePins, Switching, StreamingAgrees
<1>4. SmallAnswers'
  BY EmptyBuffers DEF FeedInv, SmallAnswers
<1> QED BY <1>1, <1>2, <1>3, <1>4 DEF FeedInv

\* A new call disowns what is left of its predecessor.
LEMMA FeedXferCall ==
  ASSUME OVERLAP = {}, FeedInv, NEW c \in Callers, XferCall(c) PROVE FeedInv'
<1>1. /\ ChannelInv' /\ Begin(c) /\ streaming' = streaming
      /\ pc[Attacher] = "idle" /\ ret[Attacher] # "error"
  BY ChannelXferCall, XferCallEffect DEF FeedInv, ChannelInv
<1>2. /\ Ends(c, "none") /\ ret[Attacher] = "ok"
      /\ ep1out'.bytes = ep1out.bytes
      /\ ep1out'.tag = IF ep1out.tag = c THEN Old ELSE ep1out.tag
      /\ ep1in'.cnt = ep1in.cnt
      /\ UNCHANGED <<parsing, ptr, cmd_cnt, ret_cnt, port, fifo>>
  BY <1>1, ThreadFacts, BeginEffect
  DEF FeedInv, ChannelInv, BaseInv, HostOK, Exclusive
<1>3. ret'[Attacher] = "ok" /\ ret'[Streamer] = ret[Streamer]
  BY <1>2, ThreadFacts DEF Ends
<1>4. Packets'
  BY <1>1, <1>2, <1>3, ThreadFacts DEF FeedInv, Packets, StreamFrame
<1>5. Walk'
  BY <1>2 DEF FeedInv, Walk, WalkI2c, AskedFor
<1>6. Registers' /\ Switching' /\ StreamingAgrees' /\ SmallAnswers'
  BY <1>1, <1>2, <1>3, ThreadFacts
  DEF FeedInv, Registers, ModePins, Switching, StreamingAgrees, SmallAnswers
<1> QED BY <1>1, <1>4, <1>5, <1>6 DEF FeedInv

LEMMA FeedStreamCtrl ==
  ASSUME OVERLAP = {}, FeedInv, StreamCtrl PROVE FeedInv'
<1>1. /\ ChannelInv' /\ Begin(Streamer) /\ streaming' = ~streaming
      /\ ret[Attacher] = "ok"
  BY ChannelStreamCtrl, StreamCtrlEffect DEF FeedInv, ChannelInv
<1>2. /\ Ends(Streamer, "none") /\ ret[Attacher] = "ok"
      /\ ep1out'.bytes = ep1out.bytes
      /\ ep1out'.tag = IF ep1out.tag = Streamer THEN Old ELSE ep1out.tag
      /\ ep1in'.cnt = ep1in.cnt
      /\ UNCHANGED <<parsing, ptr, cmd_cnt, ret_cnt, port, fifo>>
  BY <1>1, ThreadFacts, BeginEffect DEF FeedInv, ChannelInv
<1>3. ret'[Attacher] = "ok" /\ ret'[Streamer] = "none" /\ ep1out'.tag # Streamer
  BY <1>2, ThreadFacts DEF Ends
<1>4. StreamFrame \in {StartFrame, StopFrame}
  BY DEF StreamFrame
<1>5. Packets'
  BY <1>2, <1>3, <1>4, ThreadFacts DEF FeedInv, Packets
<1>6. Walk'
  BY <1>2 DEF FeedInv, Walk, WalkI2c, AskedFor
<1>7. Registers' /\ Switching' /\ StreamingAgrees' /\ SmallAnswers'
  BY <1>2, <1>3, ThreadFacts
  DEF FeedInv, Registers, ModePins, Switching, StreamingAgrees, SmallAnswers
<1> QED BY <1>1, <1>5, <1>6, <1>7 DEF FeedInv

LEMMA FeedBulkOut ==
  ASSUME FeedInv, NEW t \in Threads, BulkOut(t) PROVE FeedInv'
<1>1. /\ ChannelInv' /\ pc[t] = "out" /\ ep1out.busy
      /\ ep1out'.tag = t /\ ep1out'.bytes = job[t].frame
      /\ UNCHANGED <<ep1in, parsing, ptr, cmd_cnt, ret_cnt, port, fifo, streaming>>
  BY ChannelBulkOut, BulkOutEffect, WholeFrame DEF FeedInv, ChannelInv
<1>2. ~parsing /\ ep1out.tag = NoTag
  BY <1>1 DEF FeedInv, ChannelInv, BaseInv, LoopInv, BuffersReserved, TagsAgree
<1>3. /\ t # Attacher => ret[Attacher] = "ok" /\ ret'[Attacher] = "ok"
      /\ t = Attacher => ret[Streamer] # "ok" /\ ret'[Streamer] # "ok"
      /\ t \in Callers => ret'[Streamer] = ret[Streamer]
  <2>1. t # Attacher => ret[Attacher] = "ok"
    BY <1>1, Alone DEF FeedInv, ChannelInv, Working
  <2>2. t = Attacher => ret[Attacher] # "ok" /\ ret[Streamer] # "ok"
    BY <1>1, ThreadFacts DEF FeedInv, ChannelInv, Exclusive
  <2>3. \/ ret' = ret
        \/ t \notin Callers /\ Ends(t, "ok")
    BY BulkOutEffect DEF FeedInv, ChannelInv
  <2>4. (\A u \in Threads \ {t} : ret'[u] = ret[u]) /\ (t \in Callers => ret' = ret)
    BY <2>3 DEF Ends
  <2> QED BY <2>1, <2>2, <2>4, ThreadFacts
<1>4. Packets'
  <2>1. /\ t \in Callers => I2cShape(job[t].frame)
        /\ t = Attacher => job[t].frame = InitFrame
        /\ t = Streamer => job[t].frame = StreamFrame
    BY <1>1 DEF FeedInv, ChannelInv, Composed
  <2> QED BY <1>1, <1>3, <2>1, ThreadFacts DEF Packets, StreamFrame
<1>5. Walk' /\ Switching'
  BY <1>1, <1>2 DEF FeedInv, Walk, Switching
<1>6. Registers'
  BY <1>1, <1>2, <1>3, ThreadFacts DEF FeedInv, Registers, ModePins
<1>7. StreamingAgrees'
  BY <1>1, <1>2, <1>3, ThreadFacts DEF FeedInv, StreamingAgrees
<1>8. SmallAnswers'
  BY <1>1 DEF FeedInv, SmallAnswers
<1> QED BY <1>1, <1>4, <1>5, <1>6, <1>7, <1>8 DEF FeedInv

LEMMA FeedPoll ==
  ASSUME FeedInv, ChannelInv', Poll, UNCHANGED <<ret, streaming>> PROVE FeedInv'
<1>1. /\ parsing' = TRUE /\ ptr' = 1 /\ cmd_cnt' = Len(ep1out.bytes) /\ ret_cnt' = 0
      /\ UNCHANGED <<ep1out, ep1in, port, fifo>>
  BY DEF Poll
<1>2. /\ InitFrame \in Seq(Byte) /\ Len(InitFrame) = 6 /\ Len(StartFrame) = 3
      /\ Len(StopFrame) = 2
  BY DEF InitFrame, StartFrame, StopFrame, CMD_PORT_CFG, FX2_PIO_START, CMD_MODE_IDLE,
         CMD_IFCONFIG, CMD_EP6IN_START, CMD_PORT_WRITE, CMD_EP6IN_STOP, Byte
<1>3. Walk'
  <2>1. /\ parsing' /\ ret_cnt' = 0
        /\ ep1out.bytes = InitFrame => cmd_cnt' = 7 - ptr'
        /\ ep1out.bytes = StartFrame => cmd_cnt' = 4 - ptr'
        /\ ep1out.bytes = StopFrame => cmd_cnt' = 3 - ptr'
    BY <1>1, <1>2
  <2>2. I2cShape(ep1out.bytes) =>
          WalkI2c(Len(ep1out.bytes), ep1out.bytes[3], AskedFor(ep1out.bytes))'
    <3>1. ep1out.bytes \in Seq(Byte)
      BY DEF FeedInv, ChannelInv, BaseInv, LoopInv, TypeOKFx2
    <3>2. Len(ep1out.bytes) \in Nat
      BY <3>1
    <3>3. \A l \in Nat : l = l + 1 - 1
      OBVIOUS
    <3>4. cmd_cnt' = Len(ep1out.bytes) + 1 - ptr'
      BY <1>1, <3>2, <3>3
    <3>5. (Len(ep1out.bytes))' = Len(ep1out.bytes)
      BY <1>1
    <3> QED BY <1>1, <3>4, <3>5 DEF WalkI2c
  <2> QED BY <1>1, <2>1, <2>2 DEF Walk
<1>4. Packets' /\ Registers' /\ Switching' /\ SmallAnswers' /\ StreamingAgrees'
  BY <1>1 DEF FeedInv, Packets, StreamFrame, Registers, ModePins, Switching, SmallAnswers,
              StreamingAgrees
<1> QED BY <1>3, <1>4 DEF FeedInv

LEMMA FeedExecute ==
  ASSUME FeedInv, ChannelInv', Execute, UNCHANGED <<ret, streaming>> PROVE FeedInv'
<1>1. /\ LoopInv /\ TypeOKFx2 /\ ModePins /\ parsing
      /\ UNCHANGED <<ep1out, ep1in>> /\ parsing'
  BY ExecuteBusy, CommandsInFrame
  DEF FeedInv, ChannelInv, BaseInv, LoopInv, Registers, InFrame
<1>2. ModePins'
  BY <1>1, ModePinsKept
<1>3. Packets' /\ SmallAnswers'
  BY <1>1 DEF FeedInv, Packets, StreamFrame, SmallAnswers
<1>4. /\ ep1out.tag # NoTag
      /\ I2cShape(ep1out.bytes) \/ ep1out.bytes \in {InitFrame, StartFrame, StopFrame}
      /\ ep1out.bytes = InitFrame => ep1out.tag = Attacher
      /\ ep1out.bytes \in {StartFrame, StopFrame} => ep1out.tag \in {Streamer, Old}
  BY <1>1, Kinds DEF FeedInv
<1>5. CASE I2cShape(ep1out.bytes)
  <2>1. /\ WalkI2c(Len(ep1out.bytes), ep1out.bytes[3], AskedFor(ep1out.bytes))'
        /\ UNCHANGED <<port, fifo>>
    BY <1>1, <1>5, I2cFrameStep DEF FeedInv, Walk
  <2>2. ep1out.bytes \notin {InitFrame, StartFrame, StopFrame}
    BY <1>5, FramesDiffer
  <2>3. Walk'
    BY <1>1, <2>1, <2>2 DEF Walk
  <2>4. ep1out.tag # Streamer
    BY <2>2 DEF FeedInv, Packets, StreamFrame
  <2>5. Registers' /\ Switching' /\ StreamingAgrees'
    BY <1>1, <1>2, <2>1, <2>4 DEF FeedInv, Registers, Switching, StreamingAgrees
  <2> QED BY <1>3, <2>3, <2>5 DEF FeedInv
<1>6. CASE ep1out.bytes = InitFrame
  <2>1. /\ ptr' \in {1, 4, 5, 7} /\ cmd_cnt' = 7 - ptr' /\ ret_cnt' = 0
        /\ ptr' = 7 => port'.val_ifconfig = \he3
    BY <1>1, <1>6, InitFrameStep DEF FeedInv, Walk
  <2>2. Walk'
    BY <1>1, <1>6, <2>1, FramesDiffer DEF Walk
  <2>3. ep1out.tag = Attacher /\ Attacher # Streamer /\ Attacher # NoTag
    BY <1>4, <1>6, ThreadFacts
  <2>4. ret[Streamer] # "ok"
    BY <1>6, <2>3, FramesDiffer DEF FeedInv, Packets
  <2>5. Registers' /\ Switching' /\ StreamingAgrees'
    BY <1>1, <1>2, <2>3, <2>4 DEF Registers, Switching, StreamingAgrees
  <2> QED BY <1>3, <2>2, <2>5 DEF FeedInv
<1>7. ASSUME ep1out.bytes \in {StartFrame, StopFrame}
      PROVE  /\ ret[Attacher] = "ok" /\ port.val_ifconfig = \he3
             /\ ep1out.tag = Streamer \/ ret[Streamer] # "ok"
             /\ ep1out.tag = Streamer => ep1out.bytes = StreamFrame
  <2>1. ep1out.tag \in {Streamer, Old} /\ ep1out.tag \notin {NoTag, Attacher}
    BY <1>4, <1>7, ThreadFacts, ThreadAssumption
  <2> QED BY <1>4, <1>7, <2>1, FramesDiffer DEF FeedInv, Packets, Registers
<1>8. CASE ep1out.bytes = StartFrame
  <2>1. /\ ptr' \in {2, 4} /\ cmd_cnt' = 4 - ptr' /\ ret_cnt' = 0
        /\ port'.val_ifconfig = port.val_ifconfig
        /\ ptr' = 2 => /\ fifo'[6] = "auto" /\ port'.ifconfig = port.val_ifconfig
                       /\ MODE_START \subseteq port'.iod
        /\ ptr' = 4 => /\ ptr = 2 /\ fifo' = fifo /\ port'.ifconfig = port.ifconfig
                       /\ (MODE_START \subseteq port.iod => MODE_START \subseteq port'.iod)
                       /\ Bits(FX2_PIO_START) \subseteq port'.iod
    BY <1>1, <1>8, StartFrameStep DEF FeedInv, Walk
  <2>2. Walk'
    BY <1>1, <1>8, <2>1, FramesDiffer DEF Walk
  <2>3. Registers'
    BY <1>2, <1>7, <1>8, <2>1 DEF Registers
  <2>4. StreamingAgrees'
    BY <1>1, <1>7, <1>8 DEF StreamingAgrees
  <2>5. ASSUME ep1out.tag = Streamer
        PROVE  /\ streaming /\ (ptr' = 4 => Bits(FX2_PIO_START) \subseteq port'.iod)
               /\ fifo'[6] = "auto" /\ port'.ifconfig = \he3
               /\ MODE_START \subseteq port'.iod
    <3>1. streaming
      BY <1>7, <1>8, <2>5, FramesDiffer DEF StreamFrame
    <3>2. ptr = 2 => /\ fifo[6] = "auto" /\ port.ifconfig = \he3
                     /\ MODE_START \subseteq port.iod
      BY <1>1, <2>5, <3>1 DEF FeedInv, Switching
    <3> QED BY <1>7, <1>8, <2>1, <3>1, <3>2
  <2>6. Switching'
    BY <1>1, <2>5 DEF Switching
  <2> QED BY <1>3, <2>2, <2>3, <2>4, <2>6 DEF FeedInv
<1>9. CASE ep1out.bytes = StopFrame
  <2>1. /\ ptr' \in {2, 3} /\ cmd_cnt' = 3 - ptr' /\ ret_cnt' = 0
        /\ port'.val_ifconfig = port.val_ifconfig
        /\ ptr' = 2 => fifo'[6] = "manual"
        /\ ptr' = 3 => ptr = 2 /\ fifo' = fifo /\ port'.iod \cap ModeBits = MODE_IDLE
    BY <1>1, <1>9, StopFrameStep DEF FeedInv, Walk
  <2>2. Walk'
    BY <1>1, <1>9, <2>1, FramesDiffer DEF Walk
  <2>3. Registers'
    BY <1>2, <1>7, <1>9, <2>1 DEF Registers
  <2>4. StreamingAgrees'
    BY <1>1, <1>7, <1>9 DEF StreamingAgrees
  <2>5. ASSUME ep1out.tag = Streamer
        PROVE  /\ ~streaming /\ fifo'[6] = "manual"
               /\ ptr' = 3 => port'.iod \cap ModeBits = MODE_IDLE
    <3>1. ~streaming
      BY <1>7, <1>9, <2>5, FramesDiffer DEF StreamFrame
    <3>2. ptr = 2 => fifo[6] = "manual"
      BY <1>1, <2>5, <3>1 DEF FeedInv, Switching
    <3> QED BY <2>1, <3>1, <3>2
  <2>6. Switching'
    BY <1>1, <2>5 DEF Switching
  <2> QED BY <1>3, <2>2, <2>3, <2>4, <2>6 DEF FeedInv
<1> QED BY <1>4, <1>5, <1>6, <1>8, <1>9

\* What is answered, and what the registers are, at the end of a frame.
LEMMA AtTheEnd ==
  ASSUME FeedInv, parsing, cmd_cnt = 0
  PROVE  /\ ret_cnt <= I2C_BUF_LEN
         /\ ep1out.bytes = InitFrame => ptr = 7
         /\ ep1out.bytes = StartFrame => ptr = 4
         /\ ep1out.bytes = StopFrame => ptr = 3
         /\ I2cShape(ep1out.bytes) => ret_cnt \in {0, AskedFor(ep1out.bytes)}
         /\ ep1out.bytes \in {InitFrame, StartFrame, StopFrame} => ret_cnt = 0
<1>1. I2cShape(ep1out.bytes) \/ ep1out.bytes \in {InitFrame, StartFrame, StopFrame}
  BY Kinds DEF FeedInv
<1>2. /\ ep1out.bytes = InitFrame => ptr = 7 /\ ret_cnt = 0
      /\ ep1out.bytes = StartFrame => ptr = 4 /\ ret_cnt = 0
      /\ ep1out.bytes = StopFrame => ptr = 3 /\ ret_cnt = 0
  BY DEF FeedInv, Walk
<1>3. I2cShape(ep1out.bytes) =>
        ret_cnt \in {0, AskedFor(ep1out.bytes)} /\ ret_cnt <= I2C_BUF_LEN
  BY EmptyBuffers DEF FeedInv, Walk, WalkI2c
<1> QED BY <1>1, <1>2, <1>3, EmptyBuffers

LEMMA FeedRearm ==
  ASSUME FeedInv, ChannelInv', Rearm, UNCHANGED <<ret, streaming>> PROVE FeedInv'
<1>1. /\ parsing /\ cmd_cnt = 0 /\ ep1out' = EmptyOut /\ parsing' = FALSE
      /\ UNCHANGED <<ep1in, ret_cnt, port, fifo>>
  BY DEF Rearm
<1>2. ep1out'.tag = NoTag /\ ep1out'.bytes = <<>>
  BY <1>1, EmptyBuffers
<1>3. Packets'
  <2>1. NoTag \notin Callers /\ NoTag # Attacher /\ NoTag # Streamer /\ NoTag # Old
    BY ThreadFacts
  <2> QED BY <1>2, <2>1 DEF Packets
<1>4. Walk' /\ Switching'
  BY <1>1 DEF Walk, Switching
<1>5. Registers'
  <2>1. ep1out.tag = Attacher => port.val_ifconfig = \he3
    BY <1>1, AtTheEnd DEF FeedInv, Packets, Walk
  <2> QED BY <1>1, <2>1 DEF FeedInv, Registers, ModePins
<1>6. StreamingAgrees'
  <2>1. ASSUME ep1out.tag = Streamer
        PROVE  IF streaming
               THEN /\ fifo[6] = "auto" /\ port.ifconfig = \he3
                    /\ MODE_START \cup Bits(FX2_PIO_START) \subseteq port.iod
               ELSE fifo[6] = "manual" /\ port.iod \cap ModeBits = MODE_IDLE
    <3>1. CASE streaming
      <4>1. ptr = 4
        BY <1>1, <2>1, <3>1, AtTheEnd DEF FeedInv, Packets, StreamFrame
      <4> QED BY <1>1, <2>1, <3>1, <4>1 DEF FeedInv, Switching
    <3>2. CASE ~streaming
      <4>1. ptr = 3
        BY <1>1, <2>1, <3>2, AtTheEnd DEF FeedInv, Packets, StreamFrame
      <4> QED BY <1>1, <2>1, <3>2, <4>1 DEF FeedInv, Switching
    <3> QED BY <3>1, <3>2
  <2> QED BY <1>1, <2>1 DEF FeedInv, StreamingAgrees
<1>7. SmallAnswers'
  BY <1>1, AtTheEnd DEF FeedInv, SmallAnswers
<1> QED BY <1>3, <1>4, <1>5, <1>6, <1>7 DEF FeedInv

LEMMA FeedHandOver ==
  ASSUME FeedInv, ChannelInv', HandOver, UNCHANGED <<ret, streaming>> PROVE FeedInv'
<1>1. /\ due # NoTag /\ ep1in'.cnt = ret_cnt /\ ret_cnt' = 0
      /\ UNCHANGED <<ep1out, parsing, ptr, port, fifo>>
  BY DEF HandOver
<1>2. ~parsing /\ ~parsing'
  BY <1>1 DEF FeedInv, ChannelInv, BaseInv, LoopInv, BuffersReserved
<1>3. Packets' /\ Registers' /\ StreamingAgrees'
  BY <1>1 DEF FeedInv, Packets, StreamFrame, Registers, ModePins, StreamingAgrees
<1>4. Walk' /\ Switching'
  BY <1>2 DEF Walk, Switching
<1>5. SmallAnswers'
  BY <1>1, <1>2, EmptyBuffers DEF FeedInv, SmallAnswers
<1> QED BY <1>3, <1>4, <1>5 DEF FeedInv

LEMMA FeedStep == OVERLAP = {} => (FeedInv /\ [Next]_vars => FeedInv')
<1> SUFFICES ASSUME OVERLAP = {}, FeedInv, [Next]_vars PROVE FeedInv'
  OBVIOUS
<1>0. ChannelInv /\ BaseInv /\ ChannelInv'
  BY ChannelStep DEF FeedInv, ChannelInv
<1>1. ASSUME NEW c \in Callers, XferLock(c) \/ XferCompose(c) PROVE FeedInv'
  <2>1. UNCHANGED <<fx2, ret, streaming>>
    BY <1>1, Zenon DEF XferLock, XferCompose
  <2> QED BY <1>0, <2>1, FeedQuiet DEF fx2, cpu
<1>2. ASSUME NEW t \in Threads, UsbLock(t) \/ Store(t) PROVE FeedInv'
  <2>1. UNCHANGED <<fx2, ret, streaming>>
    BY <1>2, Zenon DEF UsbLock, Store
  <2> QED BY <1>0, <2>1, FeedQuiet DEF fx2, cpu
<1>3. ASSUME NEW t \in Threads, GivesUp(t) PROVE FeedInv'
  <2>1. /\ pc[t] # "idle"
        /\ Ends(t, "error") \/ (t \in Callers /\ Ends(t, "ok"))
        /\ UNCHANGED <<ep1out, parsing, ptr, cmd_cnt, ret_cnt, port, fifo, streaming>>
        /\ ep1in' \in {ep1in, EmptyIn}
    BY <1>0, <1>3, GivesUpEffect
  <2>2. t = Attacher => ret[Attacher] = "none"
    BY <1>0, <2>1 DEF ChannelInv, Exclusive
  <2>3. /\ ret'[Attacher] = "ok" <=> ret[Attacher] = "ok"
        /\ ret'[Streamer] = "ok" => ret[Streamer] = "ok"
    BY <2>1, <2>2, ThreadFacts DEF Ends
  <2> QED BY <1>0, <2>1, <2>3, FeedQuiet
<1>4. ASSUME NEW t \in Threads, BulkIn(t) PROVE FeedInv'
  <2>1. /\ pc[t] = "in" /\ ep1in' = EmptyIn
        /\ (t \in Callers /\ ret' = ret) \/ t \notin Callers
        /\ UNCHANGED <<ep1out, parsing, ptr, cmd_cnt, ret_cnt, port, fifo, streaming>>
    BY <1>0, <1>4, BulkInEffect
  <2>2. t \in Callers
    BY <1>0, <2>1, ThreadFacts DEF ChannelInv, Exclusive
  <2> QED BY <1>0, <2>1, <2>2, FeedQuiet
<1>5. CASE Firmware
  <2>1. MainLoop /\ UNCHANGED <<ret, streaming>>
    BY <1>5 DEF Firmware
  <2> QED BY <1>0, <2>1, FeedPoll, FeedExecute, FeedRearm, FeedHandOver
      DEF MainLoop
<1>6. CASE UNCHANGED vars
  BY <1>0, <1>6, FeedQuiet DEF vars, host, fx2, cpu
<1>7. ASSUME NEW c \in Callers, XferCall(c) \/ XferInterrupted(c) PROVE FeedInv'
  BY <1>3, <1>7, ThreadFacts, FeedXferCall DEF GivesUp
<1>8. ASSUME NEW t \in Threads, Advance(t) PROVE FeedInv'
  BY <1>1, <1>2, <1>3, <1>4, <1>8, FeedBulkOut DEF Advance, GivesUp
<1> QED BY <1>1, <1>2, <1>5, <1>6, <1>7, <1>8, FeedStreamCtrl DEF Next

LEMMA FeedInvariance == ASSUME OVERLAP = {} PROVE Spec => []FeedInv
<1>1. FeedInv /\ [Next]_vars => FeedInv'
  BY FeedStep
<1> QED BY <1>1, FeedInit, PTL DEF Spec

(***************************************************************************)
(* The feed control and the firmware agree: after a call that reported     *)
(* success, and whatever I2C transfers, late answers and failed calls have *)
(* come since, EP6, the mode pins, the start pin and the FIFO interface    *)
(* are as the last call wanted them.                                       *)
(***************************************************************************)
THEOREM FeedIsAsAsked == ASSUME OVERLAP = {} PROVE Spec => []StreamingAgrees
<1>1. FeedInv => StreamingAgrees
  BY DEF FeedInv
<1> QED BY <1>1, FeedInvariance, PTL

(***************************************************************************)
(* Whatever the callers ask for, what the firmware writes through the      *)
(* second auto pointer fits EP1INBUF.                                      *)
(***************************************************************************)
THEOREM AnswersFit == ASSUME OVERLAP = {} PROVE Spec => []AnswerFits
<1>1. FeedInv => AnswerFits
  <2> SUFFICES ASSUME FeedInv PROVE AnswerFits
    OBVIOUS
  <2>1. ret_cnt <= I2C_BUF_LEN
    <3>1. CASE ~parsing
      BY <3>1 DEF FeedInv, SmallAnswers
    <3>2. CASE parsing
      BY <3>2, Kinds, EmptyBuffers DEF FeedInv, Walk, WalkI2c
    <3> QED BY <3>1, <3>2
  <2>2. ret_cnt \in Nat /\ ep1in.cnt \in Nat
    <3>1. ret_cnt \in Byte /\ ep1in.cnt \in Byte
      BY DEF FeedInv, ChannelInv, BaseInv, LoopInv, TypeOKFx2
    <3>2. \A n \in Byte : n \in Nat
      BY DEF Byte
    <3> QED BY <3>1, <3>2, Zenon
  <2>3. \A n \in Nat : n <= I2C_BUF_LEN => n <= EP1_SIZE
    BY DEF I2C_BUF_LEN, EP1_SIZE
  <2> QED BY <2>1, <2>2, <2>3, Zenon DEF FeedInv, SmallAnswers, AnswerFits
<1> QED BY <1>1, FeedInvariance, PTL

-----------------------------------------------------------------------------
(* Answers and the calls they belong to, when nobody gives up too early: the last *)
(* part of the invariant.                                                         *)

\* A caller that waits for an answer has its frame before the firmware, or its answer
\* on the way, or before itself, or will get none.
InTurn(c) ==
  \/ ep1out.tag = c /\ ep1out.bytes = job[c].frame /\ ~ep1in.busy /\ due = NoTag
  \/ ep1out.busy /\ ~ep1in.busy /\ due = c /\ ret_cnt = job[c].rlen
  \/ ep1out.busy /\ ep1in.tag = c /\ ep1in.cnt = job[c].rlen /\ due = NoTag
  \/ ep1out.busy /\ ~ep1in.busy /\ due = NoTag

\* When nobody waits, nothing is there, on the way or asked for.
NothingOpen ==
  /\ ~ep1in.busy /\ due = NoTag
  /\ ~ep1out.busy /\ I2cShape(ep1out.bytes) => AskedFor(ep1out.bytes) = 0

AnswersInTurn ==
  /\ \A c \in Callers : pc[c] = "in" => InTurn(c)
  /\ (\A c \in Callers : pc[c] # "in") => NothingOpen

TurnInv == FeedInv /\ AnswersInTurn

LEMMA TurnInit == Init => TurnInv
<1> SUFFICES ASSUME Init PROVE TurnInv
  OBVIOUS
<1>1. /\ ep1out = EmptyOut /\ ep1in = EmptyIn /\ due = NoTag
      /\ \A c \in Callers : pc[c] # "in"
  BY ThreadFacts DEF Init, InitFx2
<1>2. AnswersInTurn
  BY <1>1, EmptyBuffers DEF AnswersInTurn, NothingOpen
<1> QED BY <1>2, FeedInit DEF TurnInv

\* Steps after which the same callers wait for the same.
LEMMA TurnQuiet ==
  ASSUME TurnInv, UNCHANGED <<ep1out, ep1in, due>>, due = NoTag \/ ret_cnt' = ret_cnt,
         \A c \in Callers : /\ pc'[c] = "in" <=> pc[c] = "in"
                            /\ pc[c] = "in" => job'[c] = job[c]
  PROVE  AnswersInTurn'
<1>1. ASSUME NEW c \in Callers, pc'[c] = "in" PROVE InTurn(c)'
  BY <1>1 DEF TurnInv, AnswersInTurn, InTurn
<1>2. (\A c \in Callers : pc'[c] # "in") => NothingOpen'
  BY DEF TurnInv, AnswersInTurn, NothingOpen, I2cShape, AskedFor
<1> QED BY <1>1, <1>2 DEF AnswersInTurn

LEMMA TurnMoves ==
  ASSUME TurnInv, UNCHANGED <<ep1out, ep1in, due, ret_cnt>>, NEW t \in Threads,
         pc[t] # "in", NEW place \in Places \ {"in"}, Moves(t, place),
         \A u \in Threads \ {t} : job'[u] = job[u]
  PROVE  AnswersInTurn'
<1>1. \A c \in Callers : /\ pc'[c] = "in" <=> pc[c] = "in"
                         /\ pc[c] = "in" => job'[c] = job[c]
  BY ThreadFacts DEF Moves
<1> QED BY <1>1, TurnQuiet

LEMMA TurnBegin ==
  ASSUME TurnInv, NEW t \in Threads, Begin(t), NEW place \in Places \ {"in"},
         Moves(t, place), \A u \in Threads \ {t} : job'[u] = job[u]
  PROVE  AnswersInTurn'
<1>1. /\ pc[t] = "idle" /\ ret_cnt' = ret_cnt
      /\ ep1out'.busy = ep1out.busy /\ ep1out'.bytes = ep1out.bytes
      /\ ep1out'.tag = IF ep1out.tag = t THEN Old ELSE ep1out.tag
      /\ ep1in'.busy = ep1in.busy /\ ep1in'.cnt = ep1in.cnt
      /\ ep1in'.tag = IF ep1in.tag = t THEN Old ELSE ep1in.tag
      /\ due' = IF due = t THEN Old ELSE due
  BY BeginEffect DEF TurnInv, FeedInv, ChannelInv
<1>2. /\ t # NoTag
      /\ \A c \in Callers : /\ pc'[c] = "in" <=> pc[c] = "in"
                            /\ pc[c] = "in" => job'[c] = job[c] /\ c # t
  BY <1>1, ThreadFacts DEF Moves
<1>3. ASSUME NEW c \in Callers, pc'[c] = "in" PROVE InTurn(c)'
  <2>1. InTurn(c) /\ job'[c] = job[c] /\ c # t
    BY <1>2, <1>3 DEF TurnInv, AnswersInTurn
  <2> QED BY <1>1, <1>2, <2>1 DEF InTurn
<1>4. (\A c \in Callers : pc'[c] # "in") => NothingOpen'
  BY <1>1, <1>2 DEF TurnInv, AnswersInTurn, NothingOpen, I2cShape, AskedFor
<1> QED BY <1>3, <1>4 DEF AnswersInTurn

LEMMA TurnBulkOut ==
  ASSUME TurnInv, NEW t \in Threads, BulkOut(t) PROVE AnswersInTurn'
<1>1. /\ BaseInv /\ Exclusive /\ Composed /\ pc[t] = "out"
      /\ ep1in' = ep1in /\ due' = due
      /\ ep1out'.tag = t /\ ep1out'.bytes = job[t].frame /\ ~ep1out'.busy
      /\ \/ job[t].rlen > 0 /\ Moves(t, "in") /\ job' = job
         \/ job[t].rlen = 0 /\ Moves(t, "next")
         \/ job[t].rlen = 0 /\ Moves(t, "idle")
  BY BulkOutEffect, WholeFrame DEF TurnInv, FeedInv, ChannelInv
<1>2. \A u \in Threads \ {t} : pc[u] # "in"
  BY <1>1, Alone DEF Working
<1>3. ~ep1in'.busy /\ due' = NoTag
  BY <1>1, <1>2, ThreadFacts DEF TurnInv, AnswersInTurn, NothingOpen
<1>4. \A c \in Callers : pc'[c] = "in" => c = t /\ job' = job
  BY <1>1, <1>2, ThreadFacts DEF Moves
<1>5. pc'[t] # "in" => job[t].rlen = 0
  BY <1>1 DEF Moves
<1>6. \/ t \in Callers /\ job[t].rlen = AskedFor(job[t].frame)
      \/ job[t].frame \in {InitFrame, StartFrame, StopFrame} /\ job[t].rlen = 0
  BY <1>1, ThreadFacts DEF Composed, StreamFrame
<1>7. (\A c \in Callers : pc'[c] # "in") /\ I2cShape(job[t].frame) =>
        AskedFor(job[t].frame) = 0
  BY <1>5, <1>6, FramesDiffer
<1>8. ASSUME NEW c \in Callers, pc'[c] = "in" PROVE InTurn(c)'
  BY <1>1, <1>3, <1>4, <1>8 DEF InTurn
<1>9. (\A c \in Callers : pc'[c] # "in") => NothingOpen'
  BY <1>1, <1>3, <1>7 DEF NothingOpen, I2cShape, AskedFor
<1> QED BY <1>8, <1>9 DEF AnswersInTurn

LEMMA TurnBulkIn ==
  ASSUME TurnInv, NEW c \in Callers, BulkIn(c)
  PROVE  AnswersInTurn' /\ ep1in.tag = c /\ ep1in.cnt = job[c].rlen
<1>1. /\ BaseInv /\ Exclusive /\ pc[c] = "in" /\ ep1in.busy /\ ep1in' = EmptyIn
      /\ Moves(c, "next") /\ ep1out' = ep1out /\ due' = due
  BY ThreadFacts, BulkInEffect DEF TurnInv, FeedInv, ChannelInv
<1>2. ep1out.busy /\ ep1in.tag = c /\ ep1in.cnt = job[c].rlen /\ due = NoTag
  BY <1>1 DEF TurnInv, AnswersInTurn, InTurn
<1>3. \A u \in Callers : pc'[u] # "in"
  BY <1>1, Alone, ThreadFacts DEF Working, Moves
<1>4. AnswersInTurn'
  BY <1>1, <1>2, <1>3, EmptyBuffers DEF AnswersInTurn, NothingOpen
<1> QED BY <1>2, <1>4

\* Only a caller for whom there is no answer gives up waiting for it.
LEMMA TurnGivesUp ==
  ASSUME ~SLOW, TurnInv, NEW t \in Threads, GivesUp(t) PROVE AnswersInTurn'
<1>1. /\ BaseInv /\ Exclusive /\ Moves(t, "idle")
      /\ \A u \in Threads \ {t} : job'[u] = job[u]
      /\ UNCHANGED <<ep1out, due, ret_cnt>>
      /\ pc[t] # "in" => ep1in' = ep1in
      /\ pc[t] = "in" => \/ ep1in.busy /\ ep1in.cnt > job[t].rlen
                         \/ ep1in' = ep1in /\ ~ep1in.busy /\ ep1out.busy /\ due = NoTag
  BY GivesUpEffect DEF TurnInv, FeedInv, ChannelInv, Takes
<1>2. CASE pc[t] # "in"
  BY <1>1, <1>2, TurnMoves DEF Places
<1>3. CASE pc[t] = "in"
  <2>1. t \in Callers
    BY <1>1, <1>3, ThreadFacts DEF Exclusive
  <2>2. ~(ep1in.busy /\ ep1in.cnt > job[t].rlen)
    <3>1. ep1in.busy => ep1in.cnt = job[t].rlen
      BY <1>3, <2>1 DEF TurnInv, AnswersInTurn, InTurn
    <3>2. job[t].rlen \in Byte /\ \A n \in Byte : ~(n > n)
      BY <1>1 DEF BaseInv, JobsOK, Jobs, Byte
    <3> QED BY <3>1, <3>2, Zenon
  <2>3. ep1in' = ep1in /\ ~ep1in.busy /\ ep1out.busy /\ due' = NoTag
    BY <1>1, <1>3, <2>2
  <2>4. \A u \in Callers : pc'[u] # "in"
    BY <1>1, <1>3, Alone, ThreadFacts DEF Working, Moves
  <2> QED BY <1>1, <2>3, <2>4 DEF AnswersInTurn, NothingOpen
<1> QED BY <1>2, <1>3

LEMMA TurnRearm ==
  ASSUME TurnInv, Rearm, UNCHANGED <<pc, job>> PROVE AnswersInTurn'
<1>1. /\ parsing /\ cmd_cnt = 0 /\ ep1out' = EmptyOut /\ UNCHANGED <<ep1in, ret_cnt>>
      /\ due' = IF ret_cnt = 0 THEN NoTag ELSE ep1out.tag
  BY DEF Rearm
<1>2. ~ep1out.busy /\ ~ep1in.busy /\ ep1out'.busy /\ due = NoTag
  BY <1>1, EmptyBuffers DEF TurnInv, FeedInv, ChannelInv, BaseInv, LoopInv, BuffersReserved
<1>3. /\ I2cShape(ep1out.bytes) => ret_cnt \in {0, AskedFor(ep1out.bytes)}
      /\ ~I2cShape(ep1out.bytes) => ret_cnt = 0
  BY <1>1, AtTheEnd, Kinds DEF TurnInv, FeedInv
<1>4. ASSUME NEW c \in Callers, pc'[c] = "in" PROVE InTurn(c)'
  <2>1. pc[c] = "in" /\ ep1out.tag = c /\ ep1out.bytes = job[c].frame
    BY <1>2, <1>4 DEF TurnInv, AnswersInTurn, InTurn
  <2>2. I2cShape(job[c].frame) /\ job[c].rlen = AskedFor(job[c].frame)
    BY <2>1 DEF TurnInv, FeedInv, ChannelInv, Composed
  <2>3. ret_cnt \in {0, job[c].rlen}
    BY <1>3, <2>1, <2>2
  <2> QED BY <1>1, <1>2, <2>1, <2>3 DEF InTurn
<1>5. (\A c \in Callers : pc'[c] # "in") => NothingOpen'
  <2>1. (\A c \in Callers : pc[c] # "in") => ret_cnt = 0
    BY <1>2, <1>3 DEF TurnInv, AnswersInTurn, NothingOpen
  <2> QED BY <1>1, <1>2, <2>1 DEF NothingOpen
<1> QED BY <1>4, <1>5 DEF AnswersInTurn

LEMMA TurnHandOver ==
  ASSUME TurnInv, HandOver, UNCHANGED <<pc, job>> PROVE AnswersInTurn'
<1>1. /\ due # NoTag /\ ep1in' = [busy |-> TRUE, tag |-> due, cnt |-> ret_cnt]
      /\ due' = NoTag /\ ep1out' = ep1out
  BY DEF HandOver
<1>2. ASSUME NEW c \in Callers, pc'[c] = "in" PROVE InTurn(c)'
  <2>1. ep1out.busy /\ due = c /\ ret_cnt = job[c].rlen
    BY <1>1, <1>2 DEF TurnInv, AnswersInTurn, InTurn
  <2> QED BY <1>1, <2>1 DEF InTurn
<1>3. ~\A c \in Callers : pc'[c] # "in"
  BY <1>1 DEF TurnInv, AnswersInTurn, NothingOpen
<1> QED BY <1>2, <1>3 DEF AnswersInTurn

LEMMA TurnStep ==
  OVERLAP = {} /\ ~SLOW => (TurnInv /\ [Next]_vars => TurnInv')
<1> SUFFICES ASSUME OVERLAP = {}, ~SLOW, TurnInv, [Next]_vars PROVE AnswersInTurn'
  BY FeedStep DEF TurnInv
<1>0. BaseInv /\ Exclusive
  BY DEF TurnInv, FeedInv, ChannelInv
<1>1. ASSUME NEW c \in Callers, XferCall(c) PROVE AnswersInTurn'
  BY <1>0, <1>1, ThreadFacts, XferCallEffect, TurnBegin DEF Takes, Places
<1>2. CASE StreamCtrl
  BY <1>0, <1>2, ThreadFacts, StreamCtrlEffect, TurnBegin DEF Takes, Places
<1>3. ASSUME NEW c \in Callers, XferLock(c) PROVE AnswersInTurn'
  BY <1>0, <1>3, ThreadFacts, XferLockEffect, TurnMoves DEF Places, fx2, cpu
<1>4. ASSUME NEW c \in Callers, XferCompose(c) PROVE AnswersInTurn'
  BY <1>0, <1>4, ThreadFacts, XferComposeEffect, TurnMoves DEF Takes, Places, fx2, cpu
<1>5. ASSUME NEW t \in Threads, UsbLock(t) PROVE AnswersInTurn'
  BY <1>0, <1>5, UsbLockEffect, TurnMoves DEF Places, fx2, cpu
<1>6. ASSUME NEW t \in Threads, Store(t) PROVE AnswersInTurn'
  <2>1. PICK place \in Places \ {"in"} : Moves(t, place)
    BY <1>0, <1>6, StoreEffect DEF Places
  <2>2. /\ pc[t] # "in" /\ (\A u \in Threads \ {t} : job'[u] = job[u])
        /\ UNCHANGED <<ep1out, ep1in, due, ret_cnt>>
    BY <1>0, <1>6, StoreEffect DEF Takes, fx2, cpu
  <2> QED BY <2>1, <2>2, TurnMoves
<1>7. ASSUME NEW t \in Threads, BulkIn(t) PROVE AnswersInTurn'
  <2>1. t \in Callers
    BY <1>0, <1>7, BulkInEffect, ThreadFacts DEF Exclusive
  <2> QED BY <1>7, <2>1, TurnBulkIn
<1>8. CASE Firmware
  <2>1. MainLoop /\ UNCHANGED <<pc, job>>
    BY <1>8 DEF Firmware
  <2>2. CASE Poll
    BY <2>1, <2>2, TurnQuiet DEF Poll
  <2>3. CASE Execute
    BY <1>0, <2>1, <2>3, ExecuteBusy, CommandsInFrame, TurnQuiet
    DEF BaseInv, LoopInv, BuffersReserved
  <2> QED BY <2>1, <2>2, <2>3, TurnRearm, TurnHandOver DEF MainLoop
<1>9. CASE UNCHANGED vars
  BY <1>9, TurnQuiet DEF vars, host, fx2, cpu
<1>10. ASSUME NEW c \in Callers, XferInterrupted(c) PROVE AnswersInTurn'
  BY <1>10, ThreadFacts, TurnGivesUp DEF GivesUp
<1>11. ASSUME NEW t \in Threads, Advance(t) PROVE AnswersInTurn'
  BY <1>4, <1>6, <1>7, <1>11, TurnBulkOut, TurnGivesUp DEF Advance, GivesUp
<1> QED BY <1>1, <1>2, <1>3, <1>5, <1>8, <1>9, <1>10, <1>11 DEF Next

(***************************************************************************)
(* The bytes a caller copies into its read message were read for it, and   *)
(* there are as many as it asked for, as long as the firmware is never so  *)
(* late that somebody's transfer times out before the answer is there.     *)
(***************************************************************************)
THEOREM AnswersReachTheirCalls ==
  ASSUME OVERLAP = {}, ~SLOW PROVE Spec => AnswersMatch
<1>1. TurnInv /\ [Next]_vars => TurnInv'
  BY TurnStep
<1>2. TurnInv /\ [Next]_vars =>
        [\A c \in Callers : BulkIn(c) => ep1in.tag = c /\ ep1in.cnt = job[c].rlen]_vars
  BY TurnBulkIn
<1> QED BY <1>1, <1>2, TurnInit, PTL DEF Spec, AnswersMatch
=============================================================================
