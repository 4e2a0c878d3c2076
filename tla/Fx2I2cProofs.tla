---------------------------- MODULE Fx2I2cProofs ----------------------------
(***************************************************************************)
(* Proofs about the firmware's I2C master: for every set of messages and   *)
(* lengths main_loop lets through, every limit on bus errors and every     *)
(* outcome on the bus.                                                     *)
(***************************************************************************)
EXTENDS Fx2I2c, TLAPS

-----------------------------------------------------------------------------
\* While a call is under way it has attempts left, at both limits.
AttemptsLeft ==
  at # "idle" => retry_count > 0 /\ berr_retry < I2C_BERR_MAX_RETRY

\* A fresh attempt has moved nothing yet.
Fresh == at = "address" => cur_byte = 0 /\ wire = <<>> /\ buf = <<>>

\* A write has moved the first cur_byte bytes, and those only.
WriteUnderWay ==
  /\ at = "stop" => call.op = "write" /\ cur_byte = Len(call.data)
  /\ at = "data" /\ call.op = "write" => cur_byte < Len(call.data)
  /\ at \in {"data", "stop"} /\ call.op = "write" =>
       /\ Len(wire) = cur_byte
       /\ \A i \in 1..cur_byte : wire[i] = [byte |-> call.data[i], ack |-> TRUE]

\* A read has stored cur_byte bytes, acknowledged them all, and has bmLASTRD
\* set when the byte under way is the last.
ReadUnderWay ==
  at = "data" /\ call.op = "read" =>
    /\ cur_byte < call.len \/ (cur_byte = 0 /\ call.len = 0)
    /\ lastrd = (cur_byte + 1 = call.len)
    /\ Len(wire) = cur_byte /\ Len(buf) = cur_byte
    /\ \A i \in 1..cur_byte : wire[i].ack = TRUE /\ buf[i] = wire[i].byte

IInv ==
  /\ TypeOK
  /\ AttemptsLeft
  /\ Fresh
  /\ WriteUnderWay
  /\ ReadUnderWay
  /\ WholeTransfer
  /\ NoSilentRepeat

-----------------------------------------------------------------------------
\* A call is a read or a write, of at most I2C_BUF_LEN bytes.
LEMMA CallShape ==
  \A c \in Calls :
    \/ c.op = "write" /\ c.data \in Seq(0..255) /\ Len(c.data) \in 0..I2C_BUF_LEN
    \/ c.op = "read" /\ c.len \in 0..I2C_BUF_LEN
<1>1. ASSUME NEW c \in [op : {"write"}, data : Messages]
      PROVE  c.op = "write" /\ c.data \in Seq(0..255) /\ Len(c.data) \in 0..I2C_BUF_LEN
  <2>1. c.op = "write" /\ c.data \in Messages
    OBVIOUS
  <2>2. c.data \in Seq(0..255) /\ Len(c.data) <= 16
    BY <2>1, MessageAssumption DEF I2C_BUF_LEN
  <2>3. PICK n \in Nat : n = Len(c.data)
    BY <2>2
  <2>4. n \in 0..16
    <3>1. n <= 16
      BY <2>2, <2>3, Zenon
    <3>2. QED
      BY <3>1
  <2>5. QED
    BY <2>1, <2>2, <2>3, <2>4, Zenon DEF I2C_BUF_LEN
<1>2. ASSUME NEW c \in [op : {"read"}, len : ReadLengths]
      PROVE  c.op = "read" /\ c.len \in 0..I2C_BUF_LEN
  BY LengthAssumption
<1>3. QED
  BY <1>1, <1>2 DEF Calls

\* Counting modulo the size of a WORD stays in a WORD.
LEMMA WordStep == \A n \in 0..WordSize - 1, k \in {0, 1} : (n + k) % WordSize \in 0..WordSize - 1
  BY WordAssumption

\* One more never leaves a WORD unchanged.
LEMMA WordMoves == \A n \in 0..WordSize - 1 : (n + 1) % WordSize # n /\ (n + 0) % WordSize = n
<1>1. TAKE n \in 0..WordSize - 1
<1>2. CASE n + 1 = WordSize
  <2>1. (n + 1) % WordSize = 0
    BY <1>2, WordAssumption
  <2>2. QED
    BY <1>2, <2>1, WordAssumption
<1>3. CASE n + 1 < WordSize
  BY <1>3, WordAssumption
<1>4. QED
  BY <1>2, <1>3, WordAssumption

Counters == [Ops -> [berr : 0..WordSize - 1, timeout : 0..WordSize - 1,
                     err : 0..WordSize - 1]]

\* Returning keeps the counters counters.
LEMMA ReturnType ==
  ASSUME cnt \in Counters, call \in Calls, NEW ok \in BOOLEAN,
         NEW b \in {0, 1}, NEW t \in {0, 1}, Return(ok, b, t)
  PROVE  /\ cnt' \in Counters /\ at' = "idle" /\ result' = ok /\ call' = call
<1>1. call.op \in Ops
  BY CallShape DEF Ops
<1>2. PICK c \in [berr : 0..WordSize - 1, timeout : 0..WordSize - 1,
                  err : 0..WordSize - 1] : c = cnt[call.op]
  BY <1>1 DEF Counters
<1>3. /\ (c.berr + b) % WordSize \in 0..WordSize - 1
      /\ (c.timeout + t) % WordSize \in 0..WordSize - 1
      /\ (c.err + IF ok THEN 0 ELSE 1) % WordSize \in 0..WordSize - 1
  BY <1>2, WordStep
<1>4. cnt' = [cnt EXCEPT ![call.op] =
               [berr    |-> (c.berr + b) % WordSize,
                timeout |-> (c.timeout + t) % WordSize,
                err     |-> (c.err + IF ok THEN 0 ELSE 1) % WordSize]]
  BY <1>2 DEF Return
<1>5. cnt' \in Counters
  BY <1>1, <1>3, <1>4 DEF Counters
<1>6. QED
  BY <1>5 DEF Return
-----------------------------------------------------------------------------
LEMMA Initially == Init => IInv
<1> SUFFICES ASSUME Init PROVE IInv
  OBVIOUS
<1>2. cnt \in Counters /\ refused \in [Ops -> 0..WordSize - 1]
  BY WordAssumption DEF Init, Counters
<1>3. buf \in Seq(0..255) /\ wire \in Seq(Passed)
  BY DEF Init
<1>4. TypeOK
  <2>1. 0 \in 0..I2C_BUF_LEN /\ 0 \in 0..I2C_BERR_MAX_RETRY /\ 2 \in 0..2
    BY RetryAssumption DEF I2C_BUF_LEN
  <2>2. /\ call = NoCall /\ at = "idle" /\ cur_byte = 0 /\ retry_count = 2
        /\ berr_retry = 0 /\ lastrd = FALSE /\ result = FALSE /\ bus = "free"
    BY DEF Init
  <2>3. QED
    BY <1>2, <1>3, <2>1, <2>2, Zenon DEF TypeOK, Counters, Places
<1>5. QED
  BY <1>4 DEF Init, IInv, AttemptsLeft, Fresh, WriteUnderWay, ReadUnderWay,
              WholeTransfer, NoSilentRepeat

\* main_loop starts a call: nothing is left of the last one.
LEMMA CallStep ==
  ASSUME IInv, NEW c \in Calls, Call(c)
  PROVE  IInv'
<1>1. wire' \in Seq(Passed) /\ buf' \in Seq(0..255)
  BY DEF Call
<1>2. TypeOK' /\ AttemptsLeft'
  BY <1>1, RetryAssumption
     DEF Call, IInv, TypeOK, AttemptsLeft, Places, I2C_BUF_LEN
<1>3. QED
  BY <1>2 DEF Call, IInv, Fresh, WriteUnderWay, ReadUnderWay, WholeTransfer,
              NoSilentRepeat

\* Every attempt begins afresh.
LEMMA StartStep ==
  ASSUME IInv, Start
  PROVE  IInv'
<1>1. wire' \in Seq(Passed) /\ buf' \in Seq(0..255)
  BY DEF Start
<1>2. TypeOK'
  <2>1. /\ at' = "address" /\ cur_byte' = 0 /\ bus' = "held"
        /\ lastrd' = FALSE /\ call \in Calls
        /\ UNCHANGED <<call, retry_count, berr_retry, result, cnt, refused>>
    BY DEF Start, Await, IInv, TypeOK
  <2>2. TypeOK /\ 0 \in 0..I2C_BUF_LEN
    BY DEF IInv, I2C_BUF_LEN
  <2>3. QED
    BY <1>1, <2>1, <2>2 DEF TypeOK, Places
<1>3. QED
  BY <1>2 DEF Start, Await, IInv, AttemptsLeft, Fresh, WriteUnderWay,
              ReadUnderWay, WholeTransfer, NoSilentRepeat

\* Giving a call back with FALSE promises nothing more than types.
LEMMA FailureStep ==
  ASSUME IInv, at # "idle", NEW b \in {0, 1}, NEW t \in {0, 1}, Return(FALSE, b, t),
         cur_byte' \in 0..I2C_BUF_LEN, retry_count' \in 0..2,
         berr_retry' \in 0..I2C_BERR_MAX_RETRY, lastrd' \in BOOLEAN,
         bus' \in {"free", "held", "stopping"}, buf' = buf, wire' = wire,
         refused' \in [Ops -> 0..WordSize - 1]
  PROVE  IInv'
<1>1. cnt \in Counters /\ call \in Calls
  BY DEF IInv, TypeOK, Counters
<1>2. cnt' \in Counters /\ at' = "idle" /\ result' = FALSE /\ call' = call
  BY <1>1, ReturnType
<1>3. TypeOK'
  BY <1>1, <1>2 DEF IInv, TypeOK, Counters, Places
<1>4. QED
  BY <1>2, <1>3 DEF IInv, AttemptsLeft, Fresh, WriteUnderWay, ReadUnderWay,
                    WholeTransfer, NoSilentRepeat

\* One more refusal is still a WORD.
LEMMA RefusedType ==
  ASSUME TypeOK, at # "idle", Refuse
  PROVE  refused' \in [Ops -> 0..WordSize - 1]
<1>1. call.op \in Ops
  BY CallShape DEF TypeOK, Ops
<1>2. PICK n \in 0..WordSize - 1 : n = refused[call.op]
  BY <1>1 DEF TypeOK
<1>3. (n + 1) % WordSize \in 0..WordSize - 1
  BY WordStep
<1>4. refused' = [refused EXCEPT ![call.op] = (n + 1) % WordSize]
  BY <1>2 DEF Refuse
<1>5. QED
  BY <1>1, <1>3, <1>4 DEF TypeOK

LEMMA BusErrorStep ==
  ASSUME IInv, BusError
  PROVE  IInv'
<1> DEFINE Again == /\ berr_retry + 1 < I2C_BERR_MAX_RETRY
                    /\ at' = "start"
                    /\ cnt' = [cnt EXCEPT ![call.op].berr = (@ + 1) % WordSize]
                    /\ call' = call /\ result' = result
<1>1. /\ at # "idle" /\ bus' = "held" /\ lastrd' = FALSE
      /\ berr_retry' = berr_retry + 1
      /\ cur_byte' = IF at = "start" THEN 0 ELSE cur_byte
      /\ retry_count' = retry_count /\ buf' = buf /\ wire' = wire
      /\ refused' = refused
  BY DEF BusError
<1>2. Return(FALSE, 1, 1) \/ Again
  BY Zenon DEF BusError
<1>3. /\ TypeOK /\ call \in Calls /\ cnt \in Counters
      /\ berr_retry' \in 1..I2C_BERR_MAX_RETRY
      /\ cur_byte' \in 0..I2C_BUF_LEN
  BY <1>1, RetryAssumption DEF IInv, TypeOK, AttemptsLeft, I2C_BUF_LEN, Counters
<1>4. CASE Return(FALSE, 1, 1)
  <2>1. /\ retry_count' \in 0..2 /\ lastrd' \in BOOLEAN
        /\ bus' \in {"free", "held", "stopping"}
        /\ refused' \in [Ops -> 0..WordSize - 1]
    BY <1>1, <1>3 DEF TypeOK
  <2>2. berr_retry' \in 0..I2C_BERR_MAX_RETRY
    BY <1>3, RetryAssumption
  <2>3. QED
    BY <1>1, <1>3, <1>4, <2>1, <2>2, FailureStep
<1>5. CASE Again
  <2>1. cnt' \in Counters
    <3>1. call.op \in Ops
      BY <1>3, CallShape DEF Ops
    <3>2. PICK n \in 0..WordSize - 1 : n = cnt[call.op].berr
      BY <1>3, <3>1 DEF Counters
    <3>3. (n + 1) % WordSize \in 0..WordSize - 1
      BY WordStep
    <3>4. cnt' = [cnt EXCEPT ![call.op] =
                    [cnt[call.op] EXCEPT !.berr = (n + 1) % WordSize]]
      BY <1>3, <1>5, <3>1, <3>2 DEF Counters
    <3>5. QED
      BY <1>3, <3>1, <3>3, <3>4 DEF Counters
  <2>2. TypeOK'
    <3>1. berr_retry' \in 0..I2C_BERR_MAX_RETRY
      BY <1>3, RetryAssumption
    <3>2. call' \in Calls /\ at' = "start" /\ result' = result
      BY <1>3, <1>5
    <3>3. QED
      BY <1>1, <1>3, <2>1, <3>1, <3>2 DEF TypeOK, Counters, Places
  <2>3. AttemptsLeft' /\ berr_retry' > 0
    BY <1>1, <1>3, <1>5, RetryAssumption DEF IInv, AttemptsLeft
  <2>4. QED
    BY <1>1, <1>5, <2>2, <2>3
       DEF IInv, Fresh, WriteUnderWay, ReadUnderWay, WholeTransfer, NoSilentRepeat
<1>6. QED
  BY <1>2, <1>4, <1>5

LEMMA WaitLimitStep ==
  ASSUME IInv, WaitLimit
  PROVE  IInv'
  BY FailureStep DEF WaitLimit, IInv, TypeOK, history

LEMMA WriteRefusedStep ==
  ASSUME IInv, WriteRefused
  PROVE  IInv'
<1>1. TypeOK /\ at # "idle" /\ Refuse /\ Stop
  BY DEF WriteRefused, IInv
<1>2. refused' \in [Ops -> 0..WordSize - 1] /\ Return(FALSE, 0, 0)
  BY <1>1, RefusedType DEF Refuse
<1>3. QED
  BY <1>1, <1>2, FailureStep DEF WriteRefused, TypeOK, Stop

LEMMA AddressRefusedStep ==
  ASSUME IInv, AddressRefused
  PROVE  IInv'
<1>1. /\ TypeOK /\ at = "address" /\ Stop /\ retry_count \in 1..2
      /\ call \in Calls /\ wire = <<>> /\ wire' = wire
      /\ retry_count' \in 0..2
  BY DEF AddressRefused, IInv, TypeOK, AttemptsLeft, Fresh
<1>2. CASE Refuse
  <2>1. refused' \in [Ops -> 0..WordSize - 1] /\ Return(FALSE, 0, 0)
    BY <1>1, <1>2, RefusedType DEF Refuse
  <2>2. QED
    BY <1>1, <2>1, FailureStep DEF AddressRefused, TypeOK, Stop
<1>3. CASE /\ retry_count' = retry_count - 1 /\ retry_count - 1 # 0
           /\ Await("start") /\ UNCHANGED refused
  <2>1. TypeOK'
    BY <1>1, <1>3 DEF AddressRefused, Await, Stop, TypeOK, Places
  <2>2. QED
    BY <1>1, <1>3, <2>1
       DEF AddressRefused, Await, IInv, AttemptsLeft, Fresh, WriteUnderWay,
           ReadUnderWay, WholeTransfer, NoSilentRepeat
<1>4. QED
  BY <1>2, <1>3 DEF AddressRefused
LEMMA AddressTakenStep ==
  ASSUME IInv, AddressTaken
  PROVE  IInv'
<1>1. /\ TypeOK /\ at = "address" /\ call \in Calls
      /\ cur_byte = 0 /\ wire = <<>> /\ buf = <<>>
  BY DEF AddressTaken, IInv, TypeOK, Fresh
<1>2. /\ call' = call /\ result' = result /\ cnt' = cnt /\ bus' = bus
      /\ cur_byte' = 0 /\ wire' = <<>> /\ buf' = <<>> /\ refused' = refused
      /\ retry_count' = retry_count /\ berr_retry' = berr_retry
      /\ wire' = wire /\ buf' = buf
  BY <1>1 DEF AddressTaken, Await, history
<1>3. CASE call.op = "write"
  <2>1. /\ lastrd' = FALSE
        /\ at' = IF Len(call.data) = 0 THEN "stop" ELSE "data"
    BY <1>3 DEF AddressTaken, Await, Total
  <2>2. TypeOK'
    BY <1>1, <1>2, <2>1 DEF TypeOK, Places
  <2>3. Len(call.data) \in Nat
    BY <1>1, <1>3, CallShape
  <2>4. WriteUnderWay'
    BY <1>2, <1>3, <2>1, <2>3 DEF WriteUnderWay
  <2>5. QED
    BY <1>1, <1>2, <1>3, <2>1, <2>2, <2>4
       DEF IInv, AttemptsLeft, Fresh, ReadUnderWay, WholeTransfer, NoSilentRepeat
<1>4. CASE call.op = "read"
  <2>1. lastrd' = (call.len = 1) /\ at' = "data"
    BY <1>4 DEF AddressTaken, Await, Total
  <2>2. TypeOK'
    BY <1>1, <1>2, <2>1 DEF TypeOK, Places
  <2>3. call.len \in 0..16
    BY <1>1, <1>4, CallShape DEF I2C_BUF_LEN
  <2>4. ReadUnderWay'
    BY <1>2, <2>1, <2>3 DEF ReadUnderWay
  <2>5. QED
    BY <1>1, <1>2, <1>4, <2>1, <2>2, <2>4
       DEF IInv, AttemptsLeft, Fresh, WriteUnderWay, WholeTransfer, NoSilentRepeat
<1>5. QED
  BY <1>1, <1>3, <1>4, CallShape

\* What a sequence holds.
LEMMA Elements ==
  ASSUME NEW S, NEW d \in Seq(S), NEW k \in 1..Len(d)
  PROVE  d[k] \in S
  OBVIOUS

\* The byte after the first n of a message is there and is a byte.
LEMMA NextByte ==
  ASSUME NEW d \in Seq(0..255), NEW n \in 0..16, Len(d) \in 0..16, n < Len(d)
  PROVE  d[n + 1] \in 0..255 /\ n + 1 \in 0..16
<1>1. PICK l \in 0..16 : l = Len(d)
  OBVIOUS
<1>2. n < l
  BY <1>1, Zenon
<1>3. n + 1 \in 1..l /\ n + 1 \in 0..16
  BY <1>2
<1>4. n + 1 \in 1..Len(d)
  BY <1>1, <1>3, Zenon
<1>5. QED
  BY <1>3, <1>4, Elements, Zenon

LEMMA WriteByteStep ==
  ASSUME IInv, WriteByte
  PROVE  IInv'
<1> DEFINE d == call.data
           item == [byte |-> d[cur_byte + 1], ack |-> TRUE]
<1>1. /\ TypeOK /\ at = "data" /\ call \in Calls /\ call.op = "write"
      /\ d \in Seq(0..255) /\ Len(d) \in 0..16
      /\ cur_byte \in 0..16 /\ cur_byte < Len(d) /\ Len(wire) = cur_byte
      /\ wire \in Seq(Passed)
      /\ \A i \in 1..cur_byte : wire[i] = [byte |-> d[i], ack |-> TRUE]
  <2>1. /\ TypeOK /\ at = "data" /\ call \in Calls /\ call.op = "write"
        /\ cur_byte \in 0..16 /\ wire \in Seq(Passed)
    BY DEF WriteByte, IInv, TypeOK, I2C_BUF_LEN
  <2>2. d \in Seq(0..255) /\ Len(d) \in 0..16
    BY <2>1, CallShape DEF I2C_BUF_LEN
  <2>3. QED
    BY <2>1, <2>2 DEF IInv, WriteUnderWay
<1>2. /\ call' = call /\ result' = result /\ cnt' = cnt /\ bus' = bus
      /\ retry_count' = retry_count /\ berr_retry' = berr_retry
      /\ lastrd' = lastrd /\ buf' = buf /\ refused' = refused
      /\ cur_byte' = cur_byte + 1 /\ wire' = Append(wire, item)
      /\ at' = IF cur_byte + 1 < Len(d) THEN "data" ELSE "stop"
  BY <1>1 DEF WriteByte, Await, Total
<1>3. item \in Passed /\ cur_byte + 1 \in 0..16
  <2>1. d[cur_byte + 1] \in 0..255 /\ cur_byte + 1 \in 0..16
    BY <1>1, NextByte, Zenon
  <2>2. QED
    BY <2>1 DEF Passed
<1>4. /\ wire' \in Seq(Passed) /\ Len(wire') = cur_byte + 1
      /\ \A i \in 1..cur_byte + 1 :
           wire'[i] = IF i = cur_byte + 1 THEN item ELSE wire[i]
  BY <1>1, <1>2, <1>3
<1>5. \A i \in 1..cur_byte + 1 : wire'[i] = [byte |-> d[i], ack |-> TRUE]
  BY <1>1, <1>4
<1>6. TypeOK'
  <2>1. cur_byte' \in 0..I2C_BUF_LEN
    BY <1>2, <1>3 DEF I2C_BUF_LEN
  <2>2. QED
    BY <1>1, <1>2, <1>4, <2>1 DEF TypeOK, Places
<1>7. WriteUnderWay'
  BY <1>1, <1>2, <1>4, <1>5 DEF WriteUnderWay
<1>8. QED
  BY <1>1, <1>2, <1>6, <1>7
     DEF IInv, AttemptsLeft, Fresh, ReadUnderWay, WholeTransfer, NoSilentRepeat

LEMMA WriteDoneStep ==
  ASSUME IInv, WriteDone
  PROVE  IInv'
<1>1. /\ TypeOK /\ at = "stop" /\ call \in Calls /\ call.op = "write"
      /\ cur_byte = Len(call.data) /\ Len(wire) = cur_byte
      /\ \A i \in 1..cur_byte : wire[i] = [byte |-> call.data[i], ack |-> TRUE]
  BY DEF WriteDone, IInv, TypeOK, WriteUnderWay
<1>2. cnt \in Counters /\ Return(TRUE, 0, 0)
  BY <1>1 DEF WriteDone, TypeOK, Counters
<1>3. cnt' \in Counters /\ at' = "idle" /\ result' = TRUE /\ call' = call
  BY <1>1, <1>2, ReturnType
<1>4. /\ UNCHANGED <<cur_byte, retry_count, berr_retry, lastrd, buf, wire, refused>>
      /\ bus' \in {"free", "held", "stopping"}
  BY DEF WriteDone, Stop, history
<1>5. TypeOK'
  BY <1>1, <1>3, <1>4 DEF TypeOK, Counters, Places
<1>6. WholeTransfer'
  BY <1>1, <1>3, <1>4 DEF WholeTransfer, Service!Complete
<1>7. QED
  BY <1>3, <1>5, <1>6
     DEF IInv, AttemptsLeft, Fresh, WriteUnderWay, ReadUnderWay, NoSilentRepeat
\* What a read has moved when its next byte arrives.
LEMMA ReceiveStep ==
  ASSUME IInv, NEW b \in ChipBytes, Receive(b), buf' = Append(buf, b)
  PROVE  /\ call.len \in 0..16 /\ cur_byte \in 0..16
         /\ cur_byte < call.len \/ (cur_byte = 0 /\ call.len = 0)
         /\ lastrd = (cur_byte + 1 = call.len)
         /\ wire' \in Seq(Passed) /\ buf' \in Seq(0..255)
         /\ Len(wire') = cur_byte + 1 /\ Len(buf') = cur_byte + 1
         /\ \A i \in 1..cur_byte : wire'[i].ack = TRUE
         /\ wire'[cur_byte + 1].ack = ~lastrd
         /\ \A i \in 1..cur_byte + 1 : buf'[i] = wire'[i].byte
<1> DEFINE item == [byte |-> b, ack |-> ~lastrd]
<1>1. /\ TypeOK /\ at = "data" /\ call \in Calls /\ call.op = "read"
      /\ wire' = Append(wire, item) /\ b \in 0..255
  BY ChipAssumption DEF Receive, IInv, TypeOK
<1>2. call.len \in 0..16
  BY <1>1, CallShape DEF I2C_BUF_LEN
<1>3. /\ cur_byte \in 0..16 /\ lastrd \in BOOLEAN
      /\ wire \in Seq(Passed) /\ buf \in Seq(0..255)
  BY <1>1 DEF TypeOK, I2C_BUF_LEN
<1>4. /\ cur_byte < call.len \/ (cur_byte = 0 /\ call.len = 0)
      /\ lastrd = (cur_byte + 1 = call.len)
      /\ Len(wire) = cur_byte /\ Len(buf) = cur_byte
      /\ \A i \in 1..cur_byte : wire[i].ack = TRUE /\ buf[i] = wire[i].byte
  BY <1>1 DEF IInv, ReadUnderWay
<1>5. item \in Passed
  BY <1>1, <1>3 DEF Passed
<1>6. /\ wire' \in Seq(Passed) /\ Len(wire') = cur_byte + 1
      /\ \A i \in 1..cur_byte + 1 :
           wire'[i] = IF i = cur_byte + 1 THEN item ELSE wire[i]
  BY <1>1, <1>3, <1>4, <1>5
<1>7. /\ buf' \in Seq(0..255) /\ Len(buf') = cur_byte + 1
      /\ \A i \in 1..cur_byte + 1 :
           buf'[i] = IF i = cur_byte + 1 THEN b ELSE buf[i]
  BY <1>1, <1>3, <1>4
<1>8. cur_byte + 1 \in 1..cur_byte + 1 /\ \A i \in 1..cur_byte : i \in 1..cur_byte + 1 /\ i # cur_byte + 1
  BY <1>3
<1>9. /\ \A i \in 1..cur_byte : wire'[i].ack = TRUE
      /\ wire'[cur_byte + 1].ack = ~lastrd
  BY <1>4, <1>6, <1>8
<1>10. \A i \in 1..cur_byte + 1 : buf'[i] = wire'[i].byte
  <2>1. TAKE i \in 1..cur_byte + 1
  <2>2. CASE i = cur_byte + 1
    BY <1>6, <1>7, <1>8, <2>2
  <2>3. CASE i # cur_byte + 1
    <3>1. i \in 1..cur_byte
      BY <1>3, <2>3
    <3>2. QED
      BY <1>4, <1>6, <1>7, <2>3, <3>1
  <2>4. QED
    BY <2>2, <2>3
<1>11. QED
  BY <1>2, <1>3, <1>4, <1>6, <1>7, <1>9, <1>10

\* With more than one byte to come, the one that arrives is not the last.
LEMMA NextRead ==
  \A n, len \in 0..16 : len > n + 1 =>
    /\ n + 1 \in 0..16 /\ n + 1 < len /\ n + 1 # len
    /\ (len = n + 2) = ((n + 1) + 1 = len)
  OBVIOUS

LEMMA ReadByteStep ==
  ASSUME IInv, NEW b \in ChipBytes, ReadByte(b)
  PROVE  IInv'
<1>1. /\ TypeOK /\ at = "data" /\ call \in Calls /\ call.op = "read"
      /\ Receive(b) /\ buf' = Append(buf, b) /\ at' = "data"
      /\ call' = call /\ result' = result /\ cnt' = cnt /\ bus' = bus
      /\ retry_count' = retry_count /\ berr_retry' = berr_retry
      /\ refused' = refused /\ cur_byte' = cur_byte + 1
  BY DEF ReadByte, Receive, Await, IInv, TypeOK
<1>2. call.len > cur_byte + 1 /\ lastrd' = (call.len = cur_byte + 2)
  BY <1>1 DEF ReadByte, Total
<1>3. /\ call.len \in 0..16 /\ cur_byte \in 0..16
      /\ lastrd = (cur_byte + 1 = call.len)
      /\ wire' \in Seq(Passed) /\ buf' \in Seq(0..255)
      /\ Len(wire') = cur_byte + 1 /\ Len(buf') = cur_byte + 1
      /\ \A i \in 1..cur_byte : wire'[i].ack = TRUE
      /\ wire'[cur_byte + 1].ack = ~lastrd
      /\ \A i \in 1..cur_byte + 1 : buf'[i] = wire'[i].byte
  BY <1>1, ReceiveStep
<1>4. /\ cur_byte + 1 \in 0..16 /\ cur_byte + 1 < call.len /\ ~lastrd
      /\ lastrd' = (cur_byte' + 1 = call.len)
  <2>1. /\ cur_byte + 1 \in 0..16 /\ cur_byte + 1 < call.len
        /\ cur_byte + 1 # call.len
        /\ (call.len = cur_byte + 2) = ((cur_byte + 1) + 1 = call.len)
    BY <1>2, <1>3, NextRead, Zenon
  <2>2. ~lastrd
    BY <1>3, <2>1, Zenon
  <2>3. lastrd' = (cur_byte' + 1 = call.len)
    BY <1>1, <1>2, <2>1, Zenon
  <2>4. QED
    BY <2>1, <2>2, <2>3
<1>5. \A i \in 1..cur_byte + 1 : wire'[i].ack = TRUE
  <2>1. wire'[cur_byte + 1].ack = TRUE
    BY <1>3, <1>4
  <2>2. \A i \in 1..cur_byte + 1 : i \in 1..cur_byte \/ i = cur_byte + 1
    BY <1>3
  <2>3. QED
    BY <1>3, <2>1, <2>2
<1>6. TypeOK'
  <2>1. cur_byte' \in 0..I2C_BUF_LEN /\ lastrd' \in BOOLEAN
    BY <1>1, <1>2, <1>4 DEF I2C_BUF_LEN
  <2>2. QED
    BY <1>1, <1>3, <2>1 DEF TypeOK, Places
<1>7. ReadUnderWay'
  BY <1>1, <1>3, <1>4, <1>5 DEF ReadUnderWay
<1>8. QED
  BY <1>1, <1>6, <1>7
     DEF IInv, AttemptsLeft, Fresh, WriteUnderWay, WholeTransfer, NoSilentRepeat

LEMMA ReadLastStep ==
  ASSUME IInv, NEW b \in ChipBytes, ReadLast(b)
  PROVE  IInv'
<1>1. /\ TypeOK /\ at = "data" /\ call \in Calls /\ call.op = "read"
      /\ cnt \in Counters
      /\ Receive(b) /\ buf' = Append(buf, b) /\ Return(TRUE, 0, 0)
      /\ lastrd' = FALSE /\ bus' \in {"free", "held", "stopping"}
      /\ retry_count' = retry_count /\ berr_retry' = berr_retry
      /\ refused' = refused /\ cur_byte' = cur_byte
  BY DEF ReadLast, Receive, Stop, IInv, TypeOK, Counters
<1>2. call.len <= cur_byte + 1
  BY <1>1 DEF ReadLast, Total
<1>3. /\ call.len \in 0..16 /\ cur_byte \in 0..16
      /\ cur_byte < call.len \/ (cur_byte = 0 /\ call.len = 0)
      /\ lastrd = (cur_byte + 1 = call.len)
      /\ wire' \in Seq(Passed) /\ buf' \in Seq(0..255)
      /\ Len(wire') = cur_byte + 1 /\ Len(buf') = cur_byte + 1
      /\ \A i \in 1..cur_byte : wire'[i].ack = TRUE
      /\ wire'[cur_byte + 1].ack = ~lastrd
      /\ \A i \in 1..cur_byte + 1 : buf'[i] = wire'[i].byte
  BY <1>1, ReceiveStep
<1>4. cnt' \in Counters /\ at' = "idle" /\ result' = TRUE /\ call' = call
  BY <1>1, ReturnType
<1>5. TypeOK'
  BY <1>1, <1>3, <1>4 DEF TypeOK, Counters, Places
<1>6. cur_byte + 1 = IF call.len = 0 THEN 1 ELSE call.len
  BY <1>2, <1>3, SMTT(30)
<1>7. \A i \in 1..cur_byte + 1 : wire'[i].ack = (i # call.len)
  <2>1. TAKE i \in 1..cur_byte + 1
  <2>2. CASE i = cur_byte + 1
    BY <1>3, <2>2
  <2>3. CASE i # cur_byte + 1
    <3>1. i \in 1..cur_byte /\ i # call.len
      BY <1>3, <1>6, <2>3
    <3>2. QED
      BY <1>3, <3>1
  <2>4. QED
    BY <2>2, <2>3
<1>8. Service!Complete(call, wire')
  BY <1>1, <1>3, <1>6, <1>7 DEF Service!Complete
<1>9. WholeTransfer'
  BY <1>3, <1>4, <1>8 DEF WholeTransfer, Service!Complete
<1>10. QED
  BY <1>4, <1>5, <1>9
     DEF IInv, AttemptsLeft, Fresh, WriteUnderWay, ReadUnderWay, NoSilentRepeat
-----------------------------------------------------------------------------
\* Every step of the master keeps the invariant.
LEMMA Inductive == IInv /\ [Next]_vars => IInv'
<1>1. SUFFICES ASSUME IInv, [Next]_vars
               PROVE  IInv'
  OBVIOUS
<1>2. CASE Work
  BY <1>1, <1>2, StartStep, BusErrorStep, WaitLimitStep, AddressRefusedStep,
     AddressTakenStep, WriteByteStep, WriteRefusedStep, WriteDoneStep,
     ReadByteStep, ReadLastStep DEF Work
<1>3. CASE \E c \in Calls : Call(c)
  BY <1>1, <1>3, CallStep
<1>4. CASE UNCHANGED vars
  BY <1>1, <1>4
     DEF vars, master, control, history, IInv, TypeOK, AttemptsLeft, Fresh,
         WriteUnderWay, ReadUnderWay, WholeTransfer, NoSilentRepeat
<1>5. QED
  BY <1>1, <1>2, <1>3, <1>4 DEF Next

\* The invariant holds for ever.
THEOREM Invariance == Spec => []IInv
  BY Initially, Inductive, PTL DEF Spec

\* Every variable keeps its type, whatever happens on the bus.
THEOREM TypeCorrect == Spec => []TypeOK
<1>1. IInv => TypeOK
  BY DEF IInv
<1>2. QED
  BY <1>1, Invariance, PTL

\* TRUE means that the transfer took place as a whole in one attempt.
THEOREM TransfersAreWhole == Spec => []WholeTransfer
<1>1. IInv => WholeTransfer
  BY DEF IInv
<1>2. QED
  BY <1>1, Invariance, PTL

\* Bytes a chip has taken are repeated only after a bus error.
THEOREM RepeatsHaveACause == Spec => []NoSilentRepeat
<1>1. IInv => NoSilentRepeat
  BY DEF IInv
<1>2. QED
  BY <1>1, Invariance, PTL
-----------------------------------------------------------------------------
\* Between bmSTART and bmSTOP the bus is held.
BusHeld == at \in {"address", "data", "stop"} => bus = "held"

LEMMA HeldAlong == Spec => []BusHeld
<1>1. Init => BusHeld
  BY DEF Init, BusHeld
<1>2. BusHeld /\ [Next]_vars => BusHeld'
  <2>1. SUFFICES ASSUME BusHeld, [Next]_vars
                 PROVE  BusHeld'
    OBVIOUS
  <2>2. CASE Start \/ WaitLimit \/ AddressTaken \/ WriteByte \/ WriteRefused \/ WriteDone
    BY <2>1, <2>2
       DEF Start, WaitLimit, AddressTaken, WriteByte, WriteRefused, WriteDone,
           Await, Refuse, Return, BusHeld
  <2>3. CASE BusError
    <3>1. bus' = "held"
      BY <2>3 DEF BusError
    <3>2. QED
      BY <3>1 DEF BusHeld
  <2>4. CASE AddressRefused
    <3>1. at' \in {"idle", "start"}
      BY <2>4 DEF AddressRefused, Refuse, Return, Await
    <3>2. QED
      BY <3>1 DEF BusHeld
  <2>5. ASSUME NEW b \in ChipBytes, ReadByte(b) \/ ReadLast(b)
        PROVE  BusHeld'
    BY <2>1, <2>5 DEF ReadByte, ReadLast, Receive, Await, Return, BusHeld
  <2>6. CASE \E c \in Calls : Call(c)
    BY <2>6 DEF Call, BusHeld
  <2>7. CASE UNCHANGED vars
    BY <2>1, <2>7 DEF vars, master, control, BusHeld
  <2>8. QED
    BY <2>1, <2>2, <2>3, <2>4, <2>5, <2>6, <2>7 DEF Next, Work
<1>3. QED
  BY <1>1, <1>2, PTL DEF Spec

\* The timeout counter moves exactly when a call returns with a timeout.
LEMMA ReturnShows ==
  ASSUME TypeOK, call \in Calls, NEW ok \in BOOLEAN, NEW b \in {0, 1},
         NEW t \in {0, 1}, Return(ok, b, t)
  PROVE  (cnt'[call.op].timeout # cnt[call.op].timeout) <=> t = 1
<1>1. call.op \in Ops
  BY CallShape DEF Ops
<1>2. PICK n \in 0..WordSize - 1 : n = cnt[call.op].timeout
  BY <1>1 DEF TypeOK
<1>3. cnt'[call.op].timeout = (n + t) % WordSize
  BY <1>1, <1>2 DEF Return, TypeOK
<1>4. (n + t) % WordSize # n <=> t = 1
  BY WordMoves
<1>5. QED
  BY <1>2, <1>3, <1>4

\* The timeout counters show every call that left the bus held, and no other.
THEOREM GiveUpsShow == Spec => GiveUpsCounted
<1> DEFINE Shown == at # "idle" /\ at' = "idle" =>
                      (bus' = "held" <=> cnt'[call.op].timeout # cnt[call.op].timeout)
<1>1. IInv /\ BusHeld /\ [Next]_vars => Shown
  <2>1. SUFFICES ASSUME IInv, BusHeld, [Next]_vars, at # "idle", at' = "idle"
                 PROVE  bus' = "held" <=> cnt'[call.op].timeout # cnt[call.op].timeout
    OBVIOUS
  <2>2. TypeOK /\ call \in Calls
    BY <2>1 DEF IInv, TypeOK
  <2>3. CASE Return(FALSE, 1, 1) /\ bus' = "held"
    BY <2>2, <2>3, ReturnShows
  <2>4. CASE Return(FALSE, 0, 1) /\ bus' = "held"
    BY <2>2, <2>4, ReturnShows
  <2>5. CASE (\E ok \in BOOLEAN : Return(ok, 0, 0)) /\ Stop
    <3>1. bus' # "held"
      BY <2>5 DEF Stop
    <3>2. cnt'[call.op].timeout = cnt[call.op].timeout
      BY <2>2, <2>5, ReturnShows
    <3>3. QED
      BY <3>1, <3>2
  <2>6. CASE BusError
    <3>1. Return(FALSE, 1, 1) \/ at' = "start"
      BY <2>6, Zenon DEF BusError
    <3>2. bus' = "held"
      BY <2>6 DEF BusError
    <3>3. QED
      BY <2>1, <2>3, <3>1, <3>2
  <2>7. CASE WaitLimit
    BY <2>1, <2>4, <2>7 DEF WaitLimit, BusHeld
  <2>8. CASE AddressRefused \/ WriteRefused \/ WriteDone
    BY <2>1, <2>5, <2>8 DEF AddressRefused, WriteRefused, WriteDone, Refuse, Await
  <2>9. ASSUME NEW b \in ChipBytes, ReadByte(b) \/ ReadLast(b)
        PROVE  bus' = "held" <=> cnt'[call.op].timeout # cnt[call.op].timeout
    BY <2>1, <2>5, <2>9 DEF ReadByte, ReadLast, Await
  <2>10. CASE Start \/ AddressTaken \/ WriteByte
    <3>1. at' # "idle"
      BY <2>10 DEF Start, AddressTaken, WriteByte, Await
    <3>2. QED
      BY <2>1, <3>1
  <2>11. CASE UNCHANGED vars \/ \E c \in Calls : Call(c)
    BY <2>1, <2>11 DEF vars, master, control, Call
  <2>12. QED
    BY <2>1, <2>6, <2>7, <2>8, <2>9, <2>10, <2>11 DEF Next, Work
<1>2. Shown => [at # "idle" /\ at' = "idle" =>
                  (bus' = "held" <=> cnt'[call.op].timeout # cnt[call.op].timeout)]_vars
  OBVIOUS
<1>3. QED
  BY <1>1, <1>2, Invariance, HeldAlong, PTL DEF Spec, GiveUpsCounted

-----------------------------------------------------------------------------
\* To main_loop the master is a service whose TRUE is no lie: a call starts it,
\* the return ends it, and every other step is a transfer or a stutter.
THEOREM ServiceRefinement == Spec => Service!Safety
<1> DEFINE request == IF at = "idle" THEN NoCall ELSE call
<1>1. Init => Service!Init
  BY DEF Init, Service!Init
<1>2. IInv /\ IInv' /\ [Next]_vars => [Service!Next]_<<request, wire, result>>
  <2>1. SUFFICES ASSUME IInv, IInv', [Next]_vars
                 PROVE  Service!Next \/ UNCHANGED <<request, wire, result>>
    OBVIOUS
  <2>2. TypeOK /\ TypeOK' /\ (at # "idle" => call # NoCall)
    BY <2>1, NoCallAssumption DEF IInv, TypeOK
  <2>3. CASE at # "idle" /\ at' = "idle" /\ call' = call
    <3>1. result' \in BOOLEAN /\ (result' => Service!Complete(call, wire'))
      BY <2>1, <2>2, <2>3 DEF IInv, TypeOK, WholeTransfer, Service!Complete
    <3>2. Service!Return
      BY <2>2, <2>3, <3>1 DEF Service!Return
    <3>3. QED
      BY <3>2 DEF Service!Next
  <2>4. CASE at # "idle" /\ at' # "idle" /\ call' = call /\ result' = result
    BY <2>2, <2>4 DEF Service!Next, Service!Transfer
  <2>5. CASE \E c \in Calls : Call(c)
    BY <2>2, <2>5 DEF Call, Service!Next, Service!Call
  <2>6. CASE UNCHANGED vars
    BY <2>6 DEF vars, master, control, history
  <2>7. CASE BusError
    BY <2>3, <2>4, <2>7, Zenon DEF BusError, Return
  <2>8. CASE Start \/ WaitLimit \/ AddressTaken \/ WriteByte \/ WriteRefused \/ WriteDone
    BY <2>3, <2>4, <2>8, Zenon
       DEF Start, WaitLimit, AddressTaken, WriteByte, WriteRefused, WriteDone,
           Await, Refuse, Return
  <2>9. CASE AddressRefused
    BY <2>3, <2>4, <2>9, Zenon DEF AddressRefused, Await, Refuse, Return
  <2>10. ASSUME NEW b \in ChipBytes, ReadByte(b) \/ ReadLast(b)
         PROVE  Service!Next \/ UNCHANGED <<request, wire, result>>
    BY <2>3, <2>4, <2>10 DEF ReadByte, ReadLast, Receive, Await, Return
  <2>11. QED
    BY <2>1, <2>5, <2>6, <2>7, <2>8, <2>9, <2>10 DEF Next, Work
<1>3. QED
  BY <1>1, <1>2, Invariance, PTL DEF Spec, Service!Safety
-----------------------------------------------------------------------------
\* A difference of WORDs that is no more than a WORD below is nothing modulo the
\* size of a WORD in two cases only.
LEMMA NoRemainder ==
  \A d \in Int : -2 * WordSize < d /\ d < WordSize =>
                   (d % WordSize = 0 <=> d \in {0, -WordSize})
<1>1. WordSize \in Nat /\ WordSize > 1
  BY WordAssumption
<1>2. TAKE d \in Int
<1>3. HAVE -2 * WordSize < d /\ d < WordSize
<1>4. CASE d >= 0
  BY <1>1, <1>3, <1>4
<1>5. CASE d < 0 /\ d >= -WordSize
  <2>1. d % WordSize = (d + WordSize) % WordSize
    BY <1>1, <1>5
  <2>2. QED
    BY <1>1, <1>3, <1>5, <2>1
<1>6. CASE d < -WordSize
  <2>1. d % WordSize = d + 2 * WordSize
    BY <1>1, <1>3, <1>6
  <2>2. QED
    BY <1>1, <1>3, <1>6, <2>1
<1>7. QED
  BY <1>1, <1>4, <1>5, <1>6

\* A WORD that is counted up is one more or has begun again.
LEMMA CountedUp ==
  \A n \in 0..WordSize - 1 :
    (n + 1) % WordSize = IF n + 1 = WordSize THEN 0 ELSE n + 1
  BY WordAssumption

\* The failures counted as err and neither as timeout nor as refused.
Unexplained(e, t, r) == (e - t - r) % WordSize

\* What is counted in two places stays counted in two places.
LEMMA Balance ==
  ASSUME NEW e \in 0..WordSize - 1, NEW t \in 0..WordSize - 1,
         NEW r \in 0..WordSize - 1, Unexplained(e, t, r) = 0
  PROVE  /\ Unexplained((e + 1) % WordSize, (t + 1) % WordSize, r) = 0
         /\ Unexplained((e + 1) % WordSize, t, (r + 1) % WordSize) = 0
<1>1. WordSize \in Nat /\ WordSize > 1
  BY WordAssumption
<1>2. e - t - r \in {0, -WordSize}
  BY <1>1, NoRemainder DEF Unexplained
<1>3. PICK E \in Nat, T \in Nat, R \in Nat :
        /\ E = (e + 1) % WordSize /\ E = IF e + 1 = WordSize THEN 0 ELSE e + 1
        /\ T = (t + 1) % WordSize /\ T = IF t + 1 = WordSize THEN 0 ELSE t + 1
        /\ R = (r + 1) % WordSize /\ R = IF r + 1 = WordSize THEN 0 ELSE r + 1
  BY <1>1, CountedUp
<1>4. E - T - r \in {0, -WordSize} /\ E - t - R \in {0, -WordSize}
  BY <1>1, <1>2, <1>3
<1>5. Unexplained(E, T, r) = 0 /\ Unexplained(E, t, R) = 0
  BY <1>1, <1>4, NoRemainder DEF Unexplained
<1>6. QED
  BY <1>3, <1>5, Zenon

\* How a call that returns moves the counters of its operation, and of no other.
LEMMA ReturnCounts ==
  ASSUME TypeOK, call \in Calls, NEW ok \in BOOLEAN, NEW b \in {0, 1},
         NEW t \in {0, 1}, Return(ok, b, t)
  PROVE  /\ call.op \in Ops
         /\ cnt'[call.op].timeout = (cnt[call.op].timeout + t) % WordSize
         /\ cnt'[call.op].err = (cnt[call.op].err + IF ok THEN 0 ELSE 1) % WordSize
         /\ \A op \in Ops : op # call.op => cnt'[op] = cnt[op]
<1>1. call.op \in Ops
  BY CallShape DEF Ops
<1>2. QED
  BY <1>1 DEF Return, TypeOK

\* A call that fails is counted twice, as refused or as given up.
LEMMA FailureCounts ==
  ASSUME TypeOK, call \in Calls, FailuresExplained,
         \/ Refuse
         \/ refused' = refused /\ \E b \in {0, 1} : Return(FALSE, b, 1)
  PROVE  FailuresExplained'
<1> DEFINE op == call.op
<1>1. op \in Ops
  BY CallShape DEF Ops
<1>2. PICK c \in [berr : 0..WordSize - 1, timeout : 0..WordSize - 1,
                  err : 0..WordSize - 1] : c = cnt[op]
  BY <1>1 DEF TypeOK
<1>3. PICK r \in 0..WordSize - 1 : r = refused[op]
  BY <1>1 DEF TypeOK
<1>4. Unexplained(c.err, c.timeout, r) = 0
  BY <1>1, <1>2, <1>3, Zenon DEF FailuresExplained, Unexplained
<1>5. /\ c.err \in 0..WordSize - 1 /\ c.timeout \in 0..WordSize - 1
      /\ (c.timeout + 0) % WordSize = c.timeout
  BY <1>2, WordMoves
<1>6. /\ Unexplained((c.err + 1) % WordSize, (c.timeout + 1) % WordSize, r) = 0
      /\ Unexplained((c.err + 1) % WordSize, c.timeout, (r + 1) % WordSize) = 0
  BY <1>4, <1>5, Balance
<1>7. ASSUME NEW o \in Ops
      PROVE  Unexplained(cnt'[o].err, cnt'[o].timeout, refused'[o]) = 0
  <2>1. CASE Refuse
    <3>1. Return(FALSE, 0, 0) /\ refused' = [refused EXCEPT ![op] = (r + 1) % WordSize]
      BY <1>3, <2>1 DEF Refuse
    <3>2. /\ cnt'[op].timeout = c.timeout /\ cnt'[op].err = (c.err + 1) % WordSize
          /\ o # op => cnt'[o] = cnt[o]
      BY <1>2, <1>5, <3>1, ReturnCounts
    <3>3. /\ refused'[op] = (r + 1) % WordSize
          /\ o # op => refused'[o] = refused[o]
      BY <1>1, <3>1 DEF TypeOK
    <3>4. CASE o = op
      BY <1>6, <3>2, <3>3, <3>4, Zenon
    <3>5. CASE o # op
      BY <3>2, <3>3, <3>5, Zenon DEF FailuresExplained, Unexplained
    <3>6. QED
      BY <3>4, <3>5
  <2>2. CASE refused' = refused /\ \E b \in {0, 1} : Return(FALSE, b, 1)
    <3>1. /\ cnt'[op].timeout = (c.timeout + 1) % WordSize
          /\ cnt'[op].err = (c.err + 1) % WordSize
          /\ o # op => cnt'[o] = cnt[o]
      BY <1>2, <2>2, ReturnCounts
    <3>2. CASE o = op
      BY <1>3, <1>6, <2>2, <3>1, <3>2, Zenon
    <3>3. CASE o # op
      BY <2>2, <3>1, <3>3, Zenon DEF FailuresExplained, Unexplained
    <3>4. QED
      BY <3>2, <3>3
  <2>3. QED
    BY <2>1, <2>2
<1>8. QED
  BY <1>7, Zenon DEF FailuresExplained, Unexplained

\* A call that returns TRUE counts nothing.
LEMMA SuccessCounts ==
  ASSUME TypeOK, call \in Calls, FailuresExplained, Return(TRUE, 0, 0),
         refused' = refused
  PROVE  FailuresExplained'
<1> DEFINE op == call.op
<1>1. op \in Ops
  BY CallShape DEF Ops
<1>2. cnt[op].timeout \in 0..WordSize - 1 /\ cnt[op].err \in 0..WordSize - 1
  BY <1>1 DEF TypeOK
<1>3. /\ cnt'[op].timeout = cnt[op].timeout /\ cnt'[op].err = cnt[op].err
      /\ \A o \in Ops : o # op => cnt'[o] = cnt[o]
  BY <1>2, ReturnCounts, WordMoves
<1>4. QED
  BY <1>3 DEF FailuresExplained

\* A bus error that is not the last moves the count of bus errors only.
LEMMA BusErrorCounts ==
  ASSUME TypeOK, call \in Calls, FailuresExplained, refused' = refused,
         cnt' = [cnt EXCEPT ![call.op].berr = (@ + 1) % WordSize]
  PROVE  FailuresExplained'
<1>1. call.op \in Ops
  BY CallShape DEF Ops
<1>2. \A o \in Ops : cnt'[o].timeout = cnt[o].timeout /\ cnt'[o].err = cnt[o].err
  BY <1>1 DEF TypeOK
<1>3. QED
  BY <1>2 DEF FailuresExplained

\* The counters add up: every failure was a refusal or shows as a timeout.
THEOREM FailuresAddUp == Spec => []FailuresExplained
<1>1. Init => FailuresExplained
  <2>1. (0 - 0 - 0) % WordSize = 0
    BY WordAssumption
  <2>2. QED
    BY <2>1 DEF Init, FailuresExplained
<1>2. TypeOK /\ FailuresExplained /\ [Next]_vars => FailuresExplained'
  <2>1. SUFFICES ASSUME TypeOK, FailuresExplained, [Next]_vars
                 PROVE  FailuresExplained'
    OBVIOUS
  <2>2. at # "idle" => call \in Calls
    BY <2>1 DEF TypeOK
  <2>3. CASE UNCHANGED <<cnt, refused>>
    BY <2>1, <2>3 DEF FailuresExplained
  <2>4. CASE Start \/ AddressTaken \/ WriteByte
    BY <2>3, <2>4 DEF Start, AddressTaken, WriteByte, Await, history
  <2>5. CASE BusError
    <3>1. /\ at # "idle" /\ refused' = refused
          /\ \/ Return(FALSE, 1, 1)
             \/ cnt' = [cnt EXCEPT ![call.op].berr = (@ + 1) % WordSize]
      BY <2>5, Zenon DEF BusError
    <3>2. QED
      BY <2>1, <2>2, <3>1, FailureCounts, BusErrorCounts
  <2>6. CASE WaitLimit
    <3>1. at # "idle" /\ refused' = refused /\ Return(FALSE, 0, 1)
      BY <2>6 DEF WaitLimit, history
    <3>2. QED
      BY <2>1, <2>2, <3>1, FailureCounts
  <2>7. CASE AddressRefused \/ WriteRefused
    <3>1. at # "idle" /\ (Refuse \/ UNCHANGED <<cnt, refused>>)
      BY <2>7 DEF AddressRefused, WriteRefused, Await
    <3>2. QED
      BY <2>1, <2>2, <2>3, <3>1, FailureCounts
  <2>8. CASE WriteDone
    <3>1. at # "idle" /\ refused' = refused /\ Return(TRUE, 0, 0)
      BY <2>8 DEF WriteDone, history
    <3>2. QED
      BY <2>1, <2>2, <3>1, SuccessCounts
  <2>9. ASSUME NEW b \in ChipBytes, ReadByte(b) \/ ReadLast(b)
        PROVE  FailuresExplained'
    <3>1. at # "idle" /\ refused' = refused /\ (cnt' = cnt \/ Return(TRUE, 0, 0))
      BY <2>9 DEF ReadByte, ReadLast, Receive, Await
    <3>2. QED
      BY <2>1, <2>2, <2>3, <3>1, SuccessCounts
  <2>10. CASE UNCHANGED vars \/ \E c \in Calls : Call(c)
    BY <2>3, <2>10 DEF vars, master, history, Call
  <2>11. QED
    BY <2>1, <2>4, <2>5, <2>6, <2>7, <2>8, <2>9, <2>10 DEF Next, Work
<1>3. QED
  BY <1>1, <1>2, TypeCorrect, PTL DEF Spec
=============================================================================
