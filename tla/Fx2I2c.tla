------------------------------- MODULE Fx2I2c -------------------------------
(***************************************************************************)
(* The firmware's I2C master (fw/i2c.c): i2c_write and i2c_read, which     *)
(* main_loop calls one at a time.  One action per observation of the       *)
(* controller: a byte is done with, the bus failed (bmBERR), nothing       *)
(* happened within I2C_WAIT_LIMIT polls.  A wait loop and the poll count   *)
(* that bounds it are one choice between these outcomes.                   *)
(*                                                                         *)
(* The controller and the chips are external.  It is assumed that bmSTART  *)
(* gives up whatever is under way, and that bmLASTRD, which refuses the    *)
(* byte it was set for, is down again after that byte or a bus error.      *)
(* cancel_i2c_trans is never set by this firmware and is left out.         *)
(***************************************************************************)
EXTENDS Integers, Sequences

CONSTANTS
  Messages,    \* the data of the writes
  ReadLengths, \* the lengths of the reads
  ChipBytes,   \* what a chip may send
  I2C_BERR_MAX_RETRY, \* 20 in the code
  WordSize,    \* what a WORD can hold: 2^16 in the code
  NoCall

\* The size of i2cbf: main_loop lets no longer transfer through.
I2C_BUF_LEN == 16

ASSUME MessageAssumption ==
  Messages \subseteq {m \in Seq(0..255) : Len(m) <= I2C_BUF_LEN}
ASSUME LengthAssumption  == ReadLengths \subseteq 0..I2C_BUF_LEN
ASSUME ChipAssumption    == ChipBytes \subseteq 0..255
ASSUME RetryAssumption   == I2C_BERR_MAX_RETRY \in 1..255
ASSUME WordAssumption    == WordSize \in Nat /\ WordSize > 1

Ops == {"read", "write"}
Calls == [op : {"write"}, data : Messages] \cup [op : {"read"}, len : ReadLengths]
ASSUME NoCallAssumption  == NoCall \notin Calls

VARIABLES
  call,        \* the last call of main_loop
  at,          \* "idle" when it has returned, otherwise what comes next: the
               \* "start", "address", "data" or "stop" on the bus
  cur_byte,
  retry_count, \* attempts left for an address nobody acknowledges
  berr_retry,  \* bus errors of this call
  lastrd,      \* bmLASTRD
  buf,         \* what i2c_read has stored since it last began
  result,      \* what the last call returned
  cnt,         \* the diagnostic counters of each operation
  bus,         \* "held" from bmSTART on, "stopping" after bmSTOP, then "free"
  wire,        \* no variable of the code: the bytes that have passed since the
               \* last bmSTART, each with whether its receiver acknowledged it
  refused      \* no variable of the code: calls refused by a chip, as a WORD

control == <<call, at, cur_byte, retry_count, berr_retry, lastrd>>
master  == <<control, buf, result, cnt>>
history == <<wire, refused>>
vars    == <<master, bus, history>>

Total == IF call.op = "write" THEN Len(call.data) ELSE call.len

Init ==
  /\ call = NoCall /\ at = "idle"
  /\ cur_byte = 0 /\ retry_count = 2 /\ berr_retry = 0
  /\ lastrd = FALSE /\ buf = <<>> /\ result = FALSE
  /\ cnt = [op \in Ops |-> [berr |-> 0, timeout |-> 0, err |-> 0]]
  /\ bus = "free" /\ wire = <<>>
  /\ refused = [op \in Ops |-> 0]

-----------------------------------------------------------------------------

\* main_loop counts every FALSE as well.
Return(ok, berrs, timeouts) ==
  /\ at' = "idle" /\ result' = ok
  /\ cnt' = [cnt EXCEPT ![call.op] =
               [berr    |-> (@.berr + berrs) % WordSize,
                timeout |-> (@.timeout + timeouts) % WordSize,
                err     |-> (@.err + IF ok THEN 0 ELSE 1) % WordSize]]
  /\ UNCHANGED call

\* The transfer goes on with the next byte.
Await(place) == at' = place /\ UNCHANGED <<call, result, cnt>>

\* bmSTOP; the wait for it to go down may run into its limit unnoticed.
Stop == bus' \in {"stopping", "free"}

Refuse ==
  /\ refused' = [refused EXCEPT ![call.op] = (@ + 1) % WordSize]
  /\ Return(FALSE, 0, 0)

Call(c) ==
  /\ at = "idle"
  /\ call' = c /\ at' = "start"
  /\ cur_byte' = 0 /\ retry_count' = 2 /\ berr_retry' = 0
  /\ buf' = <<>> /\ wire' = <<>>
  /\ UNCHANGED <<lastrd, result, cnt, bus, refused>>

\* Slip: the retry goes on with the byte that failed.
StartWithoutReset ==
  /\ at = "start"
  /\ Await("address")
  /\ bus' = "held" /\ lastrd' = FALSE /\ wire' = <<>> /\ buf' = <<>>
  /\ UNCHANGED <<cur_byte, retry_count, berr_retry, refused>>

\* Slip: every attempt counts its bus errors anew.
StartRecounting ==
  /\ at = "start"
  /\ Await("address")
  /\ cur_byte' = 0 /\ berr_retry' = 0
  /\ bus' = "held" /\ lastrd' = FALSE /\ wire' = <<>> /\ buf' = <<>>
  /\ UNCHANGED <<retry_count, refused>>

\* step1 and start: bmSTART is taken and the address written.
Start ==
  /\ at = "start"
  /\ Await("address")
  /\ cur_byte' = 0
  /\ bus' = "held" /\ lastrd' = FALSE /\ wire' = <<>> /\ buf' = <<>>
  /\ UNCHANGED <<retry_count, berr_retry, refused>>

\* bmBERR, after bmSTART or after any byte: the whole transfer again, without
\* bmSTOP, until the limit.
BusError ==
  /\ at \in {"start", "address", "data"}
  /\ bus' = "held" /\ lastrd' = FALSE
  /\ berr_retry' = berr_retry + 1
  /\ \/ /\ berr_retry + 1 >= I2C_BERR_MAX_RETRY
        /\ Return(FALSE, 1, 1)
     \/ /\ berr_retry + 1 < I2C_BERR_MAX_RETRY
        /\ at' = "start"
        /\ cnt' = [cnt EXCEPT ![call.op].berr = (@ + 1) % WordSize]
        /\ UNCHANGED <<call, result>>
  /\ cur_byte' = IF at = "start" THEN 0 ELSE cur_byte
  /\ UNCHANGED <<retry_count, buf, wire, refused>>

\* Slip: the give-up of a wait is not counted.
WaitLimitUncounted ==
  /\ at \in {"address", "data"}
  /\ Return(FALSE, 0, 0)
  /\ UNCHANGED <<cur_byte, retry_count, berr_retry, lastrd, buf, bus, history>>

\* i2c_wait_done runs into its limit: given up without bmSTOP.
WaitLimit ==
  /\ at \in {"address", "data"}
  /\ Return(FALSE, 0, 1)
  /\ UNCHANGED <<cur_byte, retry_count, berr_retry, lastrd, buf, bus, history>>

\* Slip: retry_count is decremented after the comparison.
AddressRefusedPost ==
  /\ at = "address"
  /\ Stop
  /\ \/ /\ call.op = "read"
        /\ UNCHANGED retry_count
        /\ Refuse
     \/ /\ call.op = "write"
        /\ retry_count' = (retry_count - 1) % 256
        /\ \/ retry_count = 0 /\ Refuse
           \/ retry_count # 0 /\ Await("start") /\ UNCHANGED refused
  /\ UNCHANGED <<cur_byte, berr_retry, lastrd, buf, wire>>

\* Nobody acknowledges the address: a write tries once more, a read does not.
AddressRefused ==
  /\ at = "address"
  /\ Stop
  /\ \/ /\ call.op = "read"
        /\ UNCHANGED retry_count
        /\ Refuse
     \/ /\ call.op = "write"
        /\ retry_count' = retry_count - 1
        /\ \/ retry_count - 1 = 0 /\ Refuse
           \/ retry_count - 1 # 0 /\ Await("start") /\ UNCHANGED refused
  /\ UNCHANGED <<cur_byte, berr_retry, lastrd, buf, wire>>

AddressTaken ==
  /\ at = "address"
  /\ lastrd' = (call.op = "read" /\ Total = 1)
  /\ Await(IF call.op = "write" /\ Total = 0 THEN "stop" ELSE "data")
  /\ UNCHANGED <<cur_byte, retry_count, berr_retry, buf, bus, history>>

\* The chip takes the next byte of a write.
WriteByte ==
  /\ at = "data" /\ call.op = "write"
  /\ wire' = Append(wire, [byte |-> call.data[cur_byte + 1], ack |-> TRUE])
  /\ cur_byte' = cur_byte + 1
  /\ Await(IF cur_byte + 1 < Total THEN "data" ELSE "stop")
  /\ UNCHANGED <<retry_count, berr_retry, lastrd, buf, bus, refused>>

\* Slip: a byte that is not acknowledged is retried like an address.
WriteRefusedRetry ==
  /\ at = "data" /\ call.op = "write"
  /\ Stop
  /\ retry_count' = retry_count - 1
  /\ \/ retry_count - 1 = 0 /\ Refuse
     \/ retry_count - 1 # 0 /\ Await("start") /\ UNCHANGED refused
  /\ UNCHANGED <<cur_byte, berr_retry, lastrd, buf, wire>>

\* The chip does not acknowledge a data byte.
WriteRefused ==
  /\ at = "data" /\ call.op = "write"
  /\ Stop
  /\ Refuse
  /\ UNCHANGED <<cur_byte, retry_count, berr_retry, lastrd, buf, wire>>

\* Slip: bmSTOP is left out on the way to TRUE.
WriteDoneHeld ==
  /\ at = "stop"
  /\ Return(TRUE, 0, 0)
  /\ UNCHANGED <<cur_byte, retry_count, berr_retry, lastrd, buf, bus, history>>

WriteDone ==
  /\ at = "stop"
  /\ Stop
  /\ Return(TRUE, 0, 0)
  /\ UNCHANGED <<cur_byte, retry_count, berr_retry, lastrd, buf, history>>

\* A byte of the chip arrives; the master acknowledges it unless bmLASTRD is set.
Receive(b) ==
  /\ at = "data" /\ call.op = "read"
  /\ wire' = Append(wire, [byte |-> b, ack |-> ~lastrd])
  /\ UNCHANGED <<retry_count, berr_retry, refused>>

ReadByte(b) ==
  /\ Receive(b)
  /\ Total > cur_byte + 1
  /\ buf' = Append(buf, b) /\ cur_byte' = cur_byte + 1
  /\ lastrd' = (Total = cur_byte + 2)
  /\ Await("data")
  /\ UNCHANGED bus

\* Also a read of no bytes clocks one in and stores it.
ReadLast(b) ==
  /\ Receive(b)
  /\ Total <= cur_byte + 1
  /\ buf' = Append(buf, b)
  /\ lastrd' = FALSE
  /\ Stop
  /\ Return(TRUE, 0, 0)
  /\ UNCHANGED cur_byte

Work ==
  \/ Start \/ BusError \/ WaitLimit \/ AddressRefused \/ AddressTaken
  \/ WriteByte \/ WriteRefused \/ WriteDone
  \/ \E b \in ChipBytes : ReadByte(b) \/ ReadLast(b)

Next == Work \/ \E c \in Calls : Call(c)

\* The 8051 keeps running: within a call it never waits without a limit.
Spec == Init /\ [][Next]_vars /\ WF_vars(Work)
-----------------------------------------------------------------------------

Places == {"idle", "start", "address", "data", "stop"}
Passed == [byte : 0..255, ack : BOOLEAN]

TypeOK ==
  /\ call \in Calls \cup {NoCall} /\ at \in Places
  /\ at # "idle" => call \in Calls
  /\ cur_byte \in 0..I2C_BUF_LEN /\ retry_count \in 0..2
  /\ berr_retry \in 0..I2C_BERR_MAX_RETRY
  /\ lastrd \in BOOLEAN /\ result \in BOOLEAN
  /\ cnt \in [Ops -> [berr : 0..WordSize - 1, timeout : 0..WordSize - 1,
                      err : 0..WordSize - 1]]
  /\ bus \in {"free", "held", "stopping"}
  /\ buf \in Seq(0..255) /\ wire \in Seq(Passed)
  /\ refused \in [Ops -> 0..WordSize - 1]

\* What main_loop sees of the master.
Service == INSTANCE I2cService WITH
  Requests <- Calls, NoRequest <- NoCall, passed <- wire, outcome <- result,
  request <- IF at = "idle" THEN NoCall ELSE call

(***************************************************************************)
(* TRUE means the transfer took place as a whole, however many attempts    *)
(* failed before at whatever byte: in one go after one bmSTART the chip    *)
(* took all the data, or sent what is now in the buffer and was told by a  *)
(* refused byte, and only then, to stop.                                   *)
(***************************************************************************)
WholeTransfer ==
  at = "idle" /\ result =>
    /\ Service!Complete(call, wire)
    /\ call.op = "read" => /\ Len(buf) = Len(wire)
                           /\ \A i \in 1..Len(buf) : buf[i] = wire[i].byte

(***************************************************************************)
(* Bytes a chip has already taken are sent to it again only after a bus    *)
(* error, never because it refused something: a write to a register with   *)
(* side effects is otherwise made once.                                    *)
(***************************************************************************)
NoSilentRepeat == at = "start" /\ wire # <<>> => berr_retry > 0

(***************************************************************************)
(* The diagnostic counters of CMD_I2C_STATUS add up: a call that failed    *)
(* either was refused by a chip or shows in the timeout counter.           *)
(***************************************************************************)
FailuresExplained ==
  \A op \in Ops : (cnt[op].err - cnt[op].timeout - refused[op]) % WordSize = 0

(***************************************************************************)
(* The timeout counters count the calls that left the bus without bmSTOP,  *)
(* each of them and no others.                                             *)
(***************************************************************************)
GiveUpsCounted ==
  [][at # "idle" /\ at' = "idle" =>
       (bus' = "held" <=> cnt'[call.op].timeout # cnt[call.op].timeout)]_vars

(***************************************************************************)
(* To main_loop the master is a service: every call comes back, after a    *)
(* bounded number of bus errors, and TRUE is never a lie.                  *)
(***************************************************************************)
ImplementsService == Service!Spec
=============================================================================
