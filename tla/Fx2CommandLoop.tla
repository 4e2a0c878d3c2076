--------------------------- MODULE Fx2CommandLoop ---------------------------
(***************************************************************************)
(* The command interpreter of the FX2 firmware (fw/akb_pcr20x_fw.c,        *)
(* main_loop): it takes one frame at a time from the EP1OUT buffer, runs   *)
(* the commands in it one after another, then re-arms EP1OUT and, in a     *)
(* step of its own, hands over the bytes they produced through EP1IN.      *)
(*                                                                         *)
(* One action per command.  The bytes of a frame are kept, because the     *)
(* length fields decide how the interpreter walks through it; the bytes of *)
(* an answer are reduced to their number and to the frame they answer.     *)
(* Port registers are sets of bit numbers.  The diagnostic error counters  *)
(* of CMD_I2C_STATUS are left out, the twelve bytes it answers are not.    *)
(***************************************************************************)
EXTENDS Integers, Sequences

CONSTANTS
  Tags,       \* identities of frames, carried along to tell answers apart
  NoTag,      \* the tag of an empty endpoint buffer
  I2cResults, \* what i2c_read and i2c_write may return, a subset of BOOLEAN
  Pins,       \* the bits of port D that the board drives high
  StaleByte   \* what EP1OUTBUF holds beyond the frame: left by earlier ones

ASSUME TagAssumption    == NoTag \notin Tags
ASSUME ResultAssumption == I2cResults \in (SUBSET BOOLEAN) \ {{}}
ASSUME PinAssumption    == Pins \subseteq 0..7
ASSUME StaleAssumption  == StaleByte \in 0..255

VARIABLES
  ep1out,  \* the OUT buffer: busy while it waits for a frame of the host
  ep1in,   \* the IN buffer: busy while it holds an answer not yet fetched
  due,     \* the frame whose answer lies in EP1INBUF, not yet handed over
  parsing, \* main_loop is at work on a frame
  ptr,     \* the auto pointer: the next byte of the frame to read
  cmd_cnt, \* bytes of the frame still to come, a BYTE
  ret_cnt, \* bytes of the answer so far, a BYTE
  failed,  \* no variable of the code: a command of the frame was refused, cut
           \* short or not acknowledged on the I2C bus
  port,    \* ports D and B, the slave FIFO interface and the values kept for it
  fifo     \* whether each FIFO endpoint forwards packets by itself

cpu == <<parsing, ptr, cmd_cnt, ret_cnt, failed>>
fx2 == <<ep1out, ep1in, due, cpu, port, fifo>>

CMD_EP6IN_START  == \h50
CMD_EP6IN_STOP   == \h51
CMD_EP2OUT_START == \h52
CMD_EP2OUT_STOP  == \h53
CMD_PORT_CFG     == \h54
CMD_REG_READ     == \h55
CMD_REG_WRITE    == \h56
CMD_PORT_READ    == \h57
CMD_PORT_WRITE   == \h58
CMD_IFCONFIG     == \h59
CMD_MODE_IDLE    == \h5a
CMD_EP4IN_START  == \h5b
CMD_EP4IN_STOP   == \h5c
CMD_I2C_READ     == \h60
CMD_I2C_WRITE    == \h61
CMD_I2C_STATUS   == \h62

I2C_BUF_LEN == 16
EP1_SIZE    == 64
FifoEps     == {2, 4, 6}

StartCommand == [ep \in FifoEps |-> IF ep = 2 THEN CMD_EP2OUT_START
                                    ELSE IF ep = 4 THEN CMD_EP4IN_START
                                    ELSE CMD_EP6IN_START]
StopCommand  == [ep \in FifoEps |-> IF ep = 2 THEN CMD_EP2OUT_STOP
                                    ELSE IF ep = 4 THEN CMD_EP4IN_STOP
                                    ELSE CMD_EP6IN_STOP]

WithTwoArguments == {CMD_I2C_READ, CMD_I2C_WRITE, CMD_REG_WRITE, CMD_PORT_CFG}
WithOneArgument  == {CMD_REG_READ, CMD_PORT_WRITE, CMD_IFCONFIG}
Commands == WithTwoArguments \cup WithOneArgument
              \cup {CMD_I2C_STATUS, CMD_PORT_READ, CMD_MODE_IDLE}
              \cup {StartCommand[ep] : ep \in FifoEps}
              \cup {StopCommand[ep] : ep \in FifoEps}

\* Slip: a command with two arguments is let through with one.
ArgCountShort(op) == IF op \in WithTwoArguments \cup WithOneArgument THEN 1 ELSE 0

\* The bytes a command requires behind its opcode before it looks at them.
ArgCount(op) == IF op \in WithTwoArguments THEN 2
                ELSE IF op \in WithOneArgument THEN 1 ELSE 0

Bit  == 0..7
Byte == 0..255
Bits(b) == {i \in Bit : (b \div 2^i) % 2 = 1}

\* The four modes of the two upper bits of port D.
ModeBits   == {6, 7}
MODE_IDLE  == {}
MODE_REGR  == {6}
MODE_REGW  == {7}
MODE_START == {6, 7}

-----------------------------------------------------------------------------

EmptyOut == [busy |-> TRUE, tag |-> NoTag, bytes |-> <<>>]
EmptyIn  == [busy |-> FALSE, tag |-> NoTag, cnt |-> 0]

InitFx2 ==
  /\ ep1out = EmptyOut
  /\ ep1in = EmptyIn /\ due = NoTag
  /\ parsing = FALSE /\ ptr = 1 /\ cmd_cnt = 0 /\ ret_cnt = 0 /\ failed = FALSE
  /\ port = [iod |-> MODE_IDLE, oed |-> ModeBits, addr_mask |-> {},
             val_ifconfig |-> 0, ifconfig |-> \h80, oeb |-> 0, iob |-> 0]
  /\ fifo = [ep \in FifoEps |-> "manual"]

\* The k-th byte behind the auto pointer; 0 is the opcode itself.
Arg(k) == IF ptr + k \in DOMAIN ep1out.bytes
          THEN ep1out.bytes[ptr + k] ELSE StaleByte

\* A port bit configured as input reads as what the board drives.
ReadIOD == (port.iod \cap port.oed) \cup (Pins \ port.oed)

\* The interpreter stands at command op and all its arguments are there.
At(op) ==
  /\ parsing
  /\ cmd_cnt > 0
  /\ Arg(0) = op
  /\ cmd_cnt - 1 >= ArgCount(op)

\* The command and n bytes behind it are done with and m bytes are answered.
Consume(n, m, ok) ==
  /\ ptr' = ptr + 1 + n
  /\ cmd_cnt' = (cmd_cnt - 1 - n) % 256
  /\ ret_cnt' = (ret_cnt + m) % 256
  /\ failed' = (failed \/ ~ok)
  /\ UNCHANGED parsing

\* The rest of the frame is dropped.
GiveUp(n) ==
  /\ ptr' = ptr + 1 + n
  /\ cmd_cnt' = 0
  /\ failed' = TRUE
  /\ UNCHANGED <<parsing, ret_cnt>>

-----------------------------------------------------------------------------

\* Slip: a frame is taken up while the host has yet to fetch the last answer.
PollEager ==
  /\ ~parsing /\ due = NoTag /\ ~ep1out.busy
  /\ parsing' = TRUE
  /\ ptr' = 1 /\ cmd_cnt' = Len(ep1out.bytes) /\ ret_cnt' = 0 /\ failed' = FALSE
  /\ UNCHANGED <<ep1out, ep1in, due, port, fifo>>

\* A frame has arrived and the last answer has been fetched.
Poll ==
  /\ ~parsing /\ due = NoTag
  /\ ~ep1out.busy
  /\ ~ep1in.busy
  /\ parsing' = TRUE
  /\ ptr' = 1
  /\ cmd_cnt' = Len(ep1out.bytes)
  /\ ret_cnt' = 0
  /\ failed' = FALSE
  /\ UNCHANGED <<ep1out, ep1in, due, port, fifo>>

I2cRead ==
  LET len == Arg(2) IN
  /\ At(CMD_I2C_READ)
  /\ \/ len > I2C_BUF_LEN /\ GiveUp(2)
     \/ /\ len <= I2C_BUF_LEN
        /\ \E ok \in I2cResults : Consume(2, IF ok THEN len ELSE 0, ok)
  /\ UNCHANGED <<ep1out, ep1in, due, port, fifo>>

I2cWrite ==
  LET len == Arg(2) IN
  /\ At(CMD_I2C_WRITE)
  /\ \/ /\ len > I2C_BUF_LEN \/ cmd_cnt - 3 < len
        /\ GiveUp(2)
     \/ /\ len <= I2C_BUF_LEN /\ cmd_cnt - 3 >= len
        /\ \E ok \in I2cResults : Consume(2 + len, 0, ok)
  /\ UNCHANGED <<ep1out, ep1in, due, port, fifo>>

I2cStatus ==
  /\ At(CMD_I2C_STATUS)
  /\ Consume(0, 12, TRUE)
  /\ UNCHANGED <<ep1out, ep1in, due, port, fifo>>

RegWrite ==
  /\ At(CMD_REG_WRITE)
  /\ port' = [port EXCEPT
                !.iod = MODE_REGW \cup (ReadIOD \cap port.addr_mask) \cup Bits(Arg(1)),
                !.ifconfig = \hE0, !.oeb = \hff, !.iob = Arg(2)]
  /\ Consume(2, 0, TRUE)
  /\ UNCHANGED <<ep1out, ep1in, due, fifo>>

RegRead ==
  /\ At(CMD_REG_READ)
  /\ port' = [port EXCEPT
                !.iod = MODE_REGR \cup (ReadIOD \cap port.addr_mask) \cup Bits(Arg(1)),
                !.ifconfig = \hE0, !.oeb = 0]
  /\ Consume(1, 1, TRUE)
  /\ UNCHANGED <<ep1out, ep1in, due, fifo>>

PortWrite ==
  /\ At(CMD_PORT_WRITE)
  /\ port' = [port EXCEPT !.iod = (ReadIOD \ port.addr_mask) \cup Bits(Arg(1))]
  /\ Consume(1, 0, TRUE)
  /\ UNCHANGED <<ep1out, ep1in, due, fifo>>

PortRead ==
  /\ At(CMD_PORT_READ)
  /\ Consume(0, 1, TRUE)
  /\ UNCHANGED <<ep1out, ep1in, due, port, fifo>>

\* Slip: the complement is kept in an int instead of a BYTE.
PortCfgWide ==
  LET kept == Bits(Arg(1)) \cup ModeBits IN
  /\ At(CMD_PORT_CFG)
  /\ port' = [port EXCEPT !.oed = Bits(Arg(2)) \cup kept,
                          !.addr_mask = (0..15) \ kept]
  /\ Consume(2, 0, TRUE)
  /\ UNCHANGED <<ep1out, ep1in, due, fifo>>

PortCfg ==
  LET kept == Bits(Arg(1)) \cup ModeBits IN
  /\ At(CMD_PORT_CFG)
  /\ port' = [port EXCEPT !.oed = Bits(Arg(2)) \cup kept,
                          !.addr_mask = Bit \ kept]
  /\ Consume(2, 0, TRUE)
  /\ UNCHANGED <<ep1out, ep1in, due, fifo>>

IfConfig ==
  /\ At(CMD_IFCONFIG)
  /\ port' = [port EXCEPT !.val_ifconfig = Arg(1)]
  /\ Consume(1, 0, TRUE)
  /\ UNCHANGED <<ep1out, ep1in, due, fifo>>

FifoStart(ep) ==
  /\ At(StartCommand[ep])
  /\ port' = [port EXCEPT !.ifconfig = port.val_ifconfig,
                          !.iod = MODE_START \cup (ReadIOD \ ModeBits)]
  /\ fifo' = [fifo EXCEPT ![ep] = "auto"]
  /\ Consume(0, 0, TRUE)
  /\ UNCHANGED <<ep1out, ep1in, due>>

FifoStop(ep) ==
  /\ At(StopCommand[ep])
  /\ fifo' = [fifo EXCEPT ![ep] = "manual"]
  /\ Consume(0, 0, TRUE)
  /\ UNCHANGED <<ep1out, ep1in, due, port>>

ModeIdle ==
  /\ At(CMD_MODE_IDLE)
  /\ port' = [port EXCEPT !.iod = MODE_IDLE \cup (ReadIOD \ ModeBits)]
  /\ Consume(0, 0, TRUE)
  /\ UNCHANGED <<ep1out, ep1in, due, fifo>>

\* A byte that is no command is skipped.
Unknown ==
  /\ parsing /\ cmd_cnt > 0
  /\ Arg(0) \notin Commands
  /\ Consume(0, 0, FALSE)
  /\ UNCHANGED <<ep1out, ep1in, due, port, fifo>>

\* A command whose arguments are cut off ends the frame.
CutShort ==
  /\ parsing /\ cmd_cnt > 0
  /\ Arg(0) \in Commands
  /\ cmd_cnt - 1 < ArgCount(Arg(0))
  /\ GiveUp(0)
  /\ UNCHANGED <<ep1out, ep1in, due, port, fifo>>

\* Slip: EP1OUT is not re-armed.
RearmForgotten ==
  /\ parsing /\ cmd_cnt = 0
  /\ due' = IF ret_cnt = 0 THEN NoTag ELSE ep1out.tag
  /\ parsing' = FALSE /\ ptr' = 1 /\ failed' = FALSE
  /\ UNCHANGED <<ep1out, ep1in, cmd_cnt, ret_cnt, port, fifo>>

\* The frame is done and EP1OUT takes the next one; main_loop comes to that only
\* after it has handed over the answer, if there is one.
Rearm ==
  /\ parsing
  /\ cmd_cnt = 0
  /\ ep1out' = EmptyOut
  /\ due' = IF ret_cnt = 0 THEN NoTag ELSE ep1out.tag
  /\ parsing' = FALSE
  /\ ptr' = 1 /\ failed' = FALSE
  /\ UNCHANGED <<ep1in, cmd_cnt, ret_cnt, port, fifo>>

HandOver ==
  /\ due # NoTag
  /\ ep1in' = [busy |-> TRUE, tag |-> due, cnt |-> ret_cnt]
  /\ due' = NoTag /\ ret_cnt' = 0
  /\ UNCHANGED <<ep1out, parsing, ptr, cmd_cnt, failed, port, fifo>>

Execute ==
  \/ I2cRead \/ I2cWrite \/ I2cStatus
  \/ RegWrite \/ RegRead \/ PortWrite \/ PortRead \/ PortCfg \/ IfConfig
  \/ (\E ep \in FifoEps : FifoStart(ep) \/ FifoStop(ep))
  \/ ModeIdle \/ Unknown \/ CutShort

MainLoop == Poll \/ Execute \/ Rearm \/ HandOver

-----------------------------------------------------------------------------

Ports == [iod : SUBSET Bit, oed : SUBSET Bit, addr_mask : SUBSET Bit,
          val_ifconfig : Byte, ifconfig : Byte, oeb : Byte, iob : Byte]

TypeOKFx2 ==
  /\ ep1out \in [busy : BOOLEAN, tag : Tags \cup {NoTag}, bytes : Seq(Byte)]
  /\ Len(ep1out.bytes) <= EP1_SIZE
  /\ ep1in \in [busy : BOOLEAN, tag : Tags \cup {NoTag}, cnt : Byte]
  /\ due \in Tags \cup {NoTag}
  /\ parsing \in BOOLEAN /\ failed \in BOOLEAN
  /\ ptr \in Nat /\ cmd_cnt \in Byte /\ ret_cnt \in Byte
  /\ port \in Ports
  /\ fifo \in [FifoEps -> {"manual", "auto"}]

(***************************************************************************)
(* The two cursors of main_loop agree: what cmd_cnt says is left of the    *)
(* frame lies inside the packet the auto pointer walks through, so no      *)
(* command is ever read out of bytes an earlier frame left in EP1OUTBUF.   *)
(***************************************************************************)
ParserInSync == parsing => ptr + cmd_cnt <= Len(ep1out.bytes) + 1

(***************************************************************************)
(* While a frame is being interpreted its packet stays in the OUT buffer;  *)
(* from the first command to the moment the answer is handed over the IN   *)
(* buffer is free, so that the bytes written through the second auto       *)
(* pointer never mix with an answer the host still reads.                  *)
(***************************************************************************)
BuffersReserved ==
  /\ parsing => ~ep1out.busy /\ due = NoTag
  /\ parsing \/ due # NoTag => ~ep1in.busy

(***************************************************************************)
(* An answer fits the IN buffer the second auto pointer fills.  main_loop  *)
(* does not see to that: each command adds to the answer of its frame, and *)
(* only a host that asks for little in one frame keeps it within bounds.   *)
(***************************************************************************)
AnswerFits == ret_cnt <= EP1_SIZE /\ ep1in.cnt <= EP1_SIZE
=============================================================================
