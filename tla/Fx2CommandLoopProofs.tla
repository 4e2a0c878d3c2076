------------------------ MODULE Fx2CommandLoopProofs ------------------------
(***************************************************************************)
(* Lemmas about the firmware's command loop, whoever the host is: what one *)
(* command does to the cursors and the registers, which command a byte     *)
(* stands for, and the invariant every step of main_loop keeps.            *)
(***************************************************************************)
EXTENDS Fx2CommandLoop, TLAPS

-----------------------------------------------------------------------------
\* Every byte the interpreter looks at is a byte.
LEMMA ArgIsByte ==
  ASSUME TypeOKFx2, NEW k \in 0..2
  PROVE  Arg(k) \in Byte
<1>1. CASE ptr + k \in DOMAIN ep1out.bytes
  <2>1. ep1out.bytes \in Seq(Byte)
    BY DEF TypeOKFx2
  <2>2. ep1out.bytes[ptr + k] \in Byte
    BY <1>1, <2>1
  <2>3. QED
    BY <1>1, <2>2 DEF Arg
<1>2. CASE ptr + k \notin DOMAIN ep1out.bytes
  BY <1>2, StaleAssumption DEF Arg, Byte
<1>3. QED
  BY <1>1, <1>2

\* A set of bit numbers is what Bits returns.
LEMMA BitsAreBits == \A b : Bits(b) \subseteq Bit
  BY DEF Bits

\* ReadIOD is a set of bit numbers too.
LEMMA IODIsBits == TypeOKFx2 => ReadIOD \subseteq Bit
  BY PinAssumption DEF TypeOKFx2, Ports, ReadIOD, Bit

\* What a command must leave behind: cursors that still agree.
InFrame ==
  /\ parsing' \in BOOLEAN /\ failed' \in BOOLEAN
  /\ ptr' \in Nat /\ cmd_cnt' \in Byte /\ ret_cnt' \in Byte
  /\ parsing'
  /\ ptr' + cmd_cnt' <= Len(ep1out.bytes) + 1

\* Byte arithmetic of the two cursors.
LEMMA CursorArithmetic ==
  \A c, n \in 0..255, p, l \in Nat : n + 1 <= c /\ p + c <= l + 1 =>
    /\ (c - 1 - n) % 256 = c - 1 - n
    /\ c - 1 - n \in 0..255
    /\ p + 1 + n \in Nat
    /\ (p + 1 + n) + (c - 1 - n) <= l + 1
    /\ (p + 1 + n) + 0 <= l + 1
  OBVIOUS

\* A command with n bytes behind it moves both cursors by the same amount.
LEMMA ConsumeInFrame ==
  ASSUME TypeOKFx2, ParserInSync, parsing,
         NEW n \in 0..255, n + 1 <= cmd_cnt,
         NEW m \in 0..255, NEW ok \in BOOLEAN, Consume(n, m, ok)
  PROVE  InFrame
<1>1. /\ ptr \in Nat /\ cmd_cnt \in 0..255 /\ ret_cnt \in 0..255
      /\ ep1out.bytes \in Seq(Byte)
  BY DEF TypeOKFx2, Byte
<1>2. PICK l \in Nat : l = Len(ep1out.bytes)
  BY <1>1
<1>3. ptr + cmd_cnt <= l + 1
  BY <1>2 DEF ParserInSync
<1>4. /\ (cmd_cnt - 1 - n) % 256 = cmd_cnt - 1 - n
      /\ cmd_cnt - 1 - n \in 0..255
      /\ ptr + 1 + n \in Nat
      /\ (ptr + 1 + n) + (cmd_cnt - 1 - n) <= l + 1
  BY <1>1, <1>3, CursorArithmetic, ZenonT(40)
<1>5. ptr' \in Nat /\ cmd_cnt' \in 0..255 /\ ptr' + cmd_cnt' <= l + 1
  BY <1>4 DEF Consume
<1>6. ret_cnt' \in 0..255
  BY <1>1 DEF Consume
<1>7. parsing' = TRUE /\ failed' \in BOOLEAN
  BY DEF Consume, TypeOKFx2
<1>8. QED
  BY <1>2, <1>5, <1>6, <1>7 DEF InFrame, Byte

\* Giving up leaves the auto pointer inside the frame.
LEMMA GiveUpInFrame ==
  ASSUME TypeOKFx2, ParserInSync, parsing,
         NEW n \in 0..255, n + 1 <= cmd_cnt, GiveUp(n)
  PROVE  InFrame
<1>1. /\ ptr \in Nat /\ cmd_cnt \in 0..255 /\ ret_cnt \in 0..255
      /\ ep1out.bytes \in Seq(Byte)
  BY DEF TypeOKFx2, Byte
<1>2. PICK l \in Nat : l = Len(ep1out.bytes)
  BY <1>1
<1>3. ptr + cmd_cnt <= l + 1
  BY <1>2 DEF ParserInSync
<1>4. ptr + 1 + n \in Nat /\ (ptr + 1 + n) + 0 <= l + 1
  BY <1>1, <1>3, CursorArithmetic, ZenonT(40)
<1>5. /\ parsing' = TRUE /\ failed' = TRUE /\ ret_cnt' \in 0..255
      /\ ptr' \in Nat /\ cmd_cnt' = 0 /\ ptr' + cmd_cnt' <= l + 1
  BY <1>1, <1>4 DEF GiveUp
<1>6. QED
  BY <1>2, <1>5 DEF InFrame, Byte

\* A command is run only when its arguments are there.
LEMMA ArgumentsPresent ==
  ASSUME TypeOKFx2, NEW op, At(op)
  PROVE  /\ parsing /\ 0 + 1 <= cmd_cnt
         /\ op \in WithOneArgument => 1 + 1 <= cmd_cnt
         /\ op \in WithTwoArguments => 2 + 1 <= cmd_cnt
<1>1. cmd_cnt \in 0..255
  BY DEF TypeOKFx2, Byte
<1>2. parsing /\ cmd_cnt > 0 /\ cmd_cnt - 1 >= ArgCount(op)
  BY DEF At
<1>3. op \in WithTwoArguments => ArgCount(op) = 2
  BY DEF ArgCount
<1>4. op \in WithOneArgument => ArgCount(op) = 1
  BY DEF ArgCount, WithOneArgument, WithTwoArguments, CMD_REG_READ,
         CMD_PORT_WRITE, CMD_IFCONFIG, CMD_I2C_READ, CMD_I2C_WRITE,
         CMD_REG_WRITE, CMD_PORT_CFG
<1>5. QED
  BY <1>1, <1>2, <1>3, <1>4

\* Every command keeps the cursors in step and the types of the registers.
LEMMA CommandsInFrame ==
  ASSUME TypeOKFx2, ParserInSync, Execute
  PROVE  /\ InFrame
         /\ UNCHANGED <<ep1out, ep1in, due>>
         /\ port' \in Ports
         /\ fifo' \in [FifoEps -> {"manual", "auto"}]
<1> DEFINE Goal == /\ InFrame
                   /\ UNCHANGED <<ep1out, ep1in, due>>
                   /\ port' \in Ports
                   /\ fifo' \in [FifoEps -> {"manual", "auto"}]
<1>0. /\ port \in Ports /\ fifo \in [FifoEps -> {"manual", "auto"}]
      /\ cmd_cnt \in 0..255
      /\ \A k \in 0..2 : Arg(k) \in 0..255
  BY ArgIsByte DEF TypeOKFx2, Byte
<1>a. 0 \in 0..255 /\ 1 \in 0..255 /\ 2 \in 0..255 /\ 12 \in 0..255
      /\ TRUE \in BOOLEAN /\ FALSE \in BOOLEAN
  OBVIOUS
<1>b. /\ ReadIOD \subseteq Bit /\ \A b : Bits(b) \subseteq Bit
      /\ MODE_REGR \subseteq Bit /\ MODE_REGW \subseteq Bit
      /\ MODE_START \subseteq Bit /\ ModeBits \subseteq Bit
  BY IODIsBits, BitsAreBits DEF MODE_REGR, MODE_REGW, MODE_START, ModeBits, Bit
<1>1. CASE I2cRead
  <2>1. At(CMD_I2C_READ) /\ CMD_I2C_READ \in WithTwoArguments
    BY <1>1 DEF I2cRead, WithTwoArguments
  <2>2. parsing /\ 2 + 1 <= cmd_cnt
    BY <2>1, ArgumentsPresent
  <2>3. CASE GiveUp(2)
    BY <1>0, <1>1, <2>2, <2>3, GiveUpInFrame DEF I2cRead
  <2>4. ASSUME NEW ok \in I2cResults, Consume(2, IF ok THEN Arg(2) ELSE 0, ok)
        PROVE  Goal
    <3>1. ok \in BOOLEAN /\ (IF ok THEN Arg(2) ELSE 0) \in 0..255
      BY <1>0, ResultAssumption
    <3>2. InFrame
      BY <1>a, <2>2, <2>4, <3>1, ConsumeInFrame, Zenon
    <3>3. QED
      BY <1>0, <1>1, <3>2 DEF I2cRead
  <2>5. QED
    BY <1>1, <2>3, <2>4 DEF I2cRead
<1>2. CASE I2cWrite
  <2>1. At(CMD_I2C_WRITE) /\ CMD_I2C_WRITE \in WithTwoArguments
    BY <1>2 DEF I2cWrite, WithTwoArguments
  <2>2. parsing /\ 2 + 1 <= cmd_cnt
    BY <2>1, ArgumentsPresent
  <2>3. CASE GiveUp(2)
    BY <1>0, <1>2, <2>2, <2>3, GiveUpInFrame DEF I2cWrite
  <2>4. ASSUME NEW ok \in I2cResults, Arg(2) <= I2C_BUF_LEN,
               cmd_cnt - 3 >= Arg(2), Consume(2 + Arg(2), 0, ok)
        PROVE  Goal
    <3>1. (2 + Arg(2)) \in 0..255 /\ (2 + Arg(2)) + 1 <= cmd_cnt
      BY <1>0, <2>4 DEF I2C_BUF_LEN
    <3>2. ok \in BOOLEAN
      BY ResultAssumption
    <3>3. InFrame
      BY <1>a, <2>2, <2>4, <3>1, <3>2, ConsumeInFrame, Zenon
    <3>4. QED
      BY <1>0, <1>2, <3>3 DEF I2cWrite
  <2>5. QED
    BY <1>2, <2>3, <2>4 DEF I2cWrite
<1>3. CASE I2cStatus \/ PortRead \/ ModeIdle \/ Unknown
  <2>1. parsing /\ 0 + 1 <= cmd_cnt
    <3>1. CASE Unknown
      BY <1>0, <3>1 DEF Unknown
    <3>2. CASE I2cStatus \/ PortRead \/ ModeIdle
      BY <3>2, ArgumentsPresent, Zenon DEF I2cStatus, PortRead, ModeIdle
    <3>3. QED
      BY <1>3, <3>1, <3>2
  <2>2. \/ Consume(0, 12, TRUE) \/ Consume(0, 1, TRUE)
        \/ Consume(0, 0, TRUE) \/ Consume(0, 0, FALSE)
    BY <1>3 DEF I2cStatus, PortRead, ModeIdle, Unknown
  <2>3. InFrame
    BY <1>a, <2>1, <2>2, ConsumeInFrame, Zenon
  <2>4. port' \in Ports
    BY <1>0, <1>3, IODIsBits, ZenonT(40) DEF I2cStatus, PortRead, ModeIdle, Unknown, Ports, MODE_IDLE
  <2>5. QED
    BY <1>0, <1>3, <2>3, <2>4 DEF I2cStatus, PortRead, ModeIdle, Unknown
<1>4. CASE CutShort
  <2>1. parsing /\ 0 + 1 <= cmd_cnt
    BY <1>0, <1>4 DEF CutShort
  <2>2. InFrame
    BY <1>4, <2>1, GiveUpInFrame DEF CutShort
  <2>3. QED
    BY <1>0, <1>4, <2>2 DEF CutShort
<1>5. ASSUME NEW ep \in FifoEps, FifoStart(ep) \/ FifoStop(ep) PROVE Goal
  <2>1. parsing /\ 0 + 1 <= cmd_cnt
    BY <1>5, ArgumentsPresent DEF FifoStart, FifoStop
  <2>2. InFrame
    BY <1>a, <1>5, <2>1, ConsumeInFrame, Zenon DEF FifoStart, FifoStop
  <2>3. port' \in Ports
    <3>1. MODE_START \cup (ReadIOD \ ModeBits) \in SUBSET Bit
      BY <1>b
    <3>2. CASE FifoStart(ep)
      BY <1>0, <3>1, <3>2 DEF FifoStart, Ports
    <3>3. CASE FifoStop(ep)
      BY <1>0, <3>3 DEF FifoStop
    <3>4. QED
      BY <1>5, <3>2, <3>3
  <2>4. fifo' \in [FifoEps -> {"manual", "auto"}]
    BY <1>0, <1>5 DEF FifoStart, FifoStop
  <2>5. QED
    BY <1>5, <2>2, <2>3, <2>4 DEF FifoStart, FifoStop
<1>6. CASE RegWrite \/ PortCfg
  <2>1. parsing /\ 2 + 1 <= cmd_cnt
    BY <1>6, ArgumentsPresent DEF RegWrite, PortCfg, WithTwoArguments
  <2>2. InFrame
    BY <1>a, <1>6, <2>1, ConsumeInFrame, Zenon DEF RegWrite, PortCfg
  <2>3. port' \in Ports
    <3>1. /\ MODE_REGW \cup (ReadIOD \cap port.addr_mask) \cup Bits(Arg(1)) \in SUBSET Bit
          /\ Bits(Arg(2)) \cup (Bits(Arg(1)) \cup ModeBits) \in SUBSET Bit
          /\ Bit \ (Bits(Arg(1)) \cup ModeBits) \in SUBSET Bit
      BY <1>b
    <3>2. \hE0 \in Byte /\ \hff \in Byte /\ Arg(2) \in Byte
      BY <1>0 DEF Byte
    <3>3. CASE RegWrite
      <4>1. PICK iod \in SUBSET Bit, b \in Byte, e0 \in Byte, ff \in Byte :
              port' = [port EXCEPT !.iod = iod, !.ifconfig = e0, !.oeb = ff, !.iob = b]
        BY <3>1, <3>2, <3>3, ZenonT(40) DEF RegWrite
      <4>2. QED
        BY <1>0, <4>1 DEF Ports
    <3>4. CASE PortCfg
      BY <1>0, <3>1, <3>4 DEF PortCfg, Ports
    <3>5. QED
      BY <1>6, <3>3, <3>4
  <2>4. QED
    BY <1>0, <1>6, <2>2, <2>3 DEF RegWrite, PortCfg
<1>7. CASE RegRead \/ PortWrite \/ IfConfig
  <2>1. parsing /\ 1 + 1 <= cmd_cnt
    BY <1>7, ArgumentsPresent DEF RegRead, PortWrite, IfConfig, WithOneArgument
  <2>2. Consume(1, 0, TRUE) \/ Consume(1, 1, TRUE)
    BY <1>7 DEF RegRead, PortWrite, IfConfig
  <2>3. InFrame
    BY <1>a, <2>1, <2>2, ConsumeInFrame, Zenon
  <2>4. port' \in Ports
    <3>1. /\ MODE_REGR \cup (ReadIOD \cap port.addr_mask) \cup Bits(Arg(1)) \in SUBSET Bit
          /\ (ReadIOD \ port.addr_mask) \cup Bits(Arg(1)) \in SUBSET Bit
      BY <1>b
    <3>2. \hE0 \in Byte /\ 0 \in Byte /\ Arg(1) \in Byte
      BY <1>0 DEF Byte
    <3>3. CASE RegRead
      <4>1. PICK iod \in SUBSET Bit, e0 \in Byte, zero \in Byte :
              port' = [port EXCEPT !.iod = iod, !.ifconfig = e0, !.oeb = zero]
        BY <3>1, <3>2, <3>3 DEF RegRead
      <4>2. QED
        BY <1>0, <4>1 DEF Ports
    <3>4. CASE PortWrite
      BY <1>0, <3>1, <3>4 DEF PortWrite, Ports
    <3>5. CASE IfConfig
      BY <1>0, <3>2, <3>5 DEF IfConfig, Ports
    <3>6. QED
      BY <1>7, <3>3, <3>4, <3>5
  <2>5. QED
    BY <1>0, <1>7, <2>3, <2>4 DEF RegRead, PortWrite, IfConfig
<1>8. QED
  BY <1>1, <1>2, <1>3, <1>4, <1>5, <1>6, <1>7 DEF Execute

-----------------------------------------------------------------------------
(***************************************************************************)
(* The inductive invariant.  A tag stands for a buffer in use, and the     *)
(* frame under interpretation keeps its packet while EP1IN is free.        *)
(***************************************************************************)
TagsAgree ==
  /\ ep1out.busy <=> ep1out.tag = NoTag
  /\ ep1in.busy <=> ep1in.tag # NoTag

LoopInv == TypeOKFx2 /\ ParserInSync /\ BuffersReserved /\ TagsAgree

\* A packet's length is a byte; the bounds of an interval.
LEMMA PacketLength ==
  /\ 0 \in Byte
  /\ \A l \in Nat : l <= 64 => l \in Byte
  /\ \A l : l \in 1..EP1_SIZE => l <= EP1_SIZE
BY DEF Byte, EP1_SIZE

\* It holds when main_init is done.
LEMMA LoopInit == InitFx2 => LoopInv
<1> SUFFICES ASSUME InitFx2 PROVE LoopInv
  OBVIOUS
<1>1. /\ ep1out = EmptyOut /\ ep1in = EmptyIn /\ due = NoTag /\ parsing = FALSE
      /\ ptr = 1 /\ cmd_cnt = 0 /\ ret_cnt = 0 /\ failed = FALSE
  BY DEF InitFx2
<1>2. /\ ep1out \in [busy : BOOLEAN, tag : Tags \cup {NoTag}, bytes : Seq(Byte)]
      /\ Len(ep1out.bytes) <= EP1_SIZE
  BY <1>1 DEF EmptyOut, EP1_SIZE
<1>3. ep1in \in [busy : BOOLEAN, tag : Tags \cup {NoTag}, cnt : Byte]
  BY <1>1 DEF EmptyIn, Byte
<1>4. port \in Ports
  BY DEF InitFx2, Ports, MODE_IDLE, ModeBits, Bit, Byte
<1>5. fifo \in [FifoEps -> {"manual", "auto"}]
  BY DEF InitFx2
<1>6. ptr \in Nat /\ cmd_cnt \in Byte /\ ret_cnt \in Byte
  BY <1>1 DEF Byte
<1>9. parsing \in BOOLEAN /\ failed \in BOOLEAN
  BY <1>1
<1>10. TypeOKFx2
  BY <1>1, <1>2, <1>3, <1>4, <1>5, <1>6, <1>9 DEF TypeOKFx2
<1>7. TagsAgree
  BY <1>1 DEF TagsAgree, EmptyOut, EmptyIn
<1>8. QED
  BY <1>1, <1>10, <1>7 DEF LoopInv, ParserInSync, BuffersReserved

\* Every step of the firmware keeps it.
LEMMA LoopStep == ASSUME LoopInv, MainLoop PROVE LoopInv'
<1>0. TypeOKFx2 /\ ParserInSync /\ BuffersReserved /\ TagsAgree
  BY DEF LoopInv
<1>1. CASE Poll
  <2>1. /\ parsing' = TRUE /\ ptr' = 1 /\ cmd_cnt' = Len(ep1out.bytes)
        /\ ret_cnt' = 0 /\ failed' = FALSE /\ UNCHANGED <<ep1out, ep1in, due, port, fifo>>
    BY <1>1 DEF Poll
  <2>2. Len(ep1out.bytes) \in Nat /\ Len(ep1out.bytes) <= 64
    BY <1>0 DEF TypeOKFx2, EP1_SIZE
  <2>8. PICK l \in Nat : l = Len(ep1out.bytes) /\ l <= 64
    BY <2>2
  <2>9. l \in Byte /\ 0 \in Byte
    BY <2>8, PacketLength, Zenon
  <2>3. ptr' \in Nat /\ cmd_cnt' \in Byte /\ ret_cnt' \in Byte
    BY <2>1, <2>8, <2>9
  <2>4. TypeOKFx2'
    BY <1>0, <2>1, <2>3 DEF TypeOKFx2
  <2>5. ParserInSync'
    BY <2>1, <2>2 DEF ParserInSync
  <2>6. ~ep1out.busy /\ ~ep1in.busy /\ due = NoTag
    BY <1>1 DEF Poll
  <2>7. QED
    BY <1>0, <2>1, <2>4, <2>5, <2>6 DEF LoopInv, BuffersReserved, TagsAgree
<1>2. CASE Execute
  <2>1. /\ InFrame /\ UNCHANGED <<ep1out, ep1in, due>> /\ port' \in Ports
        /\ fifo' \in [FifoEps -> {"manual", "auto"}]
    BY <1>0, <1>2, CommandsInFrame
  <2>2. TypeOKFx2' /\ ParserInSync'
    BY <1>0, <2>1 DEF TypeOKFx2, InFrame, ParserInSync
  <2>3. parsing
    BY <1>2 DEF Execute, I2cRead, I2cWrite, I2cStatus, RegWrite, RegRead, PortWrite,
                PortRead, PortCfg, IfConfig, FifoStart, FifoStop, ModeIdle, Unknown,
                CutShort, At
  <2>4. QED
    BY <1>0, <2>1, <2>2, <2>3 DEF LoopInv, BuffersReserved, TagsAgree
<1>3. CASE Rearm
  <2>1. /\ parsing /\ ep1out' = EmptyOut /\ parsing' = FALSE /\ ptr' = 1 /\ failed' = FALSE
        /\ due' = IF ret_cnt = 0 THEN NoTag ELSE ep1out.tag
        /\ UNCHANGED <<ep1in, cmd_cnt, ret_cnt, port, fifo>>
    BY <1>3 DEF Rearm
  <2>2. /\ ep1out' \in [busy : BOOLEAN, tag : Tags \cup {NoTag}, bytes : Seq(Byte)]
        /\ Len(ep1out'.bytes) <= EP1_SIZE
    BY <2>1 DEF EmptyOut, EP1_SIZE
  <2>3. ~ep1in.busy /\ due' \in Tags \cup {NoTag}
    BY <1>0, <2>1 DEF BuffersReserved, TypeOKFx2
  <2>4. TypeOKFx2'
    BY <1>0, <2>1, <2>2, <2>3 DEF TypeOKFx2
  <2>5. TagsAgree'
    BY <1>0, <2>1 DEF TagsAgree, EmptyOut
  <2>6. QED
    BY <2>1, <2>3, <2>4, <2>5 DEF LoopInv, ParserInSync, BuffersReserved
<1>4. CASE HandOver
  <2>1. /\ due # NoTag /\ ep1in' = [busy |-> TRUE, tag |-> due, cnt |-> ret_cnt]
        /\ due' = NoTag /\ ret_cnt' = 0
        /\ UNCHANGED <<ep1out, parsing, ptr, cmd_cnt, failed, port, fifo>>
    BY <1>4 DEF HandOver
  <2>2. ~parsing
    BY <1>0, <2>1 DEF BuffersReserved
  <2>3. /\ ep1in' \in [busy : BOOLEAN, tag : Tags \cup {NoTag}, cnt : Byte]
        /\ ret_cnt' \in Byte /\ due' \in Tags \cup {NoTag}
    BY <1>0, <2>1, PacketLength DEF TypeOKFx2
  <2>4. TypeOKFx2'
    BY <1>0, <2>1, <2>3 DEF TypeOKFx2
  <2>5. TagsAgree'
    BY <1>0, <2>1 DEF TagsAgree
  <2>6. QED
    BY <2>1, <2>2, <2>4, <2>5 DEF LoopInv, ParserInSync, BuffersReserved
<1>5. QED
  BY <1>1, <1>2, <1>3, <1>4 DEF MainLoop

\* A frame of the host's choice is accepted.
LEMMA FrameAccepted ==
  ASSUME LoopInv, NEW t \in Tags, NEW f \in Seq(Byte), Len(f) <= EP1_SIZE,
         ep1out.busy, ep1out' = [busy |-> FALSE, tag |-> t, bytes |-> f],
         UNCHANGED <<ep1in, due, cpu, port, fifo>>
  PROVE  LoopInv'
<1>1. TypeOKFx2 /\ ParserInSync /\ BuffersReserved /\ TagsAgree
  BY DEF LoopInv
<1>2. /\ ep1out' \in [busy : BOOLEAN, tag : Tags \cup {NoTag}, bytes : Seq(Byte)]
      /\ Len(ep1out'.bytes) <= EP1_SIZE
  OBVIOUS
<1>3. ~parsing
  BY <1>1 DEF BuffersReserved
<1>4. TypeOKFx2'
  BY <1>1, <1>2 DEF TypeOKFx2, cpu
<1>5. TagsAgree'
  BY <1>1, TagAssumption DEF TagsAgree
<1>6. QED
  BY <1>3, <1>4, <1>5 DEF LoopInv, ParserInSync, BuffersReserved, cpu

\* The host fetches the answer.
LEMMA AnswerFetched ==
  ASSUME LoopInv, ep1in' = EmptyIn, UNCHANGED <<ep1out, cpu, port, fifo, due>>
  PROVE  LoopInv'
<1>1. TypeOKFx2 /\ ParserInSync /\ BuffersReserved /\ TagsAgree
  BY DEF LoopInv
<1>2. ep1in' \in [busy : BOOLEAN, tag : Tags \cup {NoTag}, cnt : Byte]
  BY DEF EmptyIn, Byte
<1>3. TypeOKFx2'
  BY <1>1, <1>2 DEF TypeOKFx2, cpu
<1>4. QED
  BY <1>1, <1>3 DEF LoopInv, ParserInSync, BuffersReserved, TagsAgree, EmptyIn, cpu

\* Nothing happens.
LEMMA LoopUnchanged ==
  ASSUME LoopInv, UNCHANGED fx2 PROVE LoopInv'
  BY DEF LoopInv, fx2, cpu, TypeOKFx2, ParserInSync, BuffersReserved, TagsAgree

-----------------------------------------------------------------------------
(* Which command is run, and what it leaves alone. *)

\* The opcode decides, and a command whose arguments are there is carried out.
LEMMA Dispatch ==
  ASSUME TypeOKFx2, Execute, cmd_cnt - 1 >= ArgCount(Arg(0))
  PROVE  /\ Arg(0) = CMD_I2C_READ    => I2cRead
         /\ Arg(0) = CMD_I2C_WRITE   => I2cWrite
         /\ Arg(0) = CMD_PORT_CFG    => PortCfg
         /\ Arg(0) = CMD_PORT_WRITE  => PortWrite
         /\ Arg(0) = CMD_IFCONFIG    => IfConfig
         /\ Arg(0) = CMD_MODE_IDLE   => ModeIdle
         /\ Arg(0) = CMD_EP6IN_START => FifoStart(6)
         /\ Arg(0) = CMD_EP6IN_STOP  => FifoStop(6)
<1>1. /\ I2cRead   => Arg(0) = CMD_I2C_READ
      /\ I2cWrite  => Arg(0) = CMD_I2C_WRITE
      /\ I2cStatus => Arg(0) = CMD_I2C_STATUS
      /\ RegWrite  => Arg(0) = CMD_REG_WRITE
      /\ RegRead   => Arg(0) = CMD_REG_READ
      /\ PortWrite => Arg(0) = CMD_PORT_WRITE
      /\ PortRead  => Arg(0) = CMD_PORT_READ
      /\ PortCfg   => Arg(0) = CMD_PORT_CFG
      /\ IfConfig  => Arg(0) = CMD_IFCONFIG
      /\ ModeIdle  => Arg(0) = CMD_MODE_IDLE
      /\ Unknown   => Arg(0) \notin Commands
      /\ \A ep \in FifoEps : /\ FifoStart(ep) => Arg(0) = StartCommand[ep]
                             /\ FifoStop(ep)  => Arg(0) = StopCommand[ep]
  BY Zenon DEF I2cRead, I2cWrite, I2cStatus, RegWrite, RegRead, PortWrite, PortRead, PortCfg,
               IfConfig, ModeIdle, Unknown, FifoStart, FifoStop, At
<1>2. ~CutShort
  <2>1. cmd_cnt \in 0..255 /\ ArgCount(Arg(0)) \in 0..2
    BY DEF TypeOKFx2, Byte, ArgCount
  <2> QED BY <2>1 DEF CutShort
<1>3. /\ FifoEps = {2, 4, 6}
      /\ StartCommand[2] = CMD_EP2OUT_START /\ StopCommand[2] = CMD_EP2OUT_STOP
      /\ StartCommand[4] = CMD_EP4IN_START /\ StopCommand[4] = CMD_EP4IN_STOP
      /\ StartCommand[6] = CMD_EP6IN_START /\ StopCommand[6] = CMD_EP6IN_STOP
  BY DEF FifoEps, StartCommand, StopCommand
<1>4. \A op \in {CMD_I2C_READ, CMD_I2C_WRITE, CMD_PORT_CFG, CMD_PORT_WRITE, CMD_IFCONFIG,
                 CMD_MODE_IDLE, CMD_EP6IN_START, CMD_EP6IN_STOP} : op \in Commands
  BY <1>3 DEF Commands, WithTwoArguments, WithOneArgument
<1>5. \/ I2cRead \/ I2cWrite \/ I2cStatus \/ RegWrite \/ RegRead \/ PortWrite \/ PortRead
      \/ PortCfg \/ IfConfig \/ ModeIdle \/ Unknown
      \/ FifoStart(2) \/ FifoStart(4) \/ FifoStart(6)
      \/ FifoStop(2) \/ FifoStop(4) \/ FifoStop(6)
  BY <1>2, <1>3 DEF Execute
<1> QED
  BY <1>1, <1>3, <1>4, <1>5
  DEF CMD_EP6IN_START, CMD_EP6IN_STOP, CMD_EP2OUT_START, CMD_EP2OUT_STOP, CMD_PORT_CFG,
      CMD_REG_READ, CMD_REG_WRITE, CMD_PORT_READ, CMD_PORT_WRITE, CMD_IFCONFIG, CMD_MODE_IDLE,
      CMD_EP4IN_START, CMD_EP4IN_STOP, CMD_I2C_READ, CMD_I2C_WRITE, CMD_I2C_STATUS

\* A command finds the interpreter at work with something left of the frame.
LEMMA ExecuteBusy == Execute => parsing /\ cmd_cnt > 0
  BY DEF Execute, I2cRead, I2cWrite, I2cStatus, RegWrite, RegRead, PortWrite, PortRead,
         PortCfg, IfConfig, FifoStart, FifoStop, ModeIdle, Unknown, CutShort, At

\* The two mode pins are outputs, and no address the port is masked with.
ModePins == ModeBits \subseteq port.oed /\ port.addr_mask \cap ModeBits = {}

\* No command makes inputs of them: CMD_PORT_CFG adds them to what it is told.
LEMMA ModePinsKept == ASSUME TypeOKFx2, ModePins, Execute PROVE ModePins'
<1>1. port \in Ports
  BY DEF TypeOKFx2
<1>2. CASE PortCfg
  BY <1>1, <1>2 DEF PortCfg, Ports, ModePins
<1>3. ASSUME port'.oed = port.oed, port'.addr_mask = port.addr_mask PROVE ModePins'
  BY <1>3 DEF ModePins
<1>4. CASE ~PortCfg
  <2>1. CASE UNCHANGED port
    BY <1>3, <2>1
  <2>2. CASE RegWrite \/ RegRead \/ PortWrite \/ IfConfig \/ ModeIdle
    <3>1. port'.oed = port.oed /\ port'.addr_mask = port.addr_mask
      <4>1. CASE RegWrite
        BY <1>1, <4>1 DEF RegWrite, Ports
      <4>2. CASE RegRead
        BY <1>1, <4>2 DEF RegRead, Ports
      <4>3. CASE PortWrite
        BY <1>1, <4>3 DEF PortWrite, Ports
      <4>4. CASE IfConfig
        BY <1>1, <4>4 DEF IfConfig, Ports
      <4>5. CASE ModeIdle
        BY <1>1, <4>5 DEF ModeIdle, Ports
      <4> QED BY <2>2, <4>1, <4>2, <4>3, <4>4, <4>5
    <3> QED BY <1>3, <3>1
  <2>3. ASSUME NEW ep \in FifoEps, FifoStart(ep) PROVE ModePins'
    <3>1. port'.oed = port.oed /\ port'.addr_mask = port.addr_mask
      BY <1>1, <2>3 DEF FifoStart, Ports
    <3> QED BY <1>3, <3>1
  <2> QED
    BY <1>4, <2>1, <2>2, <2>3
    DEF Execute, I2cRead, I2cWrite, I2cStatus, PortRead, FifoStop, Unknown, CutShort
<1> QED BY <1>2, <1>4
=============================================================================
