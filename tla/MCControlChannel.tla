-------------------------- MODULE MCControlChannel --------------------------
EXTENDS ControlChannel

MCTags == Threads \cup {Old}

W(len)  == [addr |-> \h10, len |-> len, rd |-> FALSE, ten |-> FALSE, fill |-> CMD_EP6IN_STOP]
R(len)  == [addr |-> \h10, len |-> len, rd |-> TRUE, ten |-> FALSE, fill |-> 0]

WriteOnly == <<W(2)>>
Read2     == <<W(1), R(2)>>
Read3     == <<W(1), R(3)>>
ReadBurst == <<W(1), R(16), R(16), R(16), R(16), R(16)>>

\* A write, a short read, and a list of reads of the firmware's full length, the
\* second of which i2c_xfer rejects; all five together are more than EP1IN holds.
MixedCalls == {WriteOnly, Read3, ReadBurst}
ShortCalls == {WriteOnly, Read2}
ReadCalls  == {Read2}
=============================================================================
