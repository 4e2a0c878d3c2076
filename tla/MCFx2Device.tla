---------------------------- MODULE MCFx2Device ----------------------------
EXTENDS Fx2Device

Rep(n) == [i \in 1..n |-> 7]

\* The frames the driver composes, at the smallest lengths and around the
\* firmware's limit, ...
DriverFrames == {
  <<CMD_PORT_CFG, 0, \h20, CMD_MODE_IDLE, CMD_IFCONFIG, \he3>>,
  <<CMD_I2C_WRITE, \h10, 1, 7>>,
  <<CMD_I2C_WRITE, \h10, 16>> \o Rep(16),
  <<CMD_I2C_WRITE, \h10, 17>> \o Rep(17),
  <<CMD_I2C_WRITE, \h10, 1, 7, CMD_I2C_READ, \h10, 2>>,
  <<CMD_I2C_WRITE, \h10, 1, 7, CMD_I2C_READ, \h10, 17>>,
  <<CMD_EP6IN_START, CMD_PORT_WRITE, \h20>>,
  <<CMD_EP6IN_STOP, CMD_MODE_IDLE>> }

\* ... the commands only diagnostic tools send, and frames cut off inside an
\* argument list, inside I2C data, or with bytes that are no command.
OtherFrames == {
  <<CMD_I2C_STATUS, CMD_PORT_READ>>,
  <<CMD_REG_WRITE, 3, 9, CMD_REG_READ, 3>>,
  <<CMD_EP4IN_START, CMD_EP4IN_STOP>>,
  <<CMD_EP2OUT_START, CMD_EP2OUT_STOP>>,
  <<CMD_I2C_READ, \h10>>,
  <<CMD_I2C_READ, \h10, 200>>,
  <<CMD_I2C_WRITE, \h10, 3, 7>>,
  <<0, CMD_PORT_CFG, 1>> }

MCFrames == DriverFrames \cup OtherFrames
=============================================================================
