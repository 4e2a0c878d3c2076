------------------------------ MODULE MCFx2I2c ------------------------------
(***************************************************************************)
(* Instance of Fx2I2c for TLC: writes of none, one and two bytes (register *)
(* and value), reads of none to two.                                       *)
(***************************************************************************)
EXTENDS Fx2I2c

MCMessages == {<<>>, <<1>>, <<1, 2>>}
=============================================================================
