------------------------------ MODULE MCTuners ------------------------------
(***************************************************************************)
(* Instance of the two tuner drivers for TLC.  They share nothing but the  *)
(* I2C adapter, which is in neither module, so that each is explored with  *)
(* the other at rest: subject says which.                                  *)
(***************************************************************************)
EXTENDS Stv6110x, Mxl5007t

\* On and beyond a limit, and a frequency whose divider is rounded up.
MCFrequencies == {1023000, 1087840, 2046001}
MCBandwidths == {0, 38961000}

\* The middles of two ISDB-T channels; cable, with the least remainder that is rounded
\* up; the limit at 333 MHz; the last frequency that 16 bits express, with the largest
\* remainder that is rounded down, and the first they do not; a width and a system that
\* are not supported.
MCRequests ==
  {[delsys |-> "ISDBT", freq |-> 473142857, bw |-> 6],
   [delsys |-> "ISDBT", freq |-> 767142857, bw |-> 0],
   [delsys |-> "DVBC_ANNEX_B", freq |-> 113007813, bw |-> 0],
   [delsys |-> "DVBT2", freq |-> 333000000, bw |-> 8],
   [delsys |-> "DVBT", freq |-> 1023992187, bw |-> 7],
   [delsys |-> "ATSC", freq |-> 1023992188, bw |-> 0],
   [delsys |-> "DVBT", freq |-> 333000000, bw |-> 0],
   [delsys |-> "DVBS2", freq |-> 333000000, bw |-> 8]}

\* What akb_pcr20x_frontend_attach_t passes.
MCConfig ==
  [if_diff_out_level |-> 0, clk_out_amp |-> 0, xtal |-> 0, if_freq |-> 0,
   invert_if |-> 0, loop_thru_enable |-> 0, clk_out_enable |-> 0]

VARIABLE subject

Init ==
  /\ StvInit /\ MxlInit
  /\ \/ subject = "stv"
     \/ /\ subject = "mxl"
        /\ stv_chip = default_regs
        /\ stv_request = CHOOSE request \in StvRequests : TRUE

Next ==
  /\ UNCHANGED subject
  /\ \/ subject = "stv" /\ StvNext /\ UNCHANGED mxl_vars
     \/ subject = "mxl" /\ MxlNext /\ UNCHANGED stv_vars

Spec == Init /\ [][Next]_<<stv_vars, mxl_vars, subject>>
             /\ WF_stv_vars(subject = "stv" /\ StvWork /\ UNCHANGED mxl_vars)
=============================================================================
