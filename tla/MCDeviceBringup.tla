--------------------------- MODULE MCDeviceBringup ---------------------------
(***************************************************************************)
(* Instance of DeviceBringup for TLC: images with each kind of end, of the *)
(* firmware in fw/ (product id 8613) and of one that calls itself 1004.    *)
(***************************************************************************)
EXTENDS DeviceBringup

Ends == {<<"data", "data">>, <<"data", "end">>, <<"data", "endrun">>,
         <<"data", "cut">>, <<"data", "stub">>}

MCImages == [records : Ends, short : {FALSE}, pid : Pids] \cup {NoImage}
=============================================================================
