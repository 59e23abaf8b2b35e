------------------------------ MODULE MCWakeup ------------------------------
(* The module of the runs of Wakeup: its constants are numbers, given in the *)
(* cfg files.                                                                *)
EXTENDS Wakeup
=============================================================================
