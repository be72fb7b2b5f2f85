---------------------------- MODULE MCMonitorView ----------------------------
(* The monitor tab instantiated for TLC: the constants are set in the cfg   *)
(* files MCMonitorView*.cfg.                                                 *)
EXTENDS MonitorView
=============================================================================
