----------------------------- MODULE MCDeviceView -----------------------------
(* The device view instantiated for TLC: the constants are set in the cfg  *)
(* files MCDeviceView*.cfg.                                                 *)
EXTENDS DeviceView
=============================================================================
