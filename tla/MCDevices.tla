----------------------------- MODULE MCDevices -----------------------------
(* One page of one browser, two key pairs. *)
EXTENDS Devices

MCBrowserOf == [t \in Tabs |-> "b1"]
=============================================================================
