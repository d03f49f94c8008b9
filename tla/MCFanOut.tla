------------------------------ MODULE MCFanOut ------------------------------
(* Three domains: one that the registry may not know between two that may
   broadcast and listen. *)
EXTENDS FanOut

MCDomains == <<"seismic", "plugin", "ocean">>
=============================================================================
