------------------------- MODULE MCDigitalOceanTask -------------------------
(* Instance of DigitalOceanTask for TLC. *)
EXTENDS DigitalOceanTask
==============================================================================
