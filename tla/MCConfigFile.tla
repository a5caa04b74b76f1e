---------------------------- MODULE MCConfigFile ----------------------------
(* An instance of ConfigFile with texts of different lengths; from_json refuses odd. *)
EXTENDS ConfigFile, TLC

CONSTANTS old, new, odd

MCSize == old :> 1 @@ new :> 2 @@ odd :> 2
=============================================================================
