------------------------------ MODULE MCLoadout ------------------------------
(***************************************************************************)
(* Two gateways, clients of two catalogs, and a character who comes with a *)
(* module that only the newer catalog lists.                               *)
(***************************************************************************)
EXTENDS Loadout, TLC

MCOrigins == { Save(0, {"SkirmishDrive"}, {}, 1) }

MCMissions == { {"Breach"}, {"Stabilize", "Prism"} }

MCSymmetry == Permutations(Gateways)
=============================================================================
