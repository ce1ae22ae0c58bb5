----------------------------- MODULE MCCampaign -----------------------------
(***************************************************************************)
(* Two gateways and one character, who comes with each number of chapters  *)
(* cleared and few revisions left; the core is still to be chosen, or was  *)
(* chosen to be taken directly.                                            *)
(***************************************************************************)
EXTENDS Campaign, TLC

Came(cleared, revision, supply, core) ==
  [revision |-> revision, cleared |-> cleared, active |-> NoRun,
   story |-> [NewStory EXCEPT !.supply = supply, !.core = core]]

MCOrigins == { Came(0, 0, "None", "None"), Came(1, 22, "None", "None"),
               Came(2, 21, "Service", "None"), Came(3, 19, "Covered", "None"),
               Came(4, 15, "None", "None"), Came(4, 20, "None", "Direct"),
               Came(5, 20, "None", "Direct") }

MCSymmetry == Permutations(Gateways)
=============================================================================
