------------------------ MODULE MCCooperationRuntime ------------------------
(* A small instance of CooperationRuntime: two identifiers, so that the retry of  *)
(* a revive is told from another one, every phase with a deadline that can pass *)
(* in it, the real places and reach, and a Warden strong enough to kill.        *)
EXTENDS CooperationRuntime, TLC

CONSTANTS ann, bob, id1, id2

MCSeats     == <<ann, bob>>
MCRifle     == [max_health |-> 2, kit |-> "rifle"]
MCLance     == [max_health |-> 2, kit |-> "lance"]
MCProfiles  == {MCRifle, MCLance}
MCOwned     == ann :> {MCRifle} @@ bob :> {MCRifle, MCLance}
MCIdsOf     == [Start |-> {id1}, Ping |-> {id1}, Revive |-> {id1, id2}]
MCDistances == {0, 1, 13, 18, 25}
=============================================================================
