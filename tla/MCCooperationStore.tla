------------------------- MODULE MCCooperationStore -------------------------
(* A small instance of CooperationStore: two identifiers, so that retries and *)
(* conflicts are told apart, one distance within and one beyond reach, and    *)
(* durations that let every deadline pass before the clock stops.             *)
EXTENDS CooperationStore, TLC

MCProfiles  == {[max_health |-> 2, kit |-> "rail"]}
MCDistances == {1, 2}
MCSymmetry  == Permutations(OperationIds)
=============================================================================
