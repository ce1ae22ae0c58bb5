--------------------------- MODULE MCCooperation ---------------------------
(* A small instance of Cooperation: the durations keep the order of the real  *)
(* ones (channel < ping < window < operation) and the clock runs well past    *)
(* the last deadline.                                                         *)
EXTENDS Cooperation

MCProfiles  == {[max_health |-> 2, kit |-> "rail"]}
MCDistances == {-1, 1, 2}
MCHealths   == {0, 2}
=============================================================================
