------------------------- MODULE MCChallengeAttempt -------------------------
(* An attempt at each contract with a controller of its own, along the places  *)
(* its objectives are at and the ones next to them.                            *)
EXTENDS ChallengeAttempt

MCOffers ==
    {Rules("CoolantRecovery", "Baseline"), Rules("LastReserve", "Baseline"),
     Rules("DistantSignal", "Baseline"), Rules("RelayGauntlet", "Baseline"),
     Rules("RelayGauntlet", "BastionFirstSingleReserve"), Rules("RelayGauntlet", "SingleReservePace"),
     Rules("MeridianCircuit", "Baseline"), Rules("MeridianCircuit", "WestApproachPace")}

Walks(xs, zs) == xs \X zs

MCCorridor ==
    [CoolantRecovery |-> {<<-1, -3>>, <<-1, -4>>} \cup Walks(-1 .. 4, {-5}) \cup Walks({4}, -4 .. -1),
     LastReserve     |-> Walks(-8 .. -4, {4}) \cup Walks({-8}, 0 .. 3) \cup Walks(-4 .. 0, {4})
                            \cup Walks({0}, 0 .. 3) \cup {<<-4, 5>>},
     DistantSignal   |-> Walks({-4}, 2 .. 4) \cup Walks(-7 .. -4, {2}) \cup Walks({-7}, 0 .. 1),
     RelayGauntlet   |-> {<<2, 6>>, <<3, 6>>, <<5, -6>>, <<6, -6>>, <<5, 2>>},
     MeridianCircuit |-> Walks(-24 .. -16, {0}) \cup {<<-31, 0>>} \cup Walks({-30}, -6 .. 6)
                            \cup Walks({-24}, {-6, -5, -4, -3, -2, -1, 1})
                            \cup Walks(-29 .. -25, {-7}) \cup Walks({-29, -28}, {7})]

MCMaxTime ==
    [CoolantRecovery |-> 8, LastReserve |-> 14, DistantSignal |-> 12, RelayGauntlet |-> 8,
     MeridianCircuit |-> 2]
=============================================================================
