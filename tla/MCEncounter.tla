---------------------------- MODULE MCEncounter ----------------------------
(* Each kind is met at its entrance, fought from places that its blows and      *)
(* shields tell apart, and left to the door.                                    *)
EXTENDS Encounter

MCPlaces ==
    [lancer        |-> {<<4, 8>>, <<9, 6>>, Door},
     bulwark       |-> {<<6, -8>>, <<8, -6>>, Door},
     prism         |-> {<<5, 2>>, <<8, 1>>, Door},
     bastion_link  |-> {<<5, -6>>, <<8, -6>>, Door},
     crossed_guard |-> {<<5, -10>>, <<8, -9>>, Door},
     support       |-> {<<2, 6>>, <<9, 6>>, Door},
     signal        |-> {<<-4, 4>>, <<-8, -4>>, <<-8, 4>>, Terminal, Door}]

MCMaxClock == [k \in DOMAIN MCPlaces |->
    CASE k = "prism" -> 112 [] k \in {"lancer", "bulwark"} -> 64 [] OTHER -> 52]
=============================================================================
