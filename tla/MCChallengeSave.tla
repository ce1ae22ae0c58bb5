--------------------------- MODULE MCChallengeSave ---------------------------
(* Two gateways serve a character that is new, or has finished the timed gauntlet *)
(* slowly in an earlier session, or has lost it to a crash.                       *)
EXTENDS ChallengeSave, TLC

MCOffers == {Rules("PrismDiscipline", "Baseline"), Rules("RelayGauntlet", "Pace")}

Timely(n) == CHOOSE c \in {
    <<StartOf("RelayGauntlet", "Pace", "Guard"), "old">>,
    <<ConfirmOf(1, "Support", None), "old1">>,
    <<ConfirmOf(1, "Bastion", None), "old2">>,
    <<ConfirmOf(1, "Prism", 2), "old3">>} : c[2] = <<"old", "old1", "old2", "old3">>[n]

\* The first n rows of that session: fewer than four when its gateway has crashed.
Played(n) ==
    LET rows[i \in 0 .. n] ==
            IF i = 0 THEN <<>>
            ELSE Append(rows[i - 1],
                        Row(0, <<Timely(i)[2]>>, LastOf(rows[i - 1]), Timely(i)[1]))
    IN  rows[n]

MCSymmetry == Permutations(Gateways) \cup Permutations(Operations)

MCHistories == {Played(n) : n \in {0, 2, 4}}
=============================================================================
