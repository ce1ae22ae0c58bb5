--------------------------- MODULE MCRouteSession ---------------------------
(* The effective damage of four weapons: a pulse rifle, an arc sidearm, and a   *)
(* coil lance and a scatter caster with the force matrix and the focus lens     *)
(* (48 and 56, plus 40 percent).                                                *)
EXTENDS RouteSession, TLC

CONSTANTS rifle, sidearm, lance, caster

MCDamage == [w \in Weapons |->
    CASE w = rifle -> 40 [] w = sidearm -> 25 [] w = lance -> 67 [] w = caster -> 78]
MCSymmetry == Permutations(OperationIds)
=============================================================================
