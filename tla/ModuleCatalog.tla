---------------------------- MODULE ModuleCatalog ----------------------------
(***************************************************************************)
(* The catalogs of modules and the arithmetic of a build, translated from  *)
(* src/runtime/modules: what a loadout makes of the profile of a weapon,   *)
(* and the bounds each catalog puts on it.  A loadout is a set, since the  *)
(* code sorts it and refuses repetitions.                                  *)
(***************************************************************************)
EXTENDS Integers, FiniteSets, FiniteSetsExt

Module(recipe, damage, cooldown, range, health) ==
  [recipe |-> recipe, damage |-> damage, cooldown |-> cooldown, range |-> range, health |-> health]

\* Modifiers of damage and cooldown are in basis points.
Definition ==
  [ForceMatrix    |-> Module(2,  2000,  2000,  0,  0), TempoRegulator |-> Module(2, -1000, -1500,  0,  0),
   ReachLattice   |-> Module(2, -1000,     0,  2,  0), WardCapacitor  |-> Module(2,     0,  1000,  0, 20),
   FocusLens      |-> Module(2,  2000,     0, -2,  0), CycleBypass    |-> Module(2,     0, -2000, -2,  0),
   BreachShunt    |-> Module(1,  3000,  3500, -1,  0), StandoffOptic  |-> Module(1, -1000,  2000,  3,  0),
   SkirmishDrive  |-> Module(1,     0, -2500,  0, -20), AblativeShell |-> Module(1, -2000,     0, -1, 30)]

All     == DOMAIN Definition
Legacy  == {"ForceMatrix", "TempoRegulator", "ReachLattice", "WardCapacitor"}
Content == Legacy \cup {"FocusLens", "CycleBypass"}

Recipe(m) == Definition[m].recipe

\* The modules of each catalog revision; Arsenal adds weapons to Content.
Offered == [Legacy |-> Legacy, Content |-> Content, Arsenal |-> Content, Build |-> All]
Catalogs == DOMAIN Offered

MaxEquipped == 3

Canonical(loadout) == Cardinality(loadout) <= MaxEquipped

\* Every loadout that a client of the catalog may ask for.
Loadouts(catalog) == {L \in SUBSET Offered[catalog] : Canonical(L)}

-----------------------------------------------------------------------------
(* The weapons, and what a build makes of them.                            *)

Profile(damage, range, cooldown, health) ==
  [damage |-> damage, range |-> range, cooldown |-> cooldown, health |-> health]

BaseHealth == 100
Rifle   == Profile(40,  6, 250, BaseHealth)
Sidearm == Profile(25,  8, 150, BaseHealth)
Lance   == Profile(48,  9, 350, BaseHealth)
Scatter == Profile(56,  6, 400, BaseHealth)
Rail    == Profile(56, 10, 400, BaseHealth)

Weapons(catalog) ==
  CASE catalog = "Legacy"  -> {Rifle, Sidearm}
    [] catalog = "Content" -> {Rifle, Sidearm, Lance}
    [] OTHER               -> {Rifle, Sidearm, Lance, Scatter, Rail}

\* aggregate_modifiers
Aggregate(loadout) ==
  LET Total(f) == MapThenSumSet(LAMBDA m : Definition[m][f], loadout)
  IN  [damage |-> Total("damage"), cooldown |-> Total("cooldown"),
       range |-> Total("range"), health |-> Total("health")]

\* scale_basis_points rounds half up.
Scale(base, points) == (base * (10000 + points) + 5000) \div 10000

Within(x, lower, upper) ==
  \A f \in DOMAIN x : lower[f] <= x[f] /\ x[f] <= upper[f]

\* The bounds of the modifiers; the build catalog has none.
ModifiersFit(catalog, x) ==
  CASE catalog = "Legacy" -> Within(x, Profile(-3000, 0, -3000, 0), Profile(3000, 2, 3000, 30))
    [] catalog = "Build"  -> TRUE
    [] OTHER              -> Within(x, Profile(-3000, -4, -3500, 0), Profile(4000, 2, 3000, 30))

ProfileFits(catalog, x) ==
  CASE catalog = "Legacy" -> Within(x, Profile(18, 4, 120, 100), Profile(52, 10, 350, 130))
    [] catalog = "Build"  -> Within(x, Profile(15, 1, 60, 80), Profile(100, 15, 700, 150))
    [] OTHER              -> Within(x, Profile(18, 2, 90, 100), Profile(80, 12, 600, 130))

Effective(base, loadout) ==
  LET x == Aggregate(loadout)
  IN  Profile(Scale(base.damage, x.damage), base.range + x.range,
              Scale(base.cooldown, x.cooldown), base.health + x.health)

\* resolve_build succeeds.
Resolves(catalog, base, loadout) ==
  /\ loadout \subseteq Offered[catalog] /\ Canonical(loadout)
  /\ ModifiersFit(catalog, Aggregate(loadout))
  /\ ProfileFits(catalog, Effective(base, loadout))

Dominates(p, q) ==
  /\ p.damage >= q.damage /\ p.range >= q.range /\ p.cooldown <= q.cooldown /\ p.health >= q.health
  /\ p # q

Unresolved == UNION {{<<c, base>> : base \in {b \in Weapons(c) :
                        \E L \in Loadouts(c) : ~ Resolves(c, b, L)}} : c \in Catalogs}
Free == {m \in All : \E base \in Weapons("Build") : Dominates(Effective(base, {m}), base)}

\* Whatever a client equips or previews within the slots resolves for every weapon
\* it has, or the handler would fail after the request was found valid; and no single
\* module is an improvement without a price (modules/src/lib.rs resolve_build, builds.rs).
EveryBuildResolves == Unresolved = {} /\ Free = {}
=============================================================================
