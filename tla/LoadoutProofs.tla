----------------------------- MODULE LoadoutProofs -----------------------------
(***************************************************************************)
(* Theorems of `ModuleCatalog' and `Loadout', for any number of gateways   *)
(* and sessions, any clients, origins, missions and rewards: every build   *)
(* of the catalog resolves, the books balance and are believed, evidence   *)
(* is lost to overlapping sessions only, and nothing is taken back.        *)
(***************************************************************************)
EXTENDS Loadout, SequenceTheorems, FiniteSetTheorems, WellFoundedInduction, TLAPS

-----------------------------------------------------------------------------
(* Induction over numbers, and sums over the modules *)

\* The order of the numbers is well founded.
LEMMA NumbersAreOrdered == IsWellFoundedOn({ss \in Nat \X Nat : ss[1] < ss[2]}, Nat)
  BY NatLessThanWellFounded DEF OpToRel

\* A set of numbers has a least one.
LEMMA LeastNumber ==
    ASSUME NEW T, T \subseteq Nat, T # {}
    PROVE  \E n \in T : \A m \in T : n <= m
<1> DEFINE Less == {ss \in Nat \X Nat : ss[1] < ss[2]}
<1>1. \A i, j \in Nat : i < j => <<i, j>> \in Less
  OBVIOUS
<1> HIDE DEF Less
<1>2. IsWellFoundedOn(Less, Nat)
  BY NumbersAreOrdered DEF Less
<1>3. PICK n \in T : \A m \in T : ~(<<m, n>> \in Less)
  BY <1>2, WFMin
<1>4. \A m \in T : ~(m < n)
  BY <1>1, <1>3
<1> QED
  BY <1>4

\* What holds at zero and of each number after one of which it holds, up to n, holds up to n.
LEMMA UpTo ==
    ASSUME NEW n \in Nat, NEW T, 0 \in T, \A i \in 1 .. n : i - 1 \in T => i \in T
    PROVE  \A i \in 0 .. n : i \in T
<1> DEFINE B == {i \in 0 .. n : i \notin T}
<1> SUFFICES ASSUME B # {} PROVE FALSE
  OBVIOUS
<1>a. B \subseteq Nat
  OBVIOUS
<1> HIDE DEF B
<1>b. PICK i \in B : \A k \in B : i <= k
  BY <1>a, LeastNumber
<1>1. i \in 0 .. n /\ i \notin T /\ \A k \in 0 .. n : k \notin T => i <= k
  BY <1>b DEF B
<1>2. i \in 1 .. n /\ i - 1 \in 0 .. n /\ i - 1 < i
  BY <1>1
<1>3. i - 1 \in T
  BY <1>1, <1>2
<1> QED
  BY <1>1, <1>2, <1>3


\* A sum over a set of modules, as the recursion of the sum has it.
Sums(iter, g, L) ==
  iter = [s \in SUBSET L |->
            IF s = {} THEN 0
            ELSE g[CHOOSE x \in s : TRUE] + iter[s \ {CHOOSE x \in s : TRUE}]]

\* What a module adds to it, and the sum over the modules by name.
Part(g, m, L) == IF m \in L THEN g[m] ELSE 0
Total(g, L) ==
  Part(g, "ForceMatrix", L) + Part(g, "TempoRegulator", L) + Part(g, "ReachLattice", L)
    + Part(g, "WardCapacitor", L) + Part(g, "FocusLens", L) + Part(g, "CycleBypass", L)
    + Part(g, "BreachShunt", L) + Part(g, "StandoffOptic", L) + Part(g, "SkirmishDrive", L)
    + Part(g, "AblativeShell", L)

\* The modules by name.
LEMMA AllModules ==
  All = {"ForceMatrix", "TempoRegulator", "ReachLattice", "WardCapacitor", "FocusLens",
         "CycleBypass", "BreachShunt", "StandoffOptic", "SkirmishDrive", "AblativeShell"}
  BY DEF Definition, Module, All

\* There are ten of them.
LEMMA ModulesAreFinite == IsFiniteSet(All)
<1> DEFINE name == <<"ForceMatrix", "TempoRegulator", "ReachLattice", "WardCapacitor", "FocusLens",
                     "CycleBypass", "BreachShunt", "StandoffOptic", "SkirmishDrive", "AblativeShell">>
           named == [i \in 1 .. 10 |-> name[i]]
<1>1. 1 \in Int /\ 10 \in Int
  OBVIOUS
<1>2. IsFiniteSet(1 .. 10)
  BY <1>1, FS_Interval, Zenon
<1>3. named \in [1 .. 10 -> All] /\ \A m \in All : \E i \in 1 .. 10 : named[i] = m
  BY AllModules
<1> HIDE DEF named
<1>4. named \in Surjection(1 .. 10, All)
  BY <1>3 DEF Surjection
<1> QED
  BY <1>2, <1>4, FS_Surjection

\* Taking a module out takes its part out.
LEMMA TotalWithout ==
  ASSUME NEW g \in [All -> Int], NEW L \in SUBSET All
  PROVE  /\ Total(g, L) \in Int /\ Total(g, {}) = 0
         /\ \A x \in L : Total(g, L) = g[x] + Total(g, L \ {x})
<1>1. \A x \in All : g[x] \in Int
  OBVIOUS
<1>2. \A x \in All : \A S : Part(g, x, S) \in Int
  BY <1>1 DEF Part
<1>3. Total(g, L) \in Int
  BY <1>2, AllModules DEF Total
<1>4. Total(g, {}) = 0
  BY DEF Total, Part
<1>5. ASSUME NEW x \in L PROVE Total(g, L) = g[x] + Total(g, L \ {x})
  <2>1. x \in All /\ Part(g, x, L) = g[x] /\ Part(g, x, L \ {x}) = 0
    BY DEF Part
  <2>2. \A y \in All : y # x => Part(g, y, L \ {x}) = Part(g, y, L)
    BY DEF Part
  <2>3. \A y \in All : Part(g, y, L) \in Int /\ Part(g, y, L \ {x}) \in Int
    BY <1>2
  <2> QED
    BY <1>1, <2>1, <2>2, <2>3, AllModules DEF Total
<1> QED
  BY <1>3, <1>4, <1>5

\* The recursion has this solution and no other.
LEMMA SumsAreTotals ==
  ASSUME NEW g \in [All -> Int], NEW L \in SUBSET All
  PROVE  /\ \E iter : Sums(iter, g, L)
         /\ \A iter : Sums(iter, g, L) => iter[L] = Total(g, L)
<1>1. \A s \in SUBSET L : s # {} =>
          (CHOOSE x \in s : TRUE) \in s /\ s \ {CHOOSE x \in s : TRUE} \in SUBSET L
  OBVIOUS
<1>2. \A s \in SUBSET L :
          Total(g, s) = IF s = {} THEN 0
                        ELSE g[CHOOSE x \in s : TRUE] + Total(g, s \ {CHOOSE x \in s : TRUE})
  <2> SUFFICES ASSUME NEW s \in SUBSET L, s # {}
               PROVE  Total(g, s) = g[CHOOSE x \in s : TRUE] + Total(g, s \ {CHOOSE x \in s : TRUE})
    BY TotalWithout
  <2>1. (CHOOSE x \in s : TRUE) \in s /\ s \in SUBSET All
    BY <1>1
  <2> QED
    BY <2>1, TotalWithout
<1>3. \E iter : Sums(iter, g, L)
  <2> DEFINE iter == [s \in SUBSET L |-> Total(g, s)]
  <2>1. \A s \in SUBSET L : s # {} => iter[s \ {CHOOSE x \in s : TRUE}] = Total(g, s \ {CHOOSE x \in s : TRUE})
    BY <1>1
  <2> DEFINE new == [s \in SUBSET L |-> IF s = {} THEN 0
            ELSE g[CHOOSE x \in s : TRUE] + iter[s \ {CHOOSE x \in s : TRUE}]]
  <2>2. \A s \in SUBSET L : iter[s] = new[s]
    BY <1>2, <2>1
  <2>3. iter = new
    <3>1. DOMAIN iter = SUBSET L /\ DOMAIN new = SUBSET L
      OBVIOUS
    <3>2. iter = [s \in SUBSET L |-> iter[s]] /\ new = [s \in SUBSET L |-> new[s]]
      OBVIOUS
    <3> HIDE DEF iter, new
    <3> QED
      BY <2>2, <3>2
  <2> HIDE DEF iter
  <2> QED
    BY <2>3 DEF Sums
<1>4. ASSUME NEW iter, Sums(iter, g, L) PROVE iter[L] = Total(g, L)
  <2> DEFINE B == {s \in SUBSET L : iter[s] # Total(g, s)}
             T == {n \in Nat : \E s \in B : Cardinality(s) = n}
  <2> SUFFICES ASSUME B # {} PROVE FALSE
    OBVIOUS
  <2>1. \A s \in SUBSET L : IsFiniteSet(s) /\ Cardinality(s) \in Nat
    <3>2. IsFiniteSet(L)
      BY ModulesAreFinite, FS_Subset
    <3> QED
      BY <3>2, FS_Subset, FS_CardinalityType
  <2>2. T \subseteq Nat /\ T # {}
    BY <2>1
  <2>3. PICK n \in T : \A k \in T : n <= k
    BY <2>2, LeastNumber
  <2>4. PICK s \in B : Cardinality(s) = n
    BY <2>3
  <2>5. s \in SUBSET L /\ iter[s] # Total(g, s)
    BY <2>4
  <2>6. s # {}
    BY <1>4, <2>5, TotalWithout DEF Sums
  <2> DEFINE x == CHOOSE y \in s : TRUE
  <2>7. x \in s /\ s \ {x} \in SUBSET L
    BY <1>1, <2>5, <2>6
  <2>8. Cardinality(s \ {x}) = Cardinality(s) - 1 /\ Cardinality(s \ {x}) \in Nat
    BY <2>1, <2>5, <2>7, FS_RemoveElement
  <2>9. iter[s] = g[x] + iter[s \ {x}] /\ Total(g, s) = g[x] + Total(g, s \ {x})
    BY <1>2, <1>4, <2>5, <2>6 DEF Sums
  <2> HIDE DEF x
  <2>10. iter[s \ {x}] # Total(g, s \ {x})
    BY <2>5, <2>9
  <2>11. s \ {x} \in B
    BY <2>7, <2>10
  <2>12. Cardinality(s \ {x}) \in T
    BY <2>8, <2>11
  <2>13. n \in Nat /\ n <= Cardinality(s \ {x})
    BY <2>2, <2>3, <2>12
  <2> QED
    BY <2>4, <2>8, <2>13
<1> QED
  BY <1>3, <1>4

\* The sum of the recipes.
LEMMA RecipeSum ==
  ASSUME NEW g \in [All -> Int], \A x \in All : g[x] = Recipe(x), NEW L \in SUBSET All
  PROVE  MapThenSumSet(Recipe, L) = Total(g, L)
<1> DEFINE Raw(iter) == iter = [s \in SUBSET L |->
              IF s = {} THEN 0
              ELSE Recipe(CHOOSE x \in s : TRUE) + iter[s \ {CHOOSE x \in s : TRUE}]]
<1>1. \A iter : Raw(iter) <=> Sums(iter, g, L)
  <2> SUFFICES ASSUME NEW iter PROVE Raw(iter) <=> Sums(iter, g, L)
    OBVIOUS
  <2>1. PICK a : a = [s \in SUBSET L |->
              IF s = {} THEN 0
              ELSE Recipe(CHOOSE x \in s : TRUE) + iter[s \ {CHOOSE x \in s : TRUE}]]
    OBVIOUS
  <2>2. PICK b : b = [s \in SUBSET L |->
              IF s = {} THEN 0
              ELSE g[CHOOSE x \in s : TRUE] + iter[s \ {CHOOSE x \in s : TRUE}]]
    OBVIOUS
  <2>3. ASSUME NEW s \in SUBSET L PROVE a[s] = b[s]
    <3>1. s # {} => (CHOOSE x \in s : TRUE) \in All
      OBVIOUS
    <3>2. s # {} => g[CHOOSE x \in s : TRUE] = Recipe(CHOOSE x \in s : TRUE)
      BY <3>1
    <3> QED
      BY <2>1, <2>2, <2>3, <3>2
  <2>4. a = [s \in SUBSET L |-> a[s]] /\ b = [s \in SUBSET L |-> b[s]]
    BY <2>1, <2>2
  <2>5. a = b
    BY <2>3, <2>4
  <2> QED
    BY <2>1, <2>2, <2>5 DEF Sums
<1>2. MapThenSumSet(Recipe, L) = (CHOOSE iter : Raw(iter))[L]
  BY DEF MapThenSumSet, MapThenFoldSet
<1> HIDE DEF Raw
<1>3. Raw(CHOOSE iter : Raw(iter))
  BY <1>1, SumsAreTotals
<1> QED
  BY <1>1, <1>2, <1>3, SumsAreTotals

\* The modifiers of a loadout are such sums.
LEMMA ModifierSum ==
  ASSUME NEW f, NEW g \in [All -> Int], \A x \in All : g[x] = Definition[x][f], NEW L \in SUBSET All
  PROVE  MapThenSumSet(LAMBDA m : Definition[m][f], L) = Total(g, L)
<1> DEFINE Raw(iter) == iter = [s \in SUBSET L |->
              IF s = {} THEN 0
              ELSE Definition[CHOOSE x \in s : TRUE][f] + iter[s \ {CHOOSE x \in s : TRUE}]]
<1>1. \A iter : Raw(iter) <=> Sums(iter, g, L)
  <2> SUFFICES ASSUME NEW iter PROVE Raw(iter) <=> Sums(iter, g, L)
    OBVIOUS
  <2>1. PICK a : a = [s \in SUBSET L |->
              IF s = {} THEN 0
              ELSE Definition[CHOOSE x \in s : TRUE][f] + iter[s \ {CHOOSE x \in s : TRUE}]]
    OBVIOUS
  <2>2. PICK b : b = [s \in SUBSET L |->
              IF s = {} THEN 0
              ELSE g[CHOOSE x \in s : TRUE] + iter[s \ {CHOOSE x \in s : TRUE}]]
    OBVIOUS
  <2>3. ASSUME NEW s \in SUBSET L PROVE a[s] = b[s]
    <3>1. s # {} => (CHOOSE x \in s : TRUE) \in All
      OBVIOUS
    <3>2. s # {} => g[CHOOSE x \in s : TRUE] = Definition[CHOOSE x \in s : TRUE][f]
      BY <3>1
    <3> QED
      BY <2>1, <2>2, <2>3, <3>2
  <2>4. a = [s \in SUBSET L |-> a[s]] /\ b = [s \in SUBSET L |-> b[s]]
    BY <2>1, <2>2
  <2>5. a = b
    BY <2>3, <2>4
  <2> QED
    BY <2>1, <2>2, <2>5 DEF Sums
<1>2. MapThenSumSet(LAMBDA m : Definition[m][f], L) = (CHOOSE iter : Raw(iter))[L]
  BY DEF MapThenSumSet, MapThenFoldSet
<1> HIDE DEF Raw
<1>3. Raw(CHOOSE iter : Raw(iter))
  BY <1>1, SumsAreTotals
<1> QED
  BY <1>1, <1>2, <1>3, SumsAreTotals

-----------------------------------------------------------------------------
(* The catalog *)

\* Whether a loadout holds a module, as a number.
Holds(m, L) == IF m \in L THEN 1 ELSE 0

Fields == {"recipe", "damage", "cooldown", "range", "health"}

\* A field of every module.
FieldOf(f) == [m \in All |-> Definition[m][f]]

\* The table of the modules.
LEMMA Table ==
  /\ FieldOf("damage") \in [All -> Int] /\ FieldOf("cooldown") \in [All -> Int]
  /\ FieldOf("range") \in [All -> Int] /\ FieldOf("health") \in [All -> Int]
  /\ \A L \in SUBSET All :
        /\ Total(FieldOf("damage"), L)
             = 2000 * Holds("ForceMatrix", L) - 1000 * Holds("TempoRegulator", L)
               - 1000 * Holds("ReachLattice", L) + 2000 * Holds("FocusLens", L)
               + 3000 * Holds("BreachShunt", L) - 1000 * Holds("StandoffOptic", L)
               - 2000 * Holds("AblativeShell", L)
        /\ Total(FieldOf("cooldown"), L)
             = 2000 * Holds("ForceMatrix", L) - 1500 * Holds("TempoRegulator", L)
               + 1000 * Holds("WardCapacitor", L) - 2000 * Holds("CycleBypass", L)
               + 3500 * Holds("BreachShunt", L) + 2000 * Holds("StandoffOptic", L)
               - 2500 * Holds("SkirmishDrive", L)
        /\ Total(FieldOf("range"), L)
             = 2 * Holds("ReachLattice", L) - 2 * Holds("FocusLens", L)
               - 2 * Holds("CycleBypass", L) - Holds("BreachShunt", L)
               + 3 * Holds("StandoffOptic", L) - Holds("AblativeShell", L)
        /\ Total(FieldOf("health"), L)
             = 20 * Holds("WardCapacitor", L) - 20 * Holds("SkirmishDrive", L)
               + 30 * Holds("AblativeShell", L)
<1>1. ASSUME NEW g, NEW m, NEW L, NEW n, g[m] = n, n \in Int PROVE Part(g, m, L) = n * Holds(m, L)
  BY <1>1 DEF Part, Holds
<1>2. \A m, L : Holds(m, L) \in {0, 1}
  BY DEF Holds
<1>d. PICK d : d = FieldOf("damage")
  OBVIOUS
<1>c. PICK c : c = FieldOf("cooldown")
  OBVIOUS
<1>r. PICK r : r = FieldOf("range")
  OBVIOUS
<1>h. PICK h : h = FieldOf("health")
  OBVIOUS
<1>3. /\ d["ForceMatrix"] = 2000 /\ d["TempoRegulator"] = -1000 /\ d["ReachLattice"] = -1000
      /\ d["WardCapacitor"] = 0 /\ d["FocusLens"] = 2000 /\ d["CycleBypass"] = 0
      /\ d["BreachShunt"] = 3000 /\ d["StandoffOptic"] = -1000 /\ d["SkirmishDrive"] = 0
      /\ d["AblativeShell"] = -2000
  BY <1>d, AllModules DEF FieldOf, Definition, Module
<1>4. /\ c["ForceMatrix"] = 2000 /\ c["TempoRegulator"] = -1500 /\ c["ReachLattice"] = 0
      /\ c["WardCapacitor"] = 1000 /\ c["FocusLens"] = 0 /\ c["CycleBypass"] = -2000
      /\ c["BreachShunt"] = 3500 /\ c["StandoffOptic"] = 2000 /\ c["SkirmishDrive"] = -2500
      /\ c["AblativeShell"] = 0
  BY <1>c, AllModules DEF FieldOf, Definition, Module
<1>5. /\ r["ForceMatrix"] = 0 /\ r["TempoRegulator"] = 0 /\ r["ReachLattice"] = 2
      /\ r["WardCapacitor"] = 0 /\ r["FocusLens"] = -2 /\ r["CycleBypass"] = -2
      /\ r["BreachShunt"] = -1 /\ r["StandoffOptic"] = 3 /\ r["SkirmishDrive"] = 0
      /\ r["AblativeShell"] = -1
  BY <1>r, AllModules DEF FieldOf, Definition, Module
<1>6. /\ h["ForceMatrix"] = 0 /\ h["TempoRegulator"] = 0 /\ h["ReachLattice"] = 0
      /\ h["WardCapacitor"] = 20 /\ h["FocusLens"] = 0 /\ h["CycleBypass"] = 0
      /\ h["BreachShunt"] = 0 /\ h["StandoffOptic"] = 0 /\ h["SkirmishDrive"] = -20
      /\ h["AblativeShell"] = 30
  BY <1>h, AllModules DEF FieldOf, Definition, Module
<1>7. d \in [All -> Int]
  BY <1>d, <1>3, AllModules DEF FieldOf
<1>8. c \in [All -> Int]
  BY <1>c, <1>4, AllModules DEF FieldOf
<1>9. r \in [All -> Int]
  BY <1>r, <1>5, AllModules DEF FieldOf
<1>10. h \in [All -> Int]
  BY <1>h, <1>6, AllModules DEF FieldOf
<1>11. ASSUME NEW L \in SUBSET All
       PROVE  /\ Total(d, L)
                   = 2000 * Holds("ForceMatrix", L) - 1000 * Holds("TempoRegulator", L)
                     - 1000 * Holds("ReachLattice", L) + 2000 * Holds("FocusLens", L)
                     + 3000 * Holds("BreachShunt", L) - 1000 * Holds("StandoffOptic", L)
                     - 2000 * Holds("AblativeShell", L)
              /\ Total(c, L)
                   = 2000 * Holds("ForceMatrix", L) - 1500 * Holds("TempoRegulator", L)
                     + 1000 * Holds("WardCapacitor", L) - 2000 * Holds("CycleBypass", L)
                     + 3500 * Holds("BreachShunt", L) + 2000 * Holds("StandoffOptic", L)
                     - 2500 * Holds("SkirmishDrive", L)
              /\ Total(r, L)
                   = 2 * Holds("ReachLattice", L) - 2 * Holds("FocusLens", L)
                     - 2 * Holds("CycleBypass", L) - Holds("BreachShunt", L)
                     + 3 * Holds("StandoffOptic", L) - Holds("AblativeShell", L)
              /\ Total(h, L)
                   = 20 * Holds("WardCapacitor", L) - 20 * Holds("SkirmishDrive", L)
                     + 30 * Holds("AblativeShell", L)
  <2>1. Total(d, L)
           = 2000 * Holds("ForceMatrix", L) - 1000 * Holds("TempoRegulator", L)
             - 1000 * Holds("ReachLattice", L) + 2000 * Holds("FocusLens", L)
             + 3000 * Holds("BreachShunt", L) - 1000 * Holds("StandoffOptic", L)
             - 2000 * Holds("AblativeShell", L)
    BY <1>3 DEF Total, Part, Holds
  <2>2. Total(c, L)
           = 2000 * Holds("ForceMatrix", L) - 1500 * Holds("TempoRegulator", L)
             + 1000 * Holds("WardCapacitor", L) - 2000 * Holds("CycleBypass", L)
             + 3500 * Holds("BreachShunt", L) + 2000 * Holds("StandoffOptic", L)
             - 2500 * Holds("SkirmishDrive", L)
    BY <1>4 DEF Total, Part, Holds
  <2>3. Total(r, L)
           = 2 * Holds("ReachLattice", L) - 2 * Holds("FocusLens", L)
             - 2 * Holds("CycleBypass", L) - Holds("BreachShunt", L)
             + 3 * Holds("StandoffOptic", L) - Holds("AblativeShell", L)
    BY <1>5 DEF Total, Part, Holds
  <2>4. Total(h, L)
           = 20 * Holds("WardCapacitor", L) - 20 * Holds("SkirmishDrive", L)
             + 30 * Holds("AblativeShell", L)
    BY <1>6 DEF Total, Part, Holds
  <2> QED
    BY <2>1, <2>2, <2>3, <2>4
<1> QED
  BY <1>d, <1>c, <1>r, <1>h, <1>7, <1>8, <1>9, <1>10, <1>11

\* What a loadout adds to a field.
Modifier(f, L) == MapThenSumSet(LAMBDA m : Definition[m][f], L)

\* The modifiers of a loadout are these sums.
LEMMA Modifiers ==
  ASSUME NEW L \in SUBSET All
  PROVE  Aggregate(L) = [damage   |-> Total(FieldOf("damage"), L),
                         cooldown |-> Total(FieldOf("cooldown"), L),
                         range    |-> Total(FieldOf("range"), L),
                         health   |-> Total(FieldOf("health"), L)]
<1>1. ASSUME NEW f, FieldOf(f) \in [All -> Int] PROVE Modifier(f, L) = Total(FieldOf(f), L)
  <2>1. \A x \in All : FieldOf(f)[x] = Definition[x][f]
    BY DEF FieldOf
  <2>2. PICK g : g = FieldOf(f)
    OBVIOUS
  <2>3. MapThenSumSet(LAMBDA m : Definition[m][f], L) = Total(g, L)
    BY <1>1, <2>1, <2>2, ModifierSum
  <2> QED
    BY <2>2, <2>3 DEF Modifier
<1>2. /\ Modifier("damage", L) = Total(FieldOf("damage"), L)
      /\ Modifier("cooldown", L) = Total(FieldOf("cooldown"), L)
      /\ Modifier("range", L) = Total(FieldOf("range"), L)
      /\ Modifier("health", L) = Total(FieldOf("health"), L)
  BY <1>1, Table
<1>3. Aggregate(L) = [damage |-> Modifier("damage", L), cooldown |-> Modifier("cooldown", L),
                      range |-> Modifier("range", L), health |-> Modifier("health", L)]
  BY DEF Aggregate, Modifier
<1> QED
  BY <1>2, <1>3

\* A loadout has as many modules as its parts count.
LEMMA Slots ==
  ASSUME NEW L \in SUBSET All
  PROVE  Cardinality(L)
           = Holds("ForceMatrix", L) + Holds("TempoRegulator", L) + Holds("ReachLattice", L)
             + Holds("WardCapacitor", L) + Holds("FocusLens", L) + Holds("CycleBypass", L)
             + Holds("BreachShunt", L) + Holds("StandoffOptic", L) + Holds("SkirmishDrive", L)
             + Holds("AblativeShell", L)
<1>1. PICK g : g = [m \in All |-> 1]
  OBVIOUS
<1>2. g \in [All -> Int] /\ \A x \in All : g[x] = 1
  BY <1>1
<1>3. \A s \in SUBSET L : IsFiniteSet(s) /\ Cardinality(s) \in Nat
  BY ModulesAreFinite, FS_Subset, FS_CardinalityType
<1>4. \A s \in SUBSET L : s # {} =>
          Cardinality(s) = 1 + Cardinality(s \ {CHOOSE x \in s : TRUE})
  <2> SUFFICES ASSUME NEW s \in SUBSET L, s # {}
               PROVE  Cardinality(s) = 1 + Cardinality(s \ {CHOOSE x \in s : TRUE})
    OBVIOUS
  <2>1. (CHOOSE x \in s : TRUE) \in s
    OBVIOUS
  <2>2. PICK x : x = CHOOSE y \in s : TRUE
    OBVIOUS
  <2>3. Cardinality(s \ {x}) = Cardinality(s) - 1
    BY <1>3, <2>1, <2>2, FS_RemoveElement
  <2>4. Cardinality(s) \in Nat
    BY <1>3
  <2> QED
    BY <2>2, <2>3, <2>4
<1>5. \E iter : Sums(iter, g, L) /\ iter[L] = Cardinality(L)
  <2>1. PICK iter : iter = [s \in SUBSET L |-> Cardinality(s)]
    OBVIOUS
  <2>2. PICK new : new = [s \in SUBSET L |-> IF s = {} THEN 0
            ELSE g[CHOOSE x \in s : TRUE] + iter[s \ {CHOOSE x \in s : TRUE}]]
    OBVIOUS
  <2>3. ASSUME NEW s \in SUBSET L PROVE iter[s] = new[s]
    <3>1. CASE s = {}
      <4>1. Cardinality({}) = 0
        BY FS_EmptySet
      <4> QED
        BY <2>1, <2>2, <3>1, <4>1
    <3>2. CASE s # {}
      <4>1. (CHOOSE x \in s : TRUE) \in All /\ s \ {CHOOSE x \in s : TRUE} \in SUBSET L
        BY <3>2
      <4>2. g[CHOOSE x \in s : TRUE] = 1
        BY <1>2, <4>1
      <4>3. iter[s \ {CHOOSE x \in s : TRUE}] = Cardinality(s \ {CHOOSE x \in s : TRUE})
        BY <2>1, <4>1
      <4> QED
        BY <1>4, <2>1, <2>2, <3>2, <4>2, <4>3
    <3> QED
      BY <3>1, <3>2
  <2>4. iter = [s \in SUBSET L |-> iter[s]] /\ new = [s \in SUBSET L |-> new[s]]
    BY <2>1, <2>2
  <2>5. iter = new
    BY <2>3, <2>4
  <2>6. Sums(iter, g, L)
    BY <2>2, <2>5 DEF Sums
  <2> QED
    BY <2>1, <2>6
<1>6. Cardinality(L) = Total(g, L)
  BY <1>2, <1>5, SumsAreTotals
<1>7. \A m \in All : Part(g, m, L) = Holds(m, L)
  BY <1>2 DEF Part, Holds
<1> QED
  BY <1>6, <1>7, AllModules DEF Total


\* The sums of a loadout are that far below and above zero at most.
Spans(x, a, b) == x \in (0 - a) .. b
Limited(L, d1, d2, c1, c2, r1, r2, h1, h2) ==
  /\ Spans(Total(FieldOf("damage"), L), d1, d2) /\ Spans(Total(FieldOf("cooldown"), L), c1, c2)
  /\ Spans(Total(FieldOf("range"), L), r1, r2) /\ Spans(Total(FieldOf("health"), L), h1, h2)

\* The limits of three modules of each catalog.
LEMMA Limits ==
  ASSUME NEW L \in SUBSET All, Canonical(L)
  PROVE  /\ Limited(L, 4000, 7000, 6000, 7500, 5, 5, 20, 50)
         /\ L \subseteq Content => Limited(L, 2000, 4000, 3500, 3000, 4, 2, 0, 20)
         /\ L \subseteq Legacy => Limited(L, 2000, 2000, 1500, 3000, 0, 2, 0, 20)
<1> DEFINE Has(m) == Holds(m, L)
<1>1. \A m \in All : Has(m) \in {0, 1}
  BY DEF Holds
<1>2. Has("ForceMatrix") + Has("TempoRegulator") + Has("ReachLattice") + Has("WardCapacitor")
        + Has("FocusLens") + Has("CycleBypass") + Has("BreachShunt") + Has("StandoffOptic")
        + Has("SkirmishDrive") + Has("AblativeShell") <= 3
  BY Slots DEF Canonical, MaxEquipped
<1>3. L \subseteq Content => /\ Has("BreachShunt") = 0 /\ Has("StandoffOptic") = 0
                             /\ Has("SkirmishDrive") = 0 /\ Has("AblativeShell") = 0
  BY DEF Holds, Content, Legacy
<1>4. L \subseteq Legacy => L \subseteq Content /\ Has("FocusLens") = 0 /\ Has("CycleBypass") = 0
  BY DEF Holds, Content, Legacy
<1>5. /\ Total(FieldOf("damage"), L)
           = 2000 * Has("ForceMatrix") - 1000 * Has("TempoRegulator")
             - 1000 * Has("ReachLattice") + 2000 * Has("FocusLens")
             + 3000 * Has("BreachShunt") - 1000 * Has("StandoffOptic")
             - 2000 * Has("AblativeShell")
      /\ Total(FieldOf("cooldown"), L)
           = 2000 * Has("ForceMatrix") - 1500 * Has("TempoRegulator")
             + 1000 * Has("WardCapacitor") - 2000 * Has("CycleBypass")
             + 3500 * Has("BreachShunt") + 2000 * Has("StandoffOptic")
             - 2500 * Has("SkirmishDrive")
      /\ Total(FieldOf("range"), L)
           = 2 * Has("ReachLattice") - 2 * Has("FocusLens")
             - 2 * Has("CycleBypass") - Has("BreachShunt")
             + 3 * Has("StandoffOptic") - Has("AblativeShell")
      /\ Total(FieldOf("health"), L)
           = 20 * Has("WardCapacitor") - 20 * Has("SkirmishDrive") + 30 * Has("AblativeShell")
  BY Table
<1>6. /\ Has("ForceMatrix") \in {0, 1} /\ Has("TempoRegulator") \in {0, 1}
      /\ Has("ReachLattice") \in {0, 1} /\ Has("WardCapacitor") \in {0, 1}
      /\ Has("FocusLens") \in {0, 1} /\ Has("CycleBypass") \in {0, 1}
      /\ Has("BreachShunt") \in {0, 1} /\ Has("StandoffOptic") \in {0, 1}
      /\ Has("SkirmishDrive") \in {0, 1} /\ Has("AblativeShell") \in {0, 1}
  BY <1>1, AllModules
<1> HIDE DEF Has
<1>d. PICK d : d = Total(FieldOf("damage"), L)
  OBVIOUS
<1>c. PICK c : c = Total(FieldOf("cooldown"), L)
  OBVIOUS
<1>r. PICK r : r = Total(FieldOf("range"), L)
  OBVIOUS
<1>h. PICK h : h = Total(FieldOf("health"), L)
  OBVIOUS
<1>10. Limited(L, 4000, 7000, 6000, 7500, 5, 5, 20, 50)
  <2>1. d \in (0 - 4000) .. 7000
    BY <1>2, <1>5, <1>6, <1>d
  <2>2. c \in (0 - 6000) .. 7500
    BY <1>2, <1>5, <1>6, <1>c
  <2>3. r \in (0 - 5) .. 5
    BY <1>2, <1>5, <1>6, <1>r
  <2>4. h \in (0 - 20) .. 50
    BY <1>2, <1>5, <1>6, <1>h
  <2>5. Spans(d, 4000, 7000)
    BY <2>1 DEF Spans
  <2>6. Spans(c, 6000, 7500)
    BY <2>2 DEF Spans
  <2>7. Spans(r, 5, 5)
    BY <2>3 DEF Spans
  <2>8. Spans(h, 20, 50)
    BY <2>4 DEF Spans
  <2> QED
    BY <1>d, <1>c, <1>r, <1>h, <2>5, <2>6, <2>7, <2>8 DEF Limited
<1>11. ASSUME L \subseteq Content PROVE Limited(L, 2000, 4000, 3500, 3000, 4, 2, 0, 20)
  <2>1. d \in (0 - 2000) .. 4000
    BY <1>2, <1>3, <1>5, <1>6, <1>d, <1>11
  <2>2. c \in (0 - 3500) .. 3000
    BY <1>2, <1>3, <1>5, <1>6, <1>c, <1>11
  <2>3. r \in (0 - 4) .. 2
    BY <1>2, <1>3, <1>5, <1>6, <1>r, <1>11
  <2>4. h \in (0 - 0) .. 20
    BY <1>2, <1>3, <1>5, <1>6, <1>h, <1>11
  <2>5. Spans(d, 2000, 4000)
    BY <2>1 DEF Spans
  <2>6. Spans(c, 3500, 3000)
    BY <2>2 DEF Spans
  <2>7. Spans(r, 4, 2)
    BY <2>3 DEF Spans
  <2>8. Spans(h, 0, 20)
    BY <2>4 DEF Spans
  <2> QED
    BY <1>d, <1>c, <1>r, <1>h, <2>5, <2>6, <2>7, <2>8 DEF Limited
<1>12. ASSUME L \subseteq Legacy PROVE Limited(L, 2000, 2000, 1500, 3000, 0, 2, 0, 20)
  <2>1. d \in (0 - 2000) .. 2000
    BY <1>2, <1>3, <1>4, <1>5, <1>6, <1>d, <1>12
  <2>2. c \in (0 - 1500) .. 3000
    BY <1>2, <1>3, <1>4, <1>5, <1>6, <1>c, <1>12
  <2>3. r \in (0 - 0) .. 2
    BY <1>2, <1>3, <1>4, <1>5, <1>6, <1>r, <1>12
  <2>4. h \in (0 - 0) .. 20
    BY <1>2, <1>3, <1>4, <1>5, <1>6, <1>h, <1>12
  <2>5. Spans(d, 2000, 2000)
    BY <2>1 DEF Spans
  <2>6. Spans(c, 1500, 3000)
    BY <2>2 DEF Spans
  <2>7. Spans(r, 0, 2)
    BY <2>3 DEF Spans
  <2>8. Spans(h, 0, 20)
    BY <2>4 DEF Spans
  <2> QED
    BY <1>d, <1>c, <1>r, <1>h, <2>5, <2>6, <2>7, <2>8 DEF Limited
<1> QED
  BY <1>10, <1>11, <1>12

\* Rounding keeps to limits that are whole.
LEMMA Rounds ==
  ASSUME NEW n \in Int, NEW lower \in Int, NEW upper \in Int,
         lower * 10000 <= n, n < (upper + 1) * 10000
  PROVE  lower <= n \div 10000 /\ n \div 10000 <= upper
  OBVIOUS

\* The weapons of the catalogs.
Base(x, damage, range, cooldown) ==
  x.damage = damage /\ x.range = range /\ x.cooldown = cooldown /\ x.health = 100

\* A weapon is one of these.
LEMMA Arms ==
  /\ Base(Rifle, 40, 6, 250) /\ Base(Sidearm, 25, 8, 150) /\ Base(Lance, 48, 9, 350)
  /\ Base(Scatter, 56, 6, 400) /\ Base(Rail, 56, 10, 400)
  BY DEF Base, Rifle, Sidearm, Lance, Scatter, Rail, Profile, BaseHealth

\* The limits of a modifier give those of what it scales.
Rounded(a, p1, p2, z1, z2) ==
  z1 * 10000 <= a * (10000 - p1) + 5000 /\ a * (10000 + p2) + 5000 < (z2 + 1) * 10000

\* Scaling keeps to them.
LEMMA ScaleKeeps ==
  ASSUME NEW a \in Nat, NEW p1 \in Int, NEW p2 \in Int,
         NEW p \in (0 - p1) .. p2, NEW z1 \in Int, NEW z2 \in Int,
         Rounded(a, p1, p2, z1, z2)
  PROVE  Scale(a, p) \in z1 .. z2
<1>1. a * (10000 - p1) <= a * (10000 + p) /\ a * (10000 + p) <= a * (10000 + p2)
  <2>1. \A u, v \in Int : u <= v => a * u <= a * v
    OBVIOUS
  <2>2. 10000 - p1 \in Int /\ 10000 + p \in Int /\ 10000 + p2 \in Int
    OBVIOUS
  <2>3. 10000 - p1 <= 10000 + p /\ 10000 + p <= 10000 + p2
    OBVIOUS
  <2> QED
    BY <2>1, <2>2, <2>3
<1>2. PICK n \in Int : n = a * (10000 + p) + 5000
  OBVIOUS
<1>3. PICK n1 \in Int : n1 = a * (10000 - p1) + 5000
  OBVIOUS
<1>4. PICK n2 \in Int : n2 = a * (10000 + p2) + 5000
  OBVIOUS
<1>5. n1 <= n /\ n <= n2
  BY <1>1, <1>2, <1>3, <1>4
<1>6. z1 * 10000 <= n /\ n < (z2 + 1) * 10000
  BY <1>3, <1>4, <1>5 DEF Rounded
<1>7. z1 <= n \div 10000 /\ n \div 10000 <= z2 /\ n \div 10000 \in Int
  BY <1>6, Rounds
<1> QED
  BY <1>2, <1>7 DEF Scale

\* A weapon, the limits of a build's modifiers, and those they give its damage and cooldown.
Spread(L, base, damage, range, cooldown, d1, d2, c1, c2, r1, r2, h1, h2, x1, x2, y1, y2) ==
  /\ L \in SUBSET All /\ {damage, range, cooldown} \subseteq Nat
  /\ {d1, d2, c1, c2, r1, r2, h1, h2, x1, x2, y1, y2} \subseteq Int
  /\ Base(base, damage, range, cooldown)
  /\ Limited(L, d1, d2, c1, c2, r1, r2, h1, h2)
  /\ Rounded(damage, d1, d2, x1, x2) /\ Rounded(cooldown, c1, c2, y1, y2)

\* The profile keeps to them.
LEMMA ProfileKeeps ==
  ASSUME NEW L, NEW base, NEW damage, NEW range, NEW cooldown, NEW d1, NEW d2, NEW c1, NEW c2,
         NEW r1, NEW r2, NEW h1, NEW h2, NEW x1, NEW x2, NEW y1, NEW y2,
         Spread(L, base, damage, range, cooldown, d1, d2, c1, c2, r1, r2, h1, h2, x1, x2, y1, y2)
  PROVE  Effective(base, L) \in [damage : x1 .. x2, cooldown : y1 .. y2,
                                 range : range - r1 .. range + r2, health : 100 - h1 .. 100 + h2]
<1>1. PICK d : d = Total(FieldOf("damage"), L)
  OBVIOUS
<1>2. PICK c : c = Total(FieldOf("cooldown"), L)
  OBVIOUS
<1>3. PICK r : r = Total(FieldOf("range"), L)
  OBVIOUS
<1>4. PICK h : h = Total(FieldOf("health"), L)
  OBVIOUS
<1>0. /\ L \in SUBSET All /\ damage \in Nat /\ range \in Nat /\ cooldown \in Nat
      /\ d1 \in Int /\ d2 \in Int /\ c1 \in Int /\ c2 \in Int
      /\ r1 \in Int /\ r2 \in Int /\ h1 \in Int /\ h2 \in Int
      /\ x1 \in Int /\ x2 \in Int /\ y1 \in Int /\ y2 \in Int
      /\ Base(base, damage, range, cooldown)
      /\ Limited(L, d1, d2, c1, c2, r1, r2, h1, h2)
      /\ Rounded(damage, d1, d2, x1, x2) /\ Rounded(cooldown, c1, c2, y1, y2)
  BY DEF Spread
<1>5. d \in (0 - d1) .. d2 /\ c \in (0 - c1) .. c2 /\ r \in (0 - r1) .. r2 /\ h \in (0 - h1) .. h2
  BY <1>0, <1>1, <1>2, <1>3, <1>4 DEF Limited, Spans
<1>6. Scale(damage, d) \in x1 .. x2 /\ Scale(cooldown, c) \in y1 .. y2
  BY <1>0, <1>5, ScaleKeeps
<1>7. Effective(base, L) = [damage |-> Scale(damage, d), range |-> range + r,
                            cooldown |-> Scale(cooldown, c), health |-> 100 + h]
  BY <1>0, <1>1, <1>2, <1>3, <1>4, Modifiers DEF Effective, Profile, Base
<1>8. range + r \in range - r1 .. range + r2 /\ 100 + h \in 100 - h1 .. 100 + h2
  BY <1>0, <1>5
<1> QED
  BY <1>6, <1>7, <1>8

\* Numbers within bounds are a profile within them.
LEMMA WithinBounds ==
  ASSUME NEW d \in Int, NEW c \in Int, NEW r \in Int, NEW h \in Int,
         NEW d1 \in Int, NEW c1 \in Int, NEW r1 \in Int, NEW h1 \in Int,
         NEW d2 \in Int, NEW c2 \in Int, NEW r2 \in Int, NEW h2 \in Int,
         d1 <= d, d <= d2, c1 <= c, c <= c2, r1 <= r, r <= r2, h1 <= h, h <= h2
  PROVE  Within([damage |-> d, cooldown |-> c, range |-> r, health |-> h],
                Profile(d1, r1, c1, h1), Profile(d2, r2, c2, h2))
  BY DEF Within, Profile

\* A weapon is one of these.
LEMMA Arsenal ==
  ASSUME NEW base \in {Rifle, Sidearm, Lance, Scatter, Rail}
  PROVE  \E damage \in {25, 40, 48, 56}, range \in 6 .. 10, cooldown \in 150 .. 400 :
            Base(base, damage, range, cooldown)
  BY Arms

\* Under the build catalog every loadout fits every weapon.
LEMMA BuildsResolve ==
  ASSUME NEW L \in SUBSET All, Canonical(L), NEW base \in {Rifle, Sidearm, Lance, Scatter, Rail}
  PROVE  Resolves("Build", base, L)
<1>1. PICK damage \in {25, 40, 48, 56}, range \in 6 .. 10, cooldown \in 150 .. 400 :
              Base(base, damage, range, cooldown)
  BY Arsenal
<1>2. Rounded(damage, 4000, 7000, 15, 100) /\ Rounded(cooldown, 6000, 7500, 60, 700)
  BY DEF Rounded
<1>3. Limited(L, 4000, 7000, 6000, 7500, 5, 5, 20, 50)
  BY Limits
<1>4. Spread(L, base, damage, range, cooldown, 4000, 7000, 6000, 7500, 5, 5, 20, 50, 15, 100, 60, 700)
  BY <1>1, <1>2, <1>3, SMT DEF Spread
<1>5. PICK e : e = Effective(base, L)
  OBVIOUS
<1>6. e \in [damage : 15 .. 100, cooldown : 60 .. 700, range : range - 5 .. range + 5,
             health : 100 - 20 .. 100 + 50]
  BY <1>4, <1>5, ProfileKeeps
<1>7. Within(e, Profile(15, 1, 60, 80), Profile(100, 15, 700, 150))
  BY <1>6 DEF Within, Profile
<1> QED
  BY <1>5, <1>7 DEF Resolves, ProfileFits, ModifiersFit, Offered

\* Under the content and arsenal catalogs too.
LEMMA ContentResolves ==
  ASSUME NEW catalog \in {"Content", "Arsenal"}, NEW L \in SUBSET Content, Canonical(L),
         NEW base \in {Rifle, Sidearm, Lance, Scatter, Rail}
  PROVE  Resolves(catalog, base, L)
<1>0. L \in SUBSET All
  BY AllModules DEF Content, Legacy
<1>1. PICK damage \in {25, 40, 48, 56}, range \in 6 .. 10, cooldown \in 150 .. 400 :
              Base(base, damage, range, cooldown)
  BY Arsenal
<1>2. Rounded(damage, 2000, 4000, 18, 80) /\ Rounded(cooldown, 3500, 3000, 90, 600)
  BY DEF Rounded
<1>3. Limited(L, 2000, 4000, 3500, 3000, 4, 2, 0, 20)
  BY <1>0, Limits
<1>4. Spread(L, base, damage, range, cooldown, 2000, 4000, 3500, 3000, 4, 2, 0, 20, 18, 80, 90, 600)
  BY <1>0, <1>1, <1>2, <1>3, SMT DEF Spread
<1>5. PICK e : e = Effective(base, L)
  OBVIOUS
<1>6. e \in [damage : 18 .. 80, cooldown : 90 .. 600, range : range - 4 .. range + 2,
             health : 100 - 0 .. 100 + 20]
  BY <1>4, <1>5, ProfileKeeps
<1>7. Within(e, Profile(18, 2, 90, 100), Profile(80, 12, 600, 130))
  BY <1>6 DEF Within, Profile
<1>8. PICK x : x = Aggregate(L)
  OBVIOUS
<1>d. PICK d : d = Total(FieldOf("damage"), L)
  OBVIOUS
<1>c. PICK c : c = Total(FieldOf("cooldown"), L)
  OBVIOUS
<1>r. PICK r : r = Total(FieldOf("range"), L)
  OBVIOUS
<1>h. PICK h : h = Total(FieldOf("health"), L)
  OBVIOUS
<1>9. /\ d \in (0 - 2000) .. 4000 /\ c \in (0 - 3500) .. 3000
      /\ r \in (0 - 4) .. 2 /\ h \in (0 - 0) .. 20
  BY <1>3, <1>d, <1>c, <1>r, <1>h DEF Limited, Spans
<1>x. x = [damage |-> d, cooldown |-> c, range |-> r, health |-> h]
  BY <1>0, <1>8, <1>d, <1>c, <1>r, <1>h, Modifiers
<1>10. Within(x, Profile(-3000, -4, -3500, 0), Profile(4000, 2, 3000, 30))
  <2>1. /\ d \in Int /\ c \in Int /\ r \in Int /\ h \in Int
        /\ -3000 <= d /\ d <= 4000 /\ -3500 <= c /\ c <= 3000
        /\ -4 <= r /\ r <= 2 /\ 0 <= h /\ h <= 30
    BY <1>9
  <2>2. PICK d1 : d1 = -3000
    OBVIOUS
  <2>3. PICK r1 : r1 = -4
    OBVIOUS
  <2>4. PICK c1 : c1 = -3500
    OBVIOUS
  <2>5. d1 \in Int /\ r1 \in Int /\ c1 \in Int
    BY <2>2, <2>3, <2>4
  <2>6. Within([damage |-> d, cooldown |-> c, range |-> r, health |-> h],
               Profile(d1, r1, c1, 0), Profile(4000, 2, 3000, 30))
    BY <2>1, <2>2, <2>3, <2>4, <2>5, WithinBounds
  <2> QED
    BY <1>x, <2>2, <2>3, <2>4, <2>6
<1> QED
  BY <1>5, <1>7, <1>8, <1>10 DEF Resolves, ProfileFits, ModifiersFit, Offered

\* And under the first catalog, with its two weapons.
LEMMA LegacyResolves ==
  ASSUME NEW L \in SUBSET Legacy, Canonical(L), NEW base \in {Rifle, Sidearm}
  PROVE  Resolves("Legacy", base, L)
<1>0. L \in SUBSET All
  BY AllModules DEF Legacy
<1>1. PICK damage \in {25, 40}, range \in 6 .. 8, cooldown \in {150, 250} :
              Base(base, damage, range, cooldown)
  BY Arms
<1>2. Rounded(damage, 2000, 2000, 18, 52) /\ Rounded(cooldown, 1500, 3000, 120, 350)
  BY DEF Rounded
<1>3. Limited(L, 2000, 2000, 1500, 3000, 0, 2, 0, 20)
  BY <1>0, Limits
<1>4. Spread(L, base, damage, range, cooldown, 2000, 2000, 1500, 3000, 0, 2, 0, 20, 18, 52, 120, 350)
  BY <1>0, <1>1, <1>2, <1>3, SMT DEF Spread
<1>5. PICK e : e = Effective(base, L)
  OBVIOUS
<1>6. e \in [damage : 18 .. 52, cooldown : 120 .. 350, range : range - 0 .. range + 2,
             health : 100 - 0 .. 100 + 20]
  BY <1>4, <1>5, ProfileKeeps
<1>7. Within(e, Profile(18, 4, 120, 100), Profile(52, 10, 350, 130))
  BY <1>6 DEF Within, Profile
<1>8. PICK x : x = Aggregate(L)
  OBVIOUS
<1>d. PICK d : d = Total(FieldOf("damage"), L)
  OBVIOUS
<1>c. PICK c : c = Total(FieldOf("cooldown"), L)
  OBVIOUS
<1>r. PICK r : r = Total(FieldOf("range"), L)
  OBVIOUS
<1>h. PICK h : h = Total(FieldOf("health"), L)
  OBVIOUS
<1>9. /\ d \in (0 - 2000) .. 2000 /\ c \in (0 - 1500) .. 3000
      /\ r \in (0 - 0) .. 2 /\ h \in (0 - 0) .. 20
  BY <1>3, <1>d, <1>c, <1>r, <1>h DEF Limited, Spans
<1>x. x = [damage |-> d, cooldown |-> c, range |-> r, health |-> h]
  BY <1>0, <1>8, <1>d, <1>c, <1>r, <1>h, Modifiers
<1>10. Within(x, Profile(-3000, 0, -3000, 0), Profile(3000, 2, 3000, 30))
  <2>1. /\ d \in Int /\ c \in Int /\ r \in Int /\ h \in Int
        /\ -3000 <= d /\ d <= 3000 /\ -3000 <= c /\ c <= 3000
        /\ 0 <= r /\ r <= 2 /\ 0 <= h /\ h <= 30
    BY <1>9
  <2>2. PICK d1 : d1 = -3000
    OBVIOUS
  <2>3. PICK r1 : r1 = 0
    OBVIOUS
  <2>4. PICK c1 : c1 = -3000
    OBVIOUS
  <2>5. d1 \in Int /\ r1 \in Int /\ c1 \in Int
    BY <2>2, <2>3, <2>4
  <2>6. Within([damage |-> d, cooldown |-> c, range |-> r, health |-> h],
               Profile(d1, r1, c1, 0), Profile(3000, 2, 3000, 30))
    BY <2>1, <2>2, <2>3, <2>4, <2>5, WithinBounds
  <2> QED
    BY <1>x, <2>2, <2>3, <2>4, <2>6
<1> QED
  BY <1>5, <1>7, <1>8, <1>10 DEF Resolves, ProfileFits, ModifiersFit, Offered

\* A single module.
LEMMA OneModule ==
  ASSUME NEW m \in All, NEW base
  PROVE  Effective(base, {m})
           = Profile(Scale(base.damage, Definition[m].damage), base.range + Definition[m].range,
                     Scale(base.cooldown, Definition[m].cooldown), base.health + Definition[m].health)
<1>1. ASSUME NEW g \in [All -> Int] PROVE Total(g, {m}) = g[m]
  <2>1. {m} \in SUBSET All /\ {m} \ {m} = {} /\ m \in {m} /\ g[m] \in Int
    OBVIOUS
  <2>2. Total(g, {m}) = g[m] + Total(g, {})
    BY <2>1, TotalWithout
  <2>3. Total(g, {}) = 0
    BY TotalWithout
  <2> QED
    BY <2>1, <2>2, <2>3
<1>2. /\ FieldOf("damage")[m] = Definition[m].damage /\ FieldOf("cooldown")[m] = Definition[m].cooldown
      /\ FieldOf("range")[m] = Definition[m].range /\ FieldOf("health")[m] = Definition[m].health
  BY DEF FieldOf
<1>3. /\ Total(FieldOf("damage"), {m}) = Definition[m].damage
      /\ Total(FieldOf("cooldown"), {m}) = Definition[m].cooldown
      /\ Total(FieldOf("range"), {m}) = Definition[m].range
      /\ Total(FieldOf("health"), {m}) = Definition[m].health
  <2>1. /\ FieldOf("damage") \in [All -> Int] /\ FieldOf("cooldown") \in [All -> Int]
        /\ FieldOf("range") \in [All -> Int] /\ FieldOf("health") \in [All -> Int]
    BY Table
  <2>2. /\ Total(FieldOf("damage"), {m}) = FieldOf("damage")[m]
        /\ Total(FieldOf("cooldown"), {m}) = FieldOf("cooldown")[m]
        /\ Total(FieldOf("range"), {m}) = FieldOf("range")[m]
        /\ Total(FieldOf("health"), {m}) = FieldOf("health")[m]
    BY <1>1, <2>1
  <2> QED
    BY <1>2, <2>2, Zenon
<1>4. Aggregate({m}) = [damage |-> Definition[m].damage, cooldown |-> Definition[m].cooldown,
                        range |-> Definition[m].range, health |-> Definition[m].health]
  BY <1>3, Modifiers
<1> QED
  BY <1>4 DEF Effective

\* Every module worsens something.
LEMMA NothingIsFree ==
  ASSUME NEW m \in All, NEW base \in {Rifle, Sidearm, Lance, Scatter, Rail}
  PROVE  ~ Dominates(Effective(base, {m}), base)
<1>1. PICK damage \in {25, 40, 48, 56}, range \in 6 .. 10, cooldown \in 150 .. 400 :
              Base(base, damage, range, cooldown)
  BY Arsenal
<1>2. PICK e : e = Effective(base, {m})
  OBVIOUS
<1>3. /\ e.damage = Scale(damage, Definition[m].damage) /\ e.range = range + Definition[m].range
      /\ e.cooldown = Scale(cooldown, Definition[m].cooldown) /\ e.health = 100 + Definition[m].health
  <2>1. e = Profile(Scale(base.damage, Definition[m].damage), base.range + Definition[m].range,
                    Scale(base.cooldown, Definition[m].cooldown), base.health + Definition[m].health)
    BY <1>2, OneModule
  <2>2. /\ e.damage = Scale(base.damage, Definition[m].damage) /\ e.range = base.range + Definition[m].range
        /\ e.cooldown = Scale(base.cooldown, Definition[m].cooldown)
        /\ e.health = base.health + Definition[m].health
    BY <2>1 DEF Profile
  <2>3. base.damage = damage /\ base.range = range /\ base.cooldown = cooldown /\ base.health = 100
    BY <1>1 DEF Base
  <2> QED
    BY <2>2, <2>3, Zenon
<1>4. ASSUME NEW n \in Int, n = Definition[m].damage, n \in {0 - 1000, 0 - 2000} PROVE e.damage < damage
  <2>1. e.damage = (damage * (10000 + n) + 5000) \div 10000
    BY <1>3, <1>4 DEF Scale
  <2> QED
    BY <2>1, <1>4
<1>5. ASSUME NEW n \in Int, n = Definition[m].cooldown, n \in {1000, 2000, 3500} PROVE e.cooldown > cooldown
  <2>1. e.cooldown = (cooldown * (10000 + n) + 5000) \div 10000
    BY <1>3, <1>5 DEF Scale
  <2> QED
    BY <2>1, <1>5
<1>6. \/ Definition[m].damage \in {0 - 1000, 0 - 2000} \/ Definition[m].cooldown \in {1000, 2000, 3500}
      \/ Definition[m].range \in {0 - 1, 0 - 2} \/ Definition[m].health \in {0 - 20}
  BY AllModules DEF Definition, Module
<1>7. ASSUME Definition[m].range \in {0 - 1, 0 - 2} PROVE e.range < range
  BY <1>3, <1>7
<1>8. ASSUME Definition[m].health \in {0 - 20} PROVE e.health < 100
  BY <1>3, <1>8
<1>9. \/ e.damage < damage \/ e.cooldown > cooldown \/ e.range < range \/ e.health < 100
  BY <1>4, <1>5, <1>6, <1>7, <1>8
<1>10. /\ Dominates(e, base) => /\ e.damage >= damage /\ e.range >= range
                                /\ e.cooldown <= cooldown /\ e.health >= 100
  BY <1>1 DEF Dominates, Base
<1>11. e.damage \in Int /\ e.cooldown \in Int /\ e.range \in Int /\ e.health \in Int
  BY <1>3, AllModules DEF Scale, Definition, Module
<1> QED
  BY <1>2, <1>9, <1>10, <1>11

\* The catalog is sound.
LEMMA CatalogResolves == EveryBuildResolves
<1>1. ASSUME NEW c \in Catalogs, NEW base \in Weapons(c), NEW L \in Loadouts(c) PROVE Resolves(c, base, L)
  <2>0. c \in {"Legacy", "Content", "Arsenal", "Build"} /\ L \in SUBSET Offered[c] /\ Canonical(L)
    BY DEF Catalogs, Offered, Loadouts
  <2>1. CASE c = "Legacy"
    <3>1. base \in {Rifle, Sidearm} /\ L \in SUBSET Legacy
      BY <2>0, <2>1 DEF Weapons, Offered
    <3> QED
      BY <2>0, <2>1, <3>1, LegacyResolves
  <2>2. CASE c \in {"Content", "Arsenal"}
    <3>1. base \in {Rifle, Sidearm, Lance, Scatter, Rail} /\ L \in SUBSET Content
      BY <2>0, <2>2 DEF Weapons, Offered
    <3> QED
      BY <2>0, <2>2, <3>1, ContentResolves
  <2>3. CASE c = "Build"
    <3>1. base \in {Rifle, Sidearm, Lance, Scatter, Rail} /\ L \in SUBSET All
      BY <2>0, <2>3 DEF Weapons, Offered
    <3> QED
      BY <2>0, <2>3, <3>1, BuildsResolve
  <2> QED
    BY <2>0, <2>1, <2>2, <2>3
<1>2. Unresolved = {}
  BY <1>1 DEF Unresolved
<1>3. Weapons("Build") = {Rifle, Sidearm, Lance, Scatter, Rail}
  BY DEF Weapons
<1>4. Free = {}
  BY <1>3, NothingIsFree DEF Free
<1> QED
  BY <1>2, <1>4 DEF EveryBuildResolves

-----------------------------------------------------------------------------
(* The replay *)

\* What one row makes of the replay of those before it.
Step(rows, session, r, i) ==
  IF rows[i].session # session \/ r = NoReplay THEN r
  ELSE IF Fits(r, rows[i], i) THEN Applied(r, rows[i]) ELSE NoReplay

Runs(f, rows, session, n) ==
  f = [i \in 0 .. n |-> IF i = 0 THEN Nobody ELSE Step(rows, session, f[i - 1], i)]

\* The values of a run.
LEMMA RunValues ==
  ASSUME NEW rows, NEW session, NEW n \in Nat, NEW f, Runs(f, rows, session, n)
  PROVE  f[0] = Nobody /\ \A i \in 1 .. n : f[i] = Step(rows, session, f[i - 1], i)
<1>1. PICK h : h = [i \in 0 .. n |-> IF i = 0 THEN Nobody ELSE Step(rows, session, f[i - 1], i)]
  OBVIOUS
<1>2. f = h
  BY <1>1 DEF Runs
<1>3. 0 \in 0 .. n /\ \A i \in 1 .. n : i \in 0 .. n /\ i # 0
  OBVIOUS
<1> QED
  BY <1>1, <1>2, <1>3

\* There is one of every length.
LEMMA RunExists ==
  ASSUME NEW rows, NEW session, NEW n \in Nat
  PROVE  \E f : Runs(f, rows, session, n)
<1> DEFINE T == {m \in 0 .. n : \E f : Runs(f, rows, session, m)}
<1>1. 0 \in T
  <2>1. PICK f : f = [i \in 0 .. 0 |-> Nobody]
    OBVIOUS
  <2>2. PICK h : h = [i \in 0 .. 0 |-> IF i = 0 THEN Nobody ELSE Step(rows, session, f[i - 1], i)]
    OBVIOUS
  <2>3. f = h
    <3>1. \A i \in 0 .. 0 : f[i] = h[i]
      BY <2>1, <2>2
    <3>2. f = [i \in 0 .. 0 |-> f[i]] /\ h = [i \in 0 .. 0 |-> h[i]]
      BY <2>1, <2>2
    <3> QED
      BY <3>1, <3>2
  <2>4. Runs(f, rows, session, 0)
    BY <2>2, <2>3 DEF Runs
  <2> QED
    BY <2>4
<1>2. ASSUME NEW m \in 1 .. n, m - 1 \in T PROVE m \in T
  <2>1. PICK f : Runs(f, rows, session, m - 1)
    BY <1>2
  <2>2. m - 1 \in Nat
    OBVIOUS
  <2>3. f[0] = Nobody /\ \A i \in 1 .. m - 1 : f[i] = Step(rows, session, f[i - 1], i)
    BY <2>1, <2>2, RunValues
  <2>4. PICK new : new = [i \in 0 .. m |-> IF i = m THEN Step(rows, session, f[m - 1], m) ELSE f[i]]
    OBVIOUS
  <2>5. PICK h : h = [i \in 0 .. m |-> IF i = 0 THEN Nobody ELSE Step(rows, session, new[i - 1], i)]
    OBVIOUS
  <2>6. ASSUME NEW i \in 0 .. m PROVE new[i] = h[i]
    <3>1. CASE i = 0
      <4>1. 0 \in 0 .. m /\ 0 # m
        OBVIOUS
      <4> QED
        BY <2>3, <2>4, <2>5, <3>1, <4>1
    <3>2. CASE i = m
      <4>1. m - 1 \in 0 .. m /\ m - 1 # m /\ m # 0 /\ m \in 0 .. m
        OBVIOUS
      <4>2. new[m - 1] = f[m - 1]
        BY <2>4, <4>1
      <4> QED
        BY <2>4, <2>5, <3>2, <4>1, <4>2
    <3>3. CASE i # 0 /\ i # m
      <4>1. i \in 1 .. m - 1 /\ i - 1 \in 0 .. m /\ i - 1 # m
        BY <2>6, <3>3
      <4>2. new[i - 1] = f[i - 1] /\ new[i] = f[i]
        BY <2>4, <2>6, <3>3, <4>1
      <4> QED
        BY <2>3, <2>5, <2>6, <3>3, <4>1, <4>2
    <3> QED
      BY <3>1, <3>2, <3>3
  <2>7. new = [i \in 0 .. m |-> new[i]] /\ h = [i \in 0 .. m |-> h[i]]
    BY <2>4, <2>5
  <2>8. new = h
    BY <2>6, <2>7
  <2>9. Runs(new, rows, session, m)
    BY <2>5, <2>8 DEF Runs
  <2> QED
    BY <2>9
<1> HIDE DEF T
<1>3. \A m \in 0 .. n : m \in T
  BY <1>1, <1>2, UpTo
<1> QED
  BY <1>3 DEF T

\* The replay is the end of one.
LEMMA ReplayRuns ==
  ASSUME NEW rows, NEW session, NEW n \in Nat
  PROVE  \E f : Runs(f, rows, session, n) /\ Replay(rows, session, n) = f[n]
<1> DEFINE run == CHOOSE f : Runs(f, rows, session, n)
<1>1. Runs(run, rows, session, n)
  BY RunExists
<1>2. Replay(rows, session, n) = run[n]
  BY DEF Replay, Runs, Step
<1> QED
  BY <1>1, <1>2

\* Two runs over logs that begin alike agree as far.
LEMMA RunsAgree ==
  ASSUME NEW a, NEW b, NEW session, NEW n \in Nat, NEW m \in Nat, NEW k \in Nat, k <= n, k <= m,
         \A i \in 1 .. k : a[i] = b[i],
         NEW f, Runs(f, a, session, n), NEW h, Runs(h, b, session, m)
  PROVE  f[k] = h[k]
<1> DEFINE T == {i \in 0 .. k : f[i] = h[i]}
<1>0. \A rows : \A x : \A j \in Nat : Runs(x, rows, session, j) =>
          x[0] = Nobody /\ \A i \in 1 .. j : x[i] = Step(rows, session, x[i - 1], i)
  BY RunValues
<1>1. f[0] = Nobody /\ \A i \in 1 .. n : f[i] = Step(a, session, f[i - 1], i)
  BY <1>0
<1>2. h[0] = Nobody /\ \A i \in 1 .. m : h[i] = Step(b, session, h[i - 1], i)
  BY <1>0
<1>3. 0 \in T
  BY <1>1, <1>2
<1>4. ASSUME NEW i \in 1 .. k, i - 1 \in T PROVE i \in T
  <2>1. i \in 1 .. n /\ i \in 1 .. m /\ i \in 0 .. k /\ f[i - 1] = h[i - 1] /\ a[i] = b[i]
    BY <1>4
  <2>2. Step(a, session, f[i - 1], i) = Step(b, session, h[i - 1], i)
    BY <2>1 DEF Step
  <2> QED
    BY <1>1, <1>2, <2>1, <2>2
<1> HIDE DEF T
<1>5. \A i \in 0 .. k : i \in T
  BY <1>3, <1>4, UpTo
<1> QED
  BY <1>5 DEF T

\* The replay of no rows, and of one more row.
LEMMA ReplaySteps ==
  ASSUME NEW rows, NEW session
  PROVE  /\ Replay(rows, session, 0) = Nobody
         /\ \A n \in Nat : Replay(rows, session, n + 1)
                             = Step(rows, session, Replay(rows, session, n), n + 1)
<1>1. Replay(rows, session, 0) = Nobody
  <2>1. 0 \in Nat
    OBVIOUS
  <2>2. PICK f : Runs(f, rows, session, 0) /\ Replay(rows, session, 0) = f[0]
    BY <2>1, ReplayRuns
  <2> QED
    BY <2>1, <2>2, RunValues
<1>2. ASSUME NEW n \in Nat
      PROVE  Replay(rows, session, n + 1) = Step(rows, session, Replay(rows, session, n), n + 1)
  <2>1. n + 1 \in Nat /\ n + 1 \in 1 .. n + 1 /\ (n + 1) - 1 = n
    OBVIOUS
  <2>2. PICK f : Runs(f, rows, session, n) /\ Replay(rows, session, n) = f[n]
    BY ReplayRuns
  <2>3. PICK h : Runs(h, rows, session, n + 1) /\ Replay(rows, session, n + 1) = h[n + 1]
    BY <2>1, ReplayRuns
  <2>4. f[n] = h[n]
    <3>1. n <= n /\ n <= n + 1 /\ \A i \in 1 .. n : rows[i] = rows[i]
      OBVIOUS
    <3> QED
      BY <2>1, <2>2, <2>3, <3>1, RunsAgree
  <2>5. h[n + 1] = Step(rows, session, h[n], n + 1)
    <3>1. PICK k \in Nat : k = n + 1
      BY <2>1
    <3>2. Runs(h, rows, session, k)
      BY <2>3, <3>1
    <3>3. \A i \in 1 .. k : h[i] = Step(rows, session, h[i - 1], i)
      BY <3>2, RunValues
    <3> QED
      BY <2>1, <3>1, <3>3
  <2> QED
    BY <2>2, <2>3, <2>4, <2>5
<1> QED
  BY <1>1, <1>2

\* What comes after does not matter.
LEMMA ReplayOfPrefix ==
  ASSUME NEW a, NEW b, NEW session, NEW n \in Nat, \A i \in 1 .. n : a[i] = b[i]
  PROVE  Replay(a, session, n) = Replay(b, session, n)
<1>1. PICK f : Runs(f, a, session, n) /\ Replay(a, session, n) = f[n]
  BY ReplayRuns
<1>2. PICK h : Runs(h, b, session, n) /\ Replay(b, session, n) = h[n]
  BY ReplayRuns
<1>3. n <= n
  OBVIOUS
<1> QED
  BY <1>1, <1>2, <1>3, RunsAgree

\* The rows of other sessions do not matter.
LEMMA ReplayOfOthers ==
  ASSUME NEW rows, NEW session, NEW m \in Nat, NEW n \in Nat, m <= n,
         \A i \in m + 1 .. n : rows[i].session # session
  PROVE  Replay(rows, session, n) = Replay(rows, session, m)
<1> DEFINE T == {i \in 0 .. n : i >= m => Replay(rows, session, i) = Replay(rows, session, m)}
<1>1. 0 \in T
  OBVIOUS
<1>2. ASSUME NEW i \in 1 .. n, i - 1 \in T PROVE i \in T
  <2>1. i - 1 \in Nat /\ (i - 1) + 1 = i /\ i \in 0 .. n
    OBVIOUS
  <2>2. PICK k \in Nat : k = i - 1
    BY <2>1
  <2>3. Replay(rows, session, i) = Step(rows, session, Replay(rows, session, k), i)
    BY <2>1, <2>2, ReplaySteps
  <2>4. CASE i <= m
    BY <2>1, <2>4
  <2>5. CASE i > m
    <3>1. i \in m + 1 .. n /\ i - 1 >= m
      BY <2>1, <2>5
    <3>2. rows[i].session # session /\ Replay(rows, session, k) = Replay(rows, session, m)
      BY <1>2, <2>2, <3>1
    <3>3. Replay(rows, session, i) = Replay(rows, session, k)
      BY <2>3, <3>2 DEF Step
    <3> QED
      BY <2>1, <3>2, <3>3
  <2> QED
    BY <2>1, <2>4, <2>5
<1> HIDE DEF T
<1>3. \A i \in 0 .. n : i \in T
  BY <1>1, <1>2, UpTo
<1> QED
  BY <1>3 DEF T

\* The least and the greatest number of a set.
LEMMA MinIs ==
  ASSUME NEW T, T \subseteq Nat, T # {}
  PROVE  Min(T) \in T /\ \A x \in T : Min(T) <= x
<1>1. \E x \in T : \A y \in T : x <= y
  BY LeastNumber
<1> QED
  BY <1>1, Zenon DEF Min

\* The greatest of the numbers up to n.
LEMMA MaxIs ==
  ASSUME NEW T, NEW n \in Nat, T \subseteq 1 .. n, T # {}
  PROVE  Max(T) \in T /\ \A x \in T : x <= Max(T)
<1> DEFINE Upper == {k \in Nat : \A x \in T : x <= k}
<1>1. Upper \subseteq Nat /\ n \in Upper
  OBVIOUS
<1>2. PICK k \in Upper : \A m \in Upper : k <= m
  BY <1>1, LeastNumber
<1>3. k \in Nat /\ \A x \in T : x <= k
  BY <1>2
<1>4. k \in T
  <2> SUFFICES ASSUME k \notin T PROVE FALSE
    OBVIOUS
  <2>1. PICK x \in T : x \in 1 .. n
    OBVIOUS
  <2>2. x <= k /\ x # k
    BY <1>3, <2>1
  <2>3. k - 1 \in Nat
    BY <1>3, <2>1, <2>2
  <2>4. \A y \in T : y <= k - 1
    <3> SUFFICES ASSUME NEW y \in T PROVE y <= k - 1
      OBVIOUS
    <3>1. y \in 1 .. n /\ y <= k /\ y # k
      BY <1>3
    <3> QED
      BY <1>3, <3>1
  <2>5. k - 1 \in Upper
    BY <2>3, <2>4
  <2>6. k <= k - 1
    BY <1>2, <2>5
  <2> QED
    BY <1>3, <2>6
<1>5. \E x \in T : \A y \in T : x >= y
  <2>1. \A y \in T : k >= y
    BY <1>3
  <2> QED
    BY <1>4, <2>1
<1>6. Max(T) \in T /\ \A y \in T : Max(T) >= y
  BY <1>5, Zenon DEF Max
<1> QED
  BY <1>6

-----------------------------------------------------------------------------
(* The state *)

Saves == [fragments : Nat, owned : SUBSET All, loadout : SUBSET All, revision : Nat]
Lists == {"Content", "Arsenal", "Build"}
Evidences == [catalog : Lists, state : Saves]
Proofs == [milestone : Milestones, session : Nat, through : Nat]

RowsWith(kinds, D) == [session : Nat, kind : kinds, data : D]
Rows == UNION {RowsWith({"Snapshot"}, Evidences), RowsWith({"Completed"}, SUBSET Milestones),
               RowsWith({"Loot"}, Nat),
               RowsWith({"Combined", "Equipped"}, [before : Evidences, after : Evidences]),
               RowsWith({"Claimed"}, [arc : Arcs, previous : Nat, proofs : SUBSET Proofs])}

\* What a row of each kind tells.
LEMMA RowKinds ==
  ASSUME NEW row \in Rows
  PROVE  /\ row.session \in Nat
         /\ \/ row.kind = "Snapshot" /\ row.data \in Evidences
            \/ row.kind = "Completed" /\ row.data \in SUBSET Milestones
            \/ row.kind = "Loot" /\ row.data \in Nat
            \/ row.kind \in {"Combined", "Equipped"} /\ row.data \in [before : Evidences, after : Evidences]
            \/ row.kind = "Claimed" /\ row.data \in [arc : Arcs, previous : Nat, proofs : SUBSET Proofs]
  BY DEF Rows, RowsWith

Replays == [admitted : BOOLEAN, done : BOOLEAN, rewarded : BOOLEAN, milestones : SUBSET Milestones,
            catalog : Lists \cup {"None", "Invalid"}, state : Saves, claimed : SUBSET Arcs]

\* A replay that failed is known by its catalog.
Replayed(r) == r \in Replays /\ (r.catalog = "Invalid" => r = NoReplay)

\* The replay before the first row, and one that failed.
LEMMA NobodyIsReplayed ==
  /\ Replayed(Nobody) /\ Nobody # NoReplay /\ Replayed(NoReplay) /\ NoReplay.catalog = "Invalid"
  /\ ~ Nobody.admitted /\ ~ NoReplay.admitted
  BY DEF Replayed, Replays, Nobody, NoReplay, Save, Saves, Lists

\* When a row fits.
LEMMA WhenFits ==
  ASSUME NEW r, NEW row, NEW id
  PROVE  /\ row.kind = "Snapshot" => (Fits(r, row, id) <=> ~ r.admitted)
         /\ row.kind = "Completed" => Fits(r, row, id)
         /\ row.kind = "Loot" => (Fits(r, row, id) <=> row.data >= r.state.fragments)
         /\ row.kind = "Combined" \/ row.kind = "Equipped" =>
               (Fits(r, row, id) <=> /\ r.done /\ r.admitted
                                     /\ row.data.before = [catalog |-> r.catalog, state |-> r.state])
         /\ row.kind = "Claimed" =>
               (Fits(r, row, id) <=> /\ r.done /\ r.admitted
                                     /\ \A p \in row.data.proofs : p.through < id
                                     /\ row.data.arc \notin r.claimed
                                     /\ row.data.previous = r.state.fragments)
<1>1. row.kind = "Snapshot" => (Fits(r, row, id) <=> ~ r.admitted)
  BY Zenon DEF Fits
<1>2. row.kind = "Completed" => Fits(r, row, id)
  BY Zenon DEF Fits
<1>3. row.kind = "Loot" => (Fits(r, row, id) <=> row.data >= r.state.fragments)
  BY Zenon DEF Fits
<1>4. row.kind = "Combined" \/ row.kind = "Equipped" =>
               (Fits(r, row, id) <=> /\ r.done /\ r.admitted
                                     /\ row.data.before = [catalog |-> r.catalog, state |-> r.state])
  BY Zenon DEF Fits
<1>5. row.kind = "Claimed" =>
               (Fits(r, row, id) <=> /\ r.done /\ r.admitted
                                     /\ \A p \in row.data.proofs : p.through < id
                                     /\ row.data.arc \notin r.claimed
                                     /\ row.data.previous = r.state.fragments)
  BY Zenon DEF Fits
<1> QED
  BY <1>1, <1>2, <1>3, <1>4, <1>5

\* What a row makes of a replay.
LEMMA Applies ==
  ASSUME NEW r \in Replays, NEW row \in Rows
  PROVE  LET e == Applied(r, row)
         IN  /\ e \in Replays
             /\ row.kind = "Snapshot" => e = [r EXCEPT !.admitted = TRUE, !.catalog = row.data.catalog,
                                                       !.state = row.data.state]
             /\ row.kind = "Completed" => e = [r EXCEPT !.done = TRUE, !.milestones = row.data]
             /\ row.kind = "Loot" => e = [r EXCEPT !.rewarded = TRUE, !.state.fragments = row.data]
             /\ row.kind \in {"Combined", "Equipped"} => e = [r EXCEPT !.state = row.data.after.state]
             /\ row.kind = "Claimed" => e = [r EXCEPT !.state.fragments = row.data.previous + Commission,
                                                      !.claimed = @ \cup {row.data.arc}]
             /\ r.catalog # "Invalid" => e.catalog # "Invalid"
<1>1. CASE row.kind = "Snapshot" /\ row.data \in Evidences
  BY <1>1 DEF Applied, Replays, Evidences, Lists
<1>2. CASE row.kind = "Completed" /\ row.data \in SUBSET Milestones
  BY <1>2 DEF Applied, Replays
<1>3. CASE row.kind = "Loot" /\ row.data \in Nat
  BY <1>3 DEF Applied, Replays, Saves
<1>4. CASE row.kind \in {"Combined", "Equipped"} /\ row.data \in [before : Evidences, after : Evidences]
  BY <1>4 DEF Applied, Replays, Evidences
<1>5. CASE row.kind = "Claimed" /\ row.data \in [arc : Arcs, previous : Nat, proofs : SUBSET Proofs]
  <2>1. Applied(r, row) = [r EXCEPT !.state.fragments = row.data.previous + Commission,
                                    !.claimed = @ \cup {row.data.arc}]
    BY <1>5 DEF Applied
  <2>2. PICK c : c = r.claimed \cup {row.data.arc}
    OBVIOUS
  <2>3. PICK n : n = row.data.previous + Commission
    OBVIOUS
  <2>4. c \in SUBSET Arcs /\ n \in Nat
    BY <1>5, <2>2, <2>3 DEF Replays, Commission
  <2>5. Applied(r, row) = [r EXCEPT !.state.fragments = n, !.claimed = c]
    BY <2>1, <2>2, <2>3
  <2>6. Applied(r, row) \in Replays /\ Applied(r, row).catalog = r.catalog
    <3>1. PICK z : z = [r.state EXCEPT !.fragments = n]
      OBVIOUS
    <3>2. z \in Saves
      BY <2>4, <3>1 DEF Replays, Saves
    <3>3. Applied(r, row) = [r EXCEPT !.state = z, !.claimed = c]
      BY <2>5, <3>1
    <3>4. [r EXCEPT !.state = z, !.claimed = c] \in Replays
      BY <2>4, <3>2 DEF Replays
    <3>5. [r EXCEPT !.state = z, !.claimed = c].catalog = r.catalog
      BY DEF Replays
    <3> QED
      BY <3>3, <3>4, <3>5
  <2> QED
    BY <1>5, <2>1, <2>6
<1> QED
  BY <1>1, <1>2, <1>3, <1>4, <1>5, RowKinds

\* A step keeps to the type, and a failure stays one.
LEMMA StepReplays ==
  ASSUME NEW rows, NEW session, NEW i, rows[i] \in Rows, NEW r, Replayed(r)
  PROVE  Replayed(Step(rows, session, r, i))
<1>1. CASE rows[i].session # session \/ r = NoReplay
  BY <1>1 DEF Step
<1>2. CASE ~ (rows[i].session # session \/ r = NoReplay)
  <2>1. CASE Fits(r, rows[i], i)
    <3>1. Step(rows, session, r, i) = Applied(r, rows[i])
      BY <1>2, <2>1 DEF Step
    <3>2. r.catalog # "Invalid" /\ r \in Replays
      BY <1>2 DEF Replayed
    <3>3. Applied(r, rows[i]) \in Replays /\ Applied(r, rows[i]).catalog # "Invalid"
      BY <3>2, Applies
    <3> QED
      BY <3>1, <3>3 DEF Replayed
  <2>2. CASE ~ Fits(r, rows[i], i)
    <3>1. Step(rows, session, r, i) = NoReplay
      BY <1>2, <2>2 DEF Step
    <3> QED
      BY <3>1, NobodyIsReplayed
  <2> QED
    BY <2>1, <2>2
<1> QED
  BY <1>1, <1>2

\* So does the replay.
LEMMA ReplayIsTyped ==
  ASSUME NEW rows, NEW session, NEW n \in Nat, \A i \in 1 .. n : rows[i] \in Rows
  PROVE  Replayed(Replay(rows, session, n))
<1> DEFINE T == {i \in 0 .. n : Replayed(Replay(rows, session, i))}
<1>1. 0 \in T
  BY ReplaySteps, NobodyIsReplayed
<1>2. ASSUME NEW i \in 1 .. n, i - 1 \in T PROVE i \in T
  <2>1. PICK k \in Nat : k = i - 1
    OBVIOUS
  <2>2. k + 1 = i /\ i \in 0 .. n
    BY <2>1
  <2>3. Replay(rows, session, i) = Step(rows, session, Replay(rows, session, k), i)
    BY <2>2, ReplaySteps
  <2>4. Replayed(Replay(rows, session, k)) /\ rows[i] \in Rows
    BY <1>2, <2>1
  <2>5. Replayed(Replay(rows, session, i))
    BY <2>3, <2>4, StepReplays
  <2> QED
    BY <2>2, <2>5
<1> HIDE DEF T
<1>3. \A i \in 0 .. n : i \in T
  BY <1>1, <1>2, UpTo
<1> QED
  BY <1>3 DEF T

\* A replay that fails stays failed, so one that is read was read all along.
LEMMA ReadableBefore ==
  ASSUME NEW rows, NEW session, NEW n \in Nat, Readable(Replay(rows, session, n + 1))
  PROVE  /\ Readable(Replay(rows, session, n))
         /\ rows[n + 1].session = session =>
               /\ Fits(Replay(rows, session, n), rows[n + 1], n + 1)
               /\ Replay(rows, session, n + 1) = Applied(Replay(rows, session, n), rows[n + 1])
<1>1. Replay(rows, session, n + 1) = Step(rows, session, Replay(rows, session, n), n + 1)
  BY ReplaySteps
<1> QED
  BY <1>1 DEF Step, Readable

\* A log and a longer one.
Extends(old, new) ==
  /\ old \in Seq(Rows) /\ new \in Seq(Rows) /\ Len(old) \in Nat /\ Len(new) \in Nat
  /\ DOMAIN old = 1 .. Len(old) /\ DOMAIN new = 1 .. Len(new)
  /\ Len(old) <= Len(new) /\ \A i \in 1 .. Len(old) : new[i] = old[i]

\* The rows of a session in a log.
Own(rows, session) == {i \in DOMAIN rows : rows[i].session = session}

\* A log that stays.
LEMMA LogStays == ASSUME NEW old \in Seq(Rows) PROVE Extends(old, old)
<1>1. Len(old) \in Nat /\ DOMAIN old = 1 .. Len(old)
  BY LenProperties
<1> QED
  BY <1>1 DEF Extends

\* One more row.
LEMMA OneMore ==
  ASSUME NEW old \in Seq(Rows), NEW row \in Rows, NEW new, new = Append(old, row)
  PROVE  Extends(old, new) /\ Len(new) = Len(old) + 1 /\ new[Len(old) + 1] = row
<1>1. Len(old) \in Nat /\ DOMAIN old = 1 .. Len(old)
  BY LenProperties
<1>2. /\ new \in Seq(Rows) /\ Len(new) = Len(old) + 1
      /\ \A i \in 1 .. Len(old) : new[i] = old[i]
      /\ new[Len(old) + 1] = row
  BY <1>1, AppendProperties
<1>3. DOMAIN new = 1 .. Len(new)
  BY <1>2, LenProperties
<1> QED
  BY <1>1, <1>2, <1>3 DEF Extends

Two(rows, a, b) == rows \in Seq(Rows) /\ Len(rows) = 2 /\ rows[1] = a /\ rows[2] = b
Joins(new, old, two, a, b) == old \in Seq(Rows) /\ Two(two, a, b) /\ new = old \o two

\* Two more rows.
LEMMA TwoMore ==
  ASSUME NEW old, NEW a, NEW b, NEW two, NEW new, Joins(new, old, two, a, b)
  PROVE  /\ Extends(old, new) /\ Len(new) = Len(old) + 2
         /\ new[Len(old) + 1] = a /\ new[Len(old) + 2] = b
<1>0. old \in Seq(Rows) /\ Two(two, a, b) /\ new = old \o two
  BY DEF Joins
<1>1. Len(old) \in Nat /\ DOMAIN old = 1 .. Len(old)
  BY <1>0, LenProperties
<1>2. two \in Seq(Rows) /\ Len(two) = 2 /\ two[1] = a /\ two[2] = b
  BY <1>0 DEF Two
<1>3. /\ new \in Seq(Rows) /\ Len(new) = Len(old) + Len(two)
      /\ \A i \in 1 .. Len(old) + Len(two) : new[i] = IF i <= Len(old) THEN old[i] ELSE two[i - Len(old)]
  BY <1>0, <1>2, ConcatProperties
<1>4. DOMAIN new = 1 .. Len(new)
  BY <1>3, LenProperties
<1>5. \A i \in 1 .. Len(old) : i \in 1 .. Len(old) + 2 /\ i <= Len(old)
  BY <1>1
<1>6. /\ Len(old) + 1 \in 1 .. Len(old) + 2 /\ ~ (Len(old) + 1 <= Len(old)) /\ (Len(old) + 1) - Len(old) = 1
      /\ Len(old) + 2 \in 1 .. Len(old) + 2 /\ ~ (Len(old) + 2 <= Len(old)) /\ (Len(old) + 2) - Len(old) = 2
  BY <1>1
<1>7. new[Len(old) + 1] = a /\ new[Len(old) + 2] = b
  BY <1>2, <1>3, <1>6
<1>8. \A i \in 1 .. Len(old) : new[i] = old[i]
  BY <1>2, <1>3, <1>5
<1> QED
  BY <1>0, <1>1, <1>2, <1>3, <1>4, <1>7, <1>8 DEF Extends

\* What was replayed of a log is replayed of the longer one.
LEMMA ReplayExtends ==
  ASSUME NEW old, NEW new, Extends(old, new), NEW session, NEW n \in 0 .. Len(old)
  PROVE  Replay(new, session, n) = Replay(old, session, n)
<1>1. n \in Nat /\ \A i \in 1 .. n : new[i] = old[i]
  BY DEF Extends
<1> QED
  BY <1>1, ReplayOfPrefix

\* A session keeps its rows, and new ones are those of the rows that were added.
LEMMA OwnExtends ==
  ASSUME NEW old, NEW new, Extends(old, new), NEW session
  PROVE  /\ Own(old, session) \subseteq Own(new, session) /\ Own(old, session) \subseteq 1 .. Len(old)
         /\ \A i \in Own(new, session) : i \in Own(old, session)
                                         \/ (i \in Len(old) + 1 .. Len(new) /\ new[i].session = session)
  BY DEF Extends, Own

-----------------------------------------------------------------------------
(* The inductive invariant *)

Phases == {"Idle", "Admitted", "Playing", "Complete", "Claiming", "Telling"}
GateStates == [id : Nat, phase : Phases, client : Catalogs \cup {"None"}, arc : Arcs \cup {"None"}]

TypeInv ==
  /\ origin \in Origins /\ save \in Saves /\ log \in Seq(Rows) /\ sessions \in Nat
  /\ gates \in [Gateways -> GateStates] /\ grants \subseteq 1 .. sessions
  /\ proofs \subseteq Proofs /\ claims \subseteq [arc : Arcs, id : Nat]
  /\ combines \subseteq [op : CombineIds, module : All]
  /\ changes \subseteq [op : LoadoutIds, revision : Nat, modules : SUBSET All]
  /\ IsFiniteSet(claims) /\ IsFiniteSet(changes)

\* A gateway that has joined its session.
JoinedPhases == {"Playing", "Complete", "Claiming", "Telling"}
Joined(g) == gates[g].phase \in JoinedPhases

\* Sessions belong to one gateway each, and have rows once they are joined or rewarded.
GateInv ==
  /\ \A g \in Gateways : gates[g].id \in 0 .. sessions
  /\ \A g, h \in Gateways : gates[g].id = gates[h].id /\ gates[g].id # 0 => g = h
  /\ \A g \in Gateways : gates[g].phase # "Idle" => gates[g].id # 0 /\ gates[g].client \in Catalogs
  /\ \A g \in Gateways : gates[g].phase = "Claiming" => gates[g].arc \in Arcs
  /\ \A g \in Gateways : Joined(g) => Own(log, gates[g].id) # {}
  /\ \A i \in DOMAIN log : log[i].session \in 1 .. sessions
  /\ \A s \in grants : Own(log, s) # {}

\* What a row of the save tells.
LEMMA EvidenceIs ==
  ASSUME NEW client, NEW s \in Saves
  PROVE  /\ Written(client, s.owned) \in Lists
         /\ Evidence(client, s) \in Evidences
         /\ Evidence(client, s).catalog = Written(client, s.owned)
         /\ Evidence(client, s).state = [s EXCEPT !.owned = @ \cap Offered[Written(client, s.owned)]]
<1>1. Written(client, s.owned) \in Lists
  BY DEF Written, Lists
<1>2. PICK c : c = Written(client, s.owned)
  OBVIOUS
<1>3. PICK o : o = s.owned \cap Offered[c]
  OBVIOUS
<1>4. o \in SUBSET All
  BY <1>3 DEF Saves
<1>5. [s EXCEPT !.owned = o] \in Saves
  BY <1>4 DEF Saves
<1>6. Evidence(client, s) = [catalog |-> c, state |-> [s EXCEPT !.owned = o]]
  BY <1>2, <1>3 DEF Evidence
<1> QED
  BY <1>1, <1>2, <1>3, <1>5, <1>6 DEF Evidences

\* Combining and equipping make saves of saves.
LEMMA StatesAreSaves ==
  ASSUME NEW s \in Saves
  PROVE  /\ \A m \in All : Recipe(m) <= s.fragments => CombinedState(s, m) \in Saves
         /\ \A L \in SUBSET All : EquippedState(s, L) \in Saves
<1>1. \A m \in All : Recipe(m) \in Nat
  BY AllModules DEF Recipe, Definition, Module
<1>2. ASSUME NEW m \in All, Recipe(m) <= s.fragments PROVE CombinedState(s, m) \in Saves
  <2>1. s.fragments - Recipe(m) \in Nat /\ s.owned \cup {m} \in SUBSET All
    BY <1>1, <1>2 DEF Saves
  <2> QED
    BY <2>1 DEF CombinedState, Saves
<1>3. ASSUME NEW L \in SUBSET All PROVE EquippedState(s, L) \in Saves
  <2>1. PICK n : n = s.revision + 1
    OBVIOUS
  <2>2. n \in Nat
    BY <2>1 DEF Saves
  <2>3. EquippedState(s, L) = [s EXCEPT !.loadout = L, !.revision = n]
    BY <2>1 DEF EquippedState
  <2> QED
    BY <2>2, <2>3 DEF Saves
<1> QED
  BY <1>2, <1>3

\* The rows the handlers write.
LEMMA RowsAreTyped ==
  ASSUME TypeInv, NEW g \in Gateways
  PROVE  LET e == Evidence(gates[g].client, save)
         IN  /\ e \in Evidences
             /\ Row(Id(g), "Snapshot", e) \in Rows
             /\ \A reached \in Missions : Row(Id(g), "Completed", reached) \in Rows
             /\ Row(Id(g), "Loot", LootTotal(save.fragments)) \in Rows
             /\ \A m \in All : Affords(m) =>
                   Row(Id(g), "Combined", Change(e, [e EXCEPT !.state = CombinedState(e.state, m)])) \in Rows
             /\ \A L \in SUBSET All :
                   Row(Id(g), "Equipped", Change(e, [e EXCEPT !.state = EquippedState(e.state, L)])) \in Rows
             /\ \A arc \in Arcs :
                   Row(Id(g), "Claimed", [arc |-> arc, previous |-> save.fragments,
                        proofs |-> {p \in proofs : p.milestone \in Requirements[arc]}]) \in Rows
<1>1. PICK e : e = Evidence(gates[g].client, save)
  OBVIOUS
<1>2. PICK id : id = Id(g)
  OBVIOUS
<1>3. save \in Saves /\ id \in Nat /\ proofs \subseteq Proofs
  BY <1>2 DEF TypeInv, GateStates, Id
<1>4. e \in Evidences /\ e.state.fragments = save.fragments /\ e.state \in Saves
  <2>1. /\ Evidence(gates[g].client, save) \in Evidences
        /\ Evidence(gates[g].client, save).state
             = [save EXCEPT !.owned = @ \cap Offered[Written(gates[g].client, save.owned)]]
    BY <1>3, EvidenceIs
  <2>2. e \in Evidences /\ e.state = [save EXCEPT !.owned = @ \cap Offered[Written(gates[g].client, save.owned)]]
    BY <1>1, <2>1
  <2> QED
    BY <1>3, <2>2 DEF Evidences, Saves
<1>5. Row(id, "Snapshot", e) \in Rows
  BY <1>3, <1>4 DEF Row, Rows, RowsWith
<1>6. ASSUME NEW reached \in Missions PROVE Row(id, "Completed", reached) \in Rows
  <2>1. reached \in SUBSET Milestones
    BY LoadoutAssumption
  <2> QED
    BY <1>3, <2>1 DEF Row, Rows, RowsWith
<1>7. Row(id, "Loot", LootTotal(save.fragments)) \in Rows
  <2>1. LootTotal(save.fragments) \in Nat
    BY <1>3, LoadoutAssumption DEF LootTotal, Saves
  <2> QED
    BY <1>3, <2>1 DEF Row, Rows, RowsWith
<1>8. ASSUME NEW s \in Saves
      PROVE  Change(e, [e EXCEPT !.state = s]) \in [before : Evidences, after : Evidences]
  BY <1>4 DEF Change, Evidences
<1>9. ASSUME NEW m \in All, Affords(m)
      PROVE  Row(id, "Combined", Change(e, [e EXCEPT !.state = CombinedState(e.state, m)])) \in Rows
  <2>1. Recipe(m) \in Nat
    BY AllModules DEF Recipe, Definition, Module
  <2>2. Recipe(m) <= e.state.fragments
    BY <1>3, <1>4, <1>9, <2>1 DEF Affords, Saves
  <2>3. CombinedState(e.state, m) \in Saves
    BY <1>4, <2>2, StatesAreSaves
  <2>4. PICK d : d = Change(e, [e EXCEPT !.state = CombinedState(e.state, m)])
    OBVIOUS
  <2>5. d \in [before : Evidences, after : Evidences]
    BY <1>8, <2>3, <2>4
  <2>6. Row(id, "Combined", d) \in Rows
    BY <1>3, <2>5 DEF Row, Rows, RowsWith
  <2> QED
    BY <2>4, <2>6
<1>10. ASSUME NEW L \in SUBSET All
       PROVE  Row(id, "Equipped", Change(e, [e EXCEPT !.state = EquippedState(e.state, L)])) \in Rows
  <2>3. EquippedState(e.state, L) \in Saves
    BY <1>4, StatesAreSaves
  <2>4. PICK d : d = Change(e, [e EXCEPT !.state = EquippedState(e.state, L)])
    OBVIOUS
  <2>5. d \in [before : Evidences, after : Evidences]
    BY <1>8, <2>3, <2>4
  <2>6. Row(id, "Equipped", d) \in Rows
    BY <1>3, <2>5 DEF Row, Rows, RowsWith
  <2> QED
    BY <2>4, <2>6
<1>11. ASSUME NEW arc \in Arcs
       PROVE  Row(id, "Claimed", [arc |-> arc, previous |-> save.fragments,
                 proofs |-> {p \in proofs : p.milestone \in Requirements[arc]}]) \in Rows
  <2>1. PICK ps : ps = {p \in proofs : p.milestone \in Requirements[arc]}
    OBVIOUS
  <2>2. ps \in SUBSET Proofs /\ save.fragments \in Nat
    BY <1>3, <2>1 DEF Saves
  <2>3. Row(id, "Claimed", [arc |-> arc, previous |-> save.fragments, proofs |-> ps]) \in Rows
    BY <1>3, <2>2 DEF Row, Rows, RowsWith
  <2> QED
    BY <2>1, <2>3
<1> QED
  BY <1>1, <1>2, <1>4, <1>5, <1>6, <1>7, <1>9, <1>10, <1>11

\* What a handler writes to the log.
LogSteps(g) ==
  \/ log' = log
  \/ \E row \in Rows : log' = Append(log, row) /\ row.session = Id(g)
  \/ \E a, b \in Rows : \E two : Two(two, a, b) /\ log' = log \o two
                              /\ a.session = Id(g) /\ b.session = Id(g)

\* A handler of a gateway.
Handles(g) ==
  \/ \E client \in Clients : Handshake(g, client)
  \/ Join(g) \/ Leave(g) \/ Show(g) \/ Grant(g) \/ Tell(g)
  \/ \E reached \in Missions : Complete(g, reached)
  \/ \E op \in CombineIds, m \in Wanted : Combine(g, op, m)
  \/ \E op \in LoadoutIds, n \in 0 .. save.revision, modules \in SUBSET save.owned :
       SetLoadout(g, op, n, modules)
  \/ \E arc \in Wishes : Claim(g, arc)

\* A step is one of them.
LEMMA NextHandles == Next => \E g \in Gateways : Handles(g)
  BY Zenon DEF Next, Handles

\* Every handler writes rows of its session.
LEMMA HandlersWrite ==
  ASSUME TypeInv, GateInv, NEW g \in Gateways, Handles(g)
  PROVE  LogSteps(g) /\ (log' # log => gates[g].phase # "Idle")
<1>0. \A kind, data : Row(Id(g), kind, data).session = Id(g)
  BY DEF Row
<1>2. CASE Join(g)
  BY <1>0, <1>2, RowsAreTyped DEF Join, LogSteps
<1>3. CASE \E reached \in Missions : Complete(g, reached)
  <2>1. PICK reached \in Missions : Complete(g, reached)
    BY <1>3
  <2>2. PICK a : a = Row(Id(g), "Completed", reached)
    OBVIOUS
  <2>3. PICK b : b = Row(Id(g), "Loot", LootTotal(save.fragments))
    OBVIOUS
  <2>4. a \in Rows /\ b \in Rows /\ a.session = Id(g) /\ b.session = Id(g)
    BY <1>0, <2>2, <2>3, RowsAreTyped
  <2>a. PICK two : two = << a, b >>
    OBVIOUS
  <2>b. Two(two, a, b)
    BY <2>4, <2>a DEF Two
  <2>5. log' = log \o two
    BY <2>1, <2>2, <2>3, <2>a DEF Complete
  <2>6. gates[g].phase # "Idle"
    BY <2>1 DEF Complete
  <2> QED
    BY <2>4, <2>b, <2>5, <2>6 DEF LogSteps
<1>4. CASE \E op \in CombineIds, m \in Wanted : Combine(g, op, m)
  <2>1. PICK op \in CombineIds, m \in Wanted : Combine(g, op, m)
    BY <1>4
  <2>2. m \in All
    BY LoadoutAssumption
  <2>3. CASE \A c \in combines : c.op # op
    <3>1. PICK e : e = Evidence(gates[g].client, save)
      OBVIOUS
    <3>2. PICK row : row = Row(Id(g), "Combined", Change(e, [e EXCEPT !.state = CombinedState(e.state, m)]))
      OBVIOUS
    <3>3. Affords(m) /\ log' = Append(log, row) /\ gates[g].phase = "Complete"
      BY <2>1, <2>3, <3>1, <3>2 DEF Combine, MayCombine
    <3>4. row \in Rows /\ row.session = Id(g)
      BY <1>0, <2>2, <3>1, <3>2, <3>3, RowsAreTyped
    <3> QED
      BY <3>3, <3>4 DEF LogSteps
  <2>4. CASE ~ (\A c \in combines : c.op # op)
    BY <2>1, <2>4 DEF Combine, LogSteps
  <2> QED
    BY <2>3, <2>4
<1>5. CASE \E op \in LoadoutIds, n \in 0 .. save.revision, modules \in SUBSET save.owned :
              SetLoadout(g, op, n, modules)
  <2>1. PICK op \in LoadoutIds, n \in 0 .. save.revision, modules \in SUBSET save.owned :
              SetLoadout(g, op, n, modules)
    BY <1>5
  <2>2. modules \in SUBSET All
    BY DEF TypeInv, Saves
  <2>3. CASE \A c \in changes : c.op # op
    <3>1. PICK e : e = Evidence(gates[g].client, save)
      OBVIOUS
    <3>2. PICK row : row = Row(Id(g), "Equipped", Change(e, [e EXCEPT !.state = EquippedState(e.state, modules)]))
      OBVIOUS
    <3>3. log' = Append(log, row) /\ gates[g].phase = "Complete"
      BY <2>1, <2>3, <3>1, <3>2 DEF SetLoadout, MayEquip
    <3>4. row \in Rows /\ row.session = Id(g)
      BY <1>0, <2>2, <3>1, <3>2, RowsAreTyped
    <3> QED
      BY <3>3, <3>4 DEF LogSteps
  <2>4. CASE ~ (\A c \in changes : c.op # op)
    BY <2>1, <2>4 DEF SetLoadout, LogSteps
  <2> QED
    BY <2>3, <2>4
<1>6. CASE Grant(g)
  <2>1. gates[g].phase = "Claiming" /\ gates[g].arc \in Arcs
    BY <1>6 DEF Grant, GateInv
  <2>2. log' = log \/ Granted(g, gates[g].arc)
    BY <1>6 DEF Grant
  <2>3. CASE Granted(g, gates[g].arc)
    BY <1>0, <2>1, <2>3, RowsAreTyped DEF Granted, LogSteps
  <2> QED
    BY <2>1, <2>2, <2>3 DEF LogSteps
<1>7. CASE \E arc \in Wishes : Claim(g, arc)
  BY <1>7 DEF Claim, Refresh, LogSteps
<1>8. CASE \E client \in Clients : Handshake(g, client)
  BY <1>8 DEF Handshake, store, LogSteps
<1>9. CASE Leave(g) \/ Show(g) \/ Tell(g)
  BY <1>9 DEF Leave, Show, Tell, Refresh, store, LogSteps
<1> QED
  BY <1>2, <1>3, <1>4, <1>5, <1>6, <1>7, <1>8, <1>9 DEF Handles

\* A handler's log extends the one before.
LEMMA HandlersExtend ==
  ASSUME TypeInv, NEW g, LogSteps(g), NEW new, new = log'
  PROVE  /\ Extends(log, new)
         /\ \A i \in Len(log) + 1 .. Len(new) : new[i].session = Id(g)
<1>1. log \in Seq(Rows) /\ Len(log) \in Nat
  BY LenProperties DEF TypeInv
<1>2. CASE log' = log
  BY <1>1, <1>2, LogStays
<1>3. CASE \E row \in Rows : log' = Append(log, row) /\ row.session = Id(g)
  <2>1. PICK row \in Rows : log' = Append(log, row) /\ row.session = Id(g)
    BY <1>3
  <2>2. Extends(log, new) /\ Len(new) = Len(log) + 1 /\ new[Len(log) + 1] = row
    BY <1>1, <2>1, OneMore
  <2>3. \A i \in Len(log) + 1 .. Len(new) : i = Len(log) + 1
    BY <1>1, <2>2
  <2> QED
    BY <2>1, <2>2, <2>3
<1>4. CASE \E a, b \in Rows : \E two : Two(two, a, b) /\ log' = log \o two
                              /\ a.session = Id(g) /\ b.session = Id(g)
  <2>0. PICK a \in Rows, b \in Rows :
           \E two : Two(two, a, b) /\ log' = log \o two /\ a.session = Id(g) /\ b.session = Id(g)
    BY <1>4
  <2>1. PICK two : Two(two, a, b) /\ log' = log \o two /\ a.session = Id(g) /\ b.session = Id(g)
    BY <2>0
  <2>2. /\ Extends(log, new) /\ Len(new) = Len(log) + 2
        /\ new[Len(log) + 1] = a /\ new[Len(log) + 2] = b
    <3>1. PICK old \in Seq(Rows) : old = log
      BY <1>1
    <3>2. Joins(new, old, two, a, b)
      BY <2>1, <3>1 DEF Joins
    <3>3. /\ Extends(old, new) /\ Len(new) = Len(old) + 2
          /\ new[Len(old) + 1] = a /\ new[Len(old) + 2] = b
      BY <3>2, TwoMore
    <3> QED
      BY <3>1, <3>3
  <2>3. \A i \in Len(log) + 1 .. Len(new) : i = Len(log) + 1 \/ i = Len(log) + 2
    BY <1>1, <2>2
  <2> QED
    BY <2>1, <2>2, <2>3
<1> QED
  BY <1>2, <1>3, <1>4 DEF LogSteps

\* What a handler makes of its gateway.
Moves(g, s) ==
  /\ s \in GateStates /\ gates' = [gates EXCEPT ![g] = s]
  /\ \/ s.id \in {0, gates[g].id} /\ sessions' = sessions
     \/ s.id = sessions + 1 /\ sessions' = sessions + 1 /\ s.phase = "Admitted" /\ log' = log
  /\ s.phase # "Idle" => s.id # 0 /\ s.client \in Catalogs
  /\ s.phase = "Claiming" => s.arc \in Arcs
  /\ s.phase \in JoinedPhases => /\ s.id = gates[g].id /\ s.client = gates[g].client
                                 /\ gates[g].phase \in JoinedPhases \/ Own(log', s.id) # {}

\* How the gateways move.
LEMMA HandlersMove ==
  ASSUME TypeInv, GateInv, NEW g \in Gateways, Handles(g)
  PROVE  \E s : Moves(g, s)
<1>0. /\ gates[g] \in GateStates /\ sessions \in Nat /\ Clients \subseteq Catalogs /\ Wishes \subseteq Arcs
      /\ gates[g].phase # "Idle" => gates[g].id # 0 /\ gates[g].client \in Catalogs
      /\ gates[g].phase = "Claiming" => gates[g].arc \in Arcs
  BY LoadoutAssumption DEF TypeInv, GateInv
<1>i. Idle \in GateStates /\ Idle.id = 0 /\ Idle.phase = "Idle"
  BY DEF Idle, GateStates, Phases
<1>1. CASE \E client \in Clients : Handshake(g, client)
  <2>1. PICK client \in Clients : Handshake(g, client)
    BY <1>1
  <2>a. PICK id : id = sessions + 1
    OBVIOUS
  <2>b. id \in Nat /\ id # 0
    BY <1>0, <2>a
  <2>2. PICK s : s = [gates[g] EXCEPT !.id = id, !.phase = "Admitted", !.client = client]
    OBVIOUS
  <2>3. /\ s \in GateStates /\ s.id = id /\ s.phase = "Admitted"
        /\ s.client = client /\ client \in Catalogs
    BY <1>0, <2>b, <2>2 DEF GateStates, Phases
  <2>4. gates' = [gates EXCEPT ![g] = s] /\ log' = log /\ sessions' = sessions + 1
    BY <2>1, <2>a, <2>2 DEF Handshake, Becomes, store
  <2>5. s.phase \notin JoinedPhases /\ s.phase # "Claiming"
    BY <2>3 DEF JoinedPhases
  <2>6. Moves(g, s)
    BY <2>a, <2>b, <2>3, <2>4, <2>5 DEF Moves
  <2> QED
    BY <2>6
<1>2. CASE Join(g)
  <2>1. /\ gates[g].phase = "Admitted" /\ sessions' = sessions
        /\ log' = Append(log, Row(Id(g), "Snapshot", Evidence(gates[g].client, save)))
    BY <1>2 DEF Join
  <2>2. Row(Id(g), "Snapshot", Evidence(gates[g].client, save)) \in Rows
    BY RowsAreTyped
  <2>3. PICK row \in Rows : row = Row(Id(g), "Snapshot", Evidence(gates[g].client, save))
    BY <2>2
  <2>4. PICK new : new = log'
    OBVIOUS
  <2>5. Extends(log, new) /\ Len(new) = Len(log) + 1 /\ new[Len(log) + 1] = row
    BY <2>1, <2>3, <2>4, OneMore DEF TypeInv
  <2>6. row.session = gates[g].id
    BY <2>3 DEF Row, Id
  <2>7. Own(new, gates[g].id) # {}
    <3>1. Len(log) + 1 \in DOMAIN new
      BY <2>5 DEF Extends
    <3> QED
      BY <2>5, <2>6, <3>1 DEF Own
  <2>8. CASE gates' = [gates EXCEPT ![g] = [gates[g] EXCEPT !.phase = "Playing"]]
    <3>1. PICK s : s = [gates[g] EXCEPT !.phase = "Playing"]
      OBVIOUS
    <3>2. s \in GateStates /\ s.id = gates[g].id /\ s.phase = "Playing" /\ s.client = gates[g].client
      BY <1>0, <3>1 DEF GateStates, Phases
    <3>3. Moves(g, s)
      BY <1>0, <2>1, <2>4, <2>7, <2>8, <3>1, <3>2 DEF Moves
    <3> QED
      BY <3>3
  <2>9. CASE gates' = [gates EXCEPT ![g] = Idle]
    BY <1>i, <2>1, <2>9 DEF Moves, JoinedPhases
  <2> QED
    BY <1>2, <2>8, <2>9 DEF Join, Becomes, Id
<1>3. CASE Leave(g)
  <2>1. Moves(g, Idle)
    BY <1>i, <1>3 DEF Leave, Reset, Becomes, Moves, JoinedPhases
  <2> QED
    BY <2>1
<1>4. ASSUME NEW phase \in JoinedPhases, NEW arc \in Arcs \cup {"None"}, gates[g].phase \in JoinedPhases,
             Becomes(g, [gates[g] EXCEPT !.phase = phase, !.arc = arc]),
             sessions' = sessions, phase = "Claiming" => arc \in Arcs
      PROVE  \E s : Moves(g, s)
  <2>1. PICK s : s = [gates[g] EXCEPT !.phase = phase, !.arc = arc]
    OBVIOUS
  <2>2. /\ s \in GateStates /\ s.id = gates[g].id /\ s.phase = phase /\ s.client = gates[g].client
        /\ s.arc = arc
    BY <1>0, <2>1 DEF GateStates, Phases, JoinedPhases
  <2>3. gates[g].phase # "Idle"
    BY <1>4 DEF JoinedPhases
  <2>4. Moves(g, s)
    BY <1>0, <1>4, <2>1, <2>2, <2>3 DEF Moves, Becomes
  <2> QED
    BY <2>4
<1>5. /\ gates[g].arc \in Arcs \cup {"None"}
      /\ gates[g] = [gates[g] EXCEPT !.phase = gates[g].phase, !.arc = gates[g].arc]
      /\ \A phase : [gates[g] EXCEPT !.phase = phase] = [gates[g] EXCEPT !.phase = phase, !.arc = gates[g].arc]
  BY <1>0 DEF GateStates
<1>u. ASSUME gates[g].phase \in JoinedPhases, Becomes(g, gates[g]), sessions' = sessions
      PROVE  \E s : Moves(g, s)
  <2>1. PICK s : s = gates[g]
    OBVIOUS
  <2>2. gates[g].phase # "Idle"
    BY <1>u DEF JoinedPhases
  <2>3. Moves(g, s)
    BY <1>0, <1>u, <2>1, <2>2 DEF Moves, Becomes
  <2> QED
    BY <2>3
<1>6. CASE Show(g)
  <2>1. gates[g].phase \in {"Playing", "Complete"} /\ Becomes(g, gates[g]) /\ sessions' = sessions
    BY <1>6 DEF Show, Refresh
  <2> QED
    BY <1>u, <2>1 DEF JoinedPhases
<1>7. CASE Grant(g)
  <2>1. /\ gates[g].phase = "Claiming" /\ Becomes(g, [gates[g] EXCEPT !.phase = "Telling"])
        /\ sessions' = sessions
    BY <1>7 DEF Grant
  <2> QED
    BY <1>4, <1>5, <2>1 DEF JoinedPhases
<1>8. CASE Tell(g)
  <2>1. /\ gates[g].phase = "Telling" /\ Becomes(g, [gates[g] EXCEPT !.phase = "Complete", !.arc = "None"])
        /\ sessions' = sessions
    BY <1>8 DEF Tell, Refresh
  <2> QED
    BY <1>4, <2>1 DEF JoinedPhases
<1>9. CASE \E reached \in Missions : Complete(g, reached)
  <2>1. /\ gates[g].phase = "Playing" /\ Becomes(g, [gates[g] EXCEPT !.phase = "Complete"])
        /\ sessions' = sessions
    BY <1>9 DEF Complete
  <2> QED
    BY <1>4, <1>5, <2>1 DEF JoinedPhases
<1>10. CASE \E op \in CombineIds, m \in Wanted : Combine(g, op, m)
  <2>1. gates[g].phase = "Complete" /\ Becomes(g, gates[g]) /\ sessions' = sessions
    BY <1>10 DEF Combine, MayCombine
  <2> QED
    BY <1>u, <2>1 DEF JoinedPhases
<1>11. CASE \E op \in LoadoutIds, n \in 0 .. save.revision, modules \in SUBSET save.owned :
              SetLoadout(g, op, n, modules)
  <2>1. gates[g].phase = "Complete" /\ Becomes(g, gates[g]) /\ sessions' = sessions
    BY <1>11 DEF SetLoadout, MayEquip
  <2> QED
    BY <1>u, <2>1 DEF JoinedPhases
<1>12. CASE \E arc \in Wishes : Claim(g, arc)
  <2>1. PICK arc \in Wishes : Claim(g, arc)
    BY <1>12
  <2>2. /\ gates[g].phase = "Complete"
        /\ Becomes(g, [gates[g] EXCEPT !.phase = "Claiming", !.arc = arc])
        /\ sessions' = sessions
    BY <2>1 DEF Claim, Refresh
  <2> QED
    BY <1>0, <1>4, <2>2 DEF JoinedPhases
<1> QED
  BY <1>1, <1>2, <1>3, <1>6, <1>7, <1>8, <1>9, <1>10, <1>11, <1>12 DEF Handles

\* Only the end of a mission rewards, and it rewards its session.
LEMMA HandlersReward ==
  ASSUME NEW g \in Gateways, Handles(g)
  PROVE  grants' = grants \/ (Joined(g) /\ grants' = grants \cup {gates[g].id})
<1>1. CASE \E reached \in Missions : Complete(g, reached)
  BY <1>1 DEF Complete, Joined, JoinedPhases, Id
<1>2. CASE Grant(g)
  BY <1>2 DEF Grant
<1>3. CASE \E op \in CombineIds, m \in Wanted : Combine(g, op, m)
  BY <1>3 DEF Combine
<1>4. CASE \E op \in LoadoutIds, n \in 0 .. save.revision, modules \in SUBSET save.owned :
              SetLoadout(g, op, n, modules)
  BY <1>4 DEF SetLoadout
<1>5. CASE Join(g) \/ Leave(g) \/ Show(g) \/ Tell(g)
  BY <1>5 DEF Join, Leave, Show, Tell, Refresh, store
<1>6. CASE \E client \in Clients : Handshake(g, client)
  BY <1>6 DEF Handshake, store
<1>7. CASE \E arc \in Wishes : Claim(g, arc)
  BY <1>7 DEF Claim, Refresh
<1> QED
  BY <1>1, <1>2, <1>3, <1>4, <1>5, <1>6, <1>7 DEF Handles

\* A handler keeps the gateways and their sessions in order.
LEMMA GatesKept ==
  ASSUME TypeInv, GateInv, NEW g \in Gateways, Handles(g)
  PROVE  GateInv'
<1>1. PICK s : Moves(g, s)
  BY HandlersMove
<1>2. PICK new : new = log'
  OBVIOUS
<1>3. LogSteps(g) /\ (log' # log => gates[g].phase # "Idle")
  BY HandlersWrite
<1>4. Extends(log, new) /\ \A i \in Len(log) + 1 .. Len(new) : new[i].session = Id(g)
  BY <1>2, <1>3, HandlersExtend
<1>5. \A h \in Gateways : gates'[h] = IF h = g THEN s ELSE gates[h]
  BY <1>1 DEF Moves, TypeInv
<1>6. /\ sessions \in Nat /\ \A h \in Gateways : gates[h].id \in 0 .. sessions
      /\ \/ s.id \in {0, gates[g].id} /\ sessions' = sessions
         \/ s.id = sessions + 1 /\ sessions' = sessions + 1
  BY <1>1 DEF Moves, TypeInv, GateInv
<1>7. \A h \in Gateways : gates'[h].id \in 0 .. sessions'
  BY <1>5, <1>6
<1>8. \A h, k \in Gateways : gates'[h].id = gates'[k].id /\ gates'[h].id # 0 => h = k
  <2>1. \A h, k \in Gateways : gates[h].id = gates[k].id /\ gates[h].id # 0 => h = k
    BY DEF GateInv
  <2>2. \A h \in Gateways : h # g => gates[h].id # s.id \/ s.id = 0
    BY <1>6, <2>1
  <2> QED
    BY <1>5, <2>1, <2>2
<1>9. /\ \A h \in Gateways : gates'[h].phase # "Idle" => gates'[h].id # 0 /\ gates'[h].client \in Catalogs
      /\ \A h \in Gateways : gates'[h].phase = "Claiming" => gates'[h].arc \in Arcs
  BY <1>1, <1>5 DEF Moves, GateInv
<1>10. \A x : Own(log, x) \subseteq Own(new, x)
  BY <1>4, OwnExtends
<1>11. ASSUME NEW h \in Gateways, gates'[h].phase \in JoinedPhases PROVE Own(new, gates'[h].id) # {}
  <2>0. \A k \in Gateways : gates[k].phase \in JoinedPhases => Own(log, gates[k].id) # {}
    BY DEF GateInv, Joined
  <2>1. CASE h = g
    BY <1>1, <1>2, <1>5, <1>10, <1>11, <2>0, <2>1 DEF Moves
  <2>2. CASE h # g
    BY <1>5, <1>10, <1>11, <2>0, <2>2
  <2> QED
    BY <2>1, <2>2
<1>12. ASSUME NEW i \in DOMAIN new PROVE new[i].session \in 1 .. sessions'
  <2>1. i \in 1 .. Len(log) \/ i \in Len(log) + 1 .. Len(new)
    BY <1>4 DEF Extends
  <2>2. sessions <= sessions' /\ sessions' \in Nat
    BY <1>6
  <2>3. CASE i \in 1 .. Len(log)
    <3>1. i \in DOMAIN log /\ new[i] = log[i]
      BY <1>4, <2>3 DEF Extends
    <3>2. new[i].session \in 1 .. sessions
      BY <3>1 DEF GateInv
    <3> QED
      BY <1>6, <2>2, <3>2
  <2>4. CASE i \in Len(log) + 1 .. Len(new)
    <3>1. new # log
      BY <1>4, <2>4 DEF Extends
    <3>2. gates[g].id # 0 /\ new[i].session = gates[g].id
      BY <1>2, <1>3, <1>4, <2>4, <3>1 DEF GateInv, Id
    <3> QED
      BY <1>6, <2>2, <3>2
  <2> QED
    BY <2>1, <2>3, <2>4
<1>13. ASSUME NEW x \in grants' PROVE Own(new, x) # {}
  <2>1. CASE x \in grants
    BY <1>10, <2>1 DEF GateInv
  <2>2. CASE x \notin grants
    <3>1. Joined(g) /\ x = gates[g].id
      BY <1>13, <2>2, HandlersReward
    <3> QED
      BY <1>10, <3>1 DEF GateInv
  <2> QED
    BY <2>1, <2>2
<1> QED
  BY <1>2, <1>7, <1>8, <1>9, <1>11, <1>12, <1>13 DEF GateInv, Joined

\* What is reached in a session.
LEMMA ReachedIs ==
  ASSUME NEW rows, NEW session, NEW n \in Nat, \A i \in 1 .. n : rows[i] \in Rows
  PROVE  Reached(Replay(rows, session, n)) \subseteq Milestones
<1>1. Replayed(Replay(rows, session, n))
  BY ReplayIsTyped
<1> QED
  BY <1>1 DEF Replayed, Replays, Reached

\* The session that is credited with a milestone, and its last row.
First(m) == Min({s \in grants : m \in Reached(Replay(log, s, Len(log)))})
New == (UNION {Reached(Replay(log, s, Len(log))) : s \in grants}) \ Proven(proofs)
Credit(m) == [milestone |-> m, session |-> First(m), through |-> Max(RowsOf(First(m)))]

\* What is recorded.
LEMMA RecordedIs ==
  ASSUME TypeInv, GateInv
  PROVE  /\ Recorded = proofs \cup {Credit(m) : m \in New}
         /\ \A m \in New : /\ m \in Milestones /\ m \notin Proven(proofs)
                           /\ First(m) \in grants /\ m \in Reached(Replay(log, First(m), Len(log)))
                           /\ RowsOf(First(m)) = Own(log, First(m))
                           /\ Max(RowsOf(First(m))) \in RowsOf(First(m))
                           /\ \A i \in RowsOf(First(m)) : i <= Max(RowsOf(First(m)))
                           /\ Credit(m) \in Proofs
<1>1. Recorded = proofs \cup {Credit(m) : m \in New}
  BY DEF Recorded, Credit, New, First
<1>2. Len(log) \in Nat /\ DOMAIN log = 1 .. Len(log) /\ \A i \in 1 .. Len(log) : log[i] \in Rows
  <2>1. log \in Seq(Rows)
    BY DEF TypeInv
  <2>2. Len(log) \in Nat /\ DOMAIN log = 1 .. Len(log)
    BY <2>1, LenProperties
  <2> QED
    BY <2>1, <2>2, ElementOfSeq
<1>3. ASSUME NEW m \in New
      PROVE  /\ m \in Milestones /\ m \notin Proven(proofs)
             /\ First(m) \in grants /\ m \in Reached(Replay(log, First(m), Len(log)))
             /\ RowsOf(First(m)) = Own(log, First(m))
             /\ Max(RowsOf(First(m))) \in RowsOf(First(m))
             /\ \A i \in RowsOf(First(m)) : i <= Max(RowsOf(First(m)))
             /\ Credit(m) \in Proofs
  <2>1. m \notin Proven(proofs) /\ \E s \in grants : m \in Reached(Replay(log, s, Len(log)))
    BY <1>3 DEF New
  <2>2. m \in Milestones
    BY <1>2, <2>1, ReachedIs
  <2> DEFINE T == {s \in grants : m \in Reached(Replay(log, s, Len(log)))}
  <2>3. T \subseteq Nat /\ T # {}
    <3>1. grants \subseteq 1 .. sessions /\ sessions \in Nat
      BY DEF TypeInv
    <3>2. grants \subseteq Nat
      BY <3>1
    <3>3. T # {}
      BY <2>1
    <3> QED
      BY <3>2, <3>3
  <2> HIDE DEF T
  <2>4. Min(T) \in T
    BY <2>3, MinIs
  <2>5. PICK s : s = First(m)
    OBVIOUS
  <2>6. s \in T
    BY <2>4, <2>5 DEF First, T
  <2>7. s \in grants /\ m \in Reached(Replay(log, s, Len(log)))
    BY <2>6 DEF T
  <2>8. RowsOf(s) = Own(log, s)
    BY DEF RowsOf, Own
  <2>9. RowsOf(s) \subseteq 1 .. Len(log) /\ RowsOf(s) # {}
    BY <1>2, <2>7, <2>8 DEF GateInv, Own
  <2>10. PICK R : R = RowsOf(s)
    OBVIOUS
  <2>11. Max(R) \in R /\ \A i \in R : i <= Max(R)
    BY <1>2, <2>9, <2>10, MaxIs
  <2>12. s \in Nat /\ Max(R) \in Nat
    BY <1>2, <2>7, <2>9, <2>10, <2>11 DEF TypeInv
  <2>13. Credit(m) \in Proofs
    BY <2>2, <2>5, <2>10, <2>12 DEF Credit, Proofs
  <2> QED
    BY <2>1, <2>2, <2>5, <2>7, <2>8, <2>10, <2>11, <2>13
<1> QED
  BY <1>1, <1>3

-----------------------------------------------------------------------------
(* What the handlers do to what is stored *)

Quiet == UNCHANGED <<save, combines, changes, grants, proofs, claims>>

Rewards(g) ==
  /\ Joined(g) /\ gates[g].id \notin grants
  /\ save' = [save EXCEPT !.fragments = @ + MissionReward] /\ grants' = grants \cup {gates[g].id}
  /\ UNCHANGED <<combines, changes, proofs, claims>>

Combining(g, op, m) ==
  /\ op \in CombineIds /\ m \in All /\ \A c \in combines : c.op # op
  /\ m \notin save.owned /\ save.fragments >= Recipe(m)
  /\ save' = CombinedState(save, m) /\ combines' = combines \cup {[op |-> op, module |-> m]}
  /\ UNCHANGED <<changes, grants, proofs, claims>>

Equipping(op, modules) ==
  /\ op \in LoadoutIds /\ modules \subseteq save.owned /\ Canonical(modules)
  /\ \A c \in changes : c.op # op
  /\ save' = EquippedState(save, modules)
  /\ changes' = changes \cup {[op |-> op, revision |-> save.revision, modules |-> modules]}
  /\ UNCHANGED <<combines, grants, proofs, claims>>

Records ==
  /\ MayRefresh /\ proofs' = Recorded
  /\ UNCHANGED <<save, combines, changes, grants, claims, log>>

Paying(g, arc) ==
  /\ Joined(g) /\ arc \in Arcs /\ LedgersStand /\ Requirements[arc] \subseteq Proven(proofs)
  /\ Unclaimed(arc) /\ Granted(g, arc)
  /\ UNCHANGED <<combines, changes, grants, proofs>>

\* What is stored changes in one of these ways.
Stores(g) ==
  \/ Quiet \/ Rewards(g) \/ Records
  \/ \E op, m : Combining(g, op, m)
  \/ \E op, modules : Equipping(op, modules)
  \/ \E arc : Paying(g, arc)

\* So does every handler.
LEMMA HandlersStore ==
  ASSUME TypeInv, GateInv, NEW g \in Gateways, Handles(g)
  PROVE  Stores(g) /\ origin' = origin
<1>1. CASE \E client \in Clients : Handshake(g, client)
  BY <1>1 DEF Handshake, store, Stores, Quiet
<1>2. CASE Join(g)
  BY <1>2 DEF Join, Stores, Quiet
<1>3. CASE Leave(g)
  BY <1>3 DEF Leave, store, Stores, Quiet
<1>4. CASE Show(g) \/ Tell(g) \/ \E arc \in Wishes : Claim(g, arc)
  BY <1>4 DEF Show, Tell, Claim, Refresh, Records, Stores
<1>5. CASE Grant(g)
  <2>1. gates[g].arc \in Arcs /\ Joined(g)
    BY <1>5 DEF Grant, GateInv, Joined, JoinedPhases
  <2>2. CASE Granted(g, gates[g].arc) /\ Unclaimed(gates[g].arc) /\ Requirements[gates[g].arc] \subseteq Proven(proofs)
    <3>1. Paying(g, gates[g].arc) /\ origin' = origin
      BY <1>5, <2>1, <2>2 DEF Grant, Paying
    <3> QED
      BY <3>1 DEF Stores
  <2>3. CASE UNCHANGED <<save, log, claims>>
    BY <1>5, <2>3 DEF Grant, Stores, Quiet
  <2> QED
    BY <1>5, <2>2, <2>3 DEF Grant
<1>6. CASE \E reached \in Missions : Complete(g, reached)
  <2>1. Rewards(g) /\ origin' = origin
    BY <1>6 DEF Complete, Rewards, Joined, JoinedPhases, Id
  <2> QED
    BY <2>1 DEF Stores
<1>7. CASE \E op \in CombineIds, m \in Wanted : Combine(g, op, m)
  <2>1. PICK op \in CombineIds, m \in Wanted : Combine(g, op, m)
    BY <1>7
  <2>2. m \in All
    BY LoadoutAssumption
  <2>3. CASE \A c \in combines : c.op # op
    <3>1. Combining(g, op, m) /\ origin' = origin
      BY <2>1, <2>2, <2>3 DEF Combine, Affords, Combining
    <3> QED
      BY <3>1 DEF Stores
  <2>4. CASE ~ (\A c \in combines : c.op # op)
    <3>1. Quiet /\ origin' = origin
      BY <2>1, <2>4 DEF Combine, Quiet
    <3> QED
      BY <3>1 DEF Stores
  <2> QED
    BY <2>3, <2>4
<1>8. CASE \E op \in LoadoutIds, n \in 0 .. save.revision, modules \in SUBSET save.owned :
              SetLoadout(g, op, n, modules)
  <2>1. PICK op \in LoadoutIds, n \in 0 .. save.revision, modules \in SUBSET save.owned :
              SetLoadout(g, op, n, modules)
    BY <1>8
  <2>2. Canonical(modules) /\ origin' = origin
    BY <2>1 DEF SetLoadout, MayEquip, Loadouts
  <2>3. CASE \A c \in changes : c.op # op
    <3>1. PICK request : request = [op |-> op, revision |-> n, modules |-> modules]
      OBVIOUS
    <3>2. /\ Expected(request) /\ modules \subseteq save.owned
          /\ save' = EquippedState(save, modules) /\ changes' = changes \cup {request}
          /\ UNCHANGED <<combines, grants, proofs, claims>>
      BY <2>1, <2>3, <3>1 DEF SetLoadout
    <3>3. n = save.revision
      BY <3>1, <3>2 DEF Expected
    <3>4. Equipping(op, modules)
      BY <2>2, <2>3, <3>1, <3>2, <3>3 DEF Equipping
    <3> QED
      BY <2>2, <3>4 DEF Stores
  <2>4. CASE ~ (\A c \in changes : c.op # op)
    <3>1. Quiet
      BY <2>1, <2>4 DEF SetLoadout, Quiet
    <3> QED
      BY <2>2, <3>1 DEF Stores
  <2> QED
    BY <2>3, <2>4
<1> QED
  BY <1>1, <1>2, <1>3, <1>4, <1>5, <1>6, <1>7, <1>8 DEF Handles

\* What is stored keeps its type.
LEMMA StoreIsTyped ==
  ASSUME TypeInv, GateInv, NEW g \in Gateways, Stores(g)
  PROVE  /\ save' \in Saves /\ grants' \subseteq grants \cup {gates[g].id}
         /\ proofs' \subseteq Proofs /\ claims' \subseteq [arc : Arcs, id : Nat]
         /\ combines' \subseteq [op : CombineIds, module : All]
         /\ changes' \subseteq [op : LoadoutIds, revision : Nat, modules : SUBSET All]
         /\ IsFiniteSet(claims') /\ IsFiniteSet(changes')
<1>0. /\ save \in Saves /\ proofs \subseteq Proofs /\ claims \subseteq [arc : Arcs, id : Nat]
      /\ combines \subseteq [op : CombineIds, module : All]
      /\ changes \subseteq [op : LoadoutIds, revision : Nat, modules : SUBSET All]
      /\ IsFiniteSet(claims) /\ IsFiniteSet(changes) /\ Len(log) \in Nat /\ {MissionReward} \subseteq Nat
  BY LenProperties, LoadoutAssumption DEF TypeInv
<1>p. \A n \in Nat : [save EXCEPT !.fragments = @ + n] \in Saves
  <2> SUFFICES ASSUME NEW n \in Nat PROVE [save EXCEPT !.fragments = @ + n] \in Saves
    OBVIOUS
  <2>1. PICK k : k = save.fragments + n
    OBVIOUS
  <2>2. k \in Nat
    BY <1>0, <2>1 DEF Saves
  <2>3. [save EXCEPT !.fragments = k] \in Saves
    BY <1>0, <2>2 DEF Saves
  <2> QED
    BY <2>1, <2>3
<1>1. CASE Quiet
  BY <1>0, <1>1 DEF Quiet
<1>2. CASE Rewards(g)
  BY <1>0, <1>p, <1>2 DEF Rewards
<1>3. CASE Records
  BY <1>0, <1>3, RecordedIs DEF Records
<1>4. CASE \E op, m : Combining(g, op, m)
  <2>1. PICK op, m : Combining(g, op, m)
    BY <1>4
  <2>2. /\ op \in CombineIds /\ m \in All /\ save.fragments >= Recipe(m) /\ save' = CombinedState(save, m)
        /\ combines' = combines \cup {[op |-> op, module |-> m]}
        /\ UNCHANGED <<changes, grants, proofs, claims>>
    BY <2>1 DEF Combining
  <2>3. Recipe(m) \in Nat
    BY <2>2, AllModules DEF Recipe, Definition, Module
  <2>4. Recipe(m) <= save.fragments
    BY <1>0, <2>2, <2>3 DEF Saves
  <2>5. save' \in Saves
    BY <1>0, <2>2, <2>4, StatesAreSaves
  <2> QED
    BY <1>0, <2>2, <2>5
<1>5. CASE \E op, modules : Equipping(op, modules)
  <2>1. PICK op, modules : Equipping(op, modules)
    BY <1>5
  <2>2. PICK c : c = [op |-> op, revision |-> save.revision, modules |-> modules]
    OBVIOUS
  <2>3. /\ op \in LoadoutIds /\ modules \subseteq save.owned /\ save' = EquippedState(save, modules)
        /\ changes' = changes \cup {c} /\ UNCHANGED <<combines, grants, proofs, claims>>
    BY <2>1, <2>2 DEF Equipping
  <2>4. modules \in SUBSET All /\ save.revision \in Nat
    BY <1>0, <2>3 DEF Saves
  <2>5. save' \in Saves
    BY <1>0, <2>3, <2>4, StatesAreSaves
  <2>6. c \in [op : LoadoutIds, revision : Nat, modules : SUBSET All]
    BY <2>2, <2>3, <2>4
  <2>7. IsFiniteSet(changes')
    BY <1>0, <2>3, FS_AddElement
  <2> QED
    BY <1>0, <2>3, <2>5, <2>6, <2>7
<1>6. CASE \E arc : Paying(g, arc)
  <2>1. PICK arc : Paying(g, arc)
    BY <1>6
  <2>2. PICK c : c = [arc |-> arc, id |-> Len(log) + 1]
    OBVIOUS
  <2>3. /\ arc \in Arcs /\ save' = [save EXCEPT !.fragments = @ + Commission] /\ claims' = claims \cup {c}
        /\ UNCHANGED <<combines, changes, grants, proofs>>
    BY <2>1, <2>2 DEF Paying, Granted
  <2>4. c \in [arc : Arcs, id : Nat]
    BY <1>0, <2>2, <2>3
  <2>5. IsFiniteSet(claims') /\ Commission \in Nat
    BY <1>0, <2>3, FS_AddElement DEF Commission
  <2>6. save' \in Saves
    BY <1>p, <2>3, <2>5
  <2> QED
    BY <1>0, <2>3, <2>4, <2>5, <2>6
<1> QED
  BY <1>1, <1>2, <1>3, <1>4, <1>5, <1>6 DEF Stores

\* So does the state.
LEMMA TypeKept ==
  ASSUME TypeInv, GateInv, NEW g \in Gateways, Handles(g)
  PROVE  TypeInv'
<1>1. PICK s : Moves(g, s)
  BY HandlersMove
<1>2. PICK new : new = log'
  OBVIOUS
<1>3. LogSteps(g)
  BY HandlersWrite
<1>4. new \in Seq(Rows)
  BY <1>2, <1>3, HandlersExtend DEF Extends
<1>5. Stores(g) /\ origin' = origin
  BY HandlersStore
<1>6. gates' \in [Gateways -> GateStates]
  BY <1>1 DEF Moves, TypeInv
<1>7. sessions \in Nat /\ grants \subseteq 1 .. sessions
  BY DEF TypeInv
<1>8. sessions' \in Nat /\ sessions <= sessions'
  BY <1>1, <1>7 DEF Moves
<1>9. grants' \subseteq 1 .. sessions'
  <2>1. grants \subseteq 1 .. sessions'
    BY <1>7, <1>8
  <2>2. Joined(g) => gates[g].id \in 1 .. sessions
    BY <1>7 DEF GateInv, Joined, JoinedPhases
  <2>3. Joined(g) => gates[g].id \in 1 .. sessions'
    BY <1>7, <1>8, <2>2
  <2> QED
    BY <2>1, <2>3, HandlersReward
<1>10. origin \in Origins
  BY DEF TypeInv
<1> QED
  BY <1>2, <1>4, <1>5, <1>6, <1>8, <1>9, <1>10, StoreIsTyped DEF TypeInv

-----------------------------------------------------------------------------
(* The save and its operations *)

\* What the modules cost.
Cost(modules) == MapThenSumSet(Recipe, modules)

\* One more module costs its recipe.
LEMMA CostOfOneMore ==
  ASSUME NEW S \in SUBSET All
  PROVE  /\ Cost(S) \in Int /\ Cost({}) = 0
         /\ \A m \in All \ S : Cost(S \cup {m}) = Recipe(m) + Cost(S)
<1>1. PICK g : g = [x \in All |-> Recipe(x)]
  OBVIOUS
<1>2. \A x \in All : Recipe(x) \in Nat
  BY AllModules DEF Recipe, Definition, Module
<1>3. g \in [All -> Int] /\ \A x \in All : g[x] = Recipe(x)
  BY <1>1, <1>2
<1>4. \A L \in SUBSET All : Cost(L) = Total(g, L)
  BY <1>3, RecipeSum DEF Cost
<1>5. ASSUME NEW m \in All \ S PROVE Cost(S \cup {m}) = Recipe(m) + Cost(S)
  <2>1. PICK L \in SUBSET All : L = S \cup {m}
    OBVIOUS
  <2>2. L \ {m} = S /\ m \in L
    BY <2>1
  <2>3. Total(g, L) = g[m] + Total(g, L \ {m})
    BY <1>3, <2>2, TotalWithout
  <2> QED
    BY <1>3, <1>4, <2>1, <2>2, <2>3
<1>6. Cost(S) \in Int
  BY <1>3, <1>4, TotalWithout
<1>7. Cost({}) = 0
  BY <1>3, <1>4, TotalWithout
<1> QED
  BY <1>5, <1>6, <1>7

\* The balance, as the numbers of rewards and commissions make it.
Balance(n, k) ==
  save.fragments = origin.fragments + MissionReward * n + Commission * k - Cost(save.owned \ origin.owned)

\* The save has what was brought and what was made, and no module twice.
SaveInv ==
  /\ origin.owned \subseteq save.owned /\ save.loadout \subseteq save.owned /\ Canonical(save.loadout)
  /\ save.revision = origin.revision + Cardinality(changes)
  /\ Balance(Cardinality(grants), Cardinality(claims))
  /\ \A m \in save.owned \ origin.owned : \E c \in combines : c.module = m
  /\ \A c, d \in combines : c.op = d.op => c = d

\* The numbers of what is counted, and one more of it.
LEMMA Counted ==
  ASSUME NEW S, IsFiniteSet(S)
  PROVE  Cardinality(S) \in Nat /\ \A x : x \notin S => Cardinality(S \cup {x}) = Cardinality(S) + 1
  BY FS_CardinalityType, FS_AddElement

\* The rewarded sessions can be counted.
LEMMA GrantsAreFinite == ASSUME TypeInv PROVE IsFiniteSet(grants)
<1>1. sessions \in Int /\ 1 \in Int /\ grants \subseteq 1 .. sessions
  BY DEF TypeInv
<1>2. IsFiniteSet(1 .. sessions)
  BY <1>1, FS_Interval, Zenon
<1> QED
  BY <1>1, <1>2, FS_Subset

\* Whatever is stored, the save stays in balance.
LEMMA SaveKept ==
  ASSUME TypeInv, SaveInv, NEW g \in Gateways, Stores(g), origin' = origin
  PROVE  SaveInv'
<1>0. /\ save \in Saves /\ origin \in Saves
      /\ IsFiniteSet(claims) /\ IsFiniteSet(changes) /\ IsFiniteSet(grants) /\ MissionReward \in Nat
  BY GrantsAreFinite, LoadoutAssumption DEF TypeInv, Saves
<1>1. PICK n \in Nat, k \in Nat, h \in Nat :
         n = Cardinality(grants) /\ k = Cardinality(claims) /\ h = Cardinality(changes)
  BY <1>0, Counted
<1>2. /\ save.fragments \in Nat /\ save.revision \in Nat /\ save.owned \in SUBSET All /\ save.loadout \in SUBSET All
      /\ origin.fragments \in Nat /\ origin.revision \in Nat /\ origin.owned \in SUBSET All
  BY <1>0 DEF Saves
<1>3. Cost(save.owned \ origin.owned) \in Int
  BY <1>2, CostOfOneMore
<1>4. MissionReward * n \in Nat /\ MissionReward * (n + 1) = MissionReward * n + MissionReward
  BY <1>0
<1>5. Balance(n, k) /\ save.revision = origin.revision + h
  BY <1>1 DEF SaveInv
<1>6. CASE Quiet
  BY <1>6 DEF Quiet, SaveInv, Balance
<1>7. CASE Records
  BY <1>7 DEF Records, SaveInv, Balance
<1>p. ASSUME NEW d \in Nat, save' = [save EXCEPT !.fragments = @ + d]
      PROVE  /\ save'.fragments = save.fragments + d /\ save'.owned = save.owned
             /\ save'.loadout = save.loadout /\ save'.revision = save.revision
  BY <1>0, <1>p DEF Saves
<1>8. CASE Rewards(g)
  <2>1. /\ save' = [save EXCEPT !.fragments = @ + MissionReward]
        /\ grants' = grants \cup {gates[g].id} /\ gates[g].id \notin grants
        /\ UNCHANGED <<combines, changes, proofs, claims>>
    BY <1>8 DEF Rewards
  <2>2. /\ save'.fragments = save.fragments + MissionReward /\ save'.owned = save.owned
        /\ save'.loadout = save.loadout /\ save'.revision = save.revision
    BY <1>0, <1>p, <2>1
  <2>3. Cardinality(grants') = n + 1
    BY <1>0, <1>1, <2>1, Counted
  <2>4. Balance(n + 1, k)'
    <3>1. PICK r \in Nat, x \in Nat, y \in Nat :
             r = MissionReward /\ x = MissionReward * n /\ y = MissionReward * (n + 1)
      BY <1>0, <1>4
    <3>2. PICK z \in Int : z = Cost(save.owned \ origin.owned)
      BY <1>3
    <3>3. save.fragments = origin.fragments + x + Commission * k - z
      BY <1>5, <3>1, <3>2 DEF Balance
    <3>4. save'.fragments = origin.fragments + y + Commission * k - z
      BY <1>2, <1>4, <2>2, <3>1, <3>3 DEF Commission
    <3> QED
      BY <2>2, <3>1, <3>2, <3>4 DEF Balance
  <2> QED
    BY <1>1, <2>1, <2>2, <2>3, <2>4 DEF SaveInv
<1>9. CASE \E arc : Paying(g, arc)
  <2>1. PICK arc : Paying(g, arc)
    BY <1>9
  <2>2. PICK c : c = [arc |-> arc, id |-> Len(log) + 1]
    OBVIOUS
  <2>3. /\ save' = [save EXCEPT !.fragments = @ + Commission] /\ claims' = claims \cup {c}
        /\ Unclaimed(arc) /\ UNCHANGED <<combines, changes, grants, proofs>>
    BY <2>1, <2>2 DEF Paying, Granted
  <2>4. /\ save'.fragments = save.fragments + Commission /\ save'.owned = save.owned
        /\ save'.loadout = save.loadout /\ save'.revision = save.revision
    BY <1>p, <2>3 DEF Commission
  <2>5. c \notin claims
    BY <2>2, <2>3 DEF Unclaimed
  <2>6. Cardinality(claims') = k + 1
    BY <1>0, <1>1, <2>3, <2>5, Counted
  <2>7. Balance(n, k + 1)'
    <3>1. PICK x \in Nat, z \in Int : x = MissionReward * n /\ z = Cost(save.owned \ origin.owned)
      BY <1>3, <1>4
    <3>2. save.fragments = origin.fragments + x + Commission * k - z
      BY <1>5, <3>1 DEF Balance
    <3>3. save'.fragments = origin.fragments + x + Commission * (k + 1) - z
      BY <1>2, <2>4, <3>2 DEF Commission
    <3> QED
      BY <2>4, <3>1, <3>3 DEF Balance
  <2> QED
    BY <1>1, <2>3, <2>4, <2>6, <2>7 DEF SaveInv
<1>10. CASE \E op, m : Combining(g, op, m)
  <2>1. PICK op, m : Combining(g, op, m)
    BY <1>10
  <2>2. PICK c : c = [op |-> op, module |-> m]
    OBVIOUS
  <2>3. /\ m \in All /\ \A d \in combines : d.op # op
        /\ m \notin save.owned /\ save' = CombinedState(save, m) /\ combines' = combines \cup {c}
        /\ UNCHANGED <<changes, grants, proofs, claims>>
    BY <2>1, <2>2 DEF Combining
  <2>4. PICK r \in Nat : r = Recipe(m)
    BY <2>3, AllModules DEF Recipe, Definition, Module
  <2>5. /\ save'.fragments = save.fragments - r /\ save'.owned = save.owned \cup {m}
        /\ save'.loadout = save.loadout /\ save'.revision = save.revision
    BY <1>0, <2>3, <2>4 DEF Saves, CombinedState
  <2>6. origin.owned \subseteq save.owned
    BY DEF SaveInv
  <2>7. (save.owned \cup {m}) \ origin.owned = (save.owned \ origin.owned) \cup {m}
    BY <2>3, <2>6
  <2>8. Cost(save'.owned \ origin.owned) = r + Cost(save.owned \ origin.owned)
    BY <1>2, <2>3, <2>4, <2>5, <2>7, CostOfOneMore
  <2>9. Balance(n, k)'
    <3>1. PICK x \in Nat, z \in Int : x = MissionReward * n /\ z = Cost(save.owned \ origin.owned)
      BY <1>3, <1>4
    <3>2. save.fragments = origin.fragments + x + Commission * k - z
      BY <1>5, <3>1 DEF Balance
    <3>3. save'.fragments = origin.fragments + x + Commission * k - (r + z)
      BY <1>2, <2>5, <3>2 DEF Commission
    <3> QED
      BY <2>8, <3>1, <3>3 DEF Balance
  <2>10. \A x \in save'.owned \ origin.owned : \E d \in combines' : d.module = x
    BY <2>2, <2>3, <2>5 DEF SaveInv
  <2>11. \A x, y \in combines' : x.op = y.op => x = y
    BY <2>2, <2>3 DEF SaveInv
  <2>12. /\ origin.owned \subseteq save'.owned /\ save'.loadout \subseteq save'.owned /\ Canonical(save'.loadout)
         /\ save'.revision = origin.revision + Cardinality(changes')
    BY <2>3, <2>5 DEF SaveInv
  <2> QED
    BY <1>1, <2>3, <2>9, <2>10, <2>11, <2>12 DEF SaveInv
<1>11. CASE \E op, modules : Equipping(op, modules)
  <2>1. PICK op, modules : Equipping(op, modules)
    BY <1>11
  <2>2. PICK c : c = [op |-> op, revision |-> save.revision, modules |-> modules]
    OBVIOUS
  <2>3. /\ modules \subseteq save.owned /\ Canonical(modules) /\ \A d \in changes : d.op # op
        /\ save' = EquippedState(save, modules) /\ changes' = changes \cup {c}
        /\ UNCHANGED <<combines, grants, proofs, claims>>
    BY <2>1, <2>2 DEF Equipping
  <2>4. c \notin changes
    BY <2>2, <2>3
  <2>5. Cardinality(changes') = h + 1
    BY <1>0, <1>1, <2>3, <2>4, Counted
  <2>6. /\ save'.fragments = save.fragments /\ save'.owned = save.owned
        /\ save'.loadout = modules /\ save'.revision = save.revision + 1
    BY <1>0, <2>3 DEF Saves, EquippedState
  <2>7. save'.revision = origin.revision + Cardinality(changes')
    BY <1>2, <1>5, <2>5, <2>6
  <2>8. Balance(n, k)'
    BY <1>5, <2>6 DEF Balance
  <2> QED
    BY <1>1, <2>3, <2>6, <2>7, <2>8 DEF SaveInv
<1> QED
  BY <1>6, <1>7, <1>8, <1>9, <1>10, <1>11 DEF Stores

-----------------------------------------------------------------------------
(* Proofs and claims *)

\* Proofs and claims stand, one for each milestone and each commission.
LedgerInv ==
  /\ \A p \in proofs : ProofStands(p)
  /\ \A c \in claims : c.id \in DOMAIN log /\ ClaimStands(c)
  /\ \A c, d \in claims : c.arc = d.arc => c = d
  /\ \A p, q \in proofs : p.milestone = q.milestone => p = q

\* What a handler lets grow, and what it does to the loadout.
LEMMA StoreGrows ==
  ASSUME TypeInv, NEW g, Stores(g)
  PROVE  /\ save.owned \subseteq save'.owned /\ grants \subseteq grants'
         /\ proofs \subseteq proofs' /\ claims \subseteq claims'
         /\ combines \subseteq combines' /\ changes \subseteq changes'
         /\ save'.loadout # save.loadout => /\ save'.revision = save.revision + 1
                                            /\ \E c \in changes' \ changes : c.revision = save.revision
<1>0. save \in Saves
  BY DEF TypeInv
<1>1. CASE Quiet
  BY <1>1 DEF Quiet
<1>2. CASE Rewards(g)
  <2>1. \A n : LET s == [save EXCEPT !.fragments = n] IN s.owned = save.owned /\ s.loadout = save.loadout
    BY <1>0 DEF Saves
  <2> QED
    BY <1>2, <2>1 DEF Rewards
<1>3. CASE Records
  <2>1. proofs \subseteq Recorded
    BY Zenon DEF Recorded
  <2> QED
    BY <1>3, <2>1 DEF Records
<1>4. CASE \E op, m : Combining(g, op, m)
  <2>1. PICK op, m : Combining(g, op, m)
    BY <1>4
  <2>2. CombinedState(save, m).owned = save.owned \cup {m} /\ CombinedState(save, m).loadout = save.loadout
    BY <1>0 DEF Saves, CombinedState
  <2> QED
    BY <2>1, <2>2 DEF Combining
<1>5. CASE \E op, modules : Equipping(op, modules)
  <2>1. PICK op, modules : Equipping(op, modules)
    BY <1>5
  <2>2. /\ EquippedState(save, modules).owned = save.owned
        /\ EquippedState(save, modules).revision = save.revision + 1
    BY <1>0 DEF Saves, EquippedState
  <2>3. PICK c : c = [op |-> op, revision |-> save.revision, modules |-> modules]
    OBVIOUS
  <2>4. /\ save' = EquippedState(save, modules) /\ changes' = changes \cup {c}
        /\ \A d \in changes : d.op # op
        /\ UNCHANGED <<combines, grants, proofs, claims>>
    BY <2>1, <2>3 DEF Equipping
  <2>5. c \in changes' \ changes /\ c.revision = save.revision
    BY <2>3, <2>4
  <2> QED
    BY <2>2, <2>4, <2>5
<1>6. CASE \E arc : Paying(g, arc)
  <2>1. \A n : LET s == [save EXCEPT !.fragments = n] IN s.owned = save.owned /\ s.loadout = save.loadout
    BY <1>0 DEF Saves
  <2> QED
    BY <1>6, <2>1 DEF Paying, Granted
<1> QED
  BY <1>1, <1>2, <1>3, <1>4, <1>5, <1>6 DEF Stores

\* A proof that stands goes on standing.
LEMMA ProofsStand ==
  ASSUME NEW new, new = log', Extends(log, new), grants \subseteq grants', NEW p \in Proofs, ProofStands(p)
  PROVE  ProofStands(p)'
<1>1. p.through \in Own(log, p.session) /\ p.session \in grants
  BY DEF ProofStands, RowsOf, Own
<1>2. p.through \in Own(new, p.session) /\ p.through \in 1 .. Len(log)
  BY <1>1, OwnExtends
<1>3. p.through \in 0 .. Len(log)
  BY <1>2 DEF Extends
<1>4. Replay(new, p.session, p.through) = Replay(log, p.session, p.through)
  BY <1>3, ReplayExtends
<1>5. p.through \in RowsOf(p.session)'
  BY <1>2 DEF RowsOf, Own
<1> QED
  BY <1>1, <1>4, <1>5 DEF ProofStands

\* So does a claim.
LEMMA ClaimsStand ==
  ASSUME NEW new, new = log', Extends(log, new), proofs \subseteq proofs',
         NEW c, c.id \in DOMAIN log, ClaimStands(c)
  PROVE  c.id \in DOMAIN new /\ ClaimStands(c)'
<1>1. c.id \in 1 .. Len(log) /\ c.id \in 0 .. Len(log) /\ c.id \in DOMAIN new /\ new[c.id] = log[c.id]
  BY DEF Extends
<1>2. \A s : Replay(new, s, c.id) = Replay(log, s, c.id)
  BY <1>1, ReplayExtends
<1> QED
  BY <1>1, <1>2 DEF ClaimStands

\* What is recorded stands: the replay does not change after the last row of a session.
LEMMA CreditsStand ==
  ASSUME TypeInv, GateInv, NEW m \in New
  PROVE  ProofStands(Credit(m)) /\ Credit(m).milestone = m
<1>1. PICK s : s = First(m)
  OBVIOUS
<1>2. PICK t : t = Max(RowsOf(s))
  OBVIOUS
<1>3. /\ s \in grants /\ m \in Reached(Replay(log, s, Len(log))) /\ RowsOf(s) = Own(log, s)
      /\ t \in RowsOf(s) /\ \A i \in RowsOf(s) : i <= t
  BY <1>1, <1>2, RecordedIs
<1>4. Len(log) \in Nat /\ DOMAIN log = 1 .. Len(log)
  BY LenProperties DEF TypeInv
<1>5. t \in 1 .. Len(log)
  BY <1>3, <1>4 DEF Own
<1>6. ASSUME NEW i \in t + 1 .. Len(log) PROVE log[i].session # s
  <2>1. i \in 1 .. Len(log) /\ ~ (i <= t)
    BY <1>4, <1>5
  <2>2. i \notin Own(log, s)
    BY <1>3, <2>1
  <2> QED
    BY <1>4, <2>1, <2>2 DEF Own
<1>7. t \in Nat /\ t <= Len(log)
  BY <1>4, <1>5
<1>8. Replay(log, s, Len(log)) = Replay(log, s, t)
  BY <1>4, <1>6, <1>7, ReplayOfOthers
<1>9. Credit(m) = [milestone |-> m, session |-> s, through |-> t]
  BY <1>1, <1>2 DEF Credit
<1> QED
  BY <1>3, <1>8, <1>9 DEF ProofStands

\* A commission is paid for its milestones.
LEMMA PaymentStands ==
  ASSUME TypeInv, NEW g \in Gateways, NEW arc, Paying(g, arc),
         NEW new, new = log', NEW c, c = [arc |-> arc, id |-> Len(log) + 1]
  PROVE  c.id \in DOMAIN new /\ ClaimStands(c)' /\ c.arc = arc
<1>1. PICK ps : ps = {p \in proofs : p.milestone \in Requirements[arc]}
  OBVIOUS
<1>2. PICK row : row = Row(Id(g), "Claimed", [arc |-> arc, previous |-> save.fragments, proofs |-> ps])
  OBVIOUS
<1>3. /\ new = Append(log, row) /\ Readable(Replay(new, Id(g), Len(log) + 1))
      /\ Requirements[arc] \subseteq Proven(proofs) /\ proofs' = proofs /\ arc \in Arcs
  BY <1>1, <1>2 DEF Paying, Granted
<1>4. row \in Rows
  BY <1>1, <1>2, <1>3, RowsAreTyped
<1>5. Extends(log, new) /\ Len(new) = Len(log) + 1 /\ new[Len(log) + 1] = row
  BY <1>3, <1>4, OneMore DEF TypeInv
<1>6. Len(log) + 1 \in DOMAIN new
  BY <1>5 DEF Extends
<1>7. ps \subseteq proofs /\ Proven(ps) = Requirements[arc]
  <2>1. ASSUME NEW m \in Requirements[arc] PROVE m \in Proven(ps)
    <3>1. PICK p \in proofs : p.milestone = m
      BY <1>3 DEF Proven
    <3> QED
      BY <1>1, <3>1 DEF Proven
  <2> QED
    BY <1>1, <2>1 DEF Proven
<1>8. /\ row.kind = "Claimed" /\ row.data.arc = arc /\ row.data.proofs = ps /\ row.session = Id(g)
  BY <1>2 DEF Row
<1>9. c.id = Len(log) + 1 /\ c.arc = arc
  OBVIOUS
<1>10. /\ new[c.id] = row /\ Readable(Replay(new, row.session, c.id))
  BY <1>3, <1>5, <1>8, <1>9
<1>11. /\ new[c.id].kind = "Claimed" /\ new[c.id].data.arc = c.arc /\ new[c.id].data.proofs \subseteq proofs'
       /\ Proven(new[c.id].data.proofs) = Requirements[c.arc] /\ Readable(Replay(new, new[c.id].session, c.id))
  BY <1>3, <1>7, <1>8, <1>9, <1>10
<1> QED
  BY <1>6, <1>9, <1>11 DEF ClaimStands

\* Whatever is stored, the ledgers stand.
LEMMA LedgersKept ==
  ASSUME TypeInv, GateInv, LedgerInv, NEW g \in Gateways, Handles(g)
  PROVE  LedgerInv'
<1>1. PICK new : new = log'
  OBVIOUS
<1>2. Extends(log, new)
  BY <1>1, HandlersWrite, HandlersExtend
<1>3. Stores(g)
  BY HandlersStore
<1>4. grants \subseteq grants' /\ proofs \subseteq proofs'
  BY <1>3, StoreGrows
<1>5. \A p \in proofs : ProofStands(p)'
  BY <1>1, <1>2, <1>4, ProofsStand DEF LedgerInv, TypeInv
<1>6. \A c \in claims : c.id \in DOMAIN new /\ ClaimStands(c)'
  BY <1>1, <1>2, <1>4, ClaimsStand DEF LedgerInv
<1>7. ASSUME proofs' = proofs PROVE /\ \A p \in proofs' : ProofStands(p)'
                                    /\ \A p, q \in proofs' : p.milestone = q.milestone => p = q
  BY <1>5, <1>7 DEF LedgerInv
<1>8. ASSUME claims' = claims PROVE /\ \A c \in claims' : c.id \in DOMAIN new /\ ClaimStands(c)'
                                    /\ \A c, d \in claims' : c.arc = d.arc => c = d
  BY <1>6, <1>8 DEF LedgerInv
<1>9. CASE proofs' = proofs /\ claims' = claims
  BY <1>1, <1>7, <1>8, <1>9 DEF LedgerInv
<1>10. CASE Records
  <2>1. proofs' = proofs \cup {Credit(m) : m \in New} /\ claims' = claims /\ log' = log /\ grants' = grants
    BY <1>10, RecordedIs DEF Records
  <2>2. \A p : ProofStands(p)' <=> ProofStands(p)
    BY <2>1 DEF ProofStands, RowsOf
  <2>3. \A m \in New : ProofStands(Credit(m)) /\ Credit(m).milestone = m /\ m \notin Proven(proofs)
    BY CreditsStand, RecordedIs
  <2>4. \A p \in proofs' : ProofStands(p)'
    BY <1>5, <2>1, <2>2, <2>3
  <2>5. \A p, q \in proofs' : p.milestone = q.milestone => p = q
    BY <2>1, <2>3 DEF LedgerInv, Proven
  <2> QED
    BY <1>1, <1>8, <2>1, <2>4, <2>5 DEF LedgerInv
<1>11. CASE \E arc : Paying(g, arc)
  <2>1. PICK arc : Paying(g, arc)
    BY <1>11
  <2>2. PICK c : c = [arc |-> arc, id |-> Len(log) + 1]
    OBVIOUS
  <2>3. proofs' = proofs /\ claims' = claims \cup {c} /\ \A d \in claims : d.arc # arc
    BY <2>1, <2>2 DEF Paying, Granted, Unclaimed
  <2>4. c.id \in DOMAIN new /\ ClaimStands(c)' /\ c.arc = arc
    BY <1>1, <2>1, <2>2, PaymentStands
  <2>5. \A d \in claims' : d.id \in DOMAIN new /\ ClaimStands(d)'
    BY <1>6, <2>3, <2>4
  <2>6. \A x, y \in claims' : x.arc = y.arc => x = y
    BY <2>3, <2>4 DEF LedgerInv
  <2> QED
    BY <1>1, <1>7, <2>3, <2>5, <2>6 DEF LedgerInv
<1> QED
  BY <1>3, <1>9, <1>10, <1>11 DEF Stores, Quiet, Rewards, Combining, Equipping

-----------------------------------------------------------------------------
(* What follows of every behaviour *)

Sound == TypeInv /\ GateInv /\ SaveInv /\ LedgerInv

\* The books are sound before the first session.
LEMMA SoundAtFirst == Init => Sound
<1> SUFFICES ASSUME Init PROVE Sound
  OBVIOUS
<1>1. /\ origin \in Origins /\ save = origin /\ log = <<>> /\ sessions = 0
      /\ combines = {} /\ changes = {} /\ grants = {} /\ proofs = {} /\ claims = {}
      /\ gates = [g \in Gateways |-> Idle]
  BY DEF Init
<1>2. origin \in Saves /\ origin.loadout \subseteq origin.owned /\ Canonical(origin.loadout)
  BY <1>1, LoadoutAssumption DEF Saves
<1>3. IsFiniteSet({}) /\ Cardinality({}) = 0
  BY FS_EmptySet
<1>4. Idle \in GateStates /\ Idle.id = 0 /\ Idle.phase = "Idle"
  BY DEF Idle, GateStates, Phases
<1>5. log \in Seq(Rows) /\ DOMAIN log = {}
  BY <1>1
<1>6. TypeInv
  BY <1>1, <1>2, <1>3, <1>4, <1>5 DEF TypeInv
<1>7. GateInv
  BY <1>1, <1>4, <1>5 DEF GateInv, Joined, JoinedPhases
<1>8. SaveInv
  <2>1. Cost({}) = 0
    BY CostOfOneMore
  <2>2. save.owned \ origin.owned = {} /\ save.fragments \in Nat /\ save.revision \in Nat
    BY <1>1, <1>2 DEF Saves
  <2>3. MissionReward * 0 = 0 /\ Commission * 0 = 0
    BY LoadoutAssumption DEF Commission
  <2>4. Cost(save.owned \ origin.owned) = 0 /\ save.fragments = origin.fragments
    BY <1>1, <2>1, <2>2
  <2>5. Balance(0, 0)
    BY <2>2, <2>3, <2>4 DEF Balance
  <2> QED
    BY <1>1, <1>2, <1>3, <2>2, <2>5 DEF SaveInv
<1>9. LedgerInv
  BY <1>1 DEF LedgerInv
<1> QED
  BY <1>6, <1>7, <1>8, <1>9 DEF Sound

\* Every step keeps them so.
LEMMA SoundKept == Sound /\ [Next]_vars => Sound'
<1> SUFFICES ASSUME Sound, [Next]_vars PROVE Sound'
  OBVIOUS
<1>1. TypeInv /\ GateInv /\ SaveInv /\ LedgerInv
  BY DEF Sound
<1>2. CASE Next
  <2>1. PICK g \in Gateways : Handles(g)
    BY <1>2, NextHandles
  <2>2. Stores(g) /\ origin' = origin
    BY <1>1, <2>1, HandlersStore
  <2>3. TypeInv'
    BY <1>1, <2>1, TypeKept
  <2>4. GateInv'
    BY <1>1, <2>1, GatesKept
  <2>5. SaveInv'
    BY <1>1, <2>2, SaveKept
  <2>6. LedgerInv'
    BY <1>1, <2>1, LedgersKept
  <2> QED
    BY <2>3, <2>4, <2>5, <2>6 DEF Sound
<1>3. CASE UNCHANGED vars
  <2>1. /\ origin' = origin /\ save' = save /\ combines' = combines /\ changes' = changes /\ grants' = grants
        /\ proofs' = proofs /\ claims' = claims /\ log' = log /\ gates' = gates /\ sessions' = sessions
    BY <1>3 DEF vars, store
  <2>2. TypeInv'
    BY <1>1, <2>1 DEF TypeInv
  <2>3. GateInv'
    BY <1>1, <2>1 DEF GateInv, Joined
  <2>4. SaveInv'
    BY <1>1, <2>1 DEF SaveInv, Balance
  <2>5. LedgerInv'
    BY <1>1, <2>1 DEF LedgerInv, ProofStands, ClaimStands, RowsOf
  <2> QED
    BY <2>2, <2>3, <2>4, <2>5 DEF Sound
<1> QED
  BY <1>2, <1>3

\* The books are sound for as long as there are sessions.
LEMMA AlwaysSound == Spec => []Sound
  BY SoundAtFirst, SoundKept, PTL DEF Spec

\* The balance of a character is what was brought, earned by missions and commissions, less
\* what the modules cost; proofs and claims always replay, and the catalog resolves every
\* build, for any number of gateways, sessions and operations (persistence/src/lib.rs
\* combine_module_internal, acquisition.rs load_state, modules/src/lib.rs resolve_build).
THEOREM BooksBalance == Spec => []BooksAreSound
<1>1. ASSUME Sound PROVE BooksAreSound
  <2>1. TypeInv /\ SaveInv /\ LedgerInv
    BY <1>1 DEF Sound
  <2>2. FragmentsAreConserved
    BY <2>1 DEF FragmentsAreConserved, TypeInv, Saves, SaveInv, Balance, Spent, Cost
  <2>3. LedgersAreBelieved
    BY <2>1 DEF LedgersAreBelieved, LedgersStand, SaveInv, LedgerInv
  <2>4. CatalogIsSound
    BY CatalogResolves DEF CatalogIsSound
  <2> QED
    BY <2>2, <2>3, <2>4 DEF BooksAreSound
<1>2. Sound => BooksAreSound
  BY <1>1
<1> QED
  BY <1>2, AlwaysSound, PTL

\* There is a proof for each milestone that is proven.
LEMMA ProofsAreCounted ==
  ASSUME TypeInv, LedgerInv
  PROVE  Cardinality(Proven(proofs)) = Cardinality(proofs)
<1>1. PICK S : S = Proven(proofs)
  OBVIOUS
<1>2. S \subseteq Milestones
  BY <1>1 DEF Proven, TypeInv, Proofs
<1>3. IsFiniteSet(S)
  <2>1. IsFiniteSet({"Meridian", "Breach", "Stabilize", "Prism"})
    <3>1. IsFiniteSet({})
      BY FS_EmptySet
    <3>2. IsFiniteSet({} \cup {"Meridian"})
      BY <3>1, FS_AddElement
    <3>3. IsFiniteSet(({} \cup {"Meridian"}) \cup {"Breach"})
      BY <3>2, FS_AddElement
    <3>4. IsFiniteSet((({} \cup {"Meridian"}) \cup {"Breach"}) \cup {"Stabilize"})
      BY <3>3, FS_AddElement
    <3>5. IsFiniteSet(((({} \cup {"Meridian"}) \cup {"Breach"}) \cup {"Stabilize"}) \cup {"Prism"})
      BY <3>4, FS_AddElement
    <3>6. {"Meridian", "Breach", "Stabilize", "Prism"}
            = ((({} \cup {"Meridian"}) \cup {"Breach"}) \cup {"Stabilize"}) \cup {"Prism"}
      OBVIOUS
    <3> QED
      BY <3>5, <3>6
  <2> QED
    BY <1>2, <2>1, FS_Subset DEF Milestones
<1>4. PICK f : f = [m \in S |-> CHOOSE p \in proofs : p.milestone = m]
  OBVIOUS
<1>5. \A m \in S : f[m] \in proofs /\ f[m].milestone = m
  BY <1>1, <1>4 DEF Proven
<1>6. \A p \in proofs : p.milestone \in S /\ f[p.milestone] = p
  <2>1. \A p \in proofs : p.milestone \in S
    BY <1>1 DEF Proven
  <2> QED
    BY <1>5, <2>1 DEF LedgerInv
<1>7. f \in Bijection(S, proofs)
  <2>1. f \in [S -> proofs]
    BY <1>4, <1>5
  <2>2. \A m, n \in S : f[m] = f[n] => m = n
    BY <1>5
  <2>3. \A p \in proofs : \E m \in S : f[m] = p
    BY <1>6
  <2> QED
    BY <2>1, <2>2, <2>3 DEF Bijection, Injection, Surjection, IsInjective
<1>8. ExistsBijection(S, proofs)
  BY <1>7 DEF ExistsBijection
<1> QED
  BY <1>1, <1>3, <1>8, FS_Bijection

\* Nothing is taken back by any step: modules, rewards, proofs, claims and operations stay, a
\* proof is never replaced, and the loadout changes only with its revision (persistence/src/
\* acquisition.rs record_session, lib.rs set_module_loadout_internal).
THEOREM TakesNothingBack == Spec => NothingIsTakenBack
<1>1. ASSUME Sound, Sound', [Next]_vars
      PROVE  [/\ save.owned \subseteq save'.owned /\ grants \subseteq grants'
              /\ proofs \subseteq proofs' /\ claims \subseteq claims'
              /\ Cardinality(Proven(proofs')) = Cardinality(proofs')
              /\ combines \subseteq combines' /\ changes \subseteq changes'
              /\ save'.loadout # save.loadout => /\ save'.revision = save.revision + 1
                                                 /\ \E c \in changes' \ changes : c.revision = save.revision]_vars
  <2> SUFFICES ASSUME Next
      PROVE  /\ save.owned \subseteq save'.owned /\ grants \subseteq grants'
             /\ proofs \subseteq proofs' /\ claims \subseteq claims'
             /\ Cardinality(Proven(proofs')) = Cardinality(proofs')
             /\ combines \subseteq combines' /\ changes \subseteq changes'
             /\ save'.loadout # save.loadout => /\ save'.revision = save.revision + 1
                                                /\ \E c \in changes' \ changes : c.revision = save.revision
    BY <1>1
  <2>1. TypeInv /\ GateInv /\ (TypeInv /\ LedgerInv)'
    BY <1>1 DEF Sound
  <2>2. PICK g \in Gateways : Handles(g)
    BY NextHandles
  <2>3. Stores(g)
    BY <2>1, <2>2, HandlersStore
  <2>4. (TypeInv /\ LedgerInv => Cardinality(Proven(proofs)) = Cardinality(proofs))'
    BY ProofsAreCounted, PTL
  <2>5. Cardinality(Proven(proofs')) = Cardinality(proofs')
    BY <2>1, <2>4 DEF Proven
  <2> QED
    BY <2>1, <2>3, <2>5, StoreGrows
<1>2. Sound /\ Sound' /\ [Next]_vars =>
        [/\ save.owned \subseteq save'.owned /\ grants \subseteq grants'
         /\ proofs \subseteq proofs' /\ claims \subseteq claims'
         /\ Cardinality(Proven(proofs')) = Cardinality(proofs')
         /\ combines \subseteq combines' /\ changes \subseteq changes'
         /\ save'.loadout # save.loadout => /\ save'.revision = save.revision + 1
                                            /\ \E c \in changes' \ changes : c.revision = save.revision]_vars
  BY <1>1
<1> QED
  BY <1>2, AlwaysSound, PTL DEF Spec, NothingIsTakenBack

-----------------------------------------------------------------------------
(* The evidence of a session *)

Changing == {"Loot", "Combined", "Equipped", "Claimed"}

\* No other session changes the save between two rows of the session.
Alone(rows, s) ==
  \A i, k \in Own(rows, s), j \in DOMAIN rows :
    i < j /\ j < k /\ rows[j].session # s => rows[j].kind \notin Changing

\* The session has a row after all changes of the save.
Newest(rows, s) ==
  \E k \in Own(rows, s) : \A j \in DOMAIN rows : rows[j].kind \in Changing => j <= k

\* The replay arrives at the save, as its catalog lists it.
Agrees(r, sv) == r.state = [sv EXCEPT !.owned = @ \cap Offered[r.catalog]]

\* The replay of all rows of a session.
End(rows, s) == Replay(rows, s, Len(rows))

\* The evidence of a session that is alone is read, and arrives at the save.
EvidenceInv ==
  /\ \A s \in 1 .. sessions : Own(log, s) # {} => \E i \in Own(log, s) : log[i].kind = "Snapshot"
  /\ \A s \in 1 .. sessions : Own(log, s) # {} /\ Alone(log, s) =>
        /\ Readable(End(log, s)) /\ End(log, s).admitted
        /\ Newest(log, s) => Agrees(End(log, s), save)
  /\ \A g \in Gateways : Joined(g) /\ Alone(log, gates[g].id) =>
        /\ gates[g].phase # "Playing" => End(log, gates[g].id).done
        /\ Newest(log, gates[g].id) => End(log, gates[g].id).catalog = Written(gates[g].client, save.owned)

\* Rows of one session were added to a log.
Grows(old, new, id) ==
  Extends(old, new) /\ \A i \in Len(old) + 1 .. Len(new) : new[i].session = id

\* The numbers of the rows.
LEMMA GrownRows ==
  ASSUME NEW old, NEW new, NEW id, Grows(old, new, id)
  PROVE  /\ Len(old) \in Nat /\ Len(new) \in Nat /\ Len(old) <= Len(new)
         /\ DOMAIN old = 1 .. Len(old) /\ DOMAIN new = 1 .. Len(new) /\ DOMAIN old \subseteq DOMAIN new
         /\ \A i \in DOMAIN old : new[i] = old[i]
         /\ \A i \in DOMAIN new : i \in DOMAIN old \/ (i > Len(old) /\ new[i].session = id)
  BY DEF Grows, Extends

\* The rows and the replay of another session stay; its evidence is not the newest when the
\* save was changed.
LEMMA Elsewhere ==
  ASSUME NEW old, NEW new, NEW id, Grows(old, new, id), NEW s, s # id
  PROVE  /\ Own(new, s) = Own(old, s) /\ End(new, s) = End(old, s)
         /\ Alone(new, s) => Alone(old, s)
         /\ Newest(new, s) => Newest(old, s)
         /\ Newest(new, s) => \A j \in DOMAIN new : j > Len(old) => new[j].kind \notin Changing
<1>0. /\ Len(old) \in Nat /\ Len(new) \in Nat /\ Len(old) <= Len(new)
      /\ DOMAIN old = 1 .. Len(old) /\ DOMAIN new = 1 .. Len(new) /\ DOMAIN old \subseteq DOMAIN new
      /\ \A i \in DOMAIN old : new[i] = old[i]
      /\ \A i \in DOMAIN new : i \in DOMAIN old \/ (i > Len(old) /\ new[i].session = id)
  BY GrownRows
<1>1. Own(new, s) = Own(old, s)
  BY <1>0 DEF Own
<1>2. End(new, s) = End(old, s)
  <2>1. \A i \in Len(old) + 1 .. Len(new) : new[i].session # s
    BY DEF Grows
  <2>2. Replay(new, s, Len(new)) = Replay(new, s, Len(old))
    BY <1>0, <2>1, ReplayOfOthers
  <2>3. Len(old) \in 0 .. Len(old) /\ Extends(old, new)
    BY <1>0 DEF Grows
  <2>4. Replay(new, s, Len(old)) = Replay(old, s, Len(old))
    BY <2>3, ReplayExtends
  <2> QED
    BY <2>2, <2>4 DEF End
<1>3. Alone(new, s) => Alone(old, s)
  BY <1>0, <1>1 DEF Alone
<1>4. Newest(new, s) => Newest(old, s)
  BY <1>0, <1>1 DEF Newest
<1>5. ASSUME Newest(new, s), NEW j \in DOMAIN new, j > Len(old), new[j].kind \in Changing PROVE FALSE
  <2>1. PICK k \in Own(old, s) : j <= k
    BY <1>1, <1>5 DEF Newest
  <2>2. k \in 1 .. Len(old) /\ j \in 1 .. Len(new)
    BY <1>0, <2>1 DEF Own
  <2> QED
    BY <1>0, <1>5, <2>1, <2>2
<1> QED
  BY <1>1, <1>2, <1>3, <1>4, <1>5

\* A session that adds a row and is alone still had the newest row before.
LEMMA Here ==
  ASSUME NEW old, NEW new, NEW s, Grows(old, new, s), Alone(new, s)
  PROVE  /\ Alone(old, s)
         /\ Len(old) < Len(new) /\ Own(old, s) # {} => Newest(old, s)
<1>0. /\ Len(old) \in Nat /\ Len(new) \in Nat /\ Len(old) <= Len(new)
      /\ DOMAIN old = 1 .. Len(old) /\ DOMAIN new = 1 .. Len(new) /\ DOMAIN old \subseteq DOMAIN new
      /\ \A i \in DOMAIN old : new[i] = old[i]
      /\ \A i \in DOMAIN new : i \in DOMAIN old \/ (i > Len(old) /\ new[i].session = s)
  BY GrownRows
<1>1. Own(old, s) \subseteq Own(new, s) /\ Own(old, s) \subseteq 1 .. Len(old)
  BY <1>0 DEF Own
<1>2. Alone(old, s)
  BY <1>0, <1>1 DEF Alone
<1>3. ASSUME Len(old) < Len(new), Own(old, s) # {} PROVE Newest(old, s)
  <2>1. PICK k : k = Max(Own(old, s))
    OBVIOUS
  <2>2. k \in Own(old, s) /\ \A x \in Own(old, s) : x <= k
    BY <1>0, <1>1, <1>3, <2>1, MaxIs
  <2>3. Len(new) \in Own(new, s) /\ Len(new) > Len(old)
    <3>1. Len(new) \in 1 .. Len(new) /\ Len(new) \notin 1 .. Len(old)
      BY <1>0, <1>3
    <3> QED
      BY <1>0, <1>3, <3>1 DEF Own
  <2>4. ASSUME NEW j \in DOMAIN old, old[j].kind \in Changing PROVE j <= k
    <3>1. CASE old[j].session = s
      <4>1. j \in Own(old, s)
        BY <3>1 DEF Own
      <4> QED
        BY <2>2, <4>1
    <3>2. CASE old[j].session # s
      <4>1. j \in DOMAIN new /\ new[j].session # s /\ new[j].kind \in Changing
        BY <1>0, <2>4, <3>2
      <4>2. k \in Own(new, s)
        BY <1>1, <2>2
      <4>3. ~ (k < j /\ j < Len(new))
        BY <2>3, <4>1, <4>2 DEF Alone
      <4>4. j \in 1 .. Len(old) /\ k \in 1 .. Len(old)
        BY <1>0, <1>1, <2>2
      <4> QED
        BY <1>0, <1>3, <4>3, <4>4
    <3> QED
      BY <3>1, <3>2
  <2> QED
    BY <2>2, <2>4 DEF Newest
<1> QED
  BY <1>2, <1>3

\* A row of the session fits what was read of it.
Reads(old, new, s, k, row, r) ==
  /\ Grows(old, new, s) /\ Len(old) < Len(new) /\ k = Len(old) + 1 /\ new[k] = row
  /\ r = End(old, s) /\ Readable(r) /\ Fits(r, row, k)

\* The replay with one more row.
LEMMA OneRowRead ==
  ASSUME NEW old, NEW new, NEW s, NEW k, NEW row, NEW r, Reads(old, new, s, k, row, r)
  PROVE  Replay(new, s, k) = Applied(r, row)
<1> USE DEF Reads
<1>0. Len(old) \in Nat /\ Len(new) \in Nat /\ Extends(old, new) /\ k \in Nat
  BY DEF Grows, Extends
<1>1. row.session = s
  <2>1. k \in Len(old) + 1 .. Len(new)
    BY <1>0
  <2> QED
    BY <2>1 DEF Grows
<1>2. Replay(new, s, Len(old)) = r
  <2>1. Len(old) \in 0 .. Len(old)
    BY <1>0
  <2> QED
    BY <1>0, <2>1, ReplayExtends DEF End
<1>3. Replay(new, s, k) = Step(new, s, r, k)
  BY <1>0, <1>2, ReplaySteps
<1> QED
  BY <1>1, <1>3 DEF Step, Readable

\* What a replay tells that arrives at the save in the catalog of the client.
Tells(r, client, sv) ==
  /\ Replayed(r) /\ Readable(r) /\ r.admitted /\ Agrees(r, sv)
  /\ r.catalog = Written(client, sv.owned) /\ r.catalog \in Lists

\* The replay of a joined session tells it before the session adds a row.
LEMMA BeforeRow ==
  ASSUME TypeInv, GateInv, EvidenceInv, NEW g \in Gateways, Joined(g),
         NEW new, Grows(log, new, gates[g].id), Len(log) < Len(new), Alone(new, gates[g].id)
  PROVE  /\ Tells(End(log, gates[g].id), gates[g].client, save)
         /\ gates[g].phase # "Playing" => End(log, gates[g].id).done
<1>1. PICK s : s = gates[g].id
  OBVIOUS
<1>2. s \in 1 .. sessions /\ Own(log, s) # {}
  <2>1. gates[g].id \in 0 .. sessions /\ gates[g].id # 0 /\ sessions \in Nat
    BY DEF GateInv, TypeInv, Joined, JoinedPhases
  <2> QED
    BY <1>1, <2>1 DEF GateInv
<1>3. Alone(log, s) /\ Newest(log, s)
  BY <1>1, <1>2, Here
<1>4. PICK r : r = End(log, s)
  OBVIOUS
<1>5. /\ Readable(r) /\ r.admitted /\ Agrees(r, save) /\ r.catalog = Written(gates[g].client, save.owned)
      /\ gates[g].phase # "Playing" => r.done
  BY <1>1, <1>2, <1>3, <1>4 DEF EvidenceInv
<1>6. Replayed(r)
  <2>1. log \in Seq(Rows)
    BY DEF TypeInv
  <2>2. Len(log) \in Nat /\ \A i \in 1 .. Len(log) : log[i] \in Rows
    BY <2>1, LenProperties, ElementOfSeq
  <2> QED
    BY <1>4, <2>2, ReplayIsTyped DEF End
<1>7. r.catalog \in Lists
  <2>1. save \in Saves
    BY DEF TypeInv
  <2>2. Written(gates[g].client, save.owned) \in Lists
    BY <2>1, EvidenceIs
  <2> QED
    BY <1>5, <2>2
<1> QED
  BY <1>1, <1>4, <1>5, <1>6, <1>7 DEF Tells

\* A list is no failure.
LEMMA ListsAreRead == ASSUME NEW r, r \in Replays, r.catalog \in Lists PROVE Replayed(r) /\ Readable(r)
  BY DEF Replayed, Readable, NoReplay, Nobody, Lists

\* The end of a mission tells the balance it leaves.
LEMMA FinishTells ==
  ASSUME TypeInv, GateInv, EvidenceInv, NEW g \in Gateways, NEW reached \in Missions, Complete(g, reached),
         NEW new, new = log', Grows(log, new, gates[g].id), Alone(new, gates[g].id)
  PROVE  Tells(End(new, gates[g].id), gates[g].client, save') /\ End(new, gates[g].id).done
<1>1. PICK s : s = gates[g].id
  OBVIOUS
<1>2. PICK n : n = save.fragments + MissionReward
  OBVIOUS
<1>3. PICK a : a = Row(s, "Completed", reached)
  OBVIOUS
<1>4. PICK b : b = Row(s, "Loot", n)
  OBVIOUS
<1>5. a \in Rows /\ b \in Rows
  <2>1. Row(Id(g), "Completed", reached) \in Rows /\ Row(Id(g), "Loot", LootTotal(save.fragments)) \in Rows
    BY RowsAreTyped
  <2>2. a = Row(Id(g), "Completed", reached) /\ b = Row(Id(g), "Loot", LootTotal(save.fragments))
    BY <1>1, <1>2, <1>3, <1>4 DEF Id, LootTotal
  <2> QED
    BY <2>1, <2>2
<1>6. /\ Extends(log, new) /\ Len(new) = Len(log) + 2 /\ Len(log) \in Nat
      /\ new[Len(log) + 1] = a /\ new[Len(log) + 2] = b
  <2>1. PICK two : two = << a, b >>
    OBVIOUS
  <2>2. Joins(new, log, two, a, b)
    <3>1. Two(two, a, b)
      BY <1>5, <2>1 DEF Two
    <3>2. new = log \o << Row(Id(g), "Completed", reached), Row(Id(g), "Loot", LootTotal(save.fragments)) >>
      BY DEF Complete
    <3>3. new = log \o two
      BY <1>1, <1>2, <1>3, <1>4, <2>1, <3>2 DEF Id, LootTotal
    <3> QED
      BY <3>1, <3>3 DEF Joins, TypeInv
  <2> QED
    BY <2>2, TwoMore DEF Extends
<1>7. PICK r : r = End(log, s)
  OBVIOUS
<1>8. Joined(g) /\ Len(log) < Len(new)
  BY <1>6 DEF Complete, Joined, JoinedPhases
<1>9. Tells(r, gates[g].client, save)
  BY <1>1, <1>7, <1>8, BeforeRow
<1>10. /\ save \in Saves /\ n \in Nat /\ n >= save.fragments
       /\ r \in Replays /\ Readable(r) /\ r.admitted /\ r.catalog \in Lists
       /\ r.catalog = Written(gates[g].client, save.owned)
       /\ r.state = [save EXCEPT !.owned = @ \cap Offered[r.catalog]]
  <2>1. save \in Saves /\ MissionReward \in Nat
    BY LoadoutAssumption DEF TypeInv
  <2> QED
    BY <1>2, <1>9, <2>1 DEF Tells, Replayed, Agrees, Saves
<1>11. PICK k \in Nat : k = Len(log) + 1
  BY <1>6
<1>12. PICK e : e = Replay(new, s, k)
  OBVIOUS
<1>13. e = [r EXCEPT !.done = TRUE, !.milestones = reached] /\ e \in Replays
  <2>1. a.kind = "Completed" /\ a.data = reached
    BY <1>3 DEF Row
  <2>2. Fits(r, a, k)
    BY <2>1, WhenFits
  <2>3. e = Applied(r, a)
    <3>1. Reads(log, new, s, k, a, r)
      BY <1>1, <1>6, <1>7, <1>8, <1>10, <1>11, <2>2 DEF Reads
    <3> QED
      BY <1>12, <3>1, OneRowRead
  <2> QED
    BY <1>5, <1>10, <2>1, <2>3, Applies
<1>14. e.done /\ e.admitted /\ e.state = r.state /\ e.catalog = r.catalog
  BY <1>10, <1>13 DEF Replays
<1>15. Readable(e)
  BY <1>10, <1>13, <1>14, ListsAreRead
<1>16. e.state.fragments = save.fragments
  BY <1>10, <1>14 DEF Saves
<1>17. PICK f : f = End(new, s)
  OBVIOUS
<1>18. f = [e EXCEPT !.rewarded = TRUE, !.state.fragments = n] /\ f \in Replays
  <2>1. b.kind = "Loot" /\ b.data = n /\ b.session = s
    BY <1>4 DEF Row
  <2>2. b.data >= e.state.fragments
    BY <1>10, <1>16, <2>1
  <2>3. Fits(e, b, k + 1)
    BY <2>1, <2>2, WhenFits
  <2>4. k + 1 = Len(log) + 2 /\ f = Replay(new, s, k + 1) /\ new[k + 1] = b
    BY <1>6, <1>11, <1>17 DEF End
  <2>5. f = Step(new, s, e, k + 1)
    BY <1>12, <2>4, ReplaySteps
  <2>6. f = Applied(e, b)
    BY <1>15, <2>1, <2>3, <2>4, <2>5 DEF Step, Readable
  <2>7. e \in Replays /\ b \in Rows
    BY <1>5, <1>13
  <2>8. /\ Applied(e, b) \in Replays
        /\ b.kind = "Loot" => Applied(e, b) = [e EXCEPT !.rewarded = TRUE, !.state.fragments = b.data]
    BY <2>7, Applies, Zenon
  <2> QED
    BY <2>1, <2>6, <2>8, Zenon
<1>19. /\ f.done /\ f.admitted /\ f.catalog = r.catalog /\ f.state = [r.state EXCEPT !.fragments = n]
  BY <1>13, <1>14, <1>18 DEF Replays
<1>20. save' = [save EXCEPT !.fragments = n]
  BY <1>2 DEF Complete
<1>21. Agrees(f, save')
  <2>1. PICK o : o = save.owned \cap Offered[r.catalog]
    OBVIOUS
  <2>2. f.state = [[save EXCEPT !.owned = o] EXCEPT !.fragments = n]
    BY <1>10, <1>19, <2>1
  <2>3. [[save EXCEPT !.owned = o] EXCEPT !.fragments = n] = [[save EXCEPT !.fragments = n] EXCEPT !.owned = o]
    BY <1>10 DEF Saves
  <2>4. [save EXCEPT !.fragments = n].owned = save.owned
    BY <1>10 DEF Saves
  <2> QED
    BY <1>19, <1>20, <2>1, <2>2, <2>3, <2>4 DEF Agrees
<1>22. save'.owned = save.owned
  BY <1>10, <1>20 DEF Saves
<1>23. Replayed(f) /\ Readable(f)
  BY <1>10, <1>18, <1>19, ListsAreRead
<1> QED
  BY <1>1, <1>10, <1>17, <1>19, <1>21, <1>22, <1>23 DEF Tells

\* One row of the session is written.
LEMMA OneRowGrows ==
  ASSUME TypeInv, NEW s, NEW row \in Rows, row.session = s, NEW new, new = Append(log, row)
  PROVE  /\ Grows(log, new, s) /\ Len(log) < Len(new) /\ Len(new) = Len(log) + 1
         /\ Len(log) \in Nat /\ new[Len(log) + 1] = row
<1>1. Extends(log, new) /\ Len(new) = Len(log) + 1 /\ new[Len(log) + 1] = row
  BY OneMore DEF TypeInv
<1>2. Len(log) \in Nat /\ \A i \in Len(log) + 1 .. Len(new) : i = Len(log) + 1
  BY <1>1 DEF Extends
<1> QED
  BY <1>1, <1>2 DEF Grows

\* A last row that fits.
Fitting(new, s, row, r) ==
  /\ row \in Rows /\ row.session = s /\ new = Append(log, row)
  /\ r = End(log, s) /\ Readable(r) /\ Fits(r, row, Len(log) + 1)

\* And it is read.
LEMMA OneRowEnds ==
  ASSUME TypeInv, NEW s, NEW row, NEW new, NEW r, Fitting(new, s, row, r)
  PROVE  End(new, s) = Applied(r, row)
<1>1. /\ Grows(log, new, s) /\ Len(log) < Len(new) /\ Len(new) = Len(log) + 1
      /\ Len(log) \in Nat /\ new[Len(log) + 1] = row
  BY OneRowGrows DEF Fitting
<1>2. PICK k : k = Len(log) + 1
  OBVIOUS
<1>3. Reads(log, new, s, k, row, r)
  BY <1>1, <1>2 DEF Reads, Fitting
<1>4. Replay(new, s, k) = Applied(r, row)
  BY <1>3, OneRowRead
<1> QED
  BY <1>1, <1>2, <1>4 DEF End

\* The snapshot tells what it found.
LEMMA JoinTells ==
  ASSUME TypeInv, GateInv, EvidenceInv, NEW g \in Gateways, Join(g), NEW new, new = log'
  PROVE  Tells(End(new, gates[g].id), gates[g].client, save') /\ Grows(log, new, gates[g].id)
<1>1. PICK s : s = gates[g].id
  OBVIOUS
<1>2. PICK e : e = Evidence(gates[g].client, save)
  OBVIOUS
<1>3. PICK row : row = Row(s, "Snapshot", e)
  OBVIOUS
<1>4. row \in Rows /\ row.session = s /\ row.kind = "Snapshot" /\ row.data = e
  <2>1. Row(Id(g), "Snapshot", Evidence(gates[g].client, save)) \in Rows
    BY RowsAreTyped
  <2>2. row = Row(Id(g), "Snapshot", Evidence(gates[g].client, save))
    BY <1>1, <1>2, <1>3 DEF Id
  <2> QED
    BY <1>3, <2>1, <2>2 DEF Row
<1>5. /\ new = Append(log, row) /\ save' = save /\ gates[g].phase = "Admitted"
      /\ ~ \E i \in Own(log, s) : log[i].kind = "Snapshot"
  BY <1>1, <1>2, <1>3 DEF Join, Id, RowsOf, Own
<1>6. s \in 1 .. sessions
  BY <1>1, <1>5 DEF GateInv, TypeInv
<1>7. Own(log, s) = {}
  BY <1>5, <1>6 DEF EvidenceInv
<1>8. Len(log) \in Nat /\ DOMAIN log = 1 .. Len(log)
  BY LenProperties DEF TypeInv
<1>9. End(log, s) = Nobody
  <2>1. \A i \in 0 + 1 .. Len(log) : log[i].session # s
    BY <1>7, <1>8 DEF Own
  <2>2. 0 \in Nat /\ 0 <= Len(log)
    BY <1>8
  <2>3. Replay(log, s, Len(log)) = Replay(log, s, 0)
    BY <1>8, <2>1, <2>2, ReplayOfOthers
  <2> QED
    BY <2>3, ReplaySteps DEF End
<1>10. Nobody \in Replays /\ Readable(Nobody) /\ ~ Nobody.admitted
  BY NobodyIsReplayed DEF Replayed, Readable
<1>11. Fits(Nobody, row, Len(log) + 1)
  BY <1>4, <1>10, WhenFits
<1>12. PICK f : f = End(new, s)
  OBVIOUS
<1>13. f = Applied(Nobody, row)
  <2>1. Fitting(new, s, row, Nobody)
    BY <1>4, <1>5, <1>9, <1>10, <1>11 DEF Fitting
  <2> QED
    BY <1>12, <2>1, OneRowEnds
<1>14. f = [Nobody EXCEPT !.admitted = TRUE, !.catalog = e.catalog, !.state = e.state] /\ f \in Replays
  BY <1>4, <1>10, <1>13, Applies
<1>15. save \in Saves
  BY DEF TypeInv
<1>16. /\ e.catalog \in Lists /\ e.catalog = Written(gates[g].client, save.owned)
       /\ e.state = [save EXCEPT !.owned = @ \cap Offered[e.catalog]]
  <2>1. /\ Evidence(gates[g].client, save).catalog = Written(gates[g].client, save.owned)
        /\ Written(gates[g].client, save.owned) \in Lists
    BY <1>15, EvidenceIs
  <2>2. Evidence(gates[g].client, save).state
          = [save EXCEPT !.owned = @ \cap Offered[Written(gates[g].client, save.owned)]]
    BY <1>15, EvidenceIs
  <2> QED
    BY <1>2, <2>1, <2>2
<1>17. f.admitted /\ f.catalog = e.catalog /\ f.state = e.state
  BY <1>10, <1>14 DEF Replays
<1>18. Replayed(f) /\ Readable(f)
  BY <1>14, <1>16, <1>17, ListsAreRead
<1>19. Grows(log, new, s)
  BY <1>4, <1>5, OneRowGrows
<1> QED
  BY <1>1, <1>5, <1>12, <1>16, <1>17, <1>18, <1>19 DEF Tells, Agrees

\* What the row of a change begins with is what the replay arrived at.
LEMMA EvidenceAgrees ==
  ASSUME NEW r, NEW client, NEW s \in Saves, Tells(r, client, s)
  PROVE  Evidence(client, s) = [catalog |-> r.catalog, state |-> r.state]
<1>1. r.catalog = Written(client, s.owned) /\ r.state = [s EXCEPT !.owned = @ \cap Offered[r.catalog]]
  BY DEF Tells, Agrees
<1> QED
  BY <1>1 DEF Evidence

\* A module the client is offered is listed, and leaves the catalog of its rows.
LEMMA OfferedIsListed ==
  ASSUME NEW client \in Catalogs, NEW owned, NEW m \in Offered[client]
  PROVE  m \in Offered[Written(client, owned)] /\ Written(client, owned \cup {m}) = Written(client, owned)
<1>1. client \in {"Legacy", "Content", "Arsenal", "Build"}
  BY DEF Catalogs, Offered
<1>2. /\ Offered["Legacy"] = Legacy /\ Offered["Content"] = Content /\ Offered["Arsenal"] = Content
      /\ Offered["Build"] = All /\ Legacy \subseteq Content /\ Content \subseteq All
  BY AllModules DEF Offered, Legacy, Content
<1>3. \A o : client \in {"Arsenal", "Build"} => Written(client, o) = client
  BY DEF Written
<1>4. \A o : client \in {"Legacy", "Content"} =>
               Written(client, o) = IF o \subseteq Content THEN "Content" ELSE "Build"
  BY DEF Written
<1> QED
  BY <1>1, <1>2, <1>3, <1>4

\* A combination tells the save it leaves.
LEMMA CombineTells ==
  ASSUME TypeInv, GateInv, EvidenceInv, NEW g \in Gateways, NEW op, NEW m \in All, Combine(g, op, m),
         \A c \in combines : c.op # op, NEW new, new = log', Alone(new, gates[g].id)
  PROVE  Tells(End(new, gates[g].id), gates[g].client, save') /\ End(new, gates[g].id).done
<1>1. PICK s : s = gates[g].id
  OBVIOUS
<1>2. PICK client : client = gates[g].client
  OBVIOUS
<1>3. PICK e : e = Evidence(client, save)
  OBVIOUS
<1>4. PICK row : row = Row(s, "Combined", Change(e, [e EXCEPT !.state = CombinedState(e.state, m)]))
  OBVIOUS
<1>5. /\ new = Append(log, row) /\ save' = CombinedState(save, m) /\ gates[g].phase = "Complete"
      /\ m \in Offered[client] /\ m \notin save.owned /\ Affords(m)
  BY <1>1, <1>2, <1>3, <1>4 DEF Combine, MayCombine, Id
<1>6. row \in Rows /\ row.session = s
  <2>1. Row(Id(g), "Combined", Change(Evidence(gates[g].client, save),
          [Evidence(gates[g].client, save) EXCEPT !.state =
              CombinedState(Evidence(gates[g].client, save).state, m)])) \in Rows
    BY <1>5, RowsAreTyped
  <2> QED
    BY <1>1, <1>2, <1>3, <1>4, <2>1 DEF Id, Row
<1>7. Joined(g) /\ client \in Catalogs
  BY <1>2, <1>5 DEF Joined, JoinedPhases, GateInv
<1>8. Grows(log, new, s) /\ Len(log) < Len(new)
  BY <1>5, <1>6, OneRowGrows
<1>9. PICK r : r = End(log, s)
  OBVIOUS
<1>10. Tells(r, client, save) /\ r.done
  BY <1>1, <1>2, <1>5, <1>7, <1>8, <1>9, BeforeRow
<1>11. /\ save \in Saves /\ r \in Replays /\ Readable(r) /\ r.admitted /\ r.catalog \in Lists
       /\ r.catalog = Written(client, save.owned) /\ r.state = [save EXCEPT !.owned = @ \cap Offered[r.catalog]]
  BY <1>10 DEF Tells, Replayed, Agrees, TypeInv
<1>12. e = [catalog |-> r.catalog, state |-> r.state]
  BY <1>3, <1>10, <1>11, EvidenceAgrees
<1>13. /\ row.kind = "Combined" /\ row.data.before = e
       /\ row.data.after.state = CombinedState(r.state, m)
  BY <1>4, <1>12 DEF Row, Change
<1>14. Fits(r, row, Len(log) + 1)
  BY <1>10, <1>11, <1>12, <1>13, WhenFits
<1>15. PICK f : f = End(new, s)
  OBVIOUS
<1>16. f = Applied(r, row)
  <2>1. Fitting(new, s, row, r)
    BY <1>5, <1>6, <1>9, <1>11, <1>14 DEF Fitting
  <2> QED
    BY <1>15, <2>1, OneRowEnds
<1>17. f = [r EXCEPT !.state = CombinedState(r.state, m)] /\ f \in Replays
  <2>1. /\ Applied(r, row) \in Replays
        /\ row.kind \in {"Combined", "Equipped"} => Applied(r, row) = [r EXCEPT !.state = row.data.after.state]
    BY <1>6, <1>11, Applies, Zenon
  <2> QED
    BY <1>13, <1>16, <2>1
<1>18. /\ f.done /\ f.admitted /\ f.catalog = r.catalog /\ f.state = CombinedState(r.state, m)
  BY <1>10, <1>11, <1>17 DEF Replays
<1>19. m \in Offered[r.catalog] /\ Written(client, save.owned \cup {m}) = r.catalog
  BY <1>5, <1>7, <1>11, OfferedIsListed
<1>20. PICK x : x = save.fragments - Recipe(m)
  OBVIOUS
<1>21. PICK o : o = save.owned \cap Offered[r.catalog]
  OBVIOUS
<1>22. save' = [save EXCEPT !.fragments = x, !.owned = save.owned \cup {m}]
  BY <1>5, <1>20 DEF CombinedState
<1>23. f.state = [[save EXCEPT !.owned = o] EXCEPT !.fragments = x, !.owned = o \cup {m}]
  <2>1. r.state = [save EXCEPT !.owned = o]
    BY <1>11, <1>21
  <2>2. r.state.fragments = save.fragments /\ r.state.owned = o
    BY <1>11, <2>1 DEF Saves
  <2> QED
    BY <1>18, <1>20, <2>1, <2>2 DEF CombinedState
<1>24. save'.owned = save.owned \cup {m}
  BY <1>11, <1>22 DEF Saves
<1>25. Agrees(f, save')
  <2>1. (save.owned \cup {m}) \cap Offered[r.catalog] = o \cup {m}
    BY <1>19, <1>21
  <2>2. [save' EXCEPT !.owned = @ \cap Offered[f.catalog]] = [save' EXCEPT !.owned = o \cup {m}]
    BY <1>18, <1>24, <2>1
  <2>3. [save' EXCEPT !.owned = o \cup {m}]
           = [[save EXCEPT !.fragments = x, !.owned = save.owned \cup {m}] EXCEPT !.owned = o \cup {m}]
    BY <1>22
  <2>4. [[save EXCEPT !.fragments = x, !.owned = save.owned \cup {m}] EXCEPT !.owned = o \cup {m}]
           = [[save EXCEPT !.owned = o] EXCEPT !.fragments = x, !.owned = o \cup {m}]
    BY <1>11 DEF Saves
  <2> QED
    BY <1>23, <2>2, <2>3, <2>4 DEF Agrees
<1>26. Replayed(f) /\ Readable(f)
  BY <1>11, <1>17, <1>18, ListsAreRead
<1> QED
  BY <1>1, <1>2, <1>11, <1>15, <1>18, <1>19, <1>24, <1>25, <1>26 DEF Tells

\* A change of the loadout tells the save it leaves.
LEMMA EquipTells ==
  ASSUME TypeInv, GateInv, EvidenceInv, NEW g \in Gateways, NEW op, NEW n, NEW modules \in SUBSET All,
         SetLoadout(g, op, n, modules),
         \A c \in changes : c.op # op, NEW new, new = log', Alone(new, gates[g].id)
  PROVE  Tells(End(new, gates[g].id), gates[g].client, save') /\ End(new, gates[g].id).done
<1>1. PICK s : s = gates[g].id
  OBVIOUS
<1>2. PICK client : client = gates[g].client
  OBVIOUS
<1>3. PICK e : e = Evidence(client, save)
  OBVIOUS
<1>4. PICK row : row = Row(s, "Equipped", Change(e, [e EXCEPT !.state = EquippedState(e.state, modules)]))
  OBVIOUS
<1>5. /\ new = Append(log, row) /\ save' = EquippedState(save, modules) /\ gates[g].phase = "Complete"
  BY <1>1, <1>2, <1>3, <1>4 DEF SetLoadout, MayEquip, Id
<1>6. row \in Rows /\ row.session = s
  <2>1. Row(Id(g), "Equipped", Change(Evidence(gates[g].client, save),
          [Evidence(gates[g].client, save) EXCEPT !.state =
              EquippedState(Evidence(gates[g].client, save).state, modules)])) \in Rows
    BY RowsAreTyped
  <2> QED
    BY <1>1, <1>2, <1>3, <1>4, <2>1 DEF Id, Row
<1>7. Joined(g)
  BY <1>5 DEF Joined, JoinedPhases
<1>8. Grows(log, new, s) /\ Len(log) < Len(new)
  BY <1>5, <1>6, OneRowGrows
<1>9. PICK r : r = End(log, s)
  OBVIOUS
<1>10. Tells(r, client, save) /\ r.done
  BY <1>1, <1>2, <1>5, <1>7, <1>8, <1>9, BeforeRow
<1>11. /\ save \in Saves /\ r \in Replays /\ Readable(r) /\ r.admitted /\ r.catalog \in Lists
       /\ r.catalog = Written(client, save.owned) /\ r.state = [save EXCEPT !.owned = @ \cap Offered[r.catalog]]
  BY <1>10 DEF Tells, Replayed, Agrees, TypeInv
<1>12. e = [catalog |-> r.catalog, state |-> r.state]
  BY <1>3, <1>10, <1>11, EvidenceAgrees
<1>13. /\ row.kind = "Equipped" /\ row.data.before = e
       /\ row.data.after.state = EquippedState(r.state, modules)
  BY <1>4, <1>12 DEF Row, Change
<1>14. Fits(r, row, Len(log) + 1)
  BY <1>10, <1>11, <1>12, <1>13, WhenFits
<1>15. PICK f : f = End(new, s)
  OBVIOUS
<1>16. f = Applied(r, row)
  <2>1. Fitting(new, s, row, r)
    BY <1>5, <1>6, <1>9, <1>11, <1>14 DEF Fitting
  <2> QED
    BY <1>15, <2>1, OneRowEnds
<1>17. f = [r EXCEPT !.state = EquippedState(r.state, modules)] /\ f \in Replays
  <2>1. /\ Applied(r, row) \in Replays
        /\ row.kind \in {"Combined", "Equipped"} => Applied(r, row) = [r EXCEPT !.state = row.data.after.state]
    BY <1>6, <1>11, Applies, Zenon
  <2> QED
    BY <1>13, <1>16, <2>1
<1>18. /\ f.done /\ f.admitted /\ f.catalog = r.catalog /\ f.state = EquippedState(r.state, modules)
  BY <1>10, <1>11, <1>17 DEF Replays
<1>19. PICK x : x = save.revision + 1
  OBVIOUS
<1>20. PICK o : o = save.owned \cap Offered[r.catalog]
  OBVIOUS
<1>21. save' = [save EXCEPT !.loadout = modules, !.revision = x]
  BY <1>5, <1>19 DEF EquippedState
<1>22. f.state = [[save EXCEPT !.owned = o] EXCEPT !.loadout = modules, !.revision = x]
  <2>1. r.state = [save EXCEPT !.owned = o]
    BY <1>11, <1>20
  <2>2. r.state.revision = save.revision
    BY <1>11, <2>1 DEF Saves
  <2> QED
    BY <1>18, <1>19, <2>1, <2>2 DEF EquippedState
<1>23. save'.owned = save.owned
  BY <1>11, <1>21 DEF Saves
<1>24. Agrees(f, save')
  <2>1. [save' EXCEPT !.owned = @ \cap Offered[f.catalog]] = [save' EXCEPT !.owned = o]
    BY <1>18, <1>20, <1>23
  <2>2. [save' EXCEPT !.owned = o] = [[save EXCEPT !.loadout = modules, !.revision = x] EXCEPT !.owned = o]
    BY <1>21
  <2>3. [[save EXCEPT !.loadout = modules, !.revision = x] EXCEPT !.owned = o]
           = [[save EXCEPT !.owned = o] EXCEPT !.loadout = modules, !.revision = x]
    BY <1>11 DEF Saves
  <2> QED
    BY <1>22, <2>1, <2>2, <2>3 DEF Agrees
<1>25. Replayed(f) /\ Readable(f)
  BY <1>11, <1>17, <1>18, ListsAreRead
<1> QED
  BY <1>1, <1>2, <1>11, <1>15, <1>18, <1>23, <1>24, <1>25 DEF Tells

\* A commission tells the balance it leaves: it was replayed before it was paid.
LEMMA PaymentTells ==
  ASSUME TypeInv, GateInv, EvidenceInv, NEW g \in Gateways, NEW arc, Paying(g, arc),
         gates[g].phase = "Claiming", NEW new, new = log', Alone(new, gates[g].id)
  PROVE  Tells(End(new, gates[g].id), gates[g].client, save') /\ End(new, gates[g].id).done
<1>1. PICK s : s = gates[g].id
  OBVIOUS
<1>2. PICK client : client = gates[g].client
  OBVIOUS
<1>3. PICK d : d = [arc |-> arc, previous |-> save.fragments,
                    proofs |-> {p \in proofs : p.milestone \in Requirements[arc]}]
  OBVIOUS
<1>4. PICK row : row = Row(s, "Claimed", d)
  OBVIOUS
<1>5. /\ new = Append(log, row) /\ Readable(Replay(new, s, Len(log) + 1)) /\ arc \in Arcs
      /\ save' = [save EXCEPT !.fragments = @ + Commission]
  BY <1>1, <1>3, <1>4 DEF Paying, Granted, Id
<1>6. row \in Rows /\ row.session = s /\ row.kind = "Claimed" /\ row.data = d
  <2>1. Row(Id(g), "Claimed", [arc |-> arc, previous |-> save.fragments,
                    proofs |-> {p \in proofs : p.milestone \in Requirements[arc]}]) \in Rows
    BY <1>5, RowsAreTyped
  <2> QED
    BY <1>1, <1>3, <1>4, <2>1 DEF Id, Row
<1>7. Joined(g)
  BY DEF Paying
<1>8. /\ Grows(log, new, s) /\ Len(log) < Len(new) /\ Len(new) = Len(log) + 1
      /\ Len(log) \in Nat /\ new[Len(log) + 1] = row
  BY <1>5, <1>6, OneRowGrows
<1>9. PICK r : r = End(log, s)
  OBVIOUS
<1>10. Tells(r, client, save) /\ r.done
  BY <1>1, <1>2, <1>7, <1>8, <1>9, BeforeRow
<1>11. /\ save \in Saves /\ r \in Replays /\ Readable(r) /\ r.admitted /\ r.catalog \in Lists
       /\ r.catalog = Written(client, save.owned) /\ r.state = [save EXCEPT !.owned = @ \cap Offered[r.catalog]]
  BY <1>10 DEF Tells, Replayed, Agrees, TypeInv
<1>12. PICK f : f = End(new, s)
  OBVIOUS
<1>13. f = Applied(r, row)
  <2>1. Replay(new, s, Len(log)) = r
    <3>1. Extends(log, new) /\ Len(log) \in 0 .. Len(log)
      BY <1>8 DEF Grows
    <3> QED
      BY <1>9, <3>1, ReplayExtends DEF End
  <2>2. f = Replay(new, s, Len(log) + 1)
    BY <1>8, <1>12 DEF End
  <2> QED
    BY <1>5, <1>6, <1>8, <2>1, <2>2, ReadableBefore
<1>14. PICK x : x = save.fragments + Commission
  OBVIOUS
<1>15. PICK c : c = r.claimed \cup {d.arc}
  OBVIOUS
<1>16. f = [r EXCEPT !.state.fragments = x, !.claimed = c] /\ f \in Replays
  <2>1. /\ Applied(r, row) \in Replays
        /\ row.kind = "Claimed" => Applied(r, row) = [r EXCEPT !.state.fragments = row.data.previous + Commission,
                                                      !.claimed = @ \cup {row.data.arc}]
    BY <1>6, <1>11, Applies, Zenon
  <2>2. row.data.previous = save.fragments
    BY <1>3, <1>6
  <2>3. f = [r EXCEPT !.state.fragments = row.data.previous + Commission, !.claimed = @ \cup {row.data.arc}]
    BY <1>6, <1>13, <2>1
  <2> QED
    BY <1>6, <1>13, <1>14, <1>15, <2>1, <2>2, <2>3
<1>17. f.done /\ f.admitted /\ f.catalog = r.catalog /\ f.state = [r.state EXCEPT !.fragments = x]
  BY <1>10, <1>11, <1>16 DEF Replays
<1>18. save' = [save EXCEPT !.fragments = x]
  BY <1>5, <1>14
<1>19. Agrees(f, save')
  <2>1. PICK o : o = save.owned \cap Offered[r.catalog]
    OBVIOUS
  <2>2. f.state = [[save EXCEPT !.owned = o] EXCEPT !.fragments = x]
    BY <1>11, <1>17, <2>1
  <2>3. [[save EXCEPT !.owned = o] EXCEPT !.fragments = x] = [[save EXCEPT !.fragments = x] EXCEPT !.owned = o]
    BY <1>11 DEF Saves
  <2>4. [save EXCEPT !.fragments = x].owned = save.owned
    BY <1>11 DEF Saves
  <2> QED
    BY <1>17, <1>18, <2>1, <2>2, <2>3, <2>4 DEF Agrees
<1>20. save'.owned = save.owned
  BY <1>11, <1>18 DEF Saves
<1>21. Replayed(f) /\ Readable(f)
  BY <1>11, <1>16, <1>17, ListsAreRead
<1> QED
  BY <1>1, <1>2, <1>11, <1>12, <1>17, <1>19, <1>20, <1>21 DEF Tells

\* A handler that writes nothing changes nothing, and joins no session.
Still(g) ==
  /\ log' = log /\ save' = save
  /\ gates'[g].phase \in JoinedPhases =>
        /\ gates[g].phase \in JoinedPhases
        /\ gates'[g].phase # "Playing" => gates[g].phase # "Playing"

\* One that writes tells the save it leaves.
Told(g, new) ==
  /\ gates[g].phase # "Idle"
  /\ \E i \in Own(new, gates[g].id) : new[i].kind = "Snapshot"
  /\ save' # save => \E j \in DOMAIN new : j > Len(log) /\ new[j].kind \in Changing
  /\ Alone(new, gates[g].id) =>
        /\ Tells(End(new, gates[g].id), gates[g].client, save')
        /\ gates'[g].phase \in JoinedPhases \ {"Playing"} => End(new, gates[g].id).done

\* A joined session keeps its snapshot.
LEMMA SnapshotStays ==
  ASSUME TypeInv, GateInv, EvidenceInv, NEW g \in Gateways, Joined(g), NEW new, Grows(log, new, gates[g].id)
  PROVE  \E i \in Own(new, gates[g].id) : new[i].kind = "Snapshot"
<1>1. gates[g].id \in 1 .. sessions /\ Own(log, gates[g].id) # {}
  <2>1. gates[g].id \in 0 .. sessions /\ gates[g].id # 0 /\ sessions \in Nat
    BY DEF GateInv, TypeInv, Joined, JoinedPhases
  <2> QED
    BY <2>1 DEF GateInv
<1>2. PICK i \in Own(log, gates[g].id) : log[i].kind = "Snapshot"
  BY <1>1 DEF EvidenceInv
<1>3. i \in DOMAIN new /\ new[i] = log[i]
  BY <1>2, GrownRows DEF Own
<1> QED
  BY <1>2, <1>3 DEF Own

\* A row that was added.
LEMMA OneRowAdded ==
  ASSUME TypeInv, NEW row \in Rows, NEW new, new = Append(log, row)
  PROVE  \E j \in DOMAIN new : j > Len(log) /\ new[j] = row
<1>1. Extends(log, new) /\ Len(new) = Len(log) + 1 /\ new[Len(log) + 1] = row
  BY OneMore DEF TypeInv
<1>2. Len(log) + 1 \in DOMAIN new /\ Len(log) + 1 > Len(log)
  BY <1>1 DEF Extends
<1> QED
  BY <1>1, <1>2

\* Every handler does one or the other.
LEMMA HandlersTell ==
  ASSUME TypeInv, GateInv, EvidenceInv, NEW g \in Gateways, Handles(g), NEW new, new = log'
  PROVE  Still(g) \/ Told(g, new)
<1>0. gates \in [Gateways -> GateStates]
  BY DEF TypeInv
<1>g. Grows(log, new, gates[g].id)
  BY HandlersWrite, HandlersExtend DEF Grows, Id
<1>w. \A s : Becomes(g, s) => gates'[g] = s
  BY <1>0 DEF Becomes
<1>1. CASE \E client \in Clients : Handshake(g, client)
  <2>1. PICK client \in Clients : Handshake(g, client)
    BY <1>1
  <2>2. /\ gates'[g] = [gates[g] EXCEPT !.id = sessions + 1, !.phase = "Admitted", !.client = client]
        /\ log' = log /\ save' = save
    BY <1>w, <2>1 DEF Handshake, store
  <2>3. gates'[g].phase = "Admitted"
    BY <1>0, <2>2 DEF GateStates
  <2> QED
    BY <2>2, <2>3 DEF Still, JoinedPhases
<1>2. CASE Join(g)
  <2>1. /\ gates[g].phase = "Admitted" /\ save' = save
        /\ new = Append(log, Row(Id(g), "Snapshot", Evidence(gates[g].client, save)))
    BY <1>2 DEF Join
  <2>2. PICK row \in Rows : row = Row(Id(g), "Snapshot", Evidence(gates[g].client, save))
    BY RowsAreTyped
  <2>3. PICK j \in DOMAIN new : j > Len(log) /\ new[j] = row
    BY <2>1, <2>2, OneRowAdded
  <2>4. row.kind = "Snapshot" /\ row.session = gates[g].id
    BY <2>2 DEF Row, Id
  <2>5. gates'[g].phase \in {"Playing", "Idle"}
    <3>1. gates'[g] = [gates[g] EXCEPT !.phase = "Playing"] \/ gates'[g] = Idle
      BY <1>2, <1>w DEF Join
    <3> QED
      BY <1>0, <3>1 DEF GateStates, Idle
  <2>6. j \in Own(new, gates[g].id) /\ new[j].kind = "Snapshot"
    BY <2>3, <2>4 DEF Own
  <2>7. Tells(End(new, gates[g].id), gates[g].client, save')
    BY <1>2, JoinTells
  <2> QED
    BY <2>1, <2>5, <2>6, <2>7 DEF Told, JoinedPhases
<1>3. CASE Leave(g)
  <2>1. gates'[g] = Idle /\ log' = log /\ save' = save
    BY <1>3, <1>w DEF Leave, Reset, store
  <2> QED
    BY <2>1 DEF Still, Idle, JoinedPhases
<1>4. CASE Show(g)
  <2>1. gates'[g] = gates[g] /\ log' = log /\ save' = save
    BY <1>4, <1>w DEF Show, Refresh
  <2> QED
    BY <2>1 DEF Still
<1>5. CASE Tell(g)
  <2>1. /\ gates[g].phase = "Telling" /\ log' = log /\ save' = save
    BY <1>5 DEF Tell, Refresh
  <2> QED
    BY <2>1 DEF Still, JoinedPhases
<1>6. CASE \E arc \in Wishes : Claim(g, arc)
  <2>1. /\ gates[g].phase = "Complete" /\ log' = log /\ save' = save
    BY <1>6 DEF Claim, Refresh
  <2> QED
    BY <2>1 DEF Still, JoinedPhases
<1>7. CASE Grant(g)
  <2>1. gates[g].phase = "Claiming" /\ gates[g].arc \in Arcs
    BY <1>7 DEF Grant, GateInv
  <2>2. CASE UNCHANGED <<save, log, claims>>
    BY <2>1, <2>2 DEF Still, JoinedPhases
  <2>3. CASE /\ Granted(g, gates[g].arc) /\ Unclaimed(gates[g].arc)
             /\ Requirements[gates[g].arc] \subseteq Proven(proofs)
    <3>1. Paying(g, gates[g].arc) /\ Joined(g)
      BY <1>7, <2>1, <2>3 DEF Grant, Paying, Joined, JoinedPhases
    <3>2. PICK row : row = Row(Id(g), "Claimed", [arc |-> gates[g].arc, previous |-> save.fragments,
                       proofs |-> {p \in proofs : p.milestone \in Requirements[gates[g].arc]}])
      OBVIOUS
    <3>3. row \in Rows /\ row.kind = "Claimed" /\ new = Append(log, row)
      BY <2>1, <2>3, <3>2, RowsAreTyped DEF Granted, Row
    <3>4. PICK j \in DOMAIN new : j > Len(log) /\ new[j] = row
      BY <3>3, OneRowAdded
    <3>5. Alone(new, gates[g].id) => /\ Tells(End(new, gates[g].id), gates[g].client, save')
                                     /\ End(new, gates[g].id).done
      BY <2>1, <3>1, PaymentTells
    <3>6. \E i \in Own(new, gates[g].id) : new[i].kind = "Snapshot"
      BY <1>g, <3>1, SnapshotStays
    <3> QED
      BY <2>1, <3>3, <3>4, <3>5, <3>6 DEF Told, Changing
  <2> QED
    BY <1>7, <2>2, <2>3 DEF Grant
<1>8. CASE \E reached \in Missions : Complete(g, reached)
  <2>1. PICK reached \in Missions : Complete(g, reached)
    BY <1>8
  <2>2. Joined(g) /\ gates[g].phase # "Idle"
    BY <2>1 DEF Complete, Joined, JoinedPhases
  <2>3. Alone(new, gates[g].id) => /\ Tells(End(new, gates[g].id), gates[g].client, save')
                                   /\ End(new, gates[g].id).done
    BY <1>g, <2>1, FinishTells
  <2>4. \E i \in Own(new, gates[g].id) : new[i].kind = "Snapshot"
    BY <1>g, <2>2, SnapshotStays
  <2>5. \E j \in DOMAIN new : j > Len(log) /\ new[j].kind \in Changing
    <3>1. PICK a : a = Row(Id(g), "Completed", reached)
      OBVIOUS
    <3>2. PICK b : b = Row(Id(g), "Loot", LootTotal(save.fragments))
      OBVIOUS
    <3>3. PICK two : two = << a, b >>
      OBVIOUS
    <3>4. a \in Rows /\ b \in Rows /\ b.kind = "Loot"
      BY <3>1, <3>2, RowsAreTyped DEF Row
    <3>5. Joins(new, log, two, a, b)
      <4>1. Two(two, a, b)
        BY <3>3, <3>4 DEF Two
      <4>2. new = log \o two
        BY <2>1, <3>1, <3>2, <3>3 DEF Complete
      <4> QED
        BY <4>1, <4>2 DEF Joins, TypeInv
    <3>6. Extends(log, new) /\ Len(new) = Len(log) + 2 /\ new[Len(log) + 2] = b
      BY <3>5, TwoMore
    <3>7. Len(log) + 2 \in DOMAIN new /\ Len(log) + 2 > Len(log)
      BY <3>6 DEF Extends
    <3> QED
      BY <3>4, <3>6, <3>7 DEF Changing
  <2> QED
    BY <2>2, <2>3, <2>4, <2>5 DEF Told
<1>9. CASE \E op \in CombineIds, m \in Wanted : Combine(g, op, m)
  <2>1. PICK op \in CombineIds, m \in Wanted : Combine(g, op, m)
    BY <1>9
  <2>2. m \in All /\ gates[g].phase = "Complete" /\ gates'[g] = gates[g] /\ Joined(g)
    BY <1>w, <2>1, LoadoutAssumption DEF Combine, MayCombine, Joined, JoinedPhases
  <2>3. CASE ~ (\A c \in combines : c.op # op)
    BY <2>1, <2>2, <2>3 DEF Combine, Still
  <2>4. CASE \A c \in combines : c.op # op
    <3>1. PICK e : e = Evidence(gates[g].client, save)
      OBVIOUS
    <3>2. PICK row : row = Row(Id(g), "Combined", Change(e, [e EXCEPT !.state = CombinedState(e.state, m)]))
      OBVIOUS
    <3>3. Affords(m) /\ new = Append(log, row)
      BY <2>1, <2>4, <3>1, <3>2 DEF Combine
    <3>4. row \in Rows /\ row.kind = "Combined"
      BY <2>2, <3>1, <3>2, <3>3, RowsAreTyped DEF Row
    <3>5. PICK j \in DOMAIN new : j > Len(log) /\ new[j] = row
      BY <3>3, <3>4, OneRowAdded
    <3>6. Alone(new, gates[g].id) => /\ Tells(End(new, gates[g].id), gates[g].client, save')
                                     /\ End(new, gates[g].id).done
      BY <2>1, <2>2, <2>4, CombineTells
    <3>7. \E i \in Own(new, gates[g].id) : new[i].kind = "Snapshot"
      BY <1>g, <2>2, SnapshotStays
    <3> QED
      BY <2>2, <3>4, <3>5, <3>6, <3>7 DEF Told, Changing
  <2> QED
    BY <2>3, <2>4
<1>10. CASE \E op \in LoadoutIds, n \in 0 .. save.revision, modules \in SUBSET save.owned :
              SetLoadout(g, op, n, modules)
  <2>1. PICK op \in LoadoutIds, n \in 0 .. save.revision, modules \in SUBSET save.owned :
              SetLoadout(g, op, n, modules)
    BY <1>10
  <2>2. modules \in SUBSET All /\ gates[g].phase = "Complete" /\ gates'[g] = gates[g] /\ Joined(g)
    BY <1>w, <2>1 DEF SetLoadout, MayEquip, Joined, JoinedPhases, TypeInv, Saves
  <2>3. CASE ~ (\A c \in changes : c.op # op)
    BY <2>1, <2>2, <2>3 DEF SetLoadout, Still
  <2>4. CASE \A c \in changes : c.op # op
    <3>1. PICK e : e = Evidence(gates[g].client, save)
      OBVIOUS
    <3>2. PICK row : row = Row(Id(g), "Equipped", Change(e, [e EXCEPT !.state = EquippedState(e.state, modules)]))
      OBVIOUS
    <3>3. new = Append(log, row)
      BY <2>1, <2>4, <3>1, <3>2 DEF SetLoadout
    <3>4. row \in Rows /\ row.kind = "Equipped"
      BY <2>2, <3>1, <3>2, RowsAreTyped DEF Row
    <3>5. PICK j \in DOMAIN new : j > Len(log) /\ new[j] = row
      BY <3>3, <3>4, OneRowAdded
    <3>6. Alone(new, gates[g].id) => /\ Tells(End(new, gates[g].id), gates[g].client, save')
                                     /\ End(new, gates[g].id).done
      BY <2>1, <2>2, <2>4, EquipTells
    <3>7. \E i \in Own(new, gates[g].id) : new[i].kind = "Snapshot"
      BY <1>g, <2>2, SnapshotStays
    <3> QED
      BY <2>2, <3>4, <3>5, <3>6, <3>7 DEF Told, Changing
  <2> QED
    BY <2>3, <2>4
<1> QED
  BY <1>1, <1>2, <1>3, <1>4, <1>5, <1>6, <1>7, <1>8, <1>9, <1>10 DEF Handles

\* A handler keeps the evidence of every session.
LEMMA EvidenceKept ==
  ASSUME TypeInv, GateInv, EvidenceInv, NEW g \in Gateways, Handles(g)
  PROVE  EvidenceInv'
<1>1. PICK s : Moves(g, s)
  BY HandlersMove
<1>2. PICK new : new = log'
  OBVIOUS
<1>3. PICK id : id = gates[g].id
  OBVIOUS
<1>4. Grows(log, new, id)
  BY <1>2, <1>3, HandlersWrite, HandlersExtend DEF Grows, Id
<1>5. \A h \in Gateways : gates'[h] = IF h = g THEN s ELSE gates[h]
  BY <1>1 DEF Moves, TypeInv
<1>6. /\ s.phase \in JoinedPhases => s.id = id /\ s.client = gates[g].client
      /\ sessions \in Nat /\ sessions' \in Nat /\ sessions <= sessions'
  BY <1>1, <1>3 DEF Moves, TypeInv
<1>7. /\ \A i \in DOMAIN log : log[i].session \in 1 .. sessions
      /\ \A h \in Gateways : h # g /\ gates[h].id = id => id = 0
      /\ \A h \in Gateways : gates[h].phase # "Idle" => gates[h].id \in 1 .. sessions
  <2>1. \A h \in Gateways : gates[h].phase # "Idle" => gates[h].id # 0 /\ gates[h].id \in 0 .. sessions
    BY DEF GateInv
  <2> QED
    BY <1>3, <1>6, <2>1 DEF GateInv
<1>8. \A x : Own(log, x) # {} => x \in 1 .. sessions
  BY <1>7 DEF Own
<1>9. /\ \A x \in 1 .. sessions : Own(log, x) # {} => \E i \in Own(log, x) : log[i].kind = "Snapshot"
      /\ \A x \in 1 .. sessions : Own(log, x) # {} /\ Alone(log, x) =>
            /\ Readable(End(log, x)) /\ End(log, x).admitted
            /\ Newest(log, x) => Agrees(End(log, x), save)
      /\ \A h \in Gateways : gates[h].phase \in JoinedPhases /\ Alone(log, gates[h].id) =>
            /\ gates[h].phase # "Playing" => End(log, gates[h].id).done
            /\ Newest(log, gates[h].id) => End(log, gates[h].id).catalog = Written(gates[h].client, save.owned)
  BY DEF EvidenceInv, Joined
<1>10. CASE Still(g)
  <2>1. new = log /\ save' = save
    BY <1>2, <1>10 DEF Still
  <2>2. gates'[g].phase \in JoinedPhases =>
           /\ gates[g].phase \in JoinedPhases /\ gates'[g].id = gates[g].id /\ gates'[g].client = gates[g].client
           /\ gates'[g].phase # "Playing" => gates[g].phase # "Playing"
    BY <1>3, <1>5, <1>6, <1>10 DEF Still
  <2>3. \A h \in Gateways : gates'[h].phase \in JoinedPhases /\ Alone(new, gates'[h].id) =>
           /\ gates'[h].phase # "Playing" => End(new, gates'[h].id).done
           /\ Newest(new, gates'[h].id) => End(new, gates'[h].id).catalog = Written(gates'[h].client, save'.owned)
    BY <1>5, <1>9, <2>1, <2>2
  <2>4. \A x : Own(new, x) # {} => \E i \in Own(new, x) : new[i].kind = "Snapshot"
    BY <1>8, <1>9, <2>1
  <2>5. \A x : Own(new, x) # {} /\ Alone(new, x) =>
            /\ Readable(End(new, x)) /\ End(new, x).admitted
            /\ Newest(new, x) => Agrees(End(new, x), save')
    BY <1>8, <1>9, <2>1
  <2> QED
    BY <1>2, <2>3, <2>4, <2>5 DEF EvidenceInv, Joined
<1>11. CASE Told(g, new)
  <2>1. /\ \E i \in Own(new, id) : new[i].kind = "Snapshot"
        /\ save' # save => \E j \in DOMAIN new : j > Len(log) /\ new[j].kind \in Changing
        /\ Alone(new, id) => /\ Tells(End(new, id), gates[g].client, save')
                             /\ gates'[g].phase \in JoinedPhases \ {"Playing"} => End(new, id).done
        /\ id \in 1 .. sessions
    BY <1>3, <1>7, <1>11 DEF Told
  <2>2. ASSUME NEW x, x # id
        PROVE  /\ Own(new, x) = Own(log, x) /\ End(new, x) = End(log, x)
               /\ Alone(new, x) => Alone(log, x)
               /\ Newest(new, x) => Newest(log, x) /\ save' = save
    <3>1. /\ Own(new, x) = Own(log, x) /\ End(new, x) = End(log, x)
          /\ Alone(new, x) => Alone(log, x)
          /\ Newest(new, x) => Newest(log, x)
          /\ Newest(new, x) => \A j \in DOMAIN new : j > Len(log) => new[j].kind \notin Changing
      BY <1>4, <2>2, Elsewhere
    <3> QED
      BY <2>1, <3>1
  <2>3. ASSUME NEW x, Own(new, x) # {} PROVE \E i \in Own(new, x) : new[i].kind = "Snapshot"
    <3>1. CASE x = id
      BY <2>1, <3>1
    <3>2. CASE x # id
      <4>1. PICK i \in Own(log, x) : log[i].kind = "Snapshot"
        BY <1>8, <1>9, <2>2, <2>3, <3>2
      <4>2. i \in Own(new, x) /\ new[i] = log[i]
        BY <1>4, <2>2, <3>2, <4>1, GrownRows DEF Own
      <4> QED
        BY <4>1, <4>2
    <3> QED
      BY <3>1, <3>2
  <2>4. ASSUME NEW x, Own(new, x) # {}, Alone(new, x)
        PROVE  /\ Readable(End(new, x)) /\ End(new, x).admitted
               /\ Newest(new, x) => Agrees(End(new, x), save')
    <3>1. CASE x = id
      BY <2>1, <2>4, <3>1 DEF Tells
    <3>2. CASE x # id
      BY <1>8, <1>9, <2>2, <2>4, <3>2
    <3> QED
      BY <3>1, <3>2
  <2>5. ASSUME NEW h \in Gateways, gates'[h].phase \in JoinedPhases, Alone(new, gates'[h].id)
        PROVE  /\ gates'[h].phase # "Playing" => End(new, gates'[h].id).done
               /\ Newest(new, gates'[h].id) =>
                     End(new, gates'[h].id).catalog = Written(gates'[h].client, save'.owned)
    <3>1. CASE h = g
      <4>1. gates'[g] = s
        BY <1>5, <3>1
      <4>2. gates'[g].id = id /\ gates'[g].client = gates[g].client
        BY <1>6, <2>5, <3>1, <4>1
      <4> QED
        BY <2>1, <2>5, <3>1, <4>2 DEF Tells
    <3>2. CASE h # g
      <4>1. gates'[h] = gates[h] /\ gates[h].phase \in JoinedPhases
        BY <1>5, <2>5, <3>2
      <4>2. gates[h].id # id
        BY <1>7, <2>1, <3>2
      <4> QED
        BY <1>9, <2>2, <2>5, <4>1, <4>2
    <3> QED
      BY <3>1, <3>2
  <2> QED
    BY <1>2, <2>3, <2>4, <2>5 DEF EvidenceInv, Joined
<1> QED
  BY <1>2, <1>10, <1>11, HandlersTell

\* Every behaviour keeps the evidence.
LEMMA AlwaysEvident == Spec => [](Sound /\ EvidenceInv)
<1>1. Init => EvidenceInv
  <2> SUFFICES ASSUME Init PROVE EvidenceInv
    OBVIOUS
  <2>1. sessions = 0 /\ \A g \in Gateways : gates[g].phase = "Idle"
    BY DEF Init, Idle
  <2>2. 1 .. sessions = {}
    BY <2>1
  <2> QED
    BY <2>1, <2>2 DEF EvidenceInv, Joined, JoinedPhases
<1>2. ASSUME Sound, EvidenceInv, [Next]_vars PROVE EvidenceInv'
  <2>1. CASE Next
    <3>1. PICK g \in Gateways : Handles(g)
      BY <2>1, NextHandles
    <3> QED
      BY <1>2, <3>1, EvidenceKept DEF Sound
  <2>2. CASE UNCHANGED vars
    <3>1. save' = save /\ log' = log /\ gates' = gates /\ sessions' = sessions
      BY <2>2 DEF vars, store
    <3> QED
      BY <1>2, <3>1 DEF EvidenceInv, Joined
  <2> QED
    BY <1>2, <2>1, <2>2
<1>3. Sound /\ EvidenceInv /\ [Next]_vars => EvidenceInv'
  BY <1>2
<1> QED
  BY <1>1, <1>3, SoundAtFirst, SoundKept, PTL DEF Spec

\* What the rows of a session tell by their least and their greatest number.
LEMMA SpanIs ==
  ASSUME TypeInv, NEW s, NEW rows, rows = RowsOf(s), rows # {}
  PROVE  /\ rows = Own(log, s)
         /\ (\A i \in DOMAIN log : i > Min(rows) /\ log[i].session # s /\ ChangesSave(i) => i > Max(rows))
               => Alone(log, s)
         /\ (\A i \in DOMAIN log : ChangesSave(i) => i <= Max(rows)) => Newest(log, s)
<1>1. rows = Own(log, s)
  BY DEF RowsOf, Own
<1>2. Len(log) \in Nat /\ DOMAIN log = 1 .. Len(log)
  BY LenProperties DEF TypeInv
<1>3. rows \subseteq 1 .. Len(log) /\ rows \subseteq Nat
  BY <1>1, <1>2 DEF Own
<1>4. PICK a : a = Min(rows)
  OBVIOUS
<1>5. PICK b : b = Max(rows)
  OBVIOUS
<1>6. a \in rows /\ \A x \in rows : a <= x
  BY <1>3, <1>4, MinIs
<1>7. b \in rows /\ \A x \in rows : x <= b
  BY <1>2, <1>3, <1>5, MaxIs
<1>8. \A i : ChangesSave(i) <=> log[i].kind \in Changing
  BY DEF ChangesSave, Changing
<1>9. ASSUME \A i \in DOMAIN log : i > a /\ log[i].session # s /\ ChangesSave(i) => i > b
      PROVE  Alone(log, s)
  <2> SUFFICES ASSUME NEW i \in rows, NEW k \in rows, NEW j \in DOMAIN log,
                      i < j, j < k, log[j].session # s, log[j].kind \in Changing
               PROVE  FALSE
    BY <1>1 DEF Alone
  <2>1. a \in Nat /\ b \in Nat /\ i \in Nat /\ j \in Nat /\ k \in Nat /\ a <= i /\ k <= b
    BY <1>2, <1>3, <1>6, <1>7
  <2>2. j > a /\ ~ (j > b)
    BY <2>1
  <2> QED
    BY <1>8, <1>9, <2>2
<1>10. ASSUME \A i \in DOMAIN log : ChangesSave(i) => i <= b PROVE Newest(log, s)
  BY <1>1, <1>7, <1>8, <1>10 DEF Newest
<1> QED
  BY <1>1, <1>4, <1>5, <1>9, <1>10

\* A session loses its evidence only to another that changes the save while it lasts: alone,
\* all its rows are read and the replay arrives at the stored save, for any number of gateways,
\* sessions and catalogs (replay/src/lib.rs reconstruct, persistence/src/lib.rs
\* validate_module_mutation_replay_context, acquisition.rs validate_claim_context).
THEOREM EvidenceHolds == Spec => []EvidenceBreaksOnlyByOverlap
<1>1. ASSUME Sound, EvidenceInv PROVE EvidenceBreaksOnlyByOverlap
  <2> DEFINE alone(s) == \A i \in DOMAIN log : i > Min(RowsOf(s)) /\ log[i].session # s /\ ChangesSave(i)
                                                 => i > Max(RowsOf(s))
             last(s) == \A i \in DOMAIN log : ChangesSave(i) => i <= Max(RowsOf(s))
             Arrives(s) == LET r == Replay(log, s, Len(log))
                           IN  /\ r.state.fragments = save.fragments
                               /\ r.state.loadout = save.loadout /\ r.state.revision = save.revision
                               /\ r.state.owned = save.owned \cap Offered[r.catalog]
  <2>1. TypeInv
    BY <1>1 DEF Sound
  <2>2. ASSUME NEW s \in 1 .. sessions, RowsOf(s) # {}, alone(s)
        PROVE  Readable(Replay(log, s, Len(log))) /\ (last(s) => Arrives(s))
    <3>1. /\ RowsOf(s) = Own(log, s) /\ Alone(log, s) /\ (last(s) => Newest(log, s))
      BY <2>1, <2>2, SpanIs
    <3>2. PICK r : r = Replay(log, s, Len(log))
      OBVIOUS
    <3>3. Readable(r) /\ (last(s) => Agrees(r, save))
      BY <1>1, <2>2, <3>1, <3>2 DEF EvidenceInv, End
    <3>4. save \in Saves
      BY <2>1 DEF TypeInv
    <3>5. Agrees(r, save) => /\ r.state.fragments = save.fragments
                             /\ r.state.loadout = save.loadout /\ r.state.revision = save.revision
                             /\ r.state.owned = save.owned \cap Offered[r.catalog]
      BY <3>4 DEF Agrees, Saves
    <3> QED
      BY <3>2, <3>3, <3>5
  <2> QED
    BY <2>2 DEF EvidenceBreaksOnlyByOverlap
<1>2. Sound /\ EvidenceInv => EvidenceBreaksOnlyByOverlap
  BY <1>1
<1> QED
  BY <1>2, AlwaysEvident, PTL
=============================================================================
