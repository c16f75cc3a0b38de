------------------------- MODULE Substitution_proofs -------------------------
(***************************************************************************)
(* The search for the substitutes, proved for every table of answers, every *)
(* bench and every mode: it fields the best eleven it may, although it      *)
(* stops at the first that costs what its last tier can cost at the least.  *)
(***************************************************************************)
EXTENDS Substitution, TLAPS

-----------------------------------------------------------------------------
(* The tiers.                                                               *)

PlanOK ==
  /\ Last \in {2, 3}
  /\ \A k \in 1..Last :
       /\ tier_plan[k].first \in Module /\ tier_plan[k].last \in Module
       /\ tier_plan[k].first <= tier_plan[k].last
       /\ (tier_plan[k].costly <=> k = Last)
       /\ Of(k) \subseteq Allowed
  /\ Of(Last) = Allowed /\ 1 \in Allowed
  \* What may be fielded for a malus has been tried without.
  /\ \A m \in Allowed : \E k \in 1..(Last - 1) : m \in Of(k)
  \* BASIC tries the module submitted before the others; no other mode goes back to a module.
  /\ Of(1) = IF Mode = "basic" THEN {1} ELSE Allowed
  /\ Last = 3 => Mode = "basic" /\ Of(2) = 2..Modules

\* Two tiers over the first n modules, without and with a malus.
LEMMA TwoTiers ==
  ASSUME NEW n \in Module, Modules \in Nat, Last = 2,
         tier_plan[1] = [first |-> 1, last |-> n, costly |-> FALSE],
         tier_plan[2] = [first |-> 1, last |-> n, costly |-> TRUE],
         Allowed = 1..n
  PROVE  \A k \in 1..Last : /\ tier_plan[k].first = 1 /\ tier_plan[k].last = n
                            /\ (tier_plan[k].costly <=> k = Last)
                            /\ Of(k) = Allowed
<1>1. tier_plan[1].first = 1 /\ tier_plan[1].last = n /\ ~tier_plan[1].costly
  OBVIOUS
<1>2. tier_plan[2].first = 1 /\ tier_plan[2].last = n /\ tier_plan[2].costly
  OBVIOUS
<1>3. Of(1) = Allowed /\ Of(2) = Allowed
  BY <1>1, <1>2 DEF Of
<1>4. \A k \in 1..Last : k = 1 \/ k = 2
  OBVIOUS
<1>5. QED
  BY <1>1, <1>2, <1>3, <1>4

\* The tiers of each mode are what _best_in_tier relies on.
LEMMA PlanIsSound == ASSUME SearchAssumption PROVE PlanOK
<1>0. Modules \in Nat /\ 1 \in Module /\ Modules \in Module /\ Mode \in {"basic", "easy", "master"}
  BY DEF SearchAssumption, Module
<1>1. ASSUME NEW n \in Module,
             tier_plan = <<Tier(1, n, FALSE), Tier(1, n, TRUE)>>, Allowed = 1..n,
             Mode = "basic" => n = 1
      PROVE  PlanOK
  <2>1. /\ Last = 2
        /\ \A k \in 1..Last : /\ tier_plan[k].first = 1 /\ tier_plan[k].last = n
                             /\ (tier_plan[k].costly <=> k = Last)
                             /\ Of(k) = Allowed
    <3>1. /\ Last = 2
          /\ tier_plan[1] = [first |-> 1, last |-> n, costly |-> FALSE]
          /\ tier_plan[2] = [first |-> 1, last |-> n, costly |-> TRUE]
      BY <1>1 DEF Tier, Last
    <3>2. QED
      BY <1>0, <1>1, <3>1, TwoTiers
  <2>2. 1 <= n /\ 1 \in Allowed
    BY <1>1 DEF Module
  <2>3. 1 \in 1..Last /\ Last \in 1..Last /\ 1 \in 1..(Last - 1)
    BY <2>1
  <2>4. Of(1) = IF Mode = "basic" THEN {1} ELSE Allowed
    BY <1>1, <2>1, <2>2, <2>3
  <2>5. \A m \in Allowed : \E k \in 1..(Last - 1) : m \in Of(k)
    BY <2>1, <2>3
  <2>6. \A k \in 1..Last :
          /\ tier_plan[k].first \in Module /\ tier_plan[k].last \in Module
          /\ tier_plan[k].first <= tier_plan[k].last
          /\ (tier_plan[k].costly <=> k = Last)
          /\ Of(k) \subseteq Allowed
    BY <1>0, <1>1, <2>1, <2>2 DEF Module
  <2>7. QED
    BY <2>1, <2>2, <2>3, <2>4, <2>5, <2>6 DEF PlanOK
<1>2. CASE Mode = "easy"
  <2>1. tier_plan = <<Tier(1, 1, FALSE), Tier(1, 1, TRUE)>>
    BY <1>2 DEF tier_plan
  <2>2. Allowed = 1..1
    BY <1>2 DEF Allowed
  <2>3. QED
    BY <1>0, <1>1, <1>2, <2>1, <2>2
<1>3. CASE Mode = "master"
  <2>1. tier_plan = <<Tier(1, Modules, FALSE), Tier(1, Modules, TRUE)>>
    BY <1>3 DEF tier_plan
  <2>2. Allowed = 1..Modules
    BY <1>3 DEF Allowed, Module
  <2>3. QED
    BY <1>0, <1>1, <1>3, <2>1, <2>2
<1>4. CASE Mode = "basic" /\ Modules = 1
  <2>1. tier_plan = <<Tier(1, 1, FALSE), Tier(1, 1, TRUE)>>
    BY <1>4 DEF tier_plan
  <2>2. Allowed = 1..1
    BY <1>4 DEF Allowed, Module
  <2>3. QED
    BY <1>0, <1>1, <1>4, <2>1, <2>2
<1>5. CASE Mode = "basic" /\ Modules > 1
  <2>1. tier_plan = <<Tier(1, 1, FALSE), Tier(2, Modules, FALSE), Tier(1, Modules, TRUE)>>
    <3>1. Mode = "basic" /\ Modules # 1 /\ Mode # "easy" /\ Mode # "master"
      BY <1>0, <1>5
    <3>2. QED
      BY <3>1 DEF tier_plan
  <2>2. Last = 3
    BY <2>1 DEF Last
  <2>3. /\ tier_plan[1] = [first |-> 1, last |-> 1, costly |-> FALSE]
        /\ tier_plan[2] = [first |-> 2, last |-> Modules, costly |-> FALSE]
        /\ tier_plan[3] = [first |-> 1, last |-> Modules, costly |-> TRUE]
    BY <2>1 DEF Tier
  <2>10. /\ tier_plan[1].first = 1 /\ tier_plan[1].last = 1 /\ ~tier_plan[1].costly
         /\ tier_plan[2].first = 2 /\ tier_plan[2].last = Modules /\ ~tier_plan[2].costly
         /\ tier_plan[3].first = 1 /\ tier_plan[3].last = Modules /\ tier_plan[3].costly
    <3>1. tier_plan[1].first = 1 /\ tier_plan[1].last = 1 /\ ~tier_plan[1].costly
      BY <2>3
    <3>2. tier_plan[2].first = 2 /\ tier_plan[2].last = Modules /\ ~tier_plan[2].costly
      BY <2>3
    <3>3. tier_plan[3].first = 1 /\ tier_plan[3].last = Modules /\ tier_plan[3].costly
      BY <2>3
    <3>4. QED
      BY <3>1, <3>2, <3>3
  <2>4. Allowed = 1..Modules /\ Module = 1..Modules
    BY <1>5 DEF Allowed, Module
  <2>5. Of(1) = {1} /\ Of(2) = 2..Modules /\ Of(3) = 1..Modules
    BY <1>0, <2>3 DEF Of
  <2>6. \A k \in 1..Last : k = 1 \/ k = 2 \/ k = 3
    BY <2>2
  <2>7. \A m \in Allowed : \E k \in 1..(Last - 1) : m \in Of(k)
    BY <1>0, <2>2, <2>4, <2>5
  <2>8. \A k \in 1..Last :
          /\ tier_plan[k].first \in Module /\ tier_plan[k].last \in Module
          /\ tier_plan[k].first <= tier_plan[k].last
          /\ (tier_plan[k].costly <=> k = Last)
          /\ Of(k) \subseteq Allowed
    <3> TAKE k \in 1..Last
    <3>1. CASE k = 1
      BY <1>0, <1>5, <2>2, <2>10, <2>4, <2>5, <3>1
    <3>2. CASE k = 2
      BY <1>0, <1>5, <2>2, <2>10, <2>4, <2>5, <3>2
    <3>3. CASE k = 3
      BY <1>0, <1>5, <2>2, <2>10, <2>4, <2>5, <3>3
    <3>4. QED
      BY <2>6, <3>1, <3>2, <3>3
  <2>9. QED
    BY <1>0, <1>5, <2>2, <2>4, <2>5, <2>7, <2>8 DEF PlanOK
<1>6. QED
  BY <1>0, <1>2, <1>3, <1>4, <1>5 DEF Module

\* Only the last tier may cost a malus, and by then the free ones have been through its
\* modules (_with_floors).
LEMMA Floors ==
  ASSUME SearchAssumption
  PROVE  \A k \in 1..Last : floor(k) = IF k = Last THEN 1 ELSE 0
<1>1. PlanOK
  BY PlanIsSound
<1>2. ASSUME NEW k \in 1..Last, k # Last PROVE floor(k) = 0
  BY <1>1, <1>2 DEF PlanOK, floor
<1>3. Of(Last) \subseteq scanned_free(Last)
  <2> SUFFICES ASSUME NEW m \in Of(Last) PROVE m \in scanned_free(Last)
    OBVIOUS
  <2>1. PICK k \in 1..(Last - 1) : m \in Of(k)
    BY <1>1 DEF PlanOK
  <2>2. k \in 1..Last /\ k # Last
    BY <1>1, <2>1 DEF PlanOK
  <2>3. ~tier_plan[k].costly
    BY <1>1, <2>2 DEF PlanOK
  <2>4. QED
    BY <2>1, <2>3 DEF scanned_free
<1>4. floor(Last) = 1
  <2>1. Last \in 1..Last
    BY <1>1 DEF PlanOK
  <2>2. tier_plan[Last].costly
    BY <1>1, <2>1 DEF PlanOK
  <2>3. QED
    BY <1>3, <2>2 DEF floor
<1>5. QED
  BY <1>2, <1>4

-----------------------------------------------------------------------------
(* The invariant of the search.                                             *)

Shape ==
  /\ eleven \in Absence
  /\ eleven.keeperOut => eleven.missing > 0
  /\ eleven.reserve => eleven.bench > 0
  /\ orders \in [Size -> 1..MaxOrder] /\ orders[0] = 1
  /\ malus \in [Size -> [1..MaxOrder -> [Module -> 0..NoFit]]]
  /\ malus[0][1][1] < NoFit
  /\ pc \in {"keeper", "stands", "search", "fielded"}
  /\ entered \in {0, 1} /\ largest \in Size /\ size \in Size
  /\ tier \in 1..Last /\ comb \in Nat /\ mod \in Module
  /\ best \in [comb : Nat, mod : Nat, malus : 0..NoFit]

\* What the tier makes of a place.
CostAt(c, m) == Cost(tier, malus[size][c][m])
Before(c, m, d, n) == c < d \/ (c = d /\ m < n)
Combs == 1..orders[size]

\* The place the tier would answer with, had it to answer now.
IsBest(b) ==
  /\ b.comb \in Combs /\ b.mod \in Of(tier)
  /\ CostAt(b.comb, b.mod) = b.malus /\ b.malus < NoFit
  /\ \A c \in Combs, m \in Of(tier) :
       Before(c, m, b.comb, b.mod) => CostAt(c, m) > b.malus

AtPlace == comb \in Combs /\ mod \in Of(tier) /\ size <= largest
LargerFail == \A s \in (size + 1)..largest : CostsAtLeast(s, NoFit)
EarlierFail == \A k \in 1..(tier - 1) : \A c \in Combs : \A m \in Of(k) :
                 Cost(k, malus[size][c][m]) = NoFit
Scanned == \A c \in Combs, m \in Of(tier) :
             Before(c, m, comb, mod) => CostAt(c, m) >= best.malus

Searching ==
  pc = "search" =>
    /\ AtPlace /\ LargerFail /\ EarlierFail /\ Scanned
    /\ best = Nothing \/ IsBest(best)
    /\ best.malus > floor(tier)

Fielded ==
  pc = "fielded" =>
    /\ size <= largest /\ LargerFail /\ EarlierFail
    /\ IsBest(best)
    /\ \/ best.malus <= floor(tier)
       \/ \A c \in Combs, m \in Of(tier) : CostAt(c, m) >= best.malus

Counted ==
  pc \in {"search", "fielded"} =>
    /\ size <= largest
    /\ entered + largest <= eleven.missing
    /\ Cap # NoCap => entered + largest <= Cap
    /\ eleven.keeperOut /\ eleven.reserve /\ Budget > 0 => entered = 1

IInv == Shape /\ Searching /\ Fielded /\ Counted

\* A tier's cost is the matcher's answer or NoFit.
LEMMA CostRange ==
  ASSUME NEW k, NEW x \in 0..NoFit
  PROVE  /\ Cost(k, x) \in 0..NoFit /\ Cost(k, x) >= x
         /\ Cost(k, x) < NoFit => Cost(k, x) = x
         /\ tier_plan[k].costly => Cost(k, x) = x
         /\ ~tier_plan[k].costly /\ Cost(k, x) < NoFit => x = 0
BY DEF Cost, NoFit, Slots

\* Every place has an answer.
LEMMA Answers ==
  ASSUME SearchAssumption, Shape, NEW s \in Size, NEW c \in 1..orders[s], NEW m \in Module
  PROVE  malus[s][c][m] \in 0..NoFit
<1>1. orders[s] \in 1..MaxOrder /\ MaxOrder \in Nat
  BY DEF Shape, SearchAssumption
<1>2. c \in 1..MaxOrder
  BY <1>1
<1>3. malus[s] \in [1..MaxOrder -> [Module -> 0..NoFit]]
  BY DEF Shape
<1>4. malus[s][c] \in [Module -> 0..NoFit]
  BY <1>2, <1>3
<1>5. QED
  BY <1>4

\* The modules of a tier are modules.
LEMMA TierModules ==
  ASSUME SearchAssumption, NEW k \in 1..Last, NEW m \in Of(k)
  PROVE  m \in Module /\ m \in Int /\ tier_plan[k].first <= m /\ m <= tier_plan[k].last
BY PlanIsSound DEF PlanOK, Of, Module, SearchAssumption

LEMMA CostsHere ==
  ASSUME SearchAssumption, Shape, NEW c \in Combs, NEW m \in Of(tier)
  PROVE  CostAt(c, m) \in 0..NoFit
<1>1. m \in Module
  BY TierModules DEF Shape
<1>2. malus[size][c][m] \in 0..NoFit
  BY <1>1, Answers DEF Combs, Shape
<1>3. QED
  BY <1>2, CostRange DEF CostAt

\* One try: what is found is the earliest of the cheapest up to and with this place.
LEMMA OneTry ==
  ASSUME SearchAssumption, Shape, Searching, pc = "search"
  PROVE  /\ Found \in [comb : Nat, mod : Nat, malus : 0..NoFit]
         /\ Found = Nothing \/ IsBest(Found)
         /\ \A c \in Combs, m \in Of(tier) :
              Before(c, m, comb, mod) \/ (c = comb /\ m = mod) => CostAt(c, m) >= Found.malus
<1>1. /\ AtPlace /\ Scanned /\ (best = Nothing \/ IsBest(best))
      /\ comb \in Combs /\ mod \in Of(tier)
  BY DEF Searching, AtPlace
<1>2. Here = CostAt(comb, mod) /\ Here \in 0..NoFit
  BY <1>1, CostsHere DEF Here, CostAt
<1>3. best.malus \in 0..NoFit /\ comb \in Nat /\ mod \in Nat
  BY DEF Shape, Module
<1>4. CASE Here < best.malus
  <2>1. Found = [comb |-> comb, mod |-> mod, malus |-> Here]
    BY <1>4 DEF Found
  <2>2. Here < NoFit
    BY <1>2, <1>3, <1>4 DEF NoFit, Slots
  <2>3. ASSUME NEW c \in Combs, NEW m \in Of(tier), Before(c, m, comb, mod)
        PROVE  CostAt(c, m) > Here
    <3>1. CostAt(c, m) >= best.malus
      BY <1>1, <2>3 DEF Scanned
    <3>2. CostAt(c, m) \in 0..NoFit
      BY CostsHere
    <3>3. QED
      BY <3>1, <3>2, <1>2, <1>3, <1>4 DEF NoFit, Slots
  <2>4. IsBest(Found)
    BY <1>1, <1>2, <2>1, <2>2, <2>3 DEF IsBest
  <2>5. ASSUME NEW c \in Combs, NEW m \in Of(tier),
               Before(c, m, comb, mod) \/ (c = comb /\ m = mod)
        PROVE  CostAt(c, m) >= Here
    <3>1. CostAt(c, m) \in 0..NoFit
      BY CostsHere
    <3>2. QED
      BY <3>1, <1>2, <2>3, <2>5 DEF NoFit, Slots
  <2>6. Found \in [comb : Nat, mod : Nat, malus : 0..NoFit]
    BY <1>2, <1>3, <2>1
  <2>7. QED
    BY <2>1, <2>4, <2>5, <2>6
<1>5. CASE ~(Here < best.malus)
  <2>1. Found = best
    BY <1>5 DEF Found
  <2>2. Here >= best.malus
    BY <1>2, <1>3, <1>5 DEF NoFit, Slots
  <2>3. QED
    BY <1>1, <1>2, <2>1, <2>2 DEF Scanned, Shape
<1>6. QED
  BY <1>4, <1>5

\* At the end of a tier every place has been tried.
LEMMA WholeTier ==
  ASSUME SearchAssumption, Shape, Searching, pc = "search", AtEnd
  PROVE  \A c \in Combs, m \in Of(tier) : CostAt(c, m) >= Found.malus
<1> SUFFICES ASSUME NEW c \in Combs, NEW m \in Of(tier)
             PROVE  CostAt(c, m) >= Found.malus
  OBVIOUS
<1>1. m \in Int /\ m <= mod /\ mod \in Int
  BY TierModules DEF Shape, AtEnd, Module
<1>2. c \in Int /\ c <= comb /\ comb \in Int
  BY DEF Combs, AtEnd, Shape
<1>3. Before(c, m, comb, mod) \/ (c = comb /\ m = mod)
  BY <1>1, <1>2 DEF Before
<1>4. QED
  BY <1>3, OneTry

\* A tier that ends unsettled fits nobody.
LEMMA TierFails ==
  ASSUME SearchAssumption, Shape, Searching, pc = "search", AtEnd, ~Settled
  PROVE  \A c \in Combs, m \in Of(tier) : CostAt(c, m) = NoFit
<1> SUFFICES ASSUME NEW c \in Combs, NEW m \in Of(tier)
             PROVE  CostAt(c, m) = NoFit
  OBVIOUS
<1>1. Found.malus \in 0..NoFit /\ ~(Found.malus < NoFit)
  BY OneTry DEF Settled
<1>2. CostAt(c, m) >= Found.malus /\ CostAt(c, m) \in 0..NoFit
  BY WholeTier, CostsHere
<1>3. QED
  BY <1>1, <1>2 DEF NoFit, Slots

\* If the last tier fails, nothing the mode allows fits this many.
LEMMA SizeFails ==
  ASSUME SearchAssumption, Shape, Searching, pc = "search", AtEnd, ~Settled, tier = Last
  PROVE  CostsAtLeast(size, NoFit)
<1> SUFFICES ASSUME NEW c \in Combs, NEW m \in Allowed
             PROVE  malus[size][c][m] >= NoFit
  BY DEF CostsAtLeast, Combs
<1>1. m \in Of(tier) /\ tier_plan[tier].costly /\ tier \in 1..Last
  BY PlanIsSound DEF PlanOK, Shape
<1>2. CostAt(c, m) = NoFit
  BY <1>1, TierFails
<1>3. malus[size][c][m] \in 0..NoFit
  BY <1>1, TierModules, Answers DEF Combs, Shape
<1>4. CostAt(c, m) = malus[size][c][m]
  BY <1>1, <1>3, CostRange DEF CostAt
<1>5. QED
  BY <1>2, <1>4 DEF NoFit, Slots

-----------------------------------------------------------------------------
LEMMA InitHolds == ASSUME SearchAssumption, Init PROVE IInv
<1>1. PlanOK
  BY PlanIsSound
<1>2. 1 \in 1..Last /\ 1 \in Module /\ 0 \in Size
  BY <1>1 DEF PlanOK, SearchAssumption, Module, Size
<1>3. Shape
  BY <1>2 DEF Init, Shape, Nothing, NoFit, Slots
<1>4. QED
  BY <1>3 DEF IInv, Searching, Fielded, Counted, Init

\* The search starts from a number of replacements that there are.
LEMMA KeeperKeeps == ASSUME SearchAssumption, IInv, Keeper PROVE IInv'
<1>1. PlanOK /\ Shape
  BY PlanIsSound DEF IInv
<1>2. /\ Budget \in Nat /\ eleven.missing \in Nat /\ eleven.bench \in 0..MaxBench
      /\ MaxBench \in Nat
  <2>1. eleven.missing \in 0..11 /\ eleven.bench \in 0..MaxBench
    BY <1>1 DEF Shape, Absence, Slots
  <2>2. MaxBench \in Nat /\ (Cap # NoCap => Cap \in Nat)
    BY DEF SearchAssumption
  <2>3. QED
    BY <2>1, <2>2 DEF Budget
<1>3. /\ entered' \in {0, 1}
      /\ entered' = 1 => eleven.missing > 0 /\ Budget > 0 /\ eleven.bench > 0
      /\ eleven.keeperOut /\ eleven.reserve /\ Budget > 0 => entered' = 1
  <2>1. entered' = IF eleven.keeperOut /\ Budget > 0 /\ eleven.reserve THEN 1 ELSE 0
    BY DEF Keeper
  <2>2. eleven.missing > 0 /\ (eleven.reserve => eleven.bench > 0)
    BY <1>1 DEF Keeper, Shape
  <2>3. QED
    BY <2>1, <2>2
<1>4. DEFINE fewest == Smallest(Smallest(eleven.missing, Budget), eleven.bench)
<1>5. /\ fewest \in Nat /\ fewest <= eleven.missing /\ fewest <= Budget
      /\ fewest <= MaxBench /\ (entered' = 1 => fewest > 0)
  BY <1>2, <1>3 DEF Smallest
<1>6. /\ largest' \in Size /\ size' = largest'
      /\ entered' + largest' <= eleven.missing
      /\ entered' + largest' <= Budget
  <2>1. largest' = fewest - entered' /\ size' = largest'
    BY DEF Keeper
  <2>2. QED
    BY <1>2, <1>3, <1>5, <2>1 DEF Size
<1>7. /\ tier' = 1 /\ comb' = 1 /\ mod' = tier_plan[1].first /\ best' = Nothing
      /\ pc' = "search" /\ UNCHANGED input
  BY DEF Keeper
<1>8. 1 \in 1..Last /\ mod' \in Module /\ mod' \in Of(1)
  BY <1>1, <1>7 DEF PlanOK, Of, Module, SearchAssumption
<1>9. Shape'
  BY <1>1, <1>3, <1>6, <1>7, <1>8 DEF Shape, input, Nothing, NoFit, Slots
<1>10. orders'[size'] \in 1..MaxOrder /\ MaxOrder \in Nat
  BY <1>9 DEF Shape, SearchAssumption
<1>11. AtPlace'
  BY <1>6, <1>7, <1>8, <1>10 DEF AtPlace, Combs, Size
<1>12. LargerFail' /\ EarlierFail'
  <2>1. \A s : s \notin (size' + 1)..largest'
    BY <1>6 DEF Size
  <2>2. \A k : k \notin 1..(tier' - 1)
    BY <1>7
  <2>3. QED
    BY <2>1, <2>2 DEF LargerFail, EarlierFail
<1>13. Scanned'
  BY <1>1, <1>7, <1>8, <1>10, TierModules DEF Scanned, Before, Combs
<1>14. (best.malus > floor(tier))'
  BY <1>1, <1>7, <1>8, Floors DEF PlanOK, Nothing, NoFit, Slots
<1>15. Searching' /\ Fielded'
  BY <1>7, <1>11, <1>12, <1>13, <1>14 DEF Searching, Fielded
<1>16. Counted'
  <2>1. Budget' = Budget /\ eleven' = eleven
    BY <1>7 DEF Budget, input
  <2>2. size' <= largest'
    BY <1>6 DEF Size
  <2>3. Cap # NoCap => entered' + largest' <= Cap
    BY <1>6 DEF Budget
  <2>4. QED
    BY <1>3, <1>6, <2>1, <2>2, <2>3 DEF Counted
<1>17. QED
  BY <1>9, <1>15, <1>16 DEF IInv

\* What a step inside the tier leaves alone.
Same == /\ UNCHANGED <<input, entered, largest, size, tier>>
        /\ best' = Found

LEMMA SameTier ==
  ASSUME SearchAssumption, IInv, pc = "search", Same
  PROVE  /\ Combs' = Combs /\ (\A c, m : CostAt(c, m)' = CostAt(c, m))
         /\ size' = size /\ tier' = tier /\ best' = Found
         /\ size <= largest /\ LargerFail' /\ EarlierFail' /\ Counted'
         /\ (Found = Nothing \/ IsBest(best)')
<1>1. /\ input' = input /\ entered' = entered /\ largest' = largest /\ size' = size
      /\ tier' = tier /\ best' = Found
      /\ eleven' = eleven /\ orders' = orders /\ malus' = malus
  BY DEF Same, input
<1>2. Combs' = Combs /\ (\A c, m : CostAt(c, m)' = CostAt(c, m))
  BY <1>1 DEF Combs, CostAt
<1>3. AtPlace /\ LargerFail /\ EarlierFail /\ Counted /\ Shape /\ Searching
  BY DEF IInv, Searching
<1>4. size <= largest /\ LargerFail' /\ EarlierFail'
  BY <1>1, <1>3 DEF AtPlace, LargerFail, EarlierFail, Combs, CostsAtLeast
<1>5. Budget' = Budget
  BY <1>1 DEF Budget
<1>6. Counted'
  BY <1>1, <1>3, <1>5 DEF Counted
<1>7. Found = Nothing \/ IsBest(best)'
  <2> SUFFICES ASSUME Found # Nothing PROVE IsBest(best)'
    OBVIOUS
  <2>1. IsBest(Found)
    BY <1>3, OneTry
  <2>2. QED
    BY <1>1, <1>2, <2>1 DEF IsBest
<1>8. QED
  BY <1>1, <1>2, <1>4, <1>6, <1>7

LEMMA ReturnKeeps == ASSUME SearchAssumption, IInv, Return PROVE IInv'
<1>1. PlanOK /\ Shape /\ Searching /\ pc = "search" /\ Settled
  BY PlanIsSound DEF IInv, Return
<1>2. Same /\ comb' = comb /\ mod' = mod /\ pc' = "fielded"
  BY DEF Return, Same, place
<1>3. /\ Combs' = Combs /\ (\A c, m : CostAt(c, m)' = CostAt(c, m))
      /\ size' = size /\ tier' = tier /\ best' = Found /\ size <= largest
      /\ LargerFail' /\ EarlierFail' /\ Counted'
      /\ (Found = Nothing \/ IsBest(best)')
  BY <1>1, <1>2, SameTier
<1>4. Found \in [comb : Nat, mod : Nat, malus : 0..NoFit]
  BY <1>1, OneTry
<1>5. Shape'
  BY <1>1, <1>2, <1>4 DEF Shape, Same, input
<1>6. floor(tier) \in {0, 1}
  BY <1>1, Floors DEF Shape
<1>7. Found # Nothing
  BY <1>1, <1>6 DEF Settled, Nothing, NoFit, Slots
<1>8. \/ Found.malus <= floor(tier)
      \/ \A c \in Combs, m \in Of(tier) : CostAt(c, m) >= Found.malus
  BY <1>1, WholeTier DEF Settled
<1>9. Fielded'
  <2>1. \/ best'.malus <= floor(tier')
        \/ \A c \in Combs', m \in Of(tier') : CostAt(c, m)' >= best'.malus
    BY <1>3, <1>8
  <2>2. size' <= largest'
    BY <1>2, <1>3 DEF Same
  <2>3. QED
    BY <1>3, <1>7, <2>1, <2>2 DEF Fielded
<1>10. Searching'
  BY <1>2 DEF Searching
<1>11. QED
  BY <1>3, <1>5, <1>9, <1>10 DEF IInv

\* The next place of the tier: all that comes before it has been tried.
LEMMA StepKeeps ==
  ASSUME SearchAssumption, IInv, pc = "search", ~Settled, Same, pc' = "search",
         comb' \in Combs, mod' \in Of(tier),
         \A c \in Combs, m \in Of(tier) :
           Before(c, m, comb', mod') => Before(c, m, comb, mod) \/ (c = comb /\ m = mod)
  PROVE  IInv'
<1>1. PlanOK /\ Shape /\ Searching
  BY PlanIsSound DEF IInv
<1>2. /\ Combs' = Combs /\ (\A c, m : CostAt(c, m)' = CostAt(c, m))
      /\ size' = size /\ tier' = tier /\ best' = Found /\ size <= largest
      /\ LargerFail' /\ EarlierFail' /\ Counted'
      /\ (Found = Nothing \/ IsBest(best)')
  BY SameTier
<1>3. /\ Found \in [comb : Nat, mod : Nat, malus : 0..NoFit]
      /\ \A c \in Combs, m \in Of(tier) :
           Before(c, m, comb, mod) \/ (c = comb /\ m = mod) => CostAt(c, m) >= Found.malus
  BY <1>1, OneTry
<1>4. comb' \in Nat /\ mod' \in Module
  BY <1>1, TierModules DEF Combs, Shape
<1>5. Shape'
  BY <1>1, <1>3, <1>4 DEF Shape, Same, input
<1>6. floor(tier) \in {0, 1} /\ Found.malus > floor(tier)
  BY <1>1, <1>3, Floors DEF Shape, Settled, NoFit, Slots
<1>7. Scanned'
  BY <1>2, <1>3 DEF Scanned
<1>8. AtPlace'
  BY <1>2 DEF AtPlace, Same
<1>9. Searching'
  BY <1>2, <1>6, <1>7, <1>8 DEF Searching
<1>10. Fielded'
  BY DEF Fielded
<1>11. QED
  BY <1>2, <1>5, <1>9, <1>10 DEF IInv

LEMMA NextModuleKeeps == ASSUME SearchAssumption, IInv, NextModule PROVE IInv'
<1>1. /\ pc = "search" /\ ~Settled /\ Same /\ pc' = "search"
      /\ comb' = comb /\ mod' = mod + 1 /\ mod < tier_plan[tier].last
  BY DEF NextModule, Same
<1>2. Shape /\ comb \in Combs /\ mod \in Of(tier) /\ mod \in Int /\ tier \in 1..Last
  BY <1>1 DEF IInv, Searching, AtPlace, Shape, Module
<1>3. mod' \in Of(tier)
  BY <1>1, <1>2, PlanIsSound DEF Of, PlanOK, Module, SearchAssumption
<1>4. ASSUME NEW c \in Combs, NEW m \in Of(tier), Before(c, m, comb', mod')
      PROVE  Before(c, m, comb, mod) \/ (c = comb /\ m = mod)
  <2>1. m \in Int
    BY <1>2, TierModules
  <2>2. QED
    BY <1>1, <1>2, <1>4, <2>1 DEF Before
<1>5. QED
  BY <1>1, <1>2, <1>3, <1>4, StepKeeps

LEMMA NextCombinationKeeps == ASSUME SearchAssumption, IInv, NextCombination PROVE IInv'
<1>1. /\ pc = "search" /\ ~Settled /\ Same /\ pc' = "search"
      /\ comb' = comb + 1 /\ mod' = tier_plan[tier].first
      /\ mod = tier_plan[tier].last /\ comb < orders[size]
  BY DEF NextCombination, Same
<1>2. Shape /\ comb \in Combs /\ mod \in Of(tier) /\ tier \in 1..Last
  BY <1>1 DEF IInv, Searching, AtPlace, Shape
<1>3. comb' \in Combs
  <2>1. orders[size] \in Int
    BY <1>2 DEF Shape, SearchAssumption
  <2>2. QED
    BY <1>1, <1>2, <2>1 DEF Combs
<1>4. mod' \in Of(tier)
  BY <1>1, <1>2, PlanIsSound DEF Of, PlanOK, Module, SearchAssumption
<1>5. ASSUME NEW c \in Combs, NEW m \in Of(tier), Before(c, m, comb', mod')
      PROVE  Before(c, m, comb, mod) \/ (c = comb /\ m = mod)
  <2>1. m \in Int /\ tier_plan[tier].first <= m /\ m <= mod /\ mod \in Int
    BY <1>1, <1>2, TierModules
  <2>2. tier_plan[tier].first \in Int /\ c \in Int /\ comb \in Int
    BY <1>2, PlanIsSound DEF PlanOK, Module, Combs
  <2>3. QED
    BY <1>1, <1>5, <2>1, <2>2 DEF Before
<1>6. QED
  BY <1>1, <1>2, <1>3, <1>4, <1>5, StepKeeps

\* A tier that starts has its first place before it and nothing behind it.
LEMMA FreshTier ==
  ASSUME SearchAssumption, Shape, UNCHANGED <<input, entered, largest>>, pc' = "search",
         size' \in Size, size' <= largest, tier' \in 1..Last,
         comb' = 1, mod' = tier_plan[tier'].first, best' = Nothing,
         LargerFail', EarlierFail', Counted'
  PROVE  IInv'
<1>1. PlanOK
  BY PlanIsSound
<1>2. mod' \in Module /\ mod' \in Of(tier')
  BY <1>1 DEF PlanOK, Of, Module, SearchAssumption
<1>3. Shape'
  BY <1>1, <1>2 DEF Shape, input, Nothing, NoFit, Slots
<1>4. orders'[size'] \in 1..MaxOrder /\ MaxOrder \in Nat
  BY <1>3 DEF Shape, SearchAssumption
<1>5. AtPlace'
  BY <1>2, <1>4 DEF AtPlace, Combs
<1>6. Scanned'
  <2> SUFFICES ASSUME NEW c \in Combs', NEW m \in Of(tier') PROVE ~Before(c, m, comb', mod')
    BY DEF Scanned
  <2>1. c \in Int /\ c >= 1 /\ m \in Int /\ tier_plan[tier'].first <= m
    BY <1>4, TierModules DEF Combs
  <2>2. tier_plan[tier'].first \in Int
    BY <1>1 DEF PlanOK, Module
  <2>3. QED
    BY <2>1, <2>2 DEF Before
<1>7. (best.malus > floor(tier))'
  BY <1>1, Floors DEF Nothing, NoFit, Slots
<1>8. Searching' /\ Fielded'
  BY <1>5, <1>6, <1>7 DEF Searching, Fielded
<1>9. QED
  BY <1>3, <1>8 DEF IInv

LEMMA NextTierKeeps == ASSUME SearchAssumption, IInv, NextTier PROVE IInv'
<1>1. /\ pc = "search" /\ ~Settled /\ AtEnd /\ tier < Last
      /\ tier' = tier + 1 /\ comb' = 1 /\ mod' = tier_plan[tier'].first /\ best' = Nothing
      /\ UNCHANGED <<input, entered, largest>> /\ pc' = pc /\ size' = size
  BY DEF NextTier
<1>2. Shape /\ Searching /\ AtPlace /\ LargerFail /\ EarlierFail /\ Counted
  BY <1>1 DEF IInv, Searching
<1>3. size' \in Size /\ size' <= largest /\ tier' \in 1..Last /\ tier \in 1..Last
  BY <1>1, <1>2, PlanIsSound DEF Shape, AtPlace, PlanOK
<1>4. /\ eleven' = eleven /\ orders' = orders /\ malus' = malus
      /\ entered' = entered /\ largest' = largest
  BY <1>1 DEF input
<1>5. LargerFail'
  BY <1>1, <1>2, <1>4 DEF LargerFail, CostsAtLeast
<1>6. EarlierFail'
  <2> SUFFICES ASSUME NEW k \in 1..tier, NEW c \in Combs, NEW m \in Of(k)
               PROVE  Cost(k, malus[size][c][m]) = NoFit
    BY <1>1, <1>3, <1>4 DEF EarlierFail, Combs
  <2>1. CASE k = tier
    BY <1>1, <1>2, <2>1, TierFails DEF CostAt
  <2>2. CASE k # tier
    <3>1. k \in 1..(tier - 1)
      BY <1>3, <2>2
    <3>2. QED
      BY <1>2, <3>1 DEF EarlierFail
  <2>3. QED
    BY <2>1, <2>2
<1>7. Counted'
  <2>1. Budget' = Budget
    BY <1>4 DEF Budget
  <2>2. QED
    BY <1>1, <1>2, <1>4, <2>1 DEF Counted
<1>8. QED
  BY <1>1, <1>2, <1>3, <1>5, <1>6, <1>7, FreshTier

LEMMA OneFewerKeeps == ASSUME SearchAssumption, IInv, OneFewer PROVE IInv'
<1>1. /\ pc = "search" /\ ~Settled /\ AtEnd /\ tier = Last /\ size > 0
      /\ size' = size - 1 /\ tier' = 1
      /\ comb' = 1 /\ mod' = tier_plan[tier'].first /\ best' = Nothing
      /\ UNCHANGED <<input, entered, largest>> /\ pc' = pc
  BY DEF OneFewer
<1>2. Shape /\ Searching /\ AtPlace /\ LargerFail /\ Counted
  BY <1>1 DEF IInv, Searching
<1>3. /\ size \in Int /\ largest \in Int /\ size' \in Size /\ size' <= largest
      /\ tier' \in 1..Last
  BY <1>1, <1>2, PlanIsSound DEF Shape, AtPlace, PlanOK, Size, SearchAssumption
<1>4. /\ eleven' = eleven /\ orders' = orders /\ malus' = malus
      /\ entered' = entered /\ largest' = largest
  BY <1>1 DEF input
<1>5. LargerFail'
  <2> SUFFICES ASSUME NEW s \in size..largest PROVE CostsAtLeast(s, NoFit)
    BY <1>1, <1>3, <1>4 DEF LargerFail, CostsAtLeast
  <2>1. CASE s = size
    BY <1>1, <1>2, <2>1, SizeFails
  <2>2. CASE s # size
    <3>1. s \in (size + 1)..largest
      BY <1>3, <2>2
    <3>2. QED
      BY <1>2, <3>1 DEF LargerFail
  <2>3. QED
    BY <2>1, <2>2
<1>6. EarlierFail'
  BY <1>1 DEF EarlierFail
<1>7. Counted'
  <2>1. Budget' = Budget
    BY <1>4 DEF Budget
  <2>2. QED
    BY <1>1, <1>2, <1>3, <1>4, <2>1 DEF Counted
<1>8. QED
  BY <1>1, <1>2, <1>3, <1>5, <1>6, <1>7, FreshTier

\* With nobody coming on, those who are left fit where they were submitted.
LEMMA NeverExhausted == ASSUME SearchAssumption, IInv PROVE ~Exhausted
<1> SUFFICES ASSUME Exhausted PROVE FALSE
  OBVIOUS
<1>1. /\ pc = "search" /\ ~Settled /\ AtEnd /\ tier = Last /\ size = 0
      /\ Shape /\ Searching
  BY DEF Exhausted, IInv
<1>2. CostsAtLeast(0, NoFit)
  BY <1>1, SizeFails
<1>3. orders[0] = 1 /\ 1 \in Allowed /\ malus[0][1][1] < NoFit
  BY <1>1, PlanIsSound DEF Shape, PlanOK
<1>4. malus[0][1][1] >= NoFit
  BY <1>2, <1>3 DEF CostsAtLeast
<1>5. malus[0][1][1] \in 0..NoFit
  <2>1. 0 \in Size /\ 1 \in 1..orders[0] /\ 1 \in Module
    BY <1>3 DEF SearchAssumption, Size, Module
  <2>2. QED
    BY <1>1, <2>1, Answers
<1>6. QED
  BY <1>3, <1>4, <1>5 DEF NoFit, Slots

LEMMA StandsKeeps == ASSUME SearchAssumption, IInv, Stands PROVE IInv'
<1>1. Shape /\ pc' = "stands" /\ UNCHANGED <<input, entered, largest, place, best>>
  BY DEF IInv, Stands
<1>2. Shape'
  BY <1>1 DEF Shape, input, place
<1>3. QED
  BY <1>1, <1>2 DEF IInv, Searching, Fielded, Counted

LEMMA StutterKeeps == ASSUME SearchAssumption, IInv, UNCHANGED vars PROVE IInv'
BY DEF IInv, vars, input, place, Shape, Searching, Fielded, Counted, AtPlace, LargerFail,
       EarlierFail, Scanned, IsBest, Before, CostAt, Combs, CostsAtLeast, Budget

LEMMA NextKeeps == ASSUME SearchAssumption, IInv, [Next]_vars PROVE IInv'
<1>1. CASE Stands
  BY <1>1, StandsKeeps
<1>2. CASE Keeper
  BY <1>2, KeeperKeeps
<1>3. CASE Return
  BY <1>3, ReturnKeeps
<1>4. CASE NextModule
  BY <1>4, NextModuleKeeps
<1>5. CASE NextCombination
  BY <1>5, NextCombinationKeeps
<1>6. CASE NextTier
  BY <1>6, NextTierKeeps
<1>7. CASE OneFewer
  BY <1>7, OneFewerKeeps
<1>8. CASE Exhausted
  BY <1>8, NeverExhausted
<1>9. CASE UNCHANGED vars
  BY <1>9, StutterKeeps
<1>10. QED
  BY <1>1, <1>2, <1>3, <1>4, <1>5, <1>6, <1>7, <1>8, <1>9 DEF Next

-----------------------------------------------------------------------------
(* What the answer is worth.                                                *)

\* The eleven fielded is the cheapest of its tier, and no earlier tier had one.
LEMMA CheapestOfAll ==
  ASSUME SearchAssumption, IInv, pc = "fielded"
  PROVE  /\ best.mod \in Allowed /\ best.comb \in Combs
         /\ best.malus = malus[size][best.comb][best.mod] /\ best.malus < NoFit
         /\ CostsAtLeast(size, best.malus)
         /\ tier # Last => best.malus = 0
         /\ tier = Last => best.malus > 0
<1>1. PlanOK /\ Shape /\ Fielded /\ IsBest(best) /\ EarlierFail
  BY PlanIsSound DEF IInv, Fielded
<1>2. tier \in 1..Last /\ size \in Size /\ best.comb \in Combs /\ best.mod \in Of(tier)
  BY <1>1 DEF Shape, IsBest
<1>3. best.mod \in Allowed /\ best.mod \in Module
  BY <1>1, <1>2, TierModules DEF PlanOK
<1>4. malus[size][best.comb][best.mod] \in 0..NoFit
  BY <1>1, <1>2, <1>3, Answers DEF Combs
<1>5. CostAt(best.comb, best.mod) = best.malus /\ best.malus < NoFit
  BY <1>1 DEF IsBest
<1>6. best.malus = malus[size][best.comb][best.mod] /\ best.malus \in 0..NoFit
  BY <1>4, <1>5, CostRange DEF CostAt
<1>7. CASE tier # Last
  <2>1. ~tier_plan[tier].costly
    BY <1>1, <1>2, <1>7 DEF PlanOK
  <2>2. best.malus = 0
    BY <1>4, <1>5, <1>6, <2>1, CostRange DEF CostAt
  <2>3. CostsAtLeast(size, best.malus)
    <3> SUFFICES ASSUME NEW c \in 1..orders[size], NEW m \in Allowed
                 PROVE  malus[size][c][m] >= 0
      BY <2>2 DEF CostsAtLeast
    <3>1. m \in Module
      BY <1>1, TierModules DEF PlanOK
    <3>2. QED
      BY <1>1, <1>2, <3>1, Answers DEF NoFit, Slots
  <2>4. QED
    BY <1>2, <1>3, <1>5, <1>6, <1>7, <2>2, <2>3
<1>8. CASE tier = Last
  <2>1. floor(tier) = 1 /\ tier_plan[tier].costly /\ Of(tier) = Allowed
    BY <1>1, <1>2, <1>8, Floors DEF PlanOK
  <2>2. ASSUME NEW c \in Combs, NEW m \in Allowed
        PROVE  malus[size][c][m] \in 0..NoFit /\ malus[size][c][m] > 0
    <3>1. m \in Module
      BY <1>1, <2>1, TierModules, <1>2
    <3>2. malus[size][c][m] \in 0..NoFit
      BY <1>1, <1>2, <3>1, Answers DEF Combs
    <3>3. PICK k \in 1..(Last - 1) : m \in Of(k)
      BY <1>1 DEF PlanOK
    <3>4. ~tier_plan[k].costly /\ k \in 1..(tier - 1)
      BY <1>1, <1>8, <3>3 DEF PlanOK
    <3>5. Cost(k, malus[size][c][m]) = NoFit
      BY <1>1, <3>3, <3>4 DEF EarlierFail
    <3>6. malus[size][c][m] # 0
      BY <3>5 DEF Cost, NoFit, Slots
    <3>7. QED
      BY <3>2, <3>6 DEF NoFit, Slots
  <2>3. best.malus > 0
    BY <1>2, <1>3, <1>6, <2>2
  <2>4. CostsAtLeast(size, best.malus)
    <3> SUFFICES ASSUME NEW c \in Combs, NEW m \in Allowed
                 PROVE  malus[size][c][m] >= best.malus
      BY DEF CostsAtLeast, Combs
    <3>1. CASE best.malus <= floor(tier)
      BY <1>6, <2>1, <2>2, <3>1 DEF NoFit, Slots
    <3>2. CASE \A d \in Combs, n \in Of(tier) : CostAt(d, n) >= best.malus
      <4>1. CostAt(c, m) >= best.malus
        BY <2>1, <3>2
      <4>2. CostAt(c, m) = malus[size][c][m]
        BY <2>1, <2>2, CostRange DEF CostAt
      <4>3. QED
        BY <4>1, <4>2
    <3>3. QED
      BY <1>1, <3>1, <3>2 DEF Fielded
  <2>5. QED
    BY <1>2, <1>3, <1>5, <1>6, <1>8, <2>3, <2>4
<1>9. QED
  BY <1>7, <1>8

LEMMA LeastMalusHolds == ASSUME SearchAssumption, IInv PROVE LeastMalus
<1> SUFFICES ASSUME pc = "fielded"
             PROVE  /\ best.mod \in Allowed
                    /\ best.malus = malus[size][best.comb][best.mod] /\ best.malus < NoFit
                    /\ CostsAtLeast(size, best.malus)
                    /\ \A s \in (size + 1)..largest : CostsAtLeast(s, NoFit)
  BY DEF LeastMalus
<1>1. LargerFail
  BY DEF IInv, Fielded
<1>2. QED
  BY <1>1, CheapestOfAll DEF LargerFail

LEMMA SubsWithinCapHolds == ASSUME SearchAssumption, IInv PROVE SubsWithinCap
<1>1. pc # "raised"
  BY DEF IInv, Shape
<1>2. ASSUME pc = "fielded"
      PROVE  /\ entered + size <= eleven.missing
             /\ Cap # NoCap => entered + size <= Cap
             /\ eleven.keeperOut /\ eleven.reserve /\ Budget > 0 => entered = 1
  <2>1. /\ size <= largest /\ entered + largest <= eleven.missing
        /\ Cap # NoCap => entered + largest <= Cap
        /\ eleven.keeperOut /\ eleven.reserve /\ Budget > 0 => entered = 1
    BY <1>2 DEF IInv, Counted
  <2>2. /\ size \in Int /\ largest \in Int /\ entered \in Int /\ eleven.missing \in Int
        /\ Cap # NoCap => Cap \in Int
    <3>1. eleven.missing \in 0..11
      BY DEF IInv, Shape, Absence, Slots
    <3>2. size \in Int /\ largest \in Int /\ entered \in Int
      BY DEF IInv, Shape, Size
    <3>3. Cap # NoCap => Cap \in Int
      BY DEF SearchAssumption
    <3>4. QED
      BY <3>1, <3>2, <3>3
  <2>3. QED
    BY <2>1, <2>2
<1>3. QED
  BY <1>1, <1>2 DEF SubsWithinCap

\* A tier is tried at the same cost by every place that comes before its answer.
LEMMA EarlierCostsMore ==
  ASSUME SearchAssumption, IInv, pc = "fielded",
         NEW c \in Combs, NEW m \in Competing, Before(c, m, best.comb, best.mod)
  PROVE  malus[size][c][m] > best.malus
<1>1. PlanOK /\ Shape /\ IsBest(best) /\ EarlierFail
  BY PlanIsSound DEF IInv, Fielded
<1>2. tier \in 1..Last /\ size \in Size /\ best.mod \in Of(tier)
  BY <1>1 DEF Shape, IsBest
<1>3. /\ best.malus = malus[size][best.comb][best.mod] /\ best.malus \in 0..NoFit
      /\ tier # Last => best.malus = 0
      /\ tier = Last => best.malus > 0
  BY <1>1, CheapestOfAll DEF Shape
<1>4. m \in Allowed /\ m \in Module
  BY <1>1, TierModules DEF Competing, PlanOK
<1>5. malus[size][c][m] \in 0..NoFit
  BY <1>1, <1>2, <1>4, Answers DEF Combs
<1>6. CASE m \in Of(tier)
  <2>1. CostAt(c, m) > best.malus
    BY <1>1, <1>6 DEF IsBest
  <2>2. CASE tier = Last
    <3>1. CostAt(c, m) = malus[size][c][m]
      BY <1>1, <1>2, <1>5, <2>2, CostRange DEF CostAt, PlanOK
    <3>2. QED
      BY <2>1, <3>1
  <2>3. CASE tier # Last
    <3>1. CostAt(c, m) > 0 /\ best.malus = 0
      BY <1>3, <2>1, <2>3
    <3>2. malus[size][c][m] # 0
      BY <3>1 DEF CostAt, Cost
    <3>3. QED
      BY <1>5, <3>1, <3>2 DEF NoFit, Slots
  <2>4. QED
    BY <2>2, <2>3
<1>7. CASE m \notin Of(tier)
  <2>1. tier # Last
    BY <1>1, <1>4, <1>7 DEF PlanOK
  <2>2. best.malus = 0
    BY <1>3, <2>1
  <2>3. tier # 1
    <3> SUFFICES ASSUME tier = 1 PROVE FALSE
      OBVIOUS
    <3>1. CASE Mode = "basic"
      <4>1. Of(tier) = {1} /\ best.mod = 1
        BY <1>1, <1>2, <3>1 DEF PlanOK
      <4>2. Competing = {1}
        BY <2>2, <3>1, <4>1 DEF Competing
      <4>3. QED
        BY <1>7, <4>1, <4>2
    <3>2. CASE Mode # "basic"
      <4>1. Of(tier) = Allowed
        BY <1>1, <3>2 DEF PlanOK
      <4>2. QED
        BY <1>4, <1>7, <4>1
    <3>3. QED
      BY <3>1, <3>2
  <2>4. tier = 2 /\ Last = 3
    BY <1>1, <1>2, <2>1, <2>3 DEF PlanOK
  <2>5. Mode = "basic" /\ Of(2) = 2..Modules /\ Of(1) = {1}
    BY <1>1, <2>4 DEF PlanOK
  <2>6. m = 1
    BY <1>4, <1>7, <2>4, <2>5 DEF Module, SearchAssumption
  <2>7. 1 \in 1..(tier - 1) /\ m \in Of(1)
    BY <2>4, <2>5, <2>6
  <2>8. Cost(1, malus[size][c][m]) = NoFit
    BY <1>1, <2>7 DEF EarlierFail
  <2>9. malus[size][c][m] # 0
    BY <2>8 DEF Cost, NoFit, Slots
  <2>10. QED
    BY <1>5, <2>2, <2>9 DEF NoFit, Slots
<1>8. QED
  BY <1>6, <1>7

LEMMA BenchOrderRulesHolds == ASSUME SearchAssumption, IInv PROVE BenchOrderRules
<1> SUFFICES ASSUME pc = "fielded"
             PROVE  /\ \A c \in 1..(best.comb - 1) : \A m \in Competing :
                         malus[size][c][m] > best.malus
                    /\ \A m \in Competing : m < best.mod =>
                         malus[size][best.comb][m] > best.malus
                    /\ Mode = "basic" /\ best.malus = 0 /\ best.mod # 1 =>
                         \A c \in 1..orders[size] : malus[size][c][1] > 0
  BY DEF BenchOrderRules
<1>1. PlanOK /\ Shape /\ IsBest(best) /\ EarlierFail
  BY PlanIsSound DEF IInv, Fielded
<1>2. best.comb \in Combs /\ orders[size] \in Int /\ best.mod \in Of(tier) /\ tier \in 1..Last
  BY <1>1 DEF Shape, IsBest, SearchAssumption
<1>3. ASSUME NEW c \in 1..(best.comb - 1), NEW m \in Competing
      PROVE  malus[size][c][m] > best.malus
  <2>1. c \in Combs /\ Before(c, m, best.comb, best.mod)
    BY <1>2 DEF Combs, Before
  <2>2. QED
    BY <2>1, EarlierCostsMore
<1>4. ASSUME NEW m \in Competing, m < best.mod
      PROVE  malus[size][best.comb][m] > best.malus
  <2>1. Before(best.comb, m, best.comb, best.mod)
    BY <1>4 DEF Before
  <2>2. QED
    BY <1>2, <2>1, EarlierCostsMore
<1>5. ASSUME Mode = "basic", best.malus = 0, best.mod # 1, NEW c \in 1..orders[size]
      PROVE  malus[size][c][1] > 0
  <2>1. tier # Last
    BY <1>5, CheapestOfAll
  <2>2. tier # 1
    BY <1>1, <1>2, <1>5 DEF PlanOK
  <2>3. 1 \in 1..(tier - 1) /\ 1 \in Of(1)
    BY <1>1, <1>2, <1>5, <2>1, <2>2 DEF PlanOK
  <2>4. Cost(1, malus[size][c][1]) = NoFit
    BY <1>1, <2>3 DEF EarlierFail, Combs
  <2>5. malus[size][c][1] # 0
    BY <2>4 DEF Cost, NoFit, Slots
  <2>6. malus[size][c][1] \in 0..NoFit
    <3>1. 1 \in Module /\ size \in Size
      BY <1>1 DEF Shape, Module, SearchAssumption
    <3>2. QED
      BY <1>1, <3>1, Answers
  <2>7. QED
    BY <2>5, <2>6 DEF NoFit, Slots
<1>6. QED
  BY <1>3, <1>4, <1>5

-----------------------------------------------------------------------------
LEMMA InductiveInvariant == ASSUME SearchAssumption PROVE Spec => []IInv
<1>1. Init => IInv
  BY InitHolds
<1>2. IInv /\ [Next]_vars => IInv'
  BY NextKeeps
<1>3. QED
  BY <1>1, <1>2, PTL DEF Spec

\* For every bench, table of answers, cap and mode: the eleven that take the field are the
\* cheapest that as many replacements as fit can be had for, although the search stops at
\* the first that costs its tier's floor (substitute, _best_in_tier, _with_floors).
THEOREM FieldsTheLeastMalus == ASSUME SearchAssumption PROVE Spec => []LeastMalus
<1>1. IInv => LeastMalus
  BY LeastMalusHolds
<1>2. QED
  BY <1>1, InductiveInvariant, PTL

\* For every one of them: among the equally cheap the bench order decides, then the order
\* of the modules; and under BASIC the module submitted is left only where no combination
\* keeps it free of a malus (tier_plan, _best_in_tier).
THEOREM BenchOrderDecides == ASSUME SearchAssumption PROVE Spec => []BenchOrderRules
<1>1. IInv => BenchOrderRules
  BY BenchOrderRulesHolds
<1>2. QED
  BY <1>1, InductiveInvariant, PTL

\* For every one of them: the keeper included, never more come on than are missing or than
\* the lega allows, a replaceable keeper is replaced, and the search ends with an eleven
\* rather than with its assertion (substitute).
THEOREM NoMoreThanAllowed == ASSUME SearchAssumption PROVE Spec => []SubsWithinCap
<1>1. IInv => SubsWithinCap
  BY SubsWithinCapHolds
<1>2. QED
  BY <1>1, InductiveInvariant, PTL
=============================================================================
