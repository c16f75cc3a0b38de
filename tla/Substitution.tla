----------------------------- MODULE Substitution -----------------------------
(***************************************************************************)
(* The automatic substitutions: who comes on for the starters without a     *)
(* vote.  The reserve keeper first; then combinations of bench players, in  *)
(* the order of the bench, tier by tier as the lega's mode has it, with one *)
(* replacement fewer whenever nothing fits.                                 *)
(*                                                                         *)
(* A combination is its place in the order, a module its place in the       *)
(* table, 1 being the one the eleven were submitted in.  What the matcher   *)
(* answers for a combination in a module is the least number of men out of  *)
(* position, NoFit if they do not fit: the natural roles alone are enough   *)
(* exactly where that number is 0.                                          *)
(***************************************************************************)
EXTENDS Integers, Sequences

CONSTANTS
  Mode,        \* the lega's substitution mode
  Modules,     \* how many modules the table holds
  Cap,         \* the substitutions the lega allows, NoCap if it sets no number
  NoCap,
  MaxBench,    \* bound: bench players with a vote
  MaxOrder     \* bound: combinations of one size

Slots == 11
NoFit == Slots + 1

SearchAssumption ==
  /\ Mode \in {"basic", "easy", "master"}
  /\ Modules \in Nat \ {0} /\ MaxBench \in Nat /\ MaxOrder \in Nat \ {0}
  /\ Cap \in Nat \cup {NoCap} /\ NoCap \notin Nat

VARIABLES
  eleven,      \* the absence pattern: starters missing, is the keeper one of them, bench
               \* players available, is a keeper one of them
  orders,      \* size -> the combinations of that size
  malus,       \* size -> combination -> module -> what the matcher answers
  pc,
  entered,     \* the keeper who came on: 0 or 1
  largest,     \* the replacements the search starts from
  size, tier, comb, mod,   \* where the search is
  best         \* the cheapest the tier has found

input == <<eleven, orders, malus>>
place == <<size, tier, comb, mod>>
vars  == <<input, pc, entered, largest, place, best>>

Absence == [missing : 0..Slots, keeperOut : BOOLEAN, bench : 0..MaxBench, reserve : BOOLEAN]
Size    == 0..MaxBench
Module  == 1..Modules
Nothing == [comb |-> 0, mod |-> 0, malus |-> NoFit]

-----------------------------------------------------------------------------
(* The tiers of a mode: which modules, and may a placement cost a malus.    *)

Tier(first, last, costly) == [first |-> first, last |-> last, costly |-> costly]

tier_plan ==
  CASE Mode = "easy"   -> <<Tier(1, 1, FALSE), Tier(1, 1, TRUE)>>
    [] Mode = "master" -> <<Tier(1, Modules, FALSE), Tier(1, Modules, TRUE)>>
    [] Mode = "basic"  ->
         IF Modules = 1 THEN <<Tier(1, 1, FALSE), Tier(1, 1, TRUE)>>
         ELSE <<Tier(1, 1, FALSE), Tier(2, Modules, FALSE), Tier(1, Modules, TRUE)>>

Last == Len(tier_plan)
Of(k) == tier_plan[k].first .. tier_plan[k].last

\* The modules the free tiers before tier k have been through.
scanned_free(k) == UNION {Of(j) : j \in {i \in 1..(k - 1) : ~tier_plan[i].costly}}

\* _with_floors: the least tier k can still cost.
floor(k) == IF tier_plan[k].costly /\ Of(k) \subseteq scanned_free(k) THEN 1 ELSE 0

\* What tier k makes of an answer of the matcher.
Cost(k, answer) == IF tier_plan[k].costly \/ answer = 0 THEN answer ELSE NoFit

-----------------------------------------------------------------------------
Init ==
  /\ eleven \in Absence
  /\ eleven.keeperOut => eleven.missing > 0
  /\ eleven.reserve => eleven.bench > 0
  /\ orders \in [Size -> 1..MaxOrder] /\ orders[0] = 1
  /\ malus \in [Size -> [1..MaxOrder -> [Module -> 0..NoFit]]]
  \* The eleven were legal where they were submitted: those who are left fit there.
  /\ malus[0][1][1] < NoFit
  /\ pc = "keeper" /\ entered = 0 /\ largest = 0
  /\ size = 0 /\ tier = 1 /\ comb = 1 /\ mod = 1 /\ best = Nothing

Smallest(a, b) == IF a < b THEN a ELSE b
Budget == IF Cap = NoCap THEN eleven.bench ELSE Cap

\* Nobody is missing: the lineup stands as submitted.
Stands ==
  /\ pc = "keeper" /\ eleven.missing = 0
  /\ pc' = "stands"
  /\ UNCHANGED <<input, entered, largest, place, best>>

\* The keeper goes first and spends a substitution; the search starts from as many
\* replacements as there are vacancies, substitutions and men left.
Keeper ==
  /\ pc = "keeper" /\ eleven.missing > 0
  /\ pc' = "search"
  /\ entered' = IF eleven.keeperOut /\ Budget > 0 /\ eleven.reserve THEN 1 ELSE 0
  /\ largest' = Smallest(Smallest(eleven.missing, Budget), eleven.bench) - entered'
  /\ size' = largest'
  /\ tier' = 1 /\ comb' = 1 /\ mod' = tier_plan[1].first /\ best' = Nothing
  /\ UNCHANGED input

\* One try: the cheaper of what the tier had and what stands at this place.
Here  == Cost(tier, malus[size][comb][mod])
Found == IF Here < best.malus THEN [comb |-> comb, mod |-> mod, malus |-> Here] ELSE best

AtEnd   == comb = orders[size] /\ mod = tier_plan[tier].last
Settled == Found.malus <= floor(tier) \/ (AtEnd /\ Found.malus < NoFit)

Return ==
  /\ pc = "search" /\ Settled
  /\ pc' = "fielded" /\ best' = Found
  /\ UNCHANGED <<input, entered, largest, place>>

\* Combination outer, module inner.
NextModule ==
  /\ pc = "search" /\ ~Settled
  /\ mod < tier_plan[tier].last
  /\ mod' = mod + 1 /\ best' = Found
  /\ UNCHANGED <<input, pc, entered, largest, size, tier, comb>>

NextCombination ==
  /\ pc = "search" /\ ~Settled
  /\ mod = tier_plan[tier].last /\ comb < orders[size]
  /\ comb' = comb + 1 /\ mod' = tier_plan[tier].first /\ best' = Found
  /\ UNCHANGED <<input, pc, entered, largest, size, tier>>

NextTier ==
  /\ pc = "search" /\ ~Settled /\ AtEnd
  /\ tier < Last
  /\ tier' = tier + 1
  /\ comb' = 1 /\ mod' = tier_plan[tier'].first /\ best' = Nothing
  /\ UNCHANGED <<input, pc, entered, largest, size>>

\* Nothing fits: every tier again, with one replacement fewer.
OneFewer ==
  /\ pc = "search" /\ ~Settled /\ AtEnd
  /\ tier = Last /\ size > 0
  /\ size' = size - 1 /\ tier' = 1
  /\ comb' = 1 /\ mod' = tier_plan[1].first /\ best' = Nothing
  /\ UNCHANGED <<input, pc, entered, largest>>

\* "the search must terminate at no replacements at all"
Exhausted ==
  /\ pc = "search" /\ ~Settled /\ AtEnd
  /\ tier = Last /\ size = 0
  /\ pc' = "raised"
  /\ UNCHANGED <<input, entered, largest, place, best>>

Next == \/ Stands \/ Keeper \/ Return
        \/ NextModule \/ NextCombination \/ NextTier \/ OneFewer \/ Exhausted

Spec == Init /\ [][Next]_vars

-----------------------------------------------------------------------------
(* What the search promises.                                                *)

\* The modules the mode may field.
Allowed == IF Mode = "easy" THEN {1} ELSE Module

\* The modules a combination competes in: BASIC changes who comes on to keep the module.
Competing == IF Mode = "basic" /\ best.malus = 0 /\ best.mod = 1 THEN {1} ELSE Allowed

\* With s replacements, no module the mode allows is had for less than n.
CostsAtLeast(s, n) == \A c \in 1..orders[s] : \A m \in Allowed : malus[s][c][m] >= n

\* The eleven that take the field: as many replacements as fit at all, at the least malus
\* that many can be had for, although the last tier stops at its floor without looking
\* further (_best_in_tier, tier_plan).
LeastMalus ==
  pc = "fielded" =>
    /\ best.mod \in Allowed
    /\ best.malus = malus[size][best.comb][best.mod] /\ best.malus < NoFit
    /\ CostsAtLeast(size, best.malus)
    /\ \A s \in (size + 1)..largest : CostsAtLeast(s, NoFit)

\* At that cost, the earliest combination of the bench, and for it the earliest module;
\* under BASIC another module only where no combination keeps the one submitted.
BenchOrderRules ==
  pc = "fielded" =>
    /\ \A c \in 1..(best.comb - 1) : \A m \in Competing : malus[size][c][m] > best.malus
    /\ \A m \in Competing : m < best.mod => malus[size][best.comb][m] > best.malus
    /\ Mode = "basic" /\ best.malus = 0 /\ best.mod # 1 =>
         \A c \in 1..orders[size] : malus[size][c][1] > 0

\* The keeper counted, no more men come on than are missing or than the lega allows; a
\* missing keeper is replaced if he can be; and the search never runs dry.
SubsWithinCap ==
  /\ pc # "raised"
  /\ pc = "fielded" =>
       /\ entered + size <= eleven.missing
       /\ Cap # NoCap => entered + size <= Cap
       /\ eleven.keeperOut /\ eleven.reserve /\ Budget > 0 => entered = 1
=============================================================================
