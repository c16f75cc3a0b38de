------------------------------- MODULE BidRules -------------------------------
(***************************************************************************)
(* The arithmetic of one raise: what a seat may spend, what a lot is worth *)
(* to it, and the guards a raise must pass. Prices are credits; `Step` is  *)
(* the raise of a room in free mode.                                       *)
(***************************************************************************)
EXTENDS Integers

MinBid == 1
Step == 1

AtLeastZero(n) == IF n < 0 THEN 0 ELSE n
Lesser(m, n) == IF m < n THEN m ELSE n

\* Mutant of MaxBid: one credit too few is kept back.
MaxBidShort(credits, required) == AtLeastZero(credits - AtLeastZero(required - 2))

\* Mutant of MaxBid: an overdrawn seat is given a negative cap.
MaxBidUnclamped(credits, required) == credits - AtLeastZero(required - 1)

\* The most this lot may take when `required` slots are still owed, this one
\* included: one credit is kept back for every other slot.
MaxBid(credits, required) == AtLeastZero(credits - AtLeastZero(required - 1))

\* What is left of the evening's purse for lots the plan does not name.
BargainAllowance(purse, spent) == AtLeastZero(purse - spent)

\* Mutant of SafeCeilings: the largest passing price, as a bisection finds it.
SafeCeilingsAny(passing, hi) ==
  {c \in {0} \cup passing :
     /\ c <= AtLeastZero(hi)
     /\ \A q \in c + 1 .. hi : q \notin passing}

\* The scan stops at the first price the re-solve rejects: the one c below which
\* every price passes, and which is the last of them.
SafeCeilings(passing, hi) ==
  {c \in {0} \cup passing :
     /\ c <= AtLeastZero(hi)
     /\ MinBid .. c \subseteq passing
     /\ c >= hi \/ c + 1 \notin passing}

=============================================================================
