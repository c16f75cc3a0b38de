------------------------------ MODULE VotiLedger ------------------------------
(***************************************************************************)
(* What the refresh promises the submit.  Rows scraped before the lega has  *)
(* calculated a round may still change; the success on record for matchday  *)
(* d vouches for the rows of giornata d - 1.  A record may be lost at any   *)
(* time, and an older one may come back: never one that was not true.       *)
(***************************************************************************)
EXTENDS Integers, TLAPS

CONSTANT MaxDay     \* as in LineupPlatform

VARIABLES calculated,   \* the rounds the lega has calculated
          voti,         \* per giornata, our rows: none, early, final
          recorded      \* the matchday of the success on record, 0 if there is none

ledger == <<calculated, voti, recorded>>
LedgerRound == 1..(MaxDay - 1)

\* What a scrape of giornata g brings in.
Scraped(g) == IF g \in calculated THEN "final" ELSE "early"

LedgerInit == calculated = {} /\ voti = [g \in LedgerRound |-> "none"] /\ recorded = 0

RoundCalculated == \E g \in LedgerRound : /\ calculated' = calculated \cup {g}
                                          /\ UNCHANGED <<voti, recorded>>

Scrape == \E g \in LedgerRound : /\ voti' = [voti EXCEPT ![g] = Scraped(g)]
                                 /\ UNCHANGED <<calculated, recorded>>

Record == \E d \in 2..MaxDay : /\ voti[d - 1] = "final"
                               /\ recorded' = d
                               /\ UNCHANGED <<calculated, voti>>

Forget == recorded' = 0 /\ UNCHANGED <<calculated, voti>>

LedgerNext == RoundCalculated \/ Scrape \/ Record \/ Forget
Ledger == LedgerInit /\ [][LedgerNext]_ledger

\* The promise: what is on record stays true.
Vouched == recorded # 0 => recorded > 1 /\ voti[recorded - 1] = "final"

\* Only a calculated round has final rows, so no later scrape takes them back.
VouchedInv ==
  /\ Vouched
  /\ voti \in [LedgerRound -> {"none", "early", "final"}]
  /\ recorded # 0 => recorded \in 2..MaxDay
  /\ \A g \in LedgerRound : voti[g] = "final" => g \in calculated

\* A ledger kept this way keeps its promise (refresh.voti_succeeded, SPEC A20).
THEOREM LedgerVouches == Ledger => []Vouched
<1>1. LedgerInit => VouchedInv
  BY DEF LedgerInit, VouchedInv, Vouched
<1>2. VouchedInv /\ [LedgerNext]_ledger => VouchedInv'
  <2> SUFFICES ASSUME VouchedInv, [LedgerNext]_ledger
               PROVE  VouchedInv'
    OBVIOUS
  <2>1. CASE RoundCalculated
    BY <2>1 DEF RoundCalculated, VouchedInv, Vouched
  <2>2. CASE Scrape
    BY <2>2 DEF Scrape, Scraped, VouchedInv, Vouched, LedgerRound
  <2>3. CASE Record
    BY <2>3 DEF Record, VouchedInv, Vouched
  <2>4. CASE Forget
    BY <2>4 DEF Forget, VouchedInv, Vouched
  <2>5. CASE UNCHANGED ledger
    BY <2>5 DEF ledger, VouchedInv, Vouched
  <2>6. QED
    BY <2>1, <2>2, <2>3, <2>4, <2>5 DEF LedgerNext
<1>3. VouchedInv => Vouched
  BY DEF VouchedInv
<1>4. QED
  BY <1>1, <1>2, <1>3, PTL DEF Ledger
=============================================================================
