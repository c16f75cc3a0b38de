------------------------------- MODULE AstaRoom -------------------------------
(***************************************************************************)
(* One bidder process in a live auction room. The room is FantaLab's: the  *)
(* lot on the block, which rivals raise and an admin settles, and the      *)
(* ledger of purchases. The bidder polls: it reads the lot, folds the      *)
(* whole ledger, prices the lot, decides, and PATCHes a raise. Nothing     *)
(* locks the room between those steps, and a PATCH may land late, or never.*)
(*                                                                         *)
(* The room keeps a lot on one of two nodes, never both; the raise goes    *)
(* back to the node it was read from, so the model has one block.          *)
(***************************************************************************)
EXTENDS BidRules, FiniteSets, Functions

CONSTANTS
  Player,       \* players that can be called
  Us, Rival,    \* our seat; everybody else's
  Nobody,       \* no seat holds the lot, or bought it
  Admin,        \* the user a routine skip is recorded under
  NoLot, NoSale, NoRaise,
  Size,         \* players a rosa holds
  Budget,       \* credits every seat starts with
  Mapped,       \* players the uuid bridge can translate
  Kinds,        \* player -> how the plan may come to see him
  Passing,      \* player -> prices at which the rosa is better with him
  PreGate,      \* player -> what the bargain pre-gate would pay at most
  Purse,        \* credits for lots the plan does not name
  Book,         \* player -> his observed clearing price
  KnowsSeats,   \* the room's seats are known (asta room; asta bid has none)
  MaxPrice,     \* bound: the highest price a rival or a hand bid reaches
  MaxTurns,     \* bound: calls
  Disturbances, \* kinds of disturbance the evening may see
  MaxDisturbances \* bound: how many of them

Seat == {Us, Rival}
Kind == {"plan", "essential", "bargain"}
FaultKind == {"annul", "reopen", "undo", "pass", "hand", "kill", "error", "timeout", "loss"}

ASSUME RoomAssumption ==
  /\ Us # Rival /\ Nobody \notin Seat \cup {Admin} /\ Admin \notin Seat
  /\ Size \in Nat \ {0} /\ Budget \in Nat /\ Budget >= Size
  /\ Mapped \subseteq Player
  /\ Kinds \in [Player -> SUBSET (Kind \cup {"hold"})]
  /\ Passing \in [Player -> SUBSET Nat]
  /\ PreGate \in [Player -> Nat] /\ Purse \in Nat /\ Book \in [Player -> Nat \ {0}]
  /\ KnowsSeats \in BOOLEAN
  /\ MaxPrice \in Nat /\ MaxTurns \in Nat /\ MaxDisturbances \in Nat
  /\ Disturbances \subseteq FaultKind

VARIABLES
  \* the room
  lot,       \* the block: NoLot, or a Lot
  turn,      \* calls so far; a lot carries the number of its call
  recent,    \* the last bid is at most 500 ms old
  ledger,    \* player -> his purchase record, or NoSale
  account,   \* what the platform counts for our seat: credits left, slots owed
  flight,    \* raises PATCHed and not yet applied or refused
  \* the bidder process
  pc,        \* "down", "poll", "read", "framed" or "sent"
  snap,      \* the lot as this poll read it
  snapFresh, \* its last bid is at most 500 ms old
  frame,     \* what this poll decided on: walk-away, cap, credits, kind
  wins,      \* players raised on as bargains, ever, by this process
  \* history
  stray,     \* a raise of ours has landed on another turn than its own
  faults     \* disturbances so far

roomVars   == <<lot, turn, recent, ledger, account>>
bidderVars == <<pc, snap, snapFresh, frame, wins>>
vars == <<roomVars, flight, bidderVars, stray, faults>>

\* `by` is history: the kind of our raise that stands, or "other".
Lot == [player : Player, price : Nat, holder : Seat \cup {Nobody}, closed : BOOLEAN,
        turn : Nat, by : Kind \cup {"other"}]

\* `stood` and `by` are history: the price and the raise the lot went at.
Purchase == [price : Nat, buyer : Seat \cup {Nobody}, bidder : Seat \cup {Admin},
             stood : Nat, by : Kind \cup {"other"}]

ASSUME NoSaleAssumption == NoSale \notin Purchase

Fault(kind) ==
  /\ kind \in Disturbances
  /\ faults < MaxDisturbances
  /\ faults' = faults + 1

-----------------------------------------------------------------------------
(* The room.                                                               *)

\* The MAX the client shows a seat, and holds it to.
ClientMax == IF account.slots > 0 THEN MaxBid(account.credits, account.slots) ELSE 0

\* CHIAMA or ASSEGNA: a lot opens at the minimum, in its caller's hands or
\* nobody's. Calling with our own seat is the operator's doing.
Call(p, caller) ==
  /\ lot = NoLot
  /\ turn < MaxTurns
  /\ ledger[p] = NoSale
  /\ IF caller = Us
     THEN Fault("hand") /\ MinBid <= ClientMax
     ELSE UNCHANGED faults
  /\ turn' = turn + 1
  /\ lot' = [player |-> p, price |-> MinBid, holder |-> caller, closed |-> FALSE,
             turn |-> turn + 1, by |-> "other"]
  /\ recent' = TRUE
  /\ UNCHANGED <<ledger, account, flight, bidderVars, stray>>

\* A raise from a browser: a rival's, or the operator's, whom the client holds
\* to the MAX it shows.
BrowserRaise(seat, price) ==
  /\ lot # NoLot
  /\ ~lot.closed
  /\ lot.holder # seat
  /\ price > lot.price
  /\ IF seat = Us
     THEN Fault("hand") /\ price <= ClientMax
     ELSE UNCHANGED faults
  /\ lot' = [lot EXCEPT !.price = price, !.holder = seat, !.by = "other"]
  /\ recent' = TRUE
  /\ UNCHANGED <<turn, ledger, account, flight, bidderVars, stray>>

\* The rules of the node: the price must rise and the lot must be the one on
\* the block. The standing bidder, the closed flag and the sender's purse are
\* not looked at.
Accepts(r) == lot # NoLot /\ lot.player = r.player /\ r.price > lot.price

\* A PATCH of ours is applied or refused, now or long after it was sent.
RaiseArrives(r) ==
  /\ flight' = flight \ {r}
  /\ IF Accepts(r)
     THEN /\ lot' = [lot EXCEPT !.price = r.price, !.holder = Us, !.by = r.by]
          /\ recent' = TRUE
          /\ stray' = (stray \/ r.turn # lot.turn)
     ELSE UNCHANGED <<lot, recent, stray>>
  /\ UNCHANGED <<turn, ledger, account, bidderVars, faults>>

RaiseLost(r) ==
  /\ Fault("loss")
  /\ flight' = flight \ {r}
  /\ UNCHANGED <<roomVars, bidderVars, stray>>

CloseLot ==
  /\ lot # NoLot
  /\ ~lot.closed
  /\ lot' = [lot EXCEPT !.closed = TRUE]
  /\ UNCHANGED <<turn, recent, ledger, account, flight, bidderVars, stray, faults>>

Reopen ==
  /\ Fault("reopen")
  /\ lot # NoLot
  /\ lot.closed
  /\ lot' = [lot EXCEPT !.closed = FALSE]
  /\ UNCHANGED <<turn, recent, ledger, account, flight, bidderVars, stray>>

Charge(holder, price, players) ==
  account' = IF holder = Us
             THEN [credits |-> account.credits - price, slots |-> account.slots - players]
             ELSE account

\* The lot leaves the block and its record joins the ledger.
Settle(record) ==
  /\ ledger' = [ledger EXCEPT ![lot.player] = record]
  /\ Charge(lot.holder, lot.price, 1)
  /\ lot' = NoLot
  /\ UNCHANGED <<turn, recent, flight, bidderVars, stray>>

\* Sold, or skipped by the admin with nobody on it.
Confirm ==
  /\ lot # NoLot
  /\ lot.closed
  /\ LET sold == lot.holder # Nobody
     IN Settle([price |-> IF sold THEN lot.price ELSE 0, buyer |-> lot.holder,
                bidder |-> IF sold THEN lot.holder ELSE Admin,
                stood |-> lot.price, by |-> lot.by])
  /\ UNCHANGED faults

\* The admin passes a lot on which a raise stands: the record is a skip, but it
\* carries the bidder, who has the player.
PassStood ==
  /\ Fault("pass")
  /\ lot # NoLot
  /\ lot.holder # Nobody
  /\ Settle([price |-> 0, buyer |-> Nobody, bidder |-> lot.holder,
             stood |-> lot.price, by |-> lot.by])

\* The call is cancelled: nobody is charged and the player may be called again.
Annul ==
  /\ Fault("annul")
  /\ lot # NoLot
  /\ lot' = NoLot
  /\ UNCHANGED <<turn, recent, ledger, account, flight, bidderVars, stray>>

\* The admin deletes a purchase, with a full refund.
Undo(p) ==
  /\ Fault("undo")
  /\ ledger[p] # NoSale
  /\ ledger' = [ledger EXCEPT ![p] = NoSale]
  /\ Charge(ledger[p].bidder, -ledger[p].stood, -1)
  /\ UNCHANGED <<lot, turn, recent, flight, bidderVars, stray>>

\* More than 500 ms go by.
FloorPasses ==
  /\ recent \/ snapFresh
  /\ recent' = FALSE
  /\ snapFresh' = FALSE
  /\ UNCHANGED <<lot, turn, ledger, account, flight, pc, snap, frame, wins, stray, faults>>

-----------------------------------------------------------------------------
(* What the bidder makes of the ledger.                                    *)

\* A recorded skip that names a seated bidder was his raise, let stand.
Reclaimed(p) ==
  KnowsSeats /\ ledger[p].price = 0 /\ ledger[p].buyer = Nobody /\ ledger[p].bidder # Admin

SeenBuyer(p) == IF Reclaimed(p) THEN ledger[p].bidder ELSE ledger[p].buyer
SeenPrice(p) == IF Reclaimed(p) THEN Book[p] ELSE ledger[p].price

\* Ours, among the records the bridge can translate.
SeenOwned == {p \in Mapped : ledger[p] # NoSale /\ SeenBuyer(p) = Us}

SeenCost(S) == SumFunction([p \in S |-> SeenPrice(p)])

SeenCredits == Budget - SeenCost(SeenOwned)
SeenSlots   == Size - Cardinality(SeenOwned)

Cap == MaxBid(SeenCredits, SeenSlots)

Allowance == BargainAllowance(Purse, SeenCost(SeenOwned \cap wins))

\* The price a re-solve may go up to, for a lot seen as kind k.
HardCap(p, k) ==
  IF k = "bargain" THEN Lesser(Lesser(PreGate[p], Cap), Allowance) ELSE Cap

\* Without a slot to fill, no rosa is better with him in it.
WalkAways(p, k) ==
  IF SeenSlots <= 0 THEN {0}
  ELSE IF k = "essential" THEN {HardCap(p, k)}
  ELSE SafeCeilings(Passing[p], HardCap(p, k))

\* Mutants of Refused: our own standing bid is not looked at; the walk-away
\* itself is refused.
RefusedBlind(f) ==
  \/ snap.closed
  \/ snapFresh
  \/ snap.price + Step > f.walkAway
  \/ snap.price + Step > f.cap
  \/ snap.price + Step > f.credits

RefusedAtCeiling(f) ==
  \/ snap.closed
  \/ snap.holder = Us
  \/ snapFresh
  \/ snap.price + Step >= f.walkAway
  \/ snap.price + Step > f.cap
  \/ snap.price + Step > f.credits

\* The guards of a raise, on the lot as it was read.
Refused(f) ==
  \/ snap.closed
  \/ snap.holder = Us
  \/ snapFresh
  \/ snap.price + Step > f.walkAway
  \/ snap.price + Step > f.cap
  \/ snap.price + Step > f.credits

\* The raise this poll would send; `turn` and `read` are history.
Raise == [player |-> snap.player, price |-> snap.price + Step, by |-> frame.kind,
          turn |-> snap.turn, read |-> snap.price]

-----------------------------------------------------------------------------
(* The bidder.                                                             *)

\* The locals of a poll are dead once it is over.
Locals == <<snap, snapFresh, frame>>
NextPoll(point) == pc' = point /\ snap' = NoLot /\ snapFresh' = FALSE /\ frame' = NoRaise

StartBidder ==
  /\ pc = "down"
  /\ pc' = "poll"
  /\ wins' = {}
  /\ UNCHANGED <<roomVars, flight, Locals, stray, faults>>

\* The lot is read first; without one the loop waits for the next poll.
ReadLot ==
  /\ pc = "poll"
  /\ lot # NoLot
  /\ pc' = "read"
  /\ snap' = lot
  /\ snapFresh' = recent
  /\ UNCHANGED <<roomVars, flight, frame, wins, stray, faults>>

\* RoomTracker.cycle: the ledger is read whole, the lot is priced, and the guards
\* are tried. A raise as a bargain goes on record here, before it is sent.
Frame ==
  /\ pc = "read"
  /\ snap.player \in Mapped
  /\ \E k \in Kinds[snap.player] \ {"hold"} : \E w \in WalkAways(snap.player, k) :
        /\ frame' = [walkAway |-> w, cap |-> Cap, credits |-> SeenCredits, kind |-> k]
        /\ wins' = IF k = "bargain" /\ ~Refused(frame') THEN wins \cup {snap.player} ELSE wins
  /\ pc' = "framed"
  /\ UNCHANGED <<roomVars, flight, snap, snapFresh, stray, faults>>

\* The lot is one we cannot name, or one nothing prices.
Hold ==
  /\ pc = "read"
  /\ snap.player \notin Mapped \/ "hold" \in Kinds[snap.player]
  /\ NextPoll("poll")
  /\ UNCHANGED <<roomVars, flight, wins, stray, faults>>

\* The ledger cannot be read: one bad poll costs one poll.
PollFails ==
  /\ Fault("error")
  /\ pc = "read"
  /\ NextPoll("poll")
  /\ UNCHANGED <<roomVars, flight, wins, stray>>

\* run_bid_loop tries the guards again, on the frame's numbers and a later
\* clock, and sends what passes.
Decide ==
  /\ pc = "framed"
  /\ IF Refused(frame)
     THEN NextPoll("poll") /\ UNCHANGED flight
     ELSE pc' = "sent" /\ flight' = flight \cup {Raise} /\ UNCHANGED Locals
  /\ UNCHANGED <<roomVars, wins, stray, faults>>

\* The answer, 200 or 401 alike.
Answered ==
  /\ pc = "sent"
  /\ Raise \notin flight
  /\ NextPoll("poll")
  /\ UNCHANGED <<roomVars, flight, wins, stray, faults>>

\* The client gives up waiting; the raise may still be applied.
TimesOut ==
  /\ Fault("timeout")
  /\ pc = "sent"
  /\ NextPoll("poll")
  /\ UNCHANGED <<roomVars, flight, wins, stray>>

BidderKilled ==
  /\ Fault("kill")
  /\ pc # "down"
  /\ NextPoll("down")
  /\ UNCHANGED <<roomVars, flight, wins, stray>>

-----------------------------------------------------------------------------
Init ==
  /\ lot = NoLot
  /\ turn = 0
  /\ recent = FALSE
  /\ ledger = [p \in Player |-> NoSale]
  /\ account = [credits |-> Budget, slots |-> Size]
  /\ flight = {}
  /\ pc = "down"
  /\ snap = NoLot
  /\ snapFresh = FALSE
  /\ frame = NoRaise
  /\ wins = {}
  /\ stray = FALSE
  /\ faults = 0

RoomNext ==
  \/ \E p \in Player, caller \in Seat \cup {Nobody} : Call(p, caller)
  \/ \E seat \in Seat, price \in MinBid .. MaxPrice : BrowserRaise(seat, price)
  \/ \E r \in flight : RaiseArrives(r) \/ RaiseLost(r)
  \/ CloseLot \/ Reopen \/ Confirm \/ PassStood \/ Annul
  \/ \E p \in Player : Undo(p)
  \/ FloorPasses

BidderStep == ReadLot \/ Frame \/ Hold \/ Decide \/ Answered

Next == RoomNext \/ StartBidder \/ BidderStep \/ PollFails \/ TimesOut \/ BidderKilled

Spec == Init /\ [][Next]_vars

\* A running bidder keeps polling, time passes, and the server answers.
FairSpec ==
  /\ Spec
  /\ WF_vars(BidderStep)
  /\ WF_vars(FloorPasses)
  /\ WF_vars(\E r \in flight : RaiseArrives(r))

-----------------------------------------------------------------------------
(* Properties.                                                             *)

Frames == [walkAway : Nat, cap : Nat, credits : Int, kind : Kind]

Raises == [player : Player, price : Nat, by : Kind, turn : Nat, read : Nat]

\* Everything but the numbers of a frame.
Shape ==
  /\ lot \in Lot \cup {NoLot} /\ snap \in Lot \cup {NoLot}
  /\ turn \in Nat /\ recent \in BOOLEAN /\ snapFresh \in BOOLEAN /\ stray \in BOOLEAN
  /\ ledger \in [Player -> Purchase \cup {NoSale}]
  /\ flight \subseteq Raises
  /\ pc \in {"down", "poll", "read", "framed", "sent"}
  /\ wins \subseteq Player
  /\ account \in [credits : Int, slots : Int]
  /\ faults \in Nat

\* Every variable holds a value of its kind; in particular a cap is never
\* negative, even for a seat the ledger shows overdrawn (max_bid).
TypeOK == Shape /\ frame \in Frames \cup {NoRaise}

Held == lot # NoLot /\ lot.holder = Us

\* Whatever stands on the block in our name can be won and the rosa still be
\* completed, a credit a slot, although the cap was computed from a ledger read
\* earlier and the raise may land late (max_bid: "the most this lot may take
\* without stranding an obligatory purchase"). Only a raise that lands on
\* another turn than the one it was decided on can break it.
RosaCompletable ==
  ~stray =>
    IF Held THEN account.slots > 0 /\ account.credits - lot.price >= account.slots - 1
            ELSE account.credits >= account.slots

\* A raise of ours moves a rival's price by exactly one step, never our own
\* standing bid: on the turn it was decided on, the price is a compare-and-swap
\* (the room "has no compare-and-swap anywhere").
RaiseIsCompareAndSwap ==
  [][\A r \in flight \ flight' :
       lot' # lot /\ lot # NoLot /\ lot.turn = r.turn
         => lot.holder # Us /\ lot'.price = lot.price + Step]_vars

\* No raise of ours stands at a price the re-solve rejects, not even one passed
\* on the way to a higher price it accepts (safe_ceiling: "no winnable price
\* under this ceiling violates the criterion").
CriterionRespected ==
  Held /\ lot.by \in {"plan", "bargain"} => lot.price \in Passing[lot.player]

\* The evening never spends more than the purse on lots it won as bargains
\* (_bargain_for: `allowance`, "the evening's aggregate cap on unplanned spend").
BargainPurse ==
  LET won == {p \in Player : /\ ledger[p] # NoSale
                             /\ ledger[p].bidder = Us
                             /\ ledger[p].by = "bargain"}
  IN  SumFunction([p \in won |-> ledger[p].stood]) <= Purse

\* A plan member we could still raise on: on the block, open, in other hands,
\* below what he is worth and what we may spend.
Wanted(p) ==
  /\ pc # "down"
  /\ p \in Mapped /\ Kinds[p] = {"plan"}
  /\ lot # NoLot /\ lot.player = p /\ ~lot.closed /\ lot.holder # Us
  /\ \A w \in WalkAways(p, "plan") : lot.price + Step <= w

\* A wanted lot is never just watched: unless it is settled, taken past what we
\* would pay, or the bidder is stopped, our raise comes to stand on it.
TargetChased == \A p \in Player : Wanted(p) ~> ~Wanted(p)

=============================================================================
