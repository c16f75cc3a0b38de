---------------------------- MODULE AstaRoom_proofs ----------------------------
(***************************************************************************)
(* What holds of one bidder in the room for every rosa, purse, plan, bound *)
(* and set of disturbances.  First what a poll read, and the one step      *)
(* between a read and a raise; then the credits, which need a theory of    *)
(* sums over finite sets: the library has the sum, and no theorem of it.   *)
(***************************************************************************)
EXTENDS AstaRoom, FiniteSetTheorems, TLAPS

\* The bidder holds a lot it has read.
Reading == pc \in {"read", "framed", "sent"}

\* What a poll carries from step to step is what the step before left there.
PollOK ==
  /\ Reading => snap \in Lot
  /\ pc \in {"framed", "sent"} => frame.kind \in Kind

\* A lot only rises while its turn lasts, and a price keeps its holder: so what
\* was read of the turn on the block is what still stands, or was overtaken.
SnapOK ==
  /\ lot # NoLot => lot.turn <= turn
  /\ Reading =>
       /\ snap.turn <= turn
       /\ lot # NoLot /\ lot.turn = snap.turn =>
            /\ lot.price >= snap.price
            /\ lot.price = snap.price => lot.holder = snap.holder

\* The same of the read a raise in flight was decided on.
FlightOK ==
  \A r \in flight :
    /\ r.price = r.read + Step
    /\ r.turn <= turn
    /\ lot # NoLot /\ lot.turn = r.turn =>
         /\ lot.price >= r.read
         /\ lot.price = r.read => lot.holder # Us

RoomInv == Shape /\ PollOK /\ SnapOK /\ FlightOK

\* Kinds whose price a re-solve has accepted.
Priced == {"plan", "bargain"}

\* Every price up to a walk-away passes, and so does every raise from then on.
CriterionInv ==
  /\ pc = "framed" /\ frame.kind \in Priced =>
       frame.walkAway \in Nat /\ MinBid .. frame.walkAway \subseteq Passing[snap.player]
  /\ \A r \in flight : r.by \in Priced => r.price \in Passing[r.player]
  /\ CriterionRespected

-----------------------------------------------------------------------------
(* The room's steps keep the shape of the state.                           *)

LEMMA PriceIsNat == MinBid \in Nat /\ Step \in Nat /\ Step > 0 /\ MinBid .. MaxPrice \subseteq Nat
BY RoomAssumption DEF MinBid, Step

LEMMA FaultCounts ==
  ASSUME faults \in Nat, NEW kind, Fault(kind)
  PROVE  faults' \in Nat
BY DEF Fault

LEMMA CallShape ==
  ASSUME Shape, NEW p \in Player, NEW caller \in Seat \cup {Nobody}, Call(p, caller)
  PROVE  Shape'
<1>1. faults' \in Nat
  BY FaultCounts DEF Call, Shape
<1>2. lot' \in Lot
  BY PriceIsNat DEF Call, Shape, Lot
<1>3. turn' \in Nat /\ recent' \in BOOLEAN
  BY DEF Call, Shape
<1>4. QED
  BY <1>1, <1>2, <1>3 DEF Call, Shape, bidderVars

LEMMA BrowserRaiseShape ==
  ASSUME Shape, NEW seat \in Seat, NEW price \in MinBid .. MaxPrice, BrowserRaise(seat, price)
  PROVE  Shape'
<1>1. faults' \in Nat
  BY FaultCounts DEF BrowserRaise, Shape
<1>2. lot' \in Lot
  BY PriceIsNat DEF BrowserRaise, Shape, Lot
<1>3. QED
  BY <1>1, <1>2 DEF BrowserRaise, Shape, bidderVars

LEMMA RaiseArrivesShape ==
  ASSUME Shape, NEW r \in flight, RaiseArrives(r)
  PROVE  Shape'
<1>1. r \in Raises
  BY DEF Shape
<1>2. lot' \in Lot \cup {NoLot}
  <2>1. CASE Accepts(r)
    <3>1. lot \in Lot /\ lot' = [lot EXCEPT !.price = r.price, !.holder = Us, !.by = r.by]
      BY <2>1 DEF RaiseArrives, Accepts, Shape
    <3>2. r.price \in Nat /\ r.by \in Kind \cup {"other"} /\ Us \in Seat \cup {Nobody}
      BY <1>1 DEF Raises, Seat
    <3>3. QED
      BY <3>1, <3>2 DEF Lot
  <2>2. CASE ~Accepts(r)
    BY <2>2 DEF RaiseArrives, Shape
  <2>3. QED
    BY <2>1, <2>2
<1>3. recent' \in BOOLEAN /\ stray' \in BOOLEAN
  BY DEF RaiseArrives, Shape
<1>4. flight' \subseteq Raises
  BY DEF RaiseArrives, Shape
<1>5. QED
  BY <1>2, <1>3, <1>4 DEF RaiseArrives, Shape, bidderVars

\* A settled lot leaves a purchase record, and a seat's account stays integral.
LEMMA SettleShape ==
  ASSUME Shape, lot \in Lot, NEW record \in Purchase, Settle(record), faults' \in Nat
  PROVE  Shape'
<1>1. lot.player \in Player /\ lot.price \in Int
  BY DEF Lot
<1>2. ledger' \in [Player -> Purchase \cup {NoSale}]
  BY <1>1 DEF Settle, Shape
<1>3. account' \in [credits : Int, slots : Int]
  BY <1>1 DEF Settle, Charge, Shape
<1>4. lot' \in Lot \cup {NoLot}
  BY DEF Settle
<1>5. QED
  BY <1>2, <1>3, <1>4 DEF Settle, Shape, bidderVars

LEMMA ConfirmShape ==
  ASSUME Shape, Confirm
  PROVE  Shape'
<1>1. lot \in Lot
  BY DEF Confirm, Shape
<1> DEFINE sold == lot.holder # Nobody
           record == [price |-> IF sold THEN lot.price ELSE 0, buyer |-> lot.holder,
                      bidder |-> IF sold THEN lot.holder ELSE Admin,
                      stood |-> lot.price, by |-> lot.by]
<1>2. record \in Purchase
  BY <1>1 DEF Lot, Purchase
<1>3. Settle(record) /\ faults' \in Nat
  BY DEF Confirm, Shape
<1>4. QED
  BY <1>1, <1>2, <1>3, SettleShape

LEMMA PassStoodShape ==
  ASSUME Shape, PassStood
  PROVE  Shape'
<1>1. lot \in Lot /\ lot.holder # Nobody
  BY DEF PassStood, Shape
<1> DEFINE record == [price |-> 0, buyer |-> Nobody, bidder |-> lot.holder,
                      stood |-> lot.price, by |-> lot.by]
<1>2. record \in Purchase
  BY <1>1 DEF Lot, Purchase
<1>3. Settle(record) /\ faults' \in Nat
  BY FaultCounts DEF PassStood, Shape
<1>4. QED
  BY <1>1, <1>2, <1>3, SettleShape

LEMMA UndoShape ==
  ASSUME Shape, NEW p \in Player, Undo(p)
  PROVE  Shape'
<1>1. ledger[p] \in Purchase
  BY DEF Undo, Shape
<1>2. ledger[p].stood \in Int /\ -ledger[p].stood \in Int /\ -1 \in Int
  BY <1>1 DEF Purchase
<1>3. account' \in [credits : Int, slots : Int]
  BY <1>2 DEF Undo, Charge, Shape
<1>4. ledger' \in [Player -> Purchase \cup {NoSale}] /\ faults' \in Nat
  BY FaultCounts DEF Undo, Shape
<1>5. QED
  BY <1>3, <1>4 DEF Undo, Shape, bidderVars

-----------------------------------------------------------------------------
(* The bidder's steps keep the shape of the state and of the poll.         *)

\* A poll that ends leaves nothing behind.
LEMMA NextPollShape ==
  ASSUME Shape, PollOK, NEW point \in {"down", "poll"}, NextPoll(point), faults' \in Nat,
         flight' \subseteq flight, wins' \subseteq Player, UNCHANGED <<roomVars, stray>>
  PROVE  Shape' /\ PollOK'
BY DEF Shape, PollOK, Reading, NextPoll, roomVars

LEMMA FrameKind ==
  ASSUME Shape, PollOK, Frame
  PROVE  frame'.kind \in Kind /\ snap.player \in Player
<1>1. snap \in Lot
  BY DEF Frame, PollOK, Reading
<1>2. snap.player \in Player
  BY <1>1 DEF Lot
<1>3. PICK k \in Kinds[snap.player] \ {"hold"} : \E w \in WalkAways(snap.player, k) :
        frame' = [walkAway |-> w, cap |-> Cap, credits |-> SeenCredits, kind |-> k]
  BY DEF Frame
<1>4. k \in Kind
  BY <1>2, RoomAssumption
<1>5. QED
  BY <1>2, <1>3, <1>4

LEMMA FrameShape ==
  ASSUME Shape, PollOK, Frame
  PROVE  Shape' /\ PollOK'
<1>1. wins' \subseteq Player
  <2>1. wins' = wins \/ wins' = wins \cup {snap.player}
    BY DEF Frame
  <2>2. QED
    BY <2>1, FrameKind DEF Shape
<1>2. pc' = "framed" /\ snap' = snap /\ snap \in Lot
  BY DEF Frame, PollOK, Reading
<1>3. Shape'
  BY <1>1, <1>2 DEF Frame, Shape, roomVars
<1>4. QED
  BY <1>2, <1>3, FrameKind DEF PollOK

\* What Decide sends is a raise of the lot it read, one step above its price.
LEMMA RaiseSent ==
  ASSUME Shape, PollOK, Decide, ~Refused(frame)
  PROVE  /\ Raise \in Raises
         /\ snap.holder # Us
         /\ flight' = flight \cup {Raise} /\ pc' = "sent" /\ UNCHANGED <<snap, snapFresh, frame>>
<1>1. snap \in Lot /\ frame.kind \in Kind
  BY DEF Decide, PollOK, Reading
<1>2. Raise \in Raises
  BY <1>1, PriceIsNat DEF Raise, Raises, Lot
<1>3. QED
  BY <1>2 DEF Decide, Refused, Locals

LEMMA DecideShape ==
  ASSUME Shape, PollOK, Decide
  PROVE  Shape' /\ PollOK'
<1>1. CASE Refused(frame)
  BY <1>1, NextPollShape DEF Decide, Shape
<1>2. CASE ~Refused(frame)
  <2>1. flight' \subseteq Raises
    BY <1>2, RaiseSent DEF Shape
  <2>2. Shape'
    BY <1>2, <2>1, RaiseSent DEF Decide, Shape, roomVars
  <2>3. QED
    BY <1>2, <2>2, RaiseSent DEF Decide, PollOK, Reading
<1>3. QED
  BY <1>1, <1>2

LEMMA BidderShape ==
  ASSUME Shape, PollOK,
         StartBidder \/ BidderStep \/ PollFails \/ TimesOut \/ BidderKilled
  PROVE  Shape' /\ PollOK'
<1>1. CASE StartBidder
  BY <1>1 DEF StartBidder, Shape, PollOK, Reading, roomVars, Locals
<1>2. CASE ReadLot
  <2>1. lot \in Lot
    BY <1>2 DEF ReadLot, Shape
  <2>2. QED
    BY <1>2, <2>1 DEF ReadLot, Shape, PollOK, Reading, roomVars
<1>3. CASE Frame
  BY <1>3, FrameShape
<1>4. CASE Hold
  BY <1>4, NextPollShape DEF Hold, Shape
<1>5. CASE Decide
  BY <1>5, DecideShape
<1>6. CASE Answered
  BY <1>6, NextPollShape DEF Answered, Shape
<1>7. CASE PollFails
  BY <1>7, NextPollShape, FaultCounts DEF PollFails, Shape
<1>8. CASE TimesOut
  BY <1>8, NextPollShape, FaultCounts DEF TimesOut, Shape
<1>9. CASE BidderKilled
  BY <1>9, NextPollShape, FaultCounts DEF BidderKilled, Shape
<1>10. QED
  BY <1>1, <1>2, <1>3, <1>4, <1>5, <1>6, <1>7, <1>8, <1>9 DEF BidderStep

\* No step of the room reaches into a poll.
LEMMA RoomLeavesPoll ==
  ASSUME RoomNext
  PROVE  UNCHANGED <<pc, snap, frame, wins>>
BY DEF RoomNext, Call, BrowserRaise, RaiseArrives, RaiseLost, CloseLot, Reopen, Confirm,
       PassStood, Settle, Annul, Undo, FloorPasses, bidderVars

LEMMA RoomShape ==
  ASSUME Shape, PollOK, RoomNext
  PROVE  Shape' /\ PollOK'
<1>1. PollOK'
  BY RoomLeavesPoll DEF PollOK, Reading
<1> SUFFICES Shape'
  BY <1>1
<1>2. ASSUME NEW r \in flight, RaiseLost(r)
      PROVE  Shape'
  <2>1. faults' \in Nat /\ flight' \subseteq Raises
    BY <1>2, FaultCounts DEF RaiseLost, Shape
  <2>2. QED
    BY <1>2, <2>1 DEF RaiseLost, Shape, roomVars, bidderVars
<1>3. CASE CloseLot
  <2>1. lot \in Lot /\ lot' = [lot EXCEPT !.closed = TRUE]
    BY <1>3 DEF CloseLot, Shape
  <2>2. lot' \in Lot
    BY <2>1 DEF Lot
  <2>3. QED
    BY <1>3, <2>2 DEF CloseLot, Shape, bidderVars
<1>4. CASE Reopen
  <2>1. lot \in Lot /\ lot' = [lot EXCEPT !.closed = FALSE]
    BY <1>4 DEF Reopen, Shape
  <2>2. lot' \in Lot
    BY <2>1 DEF Lot
  <2>3. faults' \in Nat
    BY <1>4, FaultCounts DEF Reopen, Shape
  <2>4. QED
    BY <1>4, <2>2, <2>3 DEF Reopen, Shape, bidderVars
<1>5. CASE Annul
  <2>1. faults' \in Nat
    BY <1>5, FaultCounts DEF Annul, Shape
  <2>2. QED
    BY <1>5, <2>1 DEF Annul, Shape, bidderVars
<1>6. CASE FloorPasses
  BY <1>6 DEF FloorPasses, Shape
<1>7. QED
  BY <1>2, <1>3, <1>4, <1>5, <1>6, CallShape, BrowserRaiseShape, RaiseArrivesShape,
     ConfirmShape, PassStoodShape, UndoShape DEF RoomNext

-----------------------------------------------------------------------------
(* What a step may do to the lot, and what that leaves of a read.          *)

\* A step opens a new turn, or raises the lot of this one, or keeps its price and
\* its holder.
LotMoves ==
  /\ turn' \in Nat /\ turn <= turn'
  /\ lot' # NoLot =>
       \/ lot'.turn = turn + 1 /\ turn' = turn + 1
       \/ /\ lot # NoLot /\ lot'.turn = lot.turn
          /\ lot'.price > lot.price \/ (lot'.price = lot.price /\ lot'.holder = lot.holder)

LEMMA RoomMoves ==
  ASSUME Shape, RoomNext
  PROVE  LotMoves /\ flight' \subseteq flight
<1>1. turn \in Nat /\ (lot # NoLot => lot \in Lot)
  BY DEF Shape
<1>2. ASSUME NEW p \in Player, NEW caller \in Seat \cup {Nobody}, Call(p, caller)
      PROVE  LotMoves /\ flight' \subseteq flight
  BY <1>1, <1>2 DEF Call, LotMoves
<1>3. ASSUME NEW seat \in Seat, NEW price \in MinBid .. MaxPrice, BrowserRaise(seat, price)
      PROVE  LotMoves /\ flight' \subseteq flight
  <2>1. lot # NoLot /\ lot' = [lot EXCEPT !.price = price, !.holder = seat, !.by = "other"]
        /\ price > lot.price /\ UNCHANGED <<turn, flight>>
    BY <1>3 DEF BrowserRaise
  <2>2. lot'.turn = lot.turn /\ lot'.price = price
    BY <1>1, <2>1 DEF Lot
  <2>3. QED
    BY <1>1, <2>1, <2>2 DEF LotMoves
<1>4. ASSUME NEW r \in flight, RaiseArrives(r)
      PROVE  LotMoves /\ flight' \subseteq flight
  <2>1. flight' \subseteq flight /\ turn' = turn
    BY <1>4 DEF RaiseArrives
  <2>2. CASE Accepts(r)
    <3>1. lot # NoLot /\ lot' = [lot EXCEPT !.price = r.price, !.holder = Us, !.by = r.by]
          /\ r.price > lot.price
      BY <1>4, <2>2 DEF RaiseArrives, Accepts
    <3>2. lot'.turn = lot.turn /\ lot'.price = r.price
      BY <1>1, <3>1 DEF Lot
    <3>3. QED
      BY <1>1, <2>1, <3>1, <3>2 DEF LotMoves
  <2>3. CASE ~Accepts(r)
    <3>1. lot' = lot
      BY <1>4, <2>3 DEF RaiseArrives
    <3>2. QED
      BY <1>1, <2>1, <3>1 DEF LotMoves
  <2>4. QED
    BY <2>2, <2>3
<1>5. ASSUME NEW r \in flight, RaiseLost(r)
      PROVE  LotMoves /\ flight' \subseteq flight
  BY <1>1, <1>5 DEF RaiseLost, LotMoves, roomVars
<1>6. CASE CloseLot \/ Reopen
  <2>1. lot # NoLot /\ UNCHANGED <<turn, flight>>
        /\ (lot' = [lot EXCEPT !.closed = TRUE] \/ lot' = [lot EXCEPT !.closed = FALSE])
    BY <1>6 DEF CloseLot, Reopen
  <2>2. lot'.turn = lot.turn /\ lot'.price = lot.price /\ lot'.holder = lot.holder
    BY <1>1, <2>1 DEF Lot
  <2>3. QED
    BY <1>1, <2>1, <2>2 DEF LotMoves
<1>7. CASE Confirm \/ PassStood \/ Annul
  <2>1. lot' = NoLot /\ UNCHANGED <<turn, flight>>
    BY <1>7 DEF Confirm, PassStood, Annul, Settle
  <2>2. QED
    BY <1>1, <2>1 DEF LotMoves
<1>8. CASE FloorPasses \/ \E p \in Player : Undo(p)
  <2>1. lot' = lot /\ UNCHANGED <<turn, flight>>
    BY <1>8 DEF FloorPasses, Undo
  <2>2. QED
    BY <1>1, <2>1 DEF LotMoves
<1>9. QED
  BY <1>2, <1>3, <1>4, <1>5, <1>6, <1>7, <1>8 DEF RoomNext

\* The bidder never writes the room: its raises only set out.
LEMMA BidderMoves ==
  ASSUME Shape, PollOK,
         StartBidder \/ BidderStep \/ PollFails \/ TimesOut \/ BidderKilled
  PROVE  /\ UNCHANGED roomVars
         /\ flight' = flight \/ (Decide /\ ~Refused(frame))
BY DEF StartBidder, BidderStep, ReadLot, Frame, Hold, Decide, Answered, PollFails, TimesOut,
       BidderKilled, NextPoll

LEMMA RoomKeepsReads ==
  ASSUME RoomInv, RoomNext
  PROVE  SnapOK' /\ FlightOK'
<1>1. LotMoves /\ flight' \subseteq flight
  BY RoomMoves DEF RoomInv
<1>2. /\ turn \in Nat /\ (lot # NoLot => lot.turn \in Nat /\ lot.price \in Nat)
      /\ lot' # NoLot => lot'.price \in Nat
  BY RoomShape DEF RoomInv, Shape, Lot
<1>3. SnapOK'
  <2>1. UNCHANGED <<pc, snap>>
    BY RoomLeavesPoll
  <2>2. Reading => snap.turn \in Nat /\ snap.price \in Nat
    BY DEF RoomInv, PollOK, Lot
  <2>3. lot' # NoLot => lot'.turn <= turn'
    BY <1>1, <1>2 DEF LotMoves, RoomInv, SnapOK
  <2>4. ASSUME Reading
        PROVE  /\ snap.turn <= turn'
               /\ lot' # NoLot /\ lot'.turn = snap.turn =>
                    /\ lot'.price >= snap.price
                    /\ lot'.price = snap.price => lot'.holder = snap.holder
    <3>1. snap.turn <= turn'
      BY <1>1, <1>2, <2>2, <2>4 DEF LotMoves, RoomInv, SnapOK
    <3>2. ASSUME lot' # NoLot, lot'.turn = snap.turn
          PROVE  /\ lot'.price >= snap.price
                 /\ lot'.price = snap.price => lot'.holder = snap.holder
      <4>1. lot # NoLot /\ lot.turn = snap.turn
            /\ (lot'.price > lot.price \/ (lot'.price = lot.price /\ lot'.holder = lot.holder))
        BY <1>1, <1>2, <2>2, <2>4, <3>2 DEF LotMoves, RoomInv, SnapOK
      <4>2. lot.price >= snap.price /\ (lot.price = snap.price => lot.holder = snap.holder)
        BY <2>4, <4>1 DEF RoomInv, SnapOK
      <4>3. QED
        BY <1>2, <2>2, <2>4, <3>2, <4>1, <4>2
    <3>3. QED
      BY <3>1, <3>2
  <2>5. QED
    BY <2>1, <2>3, <2>4 DEF SnapOK, Reading
<1>4. FlightOK'
  <2> SUFFICES ASSUME NEW r \in flight'
               PROVE  /\ r.price = r.read + Step
                      /\ r.turn <= turn'
                      /\ lot' # NoLot /\ lot'.turn = r.turn =>
                           /\ lot'.price >= r.read
                           /\ lot'.price = r.read => lot'.holder # Us
    BY DEF FlightOK
  <2>1. r \in flight /\ r.turn \in Nat /\ r.read \in Nat
    BY <1>1 DEF RoomInv, Shape, Raises
  <2>2. r.price = r.read + Step /\ r.turn <= turn
    BY <2>1 DEF RoomInv, FlightOK
  <2>3. r.turn <= turn'
    BY <1>1, <1>2, <2>1, <2>2 DEF LotMoves
  <2>4. ASSUME lot' # NoLot, lot'.turn = r.turn
        PROVE  lot'.price >= r.read /\ (lot'.price = r.read => lot'.holder # Us)
    <3>1. lot # NoLot /\ lot.turn = r.turn
          /\ (lot'.price > lot.price \/ (lot'.price = lot.price /\ lot'.holder = lot.holder))
      BY <1>1, <1>2, <2>1, <2>2, <2>4 DEF LotMoves
    <3>2. lot.price >= r.read /\ (lot.price = r.read => lot.holder # Us)
      BY <2>1, <3>1 DEF RoomInv, FlightOK
    <3>3. QED
      BY <1>2, <2>1, <2>4, <3>1, <3>2
  <2>5. QED
    BY <2>2, <2>3, <2>4
<1>5. QED
  BY <1>3, <1>4

LEMMA BidderKeepsReads ==
  ASSUME RoomInv,
         StartBidder \/ BidderStep \/ PollFails \/ TimesOut \/ BidderKilled
  PROVE  SnapOK' /\ FlightOK'
<1>1. UNCHANGED roomVars
  BY BidderMoves DEF RoomInv
<1>2. UNCHANGED <<lot, turn>>
  BY <1>1 DEF roomVars
<1>3. turn \in Nat /\ (lot # NoLot => lot \in Lot)
  BY DEF RoomInv, Shape
<1>4. SnapOK'
  <2>1. CASE ReadLot
    <3>1. lot # NoLot /\ snap' = lot
      BY <2>1 DEF ReadLot
    <3>2. lot.turn \in Nat /\ lot.price \in Nat /\ lot.turn <= turn
      BY <1>3, <3>1 DEF Lot, RoomInv, SnapOK
    <3>3. QED
      BY <1>2, <1>3, <3>1, <3>2 DEF SnapOK, RoomInv
  <2>2. CASE ~Reading'
    BY <1>2, <2>2 DEF SnapOK, RoomInv
  <2>3. CASE Reading /\ snap' = snap
    BY <1>2, <2>3 DEF SnapOK, RoomInv
  <2>4. Reading' => ReadLot \/ (Reading /\ snap' = snap)
    BY DEF Reading, StartBidder, BidderStep, Frame, Hold, Decide, Answered, PollFails,
           TimesOut, BidderKilled, NextPoll, Locals
  <2>5. QED
    BY <2>1, <2>2, <2>3, <2>4
<1>5. FlightOK'
  <2>1. CASE flight' = flight
    BY <1>2, <2>1 DEF FlightOK, RoomInv
  <2>2. CASE Decide /\ ~Refused(frame)
    <3>1. snap \in Lot /\ Reading
      BY <2>2 DEF RoomInv, PollOK, Decide, Reading
    <3>2. flight' = flight \cup {Raise} /\ snap.holder # Us
      BY <2>2, RaiseSent DEF RoomInv
    <3>3. /\ Raise.price = Raise.read + Step
          /\ Raise.turn = snap.turn /\ Raise.read = snap.price
      BY DEF Raise
    <3>4. /\ Raise.turn <= turn
          /\ lot # NoLot /\ lot.turn = Raise.turn =>
               /\ lot.price >= Raise.read
               /\ lot.price = Raise.read => lot.holder # Us
      BY <3>1, <3>2, <3>3 DEF RoomInv, SnapOK
    <3>5. QED
      BY <1>2, <3>2, <3>3, <3>4 DEF FlightOK, RoomInv
  <2>3. QED
    BY <2>1, <2>2, BidderMoves DEF RoomInv
<1>6. QED
  BY <1>4, <1>5

-----------------------------------------------------------------------------
(* The invariant, and what it says of a raise that lands.                  *)

LEMMA InitInv == Init => RoomInv
<1> SUFFICES ASSUME Init PROVE RoomInv
  OBVIOUS
<1>1. account \in [credits : Int, slots : Int]
  BY RoomAssumption DEF Init
<1>2. ledger \in [Player -> Purchase \cup {NoSale}]
  BY DEF Init
<1>3. Shape
  BY <1>1, <1>2 DEF Init, Shape
<1>4. PollOK /\ SnapOK /\ FlightOK
  BY DEF Init, PollOK, SnapOK, FlightOK, Reading
<1>5. QED
  BY <1>3, <1>4 DEF RoomInv

LEMMA StepInv == RoomInv /\ [Next]_vars => RoomInv'
<1> SUFFICES ASSUME RoomInv, [Next]_vars PROVE RoomInv'
  OBVIOUS
<1>1. CASE RoomNext
  BY <1>1, RoomShape, RoomKeepsReads DEF RoomInv
<1>2. CASE StartBidder \/ BidderStep \/ PollFails \/ TimesOut \/ BidderKilled
  BY <1>2, BidderShape, BidderKeepsReads DEF RoomInv
<1>3. CASE UNCHANGED vars
  BY <1>3 DEF vars, roomVars, bidderVars, RoomInv, Shape, PollOK, SnapOK, FlightOK, Reading
<1>4. QED
  BY <1>1, <1>2, <1>3 DEF Next

\* The step of RaiseIsCompareAndSwap.
CompareAndSwap ==
  \A r \in flight \ flight' :
    lot' # lot /\ lot # NoLot /\ lot.turn = r.turn
      => lot.holder # Us /\ lot'.price = lot.price + Step

LEMMA LandedStep == RoomInv /\ [Next]_vars => CompareAndSwap
<1> SUFFICES ASSUME RoomInv, [Next]_vars,
                    NEW r \in flight \ flight', lot' # lot, lot # NoLot, lot.turn = r.turn
             PROVE  lot.holder # Us /\ lot'.price = lot.price + Step
  BY DEF CompareAndSwap
<1>1. RaiseArrives(r) /\ Accepts(r)
  <2>1. CASE RoomNext
    <3>1. PICK q \in flight : RaiseArrives(q) \/ RaiseLost(q)
      BY <2>1 DEF RoomNext, Call, BrowserRaise, CloseLot, Reopen, Confirm, PassStood, Settle,
                  Annul, Undo, FloorPasses
    <3>2. q = r
      BY <3>1 DEF RaiseArrives, RaiseLost
    <3>3. QED
      BY <3>1, <3>2 DEF RaiseArrives, RaiseLost, roomVars
  <2>2. CASE StartBidder \/ BidderStep \/ PollFails \/ TimesOut \/ BidderKilled
    BY <2>2, BidderMoves DEF RoomInv, roomVars
  <2>3. CASE UNCHANGED vars
    BY <2>3 DEF vars
  <2>4. QED
    BY <2>1, <2>2, <2>3 DEF Next
<1>2. /\ lot \in Lot /\ r \in Raises /\ r.price > lot.price
      /\ lot' = [lot EXCEPT !.price = r.price, !.holder = Us, !.by = r.by]
  BY <1>1 DEF RaiseArrives, Accepts, RoomInv, Shape
<1>3. lot.price \in Nat /\ r.read \in Nat /\ lot'.price = r.price
  BY <1>2 DEF Lot, Raises
<1>4. r.price = r.read + Step /\ lot.price >= r.read /\ (lot.price = r.read => lot.holder # Us)
  BY DEF RoomInv, FlightOK
<1>5. lot.price = r.read
  BY <1>2, <1>3, <1>4 DEF Step
<1>6. QED
  BY <1>3, <1>4, <1>5

\* A raise of ours that lands on its own turn moves a rival's price by one step.
THEOREM RaisesCompareAndSwap == Spec => RaiseIsCompareAndSwap
<1>1. RoomInv /\ [Next]_vars => [CompareAndSwap]_vars
  BY LandedStep
<1>2. QED
  BY InitInv, StepInv, <1>1, PTL DEF Spec, RaiseIsCompareAndSwap, CompareAndSwap

-----------------------------------------------------------------------------
(* The criterion of the re-solve.                                          *)

\* A walk-away found by the scan is a price, and no price under it is rejected,
\* whatever the cap it was searched under.
LEMMA ScanNeverPassesAHole ==
  ASSUME NEW passing \in SUBSET Nat, NEW hi, NEW c \in SafeCeilings(passing, hi)
  PROVE  c \in Nat /\ MinBid .. c \subseteq passing
BY DEF SafeCeilings

\* The same of the walk-away of a lot the re-solve priced.
LEMMA WalkAwayIsSafe ==
  ASSUME NEW p \in Player, NEW k \in Priced, NEW w \in WalkAways(p, k)
  PROVE  w \in Nat /\ MinBid .. w \subseteq Passing[p]
<1>1. Passing[p] \in SUBSET Nat /\ k # "essential"
  BY RoomAssumption DEF Priced
<1>2. CASE SeenSlots <= 0
  <2>1. w = 0
    BY <1>2 DEF WalkAways
  <2>2. MinBid .. w = {}
    BY <2>1 DEF MinBid
  <2>3. QED
    BY <2>1, <2>2
<1>3. CASE ~(SeenSlots <= 0)
  <2>1. w \in SafeCeilings(Passing[p], HardCap(p, k))
    BY <1>1, <1>3 DEF WalkAways
  <2>2. QED
    BY <1>1, <2>1, ScanNeverPassesAHole
<1>4. QED
  BY <1>2, <1>3

LEMMA InitCriterion == Init => CriterionInv
BY DEF Init, CriterionInv, CriterionRespected, Held

LEMMA BidderKeepsCriterion ==
  ASSUME RoomInv, CriterionInv,
         StartBidder \/ BidderStep \/ PollFails \/ TimesOut \/ BidderKilled
  PROVE  CriterionInv'
<1>1. UNCHANGED lot
  BY BidderMoves DEF RoomInv, roomVars
<1>2. CriterionRespected'
  BY <1>1 DEF CriterionInv, CriterionRespected, Held
<1>3. pc' = "framed" /\ frame'.kind \in Priced =>
        frame'.walkAway \in Nat /\ MinBid .. frame'.walkAway \subseteq Passing[snap'.player]
  <2>1. CASE Frame
    <3>1. snap' = snap /\ snap.player \in Player
      BY <2>1, FrameKind DEF Frame, RoomInv
    <3>2. PICK k \in Kinds[snap.player] \ {"hold"} : \E w \in WalkAways(snap.player, k) :
            frame' = [walkAway |-> w, cap |-> Cap, credits |-> SeenCredits, kind |-> k]
      BY <2>1 DEF Frame
    <3>3. PICK w \in WalkAways(snap.player, k) :
            frame' = [walkAway |-> w, cap |-> Cap, credits |-> SeenCredits, kind |-> k]
      BY <3>2
    <3>4. frame'.kind = k /\ frame'.walkAway = w
      BY <3>3
    <3>5. QED
      BY <3>1, <3>3, <3>4, WalkAwayIsSafe
  <2>2. CASE ~Frame
    BY <2>2 DEF StartBidder, BidderStep, ReadLot, Hold, Decide, Answered, PollFails, TimesOut,
                BidderKilled, NextPoll
  <2>3. QED
    BY <2>1, <2>2
<1>4. \A r \in flight' : r.by \in Priced => r.price \in Passing[r.player]
  <2>1. CASE flight' = flight
    BY <2>1 DEF CriterionInv
  <2>2. CASE Decide /\ ~Refused(frame)
    <3>1. flight' = flight \cup {Raise} /\ snap \in Lot /\ pc = "framed"
      BY <2>2, RaiseSent DEF RoomInv, PollOK, Decide, Reading
    <3>2. /\ Raise.price = snap.price + Step /\ Raise.player = snap.player
          /\ Raise.by = frame.kind
      BY DEF Raise
    <3>3. ASSUME frame.kind \in Priced
          PROVE  snap.price + Step \in Passing[snap.player]
      <4>1. frame.walkAway \in Nat /\ MinBid .. frame.walkAway \subseteq Passing[snap.player]
        BY <3>1, <3>3 DEF CriterionInv
      <4>2. snap.price \in Nat /\ ~(snap.price + Step > frame.walkAway)
        BY <2>2, <3>1 DEF Refused, Lot
      <4>3. snap.price + Step \in MinBid .. frame.walkAway
        BY <4>1, <4>2 DEF MinBid, Step
      <4>4. QED
        BY <4>1, <4>3
    <3>4. QED
      BY <3>1, <3>2, <3>3 DEF CriterionInv
  <2>3. QED
    BY <2>1, <2>2, BidderMoves DEF RoomInv
<1>5. QED
  BY <1>2, <1>3, <1>4 DEF CriterionInv

LEMMA RoomKeepsCriterion ==
  ASSUME RoomInv, CriterionInv, RoomNext
  PROVE  CriterionInv'
<1>1. UNCHANGED <<pc, snap, frame>> /\ flight' \subseteq flight
  BY RoomLeavesPoll, RoomMoves DEF RoomInv
<1>2. CriterionRespected'
  <2>1. lot # NoLot => lot \in Lot
    BY DEF RoomInv, Shape
  <2>2. ASSUME NEW r \in flight, RaiseArrives(r)
        PROVE  CriterionRespected'
    <3>1. CASE Accepts(r)
      <4>1. lot \in Lot /\ lot.player = r.player
            /\ lot' = [lot EXCEPT !.price = r.price, !.holder = Us, !.by = r.by]
        BY <2>1, <2>2, <3>1 DEF RaiseArrives, Accepts
      <4>2. lot'.player = r.player /\ lot'.price = r.price /\ lot'.by = r.by
        BY <4>1 DEF Lot
      <4>3. QED
        BY <4>2 DEF CriterionInv, CriterionRespected, Priced
    <3>2. CASE ~Accepts(r)
      BY <2>2, <3>2 DEF RaiseArrives, CriterionInv, CriterionRespected, Held
    <3>3. QED
      BY <3>1, <3>2
  <2>3. ASSUME NEW p \in Player, NEW caller \in Seat \cup {Nobody}, Call(p, caller)
        PROVE  CriterionRespected'
    BY <2>3 DEF Call, CriterionRespected
  <2>4. ASSUME NEW seat \in Seat, NEW price \in MinBid .. MaxPrice, BrowserRaise(seat, price)
        PROVE  CriterionRespected'
    <3>1. lot \in Lot
          /\ lot' = [lot EXCEPT !.price = price, !.holder = seat, !.by = "other"]
      BY <2>1, <2>4 DEF BrowserRaise
    <3>2. lot'.by = "other"
      BY <3>1 DEF Lot
    <3>3. QED
      BY <3>2 DEF CriterionRespected
  <2>5. CASE CloseLot \/ Reopen
    <3>1. lot \in Lot
          /\ (lot' = [lot EXCEPT !.closed = TRUE] \/ lot' = [lot EXCEPT !.closed = FALSE])
      BY <2>1, <2>5 DEF CloseLot, Reopen
    <3>2. lot'.player = lot.player /\ lot'.price = lot.price /\ lot'.holder = lot.holder
          /\ lot'.by = lot.by
      BY <3>1 DEF Lot
    <3>3. lot # NoLot
      BY <2>5 DEF CloseLot, Reopen
    <3>4. QED
      BY <3>2, <3>3 DEF CriterionInv, CriterionRespected, Held
  <2>6. CASE Confirm \/ PassStood \/ Annul
    BY <2>6 DEF Confirm, PassStood, Annul, Settle, CriterionRespected, Held
  <2>7. CASE UNCHANGED lot
    BY <2>7 DEF CriterionInv, CriterionRespected, Held
  <2>8. QED
    BY <2>2, <2>3, <2>4, <2>5, <2>6, <2>7 DEF RoomNext, RaiseLost, Undo, FloorPasses, roomVars
<1>3. QED
  BY <1>1, <1>2 DEF CriterionInv

\* No raise of ours ever stands at a price the re-solve rejects.
THEOREM CriterionKept == Spec => []CriterionRespected
<1> DEFINE Inv == RoomInv /\ CriterionInv
<1>1. Init => Inv
  BY InitInv, InitCriterion
<1>2. Inv /\ [Next]_vars => Inv'
  <2> SUFFICES ASSUME Inv, [Next]_vars PROVE CriterionInv'
    BY StepInv
  <2>1. CASE RoomNext
    BY <2>1, RoomKeepsCriterion
  <2>2. CASE StartBidder \/ BidderStep \/ PollFails \/ TimesOut \/ BidderKilled
    BY <2>2, BidderKeepsCriterion
  <2>3. CASE UNCHANGED vars
    BY <2>3 DEF vars, roomVars, bidderVars, CriterionInv, CriterionRespected, Held
  <2>4. QED
    BY <2>1, <2>2, <2>3 DEF Next
<1>3. Inv => CriterionRespected
  BY DEF CriterionInv
<1>4. QED
  BY <1>1, <1>2, <1>3, PTL DEF Spec

-----------------------------------------------------------------------------
(* Sums over a finite set. The library defines a sum by a recursion on the  *)
(* set, from an element it picks: here is that the recursion has a solution, *)
(* that it does not depend on the picks, and how two sums compare.          *)

\* A set of numbers has a least one; so what holds of 0 and passes from each
\* number to the next holds of all.
LEMMA NatOrder == \A T \in SUBSET Nat : T # {} => \E x \in T : \A y \in T : ~(y < x)
<1>1. SUFFICES ASSUME NEW T \in SUBSET Nat, T # {} PROVE \E x \in T : \A y \in T : ~(y < x)
  OBVIOUS
<1>2. PICK x \in T : \A y \in T : ~(<<y, x>> \in OpToRel(<, Nat))
  <2>1. T \subseteq Nat
    OBVIOUS
  <2>2. QED
    BY <1>1, <2>1, NatLessThanWellFounded, WFMin
<1>3. QED
  BY <1>2 DEF OpToRel

LEMMA SetInduction ==
  ASSUME NEW S, 0 \in S, \A n \in Nat : n \in S => n + 1 \in S
  PROVE  Nat \subseteq S
<1>1. SUFFICES ASSUME {n \in Nat : n \notin S} # {} PROVE FALSE
  OBVIOUS
<1>2. PICK x \in {n \in Nat : n \notin S} : \A y \in {n \in Nat : n \notin S} : ~(y < x)
  BY <1>1, NatOrder
<1>3. x - 1 \in Nat /\ x - 1 \in S
  BY <1>2
<1>4. QED
  BY <1>2, <1>3

Pick(T) == CHOOSE x \in T : TRUE

LEMMA PickIn == \A T : T # {} => Pick(T) \in T
BY DEF Pick

\* The parts of a finite set by size, and the recursion a sum is defined by.
Parts(S, n) == {T \in SUBSET S : Cardinality(T) <= n}

SumSolved(g, f, D) ==
  g = [T \in D |-> IF T = {} THEN 0 ELSE f[Pick(T)] + g[T \ {Pick(T)}]]

\* A part without its pick is a part one smaller.
LEMMA PartSmaller ==
  ASSUME NEW S, IsFiniteSet(S), NEW n \in Nat, NEW T \in Parts(S, n + 1), NEW x \in T
  PROVE  T \ {x} \in Parts(S, n)
<1>1. T \subseteq S /\ IsFiniteSet(T)
  BY FS_Subset DEF Parts
<1>2. Cardinality(T \ {x}) = Cardinality(T) - 1 /\ Cardinality(T) \in Nat
  BY <1>1, FS_RemoveElement, FS_CardinalityType
<1>3. Cardinality(T) <= n + 1
  BY DEF Parts
<1>4. Cardinality(T \ {x}) <= n
  BY <1>2, <1>3
<1>5. QED
  BY <1>1, <1>4 DEF Parts

LEMMA SumExists ==
  ASSUME NEW S, IsFiniteSet(S), NEW f
  PROVE  \E g : SumSolved(g, f, SUBSET S)
<1> DEFINE Good == {n \in Nat : \E g : SumSolved(g, f, Parts(S, n))}
<1>1. 0 \in Good
  <2> DEFINE g == [T \in Parts(S, 0) |-> 0]
  <2>1. ASSUME NEW T \in Parts(S, 0) PROVE T = {}
    <3>1. IsFiniteSet(T) /\ Cardinality(T) \in Nat /\ Cardinality(T) <= 0
      BY FS_Subset, FS_CardinalityType DEF Parts
    <3>2. QED
      BY <3>1, FS_EmptySet
  <2>2. SumSolved(g, f, Parts(S, 0))
    BY <2>1 DEF SumSolved
  <2>3. QED
    BY <2>2
<1>2. ASSUME NEW n \in Nat, n \in Good PROVE n + 1 \in Good
  <2>1. PICK g : SumSolved(g, f, Parts(S, n))
    BY <1>2
  <2> DEFINE h == [T \in Parts(S, n + 1) |->
                     IF T = {} THEN 0 ELSE f[Pick(T)] + g[T \ {Pick(T)}]]
  <2>2. ASSUME NEW T \in Parts(S, n + 1), T # {} PROVE h[T \ {Pick(T)}] = g[T \ {Pick(T)}]
    <3> DEFINE U == T \ {Pick(T)}
    <3>1. U \in Parts(S, n)
      BY <2>2, PartSmaller, PickIn
    <3>2. Cardinality(U) <= n + 1 /\ U \subseteq S
      <4>1. IsFiniteSet(U) /\ Cardinality(U) \in Nat /\ Cardinality(U) <= n
        BY <3>1, FS_Subset, FS_CardinalityType DEF Parts
      <4>2. QED
        BY <3>1, <4>1 DEF Parts
    <3>3. U \in Parts(S, n + 1)
      BY <3>2 DEF Parts
    <3> HIDE DEF U
    <3>4. h[U] = IF U = {} THEN 0 ELSE f[Pick(U)] + g[U \ {Pick(U)}]
      BY <3>3
    <3>5. g[U] = IF U = {} THEN 0 ELSE f[Pick(U)] + g[U \ {Pick(U)}]
      BY <2>1, <3>1 DEF SumSolved
    <3>6. QED
      BY <3>4, <3>5 DEF U
  <2>3. h = [T \in Parts(S, n + 1) |-> IF T = {} THEN 0 ELSE f[Pick(T)] + h[T \ {Pick(T)}]]
    BY <2>2
  <2>4. SumSolved(h, f, Parts(S, n + 1))
    BY <2>3 DEF SumSolved
  <2>5. QED
    BY <2>4
<1> HIDE DEF Good
<1>3. Nat \subseteq Good
  BY <1>1, <1>2, SetInduction
<1>4. Cardinality(S) \in Nat /\ Parts(S, Cardinality(S)) = SUBSET S
  BY FS_CardinalityType, FS_Subset DEF Parts
<1>5. QED
  BY <1>3, <1>4 DEF Good

\* A function of the parts of S that sums f over them.
Summing(g, f, S) ==
  /\ g[{}] = 0
  /\ \A T \in SUBSET S : T # {} => g[T] = f[Pick(T)] + g[T \ {Pick(T)}]

\* What the library's sum computes.
LEMMA SumEquations ==
  ASSUME NEW S, IsFiniteSet(S), NEW f
  PROVE  \E g : Summing(g, f, S) /\ SumFunctionOnSet(f, S) = g[S]
<1> DEFINE g == CHOOSE g : SumSolved(g, f, SUBSET S)
<1>1. SumSolved(g, f, SUBSET S)
  BY SumExists
<1>2. SumFunctionOnSet(f, S) = g[S]
  BY DEF SumFunctionOnSet, FoldFunctionOnSet, MapThenFoldSet, SumSolved, Pick
<1>3. Summing(g, f, S)
  BY <1>1 DEF SumSolved, Summing
<1>4. QED
  BY <1>2, <1>3

\* Induction over the parts of a finite set, for a set of them.
LEMMA PartsInduction ==
  ASSUME NEW S, IsFiniteSet(S), NEW Q, {} \in Q,
         \A T \in SUBSET S : T # {} /\ (\A x \in T : T \ {x} \in Q) => T \in Q
  PROVE  SUBSET S \subseteq Q
<1> DEFINE Good == {n \in Nat : Parts(S, n) \subseteq Q}
<1>1. 0 \in Good
  <2>1. ASSUME NEW T \in Parts(S, 0) PROVE T \in Q
    <3>1. IsFiniteSet(T) /\ Cardinality(T) \in Nat /\ Cardinality(T) <= 0
      BY FS_Subset, FS_CardinalityType DEF Parts
    <3>2. T = {}
      BY <3>1, FS_EmptySet
    <3>3. QED
      BY <3>2
  <2>2. QED
    BY <2>1
<1>2. ASSUME NEW n \in Nat, n \in Good PROVE n + 1 \in Good
  <2>1. ASSUME NEW T \in Parts(S, n + 1) PROVE T \in Q
    <3>1. \A x \in T : T \ {x} \in Q
      BY <1>2, PartSmaller
    <3>2. T \in SUBSET S
      BY DEF Parts
    <3>3. QED
      BY <3>1, <3>2
  <2>2. QED
    BY <2>1
<1> HIDE DEF Good
<1>3. Nat \subseteq Good
  BY <1>1, <1>2, SetInduction
<1>4. Cardinality(S) \in Nat /\ Parts(S, Cardinality(S)) = SUBSET S
  BY FS_CardinalityType, FS_Subset DEF Parts
<1>5. QED
  BY <1>3, <1>4 DEF Good

LEMMA SummingType ==
  ASSUME NEW S, IsFiniteSet(S), NEW f, \A x \in S : f[x] \in Int, NEW g, Summing(g, f, S)
  PROVE  \A T \in SUBSET S : g[T] \in Int
<1> DEFINE Q == {T \in SUBSET S : g[T] \in Int}
<1>1. {} \in Q
  BY DEF Summing
<1>2. ASSUME NEW T \in SUBSET S, T # {}, \A x \in T : T \ {x} \in Q PROVE T \in Q
  <2>1. Pick(T) \in T /\ g[T] = f[Pick(T)] + g[T \ {Pick(T)}]
    BY <1>2, PickIn DEF Summing
  <2>2. g[T \ {Pick(T)}] \in Int /\ f[Pick(T)] \in Int
    BY <1>2, <2>1
  <2>3. g[T] \in Int
    BY <2>1, <2>2
  <2>4. QED
    BY <2>3
<1> HIDE DEF Q
<1>3. SUBSET S \subseteq Q
  BY <1>1, <1>2, PartsInduction
<1>4. QED
  BY <1>3 DEF Q

\* The sum does not depend on the element picked first.
LEMMA SummingAny ==
  ASSUME NEW S, IsFiniteSet(S), NEW f, \A x \in S : f[x] \in Int, NEW g, Summing(g, f, S)
  PROVE  \A T \in SUBSET S : \A x \in T : g[T] = f[x] + g[T \ {x}]
<1> DEFINE Q == {T \in SUBSET S : \A x \in T : g[T] = f[x] + g[T \ {x}]}
<1>0. \A T \in SUBSET S : g[T] \in Int
  BY SummingType
<1>1. {} \in Q
  OBVIOUS
<1>2. ASSUME NEW T \in SUBSET S, T # {}, \A x \in T : T \ {x} \in Q PROVE T \in Q
  <2> DEFINE y == Pick(T)
  <2>1. y \in T /\ g[T] = f[y] + g[T \ {y}]
    BY <1>2, PickIn DEF Summing
  <2> HIDE DEF y
  <2>2. ASSUME NEW x \in T, x # y PROVE g[T] = f[x] + g[T \ {x}]
    <3>1. x \in T \ {y} /\ y \in T \ {x} /\ (T \ {y}) \ {x} = (T \ {x}) \ {y}
      BY <2>1, <2>2
    <3>2. T \ {x} \in Q /\ T \ {y} \in Q
      BY <1>2, <2>1
    <3>3. g[T \ {y}] = f[x] + g[(T \ {y}) \ {x}]
      BY <3>1, <3>2
    <3>4. g[T \ {x}] = f[y] + g[(T \ {x}) \ {y}]
      BY <3>1, <3>2
    <3>5. f[x] \in Int /\ f[y] \in Int /\ g[(T \ {x}) \ {y}] \in Int
      BY <1>0, <2>1
    <3> DEFINE rest == g[(T \ {x}) \ {y}]
    <3>6. g[T] = f[y] + (f[x] + rest) /\ g[T \ {x}] = f[y] + rest
      BY <2>1, <3>1, <3>3, <3>4
    <3> HIDE DEF rest
    <3>7. rest \in Int
      BY <3>5 DEF rest
    <3>8. QED
      BY <3>5, <3>6, <3>7
  <2>3. QED
    BY <2>1, <2>2
<1> HIDE DEF Q
<1>3. SUBSET S \subseteq Q
  BY <1>1, <1>2, PartsInduction
<1>4. QED
  BY <1>3 DEF Q

\* Sums compare as their terms do, whatever set each was summed in.
LEMMA SummingCompare ==
  ASSUME NEW S, IsFiniteSet(S), NEW f, \A x \in S : f[x] \in Int, NEW g, Summing(g, f, S),
         NEW R, IsFiniteSet(R), NEW e, \A x \in R : e[x] \in Int, NEW h, Summing(h, e, R),
         S \subseteq R, \A x \in S : f[x] <= e[x]
  PROVE  g[S] <= h[S]
<1> DEFINE Q == {T \in SUBSET S : g[T] <= h[T]}
<1>0. (\A T \in SUBSET S : g[T] \in Int) /\ (\A T \in SUBSET R : h[T] \in Int)
  BY SummingType
<1>1. {} \in Q
  BY DEF Summing
<1>2. ASSUME NEW T \in SUBSET S, T # {}, \A x \in T : T \ {x} \in Q PROVE T \in Q
  <2>1. PICK x \in T : TRUE
    BY <1>2
  <2>2. g[T] = f[x] + g[T \ {x}]
    BY SummingAny
  <2>3. h[T] = e[x] + h[T \ {x}]
    <3>1. T \in SUBSET R
      OBVIOUS
    <3>2. QED
      BY <3>1, SummingAny
  <2>4. T \ {x} \in Q
    BY <1>2
  <2>5. g[T \ {x}] <= h[T \ {x}] /\ f[x] <= e[x]
    BY <2>4
  <2>6. g[T \ {x}] \in Int /\ h[T \ {x}] \in Int /\ f[x] \in Int /\ e[x] \in Int
    BY <1>0
  <2>7. g[T] <= h[T]
    BY <2>2, <2>3, <2>5, <2>6
  <2>8. QED
    BY <2>7
<1> HIDE DEF Q
<1>3. SUBSET S \subseteq Q
  BY <1>1, <1>2, PartsInduction
<1>4. QED
  BY <1>3 DEF Q

-----------------------------------------------------------------------------
(* What a total is, of integer terms.                                      *)

Ints(f) == IsFiniteSet(DOMAIN f) /\ \A x \in DOMAIN f : f[x] \in Int

LEMMA TotalType ==
  ASSUME NEW f, Ints(f)
  PROVE  SumFunction(f) \in Int
<1>1. PICK g : Summing(g, f, DOMAIN f) /\ SumFunctionOnSet(f, DOMAIN f) = g[DOMAIN f]
  BY SumEquations DEF Ints
<1>2. g[DOMAIN f] \in Int
  BY <1>1, SummingType DEF Ints
<1>3. QED
  BY <1>1, <1>2 DEF SumFunction

LEMMA TotalEmpty ==
  ASSUME NEW f, DOMAIN f = {}
  PROVE  SumFunction(f) = 0
<1>1. PICK g : Summing(g, f, {}) /\ SumFunctionOnSet(f, {}) = g[{}]
  BY SumEquations, FS_EmptySet
<1>2. QED
  BY <1>1 DEF SumFunction, Summing

\* A term no smaller for each term makes a total no smaller; so equal terms
\* make equal totals.
LEMMA TotalCompare ==
  ASSUME NEW f, Ints(f), NEW e, Ints(e), DOMAIN f = DOMAIN e, \A x \in DOMAIN f : f[x] <= e[x]
  PROVE  SumFunction(f) <= SumFunction(e)
<1>1. PICK g : Summing(g, f, DOMAIN f) /\ SumFunctionOnSet(f, DOMAIN f) = g[DOMAIN f]
  BY SumEquations DEF Ints
<1>2. PICK h : Summing(h, e, DOMAIN e) /\ SumFunctionOnSet(e, DOMAIN e) = h[DOMAIN e]
  BY SumEquations DEF Ints
<1>3. g[DOMAIN f] <= h[DOMAIN f]
  BY <1>1, <1>2, SummingCompare DEF Ints
<1>4. QED
  BY <1>1, <1>2, <1>3 DEF SumFunction

\* One term more.
LEMMA TotalAdd ==
  ASSUME NEW f, Ints(f), NEW x \in DOMAIN f, NEW e, Ints(e),
         DOMAIN e = DOMAIN f \ {x}, \A y \in DOMAIN e : e[y] = f[y]
  PROVE  SumFunction(f) = f[x] + SumFunction(e)
<1>1. PICK g : Summing(g, f, DOMAIN f) /\ SumFunctionOnSet(f, DOMAIN f) = g[DOMAIN f]
  BY SumEquations DEF Ints
<1>2. PICK h : Summing(h, e, DOMAIN e) /\ SumFunctionOnSet(e, DOMAIN e) = h[DOMAIN e]
  BY SumEquations DEF Ints
<1>3. g[DOMAIN f] = f[x] + g[DOMAIN e]
  BY <1>1, SummingAny DEF Ints
<1>4. h[DOMAIN e] <= g[DOMAIN e]
  <2>1. DOMAIN e \subseteq DOMAIN f /\ \A y \in DOMAIN e : e[y] <= f[y]
    BY DEF Ints
  <2>2. QED
    BY <1>1, <1>2, <2>1, SummingCompare DEF Ints
<1>5. g[DOMAIN e] <= h[DOMAIN e]
  <2>1. Summing(g, f, DOMAIN e)
    <3>1. DOMAIN e \subseteq DOMAIN f
      OBVIOUS
    <3>2. QED
      BY <1>1, <3>1 DEF Summing
  <2>2. \A y \in DOMAIN e : f[y] \in Int /\ f[y] <= e[y]
    BY DEF Ints
  <2>3. QED
    BY <1>2, <2>1, <2>2, SummingCompare DEF Ints
<1>6. g[DOMAIN e] \in Int /\ h[DOMAIN e] \in Int
  <2>1. DOMAIN e \in SUBSET DOMAIN f
    OBVIOUS
  <2>2. QED
    BY <1>1, <1>2, <2>1, SummingType DEF Ints
<1>7. g[DOMAIN e] = h[DOMAIN e]
  BY <1>4, <1>5, <1>6
<1>8. QED
  BY <1>1, <1>2, <1>3, <1>7 DEF SumFunction

\* Terms of at least one make a total of at least their number.
LEMMA TotalCounts ==
  ASSUME NEW f, Ints(f), \A x \in DOMAIN f : f[x] >= 1
  PROVE  SumFunction(f) >= Cardinality(DOMAIN f)
<1>0. IsFiniteSet(DOMAIN f) /\ \A x \in DOMAIN f : f[x] \in Int /\ f[x] >= 1
  BY DEF Ints
<1>1. PICK g : Summing(g, f, DOMAIN f) /\ SumFunctionOnSet(f, DOMAIN f) = g[DOMAIN f]
  BY <1>0, SumEquations
<1>2. \A U \in SUBSET DOMAIN f : g[U] \in Int
  BY <1>0, <1>1, SummingType
<1>3. ASSUME NEW U \in SUBSET DOMAIN f, NEW y \in U
      PROVE  g[U] = f[y] + g[U \ {y}]
  BY <1>1, SummingAny DEF Ints
<1> DEFINE S == DOMAIN f
<1> DEFINE Q == {T \in SUBSET S : g[T] >= Cardinality(T)}
<1>4. {} \in Q
  BY <1>1, FS_EmptySet DEF Summing
<1>5. ASSUME NEW T \in SUBSET S, T # {}, \A x \in T : T \ {x} \in Q PROVE T \in Q
  <2>1. PICK x \in T : TRUE
    BY <1>5
  <2>2. g[T] = f[x] + g[T \ {x}] /\ g[T] \in Int /\ g[T \ {x}] \in Int
    BY <1>2, <1>3
  <2>3. IsFiniteSet(T)
    BY <1>0, FS_Subset
  <2>4. Cardinality(T \ {x}) = Cardinality(T) - 1 /\ Cardinality(T) \in Nat
    BY <2>3, FS_RemoveElement, FS_CardinalityType
  <2>5. g[T \ {x}] >= Cardinality(T \ {x})
    BY <1>5, <2>1
  <2>6. f[x] \in Int /\ f[x] >= 1
    BY <1>0
  <2>7. g[T] >= Cardinality(T)
    BY <2>2, <2>4, <2>5, <2>6
  <2>8. QED
    BY <2>7
<1> HIDE DEF Q
<1>6. SUBSET S \subseteq Q
  BY <1>0, <1>4, <1>5, PartsInduction
<1>7. QED
  BY <1>1, <1>6 DEF Q, S, SumFunction

-----------------------------------------------------------------------------
(* The numbers of a frame.                                                 *)

\* The players with a record in the ledger.
Sold == {p \in Player : ledger[p] # NoSale}

\* A purse is summed over a ledger that is never infinite.
LedgerFinite == IsFiniteSet(Sold)

\* A step adds to the ledger at most the lot it settles.
LEMMA SoldMoves ==
  ASSUME Shape, [Next]_vars
  PROVE  Sold' \subseteq Sold \cup {lot.player}
<1>1. \/ ledger' = ledger
      \/ \E p, r : ledger' = [ledger EXCEPT ![p] = r] /\ (p = lot.player \/ r = NoSale)
  <2>1. CASE RoomNext
    <3>1. CASE \E p \in Player : Undo(p)
      BY <3>1 DEF Undo
    <3>2. CASE Confirm \/ PassStood
      BY <3>2 DEF Confirm, PassStood, Settle
    <3>3. CASE ~((\E p \in Player : Undo(p)) \/ Confirm \/ PassStood)
      BY <2>1, <3>3 DEF RoomNext, Call, BrowserRaise, RaiseArrives, RaiseLost, CloseLot, Reopen,
                        Annul, FloorPasses, roomVars
    <3>4. QED
      BY <3>1, <3>2, <3>3
  <2>2. CASE StartBidder \/ BidderStep \/ PollFails \/ TimesOut \/ BidderKilled
    BY <2>2 DEF StartBidder, BidderStep, ReadLot, Frame, Hold, Decide, Answered, PollFails,
                TimesOut, BidderKilled, roomVars
  <2>3. CASE UNCHANGED vars
    BY <2>3 DEF vars, roomVars
  <2>4. QED
    BY <2>1, <2>2, <2>3 DEF Next
<1>2. ledger \in [Player -> Purchase \cup {NoSale}]
  BY DEF Shape
<1>3. QED
  BY <1>1, <1>2 DEF Sold

LEMMA LedgerStaysFinite ==
  ASSUME Shape, LedgerFinite, [Next]_vars
  PROVE  LedgerFinite'
<1>1. IsFiniteSet(Sold \cup {lot.player})
  BY FS_AddElement DEF LedgerFinite
<1>2. QED
  BY <1>1, SoldMoves, FS_Subset DEF LedgerFinite

LEMMA MaxBidType ==
  ASSUME NEW credits \in Int, NEW required \in Int
  PROVE  MaxBid(credits, required) \in Nat
BY DEF MaxBid, AtLeastZero

\* What the bidder makes of a ledger is integral, and so is what it sums to.
LEMMA SeenType ==
  ASSUME Shape, LedgerFinite
  PROVE  /\ IsFiniteSet(SeenOwned)
         /\ Ints([p \in SeenOwned |-> SeenPrice(p)])
         /\ SeenCredits \in Int /\ SeenSlots \in Int /\ Cap \in Nat
<1>1. SeenOwned \subseteq Sold
  BY RoomAssumption DEF SeenOwned, Sold
<1>2. IsFiniteSet(SeenOwned)
  BY <1>1, FS_Subset DEF LedgerFinite
<1>3. ASSUME NEW p \in SeenOwned
      PROVE  SeenPrice(p) \in Int
  <2>1. p \in Player /\ ledger[p] \in Purchase
    BY RoomAssumption DEF SeenOwned, Shape
  <2>2. Book[p] \in Int /\ ledger[p].price \in Int
    BY <2>1, RoomAssumption DEF Purchase
  <2>3. QED
    BY <2>2 DEF SeenPrice
<1>4. Ints([p \in SeenOwned |-> SeenPrice(p)])
  BY <1>2, <1>3 DEF Ints
<1>5. SeenCost(SeenOwned) \in Int
  BY <1>4, TotalType DEF SeenCost
<1>6. SeenCredits \in Int
  BY <1>5, RoomAssumption DEF SeenCredits
<1>7. SeenSlots \in Int
  <2>1. Cardinality(SeenOwned) \in Nat
    BY <1>2, FS_CardinalityType
  <2>2. QED
    BY <2>1, RoomAssumption DEF SeenSlots
<1>8. QED
  BY <1>2, <1>4, <1>6, <1>7, MaxBidType DEF Cap

LEMMA WalkAwayType ==
  ASSUME Shape, LedgerFinite, NEW p \in Player, NEW k \in Kind, NEW w \in WalkAways(p, k)
  PROVE  w \in Nat
<1>1. CASE k = "essential"
  <2>1. w = 0 \/ w = Cap
    BY <1>1 DEF WalkAways, HardCap
  <2>2. QED
    BY <2>1, SeenType
<1>2. CASE k # "essential"
  <2>1. k \in Priced
    BY <1>2 DEF Kind, Priced
  <2>2. QED
    BY <2>1, WalkAwayIsSafe
<1>3. QED
  BY <1>1, <1>2

\* The lot was read, the ledger after it, and the frame is made of the two.
LEMMA FrameMade ==
  ASSUME Shape, PollOK, LedgerFinite, Frame
  PROVE  \E k \in Kind : \E w \in WalkAways(snap.player, k) :
           /\ frame' = [walkAway |-> w, cap |-> Cap, credits |-> SeenCredits, kind |-> k]
           /\ w \in Nat
<1>1. PICK k \in Kinds[snap.player] \ {"hold"} : \E w \in WalkAways(snap.player, k) :
        frame' = [walkAway |-> w, cap |-> Cap, credits |-> SeenCredits, kind |-> k]
  BY DEF Frame
<1>2. snap.player \in Player
  BY FrameKind
<1>3. k \in Kind
  BY <1>1, <1>2, RoomAssumption
<1>4. QED
  BY <1>1, <1>2, <1>3, WalkAwayType

\* A poll that has decided has its numbers.
FrameTypes ==
  /\ frame \in Frames \cup {NoRaise}
  /\ pc = "framed" => frame \in Frames

LEMMA FrameTyped ==
  ASSUME RoomInv, LedgerFinite, FrameTypes, [Next]_vars
  PROVE  FrameTypes'
<1>1. CASE Frame
  <2>1. PICK k \in Kind : \E w \in WalkAways(snap.player, k) :
           /\ frame' = [walkAway |-> w, cap |-> Cap, credits |-> SeenCredits, kind |-> k]
           /\ w \in Nat
    BY <1>1, FrameMade DEF RoomInv
  <2>2. Cap \in Nat /\ SeenCredits \in Int
    BY SeenType DEF RoomInv
  <2>3. QED
    BY <2>1, <2>2 DEF Frames, FrameTypes
<1>2. CASE ~Frame
  <2>1. CASE RoomNext
    BY <2>1, RoomLeavesPoll DEF FrameTypes
  <2>2. CASE StartBidder \/ BidderStep \/ PollFails \/ TimesOut \/ BidderKilled
    BY <1>2, <2>2 DEF StartBidder, BidderStep, ReadLot, Hold, Decide, Answered, PollFails, TimesOut,
                      BidderKilled, NextPoll, Locals, FrameTypes
  <2>3. CASE UNCHANGED vars
    BY <2>3 DEF vars, bidderVars, FrameTypes
  <2>4. QED
    BY <2>1, <2>2, <2>3 DEF Next
<1>3. QED
  BY <1>1, <1>2

\* The invariant of the types, with the numbers of a frame.
FullInv == RoomInv /\ LedgerFinite /\ FrameTypes

LEMMA InitFull == Init => FullInv
<1> SUFFICES ASSUME Init PROVE FullInv
  OBVIOUS
<1>1. Sold = {}
  BY DEF Init, Sold
<1>2. LedgerFinite
  BY <1>1, FS_EmptySet DEF LedgerFinite
<1>3. QED
  BY <1>2, InitInv DEF Init, FullInv, FrameTypes

LEMMA StepFull == FullInv /\ [Next]_vars => FullInv'
<1> SUFFICES ASSUME FullInv, [Next]_vars PROVE FullInv'
  OBVIOUS
<1>1. RoomInv'
  BY StepInv DEF FullInv
<1>2. LedgerFinite'
  BY LedgerStaysFinite DEF FullInv, RoomInv
<1>3. FrameTypes'
  BY FrameTyped DEF FullInv
<1>4. QED
  BY <1>1, <1>2, <1>3 DEF FullInv

\* Every variable holds a value of its kind, the numbers of a frame included: a
\* cap is never negative, even for a seat the ledger shows overdrawn.
THEOREM TypeCorrect == Spec => []TypeOK
<1>1. FullInv => TypeOK
  BY DEF FullInv, RoomInv, FrameTypes, TypeOK
<1>2. QED
  BY InitFull, StepFull, <1>1, PTL DEF Spec

-----------------------------------------------------------------------------
(* What our seat has paid, and for how many.                               *)

OursIn(l) == {p \in Player : l[p] # NoSale /\ l[p].bidder = Us}
PaidIn(l) == SumFunction([p \in OursIn(l) |-> l[p].stood])

\* A ledger in which our purchases are finitely many.
Ledgers == {l \in [Player -> Purchase \cup {NoSale}] : IsFiniteSet(OursIn(l))}

LEMMA PaidType ==
  ASSUME NEW l \in Ledgers
  PROVE  /\ Ints([p \in OursIn(l) |-> l[p].stood])
         /\ PaidIn(l) \in Int /\ Cardinality(OursIn(l)) \in Nat
<1>1. ASSUME NEW p \in OursIn(l)
      PROVE  l[p].stood \in Int
  BY DEF OursIn, Ledgers, Purchase
<1>2. Ints([p \in OursIn(l) |-> l[p].stood])
  BY <1>1 DEF Ints, Ledgers
<1>3. PaidIn(l) \in Int
  BY <1>2, TotalType DEF PaidIn
<1>4. QED
  BY <1>2, <1>3, FS_CardinalityType DEF Ledgers

\* A sale to us is one player more at the price he went for, and any other sale
\* leaves what we paid alone.
LEMMA SaleAdds ==
  ASSUME NEW l \in Ledgers, NEW p \in Player, l[p] = NoSale,
         NEW m \in [Player -> Purchase \cup {NoSale}], m[p] # NoSale,
         \A q \in Player \ {p} : m[q] = l[q]
  PROVE  /\ m \in Ledgers
         /\ m[p].bidder = Us => /\ PaidIn(m) = PaidIn(l) + m[p].stood
                                /\ Cardinality(OursIn(m)) = Cardinality(OursIn(l)) + 1
         /\ m[p].bidder # Us => /\ PaidIn(m) = PaidIn(l)
                                /\ Cardinality(OursIn(m)) = Cardinality(OursIn(l))
<1>1. m[p] \in Purchase
  OBVIOUS
<1>2. p \notin OursIn(l)
  BY DEF OursIn
<1>3. CASE m[p].bidder = Us
  <2>1. OursIn(m) = OursIn(l) \cup {p}
    BY <1>1, <1>3 DEF OursIn
  <2>2. m \in Ledgers
    <3>1. IsFiniteSet(OursIn(l))
      BY DEF Ledgers
    <3>2. IsFiniteSet(OursIn(l) \cup {p})
      BY <3>1, FS_AddElement
    <3>3. QED
      BY <1>1, <2>1, <3>2 DEF Ledgers
  <2>3. Cardinality(OursIn(m)) = Cardinality(OursIn(l)) + 1
    BY <1>2, <2>1, FS_AddElement DEF Ledgers
  <2> DEFINE f == [q \in OursIn(m) |-> m[q].stood]
             e == [q \in OursIn(l) |-> l[q].stood]
  <2>4. Ints(f) /\ Ints(e)
    BY <2>2, PaidType
  <2>5. /\ p \in DOMAIN f /\ f[p] = m[p].stood
        /\ DOMAIN e = DOMAIN f \ {p}
        /\ \A q \in DOMAIN e : e[q] = f[q]
    BY <1>1, <1>2, <2>1 DEF OursIn
  <2>6. PaidIn(m) = SumFunction(f) /\ PaidIn(l) = SumFunction(e)
    BY DEF PaidIn
  <2>7. SumFunction(e) \in Int /\ f[p] \in Int
    BY <2>4, <2>5, TotalType DEF Ints
  <2> HIDE DEF f, e
  <2>8. SumFunction(f) = f[p] + SumFunction(e)
    BY <2>4, <2>5, TotalAdd
  <2>9. QED
    BY <1>3, <2>2, <2>3, <2>5, <2>6, <2>7, <2>8
<1>4. CASE m[p].bidder # Us
  <2>1. OursIn(m) = OursIn(l)
    BY <1>1, <1>2, <1>4 DEF OursIn
  <2>2. [q \in OursIn(m) |-> m[q].stood] = [q \in OursIn(l) |-> l[q].stood]
    BY <1>1, <1>2, <2>1 DEF OursIn
  <2>3. PaidIn(m) = PaidIn(l)
    BY <2>2 DEF PaidIn
  <2>4. QED
    BY <1>1, <1>4, <2>1, <2>3 DEF Ledgers
<1>5. QED
  BY <1>3, <1>4

\* A sale undone leaves what was before it.
LEMMA UndoSubtracts ==
  ASSUME NEW l \in Ledgers, NEW p \in Player, l[p] # NoSale,
         NEW m \in [Player -> Purchase \cup {NoSale}], m[p] = NoSale,
         \A q \in Player \ {p} : m[q] = l[q]
  PROVE  /\ m \in Ledgers
         /\ l[p].bidder = Us => /\ PaidIn(l) = PaidIn(m) + l[p].stood
                                /\ Cardinality(OursIn(l)) = Cardinality(OursIn(m)) + 1
         /\ l[p].bidder # Us => /\ PaidIn(l) = PaidIn(m)
                                /\ Cardinality(OursIn(l)) = Cardinality(OursIn(m))
<1>1. OursIn(m) \subseteq OursIn(l)
  BY DEF OursIn
<1>2. m \in Ledgers
  BY <1>1, FS_Subset DEF Ledgers
<1>3. l \in [Player -> Purchase \cup {NoSale}] /\ \A q \in Player \ {p} : l[q] = m[q]
  BY DEF Ledgers
<1>4. QED
  BY <1>2, <1>3, SaleAdds

-----------------------------------------------------------------------------
(* The credits behind a raise.                                             *)

\* The most any lot may go for in the hands of a seat that must fill its rosa.
Top == Budget - Size + 1

\* What the bidder must be able to make of every purchase of ours: whose it is,
\* and no less than it cost. A skip that hides a raise of ours is the only
\* record without its price: it needs the seats to be known, to be read as a
\* purchase at all, and a clearing price no lower than the raise.
Legible ==
  /\ Mapped = Player
  /\ "pass" \in Disturbances =>
       KnowsSeats /\ \A p \in Player : Book[p] >= MaxBid(Budget, Size)

LotOK ==
  lot # NoLot => /\ lot.price >= MinBid
                 /\ ledger[lot.player] = NoSale
                 /\ lot.holder = Us => lot.price <= Top

\* A sale, a routine skip, or a skip that hides a raise.
SaleOK(r) ==
  /\ r.stood >= MinBid
  /\ r.bidder = Us => r.stood <= Top
  /\ \/ r.buyer # Nobody /\ r.bidder = r.buyer /\ r.price = r.stood
     \/ r.buyer = Nobody /\ r.bidder = Admin
     \/ r.buyer = Nobody /\ r.price = 0 /\ r.bidder # Admin /\ "pass" \in Disturbances

LedgerOK == \A p \in Sold : SaleOK(ledger[p])

\* The platform's account is the ledger's.
AccountOK ==
  /\ account.credits = Budget - PaidIn(ledger)
  /\ account.slots = Size - Cardinality(OursIn(ledger))

\* A cap is never more than the client would allow, as long as the lot it was
\* computed for is on the block: then nothing of ours has been sold since.
FrameOK ==
  pc = "framed" /\ frame.walkAway > 0 =>
    /\ frame.cap <= Top
    /\ lot # NoLot /\ lot.turn = snap.turn => frame.cap <= ClientMax

RaisesOK ==
  \A r \in flight :
    /\ r.price <= Top
    /\ lot # NoLot /\ lot.turn = r.turn => r.price <= ClientMax

CreditInv == LotOK /\ LedgerOK /\ AccountOK /\ FrameOK /\ RaisesOK /\ RosaCompletable

LEMMA TopIsMax == Top \in Nat /\ Top >= 1 /\ Top = MaxBid(Budget, Size)
BY RoomAssumption DEF Top, MaxBid, AtLeastZero

\* A larger purse for as many slots, or for fewer, is a larger cap.
LEMMA MaxBidGrows ==
  ASSUME NEW c \in Int, NEW n \in Int, NEW d \in Int, NEW m \in Int,
         n >= 1, m >= 1, c - n <= d - m
  PROVE  MaxBid(c, n) <= MaxBid(d, m)
BY DEF MaxBid, AtLeastZero

LEMMA LedgerLegal ==
  ASSUME FullInv
  PROVE  /\ ledger \in Ledgers
         /\ PaidIn(ledger) \in Int /\ Cardinality(OursIn(ledger)) \in Nat
<1>1. OursIn(ledger) \subseteq Sold
  BY DEF OursIn, Sold
<1>2. IsFiniteSet(OursIn(ledger))
  BY <1>1, FS_Subset DEF FullInv, LedgerFinite
<1>3. ledger \in Ledgers
  BY <1>2 DEF FullInv, RoomInv, Shape, Ledgers
<1>4. QED
  BY <1>3, PaidType

\* Nobody pays less than a credit a player, so the client never shows more than
\* the most a lot may go for.
LEMMA PaidCounts ==
  ASSUME FullInv, LedgerOK
  PROVE  PaidIn(ledger) >= Cardinality(OursIn(ledger))
<1> DEFINE f == [p \in OursIn(ledger) |-> ledger[p].stood]
<1>1. Ints(f)
  BY LedgerLegal, PaidType
<1>2. \A p \in DOMAIN f : f[p] >= 1
  BY DEF OursIn, LedgerOK, Sold, SaleOK, MinBid
<1>3. DOMAIN f = OursIn(ledger) /\ PaidIn(ledger) = SumFunction(f)
  BY DEF PaidIn
<1> HIDE DEF f
<1>4. SumFunction(f) >= Cardinality(DOMAIN f)
  BY <1>1, <1>2, TotalCounts
<1>5. QED
  BY <1>3, <1>4

LEMMA ClientMaxBounded ==
  ASSUME FullInv, LedgerOK, AccountOK
  PROVE  ClientMax \in Nat /\ ClientMax <= Top
<1>1. account.credits \in Int /\ account.slots \in Int
  BY DEF FullInv, RoomInv, Shape
<1>2. account.credits - account.slots <= Budget - Size
  BY LedgerLegal, PaidCounts, RoomAssumption DEF AccountOK
<1>3. QED
  BY <1>1, <1>2, RoomAssumption DEF ClientMax, MaxBid, AtLeastZero, Top

\* A ledger the bidder can make out whole shows it every purchase of ours, at no
\* less than it cost.
LEMMA SeenWhole ==
  ASSUME FullInv, LedgerOK, Legible
  PROVE  /\ SeenOwned = OursIn(ledger)
         /\ \A p \in OursIn(ledger) : SeenPrice(p) >= ledger[p].stood
<1>1. ASSUME NEW p \in Player, ledger[p] # NoSale
      PROVE  /\ SeenBuyer(p) = Us <=> ledger[p].bidder = Us
             /\ ledger[p].bidder = Us => SeenPrice(p) >= ledger[p].stood
  <2>1. ledger[p] \in Purchase /\ SaleOK(ledger[p])
    BY <1>1 DEF FullInv, RoomInv, Shape, LedgerOK, Sold
  <2>2. ledger[p].stood \in Nat /\ ledger[p].price \in Nat
    BY <2>1 DEF Purchase
  <2>3. Us # Nobody /\ Admin # Us
    BY RoomAssumption DEF Seat
  <2>4. CASE ledger[p].buyer # Nobody /\ ledger[p].bidder = ledger[p].buyer
             /\ ledger[p].price = ledger[p].stood
    BY <2>2, <2>4 DEF SeenBuyer, SeenPrice, Reclaimed
  <2>5. CASE ledger[p].buyer = Nobody /\ ledger[p].bidder = Admin
    BY <2>3, <2>5 DEF SeenBuyer, Reclaimed
  <2>6. CASE ledger[p].buyer = Nobody /\ ledger[p].price = 0 /\ ledger[p].bidder # Admin
             /\ "pass" \in Disturbances
    <3>1. Reclaimed(p) /\ Book[p] >= Top /\ Book[p] \in Nat
      BY <2>6, TopIsMax, RoomAssumption DEF Legible, Reclaimed
    <3>2. ledger[p].bidder = Us => ledger[p].stood <= Top
      BY <2>1 DEF SaleOK
    <3>3. QED
      BY <2>2, <3>1, <3>2, TopIsMax DEF SeenBuyer, SeenPrice
  <2>7. QED
    BY <2>1, <2>4, <2>5, <2>6 DEF SaleOK
<1>2. SeenOwned = OursIn(ledger)
  BY <1>1 DEF SeenOwned, OursIn, Legible
<1>3. QED
  BY <1>1, <1>2 DEF OursIn

\* So the cap it computes never exceeds what the client would allow now, nor
\* what any lot may go for.
LEMMA CapBounded ==
  ASSUME FullInv, LedgerOK, AccountOK, Legible, SeenSlots > 0
  PROVE  Cap <= ClientMax /\ Cap <= Top
<1> DEFINE f == [p \in OursIn(ledger) |-> SeenPrice(p)]
           e == [p \in OursIn(ledger) |-> ledger[p].stood]
<1>1. SeenOwned = OursIn(ledger)
  BY SeenWhole
<1>2. Ints(f) /\ Ints(e) /\ SeenCredits \in Int /\ SeenSlots \in Int
  BY <1>1, SeenType, LedgerLegal, PaidType DEF FullInv, RoomInv
<1>3. \A p \in OursIn(ledger) : f[p] >= e[p] /\ e[p] >= 1
  <2>1. \A p \in OursIn(ledger) : ledger[p].stood >= 1
    BY DEF OursIn, LedgerOK, Sold, SaleOK, MinBid
  <2>2. QED
    BY <2>1, SeenWhole
<1>4. SeenCost(SeenOwned) = SumFunction(f) /\ PaidIn(ledger) = SumFunction(e)
  BY <1>1 DEF SeenCost, PaidIn
<1>5. DOMAIN f = OursIn(ledger) /\ DOMAIN e = OursIn(ledger)
  OBVIOUS
<1> HIDE DEF f, e
<1>6. SumFunction(e) <= SumFunction(f)
  BY <1>2, <1>3, <1>5, TotalCompare DEF Ints
<1>7. SumFunction(f) >= Cardinality(OursIn(ledger))
  <2>1. \A p \in DOMAIN f : f[p] >= 1
    BY <1>2, <1>3, <1>5 DEF Ints
  <2>2. QED
    BY <1>2, <1>5, <2>1, TotalCounts
<1>8. SumFunction(f) \in Int /\ SumFunction(e) \in Int
      /\ Cardinality(OursIn(ledger)) \in Nat
  BY <1>2, LedgerLegal, TotalType
<1>9. /\ SeenCredits = Budget - SumFunction(f)
      /\ SeenSlots = Size - Cardinality(OursIn(ledger))
      /\ account.credits = Budget - SumFunction(e)
      /\ account.slots = SeenSlots
  BY <1>1, <1>4 DEF SeenCredits, SeenSlots, AccountOK
<1>10. /\ account.credits \in Int /\ account.slots \in Int
       /\ SeenCredits <= account.credits /\ SeenCredits - SeenSlots <= Budget - Size
  BY <1>6, <1>7, <1>8, <1>9, RoomAssumption
<1>11. Cap <= ClientMax
  BY <1>2, <1>9, <1>10, MaxBidGrows DEF Cap, ClientMax
<1>12. Cap <= Top
  BY <1>2, <1>10, RoomAssumption DEF Cap, MaxBid, AtLeastZero, Top
<1>13. QED
  BY <1>11, <1>12

LEMMA LedgerKept ==
  ASSUME LedgerOK, AccountOK, UNCHANGED <<ledger, account>>
  PROVE  LedgerOK' /\ AccountOK'
BY DEF LedgerOK, Sold, AccountOK

-----------------------------------------------------------------------------
(* The bidder's steps keep the credits.                                    *)

LEMMA BidderKeepsCredits ==
  ASSUME FullInv, CreditInv, Legible,
         StartBidder \/ BidderStep \/ PollFails \/ TimesOut \/ BidderKilled
  PROVE  CreditInv'
<1>1. UNCHANGED <<lot, turn, ledger, account>>
  BY BidderMoves DEF FullInv, RoomInv, roomVars
<1>2. stray' = stray
  BY DEF StartBidder, BidderStep, ReadLot, Frame, Hold, Decide, Answered, PollFails, TimesOut,
         BidderKilled
<1>3. LotOK' /\ LedgerOK' /\ AccountOK' /\ RosaCompletable'
  BY <1>1, <1>2, LedgerKept DEF CreditInv, LotOK, RosaCompletable, Held
<1>4. FrameOK'
  <2>1. CASE Frame
    <3>1. PICK k \in Kind : \E w \in WalkAways(snap.player, k) :
            /\ frame' = [walkAway |-> w, cap |-> Cap, credits |-> SeenCredits, kind |-> k]
            /\ w \in Nat
      BY <2>1, FrameMade DEF FullInv, RoomInv
    <3>2. PICK w \in WalkAways(snap.player, k) :
            /\ frame' = [walkAway |-> w, cap |-> Cap, credits |-> SeenCredits, kind |-> k]
            /\ w \in Nat
      BY <3>1
    <3>3. frame'.walkAway = w /\ frame'.cap = Cap
      BY <3>2
    <3>4. w > 0 => SeenSlots > 0
      <4>1. SeenSlots \in Int
        BY SeenType DEF FullInv, RoomInv
      <4>2. QED
        BY <3>2, <4>1 DEF WalkAways
    <3>5. w > 0 => Cap <= ClientMax /\ Cap <= Top
      BY <3>4, CapBounded DEF CreditInv
    <3>6. ClientMax' = ClientMax
      BY <1>1 DEF ClientMax
    <3>7. QED
      BY <3>3, <3>5, <3>6 DEF FrameOK
  <2>2. CASE ~Frame
    BY <1>1, <2>2 DEF StartBidder, BidderStep, ReadLot, Hold, Decide, Answered, PollFails,
                      TimesOut, BidderKilled, NextPoll, FrameOK
  <2>3. QED
    BY <2>1, <2>2
<1>5. RaisesOK'
  <2>1. CASE flight' = flight
    BY <1>1, <2>1 DEF CreditInv, RaisesOK, ClientMax
  <2>2. CASE Decide /\ ~Refused(frame)
    <3>1. flight' = flight \cup {Raise} /\ snap \in Lot /\ pc = "framed"
      BY <2>2, RaiseSent DEF FullInv, RoomInv, PollOK, Decide, Reading
    <3>2. frame \in Frames
      BY <3>1 DEF FullInv, FrameTypes
    <3>3. /\ Raise.price = snap.price + Step /\ Raise.turn = snap.turn
          /\ snap.price \in Nat /\ frame.walkAway \in Nat /\ frame.cap \in Nat
      BY <3>1, <3>2 DEF Raise, Lot, Frames
    <3>4. Raise.price <= frame.cap /\ frame.walkAway > 0 /\ Raise.price \in Nat
      BY <2>2, <3>3 DEF Refused, Step
    <3>5. /\ Raise.price <= Top
          /\ lot # NoLot /\ lot.turn = Raise.turn => Raise.price <= ClientMax
      <4>1. Top \in Int /\ ClientMax \in Int
        BY TopIsMax, ClientMaxBounded DEF CreditInv
      <4>2. QED
        BY <3>1, <3>3, <3>4, <4>1 DEF CreditInv, FrameOK
    <3>6. ClientMax' = ClientMax
      BY <1>1 DEF ClientMax
    <3>7. QED
      BY <1>1, <3>1, <3>5, <3>6 DEF CreditInv, RaisesOK
  <2>3. QED
    BY <2>1, <2>2, BidderMoves DEF FullInv, RoomInv
<1>6. QED
  BY <1>3, <1>4, <1>5 DEF CreditInv

-----------------------------------------------------------------------------
(* The room's steps keep the credits: first those that sell nothing.       *)

\* The facts the arithmetic needs.
Numbers ==
  /\ account.credits \in Int /\ account.slots \in Int
  /\ ClientMax \in Nat /\ ClientMax <= Top /\ Top \in Nat /\ Top >= 1
  /\ lot # NoLot => lot \in Lot /\ lot.price \in Nat /\ lot.price >= 1 /\ lot.turn \in Nat

LEMMA NumbersHold ==
  ASSUME FullInv, CreditInv
  PROVE  Numbers
<1>1. account.credits \in Int /\ account.slots \in Int
  BY DEF FullInv, RoomInv, Shape
<1>2. lot # NoLot => lot \in Lot
  BY DEF FullInv, RoomInv, Shape
<1>3. lot # NoLot => lot.price \in Nat /\ lot.price >= 1 /\ lot.turn \in Nat
  BY <1>2 DEF CreditInv, LotOK, MinBid, Lot
<1>4. QED
  BY <1>1, <1>2, <1>3, TopIsMax, ClientMaxBounded DEF CreditInv, Numbers

\* A price the client allows leaves a credit for every other slot.
LEMMA AllowedIsSafe ==
  ASSUME Numbers, NEW price \in Nat, price >= 1, price <= ClientMax
  PROVE  account.slots > 0 /\ account.credits - price >= account.slots - 1
BY DEF Numbers, ClientMax, MaxBid, AtLeastZero

\* Whatever stands on the block, the rosa can be completed without it.
LEMMA PurseCoversSlots ==
  ASSUME Numbers, RosaCompletable, ~stray
  PROVE  account.credits >= account.slots
BY DEF Numbers, RosaCompletable, Held

LEMMA CallCredits ==
  ASSUME FullInv, CreditInv, NEW p \in Player, NEW caller \in Seat \cup {Nobody}, Call(p, caller)
  PROVE  LotOK' /\ LedgerOK' /\ AccountOK' /\ RosaCompletable'
<1>1. Numbers
  BY NumbersHold
<1>2. UNCHANGED <<ledger, account, stray>> /\ lot = NoLot /\ ledger[p] = NoSale
      /\ lot'.player = p /\ lot'.price = 1 /\ lot'.holder = caller
  BY DEF Call, MinBid
<1>3. LotOK'
  BY <1>1, <1>2 DEF LotOK, MinBid, Numbers
<1>4. RosaCompletable'
  <2>1. CASE caller = Us
    <3>1. 1 <= ClientMax
      BY <2>1 DEF Call, MinBid
    <3>2. account.slots > 0 /\ account.credits - 1 >= account.slots - 1
      BY <1>1, <3>1, AllowedIsSafe
    <3>3. account.credits >= account.slots
      BY <1>1, <3>2 DEF Numbers
    <3>4. QED
      BY <1>2, <3>2, <3>3 DEF RosaCompletable
  <2>2. CASE caller # Us
    <3>1. ~stray => account.credits >= account.slots
      BY <1>1, PurseCoversSlots DEF CreditInv
    <3>2. QED
      BY <1>2, <2>2, <3>1 DEF RosaCompletable, Held
  <2>3. QED
    BY <2>1, <2>2
<1>5. QED
  BY <1>2, <1>3, <1>4, LedgerKept DEF CreditInv

\* A raise the client or a cap allows.
LEMMA RaisedCredits ==
  ASSUME FullInv, CreditInv, NEW price \in Nat, NEW seat \in Seat,
         lot # NoLot, lot'.player = lot.player,
         lot'.price = price, price > lot.price, lot'.holder = seat,
         UNCHANGED <<ledger, account>>, stray => stray',
         seat = Us => price <= Top /\ (~stray' => price <= ClientMax)
  PROVE  LotOK' /\ LedgerOK' /\ AccountOK' /\ RosaCompletable'
<1>1. Numbers
  BY NumbersHold
<1>2. price >= 1
  BY <1>1 DEF Numbers
<1>3. LotOK'
  BY <1>2 DEF LotOK, MinBid, CreditInv
<1>4. RosaCompletable'
  <2> SUFFICES ASSUME ~stray'
               PROVE  IF Held'
                      THEN account.slots > 0 /\ account.credits - price >= account.slots - 1
                      ELSE account.credits >= account.slots
    BY DEF RosaCompletable
  <2>1. CASE seat = Us
    <3>1. account.slots > 0 /\ account.credits - price >= account.slots - 1
      BY <1>1, <1>2, <2>1, AllowedIsSafe
    <3>2. account.credits >= account.slots
      BY <1>1, <1>2, <3>1 DEF Numbers
    <3>3. QED
      BY <3>1, <3>2
  <2>2. CASE seat # Us
    BY <1>1, <2>2, PurseCoversSlots DEF Held, CreditInv
  <2>3. QED
    BY <2>1, <2>2
<1>5. QED
  BY <1>3, <1>4, LedgerKept DEF CreditInv

LEMMA BrowserRaiseCredits ==
  ASSUME FullInv, CreditInv, NEW seat \in Seat, NEW price \in MinBid .. MaxPrice,
         BrowserRaise(seat, price)
  PROVE  LotOK' /\ LedgerOK' /\ AccountOK' /\ RosaCompletable'
<1>1. Numbers /\ price \in Nat
  BY NumbersHold, PriceIsNat
<1>2. /\ lot # NoLot /\ price > lot.price
      /\ lot' = [lot EXCEPT !.price = price, !.holder = seat, !.by = "other"]
      /\ UNCHANGED <<ledger, account, stray>>
  BY DEF BrowserRaise
<1>3. lot'.player = lot.player /\ lot'.price = price /\ lot'.holder = seat
  <2>1. lot \in Lot
    BY <1>1, <1>2 DEF Numbers
  <2>2. QED
    BY <1>2, <2>1 DEF Lot
<1>4. seat = Us => price <= ClientMax
  BY DEF BrowserRaise
<1>5. seat = Us => price <= Top
  BY <1>1, <1>4 DEF Numbers
<1>6. QED
  BY <1>1, <1>2, <1>3, <1>4, <1>5, RaisedCredits

LEMMA RaiseArrivesCredits ==
  ASSUME FullInv, CreditInv, NEW r \in flight, RaiseArrives(r)
  PROVE  LotOK' /\ LedgerOK' /\ AccountOK' /\ RosaCompletable'
<1>1. Numbers
  BY NumbersHold
<1>2. CASE Accepts(r)
  <2>1. /\ lot # NoLot /\ r.price > lot.price
        /\ lot' = [lot EXCEPT !.price = r.price, !.holder = Us, !.by = r.by]
        /\ stray' = (stray \/ r.turn # lot.turn)
        /\ UNCHANGED <<ledger, account>>
    BY <1>2 DEF RaiseArrives, Accepts
  <2>2. r.price \in Nat /\ Us \in Seat
    BY DEF FullInv, RoomInv, Shape, Raises, Seat
  <2>3. lot'.player = lot.player /\ lot'.price = r.price /\ lot'.holder = Us
    <3>1. lot \in Lot
      BY <1>1, <2>1 DEF Numbers
    <3>2. QED
      BY <2>1, <3>1 DEF Lot
  <2>4. r.price <= Top /\ (lot.turn = r.turn => r.price <= ClientMax)
    BY <2>1 DEF CreditInv, RaisesOK
  <2>5. (stray => stray') /\ (~stray' => r.price <= ClientMax)
    <3>1. stray \in BOOLEAN
      BY DEF FullInv, RoomInv, Shape
    <3>2. QED
      BY <2>1, <2>4, <3>1
  <2>6. QED
    BY <2>1, <2>2, <2>3, <2>4, <2>5, RaisedCredits
<1>3. CASE ~Accepts(r)
  BY <1>3, LedgerKept DEF RaiseArrives, CreditInv, LotOK, RosaCompletable, Held
<1>4. QED
  BY <1>2, <1>3

\* A lot closed or reopened, or left alone, stands where it stood.
LEMMA StandingCredits ==
  ASSUME FullInv, CreditInv, UNCHANGED <<ledger, account, stray>>,
         \/ lot' = lot
         \/ lot # NoLot /\ lot'.player = lot.player /\ lot'.price = lot.price
            /\ lot'.holder = lot.holder
  PROVE  LotOK' /\ LedgerOK' /\ AccountOK' /\ RosaCompletable'
<1>1. ~stray => account.credits >= account.slots
  BY NumbersHold, PurseCoversSlots DEF CreditInv
<1>2. LotOK' /\ RosaCompletable'
  BY <1>1 DEF CreditInv, LotOK, RosaCompletable, Held
<1>3. QED
  BY <1>2, LedgerKept DEF CreditInv

LEMMA AnnulCredits ==
  ASSUME FullInv, CreditInv, Annul
  PROVE  LotOK' /\ LedgerOK' /\ AccountOK' /\ RosaCompletable'
<1>1. UNCHANGED <<ledger, account, stray>> /\ lot' = NoLot
  BY DEF Annul
<1>2. ~stray => account.credits >= account.slots
  BY NumbersHold, PurseCoversSlots DEF CreditInv
<1>3. LotOK' /\ RosaCompletable'
  BY <1>1, <1>2 DEF LotOK, RosaCompletable, Held
<1>4. QED
  BY <1>1, <1>3, LedgerKept DEF CreditInv

-----------------------------------------------------------------------------
(* Then the sales, and the sale undone.                                    *)

LEMMA SettleCredits ==
  ASSUME FullInv, CreditInv, lot \in Lot, lot # NoLot, NEW record \in Purchase, Settle(record),
         SaleOK(record), record.stood = lot.price, record.bidder = Us <=> lot.holder = Us
  PROVE  LotOK' /\ LedgerOK' /\ AccountOK' /\ RosaCompletable'
<1>1. Numbers
  BY NumbersHold
<1>2. lot' = NoLot /\ stray' = stray /\ ledger' = [ledger EXCEPT ![lot.player] = record]
  BY DEF Settle
<1>3. lot.player \in Player /\ ledger[lot.player] = NoSale
  BY DEF Lot, CreditInv, LotOK
<1>4. LotOK'
  BY <1>2 DEF LotOK
<1>5. LedgerOK'
  <2>1. ledger \in [Player -> Purchase \cup {NoSale}]
    BY DEF FullInv, RoomInv, Shape
  <2>2. QED
    BY <1>2, <1>3, <2>1 DEF CreditInv, LedgerOK, Sold
<1>6. /\ record.bidder = Us => /\ PaidIn(ledger') = PaidIn(ledger) + lot.price
                               /\ Cardinality(OursIn(ledger')) = Cardinality(OursIn(ledger)) + 1
      /\ record.bidder # Us => /\ PaidIn(ledger') = PaidIn(ledger)
                               /\ Cardinality(OursIn(ledger')) = Cardinality(OursIn(ledger))
  <2>1. ledger \in Ledgers
    BY LedgerLegal
  <2>2. /\ record.bidder = Us => /\ PaidIn(ledger') = PaidIn(ledger) + record.stood
                                 /\ Cardinality(OursIn(ledger')) = Cardinality(OursIn(ledger)) + 1
        /\ record.bidder # Us => /\ PaidIn(ledger') = PaidIn(ledger)
                                 /\ Cardinality(OursIn(ledger')) = Cardinality(OursIn(ledger))
    <3>1. ledger' \in [Player -> Purchase \cup {NoSale}] /\ ledger'[lot.player] = record
          /\ \A q \in Player \ {lot.player} : ledger'[q] = ledger[q]
      BY <1>2, <1>3, <2>1 DEF Ledgers
    <3>2. record # NoSale
      BY NoSaleAssumption
    <3>3. QED
      BY <1>3, <2>1, <3>1, <3>2, SaleAdds
  <2>3. QED
    BY <2>2
<1>7. PaidIn(ledger) \in Int /\ Cardinality(OursIn(ledger)) \in Nat /\ lot.price \in Nat
      /\ Budget \in Int /\ Size \in Int
  BY LedgerLegal, RoomAssumption DEF Lot
<1>8. /\ account.credits = Budget - PaidIn(ledger)
      /\ account.slots = Size - Cardinality(OursIn(ledger))
  BY DEF CreditInv, AccountOK
<1>9. /\ lot.holder = Us => /\ account'.credits = account.credits - lot.price
                            /\ account'.slots = account.slots - 1
      /\ lot.holder # Us => account' = account
  BY DEF Settle, Charge
<1>10. AccountOK'
  <2>1. CASE lot.holder = Us
    BY <1>6, <1>7, <1>8, <1>9, <2>1 DEF AccountOK
  <2>2. CASE lot.holder # Us
    BY <1>6, <1>8, <1>9, <2>2 DEF AccountOK
  <2>3. QED
    BY <2>1, <2>2
<1>11. RosaCompletable'
  <2> SUFFICES ASSUME ~stray PROVE account'.credits >= account'.slots
    BY <1>2 DEF RosaCompletable, Held
  <2>1. CASE lot.holder = Us
    <3>1. account.credits - lot.price >= account.slots - 1
      BY <2>1 DEF CreditInv, RosaCompletable, Held
    <3>2. QED
      BY <1>9, <2>1, <3>1
  <2>2. CASE lot.holder # Us
    BY <1>1, <1>9, <2>2, PurseCoversSlots DEF CreditInv
  <2>3. QED
    BY <2>1, <2>2
<1>12. QED
  BY <1>4, <1>5, <1>10, <1>11

LEMMA ConfirmCredits ==
  ASSUME FullInv, CreditInv, Confirm
  PROVE  LotOK' /\ LedgerOK' /\ AccountOK' /\ RosaCompletable'
<1>1. lot \in Lot /\ lot # NoLot
  BY DEF Confirm, FullInv, RoomInv, Shape
<1> DEFINE sold == lot.holder # Nobody
           record == [price |-> IF sold THEN lot.price ELSE 0, buyer |-> lot.holder,
                      bidder |-> IF sold THEN lot.holder ELSE Admin,
                      stood |-> lot.price, by |-> lot.by]
<1>2. record \in Purchase
  BY <1>1 DEF Lot, Purchase
<1>3. Settle(record)
  BY DEF Confirm
<1>4. lot.price >= MinBid /\ (lot.holder = Us => lot.price <= Top)
  BY <1>1 DEF CreditInv, LotOK
<1>5. Us # Nobody /\ Admin # Us
  BY RoomAssumption DEF Seat
<1>6. record.stood = lot.price /\ (record.bidder = Us <=> lot.holder = Us)
  BY <1>5
<1>7. SaleOK(record)
  BY <1>4, <1>5 DEF SaleOK
<1> HIDE DEF record
<1>8. QED
  BY <1>1, <1>2, <1>3, <1>6, <1>7, SettleCredits

LEMMA PassStoodCredits ==
  ASSUME FullInv, CreditInv, PassStood
  PROVE  LotOK' /\ LedgerOK' /\ AccountOK' /\ RosaCompletable'
<1>1. lot \in Lot /\ lot # NoLot /\ lot.holder \in Seat /\ "pass" \in Disturbances
  BY DEF PassStood, FullInv, RoomInv, Shape, Lot, Fault
<1> DEFINE record == [price |-> 0, buyer |-> Nobody, bidder |-> lot.holder,
                      stood |-> lot.price, by |-> lot.by]
<1>2. record \in Purchase
  BY <1>1 DEF Lot, Purchase
<1>3. Settle(record)
  BY DEF PassStood
<1>4. lot.price >= MinBid /\ (lot.holder = Us => lot.price <= Top)
  BY <1>1 DEF CreditInv, LotOK
<1>5. lot.holder # Admin
  BY <1>1, RoomAssumption
<1>6. record.stood = lot.price /\ (record.bidder = Us <=> lot.holder = Us)
  OBVIOUS
<1>7. SaleOK(record)
  BY <1>1, <1>4, <1>5 DEF SaleOK
<1> HIDE DEF record
<1>8. QED
  BY <1>1, <1>2, <1>3, <1>6, <1>7, SettleCredits

\* The refund is at least a credit, for one slot more.
LEMMA UndoRefunds ==
  ASSUME FullInv, CreditInv, NEW p \in Player, Undo(p)
  PROVE  /\ \/ account' = account
            \/ \E c \in Nat : /\ c >= 1
                              /\ account'.credits = account.credits + c
                              /\ account'.slots = account.slots + 1
         /\ AccountOK'
<1>1. ledger[p] # NoSale /\ ledger' = [ledger EXCEPT ![p] = NoSale]
      /\ Charge(ledger[p].bidder, -ledger[p].stood, -1)
  BY DEF Undo
<1>2. ledger[p] \in Purchase /\ SaleOK(ledger[p])
  BY <1>1 DEF FullInv, RoomInv, Shape, CreditInv, LedgerOK, Sold
<1>3. ledger[p].stood \in Nat /\ ledger[p].stood >= 1
  BY <1>2 DEF Purchase, SaleOK, MinBid
<1>4. /\ ledger[p].bidder = Us => /\ PaidIn(ledger) = PaidIn(ledger') + ledger[p].stood
                                  /\ Cardinality(OursIn(ledger)) = Cardinality(OursIn(ledger')) + 1
      /\ ledger[p].bidder # Us => /\ PaidIn(ledger) = PaidIn(ledger')
                                  /\ Cardinality(OursIn(ledger)) = Cardinality(OursIn(ledger'))
      /\ ledger' \in Ledgers
  <2>1. ledger \in Ledgers /\ ledger \in [Player -> Purchase \cup {NoSale}]
    BY LedgerLegal DEF FullInv, RoomInv, Shape
  <2>2. ledger' \in [Player -> Purchase \cup {NoSale}] /\ ledger'[p] = NoSale
        /\ \A q \in Player \ {p} : ledger'[q] = ledger[q]
    BY <1>1, <2>1
  <2>3. ledger[p] # NoSale
    BY <1>1
  <2>4. QED
    BY <2>1, <2>2, <2>3, UndoSubtracts
<1>5. PaidIn(ledger') \in Int /\ Cardinality(OursIn(ledger')) \in Nat
      /\ Budget \in Int /\ Size \in Int
  <2>1. ledger' \in Ledgers
    BY <1>4
  <2>2. PaidIn(ledger') \in Int /\ Cardinality(OursIn(ledger')) \in Nat
    BY <2>1, PaidType
  <2>3. QED
    BY <2>2, RoomAssumption
<1>6. /\ account.credits = Budget - PaidIn(ledger)
      /\ account.slots = Size - Cardinality(OursIn(ledger))
      /\ account.credits \in Int /\ account.slots \in Int
  BY DEF CreditInv, AccountOK, FullInv, RoomInv, Shape
<1>7. CASE ledger[p].bidder = Us
  <2>1. /\ account'.credits = account.credits + ledger[p].stood
        /\ account'.slots = account.slots + 1
    BY <1>1, <1>3, <1>6, <1>7 DEF Charge
  <2>2. AccountOK'
    BY <1>3, <1>4, <1>5, <1>6, <1>7, <2>1 DEF AccountOK
  <2>3. QED
    BY <1>3, <2>1, <2>2
<1>8. CASE ledger[p].bidder # Us
  <2>1. account' = account
    BY <1>1, <1>8 DEF Charge
  <2>2. AccountOK'
    BY <1>4, <1>6, <1>8, <2>1 DEF AccountOK
  <2>3. QED
    BY <2>1, <2>2
<1>9. QED
  BY <1>7, <1>8

LEMMA UndoCredits ==
  ASSUME FullInv, CreditInv, NEW p \in Player, Undo(p)
  PROVE  LotOK' /\ LedgerOK' /\ AccountOK' /\ RosaCompletable'
<1>1. Numbers
  BY NumbersHold
<1>2. UNCHANGED <<lot, stray>> /\ ledger' = [ledger EXCEPT ![p] = NoSale]
      /\ ledger \in [Player -> Purchase \cup {NoSale}]
  BY DEF Undo, FullInv, RoomInv, Shape
<1>3. LotOK'
  <2>1. lot # NoLot => lot.player \in Player
    BY <1>1 DEF Numbers, Lot
  <2>2. QED
    BY <1>2, <2>1 DEF CreditInv, LotOK
<1>4. LedgerOK'
  BY <1>2 DEF CreditInv, LedgerOK, Sold
<1>5. RosaCompletable'
  <2>1. CASE account' = account
    BY <1>2, <2>1 DEF CreditInv, RosaCompletable, Held
  <2>2. ASSUME NEW c \in Nat, c >= 1, account'.credits = account.credits + c,
               account'.slots = account.slots + 1
        PROVE  RosaCompletable'
    <3> SUFFICES ASSUME ~stray
                 PROVE  IF Held
                        THEN account'.slots > 0 /\ account'.credits - lot.price >= account'.slots - 1
                        ELSE account'.credits >= account'.slots
      BY <1>2 DEF RosaCompletable, Held
    <3>1. CASE Held
      <4>1. account.slots > 0 /\ account.credits - lot.price >= account.slots - 1
        BY <3>1 DEF CreditInv, RosaCompletable
      <4>2. account.credits \in Int /\ account.slots \in Int /\ lot.price \in Nat
        BY <1>1, <3>1 DEF Numbers, Held
      <4>3. QED
        BY <2>2, <3>1, <4>1, <4>2
    <3>2. CASE ~Held
      <4>1. account.credits >= account.slots
        BY <1>1, PurseCoversSlots DEF CreditInv
      <4>2. QED
        BY <1>1, <2>2, <3>2, <4>1 DEF Numbers
    <3>3. QED
      BY <3>1, <3>2
  <2>3. QED
    BY <2>1, <2>2, UndoRefunds
<1>6. QED
  BY <1>3, <1>4, <1>5, UndoRefunds

-----------------------------------------------------------------------------
(* Nothing takes from us what a lot on the block was promised.             *)

LEMMA MaxHolds ==
  ASSUME FullInv, CreditInv, RoomNext, lot' # NoLot
  PROVE  ClientMax' >= ClientMax
<1>1. Numbers
  BY NumbersHold
<1>2. CASE account' = account
  BY <1>1, <1>2 DEF ClientMax, Numbers
<1>3. CASE account' # account
  <2>1. PICK p \in Player : Undo(p)
    BY <1>3 DEF RoomNext, Call, BrowserRaise, RaiseArrives, RaiseLost, CloseLot, Reopen, Confirm,
                PassStood, Settle, Annul, FloorPasses, roomVars
  <2>2. PICK c \in Nat : /\ c >= 1
                         /\ account'.credits = account.credits + c
                         /\ account'.slots = account.slots + 1
    BY <1>3, <2>1, UndoRefunds
  <2> DEFINE c1 == account'.credits
             n1 == account'.slots
  <2>3. c1 \in Int /\ n1 \in Int
    BY <1>1, <2>2 DEF Numbers
  <2>4. MaxBid(c1, n1) \in Nat /\ MaxBid(account.credits, account.slots) \in Nat
    <3> HIDE DEF c1, n1
    <3>1. QED
      BY <1>1, <2>3, MaxBidType DEF Numbers
  <2>5. CASE account.slots > 0
    <3>1. MaxBid(account.credits, account.slots) <= MaxBid(account'.credits, account'.slots)
      BY <1>1, <2>2, <2>5, MaxBidGrows DEF Numbers
    <3>2. QED
      BY <1>1, <2>2, <2>4, <2>5, <3>1 DEF ClientMax, Numbers
  <2>6. CASE ~(account.slots > 0)
    BY <2>4, <2>6 DEF ClientMax
  <2>7. QED
    BY <2>5, <2>6
<1>4. QED
  BY <1>2, <1>3

LEMMA RoomKeepsCaps ==
  ASSUME FullInv, CreditInv, RoomNext, AccountOK', LedgerOK', FullInv'
  PROVE  FrameOK' /\ RaisesOK'
<1>1. LotMoves /\ flight' \subseteq flight /\ UNCHANGED <<pc, snap, frame>>
  BY RoomMoves, RoomLeavesPoll DEF FullInv, RoomInv
<1>2. /\ turn \in Nat
      /\ lot # NoLot => lot.turn \in Nat /\ lot.turn <= turn
  BY DEF FullInv, RoomInv, Shape, SnapOK, Lot
<1>3. ASSUME NEW t \in Nat, t <= turn, lot' # NoLot, lot'.turn = t
      PROVE  lot # NoLot /\ lot.turn = t
  BY <1>1, <1>2, <1>3 DEF LotMoves
<1>4. lot' # NoLot => ClientMax' >= ClientMax
  BY MaxHolds
<1>5. ClientMax \in Nat
  BY ClientMaxBounded DEF CreditInv
<1>6. lot' # NoLot => ClientMax' \in Nat
  <2>1. account'.credits \in Int /\ account'.slots \in Int
    BY DEF FullInv, RoomInv, Shape
  <2>2. QED
    BY <2>1, MaxBidType DEF ClientMax
<1>7. FrameOK'
  <2> SUFFICES ASSUME pc = "framed", frame.walkAway > 0
               PROVE  /\ frame.cap <= Top
                      /\ lot' # NoLot /\ lot'.turn = snap.turn => frame.cap <= ClientMax'
    BY <1>1 DEF FrameOK
  <2>1. snap.turn \in Nat /\ snap.turn <= turn /\ frame.cap \in Nat
    BY DEF FullInv, RoomInv, PollOK, SnapOK, Reading, Lot, FrameTypes, Frames
  <2>2. frame.cap <= Top /\ (lot # NoLot /\ lot.turn = snap.turn => frame.cap <= ClientMax)
    BY DEF CreditInv, FrameOK
  <2>3. QED
    BY <1>3, <1>4, <1>5, <1>6, <2>1, <2>2
<1>8. RaisesOK'
  <2> SUFFICES ASSUME NEW r \in flight
               PROVE  /\ r.price <= Top
                      /\ lot' # NoLot /\ lot'.turn = r.turn => r.price <= ClientMax'
    BY <1>1 DEF RaisesOK
  <2>1. r.turn \in Nat /\ r.turn <= turn /\ r.price \in Nat
    BY DEF FullInv, RoomInv, FlightOK, Shape, Raises
  <2>2. r.price <= Top /\ (lot # NoLot /\ lot.turn = r.turn => r.price <= ClientMax)
    BY DEF CreditInv, RaisesOK
  <2>3. QED
    BY <1>3, <1>4, <1>5, <1>6, <2>1, <2>2
<1>9. QED
  BY <1>7, <1>8

LEMMA RoomKeepsCredits ==
  ASSUME FullInv, CreditInv, RoomNext, FullInv'
  PROVE  CreditInv'
<1>1. LotOK' /\ LedgerOK' /\ AccountOK' /\ RosaCompletable'
  <2>1. CASE CloseLot \/ Reopen
    <3>1. lot \in Lot /\ lot # NoLot /\ UNCHANGED <<ledger, account, stray>>
          /\ (lot' = [lot EXCEPT !.closed = TRUE] \/ lot' = [lot EXCEPT !.closed = FALSE])
      BY <2>1 DEF CloseLot, Reopen, FullInv, RoomInv, Shape
    <3>2. lot'.player = lot.player /\ lot'.price = lot.price /\ lot'.holder = lot.holder
      BY <3>1 DEF Lot
    <3>3. QED
      BY <3>1, <3>2, StandingCredits
  <2>2. CASE FloorPasses \/ \E r \in flight : RaiseLost(r)
    <3>1. UNCHANGED <<lot, ledger, account, stray>>
      BY <2>2 DEF FloorPasses, RaiseLost, roomVars
    <3>2. QED
      BY <3>1, StandingCredits
  <2>3. QED
    BY <2>1, <2>2, CallCredits, BrowserRaiseCredits, RaiseArrivesCredits, ConfirmCredits,
       PassStoodCredits, AnnulCredits, UndoCredits DEF RoomNext
<1>2. QED
  BY <1>1, RoomKeepsCaps DEF CreditInv

LEMMA InitCredits == Init => CreditInv
<1> SUFFICES ASSUME Init PROVE CreditInv
  OBVIOUS
<1>1. OursIn(ledger) = {}
  BY DEF Init, OursIn
<1>2. PaidIn(ledger) = 0 /\ Cardinality(OursIn(ledger)) = 0
  <2>1. DOMAIN [p \in OursIn(ledger) |-> ledger[p].stood] = {}
    BY <1>1
  <2>2. PaidIn(ledger) = 0
    BY <2>1, TotalEmpty DEF PaidIn
  <2>3. QED
    BY <1>1, <2>2, FS_EmptySet
<1>3. AccountOK
  BY <1>2, RoomAssumption DEF Init, AccountOK
<1>4. RosaCompletable
  BY RoomAssumption DEF Init, RosaCompletable, Held
<1>5. LotOK /\ LedgerOK /\ FrameOK /\ RaisesOK
  BY DEF Init, LotOK, LedgerOK, Sold, FrameOK, RaisesOK
<1>6. QED
  BY <1>3, <1>4, <1>5 DEF CreditInv

\* Whatever stands on the block in our name can be won and the rosa still be
\* completed, for every rosa, budget and evening, as long as the bidder can make
\* out every purchase of ours and the price it thinks a hidden one went at is no
\* lower than it was.
THEOREM RosaStaysCompletable ==
  ASSUME Legible
  PROVE  Spec => []RosaCompletable
<1> DEFINE Inv == FullInv /\ CreditInv
<1>1. Init => Inv
  BY InitFull, InitCredits
<1>2. Inv /\ [Next]_vars => Inv'
  <2> SUFFICES ASSUME Inv, [Next]_vars PROVE CreditInv'
    BY StepFull
  <2>1. CASE RoomNext
    BY <2>1, RoomKeepsCredits, StepFull
  <2>2. CASE StartBidder \/ BidderStep \/ PollFails \/ TimesOut \/ BidderKilled
    BY <2>2, BidderKeepsCredits
  <2>3. CASE UNCHANGED vars
    BY <2>3 DEF vars, roomVars, bidderVars, CreditInv, LotOK, LedgerOK, Sold, AccountOK, FrameOK,
                RaisesOK, RosaCompletable, Held, ClientMax
  <2>4. QED
    BY <2>1, <2>2, <2>3 DEF Next
<1>3. Inv => RosaCompletable
  BY DEF CreditInv
<1>4. QED
  BY <1>1, <1>2, <1>3, PTL DEF Spec

===============================================================================
