----------------------------- MODULE HarvestFold -----------------------------
(***************************************************************************)
(* The two folds of the harvest pipeline, as operators: auction-node       *)
(* states in, sales out.                                                   *)
(*                                                                         *)
(*   Reconstruct  reads a whole evening at once (domain/harvest/           *)
(*                reconstruct.py): the reference.                          *)
(*   Advance      carries a resumable state across windows of the landing  *)
(*                zone (domain/harvest/incremental.py): what the loader    *)
(*                runs.                                                    *)
(*                                                                         *)
(* A landing-zone line is Garbage (not JSON, or not a collector record) or *)
(* a record of the state one auction node held.  Wording, timestamps of    *)
(* observation and the buyer's identity are abstracted: a rung is its      *)
(* price.                                                                  *)
(***************************************************************************)
EXTENDS Naturals, Sequences

CONSTANTS
  Auction,   \* auctions a registry may name
  Player,    \* players that can be put on the block
  NoPlayer,  \* the player_id of a node whose slot is empty
  NoPrice,   \* the price of a node that names none
  Garbage,   \* a line that is whole but is not a collector record
  NoSale     \* what the archive holds for a pair that never closed

UpdateType == {"first_call", "raise", "close_auction", "confirm", "reset", "reopen"}

\* States that put a price on the board.
Bidding == {"first_call", "raise", "close_auction"}

Record == [auction : Auction, type : UpdateType, player : Player \cup {NoPlayer},
           price : Nat \cup {NoPrice}, stamp : Nat]

Line == Record \cup {Garbage}

\* One sale: who, for how much, when it closed, and the prices that led there.
Sale == [price : Nat, closedAt : Nat, ladder : Seq(Nat)]

\* The values that stand for nothing are not values of the kind they stand in for.
ASSUME DistinctAssumption ==
  NoPlayer \notin Player /\ NoPrice \notin Nat /\ Garbage \notin Record /\ NoSale \notin Sale

\* What the resumable fold remembers of one auction: the turn on the block.
Slot == [known : BOOLEAN, player : Player \cup {NoPlayer},
         ladder : Seq(Nat), stamps : SUBSET Nat]

-----------------------------------------------------------------------------
(* The rules both folds share (domain/harvest/turn.py).                    *)

StartsNewTurn(r, slot) ==
  r.type = "first_call" \/ ~slot.known \/ slot.player # r.player

\* A rung is appended only where the price moved.
AppendRung(ladder, price) ==
  IF price = NoPrice \/ (ladder # <<>> /\ ladder[Len(ladder)] = price)
  THEN ladder
  ELSE Append(ladder, price)

ClosesSale(r) ==
  r.type = "close_auction" /\ r.player # NoPlayer /\ r.price # NoPrice

ClosedSale(r, ladder) == [price |-> r.price, closedAt |-> r.stamp, ladder |-> ladder]

LadderAfter(ladder, r) ==
  IF r.type \in Bidding THEN AppendRung(ladder, r.price) ELSE ladder

-----------------------------------------------------------------------------
(* The resumable fold: per auction, the turn on the block.                 *)

EmptySlot == [known |-> FALSE, player |-> NoPlayer, ladder |-> <<>>, stamps |-> {}]

EmptyFold == [a \in Auction |-> EmptySlot]

\* Mutant of TurnOf: only an auction never seen starts a turn.
TurnOfKept(r, slot) ==
  IF slot.known THEN slot
  ELSE [known |-> TRUE, player |-> r.player, ladder |-> <<>>, stamps |-> {}]

\* The reset runs before the stamp guard, and the guard is scoped to the turn.
TurnOf(r, slot) ==
  IF StartsNewTurn(r, slot)
  THEN [known |-> TRUE, player |-> r.player, ladder |-> <<>>, stamps |-> {}]
  ELSE slot

\* One record folded: the new state, and the closes emitted so far.
FoldRecord(acc, r) ==
  LET turn   == TurnOf(r, acc.fold[r.auction])
      repeat == r.stamp \in turn.stamps
      ladder == LadderAfter(turn.ladder, r)
      slot   == IF repeat THEN turn
                ELSE [turn EXCEPT !.ladder = ladder, !.stamps = @ \cup {r.stamp}]
  IN  [fold   |-> [acc.fold EXCEPT ![r.auction] = slot],
       closed |-> IF ~repeat /\ ClosesSale(r)
                  THEN Append(acc.closed, [auction |-> r.auction, player |-> r.player,
                                           sale |-> ClosedSale(r, ladder)])
                  ELSE acc.closed]

FoldLine(acc, line) == IF line = Garbage THEN acc ELSE FoldRecord(acc, line)

\* A window folded into a state line by line: [fold, closed] after each line,
\* the closes in file order.
After(fold, lines) ==
  LET after[n \in 0 .. Len(lines)] ==
        IF n = 0 THEN [fold |-> fold, closed |-> <<>>]
        ELSE FoldLine(after[n - 1], lines[n])
  IN  after

Advance(fold, lines) == After(fold, lines)[Len(lines)]

\* The closes of one pair.
Hits(closed, k) == {i \in DOMAIN closed : closed[i].auction = k[1] /\ closed[i].player = k[2]}

\* Mutant of Drain: the first close of a pair wins.
DrainFirst(old, closed, known) ==
  [k \in DOMAIN old |->
     LET hits == Hits(closed, k)
     IN  IF k[1] \notin known \/ hits = {} THEN old[k]
         ELSE closed[CHOOSE i \in hits : \A j \in hits : i <= j].sale]

\* Last close per (auction, player) wins; pairs that did not close, or whose
\* auction is not known, keep what `old` holds.
Drain(old, closed, known) ==
  [k \in DOMAIN old |->
     LET hits == Hits(closed, k)
     IN  IF k[1] \notin known \/ hits = {} THEN old[k]
         ELSE closed[CHOOSE i \in hits : \A j \in hits : j <= i].sale]

EmptyArchive == [k \in Auction \X Player |-> NoSale]

-----------------------------------------------------------------------------
(* The whole-evening fold: its stamp guard spans the evening and is read   *)
(* before the turn reset; a later close of a pair replaces the earlier.    *)

ReconstructRecord(acc, r) ==
  LET turn   == IF StartsNewTurn(r, acc.block[r.auction])
                THEN [known |-> TRUE, player |-> r.player, ladder |-> <<>>]
                ELSE acc.block[r.auction]
      ladder == LadderAfter(turn.ladder, r)
  IN  IF <<r.auction, r.stamp>> \in acc.seen THEN acc
      ELSE [seen  |-> acc.seen \cup {<<r.auction, r.stamp>>},
            block |-> [acc.block EXCEPT ![r.auction] = [turn EXCEPT !.ladder = ladder]],
            sold  |-> IF ClosesSale(r)
                      THEN [acc.sold EXCEPT ![<<r.auction, r.player>>] = ClosedSale(r, ladder)]
                      ELSE acc.sold]

ReconstructLine(acc, line) == IF line = Garbage THEN acc ELSE ReconstructRecord(acc, line)

\* The evening, line by line.
Evening(lines) ==
  LET after[n \in 0 .. Len(lines)] ==
        IF n = 0
        THEN [seen  |-> {},
              block |-> [a \in Auction |->
                           [known |-> FALSE, player |-> NoPlayer, ladder |-> <<>>]],
              sold  |-> EmptyArchive]
        ELSE ReconstructLine(after[n - 1], lines[n])
  IN  after

\* Every sale in `lines`, as the archive should hold it.
Reconstruct(lines) == Evening(lines)[Len(lines)].sold

=============================================================================
