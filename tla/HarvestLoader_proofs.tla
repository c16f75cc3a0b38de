------------------------ MODULE HarvestLoader_proofs ------------------------
(***************************************************************************)
(* What holds of the harvest loader for every window, every bound and      *)
(* every set of crash points.  First the two folds, by induction over the  *)
(* lines: after the same lines the resumable state is what one reading     *)
(* left on the block.  Then the positions of the two checkpoint files,     *)
(* then what the archive holds.                                            *)
(***************************************************************************)
EXTENDS HarvestLoader, FiniteSetTheorems, WellFoundedInduction, TLAPS

-----------------------------------------------------------------------------
(* Induction over a count of lines, from the well-order of Nat.            *)

\* The natural numbers are well ordered.
LEMMA NatOrder == \A T \in SUBSET Nat : T # {} => \E x \in T : \A y \in T : ~(y < x)
<1>1. SUFFICES ASSUME NEW T \in SUBSET Nat, T # {} PROVE \E x \in T : \A y \in T : ~(y < x)
  OBVIOUS
<1>2. PICK x \in T : \A y \in T : ~(<<y, x>> \in OpToRel(<, Nat))
  <2>1. T \subseteq Nat
    OBVIOUS
  <2>2. QED
    BY <1>1, <2>1, NatLessThanWellFounded, WFMin
<1>3. QED
  BY <1>2 DEF OpToRel

\* A set of positions of a sequence has a last one.
LEMMA Greatest ==
  ASSUME NEW N \in Nat, NEW T, T \subseteq 1 .. N, T # {}
  PROVE  \E x \in T : \A y \in T : y <= x
<1> DEFINE U == {n \in Nat : \E x \in T : n = N - x}
<1>1. U # {} /\ U \in SUBSET Nat
  <2>1. PICK x \in T : TRUE
    OBVIOUS
  <2>2. N - x \in U
    BY <2>1
  <2>3. QED
    BY <2>2
<1>2. PICK u \in U : \A v \in U : ~(v < u)
  BY <1>1, NatOrder
<1>3. PICK x \in T : u = N - x
  OBVIOUS
<1>4. \A y \in T : N - y \in U
  OBVIOUS
<1>5. QED
  BY <1>2, <1>3, <1>4

\* Induction, for a set.
LEMMA SetInduction ==
  ASSUME NEW S, 0 \in S, \A n \in Nat : n \in S => n + 1 \in S
  PROVE  Nat \subseteq S
<1>1. SUFFICES ASSUME {n \in Nat : n \notin S} # {} PROVE FALSE
  OBVIOUS
<1>2. PICK x \in {n \in Nat : n \notin S} : \A y \in {n \in Nat : n \notin S} : ~(y < x)
  BY <1>1, NatOrder
<1>3. x - 1 \in Nat /\ x - 1 \in S
  BY <1>2
<1>4. QED
  BY <1>2, <1>3

-----------------------------------------------------------------------------
(* The two folds, line by line.                                            *)

Start(slots) == [fold |-> slots, closed |-> <<>>]

AfterSolved(f, slots, lines, N) ==
  f = [n \in 0 .. N |-> IF n = 0 THEN Start(slots) ELSE FoldLine(f[n - 1], lines[n])]

\* The recursion After is defined by has a solution.
LEMMA AfterExists ==
  ASSUME NEW slots, NEW lines
  PROVE  \A N \in Nat : \E f : AfterSolved(f, slots, lines, N)
<1> USE DEF AfterSolved
<1> DEFINE Solves(f, N) == AfterSolved(f, slots, lines, N)
           S == {N \in Nat : \E f : Solves(f, N)}
<1>1. 0 \in S
  <2>1. Solves([n \in 0 .. 0 |-> Start(slots)], 0)
    OBVIOUS
  <2>2. QED
    BY <2>1
<1>2. ASSUME NEW N \in Nat, N \in S PROVE N + 1 \in S
  <2>1. PICK f : Solves(f, N)
    BY <1>2
  <2> DEFINE g == [n \in 0 .. N + 1 |-> IF n = N + 1 THEN FoldLine(f[N], lines[n]) ELSE f[n]]
  <2>2. Solves(g, N + 1)
    <3>1. ASSUME NEW n \in 0 .. N + 1
          PROVE  g[n] = IF n = 0 THEN Start(slots) ELSE FoldLine(g[n - 1], lines[n])
      <4>1. CASE n = N + 1
        <5>1. g[n] = FoldLine(f[N], lines[n]) /\ g[n - 1] = f[N]
          BY <4>1
        <5>2. QED
          BY <4>1, <5>1
      <4>2. CASE n \in 1 .. N
        <5>1. g[n] = f[n] /\ g[n - 1] = f[n - 1]
          BY <4>2
        <5>2. QED
          BY <4>2, <5>1, <2>1
      <4>3. CASE n = 0
        BY <4>3, <2>1
      <4>4. QED
        BY <4>1, <4>2, <4>3
    <3>2. QED
      BY <3>1
  <2> HIDE DEF g
  <2>3. QED
    BY <2>2
<1>3. S = Nat
  <2> HIDE DEF S
  <2>1. Nat \subseteq S
    BY <1>1, <1>2, SetInduction
  <2>2. QED
    BY <2>1 DEF S
<1>4. QED
  BY <1>3

\* After, line by line.
LEMMA AfterEquations ==
  ASSUME NEW slots, NEW lines \in Seq(Line)
  PROVE  /\ After(slots, lines)[0] = Start(slots)
         /\ \A n \in 1 .. Len(lines) :
              After(slots, lines)[n] = FoldLine(After(slots, lines)[n - 1], lines[n])
<1> DEFINE Solution(f) == AfterSolved(f, slots, lines, Len(lines))
<1>1. \E f : Solution(f)
  <2>1. Len(lines) \in Nat
    OBVIOUS
  <2>2. QED
    BY <2>1, AfterExists
<1>2. After(slots, lines) = CHOOSE f : Solution(f)
  BY DEF After, Start, AfterSolved
<1>3. Solution(After(slots, lines))
  BY <1>1, <1>2
<1>4. QED
  BY <1>3 DEF AfterSolved

\* The same for Evening.
Blank == [seen  |-> {},
          block |-> [a \in Auction |-> [known |-> FALSE, player |-> NoPlayer, ladder |-> <<>>]],
          sold  |-> EmptyArchive]

LEMMA EveningExists ==
  ASSUME NEW lines
  PROVE  \A N \in Nat : \E f : f = [n \in 0 .. N |-> IF n = 0 THEN Blank
                                                  ELSE ReconstructLine(f[n - 1], lines[n])]
<1> DEFINE Solves(f, N) == f = [n \in 0 .. N |-> IF n = 0 THEN Blank
                                              ELSE ReconstructLine(f[n - 1], lines[n])]
           S == {N \in Nat : \E f : Solves(f, N)}
<1>1. 0 \in S
  <2>1. Solves([n \in 0 .. 0 |-> Blank], 0)
    OBVIOUS
  <2>2. QED
    BY <2>1
<1>2. ASSUME NEW N \in Nat, N \in S PROVE N + 1 \in S
  <2>1. PICK f : Solves(f, N)
    BY <1>2
  <2> DEFINE g == [n \in 0 .. N + 1 |-> IF n = N + 1 THEN ReconstructLine(f[N], lines[n]) ELSE f[n]]
  <2>2. Solves(g, N + 1)
    <3>1. ASSUME NEW n \in 0 .. N + 1
          PROVE  g[n] = IF n = 0 THEN Blank ELSE ReconstructLine(g[n - 1], lines[n])
      <4>1. CASE n = N + 1
        <5>1. g[n] = ReconstructLine(f[N], lines[n]) /\ g[n - 1] = f[N]
          BY <4>1
        <5>2. QED
          BY <4>1, <5>1
      <4>2. CASE n \in 1 .. N
        <5>1. g[n] = f[n] /\ g[n - 1] = f[n - 1]
          BY <4>2
        <5>2. QED
          BY <4>2, <5>1, <2>1
      <4>3. CASE n = 0
        BY <4>3, <2>1
      <4>4. QED
        BY <4>1, <4>2, <4>3
    <3>2. QED
      BY <3>1
  <2> HIDE DEF g
  <2>3. QED
    BY <2>2
<1>3. S = Nat
  <2> HIDE DEF S
  <2>1. Nat \subseteq S
    BY <1>1, <1>2, SetInduction
  <2>2. QED
    BY <2>1 DEF S
<1>4. QED
  BY <1>3

LEMMA EveningEquations ==
  ASSUME NEW lines \in Seq(Line)
  PROVE  /\ Evening(lines)[0] = Blank
         /\ \A n \in 1 .. Len(lines) :
              Evening(lines)[n] = ReconstructLine(Evening(lines)[n - 1], lines[n])
<1> DEFINE Solution(f) == f = [n \in 0 .. Len(lines) |-> IF n = 0 THEN Blank
                                              ELSE ReconstructLine(f[n - 1], lines[n])]
<1>1. \E f : Solution(f)
  <2>1. Len(lines) \in Nat
    OBVIOUS
  <2>2. QED
    BY <2>1, EveningExists
<1>2. Evening(lines) = CHOOSE f : Solution(f)
  BY DEF Evening, Blank
<1>3. Solution(Evening(lines))
  BY <1>1, <1>2
<1>4. QED
  BY <1>3

-----------------------------------------------------------------------------
(* What the folds return.                                                  *)

\* A ladder stays one.
LEMMA LadderType ==
  ASSUME NEW ladder \in Seq(Nat), NEW r \in Record
  PROVE  LadderAfter(ladder, r) \in Seq(Nat)
<1>1. CASE r.price = NoPrice
  BY <1>1 DEF LadderAfter, AppendRung
<1>2. CASE r.price # NoPrice
  <2>1. r.price \in Nat
    BY <1>2 DEF Record
  <2>2. QED
    BY <2>1 DEF LadderAfter, AppendRung
<1>3. QED
  BY <1>1, <1>2

Close == [auction : Auction, player : Player, sale : Sale]
Folding == [fold : [Auction -> Slot], closed : Seq(Close)]
Turn == [known : BOOLEAN, player : Player \cup {NoPlayer}, ladder : Seq(Nat)]
Telling == [seen : SUBSET (Auction \X Nat), block : [Auction -> Turn],
            sold : [Auction \X Player -> Sale \cup {NoSale}]]

LEMMA FoldLineType ==
  ASSUME NEW acc \in Folding, NEW line \in Line
  PROVE  FoldLine(acc, line) \in Folding
<1>1. CASE line = Garbage
  BY <1>1 DEF FoldLine
<1>2. CASE line # Garbage
  <2> DEFINE r == line
             turn   == TurnOf(r, acc.fold[r.auction])
             ladder == LadderAfter(turn.ladder, r)
             slot   == IF r.stamp \in turn.stamps THEN turn
                       ELSE [turn EXCEPT !.ladder = ladder, !.stamps = @ \cup {r.stamp}]
  <2>1. r \in Record
    BY <1>2 DEF Line
  <2>2. turn \in Slot
    BY <2>1 DEF TurnOf, Folding, Record, Slot
  <2>3. ladder \in Seq(Nat)
    BY <2>1, <2>2, LadderType DEF Slot
  <2>4. slot \in Slot
    BY <2>1, <2>2, <2>3 DEF Slot, Record
  <2>5. ASSUME ClosesSale(r)
        PROVE  [auction |-> r.auction, player |-> r.player, sale |-> ClosedSale(r, ladder)] \in Close
    BY <2>1, <2>3, <2>5 DEF ClosesSale, ClosedSale, Close, Sale, Record
  <2>6. acc.closed \in Seq(Close) /\ acc.fold \in [Auction -> Slot] /\ r.auction \in Auction
    BY <2>1 DEF Folding, Record
  <2>7. FoldRecord(acc, r) = [fold |-> [acc.fold EXCEPT ![r.auction] = slot],
          closed |-> IF ~(r.stamp \in turn.stamps) /\ ClosesSale(r)
                  THEN Append(acc.closed, [auction |-> r.auction, player |-> r.player,
                                           sale |-> ClosedSale(r, ladder)])
                  ELSE acc.closed]
    BY DEF FoldRecord
  <2> HIDE DEF r, turn, ladder, slot
  <2>8. FoldRecord(acc, r) \in Folding
    BY <2>4, <2>5, <2>6, <2>7 DEF Folding
  <2>9. QED
    BY <2>8, <1>2 DEF FoldLine, r
<1>3. QED
  BY <1>1, <1>2

LEMMA ReconstructLineType ==
  ASSUME NEW acc \in Telling, NEW line \in Line
  PROVE  ReconstructLine(acc, line) \in Telling
<1>1. CASE line = Garbage
  BY <1>1 DEF ReconstructLine
<1>2. CASE line # Garbage
  <2> DEFINE r == line
             turn   == IF StartsNewTurn(r, acc.block[r.auction])
                       THEN [known |-> TRUE, player |-> r.player, ladder |-> <<>>]
                       ELSE acc.block[r.auction]
             ladder == LadderAfter(turn.ladder, r)
  <2>1. r \in Record
    BY <1>2 DEF Line
  <2>2. turn \in Turn
    BY <2>1 DEF Telling, Record, Turn
  <2>3. ladder \in Seq(Nat)
    BY <2>1, <2>2, LadderType DEF Turn
  <2>4. [turn EXCEPT !.ladder = ladder] \in Turn
    BY <2>2, <2>3 DEF Turn
  <2>5. ASSUME ClosesSale(r)
        PROVE  <<r.auction, r.player>> \in Auction \X Player /\ ClosedSale(r, ladder) \in Sale
    BY <2>1, <2>3, <2>5 DEF ClosesSale, ClosedSale, Sale, Record
  <2>6. /\ acc.seen \in SUBSET (Auction \X Nat) /\ acc.block \in [Auction -> Turn]
        /\ acc.sold \in [Auction \X Player -> Sale \cup {NoSale}]
        /\ r.auction \in Auction /\ r.stamp \in Nat
    BY <2>1 DEF Telling, Record
  <2>7. ReconstructRecord(acc, r) = IF <<r.auction, r.stamp>> \in acc.seen THEN acc
      ELSE [seen  |-> acc.seen \cup {<<r.auction, r.stamp>>},
            block |-> [acc.block EXCEPT ![r.auction] = [turn EXCEPT !.ladder = ladder]],
            sold  |-> IF ClosesSale(r)
                      THEN [acc.sold EXCEPT ![<<r.auction, r.player>>] = ClosedSale(r, ladder)]
                      ELSE acc.sold]
    BY DEF ReconstructRecord
  <2> HIDE DEF r, turn, ladder
  <2>8. ReconstructRecord(acc, r) \in Telling
    BY <2>4, <2>5, <2>6, <2>7 DEF Telling
  <2>9. QED
    BY <2>8, <1>2 DEF ReconstructLine, r
<1>3. QED
  BY <1>1, <1>2

\* What holds of the start and is kept by a line holds after every line.
LEMMA AfterType ==
  ASSUME NEW slots \in [Auction -> Slot], NEW lines \in Seq(Line)
  PROVE  \A n \in 0 .. Len(lines) : After(slots, lines)[n] \in Folding
<1> DEFINE S == {n \in Nat : n <= Len(lines) => After(slots, lines)[n] \in Folding}
<1>1. 0 \in S
  <2>1. Start(slots) \in Folding
    BY DEF Start, Folding
  <2>2. QED
    BY <2>1, AfterEquations
<1>2. ASSUME NEW n \in Nat, n \in S PROVE n + 1 \in S
  <2>1. CASE n + 1 <= Len(lines)
    <3>1. /\ lines[n + 1] \in Line /\ After(slots, lines)[n] \in Folding
          /\ After(slots, lines)[n + 1] = FoldLine(After(slots, lines)[n], lines[n + 1])
      BY <1>2, <2>1, AfterEquations
    <3>2. QED
      BY <3>1, FoldLineType
  <2>2. CASE ~(n + 1 <= Len(lines))
    BY <2>2
  <2>3. QED
    BY <2>1, <2>2
<1>3. Nat \subseteq S
  <2> HIDE DEF S
  <2>1. QED
    BY <1>1, <1>2, SetInduction
<1>4. QED
  BY <1>3

LEMMA EveningType ==
  ASSUME NEW lines \in Seq(Line)
  PROVE  \A n \in 0 .. Len(lines) : Evening(lines)[n] \in Telling
<1> DEFINE S == {n \in Nat : n <= Len(lines) => Evening(lines)[n] \in Telling}
<1>1. 0 \in S
  <2>1. EmptyArchive \in [Auction \X Player -> Sale \cup {NoSale}]
    BY DEF EmptyArchive
  <2>2. Blank \in Telling
    BY <2>1 DEF Blank, Telling, Turn
  <2>3. QED
    BY <2>2, EveningEquations
<1>2. ASSUME NEW n \in Nat, n \in S PROVE n + 1 \in S
  <2>1. CASE n + 1 <= Len(lines)
    <3>1. /\ lines[n + 1] \in Line /\ Evening(lines)[n] \in Telling
          /\ Evening(lines)[n + 1] = ReconstructLine(Evening(lines)[n], lines[n + 1])
      BY <1>2, <2>1, EveningEquations
    <3>2. QED
      BY <3>1, ReconstructLineType
  <2>2. CASE ~(n + 1 <= Len(lines))
    BY <2>2
  <2>3. QED
    BY <2>1, <2>2
<1>3. Nat \subseteq S
  <2> HIDE DEF S
  <2>1. QED
    BY <1>1, <1>2, SetInduction
<1>4. QED
  BY <1>3

-----------------------------------------------------------------------------
(* Draining, close by close.                                               *)

LEMMA DrainNothing ==
  ASSUME NEW old, NEW D, NEW R, old \in [D -> R], NEW known
  PROVE  Drain(old, <<>>, known) = old
<1>1. \A k : Hits(<<>>, k) = {}
  BY DEF Hits
<1>2. Drain(old, <<>>, known) = [k \in DOMAIN old |-> old[k]]
  BY <1>1 DEF Drain
<1>3. QED
  BY <1>2

LEMMA HitsAppend ==
  ASSUME NEW closed \in Seq(Close), NEW c \in Close, NEW k
  PROVE  Hits(Append(closed, c), k) =
           IF c.auction = k[1] /\ c.player = k[2] THEN Hits(closed, k) \cup {Len(closed) + 1}
           ELSE Hits(closed, k)
<1>1. DOMAIN Append(closed, c) = 1 .. Len(closed) + 1 /\ DOMAIN closed = 1 .. Len(closed)
  OBVIOUS
<1>2. \A i \in 1 .. Len(closed) : Append(closed, c)[i] = closed[i]
  OBVIOUS
<1>3. Append(closed, c)[Len(closed) + 1] = c /\ Len(closed) \in Nat
  OBVIOUS
<1>4. QED
  BY <1>1, <1>2, <1>3 DEF Hits

\* One more close replaces the sale of its pair, if its auction is known.
LEMMA DrainAppend ==
  ASSUME NEW old, DOMAIN old = Auction \X Player, NEW known,
         NEW closed \in Seq(Close), NEW c \in Close
  PROVE  Drain(old, Append(closed, c), known) =
           IF c.auction \in known
           THEN [Drain(old, closed, known) EXCEPT ![<<c.auction, c.player>>] = c.sale]
           ELSE Drain(old, closed, known)
<1> DEFINE more == Append(closed, c)
           lst(s) == CHOOSE i \in s : \A j \in s : j <= i
<1>1. /\ DOMAIN Drain(old, more, known) = Auction \X Player
      /\ DOMAIN Drain(old, closed, known) = Auction \X Player
  BY DEF Drain
<1>2. ASSUME NEW k \in Auction \X Player
      PROVE  Drain(old, more, known)[k] = IF k[1] \notin known \/ Hits(more, k) = {} THEN old[k]
                                          ELSE more[lst(Hits(more, k))].sale
  BY DEF Drain
<1>3. ASSUME NEW k \in Auction \X Player
      PROVE  Drain(old, closed, known)[k] = IF k[1] \notin known \/ Hits(closed, k) = {} THEN old[k]
                                            ELSE closed[lst(Hits(closed, k))].sale
  BY DEF Drain
<1>4. ASSUME NEW k \in Auction \X Player, k # <<c.auction, c.player>>
      PROVE  Drain(old, more, known)[k] = Drain(old, closed, known)[k]
  <2>1. Hits(more, k) = Hits(closed, k)
    BY <1>4, HitsAppend
  <2>2. CASE Hits(closed, k) = {} \/ k[1] \notin known
    BY <1>2, <1>3, <2>1, <2>2
  <2>3. CASE Hits(closed, k) # {} /\ k[1] \in known
    <3>1. \A i \in Hits(closed, k) : i \in 1 .. Len(closed)
      BY DEF Hits
    <3>2. \A i \in Hits(closed, k) : more[i] = closed[i]
      BY <3>1
    <3>3. lst(Hits(closed, k)) \in Hits(closed, k)
      <4>1. \E i \in Hits(closed, k) : \A j \in Hits(closed, k) : j <= i
        BY <2>3, <3>1, Greatest
      <4>2. QED
        BY <4>1
    <3>4. Drain(old, more, known)[k] = more[lst(Hits(closed, k))].sale
      BY <1>2, <2>1, <2>3
    <3>5. Drain(old, closed, known)[k] = closed[lst(Hits(closed, k))].sale
      BY <1>3, <2>3
    <3> HIDE DEF more, lst
    <3>6. QED
      BY <3>2, <3>3, <3>4, <3>5
  <2>4. QED
    BY <2>2, <2>3
<1>5. ASSUME NEW k \in Auction \X Player, k = <<c.auction, c.player>>, c.auction \in known
      PROVE  Drain(old, more, known)[k] = c.sale
  <2>1. Hits(more, k) = Hits(closed, k) \cup {Len(closed) + 1}
    BY <1>5, HitsAppend
  <2>2. \A i \in Hits(closed, k) : i \in 1 .. Len(closed)
    BY DEF Hits
  <2>3. lst(Hits(more, k)) = Len(closed) + 1
    <3>1. \A j \in Hits(more, k) : j <= Len(closed) + 1 /\ j \in Nat
      BY <2>1, <2>2
    <3>2. Len(closed) + 1 \in Hits(more, k) /\ Len(closed) + 1 \in Nat
      BY <2>1
    <3>3. QED
      BY <3>1, <3>2
  <2>4. more[Len(closed) + 1] = c
    OBVIOUS
  <2>5. QED
    BY <1>2, <1>5, <2>1, <2>3, <2>4
<1>6. ASSUME NEW k \in Auction \X Player, k = <<c.auction, c.player>>, c.auction \notin known
      PROVE  Drain(old, more, known)[k] = Drain(old, closed, known)[k]
  BY <1>2, <1>3, <1>6
<1>7. <<c.auction, c.player>> \in Auction \X Player
  BY DEF Close
<1> HIDE DEF more
<1>8. CASE c.auction \in known
  <2>1. [Drain(old, closed, known) EXCEPT ![<<c.auction, c.player>>] = c.sale]
          = [k \in Auction \X Player |-> IF k = <<c.auction, c.player>> THEN c.sale
                                         ELSE Drain(old, closed, known)[k]]
    BY <1>1
  <2>2. Drain(old, more, known) = [k \in Auction \X Player |-> Drain(old, more, known)[k]]
    BY <1>1 DEF Drain
  <2>3. QED
    BY <1>4, <1>5, <1>8, <2>1, <2>2 DEF more
<1>9. CASE c.auction \notin known
  <2>1. Drain(old, more, known) = [k \in Auction \X Player |-> Drain(old, more, known)[k]]
    BY <1>1 DEF Drain
  <2>2. Drain(old, closed, known) = [k \in Auction \X Player |-> Drain(old, closed, known)[k]]
    BY <1>1 DEF Drain
  <2>3. QED
    BY <1>4, <1>6, <1>9, <2>1, <2>2 DEF more
<1>10. QED
  BY <1>8, <1>9

-----------------------------------------------------------------------------
(* What an evening told is told by the lines read so far.                  *)

\* What an evening told depends on the lines read, not on what follows them.
LEMMA EveningPrefix ==
  ASSUME NEW s \in Seq(Line), NEW t \in Seq(Line), Len(s) <= Len(t),
         \A i \in 1 .. Len(s) : s[i] = t[i]
  PROVE  \A n \in 0 .. Len(s) : Evening(s)[n] = Evening(t)[n]
<1> DEFINE S == {n \in Nat : n <= Len(s) => Evening(s)[n] = Evening(t)[n]}
<1>1. 0 \in S
  BY EveningEquations
<1>2. ASSUME NEW n \in Nat, n \in S PROVE n + 1 \in S
  <2>1. CASE n + 1 <= Len(s)
    <3>1. /\ n + 1 \in 1 .. Len(s) /\ n + 1 \in 1 .. Len(t) /\ (n + 1) - 1 = n
          /\ Evening(s)[n] = Evening(t)[n] /\ s[n + 1] = t[n + 1]
      BY <1>2, <2>1
    <3>2. Evening(s)[n + 1] = Evening(t)[n + 1]
      BY <3>1, EveningEquations
    <3>3. QED
      BY <3>2
  <2>2. CASE ~(n + 1 <= Len(s))
    BY <2>2
  <2>3. QED
    BY <2>1, <2>2
<1>3. Nat \subseteq S
  <2> HIDE DEF S
  <2>1. QED
    BY <1>1, <1>2, SetInduction
<1>4. QED
  BY <1>3

LEMMA ReconstructPrefix ==
  ASSUME NEW lines \in Seq(Line), NEW n \in 0 .. Len(lines)
  PROVE  Reconstruct(SubSeq(lines, 1, n)) = Evening(lines)[n].sold
<1> DEFINE s == SubSeq(lines, 1, n)
<1>1. /\ s \in Seq(Line) /\ Len(s) = n /\ \A i \in 1 .. Len(s) : s[i] = lines[i]
      /\ Len(s) <= Len(lines) /\ n \in 0 .. Len(s)
  OBVIOUS
<1>2. Evening(s)[n] = Evening(lines)[n]
  <2> HIDE DEF s
  <2>1. QED
    BY <1>1, EveningPrefix
<1>3. QED
  BY <1>1, <1>2 DEF Reconstruct

\* What has been seen was read.
Read(lines, n, a, s) ==
  \E i \in 1 .. n : lines[i] # Garbage /\ lines[i].auction = a /\ lines[i].stamp = s

LEMMA SeenIsRead ==
  ASSUME NEW lines \in Seq(Line)
  PROVE  \A n \in 0 .. Len(lines) : \A a \in Auction, s \in Nat :
           <<a, s>> \in Evening(lines)[n].seen => Read(lines, n, a, s)
<1> DEFINE S == {n \in Nat : n <= Len(lines) =>
                   \A a \in Auction, s \in Nat :
                     <<a, s>> \in Evening(lines)[n].seen => Read(lines, n, a, s)}
<1>1. 0 \in S
  BY EveningEquations DEF Blank
<1>2. ASSUME NEW n \in Nat, n \in S PROVE n + 1 \in S
  <2>1. SUFFICES ASSUME n + 1 <= Len(lines), NEW a \in Auction, NEW s \in Nat,
                        <<a, s>> \in Evening(lines)[n + 1].seen
                 PROVE  Read(lines, n + 1, a, s)
    OBVIOUS
  <2>2. Evening(lines)[n + 1] = ReconstructLine(Evening(lines)[n], lines[n + 1])
    BY <2>1, EveningEquations
  <2>3. CASE <<a, s>> \in Evening(lines)[n].seen
    <3>1. Read(lines, n, a, s)
      BY <1>2, <2>1, <2>3
    <3>2. QED
      BY <3>1 DEF Read
  <2>4. CASE <<a, s>> \notin Evening(lines)[n].seen
    <3>1. /\ lines[n + 1] # Garbage
          /\ <<a, s>> = <<lines[n + 1].auction, lines[n + 1].stamp>>
      BY <2>1, <2>2, <2>4 DEF ReconstructLine, ReconstructRecord
    <3>2. n + 1 \in 1 .. n + 1
      OBVIOUS
    <3>3. QED
      BY <3>1, <3>2 DEF Read
  <2>5. QED
    BY <2>3, <2>4
<1>3. Nat \subseteq S
  <2> HIDE DEF S
  <2>1. QED
    BY <1>1, <1>2, SetInduction
<1>4. QED
  BY <1>3

-----------------------------------------------------------------------------
(* One record, in both folds.                                              *)

FoldSlot(slot, r) ==
  LET turn == TurnOf(r, slot)
  IN  IF r.stamp \in turn.stamps THEN turn
      ELSE [turn EXCEPT !.ladder = LadderAfter(turn.ladder, r), !.stamps = @ \cup {r.stamp}]

TellTurn(turn, r) ==
  LET new == IF StartsNewTurn(r, turn)
             THEN [known |-> TRUE, player |-> r.player, ladder |-> <<>>] ELSE turn
  IN  [new EXCEPT !.ladder = LadderAfter(new.ladder, r)]

Emits(slot, r) == r.stamp \notin TurnOf(r, slot).stamps /\ ClosesSale(r)

CloseBy(slot, r) ==
  [auction |-> r.auction, player |-> r.player,
   sale |-> ClosedSale(r, LadderAfter(TurnOf(r, slot).ladder, r))]

LEMMA FoldRecordBySlot ==
  ASSUME NEW acc, NEW r
  PROVE  FoldRecord(acc, r) =
           [fold |-> [acc.fold EXCEPT ![r.auction] = FoldSlot(acc.fold[r.auction], r)],
            closed |-> IF Emits(acc.fold[r.auction], r)
                       THEN Append(acc.closed, CloseBy(acc.fold[r.auction], r)) ELSE acc.closed]
BY DEF FoldRecord, FoldSlot, Emits, CloseBy

LEMMA ReconstructRecordByTurn ==
  ASSUME NEW acc \in Telling, NEW r \in Record, <<r.auction, r.stamp>> \notin acc.seen
  PROVE  ReconstructRecord(acc, r) =
           [seen  |-> acc.seen \cup {<<r.auction, r.stamp>>},
            block |-> [acc.block EXCEPT ![r.auction] = TellTurn(acc.block[r.auction], r)],
            sold  |-> IF ClosesSale(r)
                      THEN [acc.sold EXCEPT ![<<r.auction, r.player>>] =
                              ClosedSale(r, TellTurn(acc.block[r.auction], r).ladder)]
                      ELSE acc.sold]
<1> DEFINE new == IF StartsNewTurn(r, acc.block[r.auction])
                  THEN [known |-> TRUE, player |-> r.player, ladder |-> <<>>]
                  ELSE acc.block[r.auction]
<1>1. new \in Turn
  BY DEF Telling, Record, Turn
<1>2. [new EXCEPT !.ladder = LadderAfter(new.ladder, r)].ladder = LadderAfter(new.ladder, r)
  BY <1>1 DEF Turn
<1>3. QED
  BY <1>2 DEF ReconstructRecord, TellTurn

Matches(slot, turn) ==
  slot.known = turn.known /\ slot.player = turn.player /\ slot.ladder = turn.ladder

\* The slot stands where record r left it.
StandsAt(slot, r) ==
  /\ slot.known /\ slot.player = r.player /\ r.stamp \in slot.stamps
  /\ r.type = "first_call" => slot.ladder = AppendRung(<<>>, r.price)

LEMMA TurnOfType ==
  ASSUME NEW r \in Record, NEW slot \in Slot
  PROVE  TurnOf(r, slot) \in Slot
BY DEF TurnOf, Record, Slot

\* What folding a record makes of a slot, and telling it of a turn.
LEMMA FoldSlotFields ==
  ASSUME NEW r \in Record, NEW slot \in Slot, r.stamp \notin TurnOf(r, slot).stamps
  PROVE  /\ FoldSlot(slot, r).known = TurnOf(r, slot).known
         /\ FoldSlot(slot, r).player = TurnOf(r, slot).player
         /\ FoldSlot(slot, r).ladder = LadderAfter(TurnOf(r, slot).ladder, r)
         /\ FoldSlot(slot, r).stamps = TurnOf(r, slot).stamps \cup {r.stamp}
<1> DEFINE turn == TurnOf(r, slot)
<1>1. FoldSlot(slot, r) = [turn EXCEPT !.ladder = LadderAfter(turn.ladder, r),
                                       !.stamps = turn.stamps \cup {r.stamp}]
  BY DEF FoldSlot
<1>2. turn \in Slot
  BY TurnOfType
<1> HIDE DEF turn
<1>3. QED
  BY <1>1, <1>2 DEF Slot, turn

LEMMA TellTurnFields ==
  ASSUME NEW r \in Record, NEW turn \in Turn
  PROVE  LET new == StartsNewTurn(r, turn)
         IN  /\ TellTurn(turn, r).known = (new \/ turn.known)
             /\ TellTurn(turn, r).player = IF new THEN r.player ELSE turn.player
             /\ TellTurn(turn, r).ladder = LadderAfter(IF new THEN <<>> ELSE turn.ladder, r)
<1> DEFINE new == IF StartsNewTurn(r, turn)
                  THEN [known |-> TRUE, player |-> r.player, ladder |-> <<>>] ELSE turn
<1>1. new \in Turn
  BY DEF Turn, Record
<1>2. TellTurn(turn, r) = [new EXCEPT !.ladder = LadderAfter(new.ladder, r)]
  BY DEF TellTurn
<1>3. /\ new.known = (StartsNewTurn(r, turn) \/ turn.known)
      /\ new.player = IF StartsNewTurn(r, turn) THEN r.player ELSE turn.player
      /\ new.ladder = IF StartsNewTurn(r, turn) THEN <<>> ELSE turn.ladder
  BY DEF Turn
<1> HIDE DEF new
<1>4. QED
  BY <1>1, <1>2, <1>3 DEF Turn

LEMMA FreshRecord ==
  ASSUME NEW r \in Record, NEW slot \in Slot, NEW turn \in Turn, Matches(slot, turn),
         r.stamp \notin slot.stamps
  PROVE  /\ Matches(FoldSlot(slot, r), TellTurn(turn, r))
         /\ StandsAt(FoldSlot(slot, r), r)
         /\ FoldSlot(slot, r).stamps \subseteq slot.stamps \cup {r.stamp}
         /\ Emits(slot, r) <=> ClosesSale(r)
         /\ CloseBy(slot, r).sale = ClosedSale(r, TellTurn(turn, r).ladder)
<1> DEFINE old == TurnOf(r, slot)
<1>1. StartsNewTurn(r, slot) <=> StartsNewTurn(r, turn)
  BY DEF StartsNewTurn, Matches
<1>2. r.stamp \notin old.stamps /\ old.stamps \subseteq slot.stamps
  BY DEF TurnOf
<1>3. /\ old.known = (StartsNewTurn(r, turn) \/ slot.known)
      /\ old.player = IF StartsNewTurn(r, turn) THEN r.player ELSE slot.player
      /\ old.ladder = IF StartsNewTurn(r, turn) THEN <<>> ELSE slot.ladder
  BY <1>1 DEF TurnOf, Slot
<1>4. /\ FoldSlot(slot, r).known = old.known
      /\ FoldSlot(slot, r).player = old.player
      /\ FoldSlot(slot, r).ladder = LadderAfter(old.ladder, r)
      /\ FoldSlot(slot, r).stamps = old.stamps \cup {r.stamp}
  BY <1>2, FoldSlotFields
<1> HIDE DEF old
<1>5. slot.known = turn.known /\ slot.player = turn.player /\ slot.ladder = turn.ladder
  BY DEF Matches
<1>6. Matches(FoldSlot(slot, r), TellTurn(turn, r))
  BY <1>3, <1>4, <1>5, TellTurnFields DEF Matches
<1>7. StandsAt(FoldSlot(slot, r), r)
  <2>1. StartsNewTurn(r, turn) \/ (slot.known /\ slot.player = r.player)
    BY <1>5 DEF StartsNewTurn
  <2>2. r.type = "first_call" => StartsNewTurn(r, turn)
                                 /\ LadderAfter(<<>>, r) = AppendRung(<<>>, r.price)
    BY DEF StartsNewTurn, LadderAfter, Bidding
  <2>3. QED
    BY <1>3, <1>4, <2>1, <2>2 DEF StandsAt, Slot
<1>8. Emits(slot, r) <=> ClosesSale(r)
  BY <1>2 DEF Emits, old
<1>9. CloseBy(slot, r).sale = ClosedSale(r, FoldSlot(slot, r).ladder)
  BY <1>4 DEF CloseBy, old
<1>10. QED
  BY <1>2, <1>4, <1>6, <1>7, <1>8, <1>9 DEF Matches

\* The record a slot stands at leaves it as it is: read again it closes nothing.
LEMMA RepeatedRecord ==
  ASSUME NEW r \in Record, NEW slot \in Slot, StandsAt(slot, r)
  PROVE  /\ FoldSlot(slot, r).known = slot.known /\ FoldSlot(slot, r).player = slot.player
         /\ FoldSlot(slot, r).ladder = slot.ladder
         /\ StandsAt(FoldSlot(slot, r), r)
         /\ FoldSlot(slot, r).stamps \subseteq slot.stamps \cup {r.stamp}
         /\ ~Emits(slot, r)
<1>1. CASE r.type = "first_call"
  <2>1. TurnOf(r, slot) = [known |-> TRUE, player |-> r.player, ladder |-> <<>>, stamps |-> {}]
    BY <1>1 DEF TurnOf, StartsNewTurn
  <2>2. /\ FoldSlot(slot, r).known = TRUE /\ FoldSlot(slot, r).player = r.player
        /\ FoldSlot(slot, r).ladder = LadderAfter(<<>>, r)
        /\ FoldSlot(slot, r).stamps = {} \cup {r.stamp}
    <3>1. r.stamp \notin TurnOf(r, slot).stamps
      BY <2>1
    <3>2. QED
      BY <2>1, <3>1, FoldSlotFields
  <2>3. LadderAfter(<<>>, r) = AppendRung(<<>>, r.price)
    BY <1>1 DEF LadderAfter, Bidding
  <2>4. ~ClosesSale(r)
    BY <1>1 DEF ClosesSale
  <2>5. slot.known = TRUE
    BY DEF StandsAt, Slot
  <2>6. QED
    BY <1>1, <2>2, <2>3, <2>4, <2>5 DEF StandsAt, Emits
<1>2. CASE r.type # "first_call"
  <2>1. TurnOf(r, slot) = slot
    BY <1>2 DEF TurnOf, StartsNewTurn, StandsAt
  <2>2. FoldSlot(slot, r) = slot
    BY <2>1 DEF FoldSlot, StandsAt
  <2>3. QED
    BY <2>1, <2>2 DEF StandsAt, Emits
<1>3. QED
  BY <1>1, <1>2

-----------------------------------------------------------------------------
(* Where both folds stand after the same lines.                            *)

\* r was read before s: of one auction, it is older or the same record.
Precedes(r, s) ==
  r # Garbage /\ s # Garbage /\ r.auction = s.auction => r.stamp < s.stamp \/ r = s

Orderly(lines) == \A j \in 1 .. Len(lines) : \A i \in 1 .. j : Precedes(lines[i], lines[j])

\* The last record of its auction among the first n lines.
Latest(lines, n, i) ==
  /\ lines[i] # Garbage
  /\ \A j \in 1 .. n : lines[j] # Garbage /\ lines[j].auction = lines[i].auction
                         => lines[j].stamp <= lines[i].stamp

\* The resumable state after n lines is what one reading of them left on the
\* block, and stands at the last record of every auction.
Agrees(slots, lines, n) ==
  \A a \in Auction :
    /\ Matches(slots[a], Evening(lines)[n].block[a])
    /\ \A s \in slots[a].stamps : <<a, s>> \in Evening(lines)[n].seen
    /\ \A i \in 1 .. n : Latest(lines, n, i) /\ lines[i].auction = a => StandsAt(slots[a], lines[i])

LEMMA NothingAgrees ==
  ASSUME NEW lines \in Seq(Line)
  PROVE  Agrees(EmptyFold, lines, 0)
<1>1. Evening(lines)[0] = Blank
  BY EveningEquations
<1>2. ASSUME NEW a \in Auction
      PROVE  Matches(EmptyFold[a], Blank.block[a]) /\ EmptyFold[a].stamps = {}
  BY DEF EmptyFold, EmptySlot, Blank, Matches
<1>3. \A i \in 1 .. 0 : FALSE
  OBVIOUS
<1>4. QED
  BY <1>1, <1>2, <1>3 DEF Agrees

LEMMA AgreesPrefix ==
  ASSUME NEW s \in Seq(Line), NEW t \in Seq(Line), Len(s) <= Len(t),
         \A i \in 1 .. Len(s) : s[i] = t[i],
         NEW slots, NEW n \in 0 .. Len(s), Agrees(slots, s, n)
  PROVE  Agrees(slots, t, n)
<1>1. Evening(s)[n] = Evening(t)[n]
  BY EveningPrefix
<1>2. \A i \in 1 .. n : s[i] = t[i]
  OBVIOUS
<1>3. QED
  BY <1>1, <1>2 DEF Agrees, Latest

\* What one more line does: the folds stay in step, and close the same sale.
Sells(acc, line, before, after) ==
  LET next == FoldLine(acc, line)
  IN  \/ next.closed = acc.closed /\ after = before
      \/ \E c \in Close : /\ line # Garbage /\ c.auction = line.auction
                          /\ next.closed = Append(acc.closed, c)
                          /\ after = [before EXCEPT ![<<c.auction, c.player>>] = c.sale]

LEMMA RecordAgrees ==
  ASSUME NEW lines \in Seq(Line), Orderly(lines), NEW n \in Nat, n + 1 <= Len(lines),
         lines[n + 1] # Garbage,
         NEW acc \in Folding, Agrees(acc.fold, lines, n)
  PROVE  /\ Agrees(FoldLine(acc, lines[n + 1]).fold, lines, n + 1)
         /\ Sells(acc, lines[n + 1], Evening(lines)[n].sold, Evening(lines)[n + 1].sold)
<1> DEFINE r == lines[n + 1]
           a == r.auction
           slot == acc.fold[a]
           old == Evening(lines)[n]
           turn == old.block[a]
           slots == [acc.fold EXCEPT ![a] = FoldSlot(slot, r)]
           new == Evening(lines)[n + 1]
<1>1. /\ r \in Record /\ a \in Auction /\ slot \in Slot /\ acc.fold \in [Auction -> Slot]
      /\ n \in 0 .. Len(lines) /\ n + 1 \in 1 .. Len(lines) /\ r.stamp \in Nat
  BY DEF Line, Record, Folding
<1>2. old \in Telling /\ turn \in Turn
  BY <1>1, EveningType DEF Telling
<1>3. new = ReconstructRecord(old, r)
  <2>1. new = ReconstructLine(old, r)
    BY <1>1, EveningEquations
  <2>2. QED
    BY <2>1 DEF ReconstructLine
<1>4. /\ FoldLine(acc, r).fold = slots
      /\ FoldLine(acc, r).closed = IF Emits(slot, r) THEN Append(acc.closed, CloseBy(slot, r))
                                   ELSE acc.closed
  BY FoldRecordBySlot DEF FoldLine
<1>5. Emits(slot, r) => CloseBy(slot, r) \in Close
  <2>1. ASSUME ClosesSale(r) PROVE CloseBy(slot, r) \in Close
    <3>1. TurnOf(r, slot) \in Slot
      BY <1>1, TurnOfType
    <3>2. LadderAfter(TurnOf(r, slot).ladder, r) \in Seq(Nat)
      BY <1>1, <3>1, LadderType DEF Slot
    <3>3. QED
      BY <1>1, <2>1, <3>2 DEF CloseBy, ClosesSale, ClosedSale, Close, Sale, Record
  <2>2. QED
    BY <2>1 DEF Emits
<1>6. /\ Matches(slot, turn)
      /\ \A s \in slot.stamps : <<a, s>> \in old.seen
      /\ \A i \in 1 .. n : Latest(lines, n, i) /\ lines[i].auction = a => StandsAt(slot, lines[i])
  BY <1>1 DEF Agrees
<1>7. \A i \in 1 .. n : lines[i] # Garbage /\ lines[i].auction = a
                          => lines[i].stamp < r.stamp \/ lines[i] = r
  BY <1>1 DEF Orderly, Precedes
<1>8. ASSUME NEW b \in Auction, b # a
      PROVE  /\ slots[b] = acc.fold[b]
             /\ \A i \in 1 .. n + 1 : Latest(lines, n + 1, i) /\ lines[i].auction = b
                                        => StandsAt(slots[b], lines[i])
  <2>1. slots[b] = acc.fold[b]
    BY <1>1, <1>8
  <2>2. ASSUME NEW i \in 1 .. n + 1, Latest(lines, n + 1, i), lines[i].auction = b
        PROVE  StandsAt(acc.fold[b], lines[i])
    <3>1. i \in 1 .. n
      BY <1>8, <2>2
    <3>2. Latest(lines, n, i)
      BY <2>2 DEF Latest
    <3>3. QED
      BY <2>2, <3>1, <3>2 DEF Agrees
  <2>3. QED
    BY <2>1, <2>2
\* Whatever the case, the slot ends standing at r, which is the last record.
<1>9. ASSUME StandsAt(FoldSlot(slot, r), r)
      PROVE  \A i \in 1 .. n + 1 : Latest(lines, n + 1, i) /\ lines[i].auction = a
                                     => StandsAt(slots[a], lines[i])
  <2>1. ASSUME NEW i \in 1 .. n + 1, Latest(lines, n + 1, i), lines[i].auction = a
        PROVE  lines[i] = r
    <3>1. r.stamp <= lines[i].stamp
      BY <1>1, <2>1 DEF Latest
    <3>2. CASE i \in 1 .. n
      <4>1. lines[i] # Garbage /\ lines[i] \in Line
        BY <1>1, <2>1, <3>2 DEF Latest
      <4>2. lines[i].stamp \in Nat
        BY <4>1 DEF Line, Record
      <4>3. QED
        BY <1>1, <1>7, <2>1, <3>1, <3>2, <4>1, <4>2
    <3>3. QED
      BY <3>2
  <2>2. slots[a] = FoldSlot(slot, r)
    BY <1>1
  <2>3. QED
    BY <1>9, <2>1, <2>2
<1>10. CASE <<a, r.stamp>> \in old.seen
  <2>1. new = old
    BY <1>3, <1>10 DEF ReconstructRecord
  <2>2. StandsAt(slot, r)
    <3>1. PICK i \in 1 .. n : lines[i] # Garbage /\ lines[i].auction = a /\ lines[i].stamp = r.stamp
      <4>1. Read(lines, n, a, r.stamp)
        BY <1>1, <1>10, SeenIsRead
      <4>2. QED
        BY <4>1 DEF Read
    <3>2. lines[i] = r
      BY <1>1, <1>7, <3>1
    <3>3. Latest(lines, n, i)
      <4>1. ASSUME NEW j \in 1 .. n, lines[j] # Garbage, lines[j].auction = a
            PROVE  lines[j].stamp <= r.stamp
        <5>1. lines[j] \in Line
          BY <1>1
        <5>2. lines[j].stamp \in Nat
          BY <4>1, <5>1 DEF Line, Record
        <5>3. QED
          BY <1>1, <1>7, <4>1, <5>2
      <4>2. QED
        BY <3>1, <3>2, <4>1 DEF Latest
    <3>4. QED
      BY <1>6, <3>1, <3>2, <3>3
  <2>3. /\ FoldSlot(slot, r).known = slot.known /\ FoldSlot(slot, r).player = slot.player
        /\ FoldSlot(slot, r).ladder = slot.ladder
        /\ StandsAt(FoldSlot(slot, r), r)
        /\ FoldSlot(slot, r).stamps \subseteq slot.stamps \cup {r.stamp}
        /\ ~Emits(slot, r)
    BY <1>1, <2>2, RepeatedRecord
  <2>4. Sells(acc, r, old.sold, new.sold)
    BY <1>4, <2>1, <2>3 DEF Sells
  <2>5. ASSUME NEW b \in Auction
        PROVE  /\ Matches(slots[b], new.block[b])
               /\ \A s \in slots[b].stamps : <<b, s>> \in new.seen
               /\ \A i \in 1 .. n + 1 : Latest(lines, n + 1, i) /\ lines[i].auction = b
                                          => StandsAt(slots[b], lines[i])
    <3>1. CASE b = a
      <4>1. slots[b] = FoldSlot(slot, r)
        BY <1>1, <3>1
      <4>2. Matches(slots[b], new.block[b])
        BY <1>6, <2>1, <2>3, <3>1, <4>1 DEF Matches
      <4>3. \A s \in slots[b].stamps : <<b, s>> \in new.seen
        BY <1>6, <1>10, <2>1, <2>3, <3>1, <4>1
      <4>4. QED
        BY <1>9, <2>3, <3>1, <4>2, <4>3
    <3>2. CASE b # a
      <4>1. /\ Matches(acc.fold[b], old.block[b])
            /\ \A s \in acc.fold[b].stamps : <<b, s>> \in old.seen
        BY DEF Agrees
      <4>2. QED
        BY <1>8, <2>1, <3>2, <4>1
    <3>3. QED
      BY <3>1, <3>2
  <2>6. Agrees(slots, lines, n + 1)
    BY <2>5 DEF Agrees
  <2>7. QED
    BY <1>4, <2>4, <2>6
<1>11. CASE <<a, r.stamp>> \notin old.seen
  <2>1. /\ new.seen = old.seen \cup {<<a, r.stamp>>}
        /\ new.block = [old.block EXCEPT ![a] = TellTurn(turn, r)]
        /\ new.sold = IF ClosesSale(r)
                      THEN [old.sold EXCEPT ![<<a, r.player>>] =
                              ClosedSale(r, TellTurn(turn, r).ladder)]
                      ELSE old.sold
    <3>1. ReconstructRecord(old, r) =
           [seen  |-> old.seen \cup {<<a, r.stamp>>},
            block |-> [old.block EXCEPT ![a] = TellTurn(turn, r)],
            sold  |-> IF ClosesSale(r)
                      THEN [old.sold EXCEPT ![<<a, r.player>>] =
                              ClosedSale(r, TellTurn(turn, r).ladder)]
                      ELSE old.sold]
      BY <1>1, <1>2, <1>11, ReconstructRecordByTurn
    <3> HIDE DEF old, new, turn, r, a
    <3>2. QED
      BY <1>3, <3>1
  <2>2. r.stamp \notin slot.stamps
    BY <1>6, <1>11
  <2>3. /\ Matches(FoldSlot(slot, r), TellTurn(turn, r))
        /\ StandsAt(FoldSlot(slot, r), r)
        /\ FoldSlot(slot, r).stamps \subseteq slot.stamps \cup {r.stamp}
        /\ Emits(slot, r) <=> ClosesSale(r)
        /\ CloseBy(slot, r).sale = ClosedSale(r, TellTurn(turn, r).ladder)
    BY <1>1, <1>2, <1>6, <2>2, FreshRecord
  <2>4. Sells(acc, r, old.sold, new.sold)
    <3>1. CASE ~ClosesSale(r)
      BY <1>4, <2>1, <2>3, <3>1 DEF Sells
    <3>2. CASE ClosesSale(r)
      <4> DEFINE c == CloseBy(slot, r)
      <4>1. c \in Close /\ FoldLine(acc, r).closed = Append(acc.closed, c)
        BY <1>4, <1>5, <2>3, <3>2
      <4>2. c.auction = a /\ c.player = r.player
        BY DEF CloseBy
      <4>3. new.sold = [old.sold EXCEPT ![<<c.auction, c.player>>] = c.sale]
        BY <2>1, <2>3, <3>2, <4>2
      <4> HIDE DEF c
      <4>4. QED
        BY <4>1, <4>2, <4>3 DEF Sells
    <3>3. QED
      BY <3>1, <3>2
  <2>5. ASSUME NEW b \in Auction
        PROVE  /\ Matches(slots[b], new.block[b])
               /\ \A s \in slots[b].stamps : <<b, s>> \in new.seen
               /\ \A i \in 1 .. n + 1 : Latest(lines, n + 1, i) /\ lines[i].auction = b
                                          => StandsAt(slots[b], lines[i])
    <3>1. CASE b = a
      <4>1. slots[b] = FoldSlot(slot, r) /\ new.block[b] = TellTurn(turn, r)
        BY <1>1, <1>2, <2>1, <3>1 DEF Telling
      <4>2. \A s \in slots[b].stamps : <<b, s>> \in new.seen
        BY <1>6, <2>1, <2>3, <3>1, <4>1
      <4>3. QED
        BY <1>9, <2>3, <3>1, <4>1, <4>2
    <3>2. CASE b # a
      <4>1. /\ Matches(acc.fold[b], old.block[b])
            /\ \A s \in acc.fold[b].stamps : <<b, s>> \in old.seen
        BY DEF Agrees
      <4>2. new.block[b] = old.block[b]
        BY <1>1, <1>2, <2>1, <3>2 DEF Telling
      <4>3. QED
        BY <1>8, <2>1, <3>2, <4>1, <4>2
    <3>3. QED
      BY <3>1, <3>2
  <2>6. Agrees(slots, lines, n + 1)
    BY <2>5 DEF Agrees
  <2>7. QED
    BY <1>4, <2>4, <2>6
<1>12. QED
  BY <1>10, <1>11

LEMMA LineAgrees ==
  ASSUME NEW lines \in Seq(Line), Orderly(lines), NEW n \in Nat, n + 1 <= Len(lines),
         NEW acc \in Folding, Agrees(acc.fold, lines, n)
  PROVE  /\ Agrees(FoldLine(acc, lines[n + 1]).fold, lines, n + 1)
         /\ Sells(acc, lines[n + 1], Evening(lines)[n].sold, Evening(lines)[n + 1].sold)
<1>1. CASE lines[n + 1] # Garbage
  BY <1>1, RecordAgrees
<1>2. CASE lines[n + 1] = Garbage
  <2>1. FoldLine(acc, lines[n + 1]) = acc
    BY <1>2 DEF FoldLine
  <2>2. Evening(lines)[n + 1] = Evening(lines)[n]
    <3>1. n + 1 \in 1 .. Len(lines) /\ (n + 1) - 1 = n
      OBVIOUS
    <3>2. QED
      BY <1>2, <3>1, EveningEquations DEF ReconstructLine
  <2>3. ASSUME NEW i \in 1 .. n + 1, Latest(lines, n + 1, i)
        PROVE  i \in 1 .. n /\ Latest(lines, n, i)
    BY <1>2, <2>3 DEF Latest
  <2>4. QED
    BY <2>1, <2>2, <2>3 DEF Agrees, Sells
<1>3. QED
  BY <1>1, <1>2

-----------------------------------------------------------------------------
(* A window: what it folds to, and what draining it leaves.                *)

Pair == Auction \X Player
Book == [Pair -> Sale \cup {NoSale}]

\* Draining the closes of lines m + 1 .. n into `old` leaves on pair k what one
\* reading of n lines sold, or what was there if those lines say nothing of it.
Tracks(old, known, closed, lines, m, n, k) ==
  \/ Drain(old, closed, known)[k] = Evening(lines)[n].sold[k]
  \/ /\ Drain(old, closed, known)[k] = old[k]
     /\ \A x \in m .. n : Evening(lines)[x].sold[k] = Evening(lines)[n].sold[k]

\* The pair's auction is one the loader knows, or the line is not about it.
Heard(known, line, k) == k[1] \in known \/ line = Garbage \/ line.auction # k[1]

LEMMA LineTracks ==
  ASSUME NEW lines \in Seq(Line), NEW m \in Nat, NEW n \in Nat, m <= n, n + 1 <= Len(lines),
         NEW old \in Book, NEW known, NEW k \in Pair, Heard(known, lines[n + 1], k),
         NEW acc \in Folding, Tracks(old, known, acc.closed, lines, m, n, k),
         Sells(acc, lines[n + 1], Evening(lines)[n].sold, Evening(lines)[n + 1].sold)
  PROVE  Tracks(old, known, FoldLine(acc, lines[n + 1]).closed, lines, m, n + 1, k)
<1> DEFINE before == Evening(lines)[n].sold
           after == Evening(lines)[n + 1].sold
           next == FoldLine(acc, lines[n + 1])
<1>1. before \in Book /\ acc.closed \in Seq(Close)
  <2>1. n \in 0 .. Len(lines)
    OBVIOUS
  <2>2. Evening(lines)[n] \in Telling
    BY <2>1, EveningType
  <2>3. QED
    BY <2>2 DEF Telling, Folding, Book, Pair
<1>2. ASSUME after[k] = before[k], Drain(old, next.closed, known)[k] = Drain(old, acc.closed, known)[k]
      PROVE  Tracks(old, known, next.closed, lines, m, n + 1, k)
  <2>1. CASE Drain(old, acc.closed, known)[k] = before[k]
    BY <1>2, <2>1 DEF Tracks
  <2>2. CASE Drain(old, acc.closed, known)[k] = old[k]
             /\ \A x \in m .. n : Evening(lines)[x].sold[k] = before[k]
    <3>1. \A x \in m .. n + 1 : x \in m .. n \/ x = n + 1
      OBVIOUS
    <3>2. QED
      BY <1>2, <2>2, <3>1 DEF Tracks
  <2>3. QED
    BY <2>1, <2>2 DEF Tracks
<1>3. CASE next.closed = acc.closed /\ after = before
  BY <1>2, <1>3
<1>4. ASSUME NEW c \in Close, lines[n + 1] # Garbage, c.auction = lines[n + 1].auction,
             next.closed = Append(acc.closed, c),
             after = [before EXCEPT ![<<c.auction, c.player>>] = c.sale]
      PROVE  Tracks(old, known, next.closed, lines, m, n + 1, k)
  <2>1. Drain(old, next.closed, known) =
          IF c.auction \in known
          THEN [Drain(old, acc.closed, known) EXCEPT ![<<c.auction, c.player>>] = c.sale]
          ELSE Drain(old, acc.closed, known)
    <3>1. DOMAIN old = Auction \X Player
      BY DEF Book, Pair
    <3>2. Drain(old, Append(acc.closed, c), known) =
            IF c.auction \in known
            THEN [Drain(old, acc.closed, known) EXCEPT ![<<c.auction, c.player>>] = c.sale]
            ELSE Drain(old, acc.closed, known)
      BY <1>1, <3>1, DrainAppend
    <3>3. QED
      BY <1>4, <3>2
  <2>2. DOMAIN Drain(old, acc.closed, known) = Pair /\ <<c.auction, c.player>> \in Pair
    BY DEF Drain, Book, Close, Pair
  <2>3. CASE k = <<c.auction, c.player>>
    <3>1. c.auction \in known
      BY <1>4, <2>3 DEF Heard
    <3>2. Drain(old, next.closed, known)[k] = c.sale /\ after[k] = c.sale
      BY <1>1, <1>4, <2>1, <2>2, <2>3, <3>1 DEF Book
    <3>3. QED
      BY <3>2 DEF Tracks
  <2>4. CASE k # <<c.auction, c.player>>
    <3>1. after[k] = before[k]
      BY <1>1, <1>4, <2>4 DEF Book
    <3>2. Drain(old, next.closed, known)[k] = Drain(old, acc.closed, known)[k]
      BY <2>1, <2>2, <2>4
    <3>3. QED
      BY <1>2, <3>1, <3>2
  <2>5. QED
    BY <2>3, <2>4
<1>5. QED
  BY <1>3, <1>4 DEF Sells

LEMMA WindowAgrees ==
  ASSUME NEW lines \in Seq(Line), Orderly(lines), NEW m \in Nat, NEW n \in Nat,
         m <= n, n <= Len(lines),
         NEW slots \in [Auction -> Slot], Agrees(slots, lines, m), NEW old \in Book, NEW known
  PROVE  LET pass == Advance(slots, SubSeq(lines, m + 1, n))
         IN  /\ pass \in Folding
             /\ Agrees(pass.fold, lines, n)
             /\ \A k \in Pair : (\A i \in m + 1 .. n : Heard(known, lines[i], k))
                                  => Tracks(old, known, pass.closed, lines, m, n, k)
<1> DEFINE w == SubSeq(lines, m + 1, n)
           Good(i) == /\ Agrees(After(slots, w)[i].fold, lines, m + i)
                      /\ \A k \in Pair : (\A j \in m + 1 .. n : Heard(known, lines[j], k))
                           => Tracks(old, known, After(slots, w)[i].closed, lines, m, m + i, k)
           S == {i \in Nat : i <= n - m => Good(i)}
<1>1. w \in Seq(Line) /\ Len(w) = n - m /\ \A i \in 1 .. n - m : w[i] = lines[m + i]
  OBVIOUS
<1>2. 0 \in S
  <2>1. After(slots, w)[0] = Start(slots)
    BY <1>1, AfterEquations
  <2>2. Drain(old, <<>>, known) = old
    BY DrainNothing DEF Book
  <2>3. \A x \in m .. m : x = m
    OBVIOUS
  <2>4. Good(0)
    BY <2>1, <2>2, <2>3 DEF Start, Tracks
  <2>5. QED
    BY <2>4
<1>3. ASSUME NEW i \in Nat, i \in S PROVE i + 1 \in S
  <2>1. SUFFICES ASSUME i + 1 <= n - m PROVE Good(i + 1)
    OBVIOUS
  <2> DEFINE acc == After(slots, w)[i]
  <2>2. acc \in Folding
    <3>1. i \in 0 .. Len(w)
      BY <1>1, <2>1
    <3> HIDE DEF w
    <3>2. QED
      BY <1>1, <3>1, AfterType
  <2>3. After(slots, w)[i + 1] = FoldLine(acc, lines[m + i + 1])
    <3>1. i + 1 \in 1 .. Len(w) /\ (i + 1) - 1 = i /\ w[i + 1] = lines[m + i + 1]
      BY <1>1, <2>1
    <3> HIDE DEF w
    <3>2. After(slots, w)[i + 1] = FoldLine(After(slots, w)[(i + 1) - 1], w[i + 1])
      BY <1>1, <3>1, AfterEquations
    <3>3. QED
      BY <3>1, <3>2
  <2>4. Good(i)
    BY <1>3, <2>1
  <2>5. m + i \in Nat /\ m + i + 1 <= Len(lines) /\ m <= m + i /\ m + (i + 1) = m + i + 1
    BY <2>1
  <2>6. m + i + 1 \in m + 1 .. n
    BY <2>1
  <2> HIDE DEF acc, w
  <2>7. /\ Agrees(FoldLine(acc, lines[m + i + 1]).fold, lines, m + i + 1)
        /\ Sells(acc, lines[m + i + 1], Evening(lines)[m + i].sold, Evening(lines)[m + i + 1].sold)
    <3>1. Agrees(acc.fold, lines, m + i)
      BY <2>4 DEF acc
    <3>2. QED
      BY <2>2, <2>5, <3>1, LineAgrees
  <2>8. ASSUME NEW k \in Pair, \A j \in m + 1 .. n : Heard(known, lines[j], k)
        PROVE  Tracks(old, known, FoldLine(acc, lines[m + i + 1]).closed, lines, m, m + i + 1, k)
    <3>1. Tracks(old, known, acc.closed, lines, m, m + i, k)
      BY <2>4, <2>8 DEF acc
    <3>2. Heard(known, lines[m + i + 1], k)
      BY <2>6, <2>8
    <3>3. QED
      BY <2>2, <2>5, <2>7, <3>1, <3>2, LineTracks
  <2>9. QED
    BY <2>3, <2>5, <2>7, <2>8
<1>4. Nat \subseteq S
  <2> HIDE DEF S
  <2>1. QED
    BY <1>2, <1>3, SetInduction
<1>5. Good(n - m) /\ n - m \in Nat /\ m + (n - m) = n
  BY <1>4
<1>6. Advance(slots, w) = After(slots, w)[n - m]
  BY <1>1 DEF Advance
<1>7. After(slots, w)[n - m] \in Folding
  <2>1. n - m \in 0 .. Len(w)
    BY <1>1
  <2>2. QED
    BY <1>1, <2>1, AfterType
<1>8. QED
  BY <1>5, <1>6, <1>7

-----------------------------------------------------------------------------
(* What the collector does to the landing zone.                            *)

\* What the site writes to a node is a record of the same auction.
LEMMA SuccessorsAreRecords ==
  ASSUME NEW n \in Record, NEW s \in Nat, NEW m \in Successors(n, s)
  PROVE  m \in Record /\ m.auction = n.auction
<1>1. Follows[n.type] \subseteq UpdateType
  BY DEF Follows, UpdateType, Record
<1>2. StartPrice .. MaxPrice \subseteq Nat
  BY BoundsAssumption
<1>3. QED
  BY <1>1, <1>2 DEF Successors, Record

\* Landing a record leaves the lines already there alone; what it adds is the
\* record, and the unterminated line in front of it if there was one.
LEMMA LandExtends ==
  ASSUME log \in Seq(Line), tail \in Line \cup {Clean}, NEW r \in Record, Land(r)
  PROVE  /\ log' \in Seq(Line) /\ tail' \in Line \cup {Clean}
         /\ Len(log) < Len(log')
         /\ \A i \in 1 .. Len(log) : log'[i] = log[i]
         /\ \A i \in 1 .. Len(log') :
              i > Len(log) => log'[i] = r \/ (tail # Clean /\ log'[i] = tail)
<1>1. r \in Line
  BY DEF Line
<1>2. CASE tail = Clean
  <2>1. log' = Append(log, r) /\ tail' = Clean
    BY <1>1, <1>2 DEF Land
  <2>2. QED
    BY <1>1, <1>2, <2>1
<1>3. CASE tail # Clean
  <2>1. log' = log \o <<tail, r>> /\ tail' = Clean /\ tail \in Line
    BY <1>3 DEF Land
  <2>2. <<tail, r>> \in Seq(Line) /\ Len(<<tail, r>>) = 2
    BY <1>1, <2>1
  <2>3. log' \in Seq(Line) /\ Len(log') = Len(log) + 2
    BY <2>1, <2>2
  <2>4. \A i \in 1 .. Len(log) : log'[i] = log[i]
    BY <2>1, <2>2
  <2>5. \A i \in 1 .. Len(log') : i > Len(log) => log'[i] = r \/ log'[i] = tail
    BY <2>1, <2>2, <2>3
  <2>6. QED
    BY <1>3, <2>1, <2>3, <2>4, <2>5
<1>4. QED
  BY <1>2, <1>3

\* A write cut short adds at most the line it closes.
LEMMA TornExtends ==
  ASSUME log \in Seq(Line), tail \in Line \cup {Clean}, NEW r \in Record, TornLand(r)
  PROVE  /\ log' \in Seq(Line) /\ tail' \in {Clean, Garbage, r}
         /\ Len(log) <= Len(log')
         /\ \A i \in 1 .. Len(log) : log'[i] = log[i]
         /\ \A i \in 1 .. Len(log') :
              i > Len(log) => tail # Clean /\ log'[i] = tail /\ i = Len(log) + 1
<1>1. tail' \in {Clean, Garbage, r}
  BY DEF TornLand
<1>2. CASE tail = Clean
  <2>1. log' = log
    BY <1>2 DEF TornLand
  <2>2. QED
    BY <1>1, <2>1
<1>3. CASE tail # Clean
  <2>1. log' = Append(log, tail) /\ tail \in Line
    BY <1>3 DEF TornLand
  <2>2. /\ log' \in Seq(Line) /\ Len(log') = Len(log) + 1 /\ log'[Len(log) + 1] = tail
        /\ \A i \in 1 .. Len(log) : log'[i] = log[i]
    BY <2>1
  <2>3. QED
    BY <1>1, <1>3, <2>2
<1>4. QED
  BY <1>2, <1>3

\* The state the collector is killed on: one just written to a node it
\* follows, or the one the node it subscribes to holds.
LEMMA CutShort ==
  ASSUME PositionTypeOK, NEW a \in Auction, KilledMidWrite(a)
  PROVE  \E r \in Record :
           /\ TornLand(r)
           /\ \/ /\ a \in followed /\ clock' = clock + 1 /\ r \in Successors(node[a], clock + 1)
                 /\ node' = [node EXCEPT ![a] = r]
              \/ /\ a \in seed /\ r = node[a] /\ UNCHANGED <<node, clock>>
<1>1. node[a] \in Record /\ clock + 1 \in Nat
  BY DEF PositionTypeOK
<1>2. \A m \in Successors(node[a], clock + 1) : m \in Record
  BY <1>1, SuccessorsAreRecords
<1>3. QED
  BY <1>1, <1>2 DEF KilledMidWrite, siteVars

-----------------------------------------------------------------------------
(* Type correctness.                                                       *)

\* A fault counts, and nothing else about the counters changes.
LEMMA FaultType ==
  ASSUME faults \in [FaultKind -> Nat], NEW kind \in FaultKind, Fault(kind)
  PROVE  faults' \in [FaultKind -> Nat]
BY DEF Fault

LEMMA TypeInit == Init => PositionTypeOK
<1> SUFFICES ASSUME Init PROVE PositionTypeOK
  OBVIOUS
<1>1. \A a \in Auction : EmptyNode(a) \in Record
  BY DEF EmptyNode, Record, UpdateType
<1>2. QED
  BY <1>1 DEF Init, PositionTypeOK, LoaderPoint

LEMMA TypeStep == PositionTypeOK /\ [Next]_vars => PositionTypeOK'
<1> SUFFICES ASSUME PositionTypeOK, [Next]_vars PROVE PositionTypeOK'
  OBVIOUS
<1> USE DEF PositionTypeOK
<1>1. ASSUME NEW a \in Auction, NodeWrite(a) PROVE PositionTypeOK'
  <2>1. PICK m \in Successors(node[a], clock + 1) :
          /\ node' = [node EXCEPT ![a] = m]
          /\ IF a \in followed
             THEN Land(m) /\ cached' = [cached EXCEPT ![a] = m.stamp]
             ELSE UNCHANGED <<log, tail, cached>>
    BY <1>1 DEF NodeWrite
  <2>2. m \in Record /\ m.stamp \in Nat
    BY SuccessorsAreRecords DEF Record
  <2>3. log' \in Seq(Line) /\ tail' \in Line \cup {Clean} /\ cached' \in [Auction -> Nat]
    BY <2>1, <2>2, LandExtends
  <2>4. node' \in [Auction -> Record] /\ clock' \in Nat
    BY <1>1, <2>1, <2>2 DEF NodeWrite
  <2>5. QED
    BY <1>1, <2>3, <2>4 DEF NodeWrite, fileVars, dbVars, loaderVars
<1>2. ASSUME NEW a \in Auction, KilledMidWrite(a) PROVE PositionTypeOK'
  <2>1. PICK r \in Record :
          /\ TornLand(r)
          /\ \/ clock' = clock + 1 /\ node' = [node EXCEPT ![a] = r]
             \/ UNCHANGED <<node, clock>>
    BY <1>2, CutShort
  <2>2. log' \in Seq(Line) /\ tail' \in Line \cup {Clean}
    BY <2>1, TornExtends DEF Line
  <2>3. node' \in [Auction -> Record] /\ clock' \in Nat
    BY <2>1
  <2>4. faults' \in [FaultKind -> Nat]
    BY <1>2, FaultType DEF KilledMidWrite, FaultKind
  <2>5. QED
    BY <1>2, <2>2, <2>3, <2>4 DEF KilledMidWrite, fileVars, dbVars, loaderVars
<1>3. ASSUME NEW a \in Auction, Subscribe(a) PROVE PositionTypeOK'
  <2>1. node[a] \in Record /\ node[a].stamp \in Nat
    BY DEF Record
  <2>2. log' \in Seq(Line) /\ tail' \in Line \cup {Clean} /\ cached' \in [Auction -> Nat]
    BY <1>3, <2>1, LandExtends DEF Subscribe
  <2>3. QED
    BY <1>3, <2>2 DEF Subscribe, siteVars, fileVars, dbVars, loaderVars
<1>4. ASSUME NEW a \in Auction, StreamDrops(a) PROVE PositionTypeOK'
  BY <1>4, FaultType DEF StreamDrops, FaultKind, siteVars, fileVars, dbVars, loaderVars
<1>5. ASSUME NEW a \in Auction, Scan(a) PROVE PositionTypeOK'
  BY <1>5 DEF Scan, siteVars, fileVars, dbVars, loaderVars
<1>6. CASE CollectorKilled
  BY <1>6, FaultType DEF CollectorKilled, FaultKind, siteVars, fileVars, dbVars, loaderVars
<1>7. CASE LoaderStart
  BY <1>7 DEF LoaderStart, LoaderPoint, siteVars, zoneVars, fileVars, dbVars
<1>8. CASE ReadWindow
  <2>1. WindowEnd \in Nat
    BY WindowAssumption DEF WindowEnd, Smaller
  <2>2. QED
    BY <1>8, <2>1 DEF ReadWindow, LoaderPoint, siteVars, zoneVars, fileVars, dbVars
<1>9. CASE ReadSeed
  BY <1>9, FaultType DEF ReadSeed, FaultKind, LoaderPoint, siteVars, zoneVars, fileVars, dbVars
<1>10. CASE CommitWindow
  BY <1>10 DEF CommitWindow, LoaderPoint, siteVars, zoneVars, fileVars
<1>11. CASE CommitFails
  BY <1>11, FaultType
  DEF CommitFails, FaultKind, LoaderPoint, siteVars, zoneVars, fileVars, dbVars
<1>12. CASE WriteState
  BY <1>12 DEF WriteState, LoaderPoint, siteVars, zoneVars, dbVars
<1>13. CASE WriteOffset
  BY <1>13 DEF WriteOffset, LoaderPoint, siteVars, zoneVars, dbVars
<1>14. CASE LoaderKilled
  BY <1>14, FaultType DEF LoaderKilled, FaultKind, siteVars, zoneVars, fileVars, dbVars
<1>15. CASE StateDiscarded
  BY <1>15, FaultType DEF StateDiscarded, FaultKind, siteVars, zoneVars, dbVars, loaderVars
<1>16. CASE UNCHANGED vars
  BY <1>16 DEF vars, siteVars, zoneVars, fileVars, dbVars, loaderVars
<1>17. QED
  BY <1>1, <1>2, <1>3, <1>4, <1>5, <1>6, <1>7, <1>8, <1>9, <1>10, <1>11, <1>12,
     <1>13, <1>14, <1>15, <1>16 DEF Next, CollectorNext, LoaderStep

-----------------------------------------------------------------------------
(* No line is skipped.                                                     *)

\* Where the window being carried stands with respect to what is committed:
\* what makes NothingSkipped inductive, because the offset moves to winEnd.
WindowInv ==
  /\ winEnd <= Len(log)
  /\ lpc \in {"committed", "stated"} => winEnd <= carried
  /\ lpc = "stated" => statePos = winEnd

SafetyInv == PositionTypeOK /\ NothingSkipped /\ WindowInv

\* The collector only lengthens the landing zone, and touches nothing of the
\* loader, of its files or of Postgres.
LEMMA CollectorStep ==
  ASSUME PositionTypeOK, CollectorNext \/ CollectorKilled
  PROVE  /\ log' \in Seq(Line) /\ Len(log) <= Len(log')
         /\ \A i \in 1 .. Len(log) : log'[i] = log[i]
         /\ UNCHANGED <<fileVars, dbVars, loaderVars>>
<1> USE DEF PositionTypeOK
<1>1. ASSUME NEW a \in Auction, NodeWrite(a)
      PROVE  log' \in Seq(Line) /\ Len(log) <= Len(log') /\ \A i \in 1 .. Len(log) : log'[i] = log[i]
  <2>1. PICK m \in Successors(node[a], clock + 1) :
          IF a \in followed THEN Land(m) ELSE UNCHANGED <<log, tail>>
    BY <1>1 DEF NodeWrite
  <2>2. m \in Record
    BY SuccessorsAreRecords
  <2>3. CASE a \in followed
    BY <2>1, <2>2, <2>3, LandExtends
  <2>4. CASE a \notin followed
    BY <2>1, <2>4
  <2>5. QED
    BY <2>3, <2>4
<1>2. ASSUME NEW a \in Auction, Subscribe(a)
      PROVE  log' \in Seq(Line) /\ Len(log) <= Len(log') /\ \A i \in 1 .. Len(log) : log'[i] = log[i]
  <2>1. CASE Land(node[a])
    BY <2>1, LandExtends
  <2>2. CASE UNCHANGED log
    BY <2>2
  <2>3. QED
    BY <1>2, <2>1, <2>2 DEF Subscribe
<1>3. ASSUME NEW a \in Auction, KilledMidWrite(a)
      PROVE  log' \in Seq(Line) /\ Len(log) <= Len(log') /\ \A i \in 1 .. Len(log) : log'[i] = log[i]
  BY <1>3, CutShort, TornExtends
<1>4. (\E a \in Auction : StreamDrops(a) \/ Scan(a)) \/ CollectorKilled => UNCHANGED log
  BY DEF StreamDrops, Scan, CollectorKilled
<1>5. log' \in Seq(Line) /\ Len(log) <= Len(log') /\ \A i \in 1 .. Len(log) : log'[i] = log[i]
  BY <1>1, <1>2, <1>3, <1>4 DEF CollectorNext
<1>6. UNCHANGED <<fileVars, dbVars, loaderVars>>
  BY DEF CollectorNext, NodeWrite, KilledMidWrite, Subscribe, StreamDrops, Scan, CollectorKilled
<1>7. QED
  BY <1>5, <1>6

LEMMA SafetyInit == Init => SafetyInv
<1> SUFFICES ASSUME Init PROVE SafetyInv
  OBVIOUS
<1>1. NothingSkipped /\ WindowInv
  BY DEF Init, NothingSkipped, WindowInv
<1>2. QED
  BY <1>1, TypeInit DEF SafetyInv

LEMMA SafetyStep == SafetyInv /\ [Next]_vars => SafetyInv'
<1> SUFFICES ASSUME SafetyInv, [Next]_vars PROVE (NothingSkipped /\ WindowInv)'
  BY TypeStep DEF SafetyInv
<1> USE DEF SafetyInv, PositionTypeOK, NothingSkipped, WindowInv
<1>1. CASE CollectorNext \/ CollectorKilled
  BY <1>1, CollectorStep DEF fileVars, dbVars, loaderVars
<1>2. CASE LoaderStart
  BY <1>2 DEF LoaderStart, zoneVars, dbVars
<1>3. CASE ReadWindow
  <2>1. WindowEnd \in Nat /\ WindowEnd <= Len(log)
    BY WindowAssumption DEF WindowEnd, Smaller
  <2>2. QED
    BY <1>3, <2>1 DEF ReadWindow, zoneVars, fileVars, dbVars
<1>4. CASE ReadSeed
  BY <1>4 DEF ReadSeed, zoneVars, fileVars, dbVars
<1>5. CASE CommitWindow
  BY <1>5 DEF CommitWindow, zoneVars, fileVars
<1>6. CASE CommitFails
  BY <1>6 DEF CommitFails, zoneVars, fileVars, dbVars
<1>7. CASE WriteState
  BY <1>7 DEF WriteState, zoneVars, dbVars
<1>8. CASE WriteOffset
  BY <1>8 DEF WriteOffset, zoneVars, dbVars
<1>9. CASE LoaderKilled
  BY <1>9 DEF LoaderKilled, zoneVars, fileVars, dbVars
<1>10. CASE StateDiscarded
  BY <1>10 DEF StateDiscarded, zoneVars, dbVars, loaderVars
<1>11. CASE UNCHANGED vars
  BY <1>11 DEF vars, zoneVars, fileVars, dbVars, loaderVars
<1>12. QED
  BY <1>1, <1>2, <1>3, <1>4, <1>5, <1>6, <1>7, <1>8, <1>9, <1>10, <1>11 DEF Next, LoaderStep

LEMMA SafetyAlways == Spec => []SafetyInv
BY SafetyInit, SafetyStep, PTL DEF Spec

\* Whatever the window, wherever the loader is killed and however often the
\* database or the collector fails, the two checkpoint files never stand past
\* a line Postgres was not given.
THEOREM NoLineIsSkipped == Spec => []NothingSkipped
<1>1. SafetyInv => NothingSkipped
  BY DEF SafetyInv
<1>2. QED
  BY <1>1, SafetyAlways, PTL

-----------------------------------------------------------------------------
(* The two checkpoint files describe one position.                         *)

\* The state file stands where the offset does, except between the two writes.
AgreeInv ==
  /\ lpc # "stated" => statePos = offsetFile
  /\ PositionsAgree

LEMMA AgreeAlways ==
  ASSUME "stated" \notin CrashPoints
  PROVE  Spec => []AgreeInv
<1>1. Init => AgreeInv
  BY DEF Init, AgreeInv, PositionsAgree, LoaderPoint
<1>2. SafetyInv /\ AgreeInv /\ [Next]_vars => AgreeInv'
  <2> SUFFICES ASSUME SafetyInv, AgreeInv, [Next]_vars PROVE AgreeInv'
    OBVIOUS
  <2> USE DEF AgreeInv, PositionsAgree, LoaderPoint
  <2>1. CASE CollectorNext \/ CollectorKilled
    BY <2>1, CollectorStep DEF SafetyInv, fileVars, loaderVars
  <2>2. CASE LoaderStart
    BY <2>2 DEF LoaderStart
  <2>3. CASE ReadWindow \/ ReadSeed \/ CommitWindow \/ CommitFails
    BY <2>3 DEF ReadWindow, ReadSeed, CommitWindow, CommitFails, fileVars
  <2>4. CASE WriteState
    BY <2>4 DEF WriteState
  <2>5. CASE WriteOffset
    BY <2>5 DEF WriteOffset, SafetyInv, WindowInv
  <2>6. CASE LoaderKilled
    BY <2>6 DEF LoaderKilled, fileVars
  <2>7. CASE StateDiscarded
    BY <2>7 DEF StateDiscarded, loaderVars
  <2>8. CASE UNCHANGED vars
    BY <2>8 DEF vars, fileVars, loaderVars
  <2>9. QED
    BY <2>1, <2>2, <2>3, <2>4, <2>5, <2>6, <2>7, <2>8 DEF Next, LoaderStep
<1>3. QED
  BY <1>1, <1>2, SafetyAlways, PTL DEF Spec

\* A loader that is never killed between its two checkpoint writes always
\* folds a window onto a state that ends where the window begins.
THEOREM FilesAgree ==
  ASSUME "stated" \notin CrashPoints
  PROVE  Spec => []PositionsAgree
<1>1. AgreeInv => PositionsAgree
  BY DEF AgreeInv
<1>2. QED
  BY <1>1, AgreeAlways, PTL

-----------------------------------------------------------------------------
(* Every carried line has its event.                                       *)

\* A line that names an auction names one of `auctions`.
Names(line, auctions) == line # Garbage => line.auction \in auctions

\* Only auctions of the seed are followed, so only they reach the landing
\* zone; the registry never forgets one.
RegistryInv ==
  /\ \A a \in Auction : node[a].auction = a
  /\ followed \subseteq seed
  /\ tail # Clean => Names(tail, seed)
  /\ \A i \in 1 .. Len(log) : Names(log[i], seed)

\* Once the seed has been re-read, the window is within what it names.
SeedInv ==
  lpc \in {"seeded", "committed", "stated"} =>
    \A i \in 1 .. winEnd : Names(log[i], seedRows)

\* Landing a record of an auction the seed names keeps the zone in the seed.
LEMMA LandNames ==
  ASSUME log \in Seq(Line), tail \in Line \cup {Clean}, NEW r \in Record, Land(r),
         r.auction \in seed, tail # Clean => Names(tail, seed),
         \A i \in 1 .. Len(log) : Names(log[i], seed)
  PROVE  (tail' # Clean => Names(tail', seed)) /\ \A i \in 1 .. Len(log') : Names(log'[i], seed)
<1>1. (tail' # Clean => Names(tail', seed))
  BY DEF Land, Names
<1>2. Names(r, seed)
  BY DEF Names
<1>3. ASSUME NEW i \in 1 .. Len(log') PROVE Names(log'[i], seed)
  <2>1. CASE i \in 1 .. Len(log)
    BY <2>1, LandExtends
  <2>2. CASE i > Len(log)
    <3>1. log'[i] = r \/ (tail # Clean /\ log'[i] = tail)
      BY <2>2, LandExtends
    <3>2. QED
      BY <3>1, <1>2
  <2>3. Len(log) \in Nat /\ Len(log') \in Nat
    BY LandExtends
  <2>4. QED
    BY <2>1, <2>2, <2>3
<1>4. QED
  BY <1>1, <1>3

LEMMA RegistryInit == Init => RegistryInv
BY DEF Init, RegistryInv, Names, EmptyNode

LEMMA RegistryStep == PositionTypeOK /\ RegistryInv /\ [Next]_vars => RegistryInv'
<1> SUFFICES ASSUME PositionTypeOK, RegistryInv, [Next]_vars PROVE RegistryInv'
  OBVIOUS
<1>0. /\ node \in [Auction -> Record] /\ clock \in Nat
      /\ log \in Seq(Line) /\ tail \in Line \cup {Clean}
  BY DEF PositionTypeOK
<1>1. ASSUME NEW a \in Auction, NodeWrite(a) PROVE RegistryInv'
  <2>1. PICK m \in Successors(node[a], clock + 1) :
          /\ node' = [node EXCEPT ![a] = m]
          /\ IF a \in followed THEN Land(m) ELSE UNCHANGED <<log, tail>>
    BY <1>1 DEF NodeWrite
  <2>2. m \in Record /\ m.auction = a
    BY <1>0, SuccessorsAreRecords DEF RegistryInv
  <2>3. UNCHANGED <<seed, followed>>
    BY <1>1 DEF NodeWrite
  <2>4. \A b \in Auction : node'[b].auction = b
    BY <1>0, <2>1, <2>2 DEF RegistryInv
  <2>5. (tail' # Clean => Names(tail', seed)) /\ \A i \in 1 .. Len(log') : Names(log'[i], seed)
    <3>1. CASE a \in followed
      BY <1>0, <2>1, <2>2, <3>1, LandNames DEF RegistryInv
    <3>2. CASE a \notin followed
      BY <2>1, <3>2 DEF RegistryInv
    <3>3. QED
      BY <3>1, <3>2
  <2>6. QED
    BY <2>3, <2>4, <2>5 DEF RegistryInv, Names
<1>2. ASSUME NEW a \in Auction, KilledMidWrite(a) PROVE RegistryInv'
  <2>1. PICK r \in Record :
          /\ TornLand(r)
          /\ \/ a \in followed /\ r \in Successors(node[a], clock + 1) /\ node' = [node EXCEPT ![a] = r]
             \/ a \in seed /\ r = node[a] /\ UNCHANGED node
    BY <1>2, CutShort
  <2>2. r.auction = a /\ a \in seed
    BY <1>0, <2>1, SuccessorsAreRecords DEF RegistryInv
  <2>3. followed' = {} /\ UNCHANGED seed
    BY <1>2 DEF KilledMidWrite
  <2>4. \A b \in Auction : node'[b].auction = b
    BY <1>0, <2>1, <2>2 DEF RegistryInv
  <2>5. tail' # Clean => Names(tail', seed)
    BY <1>0, <2>1, <2>2, TornExtends DEF Names
  <2>6. \A i \in 1 .. Len(log') : Names(log'[i], seed)
    <3>1. /\ \A i \in 1 .. Len(log) : log'[i] = log[i]
          /\ \A i \in 1 .. Len(log') : i > Len(log) => tail # Clean /\ log'[i] = tail
      BY <1>0, <2>1, TornExtends
    <3>2. Len(log) \in Nat /\ Len(log') \in Nat
      BY <1>0, <2>1, TornExtends
    <3>3. QED
      BY <3>1, <3>2 DEF RegistryInv
  <2>7. QED
    BY <2>3, <2>4, <2>5, <2>6 DEF RegistryInv, Names
<1>3. ASSUME NEW a \in Auction, Subscribe(a) PROVE RegistryInv'
  <2>1. node[a] \in Record /\ node[a].auction \in seed
    BY <1>0, <1>3 DEF Subscribe, RegistryInv
  <2>2. UNCHANGED <<node, seed>> /\ followed' \subseteq seed
    BY <1>3 DEF Subscribe, siteVars, RegistryInv
  <2>3. (tail' # Clean => Names(tail', seed)) /\ \A i \in 1 .. Len(log') : Names(log'[i], seed)
    <3>1. CASE Land(node[a])
      BY <1>0, <2>1, <3>1, LandNames DEF RegistryInv
    <3>2. CASE UNCHANGED <<log, tail>>
      BY <3>2 DEF RegistryInv
    <3>3. QED
      BY <1>3, <3>1, <3>2 DEF Subscribe
  <2>4. QED
    BY <2>2, <2>3 DEF RegistryInv, Names
<1>4. ASSUME NEW a \in Auction, StreamDrops(a) PROVE RegistryInv'
  BY <1>4 DEF StreamDrops, RegistryInv, Names, siteVars
<1>5. ASSUME NEW a \in Auction, Scan(a) PROVE RegistryInv'
  BY <1>5 DEF Scan, RegistryInv, Names, siteVars
<1>6. CASE CollectorKilled
  BY <1>6 DEF CollectorKilled, RegistryInv, Names, siteVars
<1>7. CASE LoaderStep \/ CommitFails \/ LoaderKilled \/ StateDiscarded \/ UNCHANGED vars
  <2>1. UNCHANGED <<siteVars, zoneVars>>
    BY <1>7 DEF LoaderStep, LoaderStart, ReadWindow, ReadSeed, CommitWindow, CommitFails,
                WriteState, WriteOffset, LoaderKilled, StateDiscarded, vars
  <2>2. QED
    BY <2>1 DEF siteVars, zoneVars, RegistryInv, Names
<1>8. QED
  BY <1>1, <1>2, <1>3, <1>4, <1>5, <1>6, <1>7 DEF Next, CollectorNext

\* While no read of the seed fails, the seed the window is filtered against
\* names every auction in it.
LEMMA SeedStep ==
  ASSUME MaxSeedFailures = 0, SafetyInv, RegistryInv, SeedInv, [Next]_vars
  PROVE  SeedInv'
<1> USE DEF SeedInv, SafetyInv, WindowInv, PositionTypeOK
<1>1. CASE CollectorNext \/ CollectorKilled
  <2>1. UNCHANGED <<lpc, winEnd, seedRows>> /\ \A i \in 1 .. Len(log) : log'[i] = log[i]
    BY <1>1, CollectorStep DEF loaderVars
  <2>2. \A i \in 1 .. winEnd : i \in 1 .. Len(log)
    OBVIOUS
  <2>3. QED
    BY <2>1, <2>2 DEF Names
<1>2. CASE LoaderStart \/ ReadWindow \/ WriteOffset \/ CommitFails \/ LoaderKilled \/ StateDiscarded
  BY <1>2 DEF LoaderStart, ReadWindow, WriteOffset, CommitFails, LoaderKilled, StateDiscarded,
              loaderVars
<1>3. CASE ReadSeed
  <2>1. ~ Fault("seed")
    BY DEF Fault, FaultBound, FaultKind
  <2>2. seedRows' = seed /\ UNCHANGED <<winEnd, log>>
    BY <1>3, <2>1 DEF ReadSeed, zoneVars
  <2>3. \A i \in 1 .. winEnd : Names(log[i], seed)
    BY DEF RegistryInv
  <2>4. QED
    BY <2>2, <2>3 DEF Names
<1>4. CASE CommitWindow \/ WriteState
  BY <1>4 DEF CommitWindow, WriteState, zoneVars, Names
<1>5. CASE UNCHANGED vars
  BY <1>5 DEF vars, loaderVars, zoneVars, Names
<1>6. QED
  BY <1>1, <1>2, <1>3, <1>4, <1>5 DEF Next, LoaderStep

\* A window that starts at or before the carried prefix and commits under a
\* seed that names it extends the prefix whose events are stored.
LEMMA EventsStep ==
  ASSUME SafetyInv, SeedInv, CarriedLinesHaveEvents, [Next]_vars
  PROVE  CarriedLinesHaveEvents'
<1> USE DEF SafetyInv, PositionTypeOK, NothingSkipped, CarriedLinesHaveEvents
<1>1. CASE CollectorNext \/ CollectorKilled
  <2>1. UNCHANGED <<events, carried>> /\ \A i \in 1 .. Len(log) : log'[i] = log[i]
    BY <1>1, CollectorStep DEF dbVars
  <2>2. \A i \in 1 .. carried : i \in 1 .. Len(log)
    OBVIOUS
  <2>3. QED
    BY <2>1, <2>2
<1>2. CASE CommitWindow
  <2>1. UNCHANGED log
    BY <1>2 DEF CommitWindow, zoneVars
  <2>2. ASSUME NEW i \in 1 .. carried', log[i] # Garbage
        PROVE  <<log[i].auction, log[i].stamp>> \in events'
    <3>1. CASE i <= carried
      BY <1>2, <2>2, <3>1 DEF CommitWindow
    <3>2. CASE i > carried
      <4>1. i \in offsetFile + 1 .. winEnd /\ i \in 1 .. winEnd
        BY <1>2, <3>2 DEF CommitWindow
      <4>2. log[i].auction \in seedRows
        BY <1>2, <2>2, <4>1 DEF SeedInv, CommitWindow, Names
      <4>3. QED
        BY <1>2, <2>2, <4>1, <4>2 DEF CommitWindow
    <3>3. QED
      BY <1>2, <3>1, <3>2 DEF CommitWindow
  <2>3. QED
    BY <2>1, <2>2
<1>3. CASE LoaderStart \/ ReadWindow \/ ReadSeed \/ CommitFails \/ WriteState \/ WriteOffset
             \/ LoaderKilled \/ StateDiscarded \/ UNCHANGED vars
  <2>1. UNCHANGED <<log, dbVars>>
    BY <1>3 DEF LoaderStart, ReadWindow, ReadSeed, CommitFails, WriteState, WriteOffset,
                LoaderKilled, StateDiscarded, vars, zoneVars
  <2>2. QED
    BY <2>1 DEF dbVars
<1>4. QED
  BY <1>1, <1>2, <1>3 DEF Next, LoaderStep

LEMMA SeedAlways ==
  ASSUME MaxSeedFailures = 0
  PROVE  Spec => []SeedInv
<1>1. Init => SeedInv
  BY DEF Init, SeedInv
<1>2. SafetyInv /\ RegistryInv /\ SeedInv /\ [Next]_vars => SeedInv'
  BY SeedStep
<1>3. SafetyInv => PositionTypeOK
  BY DEF SafetyInv
<1>4. QED
  BY <1>1, <1>2, <1>3, RegistryInit, RegistryStep, SafetyAlways, PTL DEF Spec

\* While no read of the seed fails, every line Postgres was given has its event
\* row, however windows, kills, outages and newly scanned auctions interleave.
THEOREM EventsFollowTheSeed ==
  ASSUME MaxSeedFailures = 0
  PROVE  Spec => []CarriedLinesHaveEvents
<1>1. Init => CarriedLinesHaveEvents
  BY DEF Init, CarriedLinesHaveEvents
<1>2. SafetyInv /\ SeedInv /\ CarriedLinesHaveEvents /\ [Next]_vars => CarriedLinesHaveEvents'
  BY EventsStep
<1>3. QED
  BY <1>1, <1>2, SeedAlways, SafetyAlways, PTL DEF Spec

-----------------------------------------------------------------------------
(* The order records are read in.                                          *)

\* What is read of an auction is never newer than its node.
OrderInv ==
  /\ \A a \in Auction : node[a].stamp <= clock
  /\ Orderly(log)
  /\ \A i \in 1 .. Len(log), a \in Auction : Precedes(log[i], node[a])
  /\ tail # Clean => /\ \A i \in 1 .. Len(log) : Precedes(log[i], tail)
                     /\ \A a \in Auction : Precedes(tail, node[a])

LEMMA LandOrderly ==
  ASSUME log \in Seq(Line), tail \in Line \cup {Clean}, NEW r \in Record, Land(r),
         Orderly(log),
         \A i \in 1 .. Len(log) : Precedes(log[i], r),
         tail # Clean => /\ \A i \in 1 .. Len(log) : Precedes(log[i], tail)
                         /\ Precedes(tail, r)
  PROVE  Orderly(log')
<1>1. CASE tail = Clean
  <2>1. log' = Append(log, r) /\ r \in Line
    BY <1>1 DEF Land, Line
  <2>2. /\ Len(log') = Len(log) + 1 /\ log'[Len(log) + 1] = r
        /\ \A i \in 1 .. Len(log) : log'[i] = log[i]
    BY <2>1
  <2>3. Precedes(r, r)
    BY DEF Precedes
  <2>4. ASSUME NEW j \in 1 .. Len(log) + 1, NEW i \in 1 .. j PROVE Precedes(log'[i], log'[j])
    <3>1. CASE j \in 1 .. Len(log)
      <4>1. i \in 1 .. Len(log)
        BY <3>1
      <4>2. QED
        BY <2>2, <3>1, <4>1 DEF Orderly
    <3>2. CASE j = Len(log) + 1
      <4>1. i \in 1 .. Len(log) \/ i = Len(log) + 1
        BY <3>2
      <4>2. QED
        BY <2>2, <2>3, <3>2, <4>1
    <3>3. QED
      BY <3>1, <3>2
  <2>5. QED
    BY <2>2, <2>4 DEF Orderly
<1>2. CASE tail # Clean
  <2>1. log' = log \o <<tail, r>> /\ r \in Line /\ tail \in Line
    BY <1>2 DEF Land, Line
  <2>2. /\ Len(log') = Len(log) + 2 /\ log'[Len(log) + 1] = tail /\ log'[Len(log) + 2] = r
        /\ \A i \in 1 .. Len(log) : log'[i] = log[i]
    BY <2>1
  <2>3. Precedes(r, r) /\ Precedes(tail, tail) /\ Precedes(tail, r)
    BY <1>2 DEF Precedes
  <2>4. ASSUME NEW j \in 1 .. Len(log) + 2, NEW i \in 1 .. j PROVE Precedes(log'[i], log'[j])
    <3>1. CASE j \in 1 .. Len(log)
      <4>1. i \in 1 .. Len(log)
        BY <3>1
      <4>2. QED
        BY <2>2, <3>1, <4>1 DEF Orderly
    <3>2. CASE j = Len(log) + 1
      <4>1. i \in 1 .. Len(log) \/ i = Len(log) + 1
        BY <3>2
      <4>2. QED
        BY <1>2, <2>2, <2>3, <3>2, <4>1
    <3>3. CASE j = Len(log) + 2
      <4>1. i \in 1 .. Len(log) \/ i = Len(log) + 1 \/ i = Len(log) + 2
        BY <3>3
      <4>2. QED
        BY <2>2, <2>3, <3>3, <4>1
    <3>4. QED
      BY <3>1, <3>2, <3>3
  <2>5. QED
    BY <2>2, <2>4 DEF Orderly
<1>3. QED
  BY <1>1, <1>2

\* What landing a record and writing its node do to the order.
LEMMA LandKeepsOrder ==
  ASSUME PositionTypeOK, RegistryInv, OrderInv, NEW r \in Record, Land(r),
         \A i \in 1 .. Len(log) : Precedes(log[i], r),
         tail # Clean => Precedes(tail, r),
         \A a \in Auction : node'[a].stamp <= clock',
         \A a \in Auction : Precedes(r, node'[a]),
         \A a \in Auction : node'[a] = node[a] \/ (a = r.auction /\ node'[a] = r)
  PROVE  OrderInv'
<1>1. log \in Seq(Line) /\ tail \in Line \cup {Clean}
  BY DEF PositionTypeOK
<1>2. Orderly(log')
  BY <1>1, LandOrderly DEF OrderInv
<1>3. tail' = Clean
  BY DEF Land
<1>4. ASSUME NEW i \in 1 .. Len(log'), NEW a \in Auction PROVE Precedes(log'[i], node'[a])
  <2>1. CASE i \in 1 .. Len(log)
    <3>1. log'[i] = log[i]
      BY <1>1, <2>1, LandExtends
    <3>2. QED
      BY <2>1, <3>1 DEF OrderInv
  <2>2. CASE i > Len(log)
    <3>1. log'[i] = r \/ (tail # Clean /\ log'[i] = tail)
      BY <1>1, <2>2, LandExtends
    <3>2. QED
      BY <3>1 DEF OrderInv
  <2>3. Len(log) \in Nat /\ Len(log') \in Nat
    BY <1>1, LandExtends
  <2>4. QED
    BY <2>1, <2>2, <2>3
<1>5. QED
  BY <1>2, <1>3, <1>4 DEF OrderInv

\* What a write cut short, and writing its node, do to the order.
LEMMA TornKeepsOrder ==
  ASSUME log \in Seq(Line), tail \in Line \cup {Clean}, OrderInv, NEW r \in Record, TornLand(r),
         \A b \in Auction : node'[b].stamp <= clock',
         \A i \in 1 .. Len(log), b \in Auction : Precedes(log[i], node'[b]),
         tail # Clean => \A b \in Auction : Precedes(tail, node'[b]),
         \A b \in Auction : Precedes(r, node'[b]),
         \A i \in 1 .. Len(log) : Precedes(log[i], r),
         tail # Clean => Precedes(tail, r)
  PROVE  OrderInv'
<1>1. /\ log' \in Seq(Line) /\ tail' \in {Clean, Garbage, r}
      /\ Len(log) \in Nat /\ Len(log') \in Nat /\ Len(log) <= Len(log')
      /\ \A i \in 1 .. Len(log) : log'[i] = log[i]
      /\ \A i \in 1 .. Len(log') :
           i > Len(log) => tail # Clean /\ log'[i] = tail /\ i = Len(log) + 1
  BY TornExtends
<1>2. \A l : Precedes(l, Garbage) /\ Precedes(Garbage, l) /\ Precedes(l, l)
  BY DEF Precedes
<1>3. ASSUME NEW j \in 1 .. Len(log'), NEW i \in 1 .. j PROVE Precedes(log'[i], log'[j])
  <2>1. CASE j \in 1 .. Len(log)
    <3>1. i \in 1 .. Len(log)
      BY <1>1, <2>1
    <3>2. QED
      BY <1>1, <2>1, <3>1 DEF OrderInv, Orderly
  <2>2. CASE j > Len(log)
    <3>1. tail # Clean /\ log'[j] = tail /\ j = Len(log) + 1
      BY <1>1, <2>2
    <3>2. i \in 1 .. Len(log) \/ i = j
      BY <1>1, <3>1
    <3>3. QED
      BY <1>1, <1>2, <3>1, <3>2 DEF OrderInv
  <2>3. QED
    BY <1>1, <2>1, <2>2
<1>4. ASSUME NEW i \in 1 .. Len(log')
      PROVE  (tail' # Clean => Precedes(log'[i], tail'))
             /\ \A b \in Auction : Precedes(log'[i], node'[b])
  <2>1. CASE i \in 1 .. Len(log)
    BY <1>1, <1>2, <2>1
  <2>2. CASE i > Len(log)
    BY <1>1, <1>2, <2>2
  <2>3. QED
    BY <1>1, <2>1, <2>2
<1>5. tail' # Clean => \A b \in Auction : Precedes(tail', node'[b])
  BY <1>1, <1>2
<1>6. QED
  BY <1>3, <1>4, <1>5 DEF OrderInv, Orderly

LEMMA OrderInit == Init => OrderInv
BY DEF Init, OrderInv, Orderly, EmptyNode

\* A node write is stamped later than everything read of its auction.
LEMMA WrittenLater ==
  ASSUME PositionTypeOK, RegistryInv, OrderInv, NEW a \in Auction,
         NEW m \in Successors(node[a], clock + 1)
  PROVE  /\ m \in Record /\ m.auction = a /\ m.stamp = clock + 1
         /\ \A i \in 1 .. Len(log) : Precedes(log[i], m)
         /\ tail # Clean => Precedes(tail, m)
         /\ \A b \in Auction : b # a => Precedes(m, node[b])
<1>1. node[a] \in Record /\ node[a].auction = a /\ clock \in Nat /\ node[a].stamp <= clock
  BY DEF PositionTypeOK, RegistryInv, OrderInv
<1>2. m \in Record /\ m.auction = a
  BY <1>1, SuccessorsAreRecords
<1>3. m.stamp = clock + 1
  BY DEF Successors
<1>4. ASSUME NEW l \in Line, Precedes(l, node[a]) PROVE Precedes(l, m)
  <2>1. ASSUME l # Garbage, l.auction = a PROVE l.stamp < m.stamp
    <3>1. l \in Record /\ node[a] # Garbage
      BY <1>1, <2>1, DistinctAssumption DEF Line
    <3>2. l.stamp \in Nat /\ node[a].stamp \in Nat
      BY <1>1, <3>1 DEF Record
    <3>3. QED
      BY <1>1, <1>3, <1>4, <2>1, <3>1, <3>2 DEF Precedes
  <2>2. QED
    BY <1>2, <2>1 DEF Precedes
<1>5. \A i \in 1 .. Len(log) : log[i] \in Line
  BY DEF PositionTypeOK
<1>6. tail # Clean => tail \in Line
  BY DEF PositionTypeOK
<1>7. \A b \in Auction : b # a => Precedes(m, node[b])
  BY <1>2 DEF RegistryInv, Precedes
<1>8. QED
  BY <1>2, <1>3, <1>4, <1>5, <1>6, <1>7 DEF OrderInv

LEMMA OrderStep == PositionTypeOK /\ RegistryInv /\ OrderInv /\ [Next]_vars => OrderInv'
<1> SUFFICES ASSUME PositionTypeOK, RegistryInv, OrderInv, [Next]_vars PROVE OrderInv'
  OBVIOUS
<1>0. /\ node \in [Auction -> Record] /\ clock \in Nat
      /\ log \in Seq(Line) /\ tail \in Line \cup {Clean}
      /\ \A a \in Auction : node[a].stamp \in Nat /\ node[a].stamp <= clock /\ node[a].auction = a
  BY DEF PositionTypeOK, Record, OrderInv, RegistryInv
\* What a write of node a to m leaves of the order, landed or not.
<1>1. ASSUME NEW a \in Auction, NEW m \in Successors(node[a], clock + 1),
             node' = [node EXCEPT ![a] = m], clock' = clock + 1
      PROVE  /\ \A b \in Auction : node'[b].stamp <= clock'
             /\ \A b \in Auction : node'[b] = node[b] \/ (b = a /\ node'[b] = m)
             /\ \A b \in Auction : Precedes(m, node'[b])
             /\ \A i \in 1 .. Len(log), b \in Auction : Precedes(log[i], node'[b])
             /\ tail # Clean => \A b \in Auction : Precedes(tail, node'[b])
  <2>1. /\ m \in Record /\ m.auction = a /\ m.stamp = clock + 1
        /\ \A i \in 1 .. Len(log) : Precedes(log[i], m)
        /\ tail # Clean => Precedes(tail, m)
        /\ \A b \in Auction : b # a => Precedes(m, node[b])
    BY WrittenLater
  <2>2. \A b \in Auction : node'[b] = IF b = a THEN m ELSE node[b]
    BY <1>0, <1>1
  <2>3. Precedes(m, m)
    BY DEF Precedes
  <2>4. \A b \in Auction : node'[b].stamp <= clock'
    BY <1>0, <1>1, <2>1, <2>2
  <2>5. QED
    BY <2>1, <2>2, <2>3, <2>4 DEF OrderInv
<1>2. ASSUME NEW a \in Auction, NodeWrite(a) PROVE OrderInv'
  <2>1. PICK m \in Successors(node[a], clock + 1) :
          /\ node' = [node EXCEPT ![a] = m]
          /\ IF a \in followed THEN Land(m) ELSE UNCHANGED <<log, tail>>
    BY <1>2 DEF NodeWrite
  <2>2. clock' = clock + 1
    BY <1>2 DEF NodeWrite
  <2>3. /\ m \in Record /\ m.auction = a
        /\ \A i \in 1 .. Len(log) : Precedes(log[i], m)
        /\ tail # Clean => Precedes(tail, m)
    BY WrittenLater
  <2>4. CASE a \in followed
    BY <1>1, <2>1, <2>2, <2>3, <2>4, LandKeepsOrder
  <2>5. CASE a \notin followed
    <3>1. UNCHANGED <<log, tail>>
      BY <2>1, <2>5
    <3>2. /\ \A b \in Auction : node'[b].stamp <= clock'
          /\ \A i \in 1 .. Len(log), b \in Auction : Precedes(log[i], node'[b])
          /\ tail # Clean => \A b \in Auction : Precedes(tail, node'[b])
      BY <1>1, <2>1, <2>2
    <3>3. QED
      BY <3>1, <3>2 DEF OrderInv
  <2>6. QED
    BY <2>4, <2>5
<1>3. ASSUME NEW a \in Auction, KilledMidWrite(a) PROVE OrderInv'
  <2>1. PICK r \in Record :
          /\ TornLand(r)
          /\ \/ /\ clock' = clock + 1 /\ r \in Successors(node[a], clock + 1)
                /\ node' = [node EXCEPT ![a] = r]
             \/ r = node[a] /\ UNCHANGED <<node, clock>>
    BY <1>2, <1>3, CutShort
  <2>2. /\ \A b \in Auction : node'[b].stamp <= clock'
        /\ \A i \in 1 .. Len(log), b \in Auction : Precedes(log[i], node'[b])
        /\ tail # Clean => \A b \in Auction : Precedes(tail, node'[b])
        /\ \A b \in Auction : Precedes(r, node'[b])
        /\ \A i \in 1 .. Len(log) : Precedes(log[i], r)
        /\ tail # Clean => Precedes(tail, r)
    <3>1. CASE /\ clock' = clock + 1 /\ r \in Successors(node[a], clock + 1)
               /\ node' = [node EXCEPT ![a] = r]
      BY <1>1, <3>1, WrittenLater
    <3>2. CASE r = node[a] /\ UNCHANGED <<node, clock>>
      <4>1. \A b \in Auction : Precedes(node[a], node[b])
        BY <1>0 DEF Precedes
      <4>2. QED
        BY <3>2, <4>1 DEF OrderInv
    <3>3. QED
      BY <2>1, <3>1, <3>2
  <2>3. TornLand(r)
    BY <2>1
  <2>4. QED
    BY <1>0, <2>2, <2>3, TornKeepsOrder
<1>4. ASSUME NEW a \in Auction, Subscribe(a) PROVE OrderInv'
  <2>1. UNCHANGED <<node, clock>>
    BY <1>4 DEF Subscribe, siteVars
  <2>2. CASE Land(node[a])
    <3>1. \A b \in Auction : Precedes(node[a], node[b])
      BY <1>0 DEF Precedes
    <3>2. QED
      BY <1>0, <2>1, <2>2, <3>1, LandKeepsOrder DEF OrderInv
  <2>3. CASE UNCHANGED <<log, tail>>
    BY <2>1, <2>3 DEF OrderInv
  <2>4. QED
    BY <1>4, <2>2, <2>3 DEF Subscribe
<1>5. CASE (\E a \in Auction : StreamDrops(a) \/ Scan(a)) \/ CollectorKilled \/ LoaderStep
             \/ CommitFails \/ LoaderKilled \/ StateDiscarded \/ UNCHANGED vars
  <2>1. UNCHANGED <<node, clock, log, tail>>
    BY <1>5 DEF StreamDrops, Scan, CollectorKilled, LoaderStep, LoaderStart, ReadWindow, ReadSeed,
                CommitWindow, CommitFails, WriteState, WriteOffset, LoaderKilled,
                StateDiscarded, vars, siteVars, zoneVars
  <2>2. QED
    BY <2>1 DEF OrderInv
<1>6. QED
  BY <1>2, <1>3, <1>4, <1>5 DEF Next, CollectorNext

LEMMA OrderAlways == Spec => []OrderInv
<1>1. SafetyInv => PositionTypeOK
  BY DEF SafetyInv
<1>2. QED
  BY <1>1, RegistryInit, RegistryStep, OrderInit, OrderStep, SafetyAlways, PTL DEF Spec

-----------------------------------------------------------------------------
(* Type correctness of what the fold, the files and Postgres hold.         *)

LEMMA DrainType ==
  ASSUME NEW old \in Book, NEW closed \in Seq(Close), NEW known
  PROVE  Drain(old, closed, known) \in Book
<1>1. ASSUME NEW k \in Pair, Hits(closed, k) # {}
      PROVE  closed[CHOOSE i \in Hits(closed, k) : \A j \in Hits(closed, k) : j <= i].sale \in Sale
  <2>1. \A i \in Hits(closed, k) : i \in 1 .. Len(closed)
    BY DEF Hits
  <2>2. \E i \in Hits(closed, k) : \A j \in Hits(closed, k) : j <= i
    BY <1>1, <2>1, Greatest
  <2>3. PICK i \in 1 .. Len(closed) :
          i = CHOOSE x \in Hits(closed, k) : \A j \in Hits(closed, k) : j <= x
    BY <2>1, <2>2
  <2>4. closed[i] \in Close
    OBVIOUS
  <2>5. QED
    BY <2>3, <2>4 DEF Close
<1>2. DOMAIN old = Pair
  BY DEF Book
<1>3. \A k \in Pair : Drain(old, closed, known)[k] \in Sale \cup {NoSale}
  BY <1>1, <1>2 DEF Drain, Book
<1>4. QED
  BY <1>2, <1>3 DEF Drain, Book

\* What a pass computes is a reducer state and a list of closes.
LEMMA PassType ==
  ASSUME SafetyInv, ContentTypeOK
  PROVE  Pass \in Folding
<1> DEFINE w == SubSeq(log, offsetFile + 1, winEnd)
<1>1. fold \in [Auction -> Slot] /\ log \in Seq(Line) /\ offsetFile \in Nat /\ winEnd \in Nat
      /\ winEnd <= Len(log)
  BY DEF SafetyInv, PositionTypeOK, ContentTypeOK, WindowInv
<1>2. w \in Seq(Line) /\ Len(w) \in 0 .. Len(w)
  BY <1>1
<1> HIDE DEF w
<1>3. After(fold, w)[Len(w)] \in Folding
  BY <1>1, <1>2, AfterType
<1>4. QED
  BY <1>3 DEF Pass, Advance, w

\* A state file that has just been written is there to be read.
ContentInv == ContentTypeOK /\ (lpc = "stated" => stateFile \in [Auction -> Slot])

LEMMA ContentInit == Init => ContentInv
BY DEF Init, ContentInv, ContentTypeOK, EmptyFold, EmptySlot, Slot, EmptyArchive

LEMMA ContentStep == SafetyInv /\ ContentInv /\ [Next]_vars => ContentInv'
<1> SUFFICES ASSUME SafetyInv, ContentInv, [Next]_vars PROVE ContentInv'
  OBVIOUS
<1>1. CASE CollectorNext \/ CollectorKilled
  <2>1. UNCHANGED <<fileVars, dbVars, loaderVars>>
    BY <1>1, CollectorStep DEF SafetyInv
  <2>2. QED
    BY <2>1 DEF fileVars, dbVars, loaderVars, ContentInv, ContentTypeOK
<1>2. CASE LoaderStart
  <2>1. EmptyFold \in [Auction -> Slot]
    BY DEF EmptyFold, EmptySlot, Slot
  <2>2. ZoneSize \in Nat
    BY DEF SafetyInv, PositionTypeOK, ZoneSize
  <2>3. QED
    BY <1>2, <2>1, <2>2 DEF LoaderStart, dbVars, ContentInv, ContentTypeOK
<1>3. CASE ReadWindow \/ ReadSeed \/ CommitFails \/ LoaderKilled
  BY <1>3 DEF ReadWindow, ReadSeed, CommitFails, LoaderKilled, fileVars, dbVars, ContentInv,
              ContentTypeOK
<1>4. CASE CommitWindow
  <2>1. Pass.closed \in Seq(Close)
    BY PassType DEF Folding, ContentInv
  <2>2. archive' \in [Auction \X Player -> Sale \cup {NoSale}]
    BY <1>4, <2>1, DrainType DEF CommitWindow, ContentInv, ContentTypeOK, Book, Pair
  <2>3. events' \subseteq Auction \X Nat
    <3>1. ASSUME NEW i \in offsetFile + 1 .. winEnd, log[i] # Garbage
          PROVE  <<log[i].auction, log[i].stamp>> \in Auction \X Nat
      <4>1. i \in 1 .. Len(log)
        BY DEF SafetyInv, PositionTypeOK, WindowInv
      <4>2. log[i] \in Line
        BY <4>1 DEF SafetyInv, PositionTypeOK
      <4>3. QED
        BY <3>1, <4>2 DEF Line, Record
    <3>2. QED
      BY <1>4, <3>1 DEF CommitWindow, ContentInv, ContentTypeOK
  <2>4. QED
    BY <1>4, <2>2, <2>3 DEF CommitWindow, fileVars, ContentInv, ContentTypeOK
<1>5. CASE WriteState
  <2>1. Pass.fold \in [Auction -> Slot]
    BY PassType DEF Folding, ContentInv
  <2>2. QED
    BY <1>5, <2>1 DEF WriteState, dbVars, ContentInv, ContentTypeOK
<1>6. CASE WriteOffset
  BY <1>6 DEF WriteOffset, dbVars, ContentInv, ContentTypeOK
<1>7. CASE StateDiscarded
  BY <1>7 DEF StateDiscarded, dbVars, loaderVars, ContentInv, ContentTypeOK
<1>8. CASE UNCHANGED vars
  BY <1>8 DEF vars, fileVars, dbVars, loaderVars, ContentInv, ContentTypeOK
<1>9. QED
  BY <1>1, <1>2, <1>3, <1>4, <1>5, <1>6, <1>7, <1>8 DEF Next, LoaderStep

LEMMA ContentAlways == Spec => []ContentInv
BY ContentInit, ContentStep, SafetyAlways, PTL DEF Spec

\* Every variable always holds a value of its kind, whatever the windows, the
\* faults and the points the loader is killed at.
THEOREM TypeCorrect == Spec => []TypeOK
<1>1. SafetyInv /\ ContentInv => TypeOK
  BY DEF SafetyInv, ContentInv, TypeOK
<1>2. QED
  BY <1>1, SafetyAlways, ContentAlways, PTL

-----------------------------------------------------------------------------
(* The reducer state agrees with one reading.                              *)

\* The state in memory is what one reading of the first foldPos lines leaves on
\* the block, the state on disk of the first statePos; a window runs forward.
FoldInv ==
  /\ lpc \in LoaderPoint => Agrees(fold, log, foldPos) /\ foldPos <= Len(log)
  /\ stateFile # NoState => Agrees(stateFile, log, statePos)
  /\ lpc \in {"read", "seeded", "committed", "stated"} => offsetFile <= winEnd

\* What a pass folds and what Postgres is told of it.
LEMMA PassAgrees ==
  ASSUME SafetyInv, ContentInv, OrderInv, PositionsAgree, FoldInv,
         lpc \in LoaderPoint \ {"idle"}, NEW old \in Book, NEW known
  PROVE  /\ Pass \in Folding
         /\ Agrees(Pass.fold, log, winEnd)
         /\ \A k \in Pair : (\A i \in offsetFile + 1 .. winEnd : Heard(known, log[i], k))
                              => Tracks(old, known, Pass.closed, log, offsetFile, winEnd, k)
<1>1. /\ log \in Seq(Line) /\ offsetFile \in Nat /\ winEnd \in Nat
      /\ winEnd <= Len(log) /\ offsetFile <= winEnd
  BY DEF SafetyInv, PositionTypeOK, WindowInv, FoldInv, LoaderPoint
<1>2. fold \in [Auction -> Slot] /\ Orderly(log) /\ Agrees(fold, log, offsetFile)
  BY DEF ContentInv, ContentTypeOK, OrderInv, FoldInv, PositionsAgree
<1>3. QED
  BY <1>1, <1>2, WindowAgrees DEF Pass

LEMMA FoldInit == Init => FoldInv
BY DEF Init, FoldInv, LoaderPoint

LEMMA FoldStep ==
  SafetyInv /\ ContentInv /\ OrderInv /\ AgreeInv /\ FoldInv /\ [Next]_vars => FoldInv'
<1> SUFFICES ASSUME SafetyInv, ContentInv, OrderInv, AgreeInv, FoldInv, [Next]_vars
             PROVE  FoldInv'
  OBVIOUS
<1>0. /\ log \in Seq(Line) /\ offsetFile \in Nat /\ winEnd \in Nat /\ statePos \in Nat
      /\ foldPos \in Nat /\ carried \in Nat
      /\ winEnd <= Len(log) /\ carried <= Len(log) /\ offsetFile <= carried /\ statePos <= carried
  BY DEF SafetyInv, PositionTypeOK, WindowInv, NothingSkipped
<1>1. CASE CollectorNext \/ CollectorKilled
  <2>1. /\ log' \in Seq(Line) /\ Len(log) <= Len(log')
        /\ \A i \in 1 .. Len(log) : log'[i] = log[i]
        /\ UNCHANGED <<fileVars, dbVars, loaderVars>>
    BY <1>1, CollectorStep DEF SafetyInv
  <2>2. ASSUME NEW f, NEW n \in 0 .. Len(log), Agrees(f, log, n) PROVE Agrees(f, log', n)
    BY <1>0, <2>1, <2>2, AgreesPrefix
  <2>3. lpc \in LoaderPoint => Agrees(fold, log', foldPos) /\ foldPos <= Len(log')
    BY <1>0, <2>1, <2>2 DEF FoldInv
  <2>4. stateFile # NoState => Agrees(stateFile, log', statePos)
    BY <1>0, <2>2 DEF FoldInv
  <2>5. QED
    BY <2>1, <2>3, <2>4 DEF FoldInv, fileVars, loaderVars
<1>2. CASE LoaderStart
  <2>1. UNCHANGED <<log, stateFile>> /\ lpc' = "idle"
    BY <1>2 DEF LoaderStart, zoneVars
  <2>2. CASE stateFile = NoState
    <3>1. fold' = EmptyFold /\ foldPos' = 0
      BY <1>2, <2>2 DEF LoaderStart
    <3>2. Agrees(EmptyFold, log, 0)
      BY <1>0, NothingAgrees
    <3>3. QED
      BY <1>0, <2>1, <2>2, <3>1, <3>2 DEF FoldInv
  <2>3. CASE stateFile # NoState
    <3>1. fold' = stateFile /\ foldPos' = statePos /\ statePos' = statePos
      BY <1>2, <2>3 DEF LoaderStart
    <3>2. QED
      BY <1>0, <2>1, <2>3, <3>1 DEF FoldInv
  <2>4. QED
    BY <2>2, <2>3
<1>3. CASE ReadWindow
  <2>1. WindowEnd \in Nat /\ offsetFile <= WindowEnd
    BY <1>0, WindowAssumption DEF WindowEnd, Smaller
  <2>2. QED
    BY <1>3, <2>1 DEF ReadWindow, FoldInv, LoaderPoint, zoneVars, fileVars
<1>4. CASE ReadSeed \/ CommitWindow \/ CommitFails
  BY <1>4 DEF ReadSeed, CommitWindow, CommitFails, FoldInv, LoaderPoint, zoneVars, fileVars
<1>5. CASE WriteState
  <2>1. Agrees(Pass.fold, log, winEnd)
    <3>1. archive \in Book
      BY DEF ContentInv, ContentTypeOK, Book, Pair
    <3>2. lpc \in LoaderPoint \ {"idle"}
      BY <1>5 DEF WriteState, LoaderPoint
    <3>3. QED
      BY <3>1, <3>2, PassAgrees DEF AgreeInv
  <2>2. QED
    BY <1>5, <2>1 DEF WriteState, FoldInv, LoaderPoint, zoneVars
<1>6. CASE WriteOffset
  <2>1. stateFile # NoState
    BY <1>6, NoStateAssumption DEF WriteOffset, ContentInv
  <2>2. QED
    BY <1>0, <1>6, <2>1 DEF WriteOffset, FoldInv, LoaderPoint, zoneVars
<1>7. CASE LoaderKilled \/ StateDiscarded
  BY <1>7 DEF LoaderKilled, StateDiscarded, FoldInv, LoaderPoint, zoneVars, fileVars, loaderVars
<1>8. CASE UNCHANGED vars
  BY <1>8 DEF vars, FoldInv, zoneVars, fileVars, loaderVars
<1>9. QED
  BY <1>1, <1>2, <1>3, <1>4, <1>5, <1>6, <1>7, <1>8 DEF Next, LoaderStep

-----------------------------------------------------------------------------
(* What Postgres holds is what one reading tells.                          *)

\* What one reading of n lines sold.
Sold(n) == Evening(log)[n].sold

\* Where the lines end that Postgres holds every sale of.
Settled == IF lpc \in {"committed", "stated"} THEN winEnd ELSE offsetFile

\* Every archived sale is one that a reading of the carried lines told, at some
\* line: whatever the seed, the windows and the refolds were.
ToldInv == \A k \in Pair : \E x \in 0 .. carried : archive[k] = Sold(x)[k]

\* What is archived of a pair is what one reading told of it somewhere between
\* the settled lines and the carried ones.
CaughtInv == \A k \in Pair : \E x \in Settled .. carried : archive[k] = Sold(x)[k]

LEMMA SoldStays ==
  ASSUME SafetyInv, CollectorNext \/ CollectorKilled
  PROVE  \A n \in 0 .. Len(log) : Evening(log')[n].sold = Sold(n)
<1>1. /\ log \in Seq(Line) /\ log' \in Seq(Line) /\ Len(log) <= Len(log')
      /\ \A i \in 1 .. Len(log) : log'[i] = log[i]
  BY CollectorStep DEF SafetyInv, PositionTypeOK
<1>2. QED
  BY <1>1, EveningPrefix DEF Sold

\* What a commit leaves on a pair whose auctions the seed names, and on the rest.
LEMMA CommitTracks ==
  ASSUME SafetyInv, ContentInv, OrderInv, AgreeInv, FoldInv, CommitWindow
  PROVE  /\ archive' \in Book
         /\ \A k \in Pair : k[1] \notin seedRows => archive'[k] = archive[k]
         /\ \A k \in Pair : (\A i \in offsetFile + 1 .. winEnd : Heard(seedRows, log[i], k)) =>
              \/ archive'[k] = Sold(winEnd)[k]
              \/ /\ archive'[k] = archive[k]
                 /\ \A x \in offsetFile .. winEnd : Sold(x)[k] = Sold(winEnd)[k]
<1>1. archive' = Drain(archive, Pass.closed, seedRows) /\ lpc = "seeded"
  BY DEF CommitWindow
<1>2. archive \in Book
  BY DEF ContentInv, ContentTypeOK, Book, Pair
<1>3. /\ Pass \in Folding
      /\ \A k \in Pair : (\A i \in offsetFile + 1 .. winEnd : Heard(seedRows, log[i], k))
           => Tracks(archive, seedRows, Pass.closed, log, offsetFile, winEnd, k)
  BY <1>1, <1>2, PassAgrees DEF AgreeInv, LoaderPoint
<1>4. archive' \in Book
  BY <1>1, <1>2, <1>3, DrainType DEF Folding
<1>5. \A k \in Pair : k[1] \notin seedRows => archive'[k] = archive[k]
  BY <1>1, <1>2 DEF Drain, Book
<1>6. QED
  BY <1>1, <1>3, <1>4, <1>5 DEF Tracks, Sold

LEMMA CommitPositions ==
  ASSUME SafetyInv, FoldInv, CommitWindow
  PROVE  /\ offsetFile \in Nat /\ winEnd \in Nat /\ carried \in Nat /\ carried' \in Nat
         /\ offsetFile <= winEnd /\ offsetFile <= carried
         /\ winEnd <= carried' /\ carried <= carried' /\ carried' \in {winEnd, carried}
         /\ UNCHANGED <<log, winEnd, offsetFile, seedRows>> /\ lpc' = "committed" /\ lpc = "seeded"
BY DEF SafetyInv, PositionTypeOK, NothingSkipped, FoldInv, CommitWindow, zoneVars, fileVars

LEMMA ToldInit == Init => ToldInv /\ CaughtInv
<1> SUFFICES ASSUME Init PROVE ToldInv /\ CaughtInv
  OBVIOUS
<1>1. log = <<>> /\ archive = EmptyArchive /\ carried = 0 /\ Settled = 0
  BY DEF Init, Settled
<1>2. Sold(0) = EmptyArchive
  <2>1. log \in Seq(Line)
    BY <1>1
  <2>2. Evening(log)[0] = Blank
    BY <2>1, EveningEquations
  <2>3. QED
    BY <2>2 DEF Sold, Blank
<1>3. 0 \in 0 .. 0
  OBVIOUS
<1>4. QED
  BY <1>1, <1>2, <1>3 DEF ToldInv, CaughtInv

LEMMA ToldStep ==
  SafetyInv /\ ContentInv /\ OrderInv /\ AgreeInv /\ FoldInv /\ ToldInv /\ [Next]_vars => ToldInv'
<1> SUFFICES ASSUME SafetyInv, ContentInv, OrderInv, AgreeInv, FoldInv, ToldInv, [Next]_vars
             PROVE  ToldInv'
  OBVIOUS
<1>0. carried \in Nat /\ carried <= Len(log)
  BY DEF SafetyInv, PositionTypeOK, NothingSkipped
<1>1. CASE CollectorNext \/ CollectorKilled
  <2>1. UNCHANGED <<archive, carried>>
    BY <1>1, CollectorStep DEF SafetyInv, dbVars
  <2>2. \A x \in 0 .. carried : Evening(log')[x].sold = Sold(x)
    BY <1>0, <1>1, SoldStays
  <2>3. QED
    BY <2>1, <2>2 DEF ToldInv, Sold
<1>2. CASE CommitWindow
  <2> SUFFICES ASSUME NEW k \in Pair PROVE \E x \in 0 .. carried' : archive'[k] = Sold(x)[k]
    BY <1>2, CommitPositions DEF ToldInv, Sold
  <2>1. PICK y \in 0 .. carried : archive[k] = Sold(y)[k]
    BY DEF ToldInv
  <2>2. y \in 0 .. carried' /\ winEnd \in 0 .. carried'
    BY <1>2, CommitPositions
  <2>3. CASE k[1] \notin seedRows
    BY <1>2, <2>1, <2>2, <2>3, CommitTracks
  <2>4. CASE k[1] \in seedRows
    <3>1. archive'[k] = Sold(winEnd)[k] \/ archive'[k] = archive[k]
      BY <1>2, <2>4, CommitTracks DEF Heard
    <3>2. QED
      BY <2>1, <2>2, <3>1
  <2>5. QED
    BY <2>3, <2>4
<1>3. CASE LoaderStart \/ ReadWindow \/ ReadSeed \/ CommitFails \/ WriteState \/ WriteOffset
             \/ LoaderKilled \/ StateDiscarded \/ UNCHANGED vars
  <2>1. UNCHANGED <<log, archive, carried>>
    BY <1>3 DEF LoaderStart, ReadWindow, ReadSeed, CommitFails, WriteState, WriteOffset,
                LoaderKilled, StateDiscarded, vars, zoneVars, dbVars
  <2>2. QED
    BY <2>1 DEF ToldInv, Sold
<1>4. QED
  BY <1>1, <1>2, <1>3 DEF Next, LoaderStep

LEMMA CaughtStep ==
  SafetyInv /\ ContentInv /\ OrderInv /\ AgreeInv /\ FoldInv /\ SeedInv /\ CaughtInv
    /\ [Next]_vars => CaughtInv'
<1> SUFFICES ASSUME SafetyInv, ContentInv, OrderInv, AgreeInv, FoldInv, SeedInv, CaughtInv,
                    [Next]_vars
             PROVE  CaughtInv'
  OBVIOUS
<1>0. /\ carried \in Nat /\ carried <= Len(log) /\ offsetFile \in Nat /\ winEnd \in Nat
      /\ Settled \in Nat
  BY DEF SafetyInv, PositionTypeOK, NothingSkipped, Settled
<1>1. CASE CollectorNext \/ CollectorKilled
  <2>1. UNCHANGED <<archive, carried, Settled>>
    BY <1>1, CollectorStep DEF SafetyInv, dbVars, fileVars, loaderVars, Settled
  <2>2. \A x \in Settled .. carried : Evening(log')[x].sold = Sold(x)
    BY <1>0, <1>1, SoldStays
  <2>3. QED
    BY <2>1, <2>2 DEF CaughtInv, Sold
<1>2. CASE CommitWindow
  <2>1. Settled = offsetFile /\ Settled' = winEnd
    BY <1>2, CommitPositions DEF Settled
  <2> SUFFICES ASSUME NEW k \in Pair PROVE \E x \in winEnd .. carried' : archive'[k] = Sold(x)[k]
    BY <1>2, <2>1, CommitPositions DEF CaughtInv, Sold
  <2>2. PICK y \in offsetFile .. carried : archive[k] = Sold(y)[k]
    BY <2>1 DEF CaughtInv
  <2>3. winEnd \in winEnd .. carried'
    BY <1>2, CommitPositions
  <2>4. \A i \in offsetFile + 1 .. winEnd : Heard(seedRows, log[i], k)
    BY <1>0, <1>2, CommitPositions DEF SeedInv, Names, Heard
  <2>5. CASE archive'[k] = Sold(winEnd)[k]
    BY <2>3, <2>5
  <2>6. CASE /\ archive'[k] = archive[k]
             /\ \A x \in offsetFile .. winEnd : Sold(x)[k] = Sold(winEnd)[k]
    <3>1. CASE y >= winEnd
      <4>1. y \in winEnd .. carried'
        BY <1>2, <3>1, CommitPositions
      <4>2. QED
        BY <2>2, <2>6, <4>1
    <3>2. CASE ~(y >= winEnd)
      <4>1. y \in offsetFile .. winEnd
        BY <1>0, <3>2
      <4>2. archive'[k] = Sold(winEnd)[k]
        BY <2>2, <2>6, <4>1
      <4>3. QED
        BY <2>3, <4>2
    <3>3. QED
      BY <3>1, <3>2
  <2>7. QED
    BY <1>2, <2>4, <2>5, <2>6, CommitTracks
<1>3. CASE LoaderStart \/ ReadWindow \/ ReadSeed \/ CommitFails \/ WriteState \/ WriteOffset
             \/ LoaderKilled \/ StateDiscarded \/ UNCHANGED vars
  <2>1. UNCHANGED <<log, archive, carried>>
    BY <1>3 DEF LoaderStart, ReadWindow, ReadSeed, CommitFails, WriteState, WriteOffset,
                LoaderKilled, StateDiscarded, vars, zoneVars, dbVars
  <2>2. Settled' \in Nat /\ Settled' <= Settled
    <3>1. CASE LoaderStart
      BY <1>0, <3>1 DEF LoaderStart, Settled
    <3>2. CASE ReadWindow \/ ReadSeed \/ CommitFails \/ WriteState \/ WriteOffset
      BY <1>0, <3>2 DEF ReadWindow, ReadSeed, CommitFails, WriteState, WriteOffset, fileVars, Settled
    <3>3. CASE LoaderKilled
      <4>1. offsetFile <= winEnd \/ lpc \notin {"committed", "stated"}
        BY DEF FoldInv
      <4>2. QED
        BY <1>0, <3>3, <4>1 DEF LoaderKilled, fileVars, Settled
    <3>4. CASE StateDiscarded \/ UNCHANGED vars
      BY <1>0, <3>4 DEF StateDiscarded, vars, fileVars, loaderVars, Settled
    <3>5. QED
      BY <1>3, <3>1, <3>2, <3>3, <3>4
  <2>3. \A x \in Settled .. carried : x \in Settled' .. carried'
    BY <1>0, <2>1, <2>2
  <2>4. QED
    BY <2>1, <2>3 DEF CaughtInv, Sold
<1>4. QED
  BY <1>1, <1>2, <1>3 DEF Next, LoaderStep

\* A loader that has caught up has archived exactly what one reading tells.
THEOREM CaughtUp ==
  ASSUME "stated" \notin CrashPoints, MaxSeedFailures = 0
  PROVE  Spec => []CaughtUpIsExact
<1>1. SafetyInv /\ ContentInv /\ CaughtInv => CaughtUpIsExact
  <2> SUFFICES ASSUME SafetyInv, ContentInv, CaughtInv, lpc = "idle", offsetFile = Len(log)
               PROVE  archive = Reconstruct(log)
    BY DEF CaughtUpIsExact
  <2>1. Settled = Len(log) /\ carried = Len(log) /\ log \in Seq(Line) /\ Len(log) \in Nat
    BY DEF Settled, SafetyInv, NothingSkipped, PositionTypeOK
  <2>2. \A k \in Pair : archive[k] = Sold(Len(log))[k]
    BY <2>1 DEF CaughtInv
  <2>3. archive \in Book
    BY DEF ContentInv, ContentTypeOK, Book, Pair
  <2>4. Sold(Len(log)) \in Book
    <3>1. Len(log) \in 0 .. Len(log)
      BY <2>1
    <3>2. QED
      BY <2>1, <3>1, EveningType DEF Sold, Telling, Book, Pair
  <2>5. Reconstruct(log) = Sold(Len(log))
    BY DEF Reconstruct, Sold
  <2>6. QED
    BY <2>2, <2>3, <2>4, <2>5 DEF Book
<1>2. QED
  BY <1>1, ToldInit, CaughtStep, FoldInit, FoldStep, OrderAlways, ContentAlways, SafetyAlways,
     AgreeAlways, SeedAlways, PTL DEF Spec

-----------------------------------------------------------------------------
(* The archive is a growing prefix.                                        *)

\* The archive holds what one reading of the carried lines tells; the stored
\* offset is at most a window behind them, and a window that is being carried
\* reaches at least as far.
ExactInv ==
  /\ archive = Sold(carried)
  /\ carried <= offsetFile + Window
  /\ lpc \in {"read", "seeded"} => carried <= winEnd
  /\ lpc \in {"read", "seeded", "committed"} => winEnd <= offsetFile + Window
  /\ lpc \in {"committed", "stated"} => carried = winEnd
  /\ stateFile = NoState => offsetFile = 0

LEMMA SoldType ==
  ASSUME log \in Seq(Line), NEW n \in 0 .. Len(log)
  PROVE  Sold(n) \in Book
BY EveningType DEF Sold, Telling, Book, Pair

LEMMA CommitIsExact ==
  ASSUME SafetyInv, ContentInv, OrderInv, AgreeInv, FoldInv, SeedInv, ExactInv, CommitWindow
  PROVE  archive' = Sold(winEnd) /\ carried' = winEnd
<1>1. /\ carried \in Nat /\ carried <= Len(log) /\ log \in Seq(Line) /\ winEnd <= Len(log)
      /\ lpc = "seeded" /\ winEnd \in Nat /\ offsetFile \in Nat
      /\ offsetFile <= carried /\ carried <= winEnd
  BY DEF SafetyInv, PositionTypeOK, NothingSkipped, WindowInv, CommitWindow, ExactInv
<1>2. carried' = winEnd
  BY <1>1 DEF CommitWindow
<1>3. ASSUME NEW k \in Pair PROVE archive'[k] = Sold(winEnd)[k]
  <2>1. \A i \in offsetFile + 1 .. winEnd : Heard(seedRows, log[i], k)
    BY <1>1 DEF SeedInv, Names, Heard
  <2>2. carried \in offsetFile .. winEnd
    BY <1>1
  <2>3. QED
    BY <2>1, <2>2, CommitTracks DEF ExactInv
<1>4. archive' \in Book
  BY CommitTracks
<1>5. winEnd \in 0 .. Len(log)
  BY <1>1
<1>6. Sold(winEnd) \in Book
  BY <1>1, <1>5, SoldType
<1>7. QED
  BY <1>2, <1>3, <1>4, <1>6 DEF Book

LEMMA ExactInit == Init => ExactInv
<1> SUFFICES ASSUME Init PROVE ExactInv
  OBVIOUS
<1>1. log = <<>> /\ log \in Seq(Line)
  BY DEF Init
<1>2. Sold(0) = EmptyArchive
  <2>1. Evening(log)[0] = Blank
    BY <1>1, EveningEquations
  <2>2. QED
    BY <2>1 DEF Sold, Blank
<1>3. QED
  BY <1>2, WindowAssumption DEF Init, ExactInv

LEMMA ExactStep ==
  ASSUME MaxUpgrades = 0
  PROVE  SafetyInv /\ ContentInv /\ OrderInv /\ AgreeInv /\ FoldInv /\ SeedInv /\ ExactInv
           /\ [Next]_vars => ExactInv'
<1> SUFFICES ASSUME SafetyInv, ContentInv, OrderInv, AgreeInv, FoldInv, SeedInv, ExactInv,
                    [Next]_vars
             PROVE  ExactInv'
  OBVIOUS
<1>0. /\ carried \in Nat /\ carried <= Len(log) /\ offsetFile \in Nat /\ winEnd \in Nat
      /\ offsetFile <= carried /\ winEnd <= Len(log) /\ log \in Seq(Line)
  BY DEF SafetyInv, PositionTypeOK, NothingSkipped, WindowInv
<1>1. CASE CollectorNext \/ CollectorKilled
  <2>1. UNCHANGED <<dbVars, fileVars, loaderVars>>
    BY <1>1, CollectorStep DEF SafetyInv
  <2>2. Evening(log')[carried].sold = Sold(carried)
    BY <1>0, <1>1, SoldStays
  <2>3. QED
    BY <2>1, <2>2 DEF ExactInv, Sold, dbVars, fileVars, loaderVars
<1>2. CASE CommitWindow
  <2>1. archive' = Sold(winEnd) /\ carried' = winEnd
    BY <1>2, CommitIsExact
  <2>2. UNCHANGED <<log, winEnd, offsetFile, stateFile>> /\ lpc' = "committed" /\ lpc = "seeded"
    BY <1>2 DEF CommitWindow, zoneVars, fileVars
  <2>3. QED
    BY <2>1, <2>2 DEF ExactInv, Sold
<1>3. CASE LoaderStart
  <2>1. offsetFile' = offsetFile /\ UNCHANGED <<log, dbVars, stateFile>> /\ lpc' = "idle"
    BY <1>3 DEF LoaderStart, ExactInv, zoneVars
  <2>2. QED
    BY <2>1 DEF ExactInv, Sold, dbVars
<1>4. CASE ReadWindow
  <2>1. WindowEnd \in Nat /\ carried <= WindowEnd /\ WindowEnd <= offsetFile + Window
    BY <1>0, WindowAssumption DEF WindowEnd, Smaller, ExactInv
  <2>2. QED
    BY <1>4, <2>1 DEF ReadWindow, ExactInv, Sold, zoneVars, dbVars, fileVars
<1>5. CASE ReadSeed \/ CommitFails
  BY <1>5 DEF ReadSeed, CommitFails, ExactInv, Sold, zoneVars, dbVars, fileVars
<1>6. CASE WriteState
  <2>1. stateFile' # NoState
    <3>1. Pass.fold \in [Auction -> Slot]
      BY PassType DEF Folding, ContentInv
    <3>2. QED
      BY <1>6, <3>1, NoStateAssumption DEF WriteState
  <2>2. QED
    BY <1>6, <2>1 DEF WriteState, ExactInv, Sold, zoneVars, dbVars
<1>7. CASE WriteOffset
  <2>1. stateFile # NoState
    BY <1>7, NoStateAssumption DEF WriteOffset, ContentInv
  <2>2. QED
    BY <1>0, <1>7, <2>1, WindowAssumption DEF WriteOffset, ExactInv, Sold, zoneVars, dbVars
<1>8. CASE LoaderKilled
  BY <1>8 DEF LoaderKilled, ExactInv, Sold, zoneVars, dbVars, fileVars
<1>9. CASE StateDiscarded
  <2>1. ~ Fault("upgrade")
    BY DEF Fault, FaultBound, FaultKind, SafetyInv, PositionTypeOK
  <2>2. QED
    BY <1>9, <2>1 DEF StateDiscarded
<1>10. CASE UNCHANGED vars
  BY <1>10 DEF vars, ExactInv, Sold, zoneVars, dbVars, fileVars, loaderVars
<1>11. QED
  BY <1>1, <1>2, <1>3, <1>4, <1>5, <1>6, <1>7, <1>8, <1>9, <1>10 DEF Next, LoaderStep

\* The abstract archive reconstructs as the pipeline's reference does.
LEMMA SameReconstruction == \A lines : Archive!Reconstruct(lines) = Reconstruct(lines)
BY DEF Archive!Reconstruct, Archive!Evening, Archive!ReconstructLine, Archive!ReconstructRecord,
       Archive!EmptyArchive, Archive!StartsNewTurn, Archive!LadderAfter, Archive!AppendRung,
       Archive!ClosesSale, Archive!ClosedSale, Archive!Bidding,
       Reconstruct, Evening, ReconstructLine, ReconstructRecord,
       EmptyArchive, StartsNewTurn, LadderAfter, AppendRung, ClosesSale, ClosedSale, Bidding

LEMMA ExactRefines ==
  SafetyInv /\ ContentInv /\ OrderInv /\ AgreeInv /\ FoldInv /\ SeedInv /\ ExactInv
    /\ [Next]_vars => [Archive!Land \/ Archive!Carry]_<<log, carried, archive>>
<1> SUFFICES ASSUME SafetyInv, ContentInv, OrderInv, AgreeInv, FoldInv, SeedInv, ExactInv,
                    [Next]_vars
             PROVE  [Archive!Land \/ Archive!Carry]_<<log, carried, archive>>
  OBVIOUS
<1>0. /\ carried \in Nat /\ winEnd \in Nat /\ winEnd <= Len(log) /\ log \in Seq(Line)
  BY DEF SafetyInv, PositionTypeOK, WindowInv
<1>1. CASE CollectorNext \/ CollectorKilled
  <2>1. /\ log' \in Seq(Line) /\ Len(log) <= Len(log')
        /\ \A i \in 1 .. Len(log) : log'[i] = log[i]
        /\ UNCHANGED <<carried, archive>>
    BY <1>1, CollectorStep DEF SafetyInv, dbVars
  <2>2. CASE Len(log') > Len(log)
    <3>1. SubSeq(log', 1, Len(log)) = log
      BY <1>0, <2>1
    <3>2. log' \in Seq(Archive!Line)
      BY <2>1 DEF Archive!Line, Archive!Record, Archive!UpdateType, Line, Record, UpdateType
    <3>3. QED
      BY <2>1, <2>2, <3>1, <3>2 DEF Archive!Land
  <2>3. CASE Len(log') = Len(log)
    <3>1. log' = log
      BY <1>0, <2>1, <2>3
    <3>2. QED
      BY <2>1, <3>1
  <2>4. QED
    BY <1>0, <2>1, <2>2, <2>3
<1>2. CASE CommitWindow
  <2>1. archive' = Sold(winEnd) /\ carried' = winEnd
    BY <1>2, CommitIsExact
  <2>2. UNCHANGED log /\ carried <= winEnd
    BY <1>2 DEF CommitWindow, zoneVars, ExactInv
  <2>3. CASE winEnd = carried
    BY <2>1, <2>2, <2>3 DEF ExactInv
  <2>4. CASE winEnd # carried
    <3>1. winEnd \in carried + 1 .. Len(log) /\ winEnd \in 0 .. Len(log)
      BY <1>0, <2>2, <2>4
    <3>2. Sold(winEnd) = Archive!Reconstruct(SubSeq(log, 1, winEnd))
      BY <1>0, <3>1, SameReconstruction, ReconstructPrefix DEF Sold
    <3>3. QED
      BY <2>1, <2>2, <3>1, <3>2 DEF Archive!Carry
  <2>5. QED
    BY <2>3, <2>4
<1>3. CASE LoaderStart \/ ReadWindow \/ ReadSeed \/ CommitFails \/ WriteState \/ WriteOffset
             \/ LoaderKilled \/ StateDiscarded \/ UNCHANGED vars
  BY <1>3 DEF LoaderStart, ReadWindow, ReadSeed, CommitFails, WriteState, WriteOffset,
              LoaderKilled, StateDiscarded, vars, zoneVars, dbVars
<1>4. QED
  BY <1>1, <1>2, <1>3 DEF Next, LoaderStep

\* The pipeline implements the archive that is at every moment one reading of
\* a growing prefix.
THEOREM ArchiveRefined ==
  ASSUME "stated" \notin CrashPoints, MaxSeedFailures = 0, MaxUpgrades = 0
  PROVE  Spec => ArchiveIsReconstruction
<1>1. Init => Archive!Init
  BY DEF Init, Archive!Init, EmptyArchive, Archive!EmptyArchive
<1>2. QED
  BY <1>1, ExactInit, ExactStep, ExactRefines, FoldInit, FoldStep, OrderAlways, ContentAlways,
     SafetyAlways, AgreeAlways, SeedAlways, PTL DEF Spec, ArchiveIsReconstruction, Archive!Spec

-----------------------------------------------------------------------------
(* A one-shot load.                                                        *)

TornLines == {i \in 1 .. Len(log) : log[i] = Garbage}

\* Each torn line is the mark of one kill of the collector; the line of the
\* last kill may still be the tail.
ZoneInv ==
  /\ Cardinality(TornLines) + (IF tail = Garbage THEN 1 ELSE 0) <= faults["collector"]
  /\ faults["collector"] <= MaxCollectorFaults

LEMMA TornLinesFinite ==
  ASSUME log \in Seq(Line)
  PROVE  IsFiniteSet(TornLines) /\ Cardinality(TornLines) \in Nat
<1>1. IsFiniteSet(1 .. Len(log))
  BY FS_Interval
<1>2. IsFiniteSet(TornLines)
  BY <1>1, FS_Subset DEF TornLines
<1>3. QED
  BY <1>2, FS_CardinalityType

\* A write, whole or cut short, makes a torn line of a torn tail and of nothing else.
LEMMA LandTears ==
  ASSUME log \in Seq(Line), tail \in Line \cup {Clean}, NEW r \in Record,
         Land(r) \/ TornLand(r)
  PROVE  /\ Cardinality(TornLines') \in Nat
         /\ Cardinality(TornLines') <= Cardinality(TornLines) + (IF tail = Garbage THEN 1 ELSE 0)
<1>1. r # Garbage /\ r \in Line
  BY DistinctAssumption DEF Line
<1>2. log' \in Seq(Line)
  BY LandExtends, TornExtends
<1>3. ASSUME NEW i \in TornLines'
      PROVE  i \in TornLines \/ (i = Len(log) + 1 /\ tail = Garbage)
  <2>1. i \in 1 .. Len(log') /\ log'[i] = Garbage
    BY DEF TornLines
  <2>2. CASE TornLand(r)
    <3>1. /\ \A j \in 1 .. Len(log) : log'[j] = log[j]
          /\ \A j \in 1 .. Len(log') : j > Len(log) => log'[j] = tail /\ j = Len(log) + 1
      BY <2>2, TornExtends
    <3>2. QED
      BY <1>2, <2>1, <3>1 DEF TornLines
  <2>3. CASE Land(r) /\ tail = Clean
    <3>1. log' = Append(log, r)
      BY <2>3 DEF Land
    <3>2. /\ Len(log') = Len(log) + 1 /\ log'[Len(log) + 1] = r
          /\ \A j \in 1 .. Len(log) : log'[j] = log[j]
      BY <1>1, <3>1
    <3>3. QED
      BY <1>1, <2>1, <3>2 DEF TornLines
  <2>4. CASE Land(r) /\ tail # Clean
    <3>1. log' = log \o <<tail, r>> /\ tail \in Line
      BY <2>4 DEF Land
    <3>2. /\ Len(log') = Len(log) + 2 /\ log'[Len(log) + 1] = tail /\ log'[Len(log) + 2] = r
          /\ \A j \in 1 .. Len(log) : log'[j] = log[j]
      BY <1>1, <3>1
    <3>3. i \in 1 .. Len(log) \/ i = Len(log) + 1 \/ i = Len(log) + 2
      BY <2>1, <3>2
    <3>4. QED
      BY <1>1, <2>1, <3>2, <3>3 DEF TornLines
  <2>5. QED
    BY <2>2, <2>3, <2>4
<1>4. IsFiniteSet(TornLines) /\ Cardinality(TornLines) \in Nat
  BY TornLinesFinite
<1>5. CASE tail = Garbage
  <2>1. TornLines' \subseteq TornLines \cup {Len(log) + 1}
    BY <1>3
  <2>2. /\ IsFiniteSet(TornLines \cup {Len(log) + 1})
        /\ Cardinality(TornLines \cup {Len(log) + 1}) <= Cardinality(TornLines) + 1
    <3> DEFINE n == Len(log) + 1
    <3> HIDE DEF n
    <3>1. /\ IsFiniteSet(TornLines \cup {n})
          /\ Cardinality(TornLines \cup {n}) = IF n \in TornLines THEN Cardinality(TornLines)
                                               ELSE Cardinality(TornLines) + 1
      BY <1>4, FS_AddElement
    <3>2. Cardinality(TornLines \cup {n}) <= Cardinality(TornLines) + 1
      BY <1>4, <3>1
    <3>3. QED
      BY <3>1, <3>2 DEF n
  <2>3. Cardinality(TornLines') <= Cardinality(TornLines \cup {Len(log) + 1})
    BY <2>1, <2>2, FS_Subset
  <2>4. /\ Cardinality(TornLines') \in Nat
        /\ Cardinality(TornLines \cup {Len(log) + 1}) \in Nat
    BY <2>1, <2>2, FS_Subset, FS_CardinalityType
  <2>5. QED
    BY <1>4, <1>5, <2>2, <2>3, <2>4
<1>6. CASE tail # Garbage
  <2>1. TornLines' \subseteq TornLines
    BY <1>3, <1>6
  <2>2. Cardinality(TornLines') <= Cardinality(TornLines) /\ Cardinality(TornLines') \in Nat
    BY <1>4, <2>1, FS_Subset, FS_CardinalityType
  <2>3. QED
    BY <1>4, <1>6, <2>2
<1>7. QED
  BY <1>5, <1>6

LEMMA ZoneInit == Init => ZoneInv
<1> SUFFICES ASSUME Init PROVE ZoneInv
  OBVIOUS
<1>1. log = <<>> /\ tail = Clean /\ lpc = "down" /\ faults["collector"] = 0
  BY DEF Init, FaultKind
<1>2. TornLines = {}
  BY <1>1 DEF TornLines
<1>3. Cardinality(TornLines) = 0
  BY <1>2, FS_EmptySet
<1>4. tail # Garbage
  BY <1>1, CleanAssumption DEF Line
<1>5. QED
  BY <1>1, <1>3, <1>4, BoundsAssumption DEF ZoneInv

LEMMA ZoneStep == SafetyInv /\ ContentInv /\ ZoneInv /\ [Next]_vars => ZoneInv'
<1> SUFFICES ASSUME SafetyInv, ContentInv, ZoneInv, [Next]_vars PROVE ZoneInv'
  OBVIOUS
<1>0. /\ PositionTypeOK
      /\ log \in Seq(Line) /\ tail \in Line \cup {Clean} /\ node \in [Auction -> Record]
      /\ clock \in Nat /\ faults \in [FaultKind -> Nat] /\ "collector" \in FaultKind
      /\ IsFiniteSet(TornLines) /\ Cardinality(TornLines) \in Nat /\ Clean # Garbage
  BY TornLinesFinite, CleanAssumption DEF SafetyInv, PositionTypeOK, FaultKind, Line
<1>1. CASE CollectorNext \/ CollectorKilled
  <2>3. \/ \E r \in Record : Land(r) /\ UNCHANGED faults
        \/ \E r \in Record : TornLand(r) /\ Fault("collector")
        \/ UNCHANGED <<log, tail>> /\ (UNCHANGED faults \/ Fault("collector"))
    <3>1. ASSUME NEW a \in Auction, NodeWrite(a)
          PROVE  (\E r \in Record : Land(r) /\ UNCHANGED faults) \/ UNCHANGED <<log, tail, faults>>
      BY <1>0, <3>1, SuccessorsAreRecords DEF NodeWrite
    <3>2. ASSUME NEW a \in Auction, Subscribe(a)
          PROVE  (\E r \in Record : Land(r) /\ UNCHANGED faults) \/ UNCHANGED <<log, tail, faults>>
      BY <1>0, <3>2 DEF Subscribe
    <3>3. ASSUME NEW a \in Auction, KilledMidWrite(a)
          PROVE  \E r \in Record : TornLand(r) /\ Fault("collector")
      BY <1>0, <3>3, CutShort DEF KilledMidWrite
    <3>4. QED
      BY <1>1, <3>1, <3>2, <3>3 DEF CollectorNext, CollectorKilled, StreamDrops, Scan
  <2>4. ASSUME Fault("collector")
        PROVE  faults'["collector"] = faults["collector"] + 1
               /\ faults'["collector"] <= MaxCollectorFaults
    BY <1>0, <2>4, BoundsAssumption DEF Fault, FaultBound
  <2>5. CASE \E r \in Record : Land(r) /\ UNCHANGED faults
    <3>1. PICK r \in Record : Land(r) /\ UNCHANGED faults
      BY <2>5
    <3>2. /\ Cardinality(TornLines') <= Cardinality(TornLines) + (IF tail = Garbage THEN 1 ELSE 0)
          /\ Cardinality(TornLines') \in Nat
      BY <1>0, <3>1, LandTears
    <3>3. tail' # Garbage
      BY <1>0, <3>1 DEF Land
    <3>4. QED
      BY <1>0, <3>1, <3>2, <3>3 DEF ZoneInv
  <2>6. CASE \E r \in Record : TornLand(r) /\ Fault("collector")
    <3>1. PICK r \in Record : TornLand(r) /\ Fault("collector")
      BY <2>6
    <3>2. /\ Cardinality(TornLines') <= Cardinality(TornLines) + (IF tail = Garbage THEN 1 ELSE 0)
          /\ Cardinality(TornLines') \in Nat
      BY <1>0, <3>1, LandTears
    <3>3. QED
      BY <1>0, <2>4, <3>1, <3>2 DEF ZoneInv
  <2>7. CASE UNCHANGED <<log, tail>> /\ (UNCHANGED faults \/ Fault("collector"))
    <3>1. TornLines' = TornLines
      BY <2>7 DEF TornLines
    <3>2. QED
      BY <1>0, <2>4, <2>7, <3>1 DEF ZoneInv
  <2>8. QED
    BY <2>3, <2>5, <2>6, <2>7
<1>2. ASSUME UNCHANGED zoneVars,
             UNCHANGED faults \/ \E kind \in FaultKind \ {"collector"} : Fault(kind)
      PROVE  ZoneInv'
  <2>1. UNCHANGED <<log, tail>> /\ TornLines' = TornLines
    BY <1>2 DEF zoneVars, TornLines
  <2>2. faults'["collector"] = faults["collector"]
    BY <1>0, <1>2 DEF Fault
  <2>3. QED
    BY <2>1, <2>2 DEF ZoneInv
<1>3. CASE LoaderStart \/ ReadWindow \/ ReadSeed \/ CommitWindow \/ CommitFails \/ WriteState
           \/ WriteOffset \/ LoaderKilled \/ StateDiscarded
  <2>1. UNCHANGED zoneVars
    BY <1>3 DEF LoaderStart, ReadWindow, ReadSeed, CommitWindow, CommitFails, WriteState,
                WriteOffset, LoaderKilled, StateDiscarded
  <2>2. UNCHANGED faults \/ \E kind \in FaultKind \ {"collector"} : Fault(kind)
    BY <1>3 DEF LoaderStart, ReadWindow, ReadSeed, CommitWindow, CommitFails, WriteState,
                WriteOffset, LoaderKilled, StateDiscarded, FaultKind
  <2>3. QED
    BY <1>2, <2>1, <2>2
<1>4. CASE UNCHANGED vars
  BY <1>2, <1>4 DEF vars
<1>5. QED
  BY <1>1, <1>3, <1>4 DEF Next, LoaderStep

\* A window no kill of the collector can have filled holds a record, or ends
\* the landing zone: a one-shot run that returns of its own accord has left no
\* record below its target, torn lines and all.
THEOREM OneShotReturnsAtTarget ==
  ASSUME MaxCollectorFaults < Window
  PROVE  Spec => OneShotCarriesBacklog
<1> DEFINE Returns == (/\ lpc # "down" /\ lpc' = "down"
                       /\ target # Follow /\ faults' = faults) 
                       => ~HasRecord(offsetFile', Smaller(target, Len(log)))
<1>1. SafetyInv /\ ContentInv /\ ZoneInv /\ [Next]_vars => [Returns]_vars
  <2> SUFFICES ASSUME SafetyInv, ContentInv, ZoneInv, [Next]_vars, lpc # "down", lpc' = "down",
                      target # Follow, faults' = faults
               PROVE  ~HasRecord(offsetFile', Smaller(target, Len(log)))
    OBVIOUS
  <2>0. /\ log \in Seq(Line) /\ offsetFile \in Nat /\ offsetFile <= Len(log)
        /\ target \in Nat /\ Len(log) \in Nat
        /\ Smaller(target, Len(log)) \in Nat
        /\ Smaller(target, Len(log)) <= Len(log) /\ Smaller(target, Len(log)) <= target
        /\ faults \in [FaultKind -> Nat] /\ "collector" \in FaultKind
    BY DEF SafetyInv, PositionTypeOK, NothingSkipped, ContentInv, ContentTypeOK, ZoneInv, FaultKind,
           Smaller
  <2>1. CASE ReadWindow
    <3>1. ~HasRecord(offsetFile, WindowEnd) /\ offsetFile' = offsetFile
      BY <2>1 DEF ReadWindow, fileVars
    <3>2. CASE offsetFile + Window > Len(log)
      <4>1. WindowEnd = Len(log)
        BY <2>0, <3>2, WindowAssumption DEF WindowEnd, Smaller
      <4>2. QED
        BY <2>0, <3>1, <4>1 DEF HasRecord
    <3>3. CASE offsetFile + Window <= Len(log)
      <4>1. WindowEnd = offsetFile + Window
        BY <2>0, <3>3, WindowAssumption DEF WindowEnd, Smaller
      <4>2. \A i \in offsetFile + 1 .. offsetFile + Window : log[i] = Garbage
        BY <3>1, <4>1 DEF HasRecord
      <4>3. offsetFile + 1 .. offsetFile + Window \subseteq TornLines
        BY <2>0, <3>3, <4>2, WindowAssumption DEF TornLines
      <4>4. Cardinality(offsetFile + 1 .. offsetFile + Window) = Window
        BY <2>0, WindowAssumption, FS_Interval
      <4>5. IsFiniteSet(TornLines) /\ Cardinality(TornLines) \in Nat
        BY <2>0, TornLinesFinite
      <4>6. Cardinality(offsetFile + 1 .. offsetFile + Window) <= Cardinality(TornLines)
        BY <4>3, <4>5, FS_Subset
      <4>7. Cardinality(TornLines) <= MaxCollectorFaults
        BY <2>0, <4>5, BoundsAssumption DEF ZoneInv
      <4>8. QED
        BY <4>4, <4>5, <4>6, <4>7, WindowAssumption, BoundsAssumption
    <3>4. QED
      BY <2>0, <3>2, <3>3, WindowAssumption
  <2>2. CASE WriteOffset
    BY <2>0, <2>2 DEF WriteOffset, SafetyInv, PositionTypeOK, HasRecord
  <2>3. ASSUME NEW kind \in FaultKind, Fault(kind) PROVE FALSE
    BY <2>3 DEF Fault, SafetyInv, PositionTypeOK
  <2>4. CASE CommitFails \/ LoaderKilled
    BY <2>3, <2>4 DEF CommitFails, LoaderKilled, FaultKind
  <2>5. CASE CollectorNext \/ CollectorKilled
    BY <2>5, CollectorStep DEF SafetyInv, loaderVars
  <2>6. CASE LoaderStart \/ ReadSeed \/ CommitWindow \/ WriteState \/ StateDiscarded \/ UNCHANGED vars
    BY <2>6 DEF LoaderStart, ReadSeed, CommitWindow, WriteState, StateDiscarded, vars, loaderVars
  <2>7. QED
    BY <2>1, <2>2, <2>4, <2>5, <2>6 DEF Next, LoaderStep
<1>2. QED
  BY <1>1, ZoneInit, ZoneStep, SafetyAlways, ContentAlways, PTL DEF Spec, OneShotCarriesBacklog

-----------------------------------------------------------------------------
(* What a watcher has passed on.                                           *)

\* A record of auction a with the stamp s is one of the lines.
IsLanded(lines, a, s) ==
  \E i \in 1 .. Len(lines) :
    lines[i] # Garbage /\ lines[i].auction = a /\ lines[i].stamp = s

\* A record that is landed is a complete line of its own, torn tail or not.
LEMMA LandIsALine ==
  ASSUME log \in Seq(Line), tail \in Line \cup {Clean}, NEW r \in Record, Land(r)
  PROVE  IsLanded(log', r.auction, r.stamp)
<1>1. r \in Line /\ r # Garbage
  BY DistinctAssumption DEF Line
<1>2. log' \in Seq(Line) /\ Len(log') \in Nat /\ Len(log') > 0 /\ log'[Len(log')] = r
  <2>1. CASE tail = Clean
    <3>1. log' = Append(log, r)
      BY <2>1 DEF Land
    <3>2. QED
      BY <1>1, <3>1
  <2>2. CASE tail # Clean
    <3>1. log' = log \o <<tail, r>> /\ tail \in Line
      BY <2>2 DEF Land
    <3>2. /\ Len(log') = Len(log) + 2 /\ log'[Len(log) + 2] = r /\ log' \in Seq(Line)
          /\ Len(log) \in Nat
      BY <1>1, <3>1
    <3>3. QED
      BY <3>2
  <2>3. QED
    BY <2>1, <2>2
<1>3. Len(log') \in 1 .. Len(log')
  BY <1>2
<1>4. QED
  BY <1>1, <1>2, <1>3 DEF IsLanded

\* The landing zone only grows, so what has landed stays landed.
LEMMA LandedStays ==
  ASSUME PositionTypeOK, CollectorNext \/ CollectorKilled, NEW a \in Auction, NEW s \in Nat,
         IsLanded(log, a, s)
  PROVE  IsLanded(log', a, s)
<1>1. PICK i \in 1 .. Len(log) : log[i] # Garbage /\ log[i].auction = a /\ log[i].stamp = s
  BY DEF IsLanded
<1>2. log' \in Seq(Line) /\ Len(log) <= Len(log') /\ log'[i] = log[i]
  BY CollectorStep
<1>3. log \in Seq(Line)
  BY DEF PositionTypeOK
<1>4. Len(log) \in Nat /\ Len(log') \in Nat
  BY <1>2, <1>3
<1>5. i \in 1 .. Len(log')
  BY <1>2, <1>4
<1>6. QED
  BY <1>1, <1>2, <1>5 DEF IsLanded

LEMMA PassedInit == Init => PassedOnIsLanded
BY DEF Init, PassedOnIsLanded

LEMMA PassedStep ==
  PositionTypeOK /\ RegistryInv /\ PassedOnIsLanded /\ [Next]_vars => PassedOnIsLanded'
<1> SUFFICES ASSUME PositionTypeOK, RegistryInv, PassedOnIsLanded, [Next]_vars
             PROVE  PassedOnIsLanded'
  OBVIOUS
<1>0. /\ node \in [Auction -> Record] /\ clock \in Nat /\ cached \in [Auction -> Nat]
      /\ log \in Seq(Line) /\ tail \in Line \cup {Clean}
      /\ \A a \in Auction : node[a].auction = a /\ node[a].stamp \in Nat
      /\ \A a \in Auction : cached[a] # 0 => IsLanded(log, a, cached[a])
  BY DEF PositionTypeOK, RegistryInv, PassedOnIsLanded, IsLanded, Record
<1>1. CASE CollectorNext \/ CollectorKilled
  <2>1. ASSUME NEW b \in Auction, cached' = cached \/ cached'[b] = cached[b], cached'[b] # 0
        PROVE  IsLanded(log', b, cached[b])
    BY <1>0, <1>1, <2>1, LandedStays
  <2>2. CASE cached' = cached \/ cached' = [a \in Auction |-> 0]
    <3>1. ASSUME NEW b \in Auction, cached'[b] # 0 PROVE IsLanded(log', b, cached'[b])
      <4>1. cached' = cached
        BY <2>2, <3>1
      <4>2. IsLanded(log', b, cached[b])
        BY <2>1, <3>1, <4>1
      <4>3. cached'[b] = cached[b]
        BY <4>1
      <4>4. QED
        BY <4>2, <4>3
    <3>2. QED
      BY <3>1 DEF PassedOnIsLanded, IsLanded
  <2>3. ASSUME NEW a \in Auction, NEW r \in Record, r.auction = a, Land(r),
               cached' = [cached EXCEPT ![a] = r.stamp]
        PROVE  PassedOnIsLanded'
    <3>1. ASSUME NEW b \in Auction, cached'[b] # 0 PROVE IsLanded(log', b, cached'[b])
      <4>1. CASE b = a
        <5>1. cached'[b] = r.stamp
          BY <1>0, <2>3, <4>1
        <5>2. IsLanded(log', r.auction, r.stamp)
          BY <1>0, <2>3, LandIsALine
        <5>3. QED
          BY <2>3, <4>1, <5>1, <5>2
      <4>2. CASE b # a
        <5>1. cached'[b] = cached[b]
          BY <1>0, <2>3, <4>2
        <5>2. IsLanded(log', b, cached[b])
          BY <2>1, <3>1, <5>1
        <5>3. QED
          BY <5>1, <5>2
      <4>3. QED
        BY <4>1, <4>2
    <3>2. QED
      BY <3>1 DEF PassedOnIsLanded, IsLanded
  <2>4. ASSUME NEW a \in Auction, NodeWrite(a) PROVE PassedOnIsLanded'
    <3>1. PICK m \in Successors(node[a], clock + 1) :
            IF a \in followed
            THEN Land(m) /\ cached' = [cached EXCEPT ![a] = m.stamp]
            ELSE UNCHANGED cached
      BY <2>4 DEF NodeWrite
    <3>2. m \in Record /\ m.auction = a
      BY <1>0, SuccessorsAreRecords
    <3>3. QED
      BY <2>2, <2>3, <3>1, <3>2
  <2>5. ASSUME NEW a \in Auction, Subscribe(a) PROVE PassedOnIsLanded'
    <3>1. node[a] \in Record /\ node[a].auction = a
      BY <1>0
    <3>2. QED
      BY <2>2, <2>3, <2>5, <3>1 DEF Subscribe
  <2>6. ASSUME NEW a \in Auction, KilledMidWrite(a) \/ StreamDrops(a) \/ Scan(a)
        PROVE  PassedOnIsLanded'
    BY <2>2, <2>6 DEF KilledMidWrite, StreamDrops, Scan
  <2>7. QED
    BY <1>1, <2>2, <2>4, <2>5, <2>6 DEF CollectorNext, CollectorKilled
<1>2. CASE LoaderStep \/ CommitFails \/ LoaderKilled \/ StateDiscarded \/ UNCHANGED vars
  <2>1. UNCHANGED zoneVars
    BY <1>2 DEF LoaderStep, LoaderStart, ReadWindow, ReadSeed, CommitWindow, CommitFails,
                WriteState, WriteOffset, LoaderKilled, StateDiscarded, vars
  <2>2. QED
    BY <2>1 DEF zoneVars, PassedOnIsLanded
<1>3. QED
  BY <1>1, <1>2 DEF Next

\* Nothing a watcher drops as a repeat is missing from the disk, however the
\* streams drop, the collector is killed and its last line is torn.
THEOREM WatchersAreLanded == Spec => []PassedOnIsLanded
<1>1. SafetyInv => PositionTypeOK
  BY DEF SafetyInv
<1>2. QED
  BY <1>1, RegistryInit, RegistryStep, PassedInit, PassedStep, SafetyAlways, PTL DEF Spec

-----------------------------------------------------------------------------
(* Ladders ascend.                                                         *)

Live == {"first_call", "raise", "close_auction", "reopen"}

\* A node that holds a turn names its player and a price.
Named(r) == r.type \in Live => r.price \in Nat /\ r.player # NoPlayer

\* The ladder of the turn record r left on the block.
Rises(ladder, r) ==
  /\ Ascending(ladder)
  /\ r.type \in Bidding => ladder # <<>> /\ ladder[Len(ladder)] = r.price
  /\ r.type = "reopen" => ladder = <<>> \/ ladder[Len(ladder)] = r.price

LEMMA AppendAscends ==
  ASSUME NEW ladder \in Seq(Nat), Ascending(ladder), NEW price \in Nat,
         ladder # <<>> => ladder[Len(ladder)] < price
  PROVE  /\ AppendRung(ladder, price) = Append(ladder, price)
         /\ Ascending(Append(ladder, price))
         /\ Append(ladder, price) # <<>>
         /\ Append(ladder, price)[Len(Append(ladder, price))] = price
<1>1. ladder # <<>> => ladder[Len(ladder)] \in Nat /\ Len(ladder) \in 1 .. Len(ladder)
  OBVIOUS
<1>2. AppendRung(ladder, price) = Append(ladder, price)
  BY <1>1, DistinctAssumption DEF AppendRung
<1> DEFINE more == Append(ladder, price)
<1>3. /\ Len(more) = Len(ladder) + 1 /\ more[Len(ladder) + 1] = price
      /\ \A i \in 1 .. Len(ladder) : more[i] = ladder[i]
  OBVIOUS
<1>4. ASSUME NEW i \in 1 .. Len(ladder) PROVE more[i] < more[i + 1]
  <2>1. CASE i = Len(ladder)
    BY <1>3, <2>1
  <2>2. CASE i # Len(ladder)
    <3>1. i + 1 \in 1 .. Len(ladder) /\ i \in 1 .. Len(ladder) - 1
      BY <2>2
    <3>2. QED
      BY <1>3, <3>1 DEF Ascending
  <2>3. QED
    BY <2>1, <2>2
<1>5. Ascending(more)
  BY <1>3, <1>4 DEF Ascending
<1>6. QED
  BY <1>2, <1>3, <1>5

\* The first record of a turn.
LEMMA FirstRises ==
  ASSUME NEW r \in Record, Named(r)
  PROVE  Rises(LadderAfter(<<>>, r), r)
<1>1. Ascending(<<>>) /\ <<>> \in Seq(Nat)
  BY DEF Ascending
<1>2. CASE r.type \in Bidding
  <2>1. r.price \in Nat
    BY <1>2 DEF Named, Live, Bidding
  <2>2. LadderAfter(<<>>, r) = AppendRung(<<>>, r.price)
    BY <1>2 DEF LadderAfter
  <2>3. QED
    BY <1>1, <1>2, <2>1, <2>2, AppendAscends DEF Rises, Bidding
<1>3. CASE r.type \notin Bidding
  BY <1>1, <1>3 DEF Rises, LadderAfter
<1>4. QED
  BY <1>2, <1>3

\* What a node is written to is named.
LEMMA SuccessorNamed ==
  ASSUME NEW n \in Record, Named(n), NEW s \in Nat, NEW r \in Successors(n, s)
  PROVE  /\ Named(r) /\ r.type \in Follows[n.type]
         /\ r.type = "raise" => n.type \in {"first_call", "raise", "reopen"}
                                /\ r.player = n.player /\ r.price = n.price + 1
         /\ r.type = "close_auction" => n.type \in {"first_call", "raise", "reopen"}
                                /\ r.player = n.player /\ r.price = n.price
         /\ r.type = "reopen" => n.type = "close_auction"
                                /\ r.player = n.player /\ r.price = n.price
         /\ r.type \in {"confirm", "reset"} => n.type \in Live /\ r.player = NoPlayer
<1>1. r \in Record
  BY SuccessorsAreRecords
<1>2. /\ r.type \in Follows[n.type]
      /\ r.type = "first_call" => r.player # NoPlayer /\ r.price = StartPrice
      /\ r.type = "raise" => r.player = n.player /\ r.price = n.price + 1
      /\ r.type \in {"confirm", "reset"} => r.player = NoPlayer
      /\ r.type \in {"close_auction", "reopen"} => r.player = n.player /\ r.price = n.price
  BY DEF Successors
<1>3. n.type \in UpdateType
  BY DEF Record
<1>4. /\ r.type \in {"raise", "close_auction"} => n.type \in {"first_call", "raise", "reopen"}
      /\ r.type = "reopen" => n.type = "close_auction"
      /\ r.type \in {"confirm", "reset"} => n.type \in Live
  BY <1>2, <1>3 DEF Follows, UpdateType, Live
<1>5. StartPrice \in Nat
  BY BoundsAssumption
<1>6. Named(r)
  <2>1. CASE r.type = "first_call"
    BY <1>2, <1>5, <2>1 DEF Named
  <2>2. CASE r.type = "raise"
    <3>1. n.price \in Nat /\ n.player # NoPlayer
      BY <1>4, <2>2 DEF Named, Live
    <3>2. QED
      BY <1>2, <2>2, <3>1 DEF Named
  <2>3. CASE r.type \in {"close_auction", "reopen"}
    <3>1. n.price \in Nat /\ n.player # NoPlayer
      BY <1>4, <2>3 DEF Named, Live
    <3>2. QED
      BY <1>2, <2>3, <3>1 DEF Named
  <2>4. QED
    BY <2>1, <2>2, <2>3 DEF Named, Live
<1>7. QED
  BY <1>2, <1>4, <1>6

\* The next record of an auction extends the ladder upwards, or starts one.
LEMMA NextRises ==
  ASSUME NEW n \in Record, Named(n), NEW s \in Nat, NEW r \in Successors(n, s),
         NEW turn \in Turn, turn.known, turn.player = n.player, Rises(turn.ladder, n)
  PROVE  Rises(TellTurn(turn, r).ladder, r)
<1>1. r \in Record /\ Named(r)
  BY SuccessorsAreRecords, SuccessorNamed
<1>2. TellTurn(turn, r).ladder
        = LadderAfter(IF StartsNewTurn(r, turn) THEN <<>> ELSE turn.ladder, r)
  BY <1>1, TellTurnFields
<1>3. CASE StartsNewTurn(r, turn)
  BY <1>1, <1>2, <1>3, FirstRises
<1>4. CASE ~StartsNewTurn(r, turn)
  <2>1. r.type # "first_call" /\ r.player = n.player
    BY <1>4 DEF StartsNewTurn
  <2>2. turn.ladder \in Seq(Nat) /\ Ascending(turn.ladder)
    BY DEF Turn, Rises
  <2>3. CASE r.type = "raise"
    <3>1. n.type \in {"first_call", "raise", "reopen"} /\ r.price = n.price + 1 /\ n.price \in Nat
      BY <2>3, SuccessorNamed DEF Named, Live
    <3>2. turn.ladder # <<>> => turn.ladder[Len(turn.ladder)] = n.price
      BY <3>1 DEF Rises, Bidding
    <3>3. TellTurn(turn, r).ladder = AppendRung(turn.ladder, r.price)
      BY <1>2, <1>4, <2>3 DEF LadderAfter, Bidding
    <3>4. r.price \in Nat /\ (turn.ladder # <<>> => turn.ladder[Len(turn.ladder)] < r.price)
      BY <3>1, <3>2
    <3>5. QED
      <4> DEFINE more == Append(turn.ladder, r.price)
      <4>1. TellTurn(turn, r).ladder = more
        BY <2>2, <3>3, <3>4, AppendAscends
      <4>2. Ascending(more) /\ more # <<>> /\ more[Len(more)] = r.price
        BY <2>2, <3>4, AppendAscends
      <4> HIDE DEF more
      <4>3. QED
        BY <2>3, <4>1, <4>2 DEF Rises
  <2>4. CASE r.type = "close_auction"
    <3>1. n.type \in {"first_call", "raise", "reopen"} /\ r.price = n.price /\ n.price \in Nat
      BY <2>4, SuccessorNamed DEF Named, Live
    <3>2. turn.ladder = <<>> \/ turn.ladder[Len(turn.ladder)] = r.price
      BY <3>1 DEF Rises, Bidding
    <3>3. TellTurn(turn, r).ladder = AppendRung(turn.ladder, r.price)
      BY <1>2, <1>4, <2>4 DEF LadderAfter, Bidding
    <3>4. CASE turn.ladder = <<>>
      <4> DEFINE more == Append(turn.ladder, r.price)
      <4>1. r.price \in Nat /\ (turn.ladder # <<>> => turn.ladder[Len(turn.ladder)] < r.price)
        BY <3>1, <3>4
      <4>2. TellTurn(turn, r).ladder = more
        BY <2>2, <3>3, <4>1, AppendAscends
      <4>3. Ascending(more) /\ more # <<>> /\ more[Len(more)] = r.price
        BY <2>2, <4>1, AppendAscends
      <4> HIDE DEF more
      <4>4. QED
        BY <2>4, <4>2, <4>3 DEF Rises
    <3>5. CASE turn.ladder # <<>>
      <4>1. AppendRung(turn.ladder, r.price) = turn.ladder
        BY <3>2, <3>5 DEF AppendRung
      <4>2. QED
        BY <2>2, <2>4, <3>2, <3>3, <3>5, <4>1 DEF Rises
    <3>6. QED
      BY <3>4, <3>5
  <2>5. CASE r.type = "reopen"
    <3>1. n.type = "close_auction" /\ r.price = n.price
      BY <2>5, SuccessorNamed
    <3>2. turn.ladder[Len(turn.ladder)] = r.price
      BY <3>1 DEF Rises, Bidding
    <3>3. TellTurn(turn, r).ladder = turn.ladder
      BY <1>2, <1>4, <2>5 DEF LadderAfter, Bidding
    <3>4. QED
      BY <2>2, <2>5, <3>2, <3>3 DEF Rises, Bidding
  <2>6. CASE r.type \in {"confirm", "reset"}
    BY <2>1, <2>6, SuccessorNamed DEF Named
  <2>7. QED
    BY <1>1, <2>1, <2>3, <2>4, <2>5, <2>6 DEF Record, UpdateType
<1>5. QED
  BY <1>3, <1>4

-----------------------------------------------------------------------------

\* A sale whose ladder ascends to its price.
Climbs(sale) ==
  Ascending(sale.ladder) /\ sale.ladder # <<>> /\ sale.ladder[Len(sale.ladder)] = sale.price

Last == Evening(log)[Len(log)]

SiteInv ==
  \A a \in Auction : Named(node[a]) /\ (node[a].stamp = 0 => node[a].type = "confirm")

\* Until a stream drops: what is on the block of a followed auction is the turn
\* its node holds, and an auction that is not followed was never read.
BlockInv ==
  faults["collector"] = 0 =>
    /\ tail = Clean
    /\ \A a \in Auction, s \in Nat :
         <<a, s>> \in Last.seen => a \in followed /\ s <= node[a].stamp
    /\ \A a \in Auction \ followed : cached[a] = 0 /\ ~Last.block[a].known
    /\ \A a \in followed :
         IF Last.block[a].known
         THEN Last.block[a].player = node[a].player /\ Rises(Last.block[a].ladder, node[a])
         ELSE node[a].type = "confirm"
    /\ \A x \in 0 .. Len(log), k \in Pair : Sold(x)[k] # NoSale => Climbs(Sold(x)[k])

LEMMA SiteInit == Init => SiteInv
<1> SUFFICES ASSUME Init, NEW a \in Auction
             PROVE  Named(node[a]) /\ (node[a].stamp = 0 => node[a].type = "confirm")
  BY DEF SiteInv
<1>1. node[a] = EmptyNode(a)
  BY DEF Init
<1>2. node[a].type = "confirm"
  BY <1>1 DEF EmptyNode
<1>3. QED
  BY <1>2 DEF Named, Live

LEMMA SiteStep == PositionTypeOK /\ SiteInv /\ [Next]_vars => SiteInv'
<1> SUFFICES ASSUME PositionTypeOK, SiteInv, [Next]_vars PROVE SiteInv'
  OBVIOUS
<1>1. ASSUME NEW a \in Auction, NEW m \in Successors(node[a], clock + 1),
             node' = [node EXCEPT ![a] = m]
      PROVE  SiteInv'
  <2>1. node' = [node EXCEPT ![a] = m]
    BY <1>1
  <2>2. node \in [Auction -> Record] /\ clock + 1 \in Nat /\ clock + 1 # 0
    BY DEF PositionTypeOK
  <2>3. Named(m)
    BY <2>2, SuccessorNamed DEF SiteInv
  <2>4. m.stamp = clock + 1
    BY DEF Successors
  <2>5. QED
    BY <2>1, <2>2, <2>3, <2>4 DEF SiteInv
<1>2. CASE (\E a \in Auction : Subscribe(a) \/ StreamDrops(a) \/ Scan(a)) \/ CollectorKilled
             \/ LoaderStep \/ CommitFails \/ LoaderKilled \/ StateDiscarded \/ UNCHANGED vars
  <2>1. UNCHANGED node
    BY <1>2 DEF Subscribe, StreamDrops, Scan, CollectorKilled, LoaderStep, LoaderStart, ReadWindow,
                ReadSeed, CommitWindow, CommitFails, WriteState, WriteOffset, LoaderKilled,
                StateDiscarded, vars, siteVars
  <2>2. QED
    BY <2>1 DEF SiteInv
<1>3. ASSUME NEW a \in Auction, NodeWrite(a) PROVE SiteInv'
  BY <1>1, <1>3 DEF NodeWrite
<1>4. ASSUME NEW a \in Auction, KilledMidWrite(a) PROVE SiteInv'
  <2>1. CASE UNCHANGED node
    BY <2>1 DEF SiteInv
  <2>2. QED
    BY <1>1, <1>4, <2>1 DEF KilledMidWrite, siteVars
<1>5. QED
  BY <1>2, <1>3, <1>4 DEF Next, CollectorNext

LEMMA BlockInit == Init => BlockInv
<1> SUFFICES ASSUME Init PROVE BlockInv
  OBVIOUS
<1>1. log = <<>> /\ log \in Seq(Line) /\ Len(log) = 0
  BY DEF Init
<1>2. Last = Blank /\ Sold(0) = Blank.sold
  BY <1>1, EveningEquations DEF Last, Sold
<1>3. Blank.seen = {} /\ Blank.sold = EmptyArchive /\ \A a \in Auction : ~Blank.block[a].known
  BY DEF Blank
<1>4. \A k \in Pair : EmptyArchive[k] = NoSale
  BY DEF EmptyArchive, Pair
<1>5. tail = Clean /\ followed = {} /\ cached = [a \in Auction |-> 0]
  BY DEF Init
<1>6. QED
  BY <1>1, <1>2, <1>3, <1>4, <1>5 DEF BlockInv

\* A new record of an auction that was never read, or the next one of its turn.
LEMMA LandBlock ==
  ASSUME PositionTypeOK, SiteInv, BlockInv, faults["collector"] = 0,
         NEW a \in Auction, NEW r \in Record, r.auction = a, Named(r), Land(r),
         \A s \in Nat : <<a, s>> \in Last.seen => s < r.stamp,
         a \notin followed \/ r \in Successors(node[a], clock + 1),
         node' \in [Auction -> Record], node'[a] = r,
         \A b \in Auction \ {a} : node'[b] = node[b],
         followed' = followed \cup {a},
         \A b \in Auction \ {a} : cached'[b] = cached[b],
         faults' = faults
  PROVE  BlockInv'
<1>0. /\ log \in Seq(Line) /\ node \in [Auction -> Record] /\ clock \in Nat /\ Len(log) \in Nat
      /\ r.stamp \in Nat
  BY DEF PositionTypeOK, Record
<1>1. tail = Clean /\ tail' = Clean /\ log' = Append(log, r) /\ r \in Line /\ r # Garbage
  BY DistinctAssumption DEF BlockInv, Land, Line
<1>2. /\ log' \in Seq(Line) /\ Len(log') = Len(log) + 1 /\ log'[Len(log) + 1] = r
      /\ \A i \in 1 .. Len(log) : log'[i] = log[i]
  BY <1>0, <1>1
<1>3. \A x \in 0 .. Len(log) : Evening(log')[x] = Evening(log)[x]
  BY <1>0, <1>2, EveningPrefix
<1> DEFINE old == Last
           new == Evening(log')[Len(log) + 1]
           turn == old.block[a]
<1>4. new = ReconstructRecord(old, r)
  <2>1. Len(log) + 1 \in 1 .. Len(log') /\ (Len(log) + 1) - 1 = Len(log) /\ Len(log) \in 0 .. Len(log)
    BY <1>0, <1>2
  <2>2. new = ReconstructLine(Evening(log')[Len(log)], r)
    BY <1>2, <2>1, EveningEquations
  <2>3. Evening(log')[Len(log)] = old
    BY <1>3, <2>1 DEF Last
  <2>4. QED
    BY <1>1, <2>2, <2>3 DEF ReconstructLine
<1>5. old \in Telling /\ turn \in Turn
  <2>1. Len(log) \in 0 .. Len(log)
    BY <1>0
  <2>2. QED
    BY <1>0, <2>1, EveningType DEF Last, Telling
<1>6. <<a, r.stamp>> \notin old.seen
  BY <1>0
<1>7. /\ new.seen = old.seen \cup {<<a, r.stamp>>}
      /\ new.block = [old.block EXCEPT ![a] = TellTurn(turn, r)]
      /\ new.sold = IF ClosesSale(r)
                    THEN [old.sold EXCEPT ![<<a, r.player>>] =
                            ClosedSale(r, TellTurn(turn, r).ladder)]
                    ELSE old.sold
  <2>1. ReconstructRecord(old, r) =
           [seen  |-> old.seen \cup {<<a, r.stamp>>},
            block |-> [old.block EXCEPT ![a] = TellTurn(turn, r)],
            sold  |-> IF ClosesSale(r)
                      THEN [old.sold EXCEPT ![<<a, r.player>>] =
                              ClosedSale(r, TellTurn(turn, r).ladder)]
                      ELSE old.sold]
    BY <1>5, <1>6, ReconstructRecordByTurn
  <2> HIDE DEF old, new, turn
  <2>2. QED
    BY <1>4, <2>1
<1>8. /\ TellTurn(turn, r).known /\ TellTurn(turn, r).player = r.player
      /\ Rises(TellTurn(turn, r).ladder, r)
  <2>1. /\ TellTurn(turn, r).known = (StartsNewTurn(r, turn) \/ turn.known)
        /\ TellTurn(turn, r).player = IF StartsNewTurn(r, turn) THEN r.player ELSE turn.player
        /\ TellTurn(turn, r).ladder
             = LadderAfter(IF StartsNewTurn(r, turn) THEN <<>> ELSE turn.ladder, r)
    BY <1>5, TellTurnFields
  <2>2. ~StartsNewTurn(r, turn) => turn.known /\ turn.player = r.player
    BY DEF StartsNewTurn
  <2>3. CASE ~turn.known
    <3>1. StartsNewTurn(r, turn)
      BY <2>3 DEF StartsNewTurn
    <3>2. QED
      BY <2>1, <3>1, FirstRises
  <2>4. CASE turn.known
    <3>1. a \in followed
      BY <2>4 DEF BlockInv
    <3>2. turn.player = node[a].player /\ Rises(turn.ladder, node[a])
      BY <2>4, <3>1 DEF BlockInv
    <3>3. r \in Successors(node[a], clock + 1) /\ Named(node[a]) /\ node[a] \in Record
      BY <1>0, <3>1 DEF SiteInv
    <3>4. Rises(TellTurn(turn, r).ladder, r)
      BY <1>0, <1>5, <2>4, <3>2, <3>3, NextRises
    <3>5. QED
      BY <2>1, <2>2, <2>4, <3>4
  <2>5. QED
    BY <2>3, <2>4
<1>9. \A k \in Pair : new.sold[k] # NoSale => Climbs(new.sold[k])
  <2>1. \A k \in Pair : old.sold[k] # NoSale => Climbs(old.sold[k])
    <3>1. Len(log) \in 0 .. Len(log) /\ old.sold = Sold(Len(log))
      BY <1>0 DEF Last, Sold
    <3>2. QED
      BY <3>1 DEF BlockInv
  <2>2. CASE ~ClosesSale(r)
    BY <1>7, <2>1, <2>2
  <2>3. CASE ClosesSale(r)
    <3> DEFINE sale == ClosedSale(r, TellTurn(turn, r).ladder)
    <3>1. sale.price = r.price /\ sale.ladder = TellTurn(turn, r).ladder
      BY DEF ClosedSale
    <3>2. r.type = "close_auction"
      BY <2>3 DEF ClosesSale
    <3> HIDE DEF sale, turn
    <3>3. Climbs(sale)
      BY <1>8, <3>1, <3>2 DEF Climbs, Rises, Bidding
    <3>4. new.sold = [old.sold EXCEPT ![<<a, r.player>>] = sale] /\ DOMAIN old.sold = Pair
      BY <1>5, <1>7, <2>3 DEF sale, Telling, Pair
    <3> HIDE DEF old, new
    <3>5. QED
      BY <2>1, <3>3, <3>4
  <2>4. QED
    BY <2>2, <2>3
<1>10. Last' = new /\ Len(log)' = Len(log) + 1
  BY <1>2 DEF Last
<1>11. \A x \in 0 .. Len(log) + 1, k \in Pair :
          Evening(log')[x].sold[k] # NoSale => Climbs(Evening(log')[x].sold[k])
  <2>1. \A x \in 0 .. Len(log) + 1 : x \in 0 .. Len(log) \/ x = Len(log) + 1
    BY <1>0
  <2>2. \A x \in 0 .. Len(log) : Evening(log')[x].sold = Sold(x)
    BY <1>3 DEF Sold
  <2>3. QED
    BY <1>9, <2>1, <2>2 DEF BlockInv
<1>12. \A b \in Auction, s \in Nat : <<b, s>> \in new.seen => b \in followed' /\ s <= node'[b].stamp
  <2> SUFFICES ASSUME NEW b \in Auction, NEW s \in Nat, <<b, s>> \in new.seen
               PROVE  b \in followed' /\ s <= node'[b].stamp
    OBVIOUS
  <2>1. CASE b # a
    <3>1. <<b, s>> \in old.seen
      BY <1>7, <2>1
    <3>2. QED
      BY <2>1, <3>1 DEF BlockInv
  <2>2. CASE b = a
    BY <1>0, <1>7, <2>2
  <2>3. QED
    BY <2>1, <2>2
<1>13. \A b \in Auction : new.block[b] = IF b = a THEN TellTurn(turn, r) ELSE old.block[b]
  BY <1>5, <1>7 DEF Telling
<1>14. \A b \in Auction \ followed' : cached'[b] = 0 /\ ~new.block[b].known
  BY <1>13 DEF BlockInv
<1>15. \A b \in followed' :
         IF new.block[b].known
         THEN new.block[b].player = node'[b].player /\ Rises(new.block[b].ladder, node'[b])
         ELSE node'[b].type = "confirm"
  <2> SUFFICES ASSUME NEW b \in followed'
               PROVE  IF new.block[b].known
                      THEN new.block[b].player = node'[b].player
                           /\ Rises(new.block[b].ladder, node'[b])
                      ELSE node'[b].type = "confirm"
    OBVIOUS
  <2>0. b \in Auction
    BY DEF PositionTypeOK
  <2>1. CASE b = a
    BY <1>8, <1>13, <2>1
  <2>2. CASE b # a
    <3>1. b \in followed /\ new.block[b] = old.block[b] /\ node'[b] = node[b]
      BY <1>13, <2>0, <2>2
    <3>2. QED
      BY <3>1 DEF BlockInv
  <2>3. QED
    BY <2>1, <2>2
<1> HIDE DEF old, new, turn
<1>16. QED
  BY <1>1, <1>10, <1>11, <1>12, <1>14, <1>15 DEF BlockInv, Sold

LEMMA BlockStep ==
  SafetyInv /\ RegistryInv /\ OrderInv /\ SiteInv /\ BlockInv /\ [Next]_vars => BlockInv'
<1> SUFFICES ASSUME SafetyInv, RegistryInv, OrderInv, SiteInv, BlockInv, [Next]_vars
             PROVE  BlockInv'
  OBVIOUS
<1>0. /\ PositionTypeOK /\ log \in Seq(Line) /\ node \in [Auction -> Record] /\ clock \in Nat
      /\ cached \in [Auction -> Nat] /\ faults \in [FaultKind -> Nat] /\ followed \subseteq Auction
  BY DEF SafetyInv, PositionTypeOK
<1>1. ASSUME NEW kind \in FaultKind, Fault(kind), faults'["collector"] = 0
      PROVE  faults["collector"] = 0 /\ kind # "collector"
  BY <1>0, <1>1 DEF Fault, FaultKind
\* Nothing of the site and of the zone changes but, maybe, the seed and a node
\* that nobody follows.
<1>2. ASSUME UNCHANGED <<log, tail, followed, cached>>,
             faults'["collector"] = 0 => faults["collector"] = 0,
             \A b \in followed : node'[b] = node[b]
      PROVE  BlockInv'
  <2>1. Last' = Last /\ \A x : Sold(x)' = Sold(x)
    BY <1>2 DEF Last, Sold
  <2>2. QED
    BY <1>2, <2>1 DEF BlockInv
<1>3. ASSUME NEW a \in Auction, NodeWrite(a) PROVE BlockInv'
  <2>1. PICK m \in Successors(node[a], clock + 1) :
          /\ node' = [node EXCEPT ![a] = m]
          /\ IF a \in followed
             THEN Land(m) /\ cached' = [cached EXCEPT ![a] = m.stamp]
             ELSE UNCHANGED <<log, tail, cached>>
    BY <1>3 DEF NodeWrite
  <2>2. UNCHANGED <<followed, faults>>
    BY <1>3 DEF NodeWrite
  <2>3. CASE a \notin followed
    <3>1. UNCHANGED <<log, tail, cached>> /\ \A b \in followed : node'[b] = node[b]
      BY <1>0, <2>1, <2>3
    <3>2. QED
      BY <1>2, <2>2, <3>1
  <2>4. CASE a \in followed /\ faults["collector"] = 0
    <3>1. m \in Record /\ m.auction = a /\ m.stamp = clock + 1
      BY <1>0, WrittenLater
    <3>2. Named(m)
      BY <1>0, SuccessorNamed DEF SiteInv
    <3>3. \A s \in Nat : <<a, s>> \in Last.seen => s < m.stamp
      <4>1. \A s \in Nat : <<a, s>> \in Last.seen => s <= node[a].stamp
        BY <2>4 DEF BlockInv
      <4>2. node[a].stamp <= clock /\ node[a].stamp \in Nat
        BY <1>0 DEF OrderInv, Record
      <4>3. QED
        BY <1>0, <3>1, <4>1, <4>2
    <3>4. /\ node' \in [Auction -> Record] /\ node'[a] = m
          /\ \A b \in Auction \ {a} : node'[b] = node[b]
          /\ \A b \in Auction \ {a} : cached'[b] = cached[b]
          /\ followed' = followed \cup {a} /\ Land(m)
      BY <1>0, <2>1, <2>2, <2>4, <3>1
    <3>5. QED
      BY <1>0, <2>2, <2>4, <3>1, <3>2, <3>3, <3>4, LandBlock
  <2>5. CASE faults["collector"] # 0
    BY <2>2, <2>5 DEF BlockInv
  <2>6. QED
    BY <2>3, <2>4, <2>5
<1>4. ASSUME NEW a \in Auction, Subscribe(a) PROVE BlockInv'
  <2>1. /\ a \in seed \ followed /\ followed' = followed \cup {a}
        /\ UNCHANGED <<node, faults>>
    BY <1>4 DEF Subscribe, siteVars
  <2>2. CASE faults["collector"] # 0
    BY <2>1, <2>2 DEF BlockInv
  <2>3. CASE faults["collector"] = 0 /\ cached[a] # node[a].stamp
    <3>1. Land(node[a]) /\ cached' = [cached EXCEPT ![a] = node[a].stamp]
      BY <1>4, <2>3 DEF Subscribe
    <3>2. node[a] \in Record /\ node[a].auction = a /\ Named(node[a])
      BY <1>0 DEF RegistryInv, SiteInv
    <3>3. \A s \in Nat : <<a, s>> \in Last.seen => s < node[a].stamp
      BY <2>1, <2>3 DEF BlockInv
    <3>4. /\ node' \in [Auction -> Record] /\ node'[a] = node[a]
          /\ \A b \in Auction \ {a} : node'[b] = node[b]
          /\ \A b \in Auction \ {a} : cached'[b] = cached[b]
      BY <1>0, <2>1, <3>1
    <3>5. QED
      BY <1>0, <2>1, <2>3, <3>1, <3>2, <3>3, <3>4, LandBlock
  <2>4. CASE faults["collector"] = 0 /\ cached[a] = node[a].stamp
    <3>1. UNCHANGED <<log, tail, cached>>
      BY <1>4, <2>4 DEF Subscribe
    <3>2. cached[a] = 0 /\ ~Last.block[a].known /\ node[a].type = "confirm"
      BY <2>1, <2>4 DEF BlockInv, SiteInv
    <3>3. Last' = Last /\ \A x : Sold(x)' = Sold(x)
      BY <3>1 DEF Last, Sold
    <3>4. QED
      BY <2>1, <2>4, <3>1, <3>2, <3>3 DEF BlockInv
  <2>5. QED
    BY <2>2, <2>3, <2>4
<1>5. CASE (\E a \in Auction : KilledMidWrite(a) \/ StreamDrops(a)) \/ CollectorKilled
  <2>1. Fault("collector")
    BY <1>5 DEF KilledMidWrite, StreamDrops, CollectorKilled
  <2>2. faults'["collector"] # 0
    BY <1>1, <2>1 DEF FaultKind
  <2>3. QED
    BY <2>2 DEF BlockInv
<1>6. CASE (\E a \in Auction : Scan(a)) \/ LoaderStep \/ CommitFails \/ LoaderKilled
             \/ StateDiscarded \/ UNCHANGED vars
  <2>1. UNCHANGED <<node, log, tail, followed, cached>>
    BY <1>6 DEF Scan, LoaderStep, LoaderStart, ReadWindow, ReadSeed, CommitWindow, CommitFails,
                WriteState, WriteOffset, LoaderKilled, StateDiscarded, vars, siteVars, zoneVars
  <2>2. faults'["collector"] = 0 => faults["collector"] = 0
    <3>1. UNCHANGED faults \/ \E kind \in FaultKind : Fault(kind)
      BY <1>6 DEF Scan, LoaderStep, LoaderStart, ReadWindow, ReadSeed, CommitWindow, CommitFails,
                  WriteState, WriteOffset, LoaderKilled, StateDiscarded, vars, FaultKind
    <3>2. QED
      BY <1>1, <3>1
  <2>3. QED
    BY <1>2, <2>1, <2>2
<1>7. QED
  BY <1>3, <1>4, <1>5, <1>6 DEF Next, CollectorNext

\* Every archived ladder ascends to the price of its sale, until a stream drops.
THEOREM LaddersAlwaysAscend ==
  ASSUME "stated" \notin CrashPoints
  PROVE  Spec => []LaddersAscend
<1>1. SafetyInv /\ ContentInv /\ ToldInv /\ BlockInv => LaddersAscend
  <2> SUFFICES ASSUME SafetyInv, ContentInv, ToldInv, BlockInv, NEW k \in DOMAIN archive,
                      archive[k] # NoSale, faults["collector"] = 0
               PROVE  Climbs(archive[k])
    BY DEF LaddersAscend, Climbs
  <2>1. k \in Pair
    BY DEF ContentInv, ContentTypeOK, Pair
  <2>2. PICK x \in 0 .. carried : archive[k] = Sold(x)[k]
    BY <2>1 DEF ToldInv
  <2>3. x \in 0 .. Len(log)
    BY DEF SafetyInv, PositionTypeOK, NothingSkipped
  <2>4. QED
    BY <2>1, <2>2, <2>3 DEF BlockInv
<1>2. SafetyInv => PositionTypeOK
  BY DEF SafetyInv
<1>3. QED
  BY <1>1, <1>2, ToldInit, ToldStep, FoldInit, FoldStep, SiteInit, SiteStep, BlockInit, BlockStep,
     RegistryInit, RegistryStep, OrderAlways, ContentAlways, SafetyAlways, AgreeAlways,
     PTL DEF Spec

-----------------------------------------------------------------------------
(* A sale is replaced only by a later one.                                 *)

\* What one more line does to what has been sold on a pair.
LEMMA LineSells ==
  ASSUME NEW lines \in Seq(Line), Orderly(lines), NEW n \in Nat, n + 1 <= Len(lines), NEW k \in Pair,
         Evening(lines)[n].sold[k] # NoSale
           => <<k[1], Evening(lines)[n].sold[k].closedAt>> \in Evening(lines)[n].seen
  PROVE  LET before == Evening(lines)[n].sold[k]
             after  == Evening(lines)[n + 1].sold[k]
         IN  /\ after # NoSale => <<k[1], after.closedAt>> \in Evening(lines)[n + 1].seen
             /\ before # NoSale /\ after # before
                  => after # NoSale /\ after.closedAt > before.closedAt
<1> DEFINE old == Evening(lines)[n]
           new == Evening(lines)[n + 1]
           r == lines[n + 1]
<1>1. n + 1 \in 1 .. Len(lines) /\ (n + 1) - 1 = n /\ n \in 0 .. Len(lines)
  OBVIOUS
<1>2. new = ReconstructLine(old, r) /\ r \in Line
  BY <1>1, EveningEquations
<1>3. old \in Telling
  BY <1>1, EveningType
<1>4. CASE new = old
  BY <1>4
<1>5. CASE r # Garbage /\ <<r.auction, r.stamp>> \notin old.seen
  <2>1. r \in Record
    BY <1>2, <1>5 DEF Line
  <2> DEFINE turn == old.block[r.auction]
             sale == ClosedSale(r, TellTurn(turn, r).ladder)
  <2>2. /\ new.seen = old.seen \cup {<<r.auction, r.stamp>>}
        /\ new.sold = IF ClosesSale(r)
                      THEN [old.sold EXCEPT ![<<r.auction, r.player>>] = sale] ELSE old.sold
    <3>1. new = ReconstructRecord(old, r)
      BY <1>2, <1>5 DEF ReconstructLine
    <3>2. ReconstructRecord(old, r) =
           [seen  |-> old.seen \cup {<<r.auction, r.stamp>>},
            block |-> [old.block EXCEPT ![r.auction] = TellTurn(turn, r)],
            sold  |-> IF ClosesSale(r)
                      THEN [old.sold EXCEPT ![<<r.auction, r.player>>] = sale]
                      ELSE old.sold]
      BY <1>3, <1>5, <2>1, ReconstructRecordByTurn
    <3> HIDE DEF old, new, turn, r, sale
    <3>3. QED
      BY <3>1, <3>2
  <2>3. DOMAIN old.sold = Pair
    BY <1>3 DEF Telling, Pair
  <2>4. CASE ~ClosesSale(r) \/ k # <<r.auction, r.player>>
    <3>1. new.sold[k] = old.sold[k]
      BY <2>2, <2>3, <2>4
    <3>2. QED
      BY <2>2, <3>1
  <2>5. CASE ClosesSale(r) /\ k = <<r.auction, r.player>>
    <3>1. new.sold[k] = sale
      BY <2>2, <2>3, <2>5
    <3>2. sale.closedAt = r.stamp
      BY DEF ClosedSale
    <3>3. sale # NoSale
      <4>1. TellTurn(turn, r).ladder \in Seq(Nat)
        <5>1. turn \in Turn /\ <<>> \in Seq(Nat)
          BY <1>3, <2>1 DEF Telling, Record
        <5>2. TellTurn(turn, r).ladder
                = LadderAfter(IF StartsNewTurn(r, turn) THEN <<>> ELSE turn.ladder, r)
          BY <2>1, <5>1, TellTurnFields
        <5>3. turn.ladder \in Seq(Nat)
          BY <5>1 DEF Turn
        <5> HIDE DEF turn
        <5>4. CASE StartsNewTurn(r, turn)
          BY <2>1, <5>1, <5>2, <5>4, LadderType
        <5>5. CASE ~StartsNewTurn(r, turn)
          BY <2>1, <5>2, <5>3, <5>5, LadderType
        <5>6. QED
          BY <5>4, <5>5
      <4>2. sale \in Sale
        BY <2>1, <2>5, <4>1 DEF ClosedSale, ClosesSale, Sale, Record
      <4>3. QED
        BY <4>2, DistinctAssumption
    <3>4. ASSUME old.sold[k] # NoSale PROVE r.stamp > old.sold[k].closedAt
      <4> DEFINE s == old.sold[k].closedAt
      <4>1. s \in Nat /\ <<k[1], s>> \in old.seen /\ k[1] = r.auction /\ r.auction \in Auction
        <5>1. old.sold[k] \in Sale
          BY <1>3, <2>5, <3>4 DEF Telling, Pair
        <5>2. QED
          BY <2>1, <2>5, <3>4, <5>1 DEF Sale, Record
      <4>2. PICK i \in 1 .. n : /\ lines[i] # Garbage /\ lines[i].auction = r.auction
                                /\ lines[i].stamp = s
        <5>1. Read(lines, n, r.auction, s)
          BY <1>1, <4>1, SeenIsRead
        <5>2. QED
          BY <5>1 DEF Read
      <4>3. Precedes(lines[i], r)
        BY <1>1, <4>2 DEF Orderly
      <4>4. lines[i] # r
        BY <1>5, <4>1, <4>2
      <4>5. s < r.stamp /\ r.stamp \in Nat
        BY <1>5, <2>1, <4>2, <4>3, <4>4 DEF Precedes, Record
      <4>6. QED
        BY <4>1, <4>5
    <3> HIDE DEF sale
    <3>5. QED
      BY <2>2, <2>5, <3>1, <3>2, <3>3, <3>4
  <2>6. QED
    BY <2>4, <2>5
<1>6. QED
  BY <1>2, <1>4, <1>5 DEF ReconstructLine, ReconstructRecord

LEMMA SoldWasSeen ==
  ASSUME NEW lines \in Seq(Line), Orderly(lines), NEW k \in Pair
  PROVE  \A n \in 0 .. Len(lines) :
           Evening(lines)[n].sold[k] # NoSale
             => <<k[1], Evening(lines)[n].sold[k].closedAt>> \in Evening(lines)[n].seen
<1> DEFINE Good(n) == Evening(lines)[n].sold[k] # NoSale
                        => <<k[1], Evening(lines)[n].sold[k].closedAt>> \in Evening(lines)[n].seen
           S == {n \in Nat : n <= Len(lines) => Good(n)}
<1>1. 0 \in S
  BY EveningEquations DEF Blank, EmptyArchive, Pair
<1>2. ASSUME NEW n \in Nat, n \in S PROVE n + 1 \in S
  BY <1>2, LineSells
<1>3. Nat \subseteq S
  <2> HIDE DEF S
  <2>1. QED
    BY <1>1, <1>2, SetInduction
<1>4. QED
  BY <1>3

\* Between two lines a pair's sale either stays or is replaced by a later one.
LEMMA SoldLater ==
  ASSUME NEW lines \in Seq(Line), Orderly(lines), NEW k \in Pair, NEW m \in 0 .. Len(lines),
         Evening(lines)[m].sold[k] # NoSale
  PROVE  \A n \in m .. Len(lines) :
           LET sale == Evening(lines)[n].sold[k]
           IN  /\ sale # NoSale
               /\ sale = Evening(lines)[m].sold[k] \/ sale.closedAt > Evening(lines)[m].sold[k].closedAt
<1> DEFINE At(n) == Evening(lines)[n].sold[k]
           Good(n) == At(n) # NoSale /\ (At(n) = At(m) \/ At(n).closedAt > At(m).closedAt)
           S == {i \in Nat : m + i <= Len(lines) => Good(m + i)}
<1>1. 0 \in S
  OBVIOUS
<1>2. ASSUME NEW i \in Nat, i \in S PROVE i + 1 \in S
  <2>1. SUFFICES ASSUME m + (i + 1) <= Len(lines) PROVE Good(m + (i + 1))
    OBVIOUS
  <2>2. Good(m + i) /\ m + i \in Nat /\ (m + i) + 1 <= Len(lines) /\ m + (i + 1) = (m + i) + 1
        /\ m + i \in 0 .. Len(lines) /\ (m + i) + 1 \in 0 .. Len(lines) /\ m + 0 = m
    BY <1>2, <2>1
  <2>3. At(m + i) # NoSale => <<k[1], At(m + i).closedAt>> \in Evening(lines)[m + i].seen
    BY <2>2, SoldWasSeen
  <2>4. At(m + i) # NoSale /\ At((m + i) + 1) # At(m + i)
          => At((m + i) + 1) # NoSale /\ At((m + i) + 1).closedAt > At(m + i).closedAt
    BY <2>2, <2>3, LineSells
  <2>5. \A n \in 0 .. Len(lines) : At(n) # NoSale => At(n).closedAt \in Nat
    <3>1. \A n \in 0 .. Len(lines) : At(n) \in Sale \cup {NoSale}
      BY EveningType DEF Telling, Pair
    <3>2. QED
      BY <3>1 DEF Sale
  <2> HIDE DEF At
  <2>6. CASE At((m + i) + 1) = At(m + i)
    BY <2>2, <2>6
  <2>7. CASE At((m + i) + 1) # At(m + i)
    <3>1. At((m + i) + 1) # NoSale /\ At((m + i) + 1).closedAt > At(m + i).closedAt
      BY <2>2, <2>4, <2>7
    <3>2. /\ At((m + i) + 1).closedAt \in Nat /\ At(m + i).closedAt \in Nat
          /\ At(m).closedAt \in Nat
      BY <2>2, <2>5, <3>1 DEF At
    <3>3. QED
      BY <2>2, <3>1, <3>2
  <2>8. QED
    BY <2>6, <2>7
<1>3. Nat \subseteq S
  <2> HIDE DEF S
  <2>1. QED
    BY <1>1, <1>2, SetInduction
<1>4. ASSUME NEW n \in m .. Len(lines) PROVE Good(n)
  <2>1. n - m \in Nat /\ m + (n - m) = n /\ n <= Len(lines)
    OBVIOUS
  <2>2. n - m \in S
    BY <1>3, <2>1
  <2>3. QED
    BY <2>1, <2>2
<1>5. QED
  BY <1>4

\* Without a kill between the two checkpoint writes and without a refold, what
\* is read again is absorbed: only a later close of the pair replaces a sale.
THEOREM ReplayIsAbsorbed ==
  ASSUME "stated" \notin CrashPoints, MaxSeedFailures = 0, MaxUpgrades = 0
  PROVE  Spec => ReplayAbsorbed
<1> DEFINE Absorbed == \A k \in DOMAIN archive :
             archive[k] # NoSale /\ archive'[k] # archive[k]
               => archive'[k] # NoSale /\ archive'[k].closedAt > archive[k].closedAt
<1>1. SafetyInv /\ ContentInv /\ OrderInv /\ AgreeInv /\ FoldInv /\ SeedInv /\ ExactInv /\ [Next]_vars
        => [Absorbed]_vars
  <2> SUFFICES ASSUME SafetyInv, ContentInv, OrderInv, AgreeInv, FoldInv, SeedInv, ExactInv,
                      [Next]_vars, NEW k \in DOMAIN archive, archive[k] # NoSale,
                      archive'[k] # archive[k]
               PROVE  archive'[k] # NoSale /\ archive'[k].closedAt > archive[k].closedAt
    OBVIOUS
  <2>1. CASE CommitWindow
    <3>1. archive' = Sold(winEnd) /\ archive = Sold(carried)
      BY <2>1, CommitIsExact DEF ExactInv
    <3>2. /\ log \in Seq(Line) /\ Orderly(log) /\ k \in Pair /\ carried \in 0 .. Len(log)
          /\ winEnd \in carried .. Len(log)
      BY <2>1 DEF SafetyInv, PositionTypeOK, NothingSkipped, WindowInv, OrderInv, ContentInv,
                  ContentTypeOK, Pair, ExactInv, CommitWindow
    <3>3. QED
      BY <3>1, <3>2, SoldLater DEF Sold
  <2>2. CASE CollectorNext \/ CollectorKilled
    BY <2>2, CollectorStep DEF SafetyInv, dbVars
  <2>3. CASE LoaderStart \/ ReadWindow \/ ReadSeed \/ CommitFails \/ WriteState \/ WriteOffset
               \/ LoaderKilled \/ StateDiscarded \/ UNCHANGED vars
    BY <2>3 DEF LoaderStart, ReadWindow, ReadSeed, CommitFails, WriteState, WriteOffset,
                LoaderKilled, StateDiscarded, vars, dbVars
  <2>4. QED
    BY <2>1, <2>2, <2>3 DEF Next, LoaderStep
<1>2. QED
  BY <1>1, ExactInit, ExactStep, FoldInit, FoldStep, OrderAlways, ContentAlways, SafetyAlways,
     AgreeAlways, SeedAlways, PTL DEF Spec, ReplayAbsorbed

=============================================================================
