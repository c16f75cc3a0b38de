---------------------------- MODULE HarvestLoader ----------------------------
(***************************************************************************)
(* The harvest pipeline: auction nodes on the site, the collector that     *)
(* appends their states to a landing zone on disk, and the loader that     *)
(* carries the landing zone into Postgres, window by window, resuming from *)
(* two checkpoint files after any kill.                                    *)
(*                                                                         *)
(* A byte offset is a count of complete lines, so a window of W bytes is a *)
(* window of Window lines; the unfinished last line is `tail`.             *)
(***************************************************************************)
EXTENDS HarvestFold

CONSTANTS
  Window,          \* lines one pass of the loader reads at most
  OneShot,         \* whether the operator also runs the loader without --follow
  CrashPoints,     \* program points of the loader at which it may be killed
  StartPrice,      \* the price of a first call
  MaxPrice,        \* bound: the highest price a raise reaches
  MaxWrites,       \* bound: writes to the auction nodes
  MaxKills,        \* bound: kills of the loader
  MaxOutages,      \* bound: passes that fail on the database
  MaxCollectorFaults, \* bound: kills and dropped streams of the collector
  MaxSeedFailures, \* bound: reads of the seed by the loader that fail
  MaxUpgrades,     \* bound: times the reducer-state file stops being readable
  Clean,           \* the landing zone ends on a newline
  NoState,         \* there is no usable reducer-state file
  Follow           \* the target of a run that has none (--follow)

LoaderPoint == {"idle", "read", "seeded", "committed", "stated"}

ASSUME WindowAssumption == Window \in Nat \ {0}
ASSUME BoundsAssumption ==
  /\ OneShot \in BOOLEAN
  /\ {StartPrice, MaxPrice, MaxWrites, MaxKills, MaxOutages,
      MaxCollectorFaults, MaxSeedFailures, MaxUpgrades} \subseteq Nat
  /\ CrashPoints \subseteq LoaderPoint
ASSUME NoStateAssumption == NoState \notin [Auction -> Slot]
ASSUME CleanAssumption == Clean \notin Line

VARIABLES
  \* the site
  node,        \* auction -> the state its node holds
  clock,       \* stamp of the last write to any node
  \* the registry file and the collector process
  seed,        \* auctions the seed file names
  followed,    \* auctions with an open stream
  cached,      \* auction -> stamp of the state its watcher last passed on
  \* the landing zone
  log,         \* its complete lines
  tail,        \* Clean, or the unterminated line it ends with
  \* the loader process: its program point and memory
  lpc,         \* "down" or a LoaderPoint
  target,      \* Follow, or the size a one-shot run must reach
  fold,        \* the reducer state bound in memory
  seedRows,    \* auctions of the last seed it read
  winEnd,      \* where the window being carried ends
  \* the checkpoint files
  offsetFile,  \* lines already read
  stateFile,   \* reducer state, or NoState
  \* Postgres
  events,      \* asta_event: unique on (auction, last_update)
  archive,     \* asta_assignment: (auction, player) -> sale
  \* history
  carried,     \* lines the archive has been given, ever
  foldPos,     \* the last line `fold` has folded
  statePos,    \* the last line the state last written had folded
  faults       \* faults so far, by kind

siteVars   == <<node, clock>>
zoneVars   == <<seed, followed, cached, log, tail>>
fileVars   == <<offsetFile, stateFile, statePos>>
dbVars     == <<events, archive, carried>>
loaderVars == <<lpc, target, fold, seedRows, winEnd, foldPos>>
vars == <<siteVars, zoneVars, fileVars, dbVars, loaderVars, faults>>

FaultKind == {"kill", "outage", "collector", "seed", "upgrade"}

FaultBound == [kill |-> MaxKills, outage |-> MaxOutages,
               collector |-> MaxCollectorFaults, seed |-> MaxSeedFailures, upgrade |-> MaxUpgrades]

Fault(kind) ==
  /\ faults[kind] < FaultBound[kind]
  /\ faults' = [faults EXCEPT ![kind] = @ + 1]

EmptyNode(a) == [auction |-> a, type |-> "confirm", player |-> NoPlayer,
                 price |-> NoPrice, stamp |-> 0]

-----------------------------------------------------------------------------
(* The site: one mutable node per auction.                                 *)


\* What an admin and the bidders may do to a node in each state.
Follows ==
  [confirm       |-> {"first_call"},
   reset         |-> {"first_call"},
   first_call    |-> {"raise", "close_auction", "reset"},
   raise         |-> {"raise", "close_auction", "reset"},
   reopen        |-> {"raise", "close_auction", "reset"},
   close_auction |-> {"reopen", "confirm", "reset"}]

\* The states node n can be written to, stamped s.
Successors(n, s) ==
  {m \in [auction : {n.auction}, type : Follows[n.type], player : Player \cup {NoPlayer},
          price : (StartPrice .. MaxPrice) \cup {NoPrice}, stamp : {s}] :
     CASE m.type = "first_call"           -> m.player # NoPlayer /\ m.price = StartPrice
       [] m.type = "raise"                -> m.player = n.player /\ m.price = n.price + 1
       [] m.type \in {"confirm", "reset"} -> m.player = NoPlayer /\ m.price = NoPrice
       [] OTHER                           -> m.player = n.player /\ m.price = n.price}

-----------------------------------------------------------------------------
(* The collector.                                                          *)

\* Mutant of Land: r is written behind a torn tail, and the reader drops the fused line.
LandFused(r) ==
  /\ log' = Append(log, IF tail = Clean THEN r ELSE Garbage)
  /\ tail' = Clean

\* LandingZone.write: a torn tail is closed first, so it cannot swallow r.
Land(r) ==
  /\ log' = log \o (IF tail = Clean THEN <<r>> ELSE <<tail, r>>)
  /\ tail' = Clean

\* A node is written; a watcher following it lands the new state.
NodeWrite(a) ==
  /\ clock < MaxWrites
  /\ clock' = clock + 1
  /\ \E m \in Successors(node[a], clock + 1) :
        /\ node' = [node EXCEPT ![a] = m]
        /\ IF a \in followed
           THEN Land(m) /\ cached' = [cached EXCEPT ![a] = m.stamp]
           ELSE UNCHANGED <<log, tail, cached>>
  /\ UNCHANGED <<seed, followed, fileVars, dbVars, loaderVars, faults>>

\* A write cut short: the newline that closes a torn tail may be all that got out.
TornLand(r) ==
  /\ log' = IF tail = Clean THEN log ELSE Append(log, tail)
  /\ tail' \in {Garbage, r} \cup ({Clean} \ {tail})

\* The collector is killed while it writes a state down: one just written to a
\* followed node, or the one a stream it opens delivers.
KilledMidWrite(a) ==
  /\ Fault("collector")
  /\ \/ /\ a \in followed
        /\ clock < MaxWrites
        /\ clock' = clock + 1
        /\ \E m \in Successors(node[a], clock + 1) :
              node' = [node EXCEPT ![a] = m] /\ TornLand(m)
     \/ /\ a \in seed \ followed
        /\ cached[a] # node[a].stamp
        /\ TornLand(node[a])
        /\ UNCHANGED siteVars
  /\ followed' = {}
  /\ cached' = [b \in Auction |-> 0]
  /\ UNCHANGED <<seed, fileVars, dbVars, loaderVars>>

\* A stream opens or reopens: the node's state arrives whole, and is passed
\* on unless it is the one this watcher passed on last.
Subscribe(a) ==
  /\ a \in seed \ followed
  /\ followed' = followed \cup {a}
  /\ IF cached[a] # node[a].stamp
     THEN Land(node[a]) /\ cached' = [cached EXCEPT ![a] = node[a].stamp]
     ELSE UNCHANGED <<log, tail, cached>>
  /\ UNCHANGED <<siteVars, seed, fileVars, dbVars, loaderVars, faults>>

StreamDrops(a) ==
  /\ Fault("collector")
  /\ a \in followed
  /\ followed' = followed \ {a}
  /\ UNCHANGED <<siteVars, seed, cached, log, tail, fileVars, dbVars, loaderVars>>

CollectorKilled ==
  /\ Fault("collector")
  /\ \E a \in Auction : cached[a] # 0
  /\ followed' = {}
  /\ cached' = [a \in Auction |-> 0]
  /\ UNCHANGED <<siteVars, seed, log, tail, fileVars, dbVars, loaderVars>>

\* A scan merges newly live auctions into the seed; nothing is ever removed.
Scan(a) ==
  /\ a \notin seed
  /\ seed' = seed \cup {a}
  /\ UNCHANGED <<siteVars, followed, cached, log, tail, fileVars, dbVars, loaderVars, faults>>

-----------------------------------------------------------------------------
(* The loader (interface/harvest.py::aste_load).                           *)

\* Mutants of LoaderStart: a missing state binds nothing; the offset stays.
LoaderStartBindsNone ==
  /\ lpc = "down"
  /\ lpc' = "idle"
  /\ target' = Follow
  /\ fold' = stateFile /\ foldPos' = statePos /\ UNCHANGED <<statePos, offsetFile>>
  /\ seedRows' = {}
  /\ winEnd' = 0
  /\ UNCHANGED <<siteVars, zoneVars, stateFile, dbVars, faults>>

LoaderStartKeepsOffset ==
  /\ lpc = "down"
  /\ lpc' = "idle"
  /\ target' = Follow
  /\ IF stateFile = NoState
     THEN fold' = EmptyFold /\ foldPos' = 0 /\ statePos' = 0
     ELSE fold' = stateFile /\ foldPos' = statePos /\ UNCHANGED statePos
  /\ UNCHANGED offsetFile
  /\ seedRows' = {}
  /\ winEnd' = 0
  /\ UNCHANGED <<siteVars, zoneVars, stateFile, dbVars, faults>>

\* st_size counts the unfinished line too.
ZoneSize == Len(log) + (IF tail = Clean THEN 0 ELSE 1)

\* Without a usable state file the offset goes back to zero with it.  That the offset file
\* alone is lost is left out: it leaves the position of a kill between the two writes.
LoaderStart ==
  /\ lpc = "down"
  /\ lpc' = "idle"
  /\ target' \in {Follow} \cup (IF OneShot THEN {ZoneSize} ELSE {})
  /\ IF stateFile = NoState
     THEN fold' = EmptyFold /\ foldPos' = 0 /\ statePos' = 0 /\ offsetFile' = 0
     ELSE fold' = stateFile /\ foldPos' = statePos /\ UNCHANGED <<statePos, offsetFile>>
  /\ seedRows' = {}
  /\ winEnd' = 0
  /\ UNCHANGED <<siteVars, zoneVars, stateFile, dbVars, faults>>

Smaller(m, n) == IF m < n THEN m ELSE n

\* Mutant of WindowEnd: only a full window is read.
WholeWindowEnd ==
  IF offsetFile + Window <= Len(log) THEN offsetFile + Window ELSE offsetFile

\* Where the window that starts at the stored offset ends.
WindowEnd == Smaller(offsetFile + Window, Len(log))

\* A window with no record in it is a pass that carries nothing.
HasRecord(from, to) == \E i \in from + 1 .. to : log[i] # Garbage

\* Mutant of ReadWindow: the offset moves when the window is read.
ReadWindowMovesOffset ==
  /\ lpc = "idle"
  /\ IF HasRecord(offsetFile, WindowEnd)
     THEN lpc' = "read" /\ winEnd' = WindowEnd /\ offsetFile' = WindowEnd
     ELSE target # Follow /\ lpc' = "down" /\ UNCHANGED <<winEnd, offsetFile>>
  /\ UNCHANGED <<siteVars, zoneVars, stateFile, statePos, dbVars, target, fold, seedRows,
                 foldPos, faults>>

ReadWindow ==
  /\ lpc = "idle"
  /\ IF HasRecord(offsetFile, WindowEnd)
     THEN lpc' = "read" /\ winEnd' = WindowEnd
     ELSE target # Follow /\ lpc' = "down" /\ UNCHANGED winEnd
  /\ UNCHANGED <<siteVars, zoneVars, fileVars, dbVars, target, fold, seedRows, foldPos, faults>>

\* Mutant of ReadSeed: read once, by the first pass of a run.
ReadSeedOnce ==
  /\ lpc = "read"
  /\ lpc' = "seeded"
  /\ seedRows' = IF seedRows = {} THEN seed ELSE seedRows
  /\ UNCHANGED <<siteVars, zoneVars, fileVars, dbVars, target, fold, winEnd, foldPos, faults>>

\* The seed is re-read every pass, after the window; the last good rows stand in.
ReadSeed ==
  /\ lpc = "read"
  /\ lpc' = "seeded"
  /\ \/ seedRows' = seed /\ UNCHANGED faults
     \/ Fault("seed") /\ UNCHANGED seedRows
  /\ UNCHANGED <<siteVars, zoneVars, fileVars, dbVars, target, fold, winEnd, foldPos>>

Pass == Advance(fold, SubSeq(log, offsetFile + 1, winEnd))

\* One transaction: the auctions, the window's events, the sales it closed.
CommitWindow ==
  /\ lpc = "seeded"
  /\ lpc' = "committed"
  /\ events' = events \cup
       {<<log[i].auction, log[i].stamp>> :
          i \in {j \in offsetFile + 1 .. winEnd :
                   log[j] # Garbage /\ log[j].auction \in seedRows}}
  /\ archive' = Drain(archive, Pass.closed, seedRows)
  /\ carried' = IF winEnd > carried THEN winEnd ELSE carried
  /\ UNCHANGED <<siteVars, zoneVars, fileVars, target, fold, seedRows, winEnd, foldPos, faults>>

\* The database is unreachable (a follower retries the window on its next
\* pass) or refuses the write (the loader exits); nothing was committed.
CommitFails ==
  /\ lpc = "seeded"
  /\ Fault("outage")
  /\ lpc' \in {"down"} \cup (IF target = Follow THEN {"idle"} ELSE {})
  /\ UNCHANGED <<siteVars, zoneVars, fileVars, dbVars, target, fold, seedRows, winEnd, foldPos>>

WriteState ==
  /\ lpc = "committed"
  /\ lpc' = "stated"
  /\ stateFile' = Pass.fold
  /\ statePos' = winEnd
  /\ UNCHANGED <<siteVars, zoneVars, offsetFile, dbVars, target, fold, seedRows, winEnd, foldPos, faults>>

\* Mutants of WriteOffset: the new state is not bound; a one-shot run makes one
\* pass.
WriteOffsetUnbound ==
  /\ lpc = "stated"
  /\ offsetFile' = winEnd
  /\ lpc' = IF target # Follow /\ winEnd >= target THEN "down" ELSE "idle"
  /\ UNCHANGED <<siteVars, zoneVars, stateFile, statePos, dbVars, target, fold, foldPos,
                 seedRows, winEnd, faults>>

WriteOffsetOnePass ==
  /\ lpc = "stated"
  /\ offsetFile' = winEnd
  /\ fold' = stateFile
  /\ foldPos' = statePos
  /\ lpc' = IF target # Follow THEN "down" ELSE "idle"
  /\ UNCHANGED <<siteVars, zoneVars, stateFile, statePos, dbVars, target, seedRows, winEnd, faults>>

\* The offset moves, the new state is bound, and a one-shot run that has
\* reached its target returns.
WriteOffset ==
  /\ lpc = "stated"
  /\ offsetFile' = winEnd
  /\ fold' = stateFile
  /\ foldPos' = statePos
  /\ lpc' = IF target # Follow /\ winEnd >= target THEN "down" ELSE "idle"
  /\ UNCHANGED <<siteVars, zoneVars, stateFile, statePos, dbVars, target, seedRows, winEnd, faults>>

\* Killed, or stopped between passes: the process forgets, the disk does not.
LoaderKilled ==
  /\ Fault("kill")
  /\ lpc \in CrashPoints
  /\ lpc' = "down"
  /\ UNCHANGED <<siteVars, zoneVars, fileVars, dbVars, target, fold, seedRows, winEnd, foldPos>>

\* The state file stops being readable between runs: the fold's schema version
\* was bumped by an upgrade, or the file was lost.
StateDiscarded ==
  /\ Fault("upgrade")
  /\ lpc = "down"
  /\ stateFile' = NoState
  /\ UNCHANGED <<siteVars, zoneVars, offsetFile, statePos, dbVars, loaderVars>>

-----------------------------------------------------------------------------
Init ==
  /\ node = [a \in Auction |-> EmptyNode(a)]
  /\ clock = 0
  /\ seed = {}
  /\ followed = {}
  /\ cached = [a \in Auction |-> 0]
  /\ log = <<>>
  /\ tail = Clean
  /\ lpc = "down"
  /\ target = Follow
  /\ fold = EmptyFold
  /\ seedRows = {}
  /\ winEnd = 0
  /\ offsetFile = 0
  /\ stateFile = NoState
  /\ events = {}
  /\ archive = EmptyArchive
  /\ carried = 0
  /\ foldPos = 0
  /\ statePos = 0
  /\ faults = [k \in FaultKind |-> 0]

CollectorNext ==
  \E a \in Auction : NodeWrite(a) \/ KilledMidWrite(a) \/ Subscribe(a) \/ StreamDrops(a) \/ Scan(a)

LoaderStep ==
  LoaderStart \/ ReadWindow \/ ReadSeed \/ CommitWindow \/ WriteState \/ WriteOffset

Next == CollectorNext \/ CollectorKilled \/ LoaderStep \/ CommitFails \/ LoaderKilled \/ StateDiscarded

Spec == Init /\ [][Next]_vars

\* The loader keeps running and an operator restarts it; faults are finite.
FairSpec == Spec /\ WF_vars(LoaderStep)

-----------------------------------------------------------------------------
(* Properties.                                                             *)

\* The site, the files' positions and the program points are well formed.
PositionTypeOK ==
  /\ node \in [Auction -> Record] /\ clock \in Nat
  /\ seed \subseteq Auction /\ followed \subseteq Auction
  /\ cached \in [Auction -> Nat]
  /\ log \in Seq(Line) /\ tail \in Line \cup {Clean}
  /\ lpc \in LoaderPoint \cup {"down"}
  /\ seedRows \subseteq Auction
  /\ winEnd \in Nat /\ offsetFile \in Nat /\ carried \in Nat
  /\ foldPos \in Nat /\ statePos \in Nat
  /\ faults \in [FaultKind -> Nat]

\* So is what the fold, the state file and Postgres hold.
ContentTypeOK ==
  /\ target \in Nat \cup {Follow}
  /\ fold \in [Auction -> Slot] /\ stateFile \in [Auction -> Slot] \cup {NoState}
  /\ events \subseteq Auction \X Nat
  /\ archive \in [Auction \X Player -> Sale \cup {NoSale}]

\* Every variable holds a value of its kind: in particular the reducer state
\* read back from disk is a reducer state, and every archived row is a sale.
TypeOK == PositionTypeOK /\ ContentTypeOK

\* The loader never skips a line: nothing the stored offset or the stored
\* reducer state has put behind it is missing from Postgres, whatever point
\* the loader was killed at and whatever the database refused (pass_once's
\* "the write commits, then the two checkpoints move").
NothingSkipped ==
  /\ offsetFile <= carried
  /\ statePos <= carried
  /\ carried <= Len(log)

\* A pass folds the window onto a state that ends where the window begins
\* (FoldCheckpoint: "both describe the same position in the same file").
\* Killing the loader between the two checkpoint writes is what breaks it.
PositionsAgree == lpc \in LoaderPoint => foldPos = offsetFile

\* Once the loader has caught up, the archive is exactly what one reading of
\* the landing zone reconstructs: a state file that was discarded costs a
\* refold from the first line, never a sale (FoldCheckpoint.read: "re-fold from
\* the beginning", with the offset reset along with it).
CaughtUpIsExact == lpc = "idle" /\ offsetFile = Len(log) => archive = Reconstruct(log)

\* A line the loader has carried has its event row: a window is never filtered
\* against a seed older than the auctions it holds (SeedRows: the re-read
\* exists so that the loader does not discard and advance past new auctions).
CarriedLinesHaveEvents ==
  \A i \in 1 .. carried : log[i] # Garbage => <<log[i].auction, log[i].stamp>> \in events

\* What a watcher will not pass on again is on disk as a line of its own: the stamps it
\* drops repeats by never run ahead of the landing zone, through drops, kills and the torn
\* line a killed run leaves for the next one's first write (LandingZone.write: "durable
\* when it returns", "one lost observation becomes two").
PassedOnIsLanded ==
  \A a \in Auction : cached[a] # 0 =>
    \E i \in 1 .. Len(log) :
      log[i] # Garbage /\ log[i].auction = a /\ log[i].stamp = cached[a]

Ascending(ladder) == \A i \in 1 .. Len(ladder) - 1 : ladder[i] < ladder[i + 1]

\* As long as no stream drops, no archived ladder steps down or repeats a rung,
\* and each ends on the price the sale closed at: a window that is retried never
\* appends its rungs twice and two turns of one player are never spliced
\* (incremental.FoldState: "a ladder that steps downwards").
LaddersAscend ==
  \A k \in DOMAIN archive :
    archive[k] # NoSale /\ faults["collector"] = 0 =>
      /\ Ascending(archive[k].ladder)
      /\ archive[k].ladder # <<>>
      /\ archive[k].ladder[Len(archive[k].ladder)] = archive[k].price

\* A sale that is archived is not rewritten by reading it again: only a later
\* close of the same pair replaces it (pass_once: records re-read after a kill
\* "are absorbed by the fold's stamp guard and the upserts").
ReplayAbsorbed ==
  [][\A k \in DOMAIN archive :
       archive[k] # NoSale /\ archive'[k] # archive[k]
         => archive'[k] # NoSale /\ archive'[k].closedAt > archive[k].closedAt]_vars

\* Postgres keeps catching up with the landing zone, through outages, kills
\* and restarts: an outage costs time, never a record (aste_load's docstring).
\* The site stops being written in the model, so catching up is reachable.
EveryLineCarried == []<>~HasRecord(carried, Len(log))

\* A one-shot load that returns of its own accord has left behind no record the
\* landing zone held when it started, however its windows fall on the lines, the torn ones
\* among them, and though its target may count a line that is still unfinished.
OneShotCarriesBacklog ==
  [][(/\ lpc # "down" /\ lpc' = "down"
      /\ target # Follow /\ faults' = faults)
         => ~HasRecord(offsetFile', Smaller(target, Len(log)))]_vars

\* With every fault but a kill between the two checkpoint writes, the archive
\* is at every moment the one-reading reconstruction of a growing prefix.
Archive == INSTANCE SaleArchive WITH log <- log, carried <- carried, archive <- archive
ArchiveIsReconstruction == Archive!Spec

=============================================================================
