# A verification project for fantabot

fantabot plays Italian fantasy football (fantacalcio) for its owner. It harvests live
auctions into Postgres, bids in a live auction room, plans and submits the weekly lineup,
scrapes news, and is driven either from a CLI or from a local web app that runs the CLI's
commands as child processes. This directory holds TLA+ models of the parts whose correctness
depends on order, failure and restart, TLC configurations that check them, and proofs checked
by TLAPS.

Paths below are relative to `src/src/fantabot/` unless they start with `app/` (for
`src/app/fantabot_app/`).

## 1. Inventory

| Component | State | Operations | Hard behaviour |
|---|---|---|---|
| Harvest fold: `domain/harvest/{turn,incremental,reconstruct}.py` | player on the block, ladder, stamps seen, per auction | `advance` a window, `drain` its sales, `reconstruct` a whole file | a sale spans windows; annulled and re-called players; re-sent states |
| Harvest collector: `adapters/http/harvest/`, `adapters/files/landing.py` | one open stream per auction, the watcher's last state, the landing zone, the seed file | scan, subscribe, land a state, drop and reopen a stream | a dropped stream loses history; a kill tears a line |
| Harvest loader: `interface/harvest.py::aste_load`, `application/harvest_loader.py` | fold bound in memory, offset file, reducer-state file, seed rows, events and sales in Postgres | read a window, re-read the seed, commit, move two checkpoints, retry, return | a kill at any point, an outage, a stale seed, a discarded state file |
| Harvest supervisor: `application/harvest_supervisor.py` | one asyncio watcher per auction, a pool of permits, attempts, the report | adopt, watch, retry, give up, reap, race a stop, tear down | a failure hidden in a finished task; a stop and a failure in one turn of the loop; permits that leak |
| Live bidder: `domain/asta/{bid,live,reservation}.py`, `application/{asta_room,asta_session}.py`, `adapters/http/fantalab/{room,rtdb}.py` | last lot and frame, bargain provenance, uuid bridge | poll: read lot, read ledger, price, decide, write a raise | lot and ledger are read at different moments; late raises; rivals and the admin interleave; money |
| Arming and stop gesture: `adapters/files/stopflag.py`, `application/{arming,asta_session}.py`, `interface/asta.py` | the stop-flag file, the armed flag, two snapshots of it, pending signals | request a stop, disarm, leave, clear, gate a raise | one click travels as a file and as a signal; two clicks at once; two platforms |
| App jobs and processes: `app/api/infrastructure/{jobs,processes}.py`, `app/api/v1/endpoints/room_bid.py` | job registry, threads, child processes | start, clear, spawn, stop, grace, kill, reap | double start; restart of the app; a stop that meets no process yet |
| Lineup refresh: `application/lineup_refresh.py`, `domain/lineup/refresh.py`, `adapters/files/refresh_marker.py`, `adapters/process.py` | the voti rows, the calendar copy, the marker file | read inputs, run the sources owed, record each success | a wall that kills; overlapping refreshes; what is owed depends on what another source reads |
| Lineup submit: `application/lineup_submit.py`, `application/lineup_projection.py`, `domain/lineup/deadline.py` | plan, status read, rows read, the record of the run | build, check the start, project, post module by module, read back, record | minutes pass between a read and its use; the platform's status and lineup move apart |
| Automatic substitutions: `domain/lineup/substitution.py` | place in the search, cheapest found | try bench combinations by tier and module, one fewer when nothing fits | an early exit that must not miss a cheaper eleven |
| Roster arithmetic, optimiser, asta advice: `domain/asta/`, `application/asta_*.py` | none | value, price, solve a rosa | heuristics over floats |
| Lineup numbers: `domain/lineup/{projection,simulate,bench_mc,scoring}.py` | none | statistics, Monte Carlo | data, not order |
| News, authentication, lega and scraping commands, app start-up and scheduler, frontend | rows, tokens, screen state | read, store, draw | sequential, or presentation |

How they interact. The collector and the loader share two files: the landing zone (append
against offset reads) and the seed (atomic rename against re-reads). The bidder shares
FantaLab's nodes with every rival and the admin, and its stop flag with the app, which starts
it and signals it. The supervisor runs the collector's watchers. The lineup job runs the
submit and then a refresh child; the refresh's rows and marker are what the next submit
decides on. All of them share Postgres.

What makes each correct: no line of the landing zone is skipped and every sale is archived as
one uninterrupted reading would have it (harvest); the report is true, no failure is swallowed,
nobody is passed over (supervisor); no raise above a price the plan accepts, none that leaves
the rosa uncompletable, none that jumps a price (bidder); one click disarms, two leave,
nothing is raised after a stop (gesture); a success on record vouches for the rows it is
about (refresh); nothing is sent for a matchday that has started, and the record says what was
sent (submit); the best legal eleven takes the field (substitutions).

## 2. Modules

| Module | What it is |
|---|---|
| `HarvestFold` | the fold as pure operators: one record, a window (`Advance`), the upsert of its sales (`Drain`), the one-reading reference (`Reconstruct`) |
| `SaleArchive` | abstract: a log that grows, an archive that is the reconstruction of a growing prefix |
| `HarvestLoader` | site, collector, landing zone, seed, loader, checkpoint files, Postgres; refines `SaleArchive` |
| `HarvestSupervisor` | `Supervisor.run` between its awaits, inside `asyncio.run` |
| `BidRules` | the arithmetic of one raise: the cap, the bargain allowance, the ceiling scan |
| `AstaRoom` | the live room and one bidder process polling it; extends `BidRules` |
| `TwoStageStop` | abstract: one request disarms, a second one ends |
| `StopGesture` | the app's registry and threads, the flag file, the child and its two ways of hearing a stop; refines `TwoStageStop` |
| `LineupPlatform` | what the lineup job sees of the platform: `mday`, `cmday`, kickoff, calculated rounds |
| `VotiLedger` | abstract: which rows a recorded success may vouch for |
| `LineupRefresh` | the hourly job's child, an orphan and the operator's own refresh on one marker; extends `LineupPlatform`, refines `VotiLedger` |
| `LineupSubmit` | the unattended submit; extends `LineupPlatform`, and its rows and marker change by the actions of `VotiLedger` |
| `Substitution` | the search of `substitute` |
| `..._proofs` | theorems about the module of that name (`LedgerVouches` is in `VotiLedger` itself) |
| `MC...` | instances for TLC; a module whose constants need none is checked directly |

`VotiLedger` is the interface between the two lineup modules: `LineupRefresh` is shown to keep
it, `LineupSubmit` assumes no more than it. So neither needs the other's state space.

Operators that a comment calls a *mutant* of their neighbour are plausible bugs. Each property
of a passing run is known to fail when the neighbour is replaced by one of them.

### 2.1 The harvest

| Model | Code |
|---|---|
| `NodeWrite`, `Successors` | what an admin and bidders write to an auction node (external) |
| `Subscribe`, `StreamDrops`, `KilledMidWrite`, `CollectorKilled` | `stream.py::watch_auction`, `landing.py::LandingZone.write`, `aste_collect` |
| `Scan` | `aste_scan`: merges live auctions into the seed, removes none |
| `LoaderStart`, `ReadWindow`, `ReadSeed`, `CommitWindow` / `CommitFails`, `WriteState`, `WriteOffset`, `LoaderKilled` | `aste_load` and its `pass_once`, in the order of the code, each step a point where the process may be killed |
| `StateDiscarded` | a state file that `FoldCheckpoint.read` refuses |
| `offsetFile`, `stateFile`, `events`, `archive` | `Checkpoint`, `FoldCheckpoint`, `asta_event`, `asta_assignment` |
| `carried`, `foldPos`, `statePos` | history: how far Postgres, the bound fold and the state file have got |
| `HarvestSupervisor`: `Enqueue`, `Acquire`, `WatchEnded`, `WatchFailed`, `SinkFails`, `Cancelled` | `supervise`, one auction's task |
| `ReapRaises`, `ReloadAdopts`, `ReloadFails`, `GatherFails`, `GatherEnds`, `FollowCancelled` | `follow`, with and without `reload` |
| `WorkWins`, `StopWins`, `WorkSettles`, `Settle`, `Interrupt`, `CloseLoop`, `Exit` | `run`, the SIGINT, and what `asyncio.run` does with the tasks left |

A byte offset is a count of complete lines, a price a number of credits from the call price
up, a stamp the number of the write.

### 2.2 The live bidder and its stop

| Model | Code |
|---|---|
| `Call`, `BrowserRaise`, `CloseLot`, `Reopen`, `Confirm`, `PassStood`, `Annul`, `Undo`, `Settle` | what the admin and the other seats do (external: `docs/fantalab/`) |
| `Accepts`, `RaiseArrives`, `RaiseLost` | the rules of the lot node, and a PATCH applied, refused or lost at any later time |
| `ReadLot`, `Frame`, `Hold`, `PollFails` | `LotRouter.read_lot`; `RoomTracker.cycle`: ledger folded whole, lot priced, guards tried, provenance recorded |
| `Decide`, `Answered`, `TimesOut` | `run_bid_loop` trying the guards again and sending; the end of the PATCH for the client |
| `SeenOwned`, `SeenPrice`, `SeenCredits`, `Cap`, `Allowance` | `resolve_ids`, `attribute_passed_lots`, `apply_event`, `max_bid`, `bargain_allowance` |
| `WalkAways` | `_bargain`, `lot_ceiling`, `safe_ceiling`: the prices at which the re-solve accepts a player are a constant set `Passing[p]`, with holes, because the solver is greedy and the code says so |
| `account` | what the platform really charges our seat: the truth the bidder's estimate is compared with |
| `AskStart`, `Register`, `Clear`, `Spawn`, `StartFails`, `Reap`, `RestartApp` | `room_bid` with its two checks, `ProcessJob.start`, which may raise and leave no child, the end of the child's output, a new app |
| `StopNothing`, `StopBegin`, `ReadFlag`, `OpenFlag`, `WriteFlag`, `Signal`, `StopDone`, `Kill` | `ProcessJob.stop`, with `request_stop`'s read, truncation and write as three steps |
| `InstallHandler`, `ComposePoll`, `KeepGoing`, `HonourDisarm`, `LeaveOnFlag`, `Gate`, `SendRaise`, `Leave` | `asta bid`: `_disarm_on_sigint`, `stop_poll`, the write lock asked per bid, the `finally` |
| `InterruptBoot`, `InterruptDisarms`, `InterruptLeaves`, `Hang`, `Crash` | a signal before and after the handler is there; a read that never returns; an exception |

Nothing locks the room between `ReadLot`, `Frame`, `Decide` and the arrival of a raise, and any
room action may fall between them. `stray` records that a raise landed on another call of its
player than the one it was decided on, which needs a cancelled call and a PATCH that outlives
it; the code accepts this risk, so `RosaCompletable` excludes it.

What modelling the stop showed, beside the two findings of section 3. Two clicks at once both
read *none* and both write *disarm*: the second is lost, which the operator sees and clicks
again. *exit* written over *disarm* by two handlers that both opened the file leaves a text no
reader understands, read as no request: the run stays disarmed, and the next click counts. The
registry's `_lock` is never taken by `stop`, so all of this is reachable. A bidder that outlives
its app is an orphan no click of the new app can reach; starting a second bidder clears the
flag the first one polls.

### 2.3 The lineup

| Model | Code |
|---|---|
| `Tick`, `AdvanceStatus`, `AdvanceLineup`, `Calculate`, `KickoffMoves` | the platform (external): the status moves to the next matchday before the lineup does, and neither waits for the lega to calculate; a kickoff may be moved after a run has read it |
| `BuildPlan`, `EndJob`, `StartChild`, `Orphan`, `OperatorRefresh`, `Kill` | `lineup submit --refresh` and `_refresh_child`, `run_grouped` and its wall, a refresh typed by hand |
| `ReadInputs`, `due`, `previous_calculated` | `read_refresh_inputs`, `refresh.due`, `voti_giornate` |
| `Skip`, `SourceFails`, `VotiLand`, `LegaSynced`, `NewsFetched` | `run_refresh`, `_run_one` and `LiveRefreshSources`, source by source |
| `Truncate`, `Fill`, `WriteFails` | `FileMarkerStore.write`, which opens (and empties) and then writes |
| `Launch`, `BuildPlans`, `NoMatchday`, `ReadFails`, `ReadStatus`, `ReadHistory`, `Project`, `FallBack`, `Recheck` (by the `mstr` read before the chain: `MstrPassed`), `Post`, `AnswerLost`, `ReadBack` | `_submit`, `build_plans`, `scheduled_cutoff`, `lineup_projection`, `submit_lineup`, the POST and its confirmation |
| `Recorded`, `Ended` | the record: `SubmitOutcome`, `run_record` |
| `Stands`, `Keeper`, `Return`, `NextModule`, `NextCombination`, `NextTier`, `OneFewer`, `Exhausted` | `substitute` and `_best_in_tier`: one step per try |
| `tier_plan`, `floor`, `Cost` | `tier_plan`, `_with_floors`, and what a tier makes of the matcher's answer |

`earned` and `blemished` (refresh) follow the successes a refresh has had, and stop doing so at
the first one lost to a kill, a refused write or an overlap.

In `Substitution` the answers of `place_all_with_malus` are a table over combinations and
modules: the least number of men out of position, or `NoFit`. The table is arbitrary, so the
model holds whatever the matcher says, on two conditions the code has: the natural roles are
among those a substitution admits, so they suffice exactly when the least number is 0; and the
eleven was legal where it was submitted, so those who are left, with nobody coming on, fit there.

## 3. Runs

| Run | Shows | Instance |
|---|---|---|
| `harvest_archive` | `LaddersAscend`, `PassedOnIsLanded`, `ArchiveIsReconstruction` (refinement of `SaleArchive`) under outages, a collector fault and a kill anywhere but between the two checkpoint writes | 1 auction, 2 players, 5 writes, windows of 3 (1.6M states) |
| `harvest_progress` | `NothingSkipped`, `CarriedLinesHaveEvents`, `PositionsAgree`, `CaughtUpIsExact`, `OneShotCarriesBacklog`, and `EveryLineCarried` through an outage, a kill after the commit and a discarded state file, one-shot runs and follow runs | 2 auctions, 1 player, 3 writes, windows of 2 (281k) |
| `harvest_supervisor` | `ReportAddsUp`, `SinkFailureRaised`, `NobodyStreamsOn`, `EndedIsFinal`, and `SinkFailureSurfaces`, `StopEnds`, `NobodyPassedOver` | 3 auctions, 2 permits, 2 attempts, with and without the re-read seed |
| `asta_room` | `RosaCompletable`, `CriterionRespected`, `RaiseIsCompareAndSwap` | 2 players, rosa of 2, 5 credits, rivals up to 4, 2 calls, any 3 disturbances of 9 kinds (1.15M) |
| `asta_chase` | `TargetChased` | the same room as `asta bid` sees it: no seats, one player the bridge cannot translate, any 2 disturbances (181k) |
| `stop_gesture` | `OneBidder`, `HeldAfterStop`, `FreshStart`, `ImplementsGesture` (refinement of `TwoStageStop`), `StopsHonoured` | 2 jobs, 2 stops, 1 restart, signals sent (POSIX) or not (Windows) (437k) |
| `lineup_refresh` | `EarnedIsKept`, `KeepsLedger` (refinement of `VotiLedger`), `VotiRecorded` | 2 matchdays, the hourly child and one more process, 1 disturbance (294k) |
| `lineup_submit` | `ProjectsOnFinalRows`, `RecordIsHonest`, `PostsBeforeKickoff` | 3 matchdays (34k) |

Each also checks its module's type invariant once. Why the bounds suffice: five writes hold a
call, two raises, a close and the next call, so a window of 2 or 3 lines can end at every
point of a sale, and a kill and a second kill can both fall in one sale. Two players and two
calls of a rosa of two reach the last slot, where the cap binds, and let a player be called
twice; a price of 4 lies above a rejected 3, so a scan that skips the hole is caught; three
disturbances allow a hand bid, a skipped lot and an undo, which makes the seat look overdrawn.
Three auctions for two permits always leave one waiting, and two attempts separate a retry from
giving up. Two stops are what the gesture counts; two jobs are a double start, and a
predecessor whose flag is left behind. Two matchdays hold the one round the refresh is about,
and a process more than the hourly one gives every overlap of two writers; three matchdays let
the status be a matchday ahead of the lineup with rounds on both sides. The last matchday
followed never starts: that is the bound of the clock.

`Races` of `StopGesture` is empty in these runs. It opens two windows of microseconds: a SIGINT
between the installation of the handler and `stop_poll`'s own snapshot (`"snapshot"`), and a
child that leaves between a stop's liveness check and its write while another bidder is
granted (`"overtaken"`). With the first open, `ImplementsGesture` fails with one job: the snapshot
is taken as *not armed* (`interface/asta.py:1694`), so the flag of the very same click then ends
the run, against `asta_session.py:288`. With it closed the refinement is proved.

### Violations: what the code does against what it says

| Run | Property | What happens |
|---|---|---|
| `harvest_replay` | `ReplayAbsorbed` | a kill between the two checkpoint writes replays a window onto a state that holds it already: an earlier turn in it is folded afresh from its middle, and an archived ladder [1,2,3] is overwritten by its tail [3]. Proved: nothing else rewrites a sale |
| `asta_bargains` | `BargainPurse` | the guards are tried twice with two clocks; a raise the first refuses (the 500 ms floor) and the second lets pass is sent without going on record as a bargain, and the purse is spent twice |
| `stop_lost_click` | `EveryClickSeen` | a stop between the clear of the flag and the `Popen` finds no process: it is answered with success, nothing is written, and the child starts armed |
| `lineup_voti_owed` | `VotiOwed` | the lega sync succeeds once a matchday; a round calculated after it never reaches our calendar, and its voti are skipped every hour until somebody syncs by hand |

`asta_bargains` was replayed against the code: a `RoomTracker` whose lot was raised 300 ms before
the cycle and 600 ms before the loop's own check returns a frame that says "pass: floor", while
the loop sends 6 and `_bargain_wins` stays empty. `lineup_voti_owed` was replayed with the real
`run_refresh`: eight hourly runs skip the voti eight times.

`harvest_replay` was replayed with `incremental.advance`; the comment it contradicts stands at
`interface/harvest.py:461`.

Two more facts the models show, with no run of their own. A dropped stream that hides an
annulment and a new first call of the same player splices two ladders into one, which is why
`LaddersAscend` speaks of the time before a stream drops. A pass that meets a new auction while
the seed cannot be read drops its events for good.

### Fairness

- `HarvestLoader`: weak fairness of the loader's steps, restart included: a follower loops until
  it is stopped, and is started again. Outages, kills and collector faults are finite in number.
- `HarvestSupervisor`: the event loop runs the tasks that are ready, cycles come, and a seed that
  cannot be read now can be read some time. Nothing is assumed of a watch: it may last for ever,
  which is why `NobodyPassedOver` excepts a pool that stays full.
- `AstaRoom`: the steps of a *running* bidder, the passing of time (`FloorPasses`), the arrival of a
  raise that is not lost. None of rivals, of the admin, or of starting a bidder.
- `StopGesture`: threads are scheduled, a process that is not stuck runs, a pending signal is
  handled (strong: a handler runs between two bytecodes, and the states it can run in may
  come and go), and a grace period ends. Nobody has to click.
- `LineupRefresh`: launchd starts the hourly job and its child runs; inputs, voti and lega that are
  tried for ever succeed some time (strong). Nobody else has to act.
- `LineupSubmit`, `Substitution`: safety only.

## 4. Proofs

Every theorem below is for all values of the constants that satisfy the named assumptions of
its module.

**Harvest loader.** Ten theorems, and every safety property of its runs is among them. What each
assumes beyond the constants' assumptions is a condition on faults, and a run or a short argument
shows it is needed.

| Theorem | Needs | Because otherwise |
|---|---|---|
| `TypeCorrect`, `NoLineIsSkipped`, `WatchersAreLanded` | nothing | |
| `FilesAgree`, `LaddersAlwaysAscend` | no kill at `stated` | `harvest_replay`: with windows of 4 and more the two turns can be spliced |
| `EventsFollowTheSeed` | no seed read fails | the window is filtered against an older seed |
| `CaughtUp` | both | |
| `ArchiveRefined`, `ReplayIsAbsorbed` | both, and a state file that stays readable | a re-fold from line 0 takes the archive back through its earlier sales before it catches up |
| `OneShotReturnsAtTarget` | fewer kills of the collector than lines in a window | a window of torn lines only returns at once (`harvest.py:392`) |

`NoLineIsSkipped` is not inductive: the strengthening says where the window in hand begins and
ends, and that it is carried once committed. `OneShotReturnsAtTarget` counts: each torn line is
the mark of one kill (`ZoneInv`), so a window too large to be all torn holds a record or ends the
landing zone. `WatchersAreLanded` is what the newline before a torn tail buys: a record that is
written is a line of its own, so the stamp its watcher remembers (and drops the repeat of) is on
disk.

The exactness theorems rest on one argument about data. The two folds are recursive functions
of the line number (`AfterEquations`, `EveningEquations`), and `SetInduction` (from the well-foundedness
of `<` on the naturals, applied to a set instead of a predicate) carries facts along them.
`RecordAgrees`: as long as stamps rise within an auction except for repeats of what was just read
(`OrderInv`, what the collector guarantees), the turn-scoped guard of `advance` and the
evening-wide guard of `reconstruct` skip the same records, so slot and turn stay equal.
`LineTracks` and `WindowAgrees` add the closes: the last close of a pair in a window is what the
whole reading holds at the window's end. `CommitTracks` puts them into the archive, row by row:
`ExactInv` when nothing is ever re-folded, `ToldInv` and `CaughtInv` (a row is the reconstruction's, or
that pair closes again before the line carried so far) when a state file may be lost. `LaddersAlwaysAscend`
follows the turn on the block from the site to the fold (`BlockInv`): until a stream drops, what
is on the block is what the node holds, and only its raises are appended. `ReplayIsAbsorbed`
needs that a stamp closes a pair once (`SoldLater`).

**Supervisor.** `IInv` has five parts: the types; how many attempts a watcher can have made where it
stands; that a watcher not yet over has its task kept; how `follow` and `run` can have ended given
what has failed; and that the report counts the watchers. From it `ReportIsHonest`, `FailureIsRaised`,
`NobodyIsLeftStreaming` and `EndedStays`, for any population and pool: the pool bound is a
cardinality argument on the set of watchers that hold a permit.

**Live bidder.** `RaisesCompareAndSwap`: a raise that lands on its own turn finds a rival's bid and moves
it by one step, however late it lands; within a turn a lot only rises and a price keeps its
holder, so what a poll read either still stands or was overtaken. `CriterionKept`: no raise stands at
a price the re-solve rejects; the invariant carries "every price up to the walk-away passes"
from the scan through the frame to the raise, whatever the cap was computed from.

`TypeCorrect` and `RosaStaysCompletable` count credits, so they need a theory of sums over a finite
set, which the library does not have. `SumEquations` shows that the recursion the library's sum is
defined by has a solution, `SummingAny` that it does not depend on the element picked first,
and `TotalAdd`, `TotalCompare` and `TotalCounts` are what the credits need: one term more, term by term,
and at least one a term. The induction is on the size of a part of the set (`PartsInduction`).
`CreditInv` then says what no property does: the platform's account is the ledger's (`AccountOK`),
every sale of ours left a credit for each other slot (`SaleOK`, with `Top` the most any lot may go
for), the lot on the block is not in the ledger (`LotOK`), and a cap, in a frame or in a raise in
flight, is within what the client would allow *now* as long as its turn is on the block (`FrameOK`,
`RaisesOK`). The last holds because what a seat may spend can only fall when a lot of its own is
sold, which ends the turn (`MaxHolds`): an undone purchase refunds at least the credit its slot
needs. The hypothesis of `RosaStaysCompletable` is `Legible`: `Mapped = Player`, because a purchase the
bridge drops is missing from credits and slots both; and, only if the admin passes lots a raise
stands on, that the seats are known and that no such player's observed price is below the most
a lot may go for. The code promises neither (`live.py:176`, `live.py:204` in the hazards): where they
fail, so does the property. `TypeCorrect` needs no hypothesis.

**Stop gesture**, with `Races = {}`. The invariant says what a thread of the registry knows of its
process (`Threads`), that a child starts on a clean slate (`Slate`), where the requests are
(`Requests`), that every stage on the file and every pending signal was earned by as many
different requests (`FlagEarned`, `SignalsEarned`), how the copies of the armed flag relate (`Copies`), and
that a stage once written stays for its reader (`FlagKept`). From it `OneBidderAtATime`, `RaisesHeld`,
`StartsFresh` and `GestureImplemented`: every step of the threads, the file and the signals is a
step of `TwoStageStop` or leaves it unchanged.

**Lineup refresh.** `LedgerImplemented` is the refinement, for any number of processes on one marker:
final rows are of calculated rounds (`RowsTrue`), a refresh that is ready for the voti found their
round calculated (`ReadyTrue`), what is on file and in every copy about to be written is true
(`MarkersTrue`). With `LedgerVouches` it gives `RecordVouches`. `NothingEarnedIsLost` adds that one
refresh at a time is under way (`OneAtATime`) and that its copy holds what it earned
(`CopiesEarned`), until a success is lost.

**Lineup submit.** `FinalRows`, `HonestRecord` and `NoLatePost`, for any number of matchdays, from the
ledger's promise and what each point of the run knows (`VerdictOnFinalRows`, `Undecided`,
`NothingSentBefore`). `NoLatePost` excepts a kickoff brought forward while the chain ran: the
re-check looks at the clock again, but at the `mstr` read before.

**Substitutions**, from `SearchAssumption`, a hypothesis of each theorem. These have no run: the proofs
cover every table of answers, bench, cap and mode. `FieldsTheLeastMalus`: the eleven fielded has as
many replacements as fit at all, at the least malus so many can be had for. The early exit at
`floor` is what needs the argument: in the last tier nothing costs 0, because every module it may
use was refused free by an earlier tier (`EarlierFail` and `PlanIsSound`). `BenchOrderDecides`: among
the equally cheap the earliest combination, then the earliest module; BASIC leaves the
submitted module only where no combination keeps it free. `NoMoreThanAllowed`: the cap and the
vacancies are respected with the keeper counted, and the search never reaches its own
assertion. The invariant says what has been tried up to the present place (`Scanned`), in earlier
tiers (`EarlierFail`) and for larger sizes (`LargerFail`).

Only model-checked: every liveness property (fairness and ENABLED are out of the prover's
reach). Every invariant and every action property of a passing run is a theorem.

## 5. Abstractions and what is not modelled

- Harvest: payloads beyond type, player, price and stamp; the link to the players table; a null
  `last_update`; SSE framing; `--dry-run`; the role lock. A landing zone that shrinks or is
  replaced is not modelled: its size is all the loader looks at, so one that has regrown past
  the offset is read from the middle, and no property could hold. A run of torn lines as
  long as a window ends a one-shot load and stalls a follower for ever (`harvest.py:392`);
  `OneShotReturnsAtTarget` says how many kills that takes; the run of `OneShotCarriesBacklog` has
  no torn lines, so with them it is the theorem that speaks. The target of a one-shot load is the
  size of the zone, its unfinished line included (`ZoneSize`). The loss of the offset file alone
  is left out: it leaves a state ahead of its offset, the position of a kill between the two
  writes, which `harvest_replay` shows. States a dropped stream never saw are lost to the landing
  zone too, which is what `ArchiveIsReconstruction` compares with: it says nothing of them.
- Supervisor: the back-off is a rest of some length; the crash and adoption counters; the heartbeat;
  a second Ctrl-C; a failure that sits in a finished task when a SIGINT arrives is dropped
  with the run, so `SinkFailureRaised` speaks of a run that returns. `max_attempts` is unset in
  production, where no auction is given up for being unreachable.
- Bidder: the two lot nodes are one block; rivals' bids are bounded by `MaxPrice`; the passing prices
  do not change with the rosa; `ceiling_alpha` is 1; memos are transparent; the uuid bridge is
  fixed; a sale and its purchase record appear together; our own seat is bid by hand only within
  the MAX the client shows; the observed price of a passed player is at or above any price he
  stood at (below it `RosaCompletable` can fail, and the code cannot know; the theorem assumes it
  of every player). Arming is in
  `StopGesture`, not in `AstaRoom`: the gate can only hold a raise back.
- Stop gesture: one room, so one flag file; the lines of a job and their eviction; jobs that are not
  bidders; `OneBidder` speaks of one registry, and `HeldAfterStop` and `StopsHonoured` of one life of
  the app.
- Lineup refresh: inputs and marker are read in one step; the older giornate a voti run also
  fetches, `--source`, `--force`; how the news are fetched.
- Lineup submit: several POSTs of a walk are one step with its outcomes; a manual submit beside the
  scheduled one; how a lineup is computed. A record of a run whose answer was lost says `failed`,
  though the platform may have taken the lineup, and so does one whose read-back or session fails
  on the database after the POST (`lineup_submit.py:438` catches only `TokenError`): `RecordIsHonest`
  says nothing of them. A kickoff put off during the chain is refused all the same; one brought
  forward lets a late post through (`PostsBeforeKickoff` excepts it). A success recorded
  between a projection's read of the rows and its look at the marker vouches for rows it has not
  seen: `ProjectsOnFinalRows` excepts it, because the code lets it pass.
- Substitutions: the matcher itself, which man takes which slot, the memo of `SubstitutionEngine`,
  and the conversion of an allowed module the schemas do not know (dropped).
- Whole parts: section 1 and the `components` of `PROJECT.json`. Roster arithmetic, lineup numbers
  and asta advice are statistics and heuristics over floats; news, authentication, lega,
  scraping and database commands are sequential reads and upserts; the app's start-up is
  installation; the frontend is presentation.

## 6. What could come next

1. The walk of a submit module by module, with a manual submit beside the scheduled one.
2. The refresh of the uuid bridge in `AstaRoom` (today a fixed `Mapped`), and an unmapped
   purchase of our own.
3. The job registry's lines and eviction, and its other commands.
4. `candidates.py`'s k-best assignments as operators against a reference; resizing of bands and
   `drop_unvaluable`.
5. The pool of the news fetch.
