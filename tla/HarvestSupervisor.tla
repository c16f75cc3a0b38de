-------------------------- MODULE HarvestSupervisor --------------------------
(***************************************************************************)
(* `Supervisor.run`: one watcher per auction within a bounded pool, the    *)
(* cycle that adopts new auctions and surfaces dead watchers, the race of  *)
(* all of it against a request to stop, and what `asyncio.run` does with   *)
(* the tasks that are left.  The steps are the code between two awaits.    *)
(***************************************************************************)
EXTENDS Naturals, Sequences, FiniteSets

CONSTANTS
  Auction,      \* the auctions of an evening
  Pool,         \* permits: concurrent streams
  MaxRestarts   \* attempts an auction is given

ASSUME AuctionAssumption == IsFiniteSet(Auction)
ASSUME PoolAssumption == Pool \in Nat \ {0}
ASSUME RestartsAssumption == MaxRestarts \in Nat \ {0}

VARIABLES
  reloading,   \* is the seed re-read (`reload` is not None)
  seed,        \* the auctions the registry names
  started,     \* the auctions adopted so far
  tasks,       \* those whose task has not been reaped
  watcher,     \* Auction -> where its `supervise` is
  attempts,    \* Auction -> attempts made
  queue,       \* those waiting for a permit, first come first served
  report,      \* the counters of the Report a property speaks of
  follow,      \* the coroutine that adopts and reaps
  run,         \* Supervisor.run, inside asyncio.run
  result,      \* how it ended
  asked,       \* has `stop` resolved
  cancelling   \* every task has been cancelled

vars == <<reloading, seed, started, tasks, watcher, attempts, queue, report,
          follow, run, result, asked, cancelling>>

Active == {"created", "queued", "watching", "resting"}
Finished == {"ended", "gaveup", "failed", "cancelled"}

In(places) == {a \in Auction : watcher[a] \in places}
Done(set) == set \cap In(Finished)
SinkDown(set) == set \cap In({"failed"})

Init ==
  /\ reloading \in BOOLEAN
  /\ seed \in SUBSET Auction
  /\ started = seed /\ tasks = seed
  /\ watcher = [a \in Auction |-> IF a \in seed THEN "created" ELSE "none"]
  /\ attempts = [a \in Auction |-> 0]
  /\ queue = <<>>
  /\ report = [expected |-> Cardinality(seed), live |-> 0, ended |-> 0,
               unreachable |-> 0]
  /\ follow = IF reloading THEN "sleeping" ELSE "gathering"
  /\ run = "racing"
  /\ result = "none"
  /\ asked = FALSE
  /\ cancelling = FALSE

followVars == <<reloading, seed, started, tasks, follow>>
runVars == <<run, result, asked, cancelling>>

-----------------------------------------------------------------------------
(* supervise(config): one auction's task.                                  *)

\* A new attempt asks for a permit.
Enqueue(a) ==
  /\ ~cancelling
  /\ watcher[a] \in {"created", "resting"}
  /\ watcher' = [watcher EXCEPT ![a] = "queued"]
  /\ attempts' = [attempts EXCEPT ![a] = @ + 1]
  /\ queue' = Append(queue, a)
  /\ UNCHANGED <<followVars, runVars, report>>

\* Mutant of Acquire: the pool is one too large.
AcquireOverPool(a) ==
  /\ ~cancelling
  /\ queue # <<>> /\ Head(queue) = a /\ watcher[a] = "queued"
  /\ report.live <= Pool
  /\ queue' = Tail(queue)
  /\ watcher' = [watcher EXCEPT ![a] = "watching"]
  /\ report' = [report EXCEPT !.live = @ + 1]
  /\ UNCHANGED <<followVars, runVars, attempts>>

Acquire(a) ==
  /\ ~cancelling
  /\ queue # <<>> /\ Head(queue) = a /\ watcher[a] = "queued"
  /\ report.live < Pool
  /\ queue' = Tail(queue)
  /\ watcher' = [watcher EXCEPT ![a] = "watching"]
  /\ report' = [report EXCEPT !.live = @ + 1]
  /\ UNCHANGED <<followVars, runVars, attempts>>

\* The node was deleted.
WatchEnded(a) ==
  /\ ~cancelling
  /\ watcher[a] = "watching"
  /\ watcher' = [watcher EXCEPT ![a] = "ended"]
  /\ report' = [report EXCEPT !.live = @ - 1, !.ended = @ + 1]
  /\ UNCHANGED <<followVars, runVars, attempts, queue>>

\* Mutant of WatchFailed: one attempt too many.
WatchFailedOnceMore(a) ==
  /\ ~cancelling
  /\ watcher[a] = "watching"
  /\ watcher' = [watcher EXCEPT ![a] = IF attempts[a] <= MaxRestarts THEN "resting" ELSE "gaveup"]
  /\ report' = [report EXCEPT !.live = @ - 1,
                  !.unreachable = @ + (IF attempts[a] <= MaxRestarts THEN 0 ELSE 1)]
  /\ UNCHANGED <<followVars, runVars, attempts, queue>>

\* Unreachable, or a crash: the permit goes back, and the auction is retried
\* after a while, unless its attempts are spent.
WatchFailed(a) ==
  /\ ~cancelling
  /\ watcher[a] = "watching"
  /\ watcher' = [watcher EXCEPT ![a] = IF attempts[a] < MaxRestarts THEN "resting" ELSE "gaveup"]
  /\ report' = [report EXCEPT !.live = @ - 1,
                  !.unreachable = @ + (IF attempts[a] < MaxRestarts THEN 0 ELSE 1)]
  /\ UNCHANGED <<followVars, runVars, attempts, queue>>

\* The landing zone could not be written: SinkFailed ends the task.
SinkFails(a) ==
  /\ ~cancelling
  /\ watcher[a] = "watching"
  /\ watcher' = [watcher EXCEPT ![a] = "failed"]
  /\ report' = [report EXCEPT !.live = @ - 1]
  /\ UNCHANGED <<followVars, runVars, attempts, queue>>

\* A cancelled task meets its CancelledError, wherever it was waiting.
Cancelled(a) ==
  /\ cancelling
  /\ watcher[a] \in Active
  /\ watcher' = [watcher EXCEPT ![a] = "cancelled"]
  /\ report' = [report EXCEPT !.live = IF watcher[a] = "watching" THEN @ - 1 ELSE @]
  /\ UNCHANGED <<followVars, runVars, attempts, queue>>

-----------------------------------------------------------------------------
(* follow().                                                               *)

\* Mutant of ReapRaises: a finished watcher is forgotten, whatever it raised.
ReapForgets ==
  /\ follow = "sleeping" /\ ~cancelling
  /\ SinkDown(tasks) # {}
  /\ tasks' = tasks \ Done(tasks)
  /\ UNCHANGED <<reloading, seed, started, watcher, attempts, report, run, result,
                 asked, follow, cancelling, queue>>

\* reap() finds a dead watcher: the others are cancelled, and it is raised.
ReapRaises ==
  /\ follow = "sleeping" /\ ~cancelling
  /\ SinkDown(tasks) # {}
  /\ tasks' = tasks \ Done(tasks)
  /\ follow' = "failed"
  /\ cancelling' = TRUE /\ queue' = <<>>
  /\ UNCHANGED <<reloading, seed, started, watcher, attempts, report, run, result, asked>>

\* Mutant of ReloadAdopts: whoever has no task is adopted.
ReloadAdoptsIdle ==
  LET new == seed \ (tasks \ Done(tasks)) IN
  /\ follow = "sleeping" /\ ~cancelling
  /\ SinkDown(tasks) = {}
  /\ started' = started \cup new
  /\ tasks' = (tasks \ Done(tasks)) \cup new
  /\ watcher' = [a \in Auction |-> IF a \in new THEN "created" ELSE watcher[a]]
  /\ report' = [report EXCEPT !.expected = @ + Cardinality(new)]
  /\ UNCHANGED <<runVars, reloading, seed, follow, attempts, queue>>

\* Otherwise the seed is re-read, and every auction not started is adopted.
ReloadAdopts ==
  LET new == seed \ started IN
  /\ follow = "sleeping" /\ ~cancelling
  /\ SinkDown(tasks) = {}
  /\ started' = started \cup new
  /\ tasks' = (tasks \ Done(tasks)) \cup new
  /\ watcher' = [a \in Auction |-> IF a \in new THEN "created" ELSE watcher[a]]
  /\ report' = [report EXCEPT !.expected = @ + Cardinality(new)]
  /\ UNCHANGED <<runVars, reloading, seed, follow, attempts, queue>>

\* Mutant of ReloadFails: the exception is let out of the loop.
ReloadFailsLoop ==
  /\ follow = "sleeping" /\ ~cancelling
  /\ SinkDown(tasks) = {}
  /\ follow' = "gathering"
  /\ UNCHANGED <<runVars, reloading, seed, started, tasks, watcher, attempts, queue, report>>

\* A seed that cannot be read costs one cycle.
ReloadFails ==
  /\ follow = "sleeping" /\ ~cancelling
  /\ SinkDown(tasks) = {}
  /\ tasks' = tasks \ Done(tasks)
  /\ UNCHANGED <<runVars, reloading, seed, started, follow, watcher, attempts, queue, report>>

\* gather(*tasks) raises the first failure at once, and ends with the last task.
GatherFails ==
  /\ follow = "gathering" /\ SinkDown(tasks) # {}
  /\ follow' = "failed"
  /\ UNCHANGED <<runVars, reloading, seed, started, tasks, watcher, attempts, queue, report>>

GatherEnds ==
  /\ follow = "gathering" /\ ~cancelling
  /\ tasks \subseteq In({"ended", "gaveup"})
  /\ follow' = "ended"
  /\ UNCHANGED <<runVars, reloading, seed, started, tasks, watcher, attempts, queue, report>>

\* The cancellation of follow itself; a gather passes on its first child's.
FollowCancelled ==
  /\ cancelling
  /\ \/ follow = "sleeping"
     \/ /\ follow = "gathering" /\ SinkDown(tasks) = {}
        /\ tasks \subseteq In(Finished) \/ tasks \cap In({"cancelled"}) # {}
  /\ follow' = "cancelled"
  /\ UNCHANGED <<runVars, reloading, seed, started, tasks, watcher, attempts, queue, report>>

-----------------------------------------------------------------------------
(* run(), and the asyncio.run around it.                                   *)

taskVars == <<watcher, attempts, report>>

\* follow is over before the stop: its failure, if any, is raised again.
WorkWins ==
  /\ run = "racing" /\ follow \in {"ended", "failed"}
  /\ run' = "closing"
  /\ result' = IF follow = "failed" THEN "raised" ELSE "returned"
  /\ UNCHANGED <<followVars, taskVars, queue, asked, cancelling>>

\* Mutant of StopWins: follow is cancelled, and the watchers are not.
StopWinsAlone ==
  /\ run = "racing" /\ asked /\ follow \in {"sleeping", "gathering"}
  /\ run' = "gathering" /\ follow' = "cancelled"
  /\ UNCHANGED <<reloading, seed, started, tasks, taskVars, queue, result, asked, cancelling>>

\* The stop comes first: every watcher and follow are cancelled.
StopWins ==
  /\ run = "racing" /\ asked /\ follow \in {"sleeping", "gathering"}
  /\ run' = "settling"
  /\ cancelling' = TRUE /\ queue' = <<>>
  /\ UNCHANGED <<followVars, taskVars, result, asked>>

\* `await work`: its cancellation is expected, its failure is raised.
WorkSettles ==
  /\ run = "settling" /\ follow \in {"cancelled", "failed"}
  /\ run' = IF follow = "failed" THEN "closing" ELSE "gathering"
  /\ result' = IF follow = "failed" THEN "raised" ELSE result
  /\ UNCHANGED <<followVars, taskVars, queue, asked, cancelling>>

\* Mutant of Settle: what the watchers raised is collected and dropped.
SettleDrops ==
  /\ run = "gathering" /\ tasks \subseteq In(Finished)
  /\ run' = "closing"
  /\ result' = "returned"
  /\ UNCHANGED <<followVars, taskVars, queue, asked, cancelling>>

\* Every watcher has settled: a failure among them outranks the stop.
Settle ==
  /\ run = "gathering" /\ tasks \subseteq In(Finished)
  /\ run' = "closing"
  /\ result' = IF SinkDown(tasks) # {} THEN "raised" ELSE "returned"
  /\ UNCHANGED <<followVars, taskVars, queue, asked, cancelling>>

\* SIGINT cancels run, except where a CancelledError is suppressed.
Interrupt ==
  /\ run \in {"racing", "gathering"}
  /\ run' = "closing"
  /\ result' = "interrupted"
  /\ UNCHANGED <<followVars, taskVars, queue, asked, cancelling>>

\* asyncio.run cancels what is left ...
CloseLoop ==
  /\ run = "closing" /\ ~cancelling
  /\ cancelling' = TRUE /\ queue' = <<>>
  /\ UNCHANGED <<followVars, taskVars, run, result, asked>>

\* Mutant of Exit: the process goes with run's last line.
ExitAtOnce ==
  /\ run = "closing"
  /\ run' = "exited"
  /\ UNCHANGED <<followVars, taskVars, queue, result, asked, cancelling>>

\* ... and waits for it; then the role lock is released.
Exit ==
  /\ run = "closing" /\ cancelling
  /\ In(Active) = {}
  /\ run' = "exited"
  /\ UNCHANGED <<followVars, taskVars, queue, result, asked, cancelling>>

\* `harvest scan` finds an auction; somebody asks for a stop.
Scan(a) ==
  /\ reloading /\ a \notin seed
  /\ seed' = seed \cup {a}
  /\ UNCHANGED <<runVars, taskVars, reloading, started, tasks, follow, queue>>

Ask ==
  /\ run = "racing" /\ ~asked
  /\ asked' = TRUE
  /\ UNCHANGED <<followVars, taskVars, queue, run, result, cancelling>>

Supervise(a) ==
  \/ Enqueue(a) \/ Acquire(a)
  \/ WatchEnded(a) \/ WatchFailed(a) \/ SinkFails(a)
  \/ Cancelled(a)

Follow ==
  \/ ReapRaises \/ ReloadAdopts \/ ReloadFails
  \/ GatherFails \/ GatherEnds \/ FollowCancelled

Run == WorkWins \/ StopWins \/ WorkSettles \/ Settle \/ CloseLoop \/ Exit

Next ==
  \/ \E a \in Auction : Supervise(a) \/ Scan(a)
  \/ Follow \/ Run
  \/ Ask \/ Interrupt

Spec == Init /\ [][Next]_vars

\* The event loop runs every task that is ready, a cycle always comes, and a
\* seed that is being written can be read the next time or some later one.
\* Nothing says that a watch ends.
Fairness ==
  /\ \A a \in Auction : WF_vars(Enqueue(a)) /\ WF_vars(Acquire(a)) /\ WF_vars(Cancelled(a))
  /\ WF_vars(ReapRaises) /\ WF_vars(ReloadAdopts)
  /\ WF_vars(GatherFails) /\ WF_vars(GatherEnds) /\ WF_vars(FollowCancelled)
  /\ WF_vars(Run)

FairSpec == Spec /\ Fairness

-----------------------------------------------------------------------------
(* Properties.                                                             *)

TypeOK ==
  /\ reloading \in BOOLEAN /\ asked \in BOOLEAN /\ cancelling \in BOOLEAN
  /\ seed \subseteq Auction /\ started \subseteq seed /\ tasks \subseteq started
  /\ watcher \in [Auction -> {"none"} \cup Active \cup Finished]
  /\ attempts \in [Auction -> 0 .. MaxRestarts]
  /\ queue \in Seq(Auction)
  /\ report \in [expected : Nat, live : Nat, ended : Nat, unreachable : Nat]
  /\ follow \in {"sleeping", "gathering", "ended", "failed", "cancelled"}
  /\ run \in {"racing", "settling", "gathering", "closing", "exited"}
  /\ result \in {"none", "returned", "raised", "interrupted"}

\* The heartbeat's `live / expected` tells the truth, through crashes, retries,
\* sink failures and cancellations: as many streams as it says, never more than
\* the pool, and every auction expected is live, waiting, or accounted for.
ReportAddsUp ==
  /\ report.live = Cardinality(In({"watching"}))
  /\ report.live <= Pool
  /\ report.ended = Cardinality(In({"ended"}))
  /\ report.unreachable = Cardinality(In({"gaveup"}))
  /\ report.expected = Cardinality(started)
  /\ started = In(Active \cup Finished)

\* An auction that ended, that spent its attempts or whose task died is never
\* watched again, however often the seed lists it (supervise: "Ended is final").
EndedIsFinal ==
  [][\A a \in Auction : watcher[a] \in Finished => watcher'[a] = watcher[a]]_vars

\* A run that returns has swallowed no SinkFailed, reaped or not: not even one
\* raised in the cycle a stop fell in (run: "The sink failure outranks the stop").
SinkFailureRaised == result = "returned" => In({"failed"}) = {}

\* run does not return, and the process does not leave and drop its role lock,
\* while a watcher streams.
NobodyStreamsOn ==
  result = "returned" \/ run = "exited" => In({"watching"}) = {}

\* A landing zone that cannot be written ends the run, in reload mode too,
\* where the failure sits in a finished task until the next cycle.
SinkFailureSurfaces ==
  \A a \in Auction : watcher[a] = "failed" ~> run = "exited"

\* A stop that is asked for ends the process, whatever the watchers do.
StopEnds == asked ~> run = "exited"

\* An auction the registry names is adopted, however many reads of it fail,
\* and is given a permit unless the pool is full for ever: nobody is passed
\* over by an auction that came later.
NobodyPassedOver ==
  \A a \in Auction :
    []<>(report.live < Pool) =>
      ((reloading /\ a \in seed) ~> (attempts[a] > 0 /\ watcher[a] # "queued") \/ run = "exited")

=============================================================================
