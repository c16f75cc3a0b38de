---------------------- MODULE HarvestSupervisor_proofs ----------------------
(***************************************************************************)
(* Proofs about HarvestSupervisor, for any number of auctions, any pool    *)
(* and any number of attempts.                                             *)
(***************************************************************************)
EXTENDS HarvestSupervisor, FiniteSetTheorems, TLAPS

Place == {"none"} \cup Active \cup Finished

\* How many attempts a watcher can have made where it stands.
AttemptsFit ==
  \A a \in Auction :
    /\ watcher[a] \in {"none", "created"} => attempts[a] = 0
    /\ watcher[a] = "resting" => attempts[a] < MaxRestarts

\* A task is dropped once it has finished, and never with a failure untold.
TasksKept ==
  /\ started \ tasks \subseteq In(Finished)
  /\ \A a \in started \ tasks : watcher[a] = "failed" => follow = "failed"

\* What the ends of follow, of run and of the process say of the watchers.
Ends ==
  /\ follow = "ended" => started \subseteq In({"ended", "gaveup"})
  /\ follow = "cancelled" \/ In({"cancelled"}) # {} => cancelling
  /\ result = "none" <=> run \in {"racing", "settling", "gathering"}
  /\ run = "gathering" => follow = "cancelled"
  /\ result = "returned" =>
       /\ started \subseteq In(Finished \ {"failed"})
       /\ follow \in {"ended", "cancelled"}
  /\ run = "exited" => cancelling /\ In(Active) = {}

IInv == TypeOK /\ AttemptsFit /\ TasksKept /\ Ends /\ ReportAddsUp

USE DEF Active, Finished, Place, In, Done, SinkDown

-----------------------------------------------------------------------------
(* Counting the watchers of a place.                                       *)

At(f, p) == {a \in Auction : f[a] \in {p}}

\* A watcher that goes from one place to another is one fewer in the first and
\* one more in the second.
LEMMA Moves ==
  \A f \in [Auction -> Place], a \in Auction, y \in Place, p \in Place :
    LET g == [f EXCEPT ![a] = y] IN
      /\ Cardinality(At(f, p)) \in Nat /\ Cardinality(At(g, p)) \in Nat
      /\ f[a] # p /\ y # p => Cardinality(At(g, p)) = Cardinality(At(f, p))
      /\ f[a] # p /\ y = p => Cardinality(At(g, p)) = Cardinality(At(f, p)) + 1
      /\ f[a] = p /\ y # p => Cardinality(At(g, p)) = Cardinality(At(f, p)) - 1
<1> TAKE f \in [Auction -> Place], a \in Auction, y \in Place, p \in Place
<1> DEFINE g == [f EXCEPT ![a] = y]
<1>0. \A b \in Auction : g[b] = IF b = a THEN y ELSE f[b]
  OBVIOUS
<1> HIDE DEF g
<1>1. IsFiniteSet(At(f, p)) /\ IsFiniteSet(At(g, p))
  BY FS_Subset, AuctionAssumption DEF At
<1>2. Cardinality(At(f, p)) \in Nat /\ Cardinality(At(g, p)) \in Nat
  BY <1>1, FS_CardinalityType
<1>3. f[a] # p /\ y # p => At(g, p) = At(f, p)
  BY <1>0 DEF At
<1>4. f[a] # p /\ y = p => At(g, p) = At(f, p) \cup {a} /\ a \notin At(f, p)
  BY <1>0 DEF At
<1>5. f[a] = p /\ y # p => At(g, p) = At(f, p) \ {a} /\ a \in At(f, p)
  BY <1>0 DEF At
<1>6. f[a] # p /\ y = p => Cardinality(At(g, p)) = Cardinality(At(f, p)) + 1
  BY <1>1, <1>4, FS_AddElement
<1>7. f[a] = p /\ y # p => Cardinality(At(g, p)) = Cardinality(At(f, p)) - 1
  BY <1>1, <1>5, FS_RemoveElement
<1> QED
  BY <1>2, <1>3, <1>6, <1>7 DEF g

\* What the report must show when one watcher moves to y.
Counted(a, y) ==
  /\ watcher' = [watcher EXCEPT ![a] = y]
  /\ watcher[a] \in Active /\ watcher[a] # y
  /\ started' = started
  /\ report'.expected = report.expected
  /\ report'.ended = report.ended + (IF y = "ended" THEN 1 ELSE 0)
  /\ report'.unreachable = report.unreachable + (IF y = "gaveup" THEN 1 ELSE 0)
  /\ report'.live = report.live + (IF y = "watching" THEN 1 ELSE 0)
                      - (IF watcher[a] = "watching" THEN 1 ELSE 0)
  /\ y = "watching" => report.live < Pool

\* The counters still count when one watcher moves and they move with it.
LEMMA OneMoves ==
  ASSUME TypeOK, ReportAddsUp, NEW a \in Auction, NEW y \in Active \cup Finished, Counted(a, y)
  PROVE  ReportAddsUp' /\ report'.live \in Nat /\ report'.ended \in Nat /\ report'.unreachable \in Nat
<1> USE DEF Counted
<1>1. watcher \in [Auction -> Place]
  BY DEF TypeOK
<1>2. /\ In({"watching"}) = At(watcher, "watching") /\ In({"watching"})' = At(watcher', "watching")
      /\ In({"ended"}) = At(watcher, "ended") /\ In({"ended"})' = At(watcher', "ended")
      /\ In({"gaveup"}) = At(watcher, "gaveup") /\ In({"gaveup"})' = At(watcher', "gaveup")
  BY DEF At
<1>3. \A p \in Place :
        LET n == Cardinality(At(watcher, p))
            m == Cardinality(At(watcher', p))
        IN  /\ n \in Nat /\ m \in Nat
            /\ watcher[a] # p /\ y # p => m = n
            /\ watcher[a] # p /\ y = p => m = n + 1
            /\ watcher[a] = p /\ y # p => m = n - 1
  <2> TAKE p \in Place
  <2>1. y \in Place /\ watcher' = [watcher EXCEPT ![a] = y]
    OBVIOUS
  <2> HIDE DEF Counted, Place
  <2> QED
    BY <1>1, <2>1, Moves
<1>4. /\ report'.live = Cardinality(At(watcher', "watching"))
      /\ report'.ended = Cardinality(At(watcher', "ended"))
      /\ report'.unreachable = Cardinality(At(watcher', "gaveup"))
      /\ report'.live \in Nat /\ report'.ended \in Nat /\ report'.unreachable \in Nat
  <2> DEFINE n(p) == Cardinality(At(watcher, p))
             m(p) == Cardinality(At(watcher', p))
  <2>1. report.live = n("watching") /\ report.ended = n("ended") /\ report.unreachable = n("gaveup")
    BY <1>2 DEF ReportAddsUp
  <2>2. \A p \in Place : /\ n(p) \in Nat /\ m(p) \in Nat
                         /\ watcher[a] # p /\ y # p => m(p) = n(p)
                         /\ watcher[a] # p /\ y = p => m(p) = n(p) + 1
                         /\ watcher[a] = p /\ y # p => m(p) = n(p) - 1
    BY <1>3
  <2> HIDE DEF n, m
  <2>3. report'.live = m("watching") /\ m("watching") \in Nat
    BY <2>1, <2>2
  <2>4. report'.ended = m("ended") /\ m("ended") \in Nat
    BY <2>1, <2>2
  <2>5. report'.unreachable = m("gaveup") /\ m("gaveup") \in Nat
    BY <2>1, <2>2
  <2> QED
    BY <2>3, <2>4, <2>5 DEF m
<1>5. report'.live <= Pool
  BY <1>4, PoolAssumption DEF ReportAddsUp, TypeOK
<1>6. started' = In(Active \cup Finished)'
  BY <1>1 DEF ReportAddsUp
<1>7. report'.expected = Cardinality(started')
  BY DEF ReportAddsUp
<1> QED
  BY <1>2, <1>4, <1>5, <1>6, <1>7 DEF ReportAddsUp

-----------------------------------------------------------------------------
(* The initial states.                                                     *)

LEMMA Initially == Init => IInv
<1> SUFFICES ASSUME Init PROVE IInv
  OBVIOUS
<1> USE DEF Init
<1>1. seed \subseteq Auction
  OBVIOUS
<1>2. IsFiniteSet(seed) /\ Cardinality(seed) \in Nat
  BY <1>1, FS_Subset, FS_CardinalityType, AuctionAssumption
<1>3. TypeOK
  <2>1. attempts \in [Auction -> 0 .. MaxRestarts] /\ queue \in Seq(Auction)
    BY RestartsAssumption
  <2>2. report \in [expected : Nat, live : Nat, ended : Nat, unreachable : Nat]
    BY <1>2
  <2>3. watcher \in [Auction -> {"none"} \cup Active \cup Finished]
    OBVIOUS
  <2> QED
    BY <1>1, <2>1, <2>2, <2>3 DEF TypeOK
<1>4. In({"watching"}) = {} /\ In({"ended"}) = {} /\ In({"gaveup"}) = {}
  OBVIOUS
<1>5. ReportAddsUp
  <2>1. started = In(Active \cup Finished)
    BY <1>1
  <2>2. report.live = 0 /\ report.ended = 0 /\ report.unreachable = 0
        /\ report.expected = Cardinality(started)
    OBVIOUS
  <2>3. Cardinality({}) = 0 /\ 0 <= Pool
    BY FS_EmptySet, PoolAssumption
  <2> HIDE DEF Init, In
  <2> QED
    BY <1>4, <2>1, <2>2, <2>3 DEF ReportAddsUp
<1>6. AttemptsFit /\ TasksKept /\ Ends
  BY <1>1 DEF AttemptsFit, TasksKept, Ends
<1> QED
  BY <1>3, <1>5, <1>6 DEF IInv

-----------------------------------------------------------------------------
(* One watcher's steps.                                                    *)

\* What a step of one watcher must show: it moves, and nothing is adopted.
LEMMA WatcherStep ==
  ASSUME IInv, NEW a \in Auction, Supervise(a)
  PROVE  IInv'
<1> USE DEF IInv, followVars, runVars
<1>1. CASE Enqueue(a)
  <2> USE <1>1 DEF Enqueue
  <2>1. attempts[a] + 1 \in 0 .. MaxRestarts
    BY RestartsAssumption DEF AttemptsFit, TypeOK
  <2>0. Counted(a, "queued")
    BY DEF Counted, TypeOK
  <2>2. ReportAddsUp' /\ report'.live \in Nat /\ report'.ended \in Nat
    BY <2>0, OneMoves
  <2>3. TypeOK'
    BY <2>1 DEF TypeOK
  <2>4. AttemptsFit'
    BY DEF AttemptsFit, TypeOK
  <2>5. TasksKept' /\ Ends'
    BY DEF TasksKept, Ends, TypeOK, ReportAddsUp
  <2> QED
    BY <2>2, <2>3, <2>4, <2>5
<1>2. CASE Acquire(a)
  <2> USE <1>2 DEF Acquire
  <2>0. Counted(a, "watching")
    BY DEF Counted, TypeOK
  <2>1. ReportAddsUp' /\ report'.live \in Nat /\ report'.ended \in Nat
    BY <2>0, OneMoves
  <2>5. queue' \in Seq(Auction)
    BY DEF TypeOK
  <2>2. TypeOK'
    BY <2>1, <2>5 DEF TypeOK
  <2>3. AttemptsFit'
    BY DEF AttemptsFit, TypeOK
  <2>4. TasksKept' /\ Ends'
    BY DEF TasksKept, Ends, TypeOK, ReportAddsUp
  <2> QED
    BY <2>1, <2>2, <2>3, <2>4
<1>3. CASE WatchEnded(a)
  <2> USE <1>3 DEF WatchEnded
  <2>0. Counted(a, "ended")
    BY DEF Counted, TypeOK
  <2>1. ReportAddsUp' /\ report'.live \in Nat /\ report'.ended \in Nat
    BY <2>0, OneMoves
  <2>2. TypeOK'
    BY <2>1 DEF TypeOK
  <2>3. AttemptsFit'
    BY DEF AttemptsFit, TypeOK
  <2>4. TasksKept' /\ Ends'
    BY DEF TasksKept, Ends, TypeOK, ReportAddsUp
  <2> QED
    BY <2>1, <2>2, <2>3, <2>4
<1>4. CASE WatchFailed(a)
  <2> USE <1>4 DEF WatchFailed
  <2>1. ReportAddsUp' /\ report'.live \in Nat /\ report'.unreachable \in Nat
    <3>1. CASE attempts[a] < MaxRestarts
      <4>1. Counted(a, "resting")
        BY <3>1 DEF Counted, TypeOK
      <4> QED
        BY <4>1, OneMoves
    <3>2. CASE ~(attempts[a] < MaxRestarts)
      <4>1. Counted(a, "gaveup")
        BY <3>2 DEF Counted, TypeOK
      <4> QED
        BY <4>1, OneMoves
    <3> QED
      BY <3>1, <3>2
  <2>2. TypeOK'
    BY <2>1 DEF TypeOK
  <2>3. AttemptsFit'
    BY DEF AttemptsFit, TypeOK
  <2>4. TasksKept' /\ Ends'
    BY DEF TasksKept, Ends, TypeOK, ReportAddsUp
  <2> QED
    BY <2>1, <2>2, <2>3, <2>4
<1>5. CASE SinkFails(a)
  <2> USE <1>5 DEF SinkFails
  <2>0. Counted(a, "failed")
    BY DEF Counted, TypeOK
  <2>1. ReportAddsUp' /\ report'.live \in Nat /\ report'.ended \in Nat
    BY <2>0, OneMoves
  <2>2. TypeOK'
    BY <2>1 DEF TypeOK
  <2>3. AttemptsFit'
    BY DEF AttemptsFit, TypeOK
  <2>4. TasksKept' /\ Ends'
    BY DEF TasksKept, Ends, TypeOK, ReportAddsUp
  <2> QED
    BY <2>1, <2>2, <2>3, <2>4
<1>6. CASE Cancelled(a)
  <2> USE <1>6 DEF Cancelled
  <2>0. Counted(a, "cancelled")
    BY DEF Counted, TypeOK
  <2>1. ReportAddsUp' /\ report'.live \in Nat /\ report'.ended \in Nat
    BY <2>0, OneMoves
  <2>2. TypeOK'
    BY <2>1 DEF TypeOK
  <2>3. AttemptsFit'
    BY DEF AttemptsFit, TypeOK
  <2>4. TasksKept' /\ Ends'
    BY DEF TasksKept, Ends, TypeOK, ReportAddsUp
  <2> QED
    BY <2>1, <2>2, <2>3, <2>4
<1> QED
  BY <1>1, <1>2, <1>3, <1>4, <1>5, <1>6 DEF Supervise

-----------------------------------------------------------------------------
(* The steps that adopt and reap.                                          *)

\* An adopted auction had no watcher: the counters of the others stand.
LEMMA Adoption == ASSUME IInv, ReloadAdopts PROVE IInv'
<1> DEFINE new == seed \ started
<1> USE DEF IInv, ReloadAdopts, runVars
<1>1. \A a \in Auction : a \in new => watcher[a] = "none"
  BY DEF TypeOK, ReportAddsUp
<1>2. /\ In({"watching"})' = In({"watching"}) /\ In({"ended"})' = In({"ended"})
      /\ In({"gaveup"})' = In({"gaveup"})
  BY <1>1
<1>3. /\ IsFiniteSet(started) /\ IsFiniteSet(new) /\ Cardinality(new) \in Nat
      /\ new \cap started = {}
  BY FS_Subset, FS_CardinalityType, AuctionAssumption DEF TypeOK
<1>4. Cardinality(started \cup new) = Cardinality(started) + Cardinality(new)
  <2>1. started \cap new = {}
    BY <1>3
  <2>2. Cardinality(started \cup new) =
          Cardinality(started) + Cardinality(new) - Cardinality(started \cap new)
    BY <1>3, FS_Union
  <2>3. Cardinality(started) \in Nat
    BY <1>3, FS_CardinalityType
  <2>4. Cardinality(started \cap new) = 0
    BY <2>1, FS_EmptySet
  <2> QED
    BY <2>2, <2>3, <2>4, <1>3
<1>5. started' = In(Active \cup Finished)'
  BY <1>1 DEF ReportAddsUp, TypeOK
<1>6. /\ report'.live = report.live /\ report'.ended = report.ended
      /\ report'.unreachable = report.unreachable
      /\ report'.expected = report.expected + Cardinality(new)
      /\ report' \in [expected : Nat, live : Nat, ended : Nat, unreachable : Nat]
  BY <1>3 DEF TypeOK
<1>7. ReportAddsUp'
  BY <1>2, <1>4, <1>5, <1>6 DEF ReportAddsUp
<1>8. TypeOK'
  BY <1>6 DEF TypeOK
<1>9. AttemptsFit' /\ TasksKept' /\ Ends'
  BY <1>1 DEF AttemptsFit, TasksKept, Ends, TypeOK
<1> QED
  BY <1>7, <1>8, <1>9

\* The other steps of follow leave every watcher where it is.
LEMMA FollowStep == ASSUME IInv, Follow PROVE IInv'
<1> USE DEF IInv, runVars
<1>1. CASE ReapRaises
  BY <1>1 DEF ReapRaises, TypeOK, AttemptsFit, TasksKept, Ends, ReportAddsUp
<1>2. CASE ReloadAdopts
  BY <1>2, Adoption
<1>3. CASE ReloadFails
  BY <1>3 DEF ReloadFails, TypeOK, AttemptsFit, TasksKept, Ends, ReportAddsUp
<1>4. CASE GatherFails
  BY <1>4 DEF GatherFails, TypeOK, AttemptsFit, TasksKept, Ends, ReportAddsUp
<1>5. CASE GatherEnds
  BY <1>5 DEF GatherEnds, TypeOK, AttemptsFit, TasksKept, Ends, ReportAddsUp
<1>6. CASE FollowCancelled
  BY <1>6 DEF FollowCancelled, TypeOK, AttemptsFit, TasksKept, Ends, ReportAddsUp
<1> QED
  BY <1>1, <1>2, <1>3, <1>4, <1>5, <1>6 DEF Follow

\* Neither do the steps of run and of what surrounds it.
LEMMA RunStep == ASSUME IInv, Run \/ Ask \/ Interrupt \/ \E a \in Auction : Scan(a) PROVE IInv'
<1> USE DEF IInv, followVars, taskVars, runVars
<1>1. CASE WorkWins
  BY <1>1 DEF WorkWins, TypeOK, AttemptsFit, TasksKept, Ends, ReportAddsUp
<1>2. CASE StopWins
  BY <1>2 DEF StopWins, TypeOK, AttemptsFit, TasksKept, Ends, ReportAddsUp
<1>3. CASE WorkSettles
  BY <1>3 DEF WorkSettles, TypeOK, AttemptsFit, TasksKept, Ends, ReportAddsUp
<1>4. CASE Settle
  BY <1>4 DEF Settle, TypeOK, AttemptsFit, TasksKept, Ends, ReportAddsUp
<1>5. CASE CloseLoop
  BY <1>5 DEF CloseLoop, TypeOK, AttemptsFit, TasksKept, Ends, ReportAddsUp
<1>6. CASE Exit
  BY <1>6 DEF Exit, TypeOK, AttemptsFit, TasksKept, Ends, ReportAddsUp
<1>7. CASE Ask
  BY <1>7 DEF Ask, TypeOK, AttemptsFit, TasksKept, Ends, ReportAddsUp
<1>8. CASE Interrupt
  BY <1>8 DEF Interrupt, TypeOK, AttemptsFit, TasksKept, Ends, ReportAddsUp
<1>9. CASE \E a \in Auction : Scan(a)
  BY <1>9 DEF Scan, TypeOK, AttemptsFit, TasksKept, Ends, ReportAddsUp
<1> QED
  BY <1>1, <1>2, <1>3, <1>4, <1>5, <1>6, <1>7, <1>8, <1>9 DEF Run

LEMMA Inductive == IInv /\ [Next]_vars => IInv'
<1> SUFFICES ASSUME IInv, [Next]_vars PROVE IInv'
  OBVIOUS
<1>1. CASE \E a \in Auction : Supervise(a)
  BY <1>1, WatcherStep
<1>2. CASE Follow
  BY <1>2, FollowStep
<1>3. CASE Run \/ Ask \/ Interrupt \/ \E a \in Auction : Scan(a)
  BY <1>3, RunStep
<1>4. CASE UNCHANGED vars
  BY <1>4 DEF vars, IInv, TypeOK, AttemptsFit, TasksKept, Ends, ReportAddsUp
<1> QED
  BY <1>1, <1>2, <1>3, <1>4 DEF Next

LEMMA Invariant == Spec => []IInv
<1>1. Init => IInv
  BY Initially
<1>2. IInv /\ [Next]_vars => IInv'
  BY Inductive
<1> QED
  BY <1>1, <1>2, PTL DEF Spec

-----------------------------------------------------------------------------
(* The theorems.                                                           *)

\* Every variable keeps its type; no auction is given an attempt too many.
THEOREM TypeCorrect == Spec => []TypeOK
<1>1. IInv => TypeOK
  BY DEF IInv
<1> QED
  BY <1>1, Invariant, PTL

\* The heartbeat's counters are those of the watchers, and the pool is never
\* exceeded, for any population.
THEOREM ReportIsHonest == Spec => []ReportAddsUp
<1>1. IInv => ReportAddsUp
  BY DEF IInv
<1> QED
  BY <1>1, Invariant, PTL

\* No run returns over a landing zone that could not be written.
THEOREM FailureIsRaised == Spec => []SinkFailureRaised
<1>1. IInv => SinkFailureRaised
  BY DEF IInv, Ends, ReportAddsUp, SinkFailureRaised
<1> QED
  BY <1>1, Invariant, PTL

\* run returns, and the process leaves, with no stream open.
THEOREM NobodyIsLeftStreaming == Spec => []NobodyStreamsOn
<1>1. IInv => NobodyStreamsOn
  BY DEF IInv, Ends, ReportAddsUp, NobodyStreamsOn
<1> QED
  BY <1>1, Invariant, PTL

\* One step never gives a finished auction another watcher.
LEMMA FinishedStays ==
  IInv /\ [Next]_vars => \A a \in Auction : watcher[a] \in Finished => watcher'[a] = watcher[a]
<1> SUFFICES ASSUME IInv, [Next]_vars, NEW a \in Auction, watcher[a] \in Finished
             PROVE  watcher'[a] = watcher[a]
  OBVIOUS
<1>1. ASSUME NEW b \in Auction, Supervise(b) PROVE watcher'[a] = watcher[a]
  BY <1>1 DEF IInv, TypeOK, Supervise, Enqueue, Acquire, WatchEnded, WatchFailed,
              SinkFails, Cancelled
<1>2. CASE ReloadAdopts
  BY <1>2 DEF IInv, ReportAddsUp, ReloadAdopts
<1>3. CASE Follow /\ ~ReloadAdopts
  BY <1>3 DEF Follow, ReapRaises, ReloadFails, GatherFails, GatherEnds, FollowCancelled
<1>4. CASE Run \/ Ask \/ Interrupt \/ \E b \in Auction : Scan(b)
  BY <1>4 DEF Run, WorkWins, StopWins, WorkSettles, Settle, CloseLoop, Exit, Ask,
              Interrupt, Scan, taskVars
<1>5. CASE UNCHANGED vars
  BY <1>5 DEF vars
<1> QED
  BY <1>1, <1>2, <1>3, <1>4, <1>5 DEF Next

\* However often the seed lists it, an auction that is over is never watched
\* again.
THEOREM EndedStays == Spec => EndedIsFinal
<1> DEFINE Stays == \A a \in Auction : watcher[a] \in Finished => watcher'[a] = watcher[a]
<1>1. IInv /\ [Next]_vars => [Stays]_vars
  BY FinishedStays
<1> QED
  BY <1>1, Invariant, PTL DEF Spec, EndedIsFinal

=============================================================================
