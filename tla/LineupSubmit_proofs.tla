-------------------------- MODULE LineupSubmit_proofs --------------------------
(***************************************************************************)
(* Proofs about LineupSubmit, for any number of matchdays: what the run may *)
(* choose, send and record while the refresh's rows and marker change under *)
(* it, and that it starts no post after its matchday has begun.             *)
(***************************************************************************)
EXTENDS LineupSubmit, TLAPS

\* The ledger the run reads: only a calculated round has final rows, and the record
\* vouches for some.
RowsTrue ==
  /\ VL!Vouched
  /\ recorded # 0 => recorded \in 2..MaxDay
  /\ \A g \in Round : voti[g] = "final" => g \in calculated

\* A marker that vouched for the rows when they were read vouched for final ones.
VerdictOnFinalRows == job.pc = "verdict" /\ ~job.late => job.rows = "final"

\* The projection has chosen nothing before its verdict, nor anything after the run.
Undecided == job.pc \notin {"recheck", "post", "confirm"} => job.chose = "indexcompare"

\* Nothing is on its way before the walk has been answered, nor on record before the end.
NothingSentBefore ==
  /\ job.pc \notin {"confirm", "done"} => job.sent = None
  /\ job.pc = "confirm" => job.sent = job.chose
  /\ job.pc # "done" => record.status = None

IInv == /\ TypeOK /\ RowsTrue /\ ProjectsOnFinalRows /\ VerdictOnFinalRows
        /\ Undecided /\ NothingSentBefore /\ RecordIsHonest

-----------------------------------------------------------------------------
(* Every step keeps it.                                                    *)

USE DEF platform, history, None, NoRecord, Day, Round, Phase, Model, Rows, Status,
        scheduled_cutoff, fresh

LEMMA NoRunIsAJob == NoRun \in Job
BY DayAssumption DEF NoRun, Job

LEMMA RecordedKeeps ==
  ASSUME IInv, NEW status \in Status, UNCHANGED <<platform, history>>, Recorded(status),
         job.pc # "done",
         status \in {"submitted", "unconfirmed"} => job.pc = "confirm",
         status = "skipped" => job.pc # "confirm"
  PROVE  IInv'
<1>1. TypeOK'
  <2>1. PlatformOK'
    BY DayAssumption DEF IInv, Recorded, TypeOK, PlatformOK
  <2>2. voti' \in [Round -> Rows] /\ recorded' \in 0..MaxDay
    BY DayAssumption DEF IInv, Recorded, TypeOK
  <2>3. job' \in Job
    BY DayAssumption, NoRunIsAJob DEF IInv, Recorded, TypeOK, PlatformOK, Job
  <2>4. record' \in Record
    BY DayAssumption DEF IInv, Recorded, TypeOK, Job, Record
  <2>5. job'.day <= lineupDay' /\ job'.read <= lineupDay'
    BY DayAssumption DEF IInv, Recorded, TypeOK, Job, PlatformOK, NoRun
  <2>6. QED
    BY <2>1, <2>2, <2>3, <2>4, <2>5 DEF TypeOK
<1>2. RowsTrue'
  BY DEF IInv, Recorded, NoRun, TypeOK, RowsTrue, VL!Vouched, Job
<1>3. ProjectsOnFinalRows'
  BY DEF IInv, Recorded, NoRun, TypeOK, ProjectsOnFinalRows, Job
<1>4. VerdictOnFinalRows'
  BY DEF IInv, Recorded, NoRun, TypeOK, VerdictOnFinalRows, Job
<1>5. Undecided'
  BY DEF IInv, Recorded, NoRun, TypeOK, Undecided, Job
<1>6. NothingSentBefore'
  BY DEF IInv, Recorded, NoRun, TypeOK, NothingSentBefore, Job
<1>7. RecordIsHonest'
  BY DEF IInv, Recorded, NoRun, TypeOK, RecordIsHonest, NothingSentBefore, Job
<1>8. QED
  BY <1>1, <1>2, <1>3, <1>4, <1>5, <1>6, <1>7 DEF IInv

LEMMA EndedKeeps ==
  ASSUME IInv, NEW status \in {"skipped", "failed"}, NEW model \in Model,
         UNCHANGED <<platform, history>>, Ended(status, model),
         job.pc # "done",
         status = "skipped" => job.pc # "confirm"
  PROVE  IInv'
<1>1. TypeOK'
  <2>1. PlatformOK'
    BY DayAssumption DEF IInv, Ended, TypeOK, PlatformOK
  <2>2. voti' \in [Round -> Rows] /\ recorded' \in 0..MaxDay
    BY DayAssumption DEF IInv, Ended, TypeOK
  <2>3. job' \in Job
    BY DayAssumption, NoRunIsAJob DEF IInv, Ended, TypeOK, PlatformOK, Job
  <2>4. record' \in Record
    BY DayAssumption DEF IInv, Ended, TypeOK, Job, Record
  <2>5. job'.day <= lineupDay' /\ job'.read <= lineupDay'
    BY DayAssumption DEF IInv, Ended, TypeOK, Job, PlatformOK, NoRun
  <2>6. QED
    BY <2>1, <2>2, <2>3, <2>4, <2>5 DEF TypeOK
<1>2. RowsTrue'
  BY DEF IInv, Ended, NoRun, TypeOK, RowsTrue, VL!Vouched, Job
<1>3. ProjectsOnFinalRows'
  BY DEF IInv, Ended, NoRun, TypeOK, ProjectsOnFinalRows, Job
<1>4. VerdictOnFinalRows'
  BY DEF IInv, Ended, NoRun, TypeOK, VerdictOnFinalRows, Job
<1>5. Undecided'
  BY DEF IInv, Ended, NoRun, TypeOK, Undecided, Job
<1>6. NothingSentBefore'
  BY DEF IInv, Ended, NoRun, TypeOK, NothingSentBefore, Job
<1>7. RecordIsHonest'
  BY DEF IInv, Ended, NoRun, TypeOK, RecordIsHonest, NothingSentBefore, Job
<1>8. QED
  BY <1>1, <1>2, <1>3, <1>4, <1>5, <1>6, <1>7 DEF IInv

LEMMA WorldKeeps ==
  ASSUME IInv, World
  PROVE  IInv'
<1>1. TypeOK'
  <2>1. PlatformOK'
    <3>1. CASE Tick
      BY <3>1 DEF IInv, TypeOK, PlatformOK, Tick
    <3>2. CASE AdvanceStatus
      BY <3>2, DayAssumption DEF IInv, TypeOK, PlatformOK, AdvanceStatus
    <3>3. CASE AdvanceLineup
      BY <3>3, DayAssumption DEF IInv, TypeOK, PlatformOK, AdvanceLineup
    <3>4. CASE \E d \in Round : Calculate(d)
      BY <3>4 DEF IInv, TypeOK, PlatformOK, Calculate
    <3>5. QED
      BY <3>1, <3>2, <3>3, <3>4 DEF World, PlatformStep
  <2>2. voti' \in [Round -> Rows] /\ recorded' \in 0..MaxDay
    BY DayAssumption DEF IInv, World, PlatformStep, Tick, AdvanceStatus,
     AdvanceLineup, Calculate, TypeOK
  <2>3. job' \in Job
    BY DayAssumption DEF IInv, World, PlatformStep, Tick, AdvanceStatus,
     AdvanceLineup, Calculate, TypeOK, PlatformOK, Job
  <2>4. record' \in Record
    BY DayAssumption DEF IInv, World, PlatformStep, Tick, AdvanceStatus,
     AdvanceLineup, Calculate, TypeOK, Job, Record
  <2>5. job'.day <= lineupDay' /\ job'.read <= lineupDay'
    BY DayAssumption DEF IInv, World, PlatformStep, Tick, AdvanceStatus,
     AdvanceLineup, Calculate, TypeOK, Job, PlatformOK
  <2>6. QED
    BY <2>1, <2>2, <2>3, <2>4, <2>5 DEF TypeOK
<1>2. RowsTrue'
  BY DEF IInv, World, PlatformStep, Tick, AdvanceStatus, AdvanceLineup, Calculate,
     TypeOK, RowsTrue, VL!Vouched, Job
<1>3. ProjectsOnFinalRows'
  BY DEF IInv, World, PlatformStep, Tick, AdvanceStatus, AdvanceLineup, Calculate,
     TypeOK, ProjectsOnFinalRows, Job
<1>4. VerdictOnFinalRows'
  BY DEF IInv, World, PlatformStep, Tick, AdvanceStatus, AdvanceLineup, Calculate,
     TypeOK, VerdictOnFinalRows, Job
<1>5. Undecided'
  BY DEF IInv, World, PlatformStep, Tick, AdvanceStatus, AdvanceLineup, Calculate,
     TypeOK, Undecided, Job
<1>6. NothingSentBefore'
  BY DEF IInv, World, PlatformStep, Tick, AdvanceStatus, AdvanceLineup, Calculate,
     TypeOK, NothingSentBefore, Job
<1>7. RecordIsHonest'
  BY DEF IInv, World, PlatformStep, Tick, AdvanceStatus, AdvanceLineup, Calculate,
     TypeOK, RecordIsHonest, NothingSentBefore, Job
<1>8. QED
  BY <1>1, <1>2, <1>3, <1>4, <1>5, <1>6, <1>7 DEF IInv

LEMMA KickoffMovesKeeps ==
  ASSUME IInv, NEW mstr \in {"earlier", "later"}, KickoffMoves(mstr)
  PROVE  IInv'
<1>1. TypeOK'
  <2>1. PlatformOK'
    BY DayAssumption DEF IInv, KickoffMoves, TypeOK, PlatformOK
  <2>2. voti' \in [Round -> Rows] /\ recorded' \in 0..MaxDay
    BY DayAssumption DEF IInv, KickoffMoves, TypeOK
  <2>3. job' \in Job
    BY DayAssumption DEF IInv, KickoffMoves, TypeOK, PlatformOK, Job
  <2>4. record' \in Record
    BY DayAssumption DEF IInv, KickoffMoves, TypeOK, Job, Record
  <2>5. job'.day <= lineupDay' /\ job'.read <= lineupDay'
    BY DayAssumption DEF IInv, KickoffMoves, TypeOK, Job, PlatformOK
  <2>6. QED
    BY <2>1, <2>2, <2>3, <2>4, <2>5 DEF TypeOK
<1>2. RowsTrue'
  BY DEF IInv, KickoffMoves, TypeOK, RowsTrue, VL!Vouched, Job
<1>3. ProjectsOnFinalRows'
  BY DEF IInv, KickoffMoves, TypeOK, ProjectsOnFinalRows, Job, Undecided
<1>4. VerdictOnFinalRows'
  BY DEF IInv, KickoffMoves, TypeOK, VerdictOnFinalRows, Job
<1>5. Undecided'
  BY DEF IInv, KickoffMoves, TypeOK, Undecided, Job
<1>6. NothingSentBefore'
  BY DEF IInv, KickoffMoves, TypeOK, NothingSentBefore, Job
<1>7. RecordIsHonest'
  BY DEF IInv, KickoffMoves, TypeOK, RecordIsHonest, NothingSentBefore, Job
<1>8. QED
  BY <1>1, <1>2, <1>3, <1>4, <1>5, <1>6, <1>7 DEF IInv

LEMMA RefreshesKeeps ==
  ASSUME IInv, Refreshes
  PROVE  IInv'
<1>1. TypeOK'
  <2>1. PlatformOK'
    BY DayAssumption DEF IInv, Refreshes, VL!Scrape, VL!Record, VL!Forget, VL!Scraped,
     VL!LedgerRound, TypeOK, PlatformOK
  <2>2. voti' \in [Round -> Rows] /\ recorded' \in 0..MaxDay
    BY DayAssumption DEF IInv, Refreshes, VL!Scrape, VL!Record, VL!Forget, VL!Scraped,
     VL!LedgerRound, TypeOK, RowsTrue
  <2>3. job' \in Job
    BY DayAssumption DEF IInv, Refreshes, VL!Scrape, VL!Record, VL!Forget, VL!Scraped,
     VL!LedgerRound, TypeOK, PlatformOK, Job
  <2>4. record' \in Record
    BY DayAssumption DEF IInv, Refreshes, VL!Scrape, VL!Record, VL!Forget, VL!Scraped,
     VL!LedgerRound, TypeOK, Job, Record
  <2>5. job'.day <= lineupDay' /\ job'.read <= lineupDay'
    BY DayAssumption DEF IInv, Refreshes, VL!Scrape, VL!Record, VL!Forget, VL!Scraped,
     VL!LedgerRound, TypeOK, Job, PlatformOK
  <2>6. QED
    BY <2>1, <2>2, <2>3, <2>4, <2>5 DEF TypeOK
<1>2. RowsTrue'
  <2>1. CASE VL!Scrape
    BY <2>1, DayAssumption DEF VL!Scrape, VL!Scraped, VL!LedgerRound, IInv, Refreshes,
       TypeOK,
       RowsTrue, VL!Vouched
  <2>2. CASE VL!Record
    BY <2>2, DayAssumption DEF VL!Record, IInv, Refreshes, TypeOK, RowsTrue, VL!Vouched
  <2>3. CASE VL!Forget
    BY <2>3, DayAssumption DEF VL!Forget, IInv, Refreshes, TypeOK, RowsTrue, VL!Vouched
  <2>4. QED
    BY <2>1, <2>2, <2>3 DEF Refreshes
<1>3. ProjectsOnFinalRows'
  BY DEF IInv, Refreshes, VL!Scrape, VL!Record, VL!Forget, VL!Scraped, VL!LedgerRound,
     TypeOK, ProjectsOnFinalRows, Job
<1>4. VerdictOnFinalRows'
  BY DEF IInv, Refreshes, VL!Scrape, VL!Record, VL!Forget, VL!Scraped, VL!LedgerRound,
     TypeOK, VerdictOnFinalRows, Job
<1>5. Undecided'
  BY DEF IInv, Refreshes, VL!Scrape, VL!Record, VL!Forget, VL!Scraped, VL!LedgerRound,
     TypeOK, Undecided, Job
<1>6. NothingSentBefore'
  BY DEF IInv, Refreshes, VL!Scrape, VL!Record, VL!Forget, VL!Scraped, VL!LedgerRound,
     TypeOK, NothingSentBefore, Job
<1>7. RecordIsHonest'
  BY DEF IInv, Refreshes, VL!Scrape, VL!Record, VL!Forget, VL!Scraped, VL!LedgerRound,
     TypeOK, RecordIsHonest, NothingSentBefore, Job
<1>8. QED
  BY <1>1, <1>2, <1>3, <1>4, <1>5, <1>6, <1>7 DEF IInv

LEMMA LaunchKeeps ==
  ASSUME IInv, NEW asked \in Model, Launch(asked)
  PROVE  IInv'
<1>1. TypeOK'
  <2>1. PlatformOK'
    BY DayAssumption DEF IInv, Launch, TypeOK, PlatformOK
  <2>2. voti' \in [Round -> Rows] /\ recorded' \in 0..MaxDay
    BY DayAssumption DEF IInv, Launch, TypeOK
  <2>3. job' \in Job
    BY DayAssumption, NoRunIsAJob DEF IInv, Launch, TypeOK, PlatformOK, Job
  <2>4. record' \in Record
    BY DayAssumption DEF IInv, Launch, TypeOK, Job, Record
  <2>5. job'.day <= lineupDay' /\ job'.read <= lineupDay'
    BY DayAssumption DEF IInv, Launch, TypeOK, Job, PlatformOK, NoRun
  <2>6. QED
    BY <2>1, <2>2, <2>3, <2>4, <2>5 DEF TypeOK
<1>2. RowsTrue'
  BY DEF IInv, Launch, NoRun, TypeOK, RowsTrue, VL!Vouched, Job
<1>3. ProjectsOnFinalRows'
  BY DEF IInv, Launch, NoRun, TypeOK, ProjectsOnFinalRows, Job
<1>4. VerdictOnFinalRows'
  BY DEF IInv, Launch, NoRun, TypeOK, VerdictOnFinalRows, Job
<1>5. Undecided'
  BY DEF IInv, Launch, NoRun, TypeOK, Undecided, Job
<1>6. NothingSentBefore'
  BY DEF IInv, Launch, NoRun, TypeOK, NothingSentBefore, Job
<1>7. RecordIsHonest'
  BY DEF IInv, Launch, NoRun, TypeOK, RecordIsHonest, NothingSentBefore, Job
<1>8. QED
  BY <1>1, <1>2, <1>3, <1>4, <1>5, <1>6, <1>7 DEF IInv

LEMMA ExitKeeps ==
  ASSUME IInv, Exit
  PROVE  IInv'
<1>1. TypeOK'
  <2>1. PlatformOK'
    BY DayAssumption DEF IInv, Exit, TypeOK, PlatformOK
  <2>2. voti' \in [Round -> Rows] /\ recorded' \in 0..MaxDay
    BY DayAssumption DEF IInv, Exit, TypeOK
  <2>3. job' \in Job
    BY DayAssumption, NoRunIsAJob DEF IInv, Exit, TypeOK, PlatformOK, Job
  <2>4. record' \in Record
    BY DayAssumption DEF IInv, Exit, TypeOK, Job, Record
  <2>5. job'.day <= lineupDay' /\ job'.read <= lineupDay'
    BY DayAssumption DEF IInv, Exit, TypeOK, Job, PlatformOK, NoRun
  <2>6. QED
    BY <2>1, <2>2, <2>3, <2>4, <2>5 DEF TypeOK
<1>2. RowsTrue'
  BY DEF IInv, Exit, NoRun, TypeOK, RowsTrue, VL!Vouched, Job
<1>3. ProjectsOnFinalRows'
  BY DEF IInv, Exit, NoRun, TypeOK, ProjectsOnFinalRows, Job
<1>4. VerdictOnFinalRows'
  BY DEF IInv, Exit, NoRun, TypeOK, VerdictOnFinalRows, Job
<1>5. Undecided'
  BY DEF IInv, Exit, NoRun, TypeOK, Undecided, Job
<1>6. NothingSentBefore'
  BY DEF IInv, Exit, NoRun, TypeOK, NothingSentBefore, Job
<1>7. RecordIsHonest'
  BY DEF IInv, Exit, NoRun, TypeOK, RecordIsHonest, NothingSentBefore, Job
<1>8. QED
  BY <1>1, <1>2, <1>3, <1>4, <1>5, <1>6, <1>7 DEF IInv

LEMMA BuildPlansKeeps ==
  ASSUME IInv, BuildPlans
  PROVE  IInv'
<1>1. TypeOK'
  <2>1. PlatformOK'
    BY DayAssumption DEF IInv, BuildPlans, TypeOK, PlatformOK
  <2>2. voti' \in [Round -> Rows] /\ recorded' \in 0..MaxDay
    BY DayAssumption DEF IInv, BuildPlans, TypeOK
  <2>3. job' \in Job
    BY DayAssumption DEF IInv, BuildPlans, TypeOK, PlatformOK, Job
  <2>4. record' \in Record
    BY DayAssumption DEF IInv, BuildPlans, TypeOK, Job, Record
  <2>5. job'.day <= lineupDay' /\ job'.read <= lineupDay'
    BY DayAssumption DEF IInv, BuildPlans, TypeOK, Job, PlatformOK
  <2>6. QED
    BY <2>1, <2>2, <2>3, <2>4, <2>5 DEF TypeOK
<1>2. RowsTrue'
  BY DEF IInv, BuildPlans, TypeOK, RowsTrue, VL!Vouched, Job
<1>3. ProjectsOnFinalRows'
  BY DEF IInv, BuildPlans, TypeOK, ProjectsOnFinalRows, Job
<1>4. VerdictOnFinalRows'
  BY DEF IInv, BuildPlans, TypeOK, VerdictOnFinalRows, Job
<1>5. Undecided'
  BY DEF IInv, BuildPlans, TypeOK, Undecided, Job
<1>6. NothingSentBefore'
  BY DEF IInv, BuildPlans, TypeOK, NothingSentBefore, Job
<1>7. RecordIsHonest'
  BY DEF IInv, BuildPlans, TypeOK, RecordIsHonest, NothingSentBefore, Job
<1>8. QED
  BY <1>1, <1>2, <1>3, <1>4, <1>5, <1>6, <1>7 DEF IInv

LEMMA NoMatchdayKeeps ==
  ASSUME IInv, NoMatchday
  PROVE  IInv'
BY EndedKeeps DEF NoMatchday, IInv, TypeOK, Job

LEMMA ReadFailsKeeps ==
  ASSUME IInv, ReadFails
  PROVE  IInv'
BY EndedKeeps DEF ReadFails, IInv, TypeOK, Job

LEMMA ReadStatusGoesKeeps ==
  ASSUME IInv, job.pc = "status", UNCHANGED <<platform, history, record>>,
         job' = [job EXCEPT !.pc = IF job.asked = "projection" THEN "chain" ELSE "post",
                              !.status = statusDay]
  PROVE  IInv'
<1>1. TypeOK'
  <2>1. PlatformOK'
    BY DayAssumption DEF IInv, TypeOK, PlatformOK
  <2>2. voti' \in [Round -> Rows] /\ recorded' \in 0..MaxDay
    BY DayAssumption DEF IInv, TypeOK
  <2>3. job' \in Job
    BY DayAssumption DEF IInv, TypeOK, PlatformOK, Job
  <2>4. record' \in Record
    BY DayAssumption DEF IInv, TypeOK, Job, Record
  <2>5. job'.day <= lineupDay' /\ job'.read <= lineupDay'
    BY DayAssumption DEF IInv, TypeOK, Job, PlatformOK
  <2>6. QED
    BY <2>1, <2>2, <2>3, <2>4, <2>5 DEF TypeOK
<1>2. RowsTrue'
  BY DEF IInv, TypeOK, RowsTrue, VL!Vouched, Job
<1>3. ProjectsOnFinalRows'
  BY DEF IInv, TypeOK, ProjectsOnFinalRows, Job, Undecided
<1>4. VerdictOnFinalRows'
  BY DEF IInv, TypeOK, VerdictOnFinalRows, Job
<1>5. Undecided'
  BY DEF IInv, TypeOK, Undecided, Job
<1>6. NothingSentBefore'
  BY DEF IInv, TypeOK, NothingSentBefore, Job
<1>7. RecordIsHonest'
  BY DEF IInv, TypeOK, RecordIsHonest, NothingSentBefore, Job
<1>8. QED
  BY <1>1, <1>2, <1>3, <1>4, <1>5, <1>6, <1>7 DEF IInv

LEMMA ReadStatusKeeps ==
  ASSUME IInv, ReadStatus
  PROVE  IInv'
BY RecordedKeeps, ReadStatusGoesKeeps DEF ReadStatus

LEMMA ReadHistoryKeeps ==
  ASSUME IInv, ReadHistory
  PROVE  IInv'
<1>1. TypeOK'
  <2>1. PlatformOK'
    BY DayAssumption DEF IInv, ReadHistory, TypeOK, PlatformOK
  <2>2. voti' \in [Round -> Rows] /\ recorded' \in 0..MaxDay
    BY DayAssumption DEF IInv, ReadHistory, TypeOK
  <2>3. job' \in Job
    <3>1. lineupDay # 1 => lineupDay - 1 \in Round
      BY DayAssumption DEF IInv, TypeOK, PlatformOK
    <3>2. (IF lineupDay = 1 THEN None ELSE voti[lineupDay - 1]) \in Rows
      BY <3>1 DEF IInv, TypeOK
    <3>3. lineupDay \in Day /\ (recorded # lineupDay) \in BOOLEAN
      BY DEF IInv, TypeOK, PlatformOK
    <3>4. job \in Job
      BY DEF IInv, TypeOK
    <3>5. QED
      BY <3>2, <3>3, <3>4 DEF ReadHistory, Job
  <2>4. record' \in Record
    BY DayAssumption DEF IInv, ReadHistory, TypeOK, Job, Record
  <2>5. job'.day <= lineupDay' /\ job'.read <= lineupDay'
    BY DayAssumption DEF IInv, ReadHistory, TypeOK, Job, PlatformOK
  <2>6. QED
    BY <2>1, <2>2, <2>3, <2>4, <2>5 DEF TypeOK
<1>2. RowsTrue'
  BY DEF IInv, ReadHistory, TypeOK, RowsTrue, VL!Vouched, Job
<1>3. ProjectsOnFinalRows'
  BY DEF IInv, ReadHistory, TypeOK, ProjectsOnFinalRows, Job
<1>4. VerdictOnFinalRows'
  <2> SUFFICES ASSUME ~job'.late
               PROVE  job'.rows = "final"
    BY DEF VerdictOnFinalRows
  <2>1. /\ job'.rows = IF lineupDay = 1 THEN None ELSE voti[lineupDay - 1]
        /\ job'.late = (recorded # lineupDay)
    BY DEF ReadHistory, IInv, TypeOK, Job
  <2>2. recorded = lineupDay /\ lineupDay \in Day
    BY <2>1 DEF IInv, TypeOK, PlatformOK
  <2>3. QED
    BY <2>1, <2>2, DayAssumption DEF IInv, RowsTrue, VL!Vouched
<1>5. Undecided'
  BY DEF IInv, ReadHistory, TypeOK, Undecided, Job
<1>6. NothingSentBefore'
  BY DEF IInv, ReadHistory, TypeOK, NothingSentBefore, Job
<1>7. RecordIsHonest'
  BY DEF IInv, ReadHistory, TypeOK, RecordIsHonest, NothingSentBefore, Job
<1>8. QED
  BY <1>1, <1>2, <1>3, <1>4, <1>5, <1>6, <1>7 DEF IInv

LEMMA ProjectKeeps ==
  ASSUME IInv, Project
  PROVE  IInv'
<1>1. TypeOK'
  <2>1. PlatformOK'
    BY DayAssumption DEF IInv, Project, TypeOK, PlatformOK
  <2>2. voti' \in [Round -> Rows] /\ recorded' \in 0..MaxDay
    BY DayAssumption DEF IInv, Project, TypeOK
  <2>3. job' \in Job
    BY DayAssumption DEF IInv, Project, TypeOK, PlatformOK, Job
  <2>4. record' \in Record
    BY DayAssumption DEF IInv, Project, TypeOK, Job, Record
  <2>5. job'.day <= lineupDay' /\ job'.read <= lineupDay'
    BY DayAssumption DEF IInv, Project, TypeOK, Job, PlatformOK
  <2>6. QED
    BY <2>1, <2>2, <2>3, <2>4, <2>5 DEF TypeOK
<1>2. RowsTrue'
  BY DEF IInv, Project, TypeOK, RowsTrue, VL!Vouched, Job
<1>3. ProjectsOnFinalRows'
  BY DEF IInv, Project, TypeOK, ProjectsOnFinalRows, Job, VerdictOnFinalRows
<1>4. VerdictOnFinalRows'
  BY DEF IInv, Project, TypeOK, VerdictOnFinalRows, Job
<1>5. Undecided'
  BY DEF IInv, Project, TypeOK, Undecided, Job
<1>6. NothingSentBefore'
  BY DEF IInv, Project, TypeOK, NothingSentBefore, Job
<1>7. RecordIsHonest'
  BY DEF IInv, Project, TypeOK, RecordIsHonest, NothingSentBefore, Job
<1>8. QED
  BY <1>1, <1>2, <1>3, <1>4, <1>5, <1>6, <1>7 DEF IInv

LEMMA FallBackKeeps ==
  ASSUME IInv, FallBack
  PROVE  IInv'
<1>1. TypeOK'
  <2>1. PlatformOK'
    BY DayAssumption DEF IInv, FallBack, TypeOK, PlatformOK
  <2>2. voti' \in [Round -> Rows] /\ recorded' \in 0..MaxDay
    BY DayAssumption DEF IInv, FallBack, TypeOK
  <2>3. job' \in Job
    BY DayAssumption DEF IInv, FallBack, TypeOK, PlatformOK, Job
  <2>4. record' \in Record
    BY DayAssumption DEF IInv, FallBack, TypeOK, Job, Record
  <2>5. job'.day <= lineupDay' /\ job'.read <= lineupDay'
    BY DayAssumption DEF IInv, FallBack, TypeOK, Job, PlatformOK
  <2>6. QED
    BY <2>1, <2>2, <2>3, <2>4, <2>5 DEF TypeOK
<1>2. RowsTrue'
  BY DEF IInv, FallBack, TypeOK, RowsTrue, VL!Vouched, Job
<1>3. ProjectsOnFinalRows'
  BY DEF IInv, FallBack, TypeOK, ProjectsOnFinalRows, Job, Undecided
<1>4. VerdictOnFinalRows'
  BY DEF IInv, FallBack, TypeOK, VerdictOnFinalRows, Job
<1>5. Undecided'
  BY DEF IInv, FallBack, TypeOK, Undecided, Job
<1>6. NothingSentBefore'
  BY DEF IInv, FallBack, TypeOK, NothingSentBefore, Job
<1>7. RecordIsHonest'
  BY DEF IInv, FallBack, TypeOK, RecordIsHonest, NothingSentBefore, Job
<1>8. QED
  BY <1>1, <1>2, <1>3, <1>4, <1>5, <1>6, <1>7 DEF IInv

LEMMA RecheckGoesKeeps ==
  ASSUME IInv, job.pc = "recheck", UNCHANGED <<platform, history, record>>,
         job' = [job EXCEPT !.pc = "post"]
  PROVE  IInv'
<1>1. TypeOK'
  <2>1. PlatformOK'
    BY DayAssumption DEF IInv, TypeOK, PlatformOK
  <2>2. voti' \in [Round -> Rows] /\ recorded' \in 0..MaxDay
    BY DayAssumption DEF IInv, TypeOK
  <2>3. job' \in Job
    BY DayAssumption DEF IInv, TypeOK, PlatformOK, Job
  <2>4. record' \in Record
    BY DayAssumption DEF IInv, TypeOK, Job, Record
  <2>5. job'.day <= lineupDay' /\ job'.read <= lineupDay'
    BY DayAssumption DEF IInv, TypeOK, Job, PlatformOK
  <2>6. QED
    BY <2>1, <2>2, <2>3, <2>4, <2>5 DEF TypeOK
<1>2. RowsTrue'
  BY DEF IInv, TypeOK, RowsTrue, VL!Vouched, Job
<1>3. ProjectsOnFinalRows'
  BY DEF IInv, TypeOK, ProjectsOnFinalRows, Job
<1>4. VerdictOnFinalRows'
  BY DEF IInv, TypeOK, VerdictOnFinalRows, Job
<1>5. Undecided'
  BY DEF IInv, TypeOK, Undecided, Job
<1>6. NothingSentBefore'
  BY DEF IInv, TypeOK, NothingSentBefore, Job
<1>7. RecordIsHonest'
  BY DEF IInv, TypeOK, RecordIsHonest, NothingSentBefore, Job
<1>8. QED
  BY <1>1, <1>2, <1>3, <1>4, <1>5, <1>6, <1>7 DEF IInv

LEMMA RecheckKeeps ==
  ASSUME IInv, Recheck
  PROVE  IInv'
<1>1. /\ job.pc = "recheck" /\ UNCHANGED <<platform, history>>
      /\ \/ Recorded("skipped")
         \/ job' = [job EXCEPT !.pc = "post"] /\ UNCHANGED record
  BY DEF Recheck
<1>2. QED
  BY <1>1, RecordedKeeps, RecheckGoesKeeps

LEMMA AcceptedKeeps ==
  ASSUME IInv, job.pc = "post", UNCHANGED <<platform, history>>, Accepted
  PROVE  IInv'
<1>1. TypeOK'
  <2>1. PlatformOK'
    BY DayAssumption DEF IInv, Accepted, TypeOK, PlatformOK
  <2>2. voti' \in [Round -> Rows] /\ recorded' \in 0..MaxDay
    BY DayAssumption DEF IInv, Accepted, TypeOK
  <2>3. job' \in Job
    BY DayAssumption DEF IInv, Accepted, TypeOK, PlatformOK, Job
  <2>4. record' \in Record
    BY DayAssumption DEF IInv, Accepted, TypeOK, Job, Record
  <2>5. job'.day <= lineupDay' /\ job'.read <= lineupDay'
    BY DayAssumption DEF IInv, Accepted, TypeOK, Job, PlatformOK
  <2>6. QED
    BY <2>1, <2>2, <2>3, <2>4, <2>5 DEF TypeOK
<1>2. RowsTrue'
  BY DEF IInv, Accepted, TypeOK, RowsTrue, VL!Vouched, Job
<1>3. ProjectsOnFinalRows'
  BY DEF IInv, Accepted, TypeOK, ProjectsOnFinalRows, Job
<1>4. VerdictOnFinalRows'
  BY DEF IInv, Accepted, TypeOK, VerdictOnFinalRows, Job
<1>5. Undecided'
  BY DEF IInv, Accepted, TypeOK, Undecided, Job
<1>6. NothingSentBefore'
  BY DEF IInv, Accepted, TypeOK, NothingSentBefore, Job
<1>7. RecordIsHonest'
  BY DEF IInv, Accepted, TypeOK, RecordIsHonest, NothingSentBefore, Job
<1>8. QED
  BY <1>1, <1>2, <1>3, <1>4, <1>5, <1>6, <1>7 DEF IInv

LEMMA AnswerLostKeeps ==
  ASSUME IInv, job.pc = "post", UNCHANGED <<platform, history>>, AnswerLost
  PROVE  IInv'
<1>1. TypeOK'
  <2>1. PlatformOK'
    BY DayAssumption DEF IInv, AnswerLost, TypeOK, PlatformOK
  <2>2. voti' \in [Round -> Rows] /\ recorded' \in 0..MaxDay
    BY DayAssumption DEF IInv, AnswerLost, TypeOK
  <2>3. job' \in Job
    <3>1. PICK taken \in {job.sent, job.chose} :
            job' = [NoRun EXCEPT !.pc = "done", !.sent = taken]
      BY DEF AnswerLost
    <3>2. taken \in Model \cup {None}
      BY DEF IInv, TypeOK, Job
    <3>3. QED
      BY <3>1, <3>2, NoRunIsAJob DEF Job
  <2>4. record' \in Record
    BY DayAssumption DEF IInv, AnswerLost, TypeOK, Job, Record
  <2>5. job'.day <= lineupDay' /\ job'.read <= lineupDay'
    BY DayAssumption DEF IInv, AnswerLost, TypeOK, Job, PlatformOK, NoRun
  <2>6. QED
    BY <2>1, <2>2, <2>3, <2>4, <2>5 DEF TypeOK
<1>2. RowsTrue'
  BY DEF IInv, AnswerLost, NoRun, TypeOK, RowsTrue, VL!Vouched, Job
<1>3. ProjectsOnFinalRows'
  BY DEF IInv, AnswerLost, NoRun, TypeOK, ProjectsOnFinalRows, Job
<1>4. VerdictOnFinalRows'
  BY DEF IInv, AnswerLost, NoRun, TypeOK, VerdictOnFinalRows, Job
<1>5. Undecided'
  BY DEF IInv, AnswerLost, NoRun, TypeOK, Undecided, Job
<1>6. NothingSentBefore'
  BY DEF IInv, AnswerLost, NoRun, TypeOK, NothingSentBefore, Job
<1>7. RecordIsHonest'
  BY DEF IInv, AnswerLost, NoRun, TypeOK, RecordIsHonest, NothingSentBefore, Job
<1>8. QED
  BY <1>1, <1>2, <1>3, <1>4, <1>5, <1>6, <1>7 DEF IInv

LEMMA PostKeeps ==
  ASSUME IInv, Post
  PROVE  IInv'
BY AcceptedKeeps, AnswerLostKeeps, RecordedKeeps DEF Post

LEMMA ReadBackKeeps ==
  ASSUME IInv, ReadBack
  PROVE  IInv'
<1>1. job.asked \in Model
  BY DEF IInv, TypeOK, Job
<1>2. QED
  BY <1>1, RecordedKeeps, EndedKeeps DEF ReadBack

-----------------------------------------------------------------------------
LEMMA InitKeeps == Init => IInv
BY DayAssumption, NoRunIsAJob DEF Init, NoRun, PlatformInit, IInv, TypeOK, Job, Record,
   PlatformOK, RowsTrue, VL!Vouched,
   ProjectsOnFinalRows, VerdictOnFinalRows, Undecided, NothingSentBefore,
   RecordIsHonest

LEMMA StepKeeps == IInv /\ [Next]_vars => IInv'
<1> SUFFICES ASSUME IInv, [Next]_vars
             PROVE  IInv'
  OBVIOUS
<1>1. CASE World
  BY <1>1, WorldKeeps
<1>2. CASE Refreshes
  BY <1>2, RefreshesKeeps
<1>3. CASE \E asked \in Model : Launch(asked)
  BY <1>3, LaunchKeeps
<1>4. CASE Exit
  BY <1>4, ExitKeeps
<1>5. CASE BuildPlans
  BY <1>5, BuildPlansKeeps
<1>6. CASE NoMatchday
  BY <1>6, NoMatchdayKeeps
<1>7. CASE ReadFails
  BY <1>7, ReadFailsKeeps
<1>8. CASE ReadStatus
  BY <1>8, ReadStatusKeeps
<1>9. CASE ReadHistory
  BY <1>9, ReadHistoryKeeps
<1>10. CASE Project
  BY <1>10, ProjectKeeps
<1>11. CASE FallBack
  BY <1>11, FallBackKeeps
<1>12. CASE Recheck
  BY <1>12, RecheckKeeps
<1>13. CASE Post
  BY <1>13, PostKeeps
<1>14. CASE ReadBack
  BY <1>14, ReadBackKeeps
<1>15. CASE UNCHANGED vars
  BY <1>15 DEF vars, IInv, TypeOK, PlatformOK, RowsTrue, VL!Vouched, ProjectsOnFinalRows,
     VerdictOnFinalRows, Undecided, NothingSentBefore, RecordIsHonest
<1>16. CASE \E mstr \in {"earlier", "later"} : KickoffMoves(mstr)
  BY <1>16, KickoffMovesKeeps
<1>17. QED
  BY <1>1, <1>2, <1>3, <1>4, <1>5, <1>6, <1>7, <1>8, <1>9, <1>10, <1>11, <1>12, <1>13,
     <1>14, <1>15, <1>16 DEF Next, Run

LEMMA Invariance == Spec => []IInv
BY InitKeeps, StepKeeps, PTL DEF Spec

\* Every variable keeps its shape, and no run is ahead of the lineup it was handed.
THEOREM TypeCorrect == Spec => []TypeOK
<1>1. IInv => TypeOK
  BY DEF IInv
<1>2. QED
  BY <1>1, Invariance, PTL

\* A projection that chose the lineup was fitted on final rows, or the success that vouched
\* for them was recorded after they were read.
THEOREM FinalRows == Spec => []ProjectsOnFinalRows
<1>1. IInv => ProjectsOnFinalRows
  BY DEF IInv
<1>2. QED
  BY <1>1, Invariance, PTL

\* The record names the model whose lineup the platform took; a skip sent nothing.
THEOREM HonestRecord == Spec => []RecordIsHonest
<1>1. IInv => RecordIsHonest
  BY DEF IInv
<1>2. QED
  BY <1>1, Invariance, PTL

\* No post starts for a matchday that has started when the clock is looked at, unless its
\* kickoff was brought forward during the chain: the only ways to it go through
\* scheduled_cutoff, with the clock against the kickoff that was read.
THEOREM NoLatePost == Spec => PostsBeforeKickoff
<1> DEFINE Step == job.pc # "post" /\ job'.pc = "post" /\ Started(job'.day)
                     => job.mstr = "later" /\ job.status = job.day
<1>1. IInv /\ [Next]_vars => [Step]_vars
  <2> SUFFICES ASSUME IInv, Next, job.pc # "post", job'.pc = "post", Started(job'.day)
               PROVE  job.mstr = "later" /\ job.status = job.day
    BY DEF vars
  <2>1. CASE ReadStatus
    <3>1. /\ job' = [job EXCEPT !.pc = IF job.asked = "projection" THEN "chain" ELSE "post",
                                !.status = statusDay]
          /\ ~scheduled_cutoff(statusDay, job.day, Started(statusDay))
      BY <2>1 DEF ReadStatus, Recorded, NoRun
    <3>2. job'.day = job.day
      BY <3>1 DEF IInv, TypeOK, Job
    <3>3. QED
      BY <3>1, <3>2
  <2>2. CASE Recheck
    <3>1. PICK started \in MstrPassed :
            /\ job' = [job EXCEPT !.pc = "post"]
            /\ ~scheduled_cutoff(job.status, job.day, started)
      BY <2>2 DEF Recheck, Recorded, NoRun
    <3>2. job'.day = job.day
      BY <3>1 DEF IInv, TypeOK, Job
    <3>3. job.status = job.day /\ ~started /\ Started(job.status)
      BY <3>1, <3>2
    <3>4. QED
      BY <3>1, <3>3 DEF MstrPassed
  <2>3. CASE World \/ Refreshes
    BY <2>3 DEF World, Refreshes
  <2>4. CASE Run /\ ~ReadStatus /\ ~Recheck
    <3>1. job \in Job
      BY DEF IInv, TypeOK
    <3>2. CASE Exit
      BY <3>2 DEF Exit, NoRun
    <3>3. CASE (\E asked \in Model : Launch(asked)) \/ NoMatchday \/ ReadFails
      BY <3>3, NoRunIsAJob DEF Launch, NoMatchday, ReadFails, Ended, Job
    <3>4. CASE BuildPlans \/ ReadHistory \/ Project \/ FallBack
      BY <3>1, <3>4 DEF BuildPlans, ReadHistory, Project, FallBack, Job
    <3>5. CASE Post \/ ReadBack
      BY <3>5, NoRunIsAJob DEF Post, ReadBack, Recorded, Ended, Job
    <3>6. QED
      BY <2>4, <3>2, <3>3, <3>4, <3>5 DEF Run
  <2>5. CASE \E mstr \in {"earlier", "later"} : KickoffMoves(mstr)
    BY <2>5 DEF KickoffMoves, IInv, TypeOK, Job
  <2>6. QED
    BY <2>1, <2>2, <2>3, <2>4, <2>5 DEF Next
<1>2. QED
  BY <1>1, Invariance, PTL DEF Spec, PostsBeforeKickoff
=============================================================================
