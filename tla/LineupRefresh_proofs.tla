-------------------------- MODULE LineupRefresh_proofs --------------------------
(***************************************************************************)
(* Proofs about LineupRefresh, for any number of matchdays, of processes   *)
(* that share the marker and of disturbances: it implements VotiLedger, and *)
(* an undisturbed refresh loses no success.                                 *)
(***************************************************************************)
EXTENDS LineupRefresh, TLAPS

\* Final rows and the calendar's rounds are of calculated rounds.
RowsTrue == /\ \A g \in Round : voti[g] = "final" => g \in calculated
            /\ calendar \subseteq calculated

\* A refresh that has found the voti ready found a round that was calculated.
ReadyTrue == \A p \in Proc : proc[p].ready => proc[p].day - 1 \in calculated

\* A voti success, on file or in a process's copy, vouches for final rows.
Vouches(m) == m["voti"] # 0 => m["voti"] - 1 \in Round /\ voti[m["voti"] - 1] = "final"
MarkersTrue == Vouches(marker) /\ \A p \in Proc : Vouches(proc[p].copy)

\* Unless two have overlapped, one refresh runs at a time,
OneAtATime == \A p, q \in Proc : blemished \/ (Running(p) /\ Running(q) => p = q)

\* and its copy of the marker holds what was earned.
CopiesEarned ==
  \A p \in Proc : blemished \/
    /\ proc[p].pc \in {"source", "truncate", "fill"} => proc[p].copy = earned
    /\ proc[p].pc = "fill" => marker = Empty

IInv == /\ TypeOK /\ RowsTrue /\ ReadyTrue /\ MarkersTrue
        /\ OneAtATime /\ CopiesEarned /\ EarnedIsKept

-----------------------------------------------------------------------------
(* Every step keeps it.                                                    *)

USE DEF platform, data, aux, None, Day, Round, Phase, Running, Child, Proc, Source, due, At,
        previous_calculated

LEMMA IdleIsAProcess == /\ Empty \in Marker /\ NoRefresh \in Process
                        /\ NoRefresh.pc = "idle" /\ NoRefresh.ready = FALSE
                        /\ NoRefresh.copy = Empty /\ Empty["voti"] = 0
BY DayAssumption DEF Empty, Marker, NoRefresh, Process

\* Passing on to the next source keeps the matchday and the copy.
LEMMA PassedOn ==
  ASSUME TypeOK, NEW p \in Proc
  PROVE  /\ Passed(p) \in Process
         /\ Passed(p).pc \in {"idle", "source"} /\ Passed(p).ready = FALSE
         /\ Passed(p).copy \in {proc[p].copy, Empty}
         /\ Passed(p).pc = "source" => Passed(p).copy = proc[p].copy
BY IdleIsAProcess DEF TypeOK, Process, Passed, After, NoRefresh

\* A success on record is well formed, and the process carries it.
LEMMA SuccessIsTyped ==
  ASSUME TypeOK, NEW p \in Proc, NEW s \in Source, Succeeded(p, s)
  PROVE  /\ proc' \in [Proc -> Process] /\ earned' \in Marker
         /\ proc'[p].copy = with_success(proc[p].copy, s, proc[p].day)
         /\ proc'[p].copy[s] = proc[p].day
<1> DEFINE new == with_success(proc[p].copy, s, proc[p].day)
<1>1. proc[p] \in Process /\ earned \in Marker
  BY DEF TypeOK
<1>2. new \in Marker /\ new[s] = proc[p].day
  BY <1>1, DayAssumption DEF with_success, Process, Marker
<1>3. earned' \in Marker
  <2>1. Empty \in Marker /\ proc[p].day \in 0..MaxDay
    BY <1>1, IdleIsAProcess, DayAssumption DEF Process
  <2>2. [earned EXCEPT ![s] = proc[p].day] \in Marker
    BY <1>1, <2>1 DEF Marker
  <2>3. QED
    BY <2>1, <2>2 DEF Succeeded
<1>4. [proc[p] EXCEPT !.pc = "truncate", !.copy = new] \in Process
  BY <1>1, <1>2 DEF Process
<1>5. proc' = [proc EXCEPT ![p] = [proc[p] EXCEPT !.pc = "truncate", !.copy = new]]
  BY DEF Succeeded, TypeOK
<1>6. proc'[p] = [proc[p] EXCEPT !.pc = "truncate", !.copy = new]
  BY <1>5 DEF TypeOK
<1>7. QED
  BY <1>1, <1>2, <1>3, <1>4, <1>5, <1>6 DEF TypeOK, Process

LEMMA WorldKeeps ==
  ASSUME IInv, World
  PROVE  IInv'
<1>1. TypeOK'
  <2>1. PlatformOK'
    <3>1. CASE Tick
      BY <3>1 DEF IInv, TypeOK, PlatformOK, Tick
    <3>2. CASE AdvanceStatus
      BY <3>2, DayAssumption DEF IInv, TypeOK, PlatformOK, AdvanceStatus
    <3>3. CASE AdvanceLineup
      BY <3>3, DayAssumption DEF IInv, TypeOK, PlatformOK, AdvanceLineup
    <3>4. CASE \E d \in Round : Calculate(d)
      BY <3>4 DEF IInv, TypeOK, PlatformOK, Calculate
    <3>5. QED
      BY <3>1, <3>2, <3>3, <3>4 DEF World, PlatformStep
  <2>2. calendar' \subseteq Round /\ voti' \in [Round -> {None, "early", "final"}]
    BY DEF IInv, World, PlatformStep, Tick, AdvanceStatus, AdvanceLineup, Calculate,
       TypeOK, RowsTrue, PlatformOK
  <2>3. plan' \in 0..MaxDay /\ marker' \in Marker /\ earned' \in Marker
    BY DayAssumption DEF IInv, World, PlatformStep, Tick, AdvanceStatus, AdvanceLineup,
       Calculate, TypeOK, PlatformOK, Marker, Process
  <2>4. proc' \in [Proc -> Process]
    BY DayAssumption DEF IInv, World, PlatformStep, Tick, AdvanceStatus, AdvanceLineup,
       Calculate, TypeOK, PlatformOK, Process, Marker
  <2>5. blemished' \in BOOLEAN /\ disturbances' \in 0..MaxDisturbances
    BY DisturbancesAssumption DEF IInv, World, PlatformStep, Tick, AdvanceStatus,
       AdvanceLineup, Calculate, TypeOK
  <2>6. QED
    BY <2>1, <2>2, <2>3, <2>4, <2>5 DEF TypeOK
<1>2. RowsTrue'
  BY DEF IInv, World, PlatformStep, Tick, AdvanceStatus, AdvanceLineup, Calculate,
     TypeOK, RowsTrue, Process, Marker
<1>3. ReadyTrue'
  BY DEF IInv, World, PlatformStep, Tick, AdvanceStatus, AdvanceLineup, Calculate,
     TypeOK, ReadyTrue, Process, Marker
<1>4. MarkersTrue'
  BY DEF IInv, World, PlatformStep, Tick, AdvanceStatus, AdvanceLineup, Calculate,
     TypeOK, RowsTrue, MarkersTrue, Process, Marker, Vouches
<1>5. OneAtATime'
  BY DEF IInv, World, PlatformStep, Tick, AdvanceStatus, AdvanceLineup, Calculate,
     TypeOK, OneAtATime, Process, Marker
<1>6. CopiesEarned'
  BY DEF IInv, World, PlatformStep, Tick, AdvanceStatus, AdvanceLineup, Calculate,
     TypeOK, OneAtATime, CopiesEarned, EarnedIsKept, Process, Marker
<1>7. EarnedIsKept'
  BY DEF IInv, World, PlatformStep, Tick, AdvanceStatus, AdvanceLineup, Calculate,
     TypeOK, OneAtATime, CopiesEarned, EarnedIsKept, Process, Marker
<1>8. QED
  BY <1>1, <1>2, <1>3, <1>4, <1>5, <1>6, <1>7 DEF IInv

LEMMA OperatorScrapeKeeps ==
  ASSUME IInv, NEW g \in Round, OperatorScrape(g)
  PROVE  IInv'
<1>1. TypeOK'
  <2>1. PlatformOK'
    BY DEF IInv, OperatorScrape, Scrape, VL!Scraped, TypeOK, PlatformOK
  <2>2. calendar' \subseteq Round /\ voti' \in [Round -> {None, "early", "final"}]
    BY DEF IInv, OperatorScrape, Scrape, VL!Scraped, TypeOK, RowsTrue, PlatformOK
  <2>3. plan' \in 0..MaxDay /\ marker' \in Marker /\ earned' \in Marker
    BY DayAssumption DEF IInv, OperatorScrape, Scrape, VL!Scraped, TypeOK, PlatformOK,
       Marker, Process
  <2>4. proc' \in [Proc -> Process]
    BY DayAssumption DEF IInv, OperatorScrape, Scrape, VL!Scraped, TypeOK, PlatformOK,
       Process, Marker
  <2>5. blemished' \in BOOLEAN /\ disturbances' \in 0..MaxDisturbances
    BY DisturbancesAssumption DEF IInv, OperatorScrape, Scrape, VL!Scraped, TypeOK
  <2>6. QED
    BY <2>1, <2>2, <2>3, <2>4, <2>5 DEF TypeOK
<1>2. RowsTrue'
  BY DEF IInv, OperatorScrape, Scrape, VL!Scraped, TypeOK, RowsTrue, Process, Marker
<1>3. ReadyTrue'
  BY DEF IInv, OperatorScrape, Scrape, VL!Scraped, TypeOK, ReadyTrue, Process, Marker
<1>4. MarkersTrue'
  BY DEF IInv, OperatorScrape, Scrape, VL!Scraped, TypeOK, RowsTrue, MarkersTrue,
     Process, Marker, Vouches
<1>5. OneAtATime'
  BY DEF IInv, OperatorScrape, Scrape, VL!Scraped, TypeOK, OneAtATime, Process, Marker
<1>6. CopiesEarned'
  BY DEF IInv, OperatorScrape, Scrape, VL!Scraped, TypeOK, OneAtATime, CopiesEarned,
     EarnedIsKept, Process, Marker
<1>7. EarnedIsKept'
  BY DEF IInv, OperatorScrape, Scrape, VL!Scraped, TypeOK, OneAtATime, CopiesEarned,
     EarnedIsKept, Process, Marker
<1>8. QED
  BY <1>1, <1>2, <1>3, <1>4, <1>5, <1>6, <1>7 DEF IInv

LEMMA BuildPlanKeeps ==
  ASSUME IInv, BuildPlan
  PROVE  IInv'
<1>1. TypeOK'
  <2>1. PlatformOK'
    BY DEF IInv, BuildPlan, TypeOK, PlatformOK
  <2>2. calendar' \subseteq Round /\ voti' \in [Round -> {None, "early", "final"}]
    BY DEF IInv, BuildPlan, TypeOK, RowsTrue, PlatformOK
  <2>3. plan' \in 0..MaxDay /\ marker' \in Marker /\ earned' \in Marker
    BY DayAssumption DEF IInv, BuildPlan, TypeOK, PlatformOK, Marker, Process
  <2>4. proc' \in [Proc -> Process]
    BY DayAssumption DEF IInv, BuildPlan, TypeOK, PlatformOK, Process, Marker
  <2>5. blemished' \in BOOLEAN /\ disturbances' \in 0..MaxDisturbances
    BY DisturbancesAssumption DEF IInv, BuildPlan, TypeOK
  <2>6. QED
    BY <2>1, <2>2, <2>3, <2>4, <2>5 DEF TypeOK
<1>2. RowsTrue'
  BY DEF IInv, BuildPlan, TypeOK, RowsTrue, Process, Marker
<1>3. ReadyTrue'
  BY DEF IInv, BuildPlan, TypeOK, ReadyTrue, Process, Marker
<1>4. MarkersTrue'
  BY DEF IInv, BuildPlan, TypeOK, RowsTrue, MarkersTrue, Process, Marker, Vouches
<1>5. OneAtATime'
  BY DEF IInv, BuildPlan, TypeOK, OneAtATime, Process, Marker
<1>6. CopiesEarned'
  BY DEF IInv, BuildPlan, TypeOK, OneAtATime, CopiesEarned, EarnedIsKept, Process,
     Marker
<1>7. EarnedIsKept'
  BY DEF IInv, BuildPlan, TypeOK, OneAtATime, CopiesEarned, EarnedIsKept, Process,
     Marker
<1>8. QED
  BY <1>1, <1>2, <1>3, <1>4, <1>5, <1>6, <1>7 DEF IInv

LEMMA EndJobKeeps ==
  ASSUME IInv, EndJob
  PROVE  IInv'
<1>1. TypeOK'
  <2>1. PlatformOK'
    BY DEF IInv, EndJob, TypeOK, PlatformOK
  <2>2. calendar' \subseteq Round /\ voti' \in [Round -> {None, "early", "final"}]
    BY DEF IInv, EndJob, TypeOK, RowsTrue, PlatformOK
  <2>3. plan' \in 0..MaxDay /\ marker' \in Marker /\ earned' \in Marker
    BY DayAssumption DEF IInv, EndJob, TypeOK, PlatformOK, Marker, Process
  <2>4. proc' \in [Proc -> Process]
    BY DayAssumption DEF IInv, EndJob, TypeOK, PlatformOK, Process, Marker
  <2>5. blemished' \in BOOLEAN /\ disturbances' \in 0..MaxDisturbances
    BY DisturbancesAssumption DEF IInv, EndJob, TypeOK
  <2>6. QED
    BY <2>1, <2>2, <2>3, <2>4, <2>5 DEF TypeOK
<1>2. RowsTrue'
  BY DEF IInv, EndJob, TypeOK, RowsTrue, Process, Marker
<1>3. ReadyTrue'
  BY DEF IInv, EndJob, TypeOK, ReadyTrue, Process, Marker
<1>4. MarkersTrue'
  BY DEF IInv, EndJob, TypeOK, RowsTrue, MarkersTrue, Process, Marker, Vouches
<1>5. OneAtATime'
  BY DEF IInv, EndJob, TypeOK, OneAtATime, Process, Marker
<1>6. CopiesEarned'
  BY DEF IInv, EndJob, TypeOK, OneAtATime, CopiesEarned, EarnedIsKept, Process, Marker
<1>7. EarnedIsKept'
  BY DEF IInv, EndJob, TypeOK, OneAtATime, CopiesEarned, EarnedIsKept, Process, Marker
<1>8. QED
  BY <1>1, <1>2, <1>3, <1>4, <1>5, <1>6, <1>7 DEF IInv

LEMMA StartChildKeeps ==
  ASSUME IInv, StartChild
  PROVE  IInv'
<1>1. TypeOK'
  <2>1. PlatformOK'
    BY DEF IInv, StartChild, Spawn, Blemish, TypeOK, PlatformOK
  <2>2. calendar' \subseteq Round /\ voti' \in [Round -> {None, "early", "final"}]
    BY DEF IInv, StartChild, Spawn, Blemish, TypeOK, RowsTrue, PlatformOK
  <2>3. plan' \in 0..MaxDay /\ marker' \in Marker /\ earned' \in Marker
    BY DayAssumption, IdleIsAProcess DEF IInv, StartChild, Spawn, Blemish, TypeOK,
       PlatformOK, Marker, Process
  <2>4. proc' \in [Proc -> Process]
    <3>1. [NoRefresh EXCEPT !.pc = "inputs", !.day = plan] \in Process
      <4>1. plan \in Day
        BY DayAssumption DEF StartChild, IInv, TypeOK
      <4>2. QED
        BY <4>1, IdleIsAProcess DEF Process
    <3>2. QED
      BY <3>1 DEF StartChild, Spawn, IInv, TypeOK
  <2>5. blemished' \in BOOLEAN /\ disturbances' \in 0..MaxDisturbances
    BY DisturbancesAssumption, IdleIsAProcess DEF IInv, StartChild, Spawn, Blemish,
       TypeOK
  <2>6. QED
    BY <2>1, <2>2, <2>3, <2>4, <2>5 DEF TypeOK
<1>2. RowsTrue'
  BY IdleIsAProcess DEF IInv, StartChild, Spawn, Blemish, TypeOK, RowsTrue, Process,
     Marker
<1>3. ReadyTrue'
  BY IdleIsAProcess DEF IInv, StartChild, Spawn, Blemish, TypeOK, ReadyTrue, Process,
     Marker
<1>4. MarkersTrue'
  BY IdleIsAProcess DEF IInv, StartChild, Spawn, Blemish, TypeOK, RowsTrue, MarkersTrue,
     Process, Marker, Vouches
<1>5. OneAtATime'
  BY IdleIsAProcess DEF IInv, StartChild, Spawn, Blemish, TypeOK, OneAtATime, Process,
     Marker
<1>6. CopiesEarned'
  BY IdleIsAProcess DEF IInv, StartChild, Spawn, Blemish, TypeOK, OneAtATime,
     CopiesEarned, EarnedIsKept, Process, Marker
<1>7. EarnedIsKept'
  BY IdleIsAProcess DEF IInv, StartChild, Spawn, Blemish, TypeOK, OneAtATime,
     CopiesEarned, EarnedIsKept, Process, Marker
<1>8. QED
  BY <1>1, <1>2, <1>3, <1>4, <1>5, <1>6, <1>7 DEF IInv

LEMMA OrphanKeeps ==
  ASSUME IInv, NEW p \in Other, Orphan(p)
  PROVE  IInv'
<1>1. TypeOK'
  <2>1. PlatformOK'
    BY DEF IInv, Orphan, Disturb, TypeOK, PlatformOK
  <2>2. calendar' \subseteq Round /\ voti' \in [Round -> {None, "early", "final"}]
    BY DEF IInv, Orphan, Disturb, TypeOK, RowsTrue, PlatformOK
  <2>3. plan' \in 0..MaxDay /\ marker' \in Marker /\ earned' \in Marker
    BY DayAssumption, IdleIsAProcess DEF IInv, Orphan, Disturb, TypeOK, PlatformOK,
       Marker, Process
  <2>4. proc' \in [Proc -> Process]
    <3>1. proc[Child] \in Process /\ NoRefresh \in Process
      BY IdleIsAProcess DEF IInv, TypeOK
    <3>2. QED
      BY <3>1 DEF Orphan, IInv, TypeOK
  <2>5. blemished' \in BOOLEAN /\ disturbances' \in 0..MaxDisturbances
    BY DisturbancesAssumption, IdleIsAProcess DEF IInv, Orphan, Disturb, TypeOK
  <2>6. QED
    BY <2>1, <2>2, <2>3, <2>4, <2>5 DEF TypeOK
<1>2. RowsTrue'
  BY IdleIsAProcess DEF IInv, Orphan, Disturb, TypeOK, RowsTrue, Process, Marker
<1>3. ReadyTrue'
  BY IdleIsAProcess DEF IInv, Orphan, Disturb, TypeOK, ReadyTrue, Process, Marker
<1>4. MarkersTrue'
  BY IdleIsAProcess DEF IInv, Orphan, Disturb, TypeOK, RowsTrue, MarkersTrue, Process,
     Marker, Vouches
<1>5. OneAtATime'
  BY IdleIsAProcess DEF IInv, Orphan, Disturb, TypeOK, OneAtATime, Process, Marker
<1>6. CopiesEarned'
  BY IdleIsAProcess DEF IInv, Orphan, Disturb, TypeOK, OneAtATime, CopiesEarned,
     EarnedIsKept, Process, Marker
<1>7. EarnedIsKept'
  BY IdleIsAProcess DEF IInv, Orphan, Disturb, TypeOK, OneAtATime, CopiesEarned,
     EarnedIsKept, Process, Marker
<1>8. QED
  BY <1>1, <1>2, <1>3, <1>4, <1>5, <1>6, <1>7 DEF IInv

LEMMA OperatorRefreshKeeps ==
  ASSUME IInv, NEW p \in Other, OperatorRefresh(p)
  PROVE  IInv'
<1>1. TypeOK'
  <2>1. PlatformOK'
    BY DEF IInv, OperatorRefresh, Spawn, Blemish, Disturb, TypeOK, PlatformOK
  <2>2. calendar' \subseteq Round /\ voti' \in [Round -> {None, "early", "final"}]
    BY DEF IInv, OperatorRefresh, Spawn, Blemish, Disturb, TypeOK, RowsTrue, PlatformOK
  <2>3. plan' \in 0..MaxDay /\ marker' \in Marker /\ earned' \in Marker
    BY DayAssumption, IdleIsAProcess DEF IInv, OperatorRefresh, Spawn, Blemish, Disturb,
       TypeOK, PlatformOK, Marker, Process
  <2>4. proc' \in [Proc -> Process]
    BY DayAssumption, IdleIsAProcess DEF IInv, OperatorRefresh, Spawn, Blemish, Disturb,
       TypeOK, PlatformOK, Process, Marker
  <2>5. blemished' \in BOOLEAN /\ disturbances' \in 0..MaxDisturbances
    BY DisturbancesAssumption, IdleIsAProcess DEF IInv, OperatorRefresh, Spawn, Blemish,
       Disturb, TypeOK
  <2>6. QED
    BY <2>1, <2>2, <2>3, <2>4, <2>5 DEF TypeOK
<1>2. RowsTrue'
  BY IdleIsAProcess DEF IInv, OperatorRefresh, Spawn, Blemish, Disturb, TypeOK,
     RowsTrue, Process, Marker
<1>3. ReadyTrue'
  BY IdleIsAProcess DEF IInv, OperatorRefresh, Spawn, Blemish, Disturb, TypeOK,
     ReadyTrue, Process, Marker
<1>4. MarkersTrue'
  BY IdleIsAProcess DEF IInv, OperatorRefresh, Spawn, Blemish, Disturb, TypeOK,
     RowsTrue, MarkersTrue, Process, Marker, Vouches
<1>5. OneAtATime'
  BY IdleIsAProcess DEF IInv, OperatorRefresh, Spawn, Blemish, Disturb, TypeOK,
     OneAtATime, Process, Marker
<1>6. CopiesEarned'
  BY IdleIsAProcess DEF IInv, OperatorRefresh, Spawn, Blemish, Disturb, TypeOK,
     OneAtATime, CopiesEarned, EarnedIsKept, Process, Marker
<1>7. EarnedIsKept'
  BY IdleIsAProcess DEF IInv, OperatorRefresh, Spawn, Blemish, Disturb, TypeOK,
     OneAtATime, CopiesEarned, EarnedIsKept, Process, Marker
<1>8. QED
  BY <1>1, <1>2, <1>3, <1>4, <1>5, <1>6, <1>7 DEF IInv

LEMMA KillKeeps ==
  ASSUME IInv, NEW p \in Proc, Kill(p)
  PROVE  IInv'
<1>1. TypeOK'
  <2>1. PlatformOK'
    BY DEF IInv, Kill, Disturb, Blemish, TypeOK, PlatformOK
  <2>2. calendar' \subseteq Round /\ voti' \in [Round -> {None, "early", "final"}]
    BY DEF IInv, Kill, Disturb, Blemish, TypeOK, RowsTrue, PlatformOK
  <2>3. plan' \in 0..MaxDay /\ marker' \in Marker /\ earned' \in Marker
    BY DayAssumption, IdleIsAProcess DEF IInv, Kill, Disturb, Blemish, TypeOK,
       PlatformOK, Marker, Process
  <2>4. proc' \in [Proc -> Process]
    BY DayAssumption, IdleIsAProcess DEF IInv, Kill, Disturb, Blemish, TypeOK,
       PlatformOK, Process, Marker
  <2>5. blemished' \in BOOLEAN /\ disturbances' \in 0..MaxDisturbances
    BY DisturbancesAssumption, IdleIsAProcess DEF IInv, Kill, Disturb, Blemish, TypeOK
  <2>6. QED
    BY <2>1, <2>2, <2>3, <2>4, <2>5 DEF TypeOK
<1>2. RowsTrue'
  BY IdleIsAProcess DEF IInv, Kill, Disturb, Blemish, TypeOK, RowsTrue, Process, Marker
<1>3. ReadyTrue'
  BY IdleIsAProcess DEF IInv, Kill, Disturb, Blemish, TypeOK, ReadyTrue, Process, Marker
<1>4. MarkersTrue'
  BY IdleIsAProcess DEF IInv, Kill, Disturb, Blemish, TypeOK, RowsTrue, MarkersTrue,
     Process, Marker, Vouches
<1>5. OneAtATime'
  BY IdleIsAProcess DEF IInv, Kill, Disturb, Blemish, TypeOK, OneAtATime, Process,
     Marker
<1>6. CopiesEarned'
  BY IdleIsAProcess DEF IInv, Kill, Disturb, Blemish, TypeOK, OneAtATime, CopiesEarned,
     EarnedIsKept, Process, Marker
<1>7. EarnedIsKept'
  BY IdleIsAProcess DEF IInv, Kill, Disturb, Blemish, TypeOK, OneAtATime, CopiesEarned,
     EarnedIsKept, Process, Marker
<1>8. QED
  BY <1>1, <1>2, <1>3, <1>4, <1>5, <1>6, <1>7 DEF IInv

LEMMA ReadInputsKeeps ==
  ASSUME IInv, NEW p \in Proc, ReadInputs(p)
  PROVE  IInv'
<1>1. TypeOK'
  <2>1. PlatformOK'
    BY DEF IInv, ReadInputs, TypeOK, PlatformOK
  <2>2. calendar' \subseteq Round /\ voti' \in [Round -> {None, "early", "final"}]
    BY DEF IInv, ReadInputs, TypeOK, RowsTrue, PlatformOK
  <2>3. plan' \in 0..MaxDay /\ marker' \in Marker /\ earned' \in Marker
    BY DayAssumption DEF IInv, ReadInputs, TypeOK, PlatformOK, Marker, Process
  <2>4. proc' \in [Proc -> Process]
    <3>1. proc[p] \in Process /\ marker \in Marker
      BY DEF IInv, TypeOK
    <3> DEFINE ready == "voti" \in due(marker, proc[p].day)
                          /\ previous_calculated(proc[p].day)
               open == /\ "news" \in due(marker, proc[p].day)
                       /\ statusDay = proc[p].day /\ phase = "news"
    <3>2. [proc[p] EXCEPT !.pc = "source", !.ready = ready, !.open = open, !.copy = marker]
            \in Process
      BY <3>1 DEF Process
    <3>3. proc' = [proc EXCEPT ![p] = [proc[p] EXCEPT !.pc = "source", !.ready = ready,
                                                      !.open = open, !.copy = marker]]
      BY DEF ReadInputs, IInv, TypeOK
    <3>4. QED
      BY <3>2, <3>3 DEF IInv, TypeOK
  <2>5. blemished' \in BOOLEAN /\ disturbances' \in 0..MaxDisturbances
    BY DisturbancesAssumption DEF IInv, ReadInputs, TypeOK
  <2>6. QED
    BY <2>1, <2>2, <2>3, <2>4, <2>5 DEF TypeOK
<1>2. RowsTrue'
  BY DEF IInv, ReadInputs, TypeOK, RowsTrue, Process, Marker
<1>3. ReadyTrue'
  <2>1. proc'[p].ready => proc[p].day - 1 \in calendar
    BY proc[p] \in Process DEF ReadInputs, IInv, TypeOK, Process
  <2>2. proc'[p].day = proc[p].day
    BY DEF ReadInputs, IInv, TypeOK
  <2>3. \A q \in Proc : q # p => proc'[q] = proc[q]
    BY DEF ReadInputs, IInv, TypeOK
  <2>4. calendar \subseteq calculated' /\ calculated' = calculated
    BY DEF ReadInputs, IInv, RowsTrue
  <2>5. QED
    BY <2>1, <2>2, <2>3, <2>4 DEF IInv, ReadyTrue
<1>4. MarkersTrue'
  <2>1. proc'[p].copy = marker
    BY DEF ReadInputs, IInv, TypeOK
  <2>2. \A q \in Proc : q # p => proc'[q] = proc[q]
    BY DEF ReadInputs, IInv, TypeOK
  <2>3. voti' = voti /\ marker' = marker
    BY DEF ReadInputs
  <2>4. QED
    BY <2>1, <2>2, <2>3 DEF IInv, MarkersTrue, Vouches
<1>5. OneAtATime'
  BY DEF IInv, ReadInputs, TypeOK, OneAtATime, Process, Marker
<1>6. CopiesEarned'
  <2> SUFFICES ASSUME ~blemished, NEW q \in Proc
               PROVE  /\ proc'[q].pc \in {"source", "truncate", "fill"}
                           => proc'[q].copy = earned
                      /\ proc'[q].pc = "fill" => marker = Empty
    BY DEF ReadInputs, CopiesEarned
  <2>1. marker = earned
    <3>1. \A r \in Proc : proc[r].pc \notin {"truncate", "fill"}
      BY DEF IInv, OneAtATime, ReadInputs
    <3>2. QED
      BY <3>1 DEF IInv, EarnedIsKept
  <2>2. CASE q = p
    BY <2>1, <2>2 DEF ReadInputs, IInv, TypeOK, Process
  <2>3. CASE q # p
    BY <2>3 DEF ReadInputs, IInv, TypeOK, Process, CopiesEarned
  <2>4. QED
    BY <2>2, <2>3
<1>7. EarnedIsKept'
  BY DEF IInv, ReadInputs, TypeOK, OneAtATime, CopiesEarned, EarnedIsKept, Process,
     Marker
<1>8. QED
  BY <1>1, <1>2, <1>3, <1>4, <1>5, <1>6, <1>7 DEF IInv

LEMMA InputsFailKeeps ==
  ASSUME IInv, NEW p \in Proc, InputsFail(p)
  PROVE  IInv'
<1>1. TypeOK'
  <2>1. PlatformOK'
    BY DEF IInv, InputsFail, TypeOK, PlatformOK
  <2>2. calendar' \subseteq Round /\ voti' \in [Round -> {None, "early", "final"}]
    BY DEF IInv, InputsFail, TypeOK, RowsTrue, PlatformOK
  <2>3. plan' \in 0..MaxDay /\ marker' \in Marker /\ earned' \in Marker
    BY DayAssumption, IdleIsAProcess DEF IInv, InputsFail, TypeOK, PlatformOK, Marker,
       Process
  <2>4. proc' \in [Proc -> Process]
    BY DayAssumption, IdleIsAProcess DEF IInv, InputsFail, TypeOK, PlatformOK, Process,
       Marker
  <2>5. blemished' \in BOOLEAN /\ disturbances' \in 0..MaxDisturbances
    BY DisturbancesAssumption, IdleIsAProcess DEF IInv, InputsFail, TypeOK
  <2>6. QED
    BY <2>1, <2>2, <2>3, <2>4, <2>5 DEF TypeOK
<1>2. RowsTrue'
  BY IdleIsAProcess DEF IInv, InputsFail, TypeOK, RowsTrue, Process, Marker
<1>3. ReadyTrue'
  BY IdleIsAProcess DEF IInv, InputsFail, TypeOK, ReadyTrue, Process, Marker
<1>4. MarkersTrue'
  BY IdleIsAProcess DEF IInv, InputsFail, TypeOK, RowsTrue, MarkersTrue, Process,
     Marker, Vouches
<1>5. OneAtATime'
  BY IdleIsAProcess DEF IInv, InputsFail, TypeOK, OneAtATime, Process, Marker
<1>6. CopiesEarned'
  BY IdleIsAProcess DEF IInv, InputsFail, TypeOK, OneAtATime, CopiesEarned,
     EarnedIsKept, Process, Marker
<1>7. EarnedIsKept'
  BY IdleIsAProcess DEF IInv, InputsFail, TypeOK, OneAtATime, CopiesEarned,
     EarnedIsKept, Process, Marker
<1>8. QED
  BY <1>1, <1>2, <1>3, <1>4, <1>5, <1>6, <1>7 DEF IInv

LEMMA SkipKeeps ==
  ASSUME IInv, NEW p \in Proc, Skip(p)
  PROVE  IInv'
<1>1. TypeOK'
  <2>1. PlatformOK'
    BY DEF IInv, Skip, TypeOK, PlatformOK
  <2>2. calendar' \subseteq Round /\ voti' \in [Round -> {None, "early", "final"}]
    BY DEF IInv, Skip, TypeOK, RowsTrue, PlatformOK
  <2>3. plan' \in 0..MaxDay /\ marker' \in Marker /\ earned' \in Marker
    BY DayAssumption, PassedOn, IdleIsAProcess DEF IInv, Skip, TypeOK, PlatformOK,
       Marker, Process
  <2>4. proc' \in [Proc -> Process]
    BY DayAssumption, PassedOn, IdleIsAProcess DEF IInv, Skip, TypeOK, PlatformOK,
       Process, Marker
  <2>5. blemished' \in BOOLEAN /\ disturbances' \in 0..MaxDisturbances
    BY DisturbancesAssumption, PassedOn, IdleIsAProcess DEF IInv, Skip, TypeOK
  <2>6. QED
    BY <2>1, <2>2, <2>3, <2>4, <2>5 DEF TypeOK
<1>2. RowsTrue'
  BY PassedOn, IdleIsAProcess DEF IInv, Skip, TypeOK, RowsTrue, Process, Marker
<1>3. ReadyTrue'
  BY PassedOn, IdleIsAProcess DEF IInv, Skip, TypeOK, ReadyTrue, Process, Marker
<1>4. MarkersTrue'
  <2>1. Vouches(Passed(p).copy)
    BY PassedOn, IdleIsAProcess DEF IInv, MarkersTrue, Vouches
  <2>2. QED
    BY <2>1 DEF Skip, IInv, TypeOK, MarkersTrue, Vouches
<1>5. OneAtATime'
  BY PassedOn, IdleIsAProcess DEF IInv, Skip, TypeOK, OneAtATime, Process, Marker
<1>6. CopiesEarned'
  <2>1. /\ proc[p].pc = "source" /\ proc'[p] = Passed(p)
        /\ \A q \in Proc : q # p => proc'[q] = proc[q]
    BY DEF Skip, IInv, TypeOK
  <2>2. earned' = earned /\ blemished' = blemished /\ marker' = marker
    BY DEF Skip
  <2>3. blemished \/ proc[p].copy = earned
    BY <2>1 DEF IInv, CopiesEarned
  <2>4. /\ Passed(p).pc \in {"idle", "source"}
        /\ Passed(p).pc = "source" => Passed(p).copy = proc[p].copy
    BY PassedOn DEF IInv
  <2>5. QED
    BY <2>1, <2>2, <2>3, <2>4 DEF IInv, CopiesEarned
<1>7. EarnedIsKept'
  BY PassedOn, IdleIsAProcess DEF IInv, Skip, TypeOK, OneAtATime, CopiesEarned,
     EarnedIsKept, Process, Marker
<1>8. QED
  BY <1>1, <1>2, <1>3, <1>4, <1>5, <1>6, <1>7 DEF IInv

LEMMA SourceFailsKeeps ==
  ASSUME IInv, NEW p \in Proc, SourceFails(p)
  PROVE  IInv'
<1>1. TypeOK'
  <2>1. PlatformOK'
    BY DEF IInv, SourceFails, Scrape, VL!Scraped, TypeOK, PlatformOK
  <2>2. calendar' \subseteq Round /\ voti' \in [Round -> {None, "early", "final"}]
    BY DEF IInv, SourceFails, Scrape, VL!Scraped, TypeOK, RowsTrue, PlatformOK
  <2>3. plan' \in 0..MaxDay /\ marker' \in Marker /\ earned' \in Marker
    BY DayAssumption, PassedOn, IdleIsAProcess DEF IInv, SourceFails, Scrape,
       VL!Scraped, TypeOK, PlatformOK, Marker, Process
  <2>4. proc' \in [Proc -> Process]
    BY DayAssumption, PassedOn, IdleIsAProcess DEF IInv, SourceFails, Scrape,
       VL!Scraped, TypeOK, PlatformOK, Process, Marker
  <2>5. blemished' \in BOOLEAN /\ disturbances' \in 0..MaxDisturbances
    BY DisturbancesAssumption, PassedOn, IdleIsAProcess DEF IInv, SourceFails, Scrape,
       VL!Scraped, TypeOK
  <2>6. QED
    BY <2>1, <2>2, <2>3, <2>4, <2>5 DEF TypeOK
<1>2. RowsTrue'
  <2>1. At(p, "voti") /\ proc[p].ready => proc[p].day - 1 \in calculated
    BY DEF IInv, ReadyTrue
  <2>2. QED
    BY <2>1 DEF SourceFails, Scrape, VL!Scraped, IInv, TypeOK, RowsTrue
<1>3. ReadyTrue'
  BY PassedOn, IdleIsAProcess DEF IInv, SourceFails, Scrape, VL!Scraped, TypeOK,
     ReadyTrue, Process, Marker
<1>4. MarkersTrue'
  <2>1. \A g \in Round : voti[g] = "final" => voti'[g] = "final"
    BY DEF SourceFails, Scrape, VL!Scraped, IInv, TypeOK, RowsTrue
  <2>2. Vouches(marker)' /\ \A q \in Proc : Vouches(proc[q].copy) => Vouches(proc[q].copy)'
                                              \/ q = p
    BY <2>1 DEF SourceFails, IInv, TypeOK, MarkersTrue, Vouches
  <2>3. Vouches(proc[p].copy)'
    <3>1. proc'[p] = Passed(p)
      BY DEF SourceFails, IInv, TypeOK
    <3>2. QED
      <4>1. Vouches(proc[p].copy) /\ Passed(p).copy \in {proc[p].copy, Empty}
        BY PassedOn DEF IInv, MarkersTrue
      <4>2. QED
        BY <2>1, <3>1, <4>1, IdleIsAProcess DEF Vouches
  <2>4. QED
    BY <2>2, <2>3 DEF IInv, MarkersTrue
<1>5. OneAtATime'
  BY PassedOn, IdleIsAProcess DEF IInv, SourceFails, Scrape, VL!Scraped, TypeOK,
     OneAtATime, Process, Marker
<1>6. CopiesEarned'
  <2>1. /\ proc[p].pc = "source" /\ proc'[p] = Passed(p)
        /\ \A q \in Proc : q # p => proc'[q] = proc[q]
    BY DEF SourceFails, IInv, TypeOK
  <2>2. earned' = earned /\ blemished' = blemished /\ marker' = marker
    BY DEF SourceFails
  <2>3. blemished \/ proc[p].copy = earned
    BY <2>1 DEF IInv, CopiesEarned
  <2>4. /\ Passed(p).pc \in {"idle", "source"}
        /\ Passed(p).pc = "source" => Passed(p).copy = proc[p].copy
    BY PassedOn DEF IInv
  <2>5. QED
    BY <2>1, <2>2, <2>3, <2>4 DEF IInv, CopiesEarned
<1>7. EarnedIsKept'
  BY PassedOn, IdleIsAProcess DEF IInv, SourceFails, Scrape, VL!Scraped, TypeOK,
     OneAtATime, CopiesEarned, EarnedIsKept, Process, Marker
<1>8. QED
  BY <1>1, <1>2, <1>3, <1>4, <1>5, <1>6, <1>7 DEF IInv

LEMMA VotiLandKeeps ==
  ASSUME IInv, NEW p \in Proc, VotiLand(p)
  PROVE  IInv'
<1>1. TypeOK'
  <2>1. PlatformOK'
    BY DEF IInv, VotiLand, Succeeded, with_success, Scrape, VL!Scraped, TypeOK,
       PlatformOK
  <2>2. calendar' \subseteq Round /\ voti' \in [Round -> {None, "early", "final"}]
    BY DEF IInv, VotiLand, Succeeded, with_success, Scrape, VL!Scraped, TypeOK,
       RowsTrue, PlatformOK
  <2>3. plan' \in 0..MaxDay /\ marker' \in Marker /\ earned' \in Marker
    <3>1. TypeOK /\ "voti" \in Source /\ Succeeded(p, "voti")
      BY DEF IInv, VotiLand
    <3>2. QED
      BY <3>1, SuccessIsTyped DEF Succeeded, TypeOK
  <2>4. proc' \in [Proc -> Process]
    <3>1. TypeOK /\ "voti" \in Source /\ Succeeded(p, "voti")
      BY DEF IInv, VotiLand
    <3>2. QED
      BY <3>1, SuccessIsTyped
  <2>5. blemished' \in BOOLEAN /\ disturbances' \in 0..MaxDisturbances
    BY DisturbancesAssumption DEF IInv, VotiLand, Succeeded, with_success, Scrape,
       VL!Scraped, TypeOK
  <2>6. QED
    BY <2>1, <2>2, <2>3, <2>4, <2>5 DEF TypeOK
<1>2. RowsTrue'
  BY DEF IInv, VotiLand, Succeeded, with_success, Scrape, VL!Scraped, TypeOK, RowsTrue,
     Process, Marker
<1>3. ReadyTrue'
  BY DEF IInv, VotiLand, Succeeded, with_success, Scrape, VL!Scraped, TypeOK, ReadyTrue,
     Process, Marker
<1>4. MarkersTrue'
  <2>1. proc[p].day - 1 \in calculated /\ proc[p].day - 1 \in Round
    BY DEF VotiLand, IInv, ReadyTrue, TypeOK, PlatformOK
  <2>2. voti'[proc[p].day - 1] = "final"
    BY <2>1 DEF VotiLand, Scrape, VL!Scraped, IInv, TypeOK
  <2>3. \A g \in Round : voti[g] = "final" => voti'[g] = "final"
    BY DEF VotiLand, Scrape, VL!Scraped, IInv, TypeOK, RowsTrue
  <2>4. proc'[p].copy["voti"] = proc[p].day
    BY SuccessIsTyped DEF VotiLand, IInv
  <2>5. \A q \in Proc : q # p => proc'[q] = proc[q]
    BY DEF VotiLand, Succeeded, IInv, TypeOK
  <2>6. Vouches(marker)' /\ \A q \in Proc : q # p => Vouches(proc[q].copy)'
    <3>1. marker' = marker
      BY DEF VotiLand, Succeeded
    <3>2. QED
      BY <2>3, <2>5, <3>1 DEF IInv, MarkersTrue, Vouches
  <2>7. Vouches(proc[p].copy)'
    BY <2>1, <2>2, <2>4 DEF Vouches
  <2>8. QED
    BY <2>6, <2>7 DEF MarkersTrue
<1>5. OneAtATime'
  BY DEF IInv, VotiLand, Succeeded, with_success, Scrape, VL!Scraped, TypeOK,
     OneAtATime, Process, Marker
<1>6. CopiesEarned'
  <2> SUFFICES ASSUME ~blemished, NEW q \in Proc
               PROVE  /\ proc'[q].pc \in {"source", "truncate", "fill"}
                           => proc'[q].copy = earned'
                      /\ proc'[q].pc = "fill" => marker' = Empty
    BY DEF VotiLand, Succeeded, CopiesEarned
  <2>1. CASE q = p
    <3>1. earned' = [earned EXCEPT !["voti"] = proc[p].day] /\ proc[p].copy = earned
      BY DEF VotiLand, At, Succeeded, IInv, CopiesEarned
    <3>2. proc'[p].copy = with_success(proc[p].copy, "voti", proc[p].day)
      BY SuccessIsTyped DEF VotiLand, IInv
    <3>3. proc'[p].pc = "truncate"
      BY DEF VotiLand, Succeeded, IInv, TypeOK, Process
    <3>4. QED
      BY <2>1, <3>1, <3>2, <3>3 DEF with_success
  <2>2. CASE q # p
    BY <2>2 DEF VotiLand, At, Succeeded, IInv, TypeOK, OneAtATime
  <2>3. QED
    BY <2>1, <2>2
<1>7. EarnedIsKept'
  BY DEF IInv, VotiLand, Succeeded, with_success, Scrape, VL!Scraped, TypeOK,
     OneAtATime, CopiesEarned, EarnedIsKept, Process, Marker
<1>8. QED
  BY <1>1, <1>2, <1>3, <1>4, <1>5, <1>6, <1>7 DEF IInv

LEMMA LegaSyncedKeeps ==
  ASSUME IInv, NEW p \in Proc, LegaSynced(p)
  PROVE  IInv'
<1>1. TypeOK'
  <2>1. PlatformOK'
    BY DEF IInv, LegaSynced, Succeeded, with_success, TypeOK, PlatformOK
  <2>2. calendar' \subseteq Round /\ voti' \in [Round -> {None, "early", "final"}]
    BY DEF IInv, LegaSynced, Succeeded, with_success, TypeOK, RowsTrue, PlatformOK
  <2>3. plan' \in 0..MaxDay /\ marker' \in Marker /\ earned' \in Marker
    <3>1. TypeOK /\ "lega" \in Source /\ Succeeded(p, "lega")
      BY DEF IInv, LegaSynced
    <3>2. QED
      BY <3>1, SuccessIsTyped DEF Succeeded, TypeOK
  <2>4. proc' \in [Proc -> Process]
    <3>1. TypeOK /\ "lega" \in Source /\ Succeeded(p, "lega")
      BY DEF IInv, LegaSynced
    <3>2. QED
      BY <3>1, SuccessIsTyped
  <2>5. blemished' \in BOOLEAN /\ disturbances' \in 0..MaxDisturbances
    BY DisturbancesAssumption DEF IInv, LegaSynced, Succeeded, with_success, TypeOK
  <2>6. QED
    BY <2>1, <2>2, <2>3, <2>4, <2>5 DEF TypeOK
<1>2. RowsTrue'
  BY DEF IInv, LegaSynced, Succeeded, with_success, TypeOK, RowsTrue, Process, Marker
<1>3. ReadyTrue'
  <2>1. \A q \in Proc : proc'[q].ready = proc[q].ready /\ proc'[q].day = proc[q].day
    BY DEF LegaSynced, Succeeded, IInv, TypeOK
  <2>2. calculated' = calculated
    BY DEF LegaSynced, Succeeded
  <2>3. QED
    BY <2>1, <2>2 DEF IInv, ReadyTrue
<1>4. MarkersTrue'
  <2>1. proc'[p].copy = with_success(proc[p].copy, "lega", proc[p].day)
    BY SuccessIsTyped DEF LegaSynced, IInv
  <2>2. proc'[p].copy["voti"] = proc[p].copy["voti"]
    BY <2>1 DEF with_success, IInv, TypeOK, Process, Marker
  <2>3. \A q \in Proc : q # p => proc'[q] = proc[q]
    BY DEF LegaSynced, Succeeded, IInv, TypeOK
  <2>4. voti' = voti /\ marker' = marker
    BY DEF LegaSynced, Succeeded
  <2>5. QED
    BY <2>2, <2>3, <2>4 DEF IInv, MarkersTrue, Vouches
<1>5. OneAtATime'
  BY DEF IInv, LegaSynced, Succeeded, with_success, TypeOK, OneAtATime, Process, Marker
<1>6. CopiesEarned'
  <2> SUFFICES ASSUME ~blemished, NEW q \in Proc
               PROVE  /\ proc'[q].pc \in {"source", "truncate", "fill"}
                           => proc'[q].copy = earned'
                      /\ proc'[q].pc = "fill" => marker' = Empty
    BY DEF LegaSynced, Succeeded, CopiesEarned
  <2>1. CASE q = p
    <3>1. earned' = [earned EXCEPT !["lega"] = proc[p].day] /\ proc[p].copy = earned
      BY DEF LegaSynced, At, Succeeded, IInv, CopiesEarned
    <3>2. proc'[p].copy = with_success(proc[p].copy, "lega", proc[p].day)
      BY SuccessIsTyped DEF LegaSynced, IInv
    <3>3. proc'[p].pc = "truncate"
      BY DEF LegaSynced, Succeeded, IInv, TypeOK, Process
    <3>4. QED
      BY <2>1, <3>1, <3>2, <3>3 DEF with_success
  <2>2. CASE q # p
    BY <2>2 DEF LegaSynced, At, Succeeded, IInv, TypeOK, OneAtATime
  <2>3. QED
    BY <2>1, <2>2
<1>7. EarnedIsKept'
  BY DEF IInv, LegaSynced, Succeeded, with_success, TypeOK, OneAtATime, CopiesEarned,
     EarnedIsKept, Process, Marker
<1>8. QED
  BY <1>1, <1>2, <1>3, <1>4, <1>5, <1>6, <1>7 DEF IInv

LEMMA NewsFetchedKeeps ==
  ASSUME IInv, NEW p \in Proc, NewsFetched(p)
  PROVE  IInv'
<1>1. TypeOK'
  <2>1. PlatformOK'
    BY DEF IInv, NewsFetched, Succeeded, with_success, TypeOK, PlatformOK
  <2>2. calendar' \subseteq Round /\ voti' \in [Round -> {None, "early", "final"}]
    BY DEF IInv, NewsFetched, Succeeded, with_success, TypeOK, RowsTrue, PlatformOK
  <2>3. plan' \in 0..MaxDay /\ marker' \in Marker /\ earned' \in Marker
    <3>1. TypeOK /\ "news" \in Source /\ Succeeded(p, "news")
      BY DEF IInv, NewsFetched
    <3>2. QED
      BY <3>1, SuccessIsTyped DEF Succeeded, TypeOK
  <2>4. proc' \in [Proc -> Process]
    <3>1. TypeOK /\ "news" \in Source /\ Succeeded(p, "news")
      BY DEF IInv, NewsFetched
    <3>2. QED
      BY <3>1, SuccessIsTyped
  <2>5. blemished' \in BOOLEAN /\ disturbances' \in 0..MaxDisturbances
    BY DisturbancesAssumption DEF IInv, NewsFetched, Succeeded, with_success, TypeOK
  <2>6. QED
    BY <2>1, <2>2, <2>3, <2>4, <2>5 DEF TypeOK
<1>2. RowsTrue'
  BY DEF IInv, NewsFetched, Succeeded, with_success, TypeOK, RowsTrue, Process, Marker
<1>3. ReadyTrue'
  <2>1. \A q \in Proc : proc'[q].ready = proc[q].ready /\ proc'[q].day = proc[q].day
    BY DEF NewsFetched, Succeeded, IInv, TypeOK
  <2>2. calculated' = calculated
    BY DEF NewsFetched, Succeeded
  <2>3. QED
    BY <2>1, <2>2 DEF IInv, ReadyTrue
<1>4. MarkersTrue'
  <2>1. proc'[p].copy = with_success(proc[p].copy, "news", proc[p].day)
    BY SuccessIsTyped DEF NewsFetched, IInv
  <2>2. proc'[p].copy["voti"] = proc[p].copy["voti"]
    BY <2>1 DEF with_success, IInv, TypeOK, Process, Marker
  <2>3. \A q \in Proc : q # p => proc'[q] = proc[q]
    BY DEF NewsFetched, Succeeded, IInv, TypeOK
  <2>4. voti' = voti /\ marker' = marker
    BY DEF NewsFetched, Succeeded
  <2>5. QED
    BY <2>2, <2>3, <2>4 DEF IInv, MarkersTrue, Vouches
<1>5. OneAtATime'
  BY DEF IInv, NewsFetched, Succeeded, with_success, TypeOK, OneAtATime, Process, Marker
<1>6. CopiesEarned'
  <2> SUFFICES ASSUME ~blemished, NEW q \in Proc
               PROVE  /\ proc'[q].pc \in {"source", "truncate", "fill"}
                           => proc'[q].copy = earned'
                      /\ proc'[q].pc = "fill" => marker' = Empty
    BY DEF NewsFetched, Succeeded, CopiesEarned
  <2>1. CASE q = p
    <3>1. earned' = [earned EXCEPT !["news"] = proc[p].day] /\ proc[p].copy = earned
      BY DEF NewsFetched, At, Succeeded, IInv, CopiesEarned
    <3>2. proc'[p].copy = with_success(proc[p].copy, "news", proc[p].day)
      BY SuccessIsTyped DEF NewsFetched, IInv
    <3>3. proc'[p].pc = "truncate"
      BY DEF NewsFetched, Succeeded, IInv, TypeOK, Process
    <3>4. QED
      BY <2>1, <3>1, <3>2, <3>3 DEF with_success
  <2>2. CASE q # p
    BY <2>2 DEF NewsFetched, At, Succeeded, IInv, TypeOK, OneAtATime
  <2>3. QED
    BY <2>1, <2>2
<1>7. EarnedIsKept'
  BY DEF IInv, NewsFetched, Succeeded, with_success, TypeOK, OneAtATime, CopiesEarned,
     EarnedIsKept, Process, Marker
<1>8. QED
  BY <1>1, <1>2, <1>3, <1>4, <1>5, <1>6, <1>7 DEF IInv

LEMMA TruncateKeeps ==
  ASSUME IInv, NEW p \in Proc, Truncate(p)
  PROVE  IInv'
<1>1. TypeOK'
  <2>1. PlatformOK'
    BY DEF IInv, Truncate, TypeOK, PlatformOK
  <2>2. calendar' \subseteq Round /\ voti' \in [Round -> {None, "early", "final"}]
    BY DEF IInv, Truncate, TypeOK, RowsTrue, PlatformOK
  <2>3. plan' \in 0..MaxDay /\ marker' \in Marker /\ earned' \in Marker
    BY DayAssumption, IdleIsAProcess DEF IInv, Truncate, TypeOK, PlatformOK, Marker,
       Process
  <2>4. proc' \in [Proc -> Process]
    <3>1. proc[p] \in Process
      BY DEF IInv, TypeOK
    <3>2. [proc[p] EXCEPT !.pc = "fill"] \in Process
      BY <3>1 DEF Process
    <3>3. proc' = [proc EXCEPT ![p] = [proc[p] EXCEPT !.pc = "fill"]]
      BY DEF Truncate, IInv, TypeOK
    <3>4. QED
      BY <3>2, <3>3 DEF IInv, TypeOK
  <2>5. blemished' \in BOOLEAN /\ disturbances' \in 0..MaxDisturbances
    BY DisturbancesAssumption, IdleIsAProcess DEF IInv, Truncate, TypeOK
  <2>6. QED
    BY <2>1, <2>2, <2>3, <2>4, <2>5 DEF TypeOK
<1>2. RowsTrue'
  BY IdleIsAProcess DEF IInv, Truncate, TypeOK, RowsTrue, Process, Marker
<1>3. ReadyTrue'
  BY IdleIsAProcess DEF IInv, Truncate, TypeOK, ReadyTrue, Process, Marker
<1>4. MarkersTrue'
  <2>1. \A q \in Proc : proc'[q].copy = proc[q].copy
    BY DEF Truncate, IInv, TypeOK
  <2>2. voti' = voti /\ marker' = Empty
    BY DEF Truncate
  <2>3. QED
    BY <2>1, <2>2, IdleIsAProcess DEF IInv, MarkersTrue, Vouches
<1>5. OneAtATime'
  BY IdleIsAProcess DEF IInv, Truncate, TypeOK, OneAtATime, Process, Marker
<1>6. CopiesEarned'
  <2>1. /\ proc[p].pc = "truncate" /\ proc'[p].pc = "fill" /\ proc'[p].copy = proc[p].copy
        /\ \A q \in Proc : q # p => proc'[q] = proc[q]
    BY DEF Truncate, IInv, TypeOK
  <2>2. marker' = Empty /\ earned' = earned /\ blemished' = blemished
    BY DEF Truncate
  <2>3. QED
    BY <2>1, <2>2 DEF IInv, OneAtATime, CopiesEarned
<1>7. EarnedIsKept'
  BY IdleIsAProcess DEF IInv, Truncate, TypeOK, OneAtATime, CopiesEarned, EarnedIsKept,
     Process, Marker
<1>8. QED
  BY <1>1, <1>2, <1>3, <1>4, <1>5, <1>6, <1>7 DEF IInv

LEMMA FillKeeps ==
  ASSUME IInv, NEW p \in Proc, Fill(p)
  PROVE  IInv'
<1>1. TypeOK'
  <2>1. PlatformOK'
    BY DEF IInv, Fill, TypeOK, PlatformOK
  <2>2. calendar' \subseteq Round /\ voti' \in [Round -> {None, "early", "final"}]
    BY DEF IInv, Fill, TypeOK, RowsTrue, PlatformOK
  <2>3. plan' \in 0..MaxDay /\ marker' \in Marker /\ earned' \in Marker
    <3>1. proc[p].copy \in Marker
      BY DEF IInv, TypeOK, Process
    <3>2. QED
      BY <3>1, IdleIsAProcess DEF Fill, IInv, TypeOK
  <2>4. proc' \in [Proc -> Process]
    BY DayAssumption, PassedOn, IdleIsAProcess DEF IInv, Fill, TypeOK, PlatformOK,
       Process, Marker
  <2>5. blemished' \in BOOLEAN /\ disturbances' \in 0..MaxDisturbances
    BY DisturbancesAssumption, PassedOn, IdleIsAProcess DEF IInv, Fill, TypeOK
  <2>6. QED
    BY <2>1, <2>2, <2>3, <2>4, <2>5 DEF TypeOK
<1>2. RowsTrue'
  BY PassedOn, IdleIsAProcess DEF IInv, Fill, TypeOK, RowsTrue, Process, Marker
<1>3. ReadyTrue'
  BY PassedOn, IdleIsAProcess DEF IInv, Fill, TypeOK, ReadyTrue, Process, Marker
<1>4. MarkersTrue'
  <2>1. Vouches(Passed(p).copy) /\ Vouches(Empty)
    BY PassedOn, IdleIsAProcess DEF IInv, MarkersTrue, Vouches
  <2>2. Vouches(marker')
    BY <2>1 DEF Fill, IInv, MarkersTrue
  <2>3. \A q \in Proc : proc'[q] = proc[q] \/ proc'[q] = Passed(p)
    BY DEF Fill, IInv, TypeOK
  <2>4. \A q \in Proc : Vouches(proc'[q].copy)
    BY <2>1, <2>3 DEF IInv, MarkersTrue
  <2>5. voti' = voti
    BY DEF Fill
  <2>6. QED
    BY <2>2, <2>4, <2>5 DEF MarkersTrue, Vouches
<1>5. OneAtATime'
  BY PassedOn, IdleIsAProcess DEF IInv, Fill, TypeOK, OneAtATime, Process, Marker
<1>6. CopiesEarned'
  <2>1. /\ proc[p].pc = "fill" /\ proc'[p] = Passed(p)
        /\ \A q \in Proc : q # p => proc'[q] = proc[q]
    BY DEF Fill, IInv, TypeOK
  <2>2. earned' = earned /\ blemished' = blemished
    BY DEF Fill
  <2>3. blemished \/ \A q \in Proc : q # p => proc[q].pc = "idle"
    BY <2>1 DEF IInv, OneAtATime
  <2>4. blemished \/ proc[p].copy = earned
    BY <2>1 DEF IInv, CopiesEarned
  <2>5. /\ Passed(p).pc \in {"idle", "source"}
        /\ Passed(p).pc = "source" => Passed(p).copy = proc[p].copy
    BY PassedOn DEF IInv
  <2>6. QED
    BY <2>1, <2>2, <2>3, <2>4, <2>5 DEF IInv, CopiesEarned
<1>7. EarnedIsKept'
  BY PassedOn, IdleIsAProcess DEF IInv, Fill, TypeOK, OneAtATime, CopiesEarned,
     EarnedIsKept, Process, Marker
<1>8. QED
  BY <1>1, <1>2, <1>3, <1>4, <1>5, <1>6, <1>7 DEF IInv

LEMMA WriteFailsKeeps ==
  ASSUME IInv, NEW p \in Proc, WriteFails(p)
  PROVE  IInv'
<1>1. TypeOK'
  <2>1. PlatformOK'
    BY DEF IInv, WriteFails, Disturb, Blemish, TypeOK, PlatformOK
  <2>2. calendar' \subseteq Round /\ voti' \in [Round -> {None, "early", "final"}]
    BY DEF IInv, WriteFails, Disturb, Blemish, TypeOK, RowsTrue, PlatformOK
  <2>3. plan' \in 0..MaxDay /\ marker' \in Marker /\ earned' \in Marker
    BY DayAssumption, PassedOn, IdleIsAProcess DEF IInv, WriteFails, Disturb, Blemish,
       TypeOK, PlatformOK, Marker, Process
  <2>4. proc' \in [Proc -> Process]
    BY DayAssumption, PassedOn, IdleIsAProcess DEF IInv, WriteFails, Disturb, Blemish,
       TypeOK, PlatformOK, Process, Marker
  <2>5. blemished' \in BOOLEAN /\ disturbances' \in 0..MaxDisturbances
    BY DisturbancesAssumption, PassedOn, IdleIsAProcess DEF IInv, WriteFails, Disturb,
       Blemish, TypeOK
  <2>6. QED
    BY <2>1, <2>2, <2>3, <2>4, <2>5 DEF TypeOK
<1>2. RowsTrue'
  BY PassedOn, IdleIsAProcess DEF IInv, WriteFails, Disturb, Blemish, TypeOK, RowsTrue,
     Process, Marker
<1>3. ReadyTrue'
  BY PassedOn, IdleIsAProcess DEF IInv, WriteFails, Disturb, Blemish, TypeOK, ReadyTrue,
     Process, Marker
<1>4. MarkersTrue'
  <2>1. Vouches(Passed(p).copy)
    BY PassedOn, IdleIsAProcess DEF IInv, MarkersTrue, Vouches
  <2>2. \A q \in Proc : proc'[q] = proc[q] \/ proc'[q] = Passed(p)
    BY DEF WriteFails, IInv, TypeOK
  <2>3. \A q \in Proc : Vouches(proc'[q].copy)
    BY <2>1, <2>2 DEF IInv, MarkersTrue
  <2>4. voti' = voti /\ marker' = marker
    BY DEF WriteFails
  <2>5. QED
    BY <2>3, <2>4 DEF IInv, MarkersTrue, Vouches
<1>5. OneAtATime'
  BY PassedOn, IdleIsAProcess DEF IInv, WriteFails, Disturb, Blemish, TypeOK,
     OneAtATime, Process, Marker
<1>6. CopiesEarned'
  BY PassedOn, IdleIsAProcess DEF IInv, WriteFails, Disturb, Blemish, TypeOK,
     OneAtATime, CopiesEarned, EarnedIsKept, Process, Marker
<1>7. EarnedIsKept'
  BY PassedOn, IdleIsAProcess DEF IInv, WriteFails, Disturb, Blemish, TypeOK,
     OneAtATime, CopiesEarned, EarnedIsKept, Process, Marker
<1>8. QED
  BY <1>1, <1>2, <1>3, <1>4, <1>5, <1>6, <1>7 DEF IInv

-----------------------------------------------------------------------------
LEMMA InitKeeps == Init => IInv
<1> SUFFICES ASSUME Init
             PROVE  IInv
  OBVIOUS
<1>1. TypeOK
  <2>1. PlatformOK /\ calendar \subseteq Round /\ voti \in [Round -> {None, "early", "final"}]
    BY DayAssumption DEF Init, PlatformInit, PlatformOK
  <2>2. plan \in 0..MaxDay /\ marker \in Marker /\ earned \in Marker
    BY DayAssumption, IdleIsAProcess DEF Init
  <2>3. proc \in [Proc -> Process]
    BY IdleIsAProcess DEF Init
  <2>4. blemished \in BOOLEAN
    BY DEF Init
  <2>5. disturbances \in 0..MaxDisturbances
    BY DisturbancesAssumption DEF Init
  <2>6. QED
    BY <2>1, <2>2, <2>3, <2>4, <2>5 DEF TypeOK
<1>2. \A p \in Proc : proc[p] = NoRefresh
  BY DEF Init
<1>3. RowsTrue /\ ReadyTrue
  BY <1>2, IdleIsAProcess DEF Init, PlatformInit, RowsTrue, ReadyTrue
<1>4. MarkersTrue
  BY <1>2, IdleIsAProcess DEF Init, MarkersTrue, Vouches
<1>5. OneAtATime /\ CopiesEarned /\ EarnedIsKept
  BY <1>2, IdleIsAProcess DEF Init, OneAtATime, CopiesEarned, EarnedIsKept
<1>6. QED
  BY <1>1, <1>3, <1>4, <1>5 DEF IInv

LEMMA StepKeeps == IInv /\ [Next]_vars => IInv'
<1> SUFFICES ASSUME IInv, [Next]_vars
             PROVE  IInv'
  OBVIOUS
<1>1. CASE World
  BY <1>1, WorldKeeps
<1>2. CASE \E g \in Round : OperatorScrape(g)
  BY <1>2, OperatorScrapeKeeps
<1>3. CASE BuildPlan
  BY <1>3, BuildPlanKeeps
<1>4. CASE EndJob
  BY <1>4, EndJobKeeps
<1>5. CASE StartChild
  BY <1>5, StartChildKeeps
<1>6. CASE \E p \in Other : Orphan(p)
  BY <1>6, OrphanKeeps
<1>7. CASE \E p \in Other : OperatorRefresh(p)
  BY <1>7, OperatorRefreshKeeps
<1>8. CASE \E p \in Proc : Kill(p)
  BY <1>8, KillKeeps
<1>9. CASE \E p \in Proc : ReadInputs(p)
  BY <1>9, ReadInputsKeeps
<1>10. CASE \E p \in Proc : InputsFail(p)
  BY <1>10, InputsFailKeeps
<1>11. CASE \E p \in Proc : Skip(p)
  BY <1>11, SkipKeeps
<1>12. CASE \E p \in Proc : SourceFails(p)
  BY <1>12, SourceFailsKeeps
<1>13. CASE \E p \in Proc : VotiLand(p)
  BY <1>13, VotiLandKeeps
<1>14. CASE \E p \in Proc : LegaSynced(p)
  BY <1>14, LegaSyncedKeeps
<1>15. CASE \E p \in Proc : NewsFetched(p)
  BY <1>15, NewsFetchedKeeps
<1>16. CASE \E p \in Proc : Truncate(p)
  BY <1>16, TruncateKeeps
<1>17. CASE \E p \in Proc : Fill(p)
  BY <1>17, FillKeeps
<1>18. CASE \E p \in Proc : WriteFails(p)
  BY <1>18, WriteFailsKeeps
<1>19. CASE UNCHANGED vars
  BY <1>19 DEF vars, IInv, TypeOK, PlatformOK, RowsTrue, ReadyTrue, MarkersTrue, Vouches,
     OneAtATime, CopiesEarned, EarnedIsKept
<1>20. QED
  BY <1>1, <1>2, <1>3, <1>4, <1>5, <1>6, <1>7, <1>8, <1>9, <1>10, <1>11, <1>12, <1>13,
     <1>14, <1>15, <1>16, <1>17, <1>18, <1>19 DEF Next, Refresh

LEMMA Invariance == Spec => []IInv
BY InitKeeps, StepKeeps, PTL DEF Spec

\* Every variable keeps its shape.
THEOREM TypeCorrect == Spec => []TypeOK
<1>1. IInv => TypeOK
  BY DEF IInv
<1>2. QED
  BY <1>1, Invariance, PTL

\* A refresh that is not killed or refused between a success and its write, and does not
\* overlap another, keeps every success it has had, whatever fails around it.
THEOREM NothingEarnedIsLost == Spec => []EarnedIsKept
<1>1. IInv => EarnedIsKept
  BY DEF IInv
<1>2. QED
  BY <1>1, Invariance, PTL

\* A step of the refresh, of the platform or of a scrape is a step of the ledger or none.
LEMMA StepIsLedgers == IInv /\ [Next]_vars => [VL!LedgerNext]_(VL!ledger)
<1> USE DEF VL!ledger, VL!LedgerNext, VL!LedgerRound
<1> SUFFICES ASSUME IInv, [Next]_vars
             PROVE  VL!LedgerNext \/ UNCHANGED VL!ledger
  OBVIOUS
<1>1. CASE World
  BY <1>1 DEF World, PlatformStep, Tick, AdvanceStatus, AdvanceLineup, Calculate,
     VL!RoundCalculated
<1>2. CASE \E g \in Round : OperatorScrape(g)
  BY <1>2 DEF OperatorScrape, Scrape, VL!Scrape
<1>3. CASE BuildPlan \/ EndJob \/ StartChild
  BY <1>3 DEF BuildPlan, EndJob, StartChild, Spawn
<1>4. CASE \E p \in Other : Orphan(p) \/ OperatorRefresh(p)
  BY <1>4 DEF Orphan, OperatorRefresh, Spawn
<1>5. ASSUME NEW p \in Proc, VotiLand(p)
      PROVE  VL!LedgerNext
  <2>1. proc[p].day - 1 \in Round
    BY <1>5, DayAssumption DEF VotiLand, IInv, TypeOK, PlatformOK, ReadyTrue
  <2>2. QED
    BY <1>5, <2>1 DEF VotiLand, Scrape, Succeeded, VL!Scrape
<1>6. ASSUME NEW p \in Proc, SourceFails(p)
      PROVE  VL!LedgerNext \/ UNCHANGED VL!ledger
  <2>1. At(p, "voti") /\ proc[p].ready => proc[p].day - 1 \in Round
    BY <1>6, DayAssumption DEF IInv, TypeOK, PlatformOK, ReadyTrue
  <2>2. QED
    BY <1>6, <2>1 DEF SourceFails, Scrape, VL!Scrape
<1>7. ASSUME NEW p \in Proc, Truncate(p)
      PROVE  VL!LedgerNext
  BY <1>7, IdleIsAProcess DEF Truncate, VL!Forget
<1>8. ASSUME NEW p \in Proc, Fill(p)
      PROVE  VL!LedgerNext \/ UNCHANGED VL!ledger
  <2>1. CASE marker' = Empty
    BY <1>8, <2>1, IdleIsAProcess DEF Fill, VL!Forget
  <2>2. CASE marker' = proc[p].copy
    <3>1. proc[p].copy["voti"] = 0 \/ proc[p].copy["voti"] \in 2..MaxDay
      BY DayAssumption DEF IInv, TypeOK, Process, Marker, MarkersTrue, Vouches
    <3>2. QED
      BY <1>8, <2>2, <3>1 DEF Fill, IInv, MarkersTrue, Vouches, VL!Forget, VL!Record
  <2>3. QED
    BY <1>8, <2>1, <2>2 DEF Fill
<1>9. ASSUME NEW p \in Proc,
             \/ Kill(p) \/ ReadInputs(p) \/ InputsFail(p) \/ Skip(p)
             \/ LegaSynced(p) \/ NewsFetched(p) \/ WriteFails(p)
      PROVE  UNCHANGED VL!ledger
  BY <1>9 DEF Kill, ReadInputs, InputsFail, Skip, LegaSynced, NewsFetched, WriteFails,
     Succeeded
<1>10. CASE UNCHANGED vars
  BY <1>10 DEF vars
<1>11. QED
  BY <1>1, <1>2, <1>3, <1>4, <1>5, <1>6, <1>7, <1>8, <1>9, <1>10 DEF Next, Refresh

\* The refinement: whatever refreshes overlap, are killed or find an emptied file, the
\* marker and the rows move as the ledger allows.
THEOREM LedgerImplemented == Spec => KeepsLedger
<1>1. Init => VL!LedgerInit
  BY IdleIsAProcess DEF Init, PlatformInit, VL!LedgerInit, VL!LedgerRound
<1>2. QED
  BY <1>1, Invariance, StepIsLedgers, PTL DEF Spec, KeepsLedger, VL!Ledger

\* So the voti success on record always vouches for rows scraped after their round was
\* calculated.
THEOREM RecordVouches == Spec => []VL!Vouched
BY LedgerImplemented, VL!LedgerVouches, PTL DEF KeepsLedger
=============================================================================
