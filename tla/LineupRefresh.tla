---------------------------- MODULE LineupRefresh ----------------------------
(***************************************************************************)
(* The hourly refresh: after the lineup job has written its record, a child *)
(* process brings the history up to date: the voti the projection is fitted *)
(* on, the lega's calendar, the news.  A small file, the marker, holds the  *)
(* matchday of each source's last success; a source is due while that is    *)
(* not the matchday being planned.                                          *)
(*                                                                          *)
(* The job waits for its child behind a wall.  A job that is killed leaves  *)
(* the child running, and the operator may run a refresh by hand: two       *)
(* refreshes may share the marker.                                          *)
(***************************************************************************)
EXTENDS LineupPlatform

CONSTANTS Other,            \* the processes besides the one the job waits for
          MaxDisturbances   \* refreshes typed by hand, processes or jobs killed,
                            \* markers that could not be written

ASSUME DisturbancesAssumption == MaxDisturbances \in Nat

Child  == "child"                      \* the process the job waits for
Proc   == Other \cup {Child}
Source == {"voti", "lega", "news"}     \* in the order the refresh runs them
Marker == [Source -> 0..MaxDay]        \* 0: no success on record
Empty  == [s \in Source |-> 0]         \* no file, or one that does not parse
Process == [pc : {"idle", "inputs", "source", "truncate", "fill"}, day : Day,
            ready : BOOLEAN, open : BOOLEAN, at : Source, copy : Marker]

VARIABLES
  calendar,     \* the rounds our copy of the lega's calendar says are calculated
  voti,         \* per giornata, our rows: none, early (they may still change), final
  plan,         \* the matchday of the plan the running job has built, 0 if there is none
  marker,       \* the refresh marker's file
  proc,         \* the refresh processes
  earned,       \* the successes the refreshes have had (auxiliary)
  blemished,    \* one was lost before its write, or two overlapped (auxiliary)
  disturbances

data == <<calendar, voti>>
aux  == <<earned, blemished>>
vars == <<platform, data, plan, marker, proc, aux, disturbances>>

NoRefresh == [pc |-> "idle", day |-> 1, ready |-> FALSE, open |-> FALSE, at |-> "voti",
              copy |-> Empty]

Init ==
  /\ PlatformInit
  /\ calendar = {} /\ voti = [g \in Round |-> None]
  /\ plan = 0 /\ marker = Empty
  /\ proc = [p \in Proc |-> NoRefresh]
  /\ earned = Empty /\ blemished = FALSE
  /\ disturbances = 0

World == PlatformStep /\ UNCHANGED <<data, plan, marker, proc, aux, disturbances>>

VL == INSTANCE VotiLedger WITH recorded <- marker["voti"]

\* Rows of a giornata: final once its round is calculated.
Scrape(g) == voti' = [voti EXCEPT ![g] = VL!Scraped(g)]

\* A full scrape asked for by the operator: it does not look at the calendar.
OperatorScrape(g) ==
  /\ Started(g)
  /\ Scrape(g)
  /\ UNCHANGED <<platform, calendar, plan, marker, proc, aux, disturbances>>

-----------------------------------------------------------------------------
(* A refresh starts, ends, and is killed.                                   *)

\* Which sources a matchday still owes.
due(m, day) == {s \in Source : m[s] # day}

Running(p) == proc[p].pc # "idle"

Disturb == /\ disturbances < MaxDisturbances
           /\ disturbances' = disturbances + 1

\* From the first loss on, what was earned is no longer followed.
Blemish(loss) == /\ blemished' = (blemished \/ loss)
                 /\ earned' = IF blemished' THEN Empty ELSE earned

Spawn(p, day) ==
  /\ ~Running(p)
  /\ proc' = [proc EXCEPT ![p] = [NoRefresh EXCEPT !.pc = "inputs", !.day = day]]
  /\ Blemish(\E q \in Proc : Running(q))
  /\ UNCHANGED <<platform, data, marker>>

\* A job builds its plan; it may end without asking for a refresh.
BuildPlan ==
  /\ plan = 0 /\ ~Running(Child)
  /\ plan' = lineupDay
  /\ UNCHANGED <<platform, data, marker, proc, aux, disturbances>>

EndJob ==
  /\ plan # 0 /\ plan' = 0
  /\ UNCHANGED <<platform, data, marker, proc, aux, disturbances>>

\* Its record written, the job starts its child for the matchday of its plan, and waits.
StartChild ==
  /\ plan # 0 /\ due(marker, plan) # {}
  /\ Spawn(Child, plan)
  /\ plan' = 0
  /\ UNCHANGED disturbances

\* The job is killed; its child has a session of its own and runs on.
Orphan(p) ==
  /\ Running(Child) /\ ~Running(p) /\ Disturb
  /\ proc' = [proc EXCEPT ![p] = proc[Child], ![Child] = NoRefresh]
  /\ UNCHANGED <<platform, data, plan, marker, aux>>

\* `fantabot lineup refresh` typed by the operator.
OperatorRefresh(p) == Spawn(p, lineupDay) /\ Disturb /\ UNCHANGED plan

\* The wall (run_grouped kills the child's whole group) or a crash: what was earned and not
\* yet written is lost.
Kill(p) ==
  /\ Running(p) /\ Disturb
  /\ proc' = [proc EXCEPT ![p] = NoRefresh]
  /\ Blemish(proc[p].pc \in {"truncate", "fill"})
  /\ UNCHANGED <<platform, data, plan, marker>>

\* Mutants of previous_calculated: the calendar is not asked; the wrong round is.
notCalculated(day) == day > 1
sameCalculated(day) == day \in calendar

\* What voti_giornate asks the calendar copy: false when the lega has no round there.
previous_calculated(day) == day - 1 \in calendar

\* The calendar copy says whether the voti may be asked for, the platform's clock whether
\* the news may, and the marker what is owed.
ReadInputs(p) ==
  /\ proc[p].pc = "inputs"
  /\ proc' = [proc EXCEPT
       ![p].pc = "source",
       ![p].ready = "voti" \in due(marker, proc[p].day) /\ previous_calculated(proc[p].day),
       ![p].open = /\ "news" \in due(marker, proc[p].day)
                   /\ statusDay = proc[p].day /\ phase = "news",
       ![p].copy = marker]
  /\ UNCHANGED <<platform, data, plan, marker, aux, disturbances>>

InputsFail(p) ==
  /\ proc[p].pc = "inputs"
  /\ proc' = [proc EXCEPT ![p] = NoRefresh]
  /\ UNCHANGED <<platform, data, plan, marker, aux, disturbances>>

After(s) == CASE s = "voti" -> "lega" [] s = "lega" -> "news"

\* On to the next source, or done.
Passed(p) == IF proc[p].at = "news" THEN NoRefresh
             ELSE [proc[p] EXCEPT !.pc = "source", !.at = After(proc[p].at), !.ready = FALSE]

At(p, s) == proc[p].pc = "source" /\ proc[p].at = s /\ s \in due(proc[p].copy, proc[p].day)

\* Done for this matchday, stood down, or failed: nothing is recorded.
Skip(p) ==
  /\ proc[p].pc = "source"
  /\ \/ ~At(p, proc[p].at)
     \/ At(p, "voti") /\ ~proc[p].ready
     \/ At(p, "news")
  /\ proc' = [proc EXCEPT ![p] = Passed(p)]
  /\ UNCHANGED <<platform, data, plan, marker, aux, disturbances>>

\* A source fails, part of what it read possibly written.
SourceFails(p) ==
  /\ \/ /\ At(p, "voti") /\ proc[p].ready
        /\ Scrape(proc[p].day - 1) \/ UNCHANGED voti
        /\ UNCHANGED calendar
     \/ /\ At(p, "lega")
        /\ calendar' \in {calendar, calculated}
        /\ UNCHANGED voti
  /\ proc' = [proc EXCEPT ![p] = Passed(p)]
  /\ UNCHANGED <<platform, plan, marker, aux, disturbances>>

\* Mutants of with_success: the older successes are not carried over; the next matchday's.
successAlone(m, s, day) == [Empty EXCEPT ![s] = day]
successAhead(m, s, day) == [m EXCEPT ![s] = day + 1]

with_success(m, s, day) == [m EXCEPT ![s] = day]

Succeeded(p, s) ==
  /\ proc' = [proc EXCEPT ![p].pc = "truncate",
                          ![p].copy = with_success(proc[p].copy, s, proc[p].day)]
  /\ earned' = IF blemished THEN Empty ELSE [earned EXCEPT ![s] = proc[p].day]
  /\ UNCHANGED <<blemished, platform, plan, marker, disturbances>>

VotiLand(p) ==
  /\ At(p, "voti") /\ proc[p].ready
  /\ Scrape(proc[p].day - 1)
  /\ Succeeded(p, "voti")
  /\ UNCHANGED calendar

LegaSynced(p) ==
  /\ At(p, "lega")
  /\ calendar' = calculated
  /\ Succeeded(p, "lega")
  /\ UNCHANGED voti

NewsFetched(p) ==
  /\ At(p, "news") /\ proc[p].open
  /\ Succeeded(p, "news")
  /\ UNCHANGED data

\* The marker is written after each source: opening the file empties it,
Truncate(p) ==
  /\ proc[p].pc = "truncate"
  /\ marker' = Empty
  /\ proc' = [proc EXCEPT ![p].pc = "fill"]
  /\ UNCHANGED <<platform, data, plan, aux, disturbances>>

\* closing it writes.  Where another process has written meanwhile, the shorter text leaves
\* the tail of the longer one behind it.
Fill(p) ==
  /\ proc[p].pc = "fill"
  /\ \/ marker' = proc[p].copy
     \/ marker # Empty /\ marker' = Empty
  /\ proc' = [proc EXCEPT ![p] = Passed(p)]
  /\ UNCHANGED <<platform, data, plan, aux, disturbances>>

\* The file cannot be written: reported, and the next source tries again.
WriteFails(p) ==
  /\ proc[p].pc = "truncate" /\ Disturb
  /\ proc' = [proc EXCEPT ![p] = Passed(p)]
  /\ Blemish(TRUE)
  /\ UNCHANGED <<platform, data, plan, marker>>

-----------------------------------------------------------------------------
Refresh(p) == \/ Kill(p)
              \/ ReadInputs(p) \/ InputsFail(p)
              \/ Skip(p) \/ SourceFails(p)
              \/ VotiLand(p) \/ LegaSynced(p) \/ NewsFetched(p)
              \/ Truncate(p) \/ Fill(p) \/ WriteFails(p)

Next == \/ World
        \/ \E g \in Round : OperatorScrape(g)
        \/ BuildPlan \/ EndJob \/ StartChild
        \/ \E p \in Other : Orphan(p) \/ OperatorRefresh(p)
        \/ \E p \in Proc : Refresh(p)

Spec == Init /\ [][Next]_vars

ChildRuns == \/ BuildPlan \/ Skip(Child) \/ SourceFails(Child)
             \/ Truncate(Child) \/ Fill(Child)

\* launchd starts a job every hour, and with it a child for the lineup's matchday, which
\* runs; inputs and sources that are read for ever are read some time.  Nobody else, the
\* orphans and the operator's processes included, has to do anything.
Fairness == /\ SF_vars(StartChild) /\ WF_vars(ChildRuns)
            /\ SF_vars(ReadInputs(Child))
            /\ SF_vars(VotiLand(Child)) /\ SF_vars(LegaSynced(Child))

FairSpec == Spec /\ Fairness

-----------------------------------------------------------------------------
(* What is checked.                                                         *)

\* Every variable keeps its shape.
TypeOK ==
  /\ PlatformOK
  /\ calendar \subseteq Round
  /\ voti \in [Round -> {None, "early", "final"}]
  /\ plan \in 0..MaxDay /\ marker \in Marker /\ earned \in Marker
  /\ proc \in [Proc -> Process]
  /\ blemished \in BOOLEAN /\ disturbances \in 0..MaxDisturbances

\* The marker keeps the ledger's promise, step by step: whatever refreshes overlap, are
\* killed or find an emptied file, a voti success on record means that the rows of the
\* giornata before were scraped after its round was calculated (SPEC A20; voti_giornate).
KeepsLedger == VL!Ledger

\* A run killed half way keeps what it earned: unless a process was killed or refused
\* between a success and its write, or two overlapped, the marker holds every success
\* whenever no write is under way (run_refresh writes after each source).
EarnedIsKept ==
  blemished \/ (\E p \in Proc : proc[p].pc \in {"truncate", "fill"}) \/ marker = earned

\* Once our calendar shows the round before the lineup's matchday calculated, the refresh
\* records its voti, or the matchday is over: a failure is owed again next hour, a success
\* once had is not lost for good (refresh.due, voti_succeeded).
VotiRecorded ==
  \A d \in 2..MaxDay :
    (lineupDay = d /\ d - 1 \in calendar)
      ~> (marker["voti"] = d \/ lineupDay # d)

\* The same, once the lega has calculated the round: "never records a voti success, and
\* runs again every hour for ever" is what refresh.voti_giornate is written to avoid.
VotiOwed ==
  \A d \in 2..MaxDay :
    (lineupDay = d /\ d - 1 \in calculated)
      ~> (marker["voti"] = d \/ lineupDay # d)
=============================================================================
