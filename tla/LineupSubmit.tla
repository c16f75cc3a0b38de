----------------------------- MODULE LineupSubmit -----------------------------
(***************************************************************************)
(* The unattended submit: `fantabot-app schedule run` starts `lineup submit *)
(* --scheduled --shadow --refresh` every hour.  It builds a lineup, stands  *)
(* down if its matchday may have started, lets the projection choose if the *)
(* operator asked for it and the history is fresh, submits, reads back, and *)
(* writes a record of the run.                                              *)
(*                                                                          *)
(* The rows and the marker it reads change under it as VotiLedger allows:   *)
(* that is what the refresh (LineupRefresh) is shown to keep.               *)
(***************************************************************************)
EXTENDS LineupPlatform

Model  == {"indexcompare", "projection"}
Rows   == {None, "early", "final"}
Status == {"submitted", "unconfirmed", "skipped", "failed"}
Job    == [pc : {"idle", "build", "status", "chain", "verdict", "recheck", "post", "confirm",
                 "done"},
           asked : Model, day : Day, read : Day, status : Day,
           mstr : {"kept", "earlier", "later"}, chose : Model,
           rows : Rows, late : BOOLEAN, sent : Model \cup {None}]
Record == [status : Status \cup {None}, day : 0..MaxDay, model : Model]

VARIABLES
  voti,       \* per giornata, our rows
  recorded,   \* the matchday of the voti success the marker holds, 0 if none
  job,        \* the run; `mstr`: how the kickoff it read stands to the one in force
  record      \* what its record says, once it is written

vars == <<platform, voti, recorded, job, record>>
history == <<voti, recorded>>

NoRun == [pc |-> "idle", asked |-> "indexcompare", day |-> 1, read |-> 1, status |-> 1,
          mstr |-> "kept", chose |-> "indexcompare", rows |-> None, late |-> FALSE,
          sent |-> None]
NoRecord == [status |-> None, day |-> 0, model |-> "indexcompare"]

Init ==
  /\ PlatformInit
  /\ voti = [g \in Round |-> None] /\ recorded = 0
  /\ job = NoRun /\ record = NoRecord

World == PlatformStep /\ UNCHANGED <<history, job, record>>

\* The kickoff a run has read is put off, and its `mstr` is earlier than the kickoff, or
\* brought forward, and it is later: the clock may cross the new one from here on (Tick).
KickoffMoves(mstr) ==
  /\ job.pc \in {"chain", "verdict", "recheck"}
  /\ job.status = statusDay /\ phase # "started"
  /\ job' = [job EXCEPT !.mstr = mstr]
  /\ UNCHANGED <<platform, history, record>>

\* Scrapes and refreshes: this hour's operator, last hour's orphan.
VL == INSTANCE VotiLedger
Refreshes == /\ VL!Scrape \/ VL!Record \/ VL!Forget
             /\ UNCHANGED <<platform, job, record>>

-----------------------------------------------------------------------------
(* The run.                                                                 *)

\* Mutant of Recorded: the model on record is the one the operator asked for.
recordedAsked(status) ==
  /\ record' = [status |-> status, day |-> job.day, model |-> job.asked]
  /\ job' = [NoRun EXCEPT !.pc = "done", !.sent = job.sent]

\* A run that had a plan: its record names the model that chose, and the refresh follows.
Recorded(status) ==
  /\ record' = [status |-> status, day |-> job.day, model |-> job.chose]
  /\ job' = [NoRun EXCEPT !.pc = "done", !.sent = job.sent]

\* A run that raised, or found no matchday opened: a record, and no refresh.
Ended(status, model) ==
  /\ record' = [status |-> status, day |-> 0, model |-> model]
  /\ job' = [NoRun EXCEPT !.pc = "done", !.sent = job.sent]

Launch(asked) ==
  /\ job.pc = "idle"
  /\ job' = [NoRun EXCEPT !.pc = "build", !.asked = asked]
  /\ UNCHANGED <<platform, history, record>>

\* The process ends, or is killed: a later run starts from nothing.
Exit ==
  /\ job.pc # "idle"
  /\ job' = NoRun /\ record' = NoRecord
  /\ UNCHANGED <<platform, history>>

\* Mutant of BuildPlans: the status's matchday is taken for the lineup's.
BuildFromStatus ==
  /\ job.pc = "build"
  /\ job' = [job EXCEPT !.pc = "status", !.day = statusDay]
  /\ UNCHANGED <<platform, history, record>>

BuildPlans ==
  /\ job.pc = "build"
  /\ job' = [job EXCEPT !.pc = "status", !.day = lineupDay]
  /\ UNCHANGED <<platform, history, record>>

\* The platform has not opened the lineup: there are no coordinates.
NoMatchday ==
  /\ job.pc = "build"
  /\ Ended("skipped", job.chose)
  /\ UNCHANGED <<platform, history>>

\* The token, the database or the platform fails one of the reads, or the session fails to
\* close over a run that stands down.
ReadFails ==
  /\ job.pc \in {"build", "status", "recheck"}
  /\ Ended("failed", job.asked)
  /\ UNCHANGED <<platform, history>>

\* Mutants of scheduled_cutoff: whose start it is, or the clock, is not looked at.
startedOnly(status, day, started) == started
mismatchOnly(status, day, started) == status # day

\* The posted start must be this matchday's, and still ahead.  `status` is the matchday it
\* was read for; `started`: the clock, read now, has passed it.
scheduled_cutoff(status, day, started) == status # day \/ started

ReadStatus ==
  /\ job.pc = "status"
  /\ \/ scheduled_cutoff(statusDay, job.day, Started(statusDay)) /\ Recorded("skipped")
     \/ Recorded("failed")             \* the start cannot be read, or the job is not armed
     \/ /\ ~scheduled_cutoff(statusDay, job.day, Started(statusDay))
        /\ job' = [job EXCEPT !.pc = IF job.asked = "projection" THEN "chain" ELSE "post",
                              !.status = statusDay]
        /\ UNCHANGED record
  /\ UNCHANGED <<platform, history>>

\* The projection reads the lineup again, and the rows of the giornata before.  `late`:
\* the marker does not vouch for them yet.
ReadHistory ==
  /\ job.pc = "chain"
  /\ job' = [job EXCEPT !.pc = "verdict", !.read = lineupDay,
                        !.rows = IF lineupDay = 1 THEN None ELSE voti[lineupDay - 1],
                        !.late = recorded # lineupDay]
  /\ UNCHANGED <<platform, history, record>>

\* Mutant of fresh: the marker is not asked.
reaches == job.read = 1 \/ job.rows # None

\* staleness: the history reaches the giornata before, and the marker says its voti were
\* refreshed.
fresh == /\ job.read = 1 \/ job.rows # None
         /\ recorded = job.read

\* The chain is through, minutes later, and the marker is asked: the plan is the
\* projection's, for the matchday it read.
Project ==
  /\ job.pc = "verdict" /\ fresh
  /\ job' = [job EXCEPT !.pc = "recheck", !.chose = "projection", !.day = job.read,
                        !.late = job.late /\ recorded = job.read]
  /\ UNCHANGED <<platform, history, record>>

\* Stale, assumed, out of time or raised: the lineup that was going out anyway.
FallBack ==
  /\ job.pc \in {"chain", "verdict"}
  /\ job' = [job EXCEPT !.pc = "recheck"]
  /\ UNCHANGED <<platform, history, record>>

\* Has the clock passed the kickoff that was read: as it has the one in force, or already
\* if that was put off since, or not yet if it was brought forward.
MstrPassed ==
  {started \in BOOLEAN :
     \/ started = Started(job.status)
     \/ started /\ job.mstr = "earlier"
     \/ ~started /\ job.mstr = "later"}

\* The status is the one read before the chain, its `mstr` with it; the clock is read again.
Recheck ==
  /\ job.pc = "recheck"
  /\ \E started \in MstrPassed :
       IF scheduled_cutoff(job.status, job.day, started)
       THEN Recorded("skipped")
       ELSE job' = [job EXCEPT !.pc = "post"] /\ UNCHANGED record
  /\ UNCHANGED <<platform, history>>

Accepted == job' = [job EXCEPT !.pc = "confirm", !.sent = job.chose] /\ UNCHANGED record

\* An answer that is lost leaves the walk as an error of the whole run; the platform may
\* have taken the lineup.
AnswerLost ==
  \E taken \in {job.sent, job.chose} :
    /\ record' = [status |-> "failed", day |-> 0, model |-> job.asked]
    /\ job' = [NoRun EXCEPT !.pc = "done", !.sent = taken]

\* The walk over the modules, best first: one is accepted, or every one is refused.
Post ==
  /\ job.pc = "post"
  /\ Accepted \/ AnswerLost \/ Recorded("failed")
  /\ UNCHANGED <<platform, history>>

\* A token or network error of the read-back is an unknown; a database error there, or as
\* the session closes, goes on record as the failure of a run whose lineup was taken.
ReadBack ==
  /\ job.pc = "confirm"
  /\ \/ \E status \in {"submitted", "unconfirmed"} : Recorded(status)
     \/ Ended("failed", job.asked)
  /\ UNCHANGED <<platform, history>>

Run == \/ \E asked \in Model : Launch(asked)
       \/ Exit \/ BuildPlans \/ NoMatchday \/ ReadFails \/ ReadStatus
       \/ ReadHistory \/ Project \/ FallBack \/ Recheck \/ Post \/ ReadBack

Next == World \/ (\E mstr \in {"earlier", "later"} : KickoffMoves(mstr)) \/ Refreshes \/ Run
Spec == Init /\ [][Next]_vars

-----------------------------------------------------------------------------
(* What is checked.                                                         *)

\* Every variable keeps its shape, and no run is ahead of the lineup it was handed.
TypeOK ==
  /\ PlatformOK
  /\ voti \in [Round -> Rows] /\ recorded \in 0..MaxDay
  /\ job \in Job
  /\ record \in Record
  /\ job.day <= lineupDay /\ job.read <= lineupDay

\* A lineup the projection chose was computed on final rows, unless a refresh recorded the
\* success after the run had read its rows: the marker is asked minutes after the history
\* (interface/lineup._voti_refreshed, lineup_projection._freshness).
ProjectsOnFinalRows ==
  job.pc \in {"recheck", "post", "confirm"} /\ job.chose = "projection"
    => job.late \/ job.rows = "final"

\* A record that says submitted or unconfirmed names the model whose lineup the platform
\* accepted, after a fallback too; one that says skipped is of a run that sent nothing
\* (SubmitOutcome.model, run_record, lineup_runs.SKIPPED).
RecordIsHonest ==
  /\ record.status \in {"submitted", "unconfirmed"} => job.sent = record.model
  /\ record.status = "skipped" => job.sent = None

\* No lineup is sent for a matchday that had started when the run last looked at the
\* clock: not when the chain ended after the kickoff, nor in the gap in which the status
\* is already the next matchday's (deadline.scheduled_cutoff, re-checked in submit_lineup).
\* The exception is a kickoff brought forward during the chain: the re-check compares the
\* clock with the kickoff read before it.
PostsBeforeKickoff ==
  [][job.pc # "post" /\ job'.pc = "post" /\ Started(job'.day)
       => job.mstr = "later" /\ job.status = job.day]_vars
=============================================================================
