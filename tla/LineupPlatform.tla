---------------------------- MODULE LineupPlatform ----------------------------
(***************************************************************************)
(* What the hourly lineup job can see of the platform: the matchday of the  *)
(* lineup it hands back, the matchday and kickoff of its status, and the    *)
(* rounds the lega's admin has calculated.  The status moves on to the next *)
(* matchday before the lineup does, and the lineup does not wait for the    *)
(* round before it to be calculated.                                        *)
(***************************************************************************)
EXTENDS Integers, FiniteSets

CONSTANT MaxDay     \* the matchdays followed, 1..MaxDay

ASSUME DayAssumption == MaxDay \in Nat /\ MaxDay >= 2

Day   == 1..MaxDay
Round == 1..(MaxDay - 1)    \* the giornate a later lineup is planned on
None  == "none"
Phase == {"ahead", "news", "started"}

VARIABLES
  lineupDay,    \* `cmday` of the lineup the platform hands back
  statusDay,    \* `mday` of league_status: the matchday `mstr` is the kickoff of
  phase,        \* the clock against that kickoff: "ahead", "news" in the hours before it
                \* in which the news are fetched, "started" from it on
  calculated    \* the rounds calculated

platform == <<lineupDay, statusDay, phase, calculated>>

PlatformInit ==
  /\ lineupDay = 1 /\ statusDay = 1 /\ phase = "ahead"
  /\ calculated = {}

Started(d) == d < statusDay \/ (d = statusDay /\ phase = "started")

\* The news window closes before the kickoff, and a kickoff put off is ahead again.  The
\* last matchday followed is planned and does not start: the bound of the clock.
Tick == /\ phase # "started"
        /\ phase' \in Phase \ {phase}
        /\ phase' = "started" => statusDay < MaxDay
        /\ UNCHANGED <<lineupDay, statusDay, calculated>>

AdvanceStatus == /\ phase = "started" /\ statusDay = lineupDay /\ statusDay < MaxDay
                 /\ statusDay' = statusDay + 1 /\ phase' = "ahead"
                 /\ UNCHANGED <<lineupDay, calculated>>

AdvanceLineup == /\ lineupDay < statusDay
                 /\ lineupDay' = lineupDay + 1
                 /\ UNCHANGED <<statusDay, phase, calculated>>

Calculate(d) == /\ Started(d) /\ d \notin calculated
                /\ calculated' = calculated \cup {d}
                /\ UNCHANGED <<lineupDay, statusDay, phase>>

PlatformStep == Tick \/ AdvanceStatus \/ AdvanceLineup \/ \E d \in Round : Calculate(d)

PlatformOK == /\ lineupDay \in Day /\ statusDay \in Day /\ phase \in Phase
              /\ lineupDay <= statusDay
              /\ calculated \subseteq Round
=============================================================================
