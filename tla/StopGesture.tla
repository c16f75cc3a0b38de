----------------------------- MODULE StopGesture -----------------------------
(***************************************************************************)
(* How the app starts a bidder and stops it: `POST /asta/room/bid`, the    *)
(* job registry, `ProcessJob.start` and `.stop`, the flag file of          *)
(* `stopflag.py`, and the child `fantabot asta bid` with its two ways of   *)
(* hearing a stop: the SIGINT handler and the poll of the flag.            *)
(*                                                                         *)
(* All the bidders of a room share one flag file.  A job of the registry   *)
(* is a thread of the app; its child is a process that outlives the app.   *)
(***************************************************************************)
EXTENDS Naturals

CONSTANTS
  Job,          \* the requests to start a bidder, each a job if it is granted
  Request,      \* the requests to stop one
  Delivers,     \* is a SIGINT sent: {TRUE} on POSIX, {FALSE} on Windows
  Races,        \* the rare windows this instance opens: see Snapshot, Overtaken
  MaxRestarts   \* the times the app is restarted

Disarm == "disarm"
Exit == "exit"

\* Two windows of microseconds, open only where Races names them.
\* "snapshot": a SIGINT falls between the handler and the composition of
\* stop_poll.  "overtaken": between the liveness check of a stop and its write
\* the child leaves and another bidder is granted.
ASSUME RacesAssumption == Races \subseteq {"snapshot", "overtaken"}
ASSUME BoundsAssumption == MaxRestarts \in Nat /\ Delivers \subseteq BOOLEAN

VARIABLES
  flag,       \* the file: "none", Disarm, Exit, "empty" or "garbled"
  job,        \* Job -> where its thread is
  child,      \* Job -> where its process is
  begun,      \* Job -> armed_at_start of the SIGINT handler
  armed,      \* Job -> armed[0]
  polled,     \* Job -> armed_at_start of stop_poll
  honoured,   \* Job -> has stop_poll honoured a disarm
  pending,    \* Job -> the requests whose SIGINT awaits its handler
  handled,    \* Job -> the requests whose SIGINT it has handled
  req,        \* Request -> [pc, job, stage]
  restarts,   \* restarts of the app so far
  asked,      \* Job -> the requests written to the flag while its child was up
  unheard     \* Job -> was a stop answered between the clear and the process

vars == <<flag, job, child, begun, armed, polled, honoured, pending, handled,
          req, restarts, asked, unheard>>

childVars == <<child, begun, armed, polled, honoured, handled>>
ghosts == <<asked, unheard>>

Up == {"boot", "wired", "poll", "cycle", "sending", "hung"}
Live == Up \cup {"leaving"}
Over(j) == child[j] \in {"left", "died"}

Idle == [pc |-> "idle", job |-> "nobody", stage |-> "none"]

\* read_stop: an empty or a garbled file is the absence of a request.
Stage(f) == IF f \in {Disarm, Exit} THEN f ELSE "none"

\* Mutant of Written: a write that does not replace what is there.
WrittenAppends(f, stage) == IF f \in {"none", "empty"} THEN stage ELSE "both"

\* What a write of `stage` leaves in a file it truncated when it opened it: a
\* file unlinked since is gone, and "exit" is shorter than "disarm".
Written(f, stage) ==
  CASE f = "none" -> "none"
    [] f # "none" /\ stage = Exit /\ f \in {Disarm, "garbled"} -> "garbled"
    [] OTHER -> stage

\* _running_bidder: a job of the registry whose status is "running".
Running(j) == job[j] \in {"registered", "cleared", "spawned"}
Bidders == {j \in Job : Running(j)}

\* The process ends, and its memory with it.
Ends(j, how) ==
  /\ child' = [child EXCEPT ![j] = how]
  /\ armed' = [armed EXCEPT ![j] = FALSE]
  /\ polled' = [polled EXCEPT ![j] = FALSE]
  /\ honoured' = [honoured EXCEPT ![j] = FALSE]
  /\ pending' = [pending EXCEPT ![j] = {}]
  /\ handled' = [handled EXCEPT ![j] = {}]
  /\ UNCHANGED begun

\* A stop is between its check that the process runs and its write.
Midway == {r \in Request : req[r].pc \in {"reading", "opening", "writing"}}

Init ==
  /\ flag = "none"
  /\ job = [j \in Job |-> "none"]
  /\ child = [j \in Job |-> "none"]
  /\ begun = [j \in Job |-> FALSE]
  /\ armed = [j \in Job |-> FALSE]
  /\ polled = [j \in Job |-> FALSE]
  /\ honoured = [j \in Job |-> FALSE]
  /\ pending = [j \in Job |-> {}]
  /\ handled = [j \in Job |-> {}]
  /\ req = [r \in Request |-> Idle]
  /\ restarts = 0
  /\ asked = [j \in Job |-> {}]
  /\ unheard = [j \in Job |-> FALSE]

-----------------------------------------------------------------------------
(* Starting a bidder.                                                      *)

\* room_bid: the cheap early check, before the room is resolved.
AskStart(j) ==
  /\ job[j] = "none"
  /\ job' = [job EXCEPT ![j] = IF Bidders # {} THEN "refused" ELSE "resolving"]
  /\ UNCHANGED <<flag, childVars, pending, req, restarts, ghosts>>

\* Mutant of Register: the early check is taken for the one that decides.
RegisterUnchecked(j) ==
  /\ job[j] = "resolving" /\ Midway = {}
  /\ \E outcome \in {"refused", "registered"} : job' = [job EXCEPT ![j] = outcome]
  /\ UNCHANGED <<flag, childVars, pending, req, restarts, ghosts>>

\* The room may not resolve.  If it does, the check that decides is made
\* under _START_LOCK, and the job gets its thread.
Register(j) ==
  /\ job[j] = "resolving"
  /\ "overtaken" \in Races \/ Midway = {}
  /\ \E outcome \in {"refused", IF Bidders # {} THEN "refused" ELSE "registered"} :
       job' = [job EXCEPT ![j] = outcome]
  /\ UNCHANGED <<flag, childVars, pending, req, restarts, ghosts>>

\* Mutant of Clear: the child is trusted to clear it, and is told not to.
ClearNothing(j) ==
  /\ job[j] = "registered"
  /\ job' = [job EXCEPT ![j] = "cleared"]
  /\ UNCHANGED <<flag, childVars, pending, req, restarts, ghosts>>

\* ProcessJob.start clears the flag before the child exists ...
Clear(j) ==
  /\ job[j] = "registered"
  /\ flag' = "none"
  /\ job' = [job EXCEPT ![j] = "cleared"]
  /\ UNCHANGED <<childVars, pending, req, restarts, ghosts>>

\* ... and then spawns it, armed or not.
Spawn(j) ==
  /\ job[j] = "cleared"
  /\ job' = [job EXCEPT ![j] = "spawned"]
  /\ child' = [child EXCEPT ![j] = "boot"]
  /\ \E arm \in BOOLEAN :
       /\ begun' = [begun EXCEPT ![j] = arm]
       /\ armed' = [armed EXCEPT ![j] = arm]
  /\ UNCHANGED <<flag, polled, honoured, handled, pending, req, restarts, ghosts>>

\* The file cannot be removed, or Popen raises: the job ends in error with no child, and
\* may be asked to stop like any other that is over.
StartFails(j) ==
  /\ job[j] \in {"registered", "cleared"}
  /\ job' = [job EXCEPT ![j] = "done"]
  /\ UNCHANGED <<flag, childVars, pending, req, restarts, ghosts>>

\* The thread reaches the end of the child's output, and the status flips.
Reap(j) ==
  /\ job[j] = "spawned" /\ Over(j)
  /\ job' = [job EXCEPT ![j] = "done"]
  /\ UNCHANGED <<flag, childVars, pending, req, restarts, ghosts>>

\* The registry and its threads are gone; the children are not.
RestartApp ==
  /\ restarts < MaxRestarts
  /\ restarts' = restarts + 1
  /\ job' = [j \in Job |-> IF Running(j) \/ job[j] = "resolving"
                           THEN "forgotten" ELSE job[j]]
  /\ req' = [r \in Request |-> IF req[r].pc = "idle" THEN req[r]
                               ELSE [req[r] EXCEPT !.pc = "answered"]]
  /\ UNCHANGED <<flag, childVars, pending, ghosts>>

-----------------------------------------------------------------------------
(* Stopping one: ProcessJob.stop, on the thread of an HTTP handler.        *)

\* No process yet, or one that has exited: answered, and nothing is done.
StopNothing(r, j) ==
  /\ req[r].pc = "idle"
  /\ Running(j) \/ job[j] = "done"
  /\ child[j] = "none" \/ Over(j)
  /\ req' = [req EXCEPT ![r] = [pc |-> "answered", job |-> j, stage |-> "none"]]
  /\ unheard' = [unheard EXCEPT ![j] = @ \/ job[j] = "cleared"]
  /\ UNCHANGED <<flag, job, childVars, pending, restarts, asked>>

StopBegin(r, j) ==
  /\ req[r].pc = "idle"
  /\ Running(j) /\ child[j] \in Live
  /\ req' = [req EXCEPT ![r] = [pc |-> "reading", job |-> j, stage |-> "none"]]
  /\ UNCHANGED <<flag, job, childVars, pending, restarts, ghosts>>

\* request_stop reads the stage in force ...
ReadFlag(r) ==
  /\ req[r].pc = "reading"
  /\ req' = [req EXCEPT ![r] =
               [pc |-> "opening", job |-> @.job,
                stage |-> IF Stage(flag) = "none" THEN Disarm ELSE Exit]]
  /\ UNCHANGED <<flag, job, childVars, pending, restarts, ghosts>>

\* ... opens the file, which empties it ...
OpenFlag(r) ==
  /\ req[r].pc = "opening"
  /\ flag' = "empty"
  /\ req' = [req EXCEPT ![r].pc = "writing"]
  /\ UNCHANGED <<job, childVars, pending, restarts, ghosts>>

\* ... and writes the next stage.
WriteFlag(r) ==
  /\ req[r].pc = "writing"
  /\ flag' = Written(flag, req[r].stage)
  /\ req' = [req EXCEPT ![r].pc = "signalling"]
  /\ asked' = [k \in Job |-> IF child[k] \in Up THEN asked[k] \cup {r} ELSE asked[k]]
  /\ UNCHANGED <<job, childVars, pending, restarts, unheard>>

\* Mutant of Signal: nobody waits for the child to go.
SignalAndReturn(r) ==
  LET j == req[r].job IN
  /\ req[r].pc = "signalling"
  /\ \E sent \in Delivers :
       pending' = IF sent /\ child[j] \in Live
                  THEN [pending EXCEPT ![j] = @ \cup {r}] ELSE pending
  /\ req' = [req EXCEPT ![r].pc = "answered"]
  /\ UNCHANGED <<flag, job, childVars, restarts, ghosts>>

\* SIGINT on POSIX, nothing on Windows; only an exit is waited for.
Signal(r) ==
  LET j == req[r].job IN
  /\ req[r].pc = "signalling"
  /\ \E sent \in Delivers :
       pending' = IF sent /\ child[j] \in Live
                  THEN [pending EXCEPT ![j] = @ \cup {r}] ELSE pending
  /\ req' = [req EXCEPT ![r].pc = IF req[r].stage = Exit THEN "waiting" ELSE "answered"]
  /\ UNCHANGED <<flag, job, childVars, restarts, ghosts>>

StopDone(r) ==
  /\ req[r].pc = "waiting" /\ Over(req[r].job)
  /\ req' = [req EXCEPT ![r].pc = "answered"]
  /\ UNCHANGED <<flag, job, childVars, pending, restarts, ghosts>>

\* The grace is over.  No `finally` runs: the flag stays.
Kill(r) ==
  LET j == req[r].job IN
  /\ req[r].pc = "waiting" /\ ~Over(j)
  /\ Ends(j, IF child[j] = "leaving" THEN "left" ELSE "died")
  /\ req' = [req EXCEPT ![r].pc = "answered"]
  /\ UNCHANGED <<flag, job, restarts, ghosts>>

-----------------------------------------------------------------------------
(* The child: `asta bid`.                                                  *)

\* The supervisor has cleared the flag: the child must not.
InstallHandler(j) ==
  /\ child[j] = "boot"
  /\ child' = [child EXCEPT ![j] = "wired"]
  /\ UNCHANGED <<flag, job, begun, armed, polled, honoured, pending, handled,
                 req, restarts, ghosts>>

\* stop_poll takes its own copy of armed[0].
ComposePoll(j) ==
  /\ child[j] = "wired"
  /\ polled' = [polled EXCEPT ![j] = armed[j]]
  /\ child' = [child EXCEPT ![j] = "poll"]
  /\ UNCHANGED <<flag, job, begun, armed, honoured, pending, handled,
                 req, restarts, ghosts>>

\* keep_going, at the top of a cycle.
NoStop(j) == Stage(flag) = "none" /\ UNCHANGED <<armed, honoured>>

HonourDisarm(j) ==
  /\ Stage(flag) = Disarm
  /\ armed' = [armed EXCEPT ![j] = @ /\ honoured[j]]
  /\ honoured' = [honoured EXCEPT ![j] = TRUE]

KeepGoing(j) ==
  /\ child[j] = "poll"
  /\ \/ NoStop(j)
     \/ HonourDisarm(j) /\ (honoured[j] \/ polled[j])
  /\ child' = [child EXCEPT ![j] = "cycle"]
  /\ UNCHANGED <<flag, job, begun, polled, pending, handled, req, restarts, ghosts>>

LeaveOnFlag(j) ==
  /\ child[j] = "poll"
  /\ \/ /\ Stage(flag) = Exit
        /\ armed' = [armed EXCEPT ![j] = FALSE]
        /\ UNCHANGED honoured
     \/ HonourDisarm(j) /\ ~honoured[j] /\ ~polled[j]
  /\ child' = [child EXCEPT ![j] = "leaving"]
  /\ UNCHANGED <<flag, job, begun, polled, pending, handled, req, restarts, ghosts>>

\* Mutant of Gate: the flag is read by the poll alone.
GateUnread(j) == armed[j]

\* The write lock, read per bid: armed[0], the flag, and the ambient lock,
\* which may be shut at any time.
Gate(j) == armed[j] /\ Stage(flag) = "none"

\* A poll that sends nothing: no lot of ours, a pass, a dry run, an error.
Hold(j) ==
  /\ child[j] = "cycle"
  /\ child' = [child EXCEPT ![j] = "poll"]
  /\ UNCHANGED <<flag, job, begun, armed, polled, honoured, pending, handled,
                 req, restarts, ghosts>>

SendRaise(j) ==
  /\ child[j] = "cycle" /\ Gate(j)
  /\ child' = [child EXCEPT ![j] = "sending"]
  /\ UNCHANGED <<flag, job, begun, armed, polled, honoured, pending, handled,
                 req, restarts, ghosts>>

RaiseSent(j) ==
  /\ child[j] = "sending"
  /\ child' = [child EXCEPT ![j] = "poll"]
  /\ UNCHANGED <<flag, job, begun, armed, polled, honoured, pending, handled,
                 req, restarts, ghosts>>

\* Stuck in a read that never returns: only a kill ends it.
Hang(j) ==
  /\ child[j] \in {"boot", "cycle"}
  /\ child' = [child EXCEPT ![j] = "hung"]
  /\ UNCHANGED <<flag, job, begun, armed, polled, honoured, pending, handled,
                 req, restarts, ghosts>>

\* An exception that escapes the loop, a pipe nobody reads, a kill from outside.
Crash(j) ==
  /\ child[j] \in Up
  /\ Ends(j, "died")
  /\ flag' \in {flag, "none"}
  /\ UNCHANGED <<job, req, restarts, ghosts>>

\* The `finally` of the command, unless an interrupt cuts it short.
Leave(j) ==
  /\ child[j] = "leaving"
  /\ Ends(j, "left")
  /\ flag' = "none" \/ (pending[j] # {} /\ flag' = flag)
  /\ UNCHANGED <<job, req, restarts, ghosts>>

\* SIGINT before there is a handler ends the process.
InterruptBoot(j) ==
  /\ pending[j] # {} /\ child[j] = "boot"
  /\ Ends(j, "died")
  /\ UNCHANGED <<flag, job, req, restarts, ghosts>>

\* _disarm: the first interrupt of an armed run clears armed[0] ...
InWired(j) == child[j] \in {"poll", "cycle", "sending"}
              \/ (child[j] = "wired" /\ "snapshot" \in Races)

InterruptDisarms(j) ==
  /\ pending[j] # {} /\ InWired(j)
  /\ begun[j] /\ handled[j] = {}
  /\ armed' = [armed EXCEPT ![j] = FALSE]
  /\ handled' = [handled EXCEPT ![j] = pending[j]]
  /\ pending' = [pending EXCEPT ![j] = {}]
  /\ UNCHANGED <<flag, job, child, begun, polled, honoured, req, restarts, ghosts>>

\* Mutant of InterruptLeaves: the handler asks armed[0] instead of counting.
InterruptLeavesDisarmed(j) ==
  /\ pending[j] # {} /\ InWired(j)
  /\ ~armed[j]
  /\ child' = [child EXCEPT ![j] = "leaving"]
  /\ handled' = [handled EXCEPT ![j] = @ \cup pending[j]]
  /\ pending' = [pending EXCEPT ![j] = {}]
  /\ UNCHANGED <<flag, job, begun, armed, polled, honoured, req, restarts, ghosts>>

\* ... and any other ends the loop.
InterruptLeaves(j) ==
  /\ pending[j] # {} /\ InWired(j)
  /\ ~begun[j] \/ handled[j] # {}
  /\ child' = [child EXCEPT ![j] = "leaving"]
  /\ handled' = [handled EXCEPT ![j] = @ \cup pending[j]]
  /\ pending' = [pending EXCEPT ![j] = {}]
  /\ UNCHANGED <<flag, job, begun, armed, polled, honoured, req, restarts, ghosts>>

-----------------------------------------------------------------------------
StartStep(j) ==
  AskStart(j) \/ Register(j) \/ Clear(j) \/ Spawn(j) \/ StartFails(j) \/ Reap(j)

StopStep(r) ==
  ReadFlag(r) \/ OpenFlag(r) \/ WriteFlag(r) \/ Signal(r) \/ StopDone(r) \/ Kill(r)

ChildStep(j) ==
  \/ InstallHandler(j) \/ ComposePoll(j) \/ KeepGoing(j) \/ LeaveOnFlag(j)
  \/ Hold(j) \/ SendRaise(j) \/ RaiseSent(j) \/ Leave(j)

Interrupt(j) == InterruptBoot(j) \/ InterruptDisarms(j) \/ InterruptLeaves(j)

Next ==
  \/ \E j \in Job : StartStep(j) \/ ChildStep(j) \/ Interrupt(j) \/ Hang(j) \/ Crash(j)
  \/ \E r \in Request : StopStep(r) \/ (\E j \in Job : StopNothing(r, j) \/ StopBegin(r, j))
  \/ RestartApp

\* Threads are scheduled, a process that is not stuck runs, a signal that is
\* pending is handled, and the grace ends.  Nobody has to click.
Fairness ==
  /\ \A j \in Job : /\ WF_vars(Clear(j) \/ Spawn(j) \/ StartFails(j) \/ Reap(j))
                    /\ WF_vars(ChildStep(j))
                    /\ SF_vars(Interrupt(j))
  /\ \A r \in Request : WF_vars(StopStep(r))

Spec == Init /\ [][Next]_vars /\ Fairness

-----------------------------------------------------------------------------
(* Properties.                                                             *)

TypeOK ==
  /\ flag \in {"none", Disarm, Exit, "empty", "garbled"}
  /\ job \in [Job -> {"none", "resolving", "refused", "registered", "cleared",
                      "spawned", "done", "forgotten"}]
  /\ child \in [Job -> Live \cup {"none", "left", "died"}]
  /\ begun \in [Job -> BOOLEAN] /\ armed \in [Job -> BOOLEAN]
  /\ polled \in [Job -> BOOLEAN] /\ honoured \in [Job -> BOOLEAN]
  /\ pending \in [Job -> SUBSET Request] /\ handled \in [Job -> SUBSET Request]
  /\ req \in [Request -> [pc : {"idle", "reading", "opening", "writing",
                                "signalling", "waiting", "answered"},
                          job : Job \cup {"nobody"}, stage : {"none", Disarm, Exit}]]
  /\ restarts \in 0 .. MaxRestarts
  /\ asked \in [Job -> SUBSET Request] /\ unheard \in [Job -> BOOLEAN]

\* Two bidders on one seat raise each other and share a flag: whatever start
\* requests overlap while their rooms resolve, one app runs one bidder.
OneBidder ==
  \A j, k \in Job : (Running(j) /\ Running(k)) => j = k

\* After a stop has been written no raise passes the write lock, at most the
\* one already in flight: not before the poll has read the flag, not with no
\* signal at all.  The one exception is the instant in which another request
\* is rewriting the file, or the garbled file two of them leave.
Held(j) ==
  (child[j] = "cycle" /\ child'[j] = "sending" /\ asked[j] # {} /\ restarts = 0)
    => flag \in {"empty", "garbled"}

HeldAfterStop == [][\A j \in Job : Held(j)]_vars

\* A run that starts finds no request: what a killed run left on the flag
\* never reaches its successor.
Fresh(j) == (child[j] = "none" /\ child'[j] = "boot") => Stage(flag) = "none"

FreshStart == [][\A j \in Job : Fresh(j)]_vars

\* The comment of ProcessJob.start: once the slate is clean, every click is a
\* request the child will see.
EveryClickSeen == \A j \in Job : unheard[j] => child[j] \notin Live

\* The gesture as an operator knows it.
Mode ==
  [j \in Job |->
     CASE child[j] = "none" -> "idle"
       [] child[j] \in Up -> IF armed[j] THEN "armed" ELSE "watching"
       [] child[j] = "died" -> "died"
       [] OTHER -> "left"]

Raising == [j \in Job |-> child[j] = "sending"]

Gesture == INSTANCE TwoStageStop WITH
  Run <- Job, Click <- Request,
  mode <- Mode, began <- begun, asked <- asked, raising <- Raising

\* One click never ends an armed run, whichever of the two mechanisms hears it
\* first, two clicks are needed; a disarmed run sends nothing.
ImplementsGesture == Gesture!Spec

\* In the end every stop that reached a run has been acted on: an armed run is
\* disarmed, one that was never armed is gone, and a stop at the second stage
\* ends even a run that is stuck.  A restart of the app may put a second bidder
\* on the same flag, which clears it.
FirstStage(j) == asked[j] # {} => (begun[j] /\ ~armed[j]) \/ child[j] = "hung" \/ Over(j)
SecondStage(j) ==
  (\E r \in Request : req[r].job = j /\ req[r].stage = Exit) => Over(j)

StopsHonoured == <>[](restarts > 0 \/ \A j \in Job : FirstStage(j) /\ SecondStage(j))

=============================================================================
