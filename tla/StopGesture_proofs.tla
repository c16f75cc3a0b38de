------------------------- MODULE StopGesture_proofs -------------------------
(***************************************************************************)
(* Proofs about StopGesture, for any number of bidders, of requests to     *)
(* stop and of restarts, with signals sent or not, when neither of the two *)
(* windows of Races is open: it implements TwoStageStop.                   *)
(***************************************************************************)
EXTENDS StopGesture, TLAPS

Unspawned == {"none", "resolving", "refused", "registered", "cleared"}

\* What a thread of the registry says of its process.
Threads ==
  \A j \in Job :
    /\ child[j] \in Live => job[j] \in {"spawned", "forgotten"}
    /\ job[j] \in Unspawned => child[j] = "none"
    /\ job[j] = "forgotten" => restarts > 0
    /\ child[j] = "none" => pending[j] = {} /\ handled[j] = {} /\ asked[j] = {}

\* A bidder that is starting finds no stop under way and a clean slate.
Slate ==
  \A j \in Job :
    /\ job[j] \in {"registered", "cleared"} => Midway = {}
    /\ job[j] = "cleared" => flag = "none"

\* Where a request is, and what it has already done.
Requests ==
  \A r \in Request :
    /\ req[r].pc \in {"idle", "reading", "opening", "writing"} =>
         \A j \in Job : r \notin asked[j]
    /\ req[r].pc \in {"reading", "opening", "writing", "signalling", "waiting"} =>
         /\ req[r].job \in Job
         /\ child[req[r].job] # "none"
    /\ req[r].pc = "signalling" /\ child[req[r].job] \in Up => r \in asked[req[r].job]
    /\ req[r].pc \in {"opening", "writing"} => req[r].stage \in {Disarm, Exit}
    /\ req[r].pc \in {"opening", "writing"} /\ req[r].stage = Exit =>
         \A j \in Job : child[j] \in Up => asked[j] # {}

\* Two different requests were written while this child was up.
Twice(j) == \E r, s \in asked[j] : r # s

\* The flag never says more than was asked of a child that reads it.
FlagEarned ==
  \A j \in Job : child[j] \in Up =>
    /\ flag \in {Disarm, Exit} => asked[j] # {}
    /\ flag = Exit => Twice(j)

\* A signal is one request's, and a request signals once.
SignalsEarned ==
  \A j \in Job : child[j] \in Up =>
    /\ pending[j] \cup handled[j] \subseteq asked[j]
    /\ pending[j] \cap handled[j] = {}
    /\ \A r \in pending[j] \cup handled[j] :
         req[r].pc \notin {"idle", "reading", "opening", "writing", "signalling"}

\* Both copies of armed_at_start agree with the run that was started.
Copies ==
  \A j \in Job :
    /\ child[j] \in {"boot", "wired"} => armed[j] = begun[j]
    /\ child[j] \in {"poll", "cycle", "sending"} => polled[j] = begun[j]

\* While the app that started it is up, nothing else takes the flag away.
FlagKept ==
  restarts = 0 =>
    \A j \in Job :
      child[j] \in Up /\ (asked[j] # {} \/ \E r \in Request : req[r].pc = "writing")
        => flag # "none"

IInv ==
  /\ TypeOK /\ OneBidder /\ Threads /\ Slate /\ Requests /\ FlagEarned
  /\ SignalsEarned /\ Copies /\ FlagKept

-----------------------------------------------------------------------------
(* Every step keeps it.                                                    *)

USE DEF Disarm, Exit, Running, Bidders, Midway, Up, Live, Over, Ends, childVars,
        ghosts, Stage, Written, Idle, HonourDisarm, NoStop, Gate, InWired, Unspawned

LEMMA AskStartKeeps ==
  ASSUME IInv, Races = {}, NEW j \in Job, AskStart(j)
  PROVE  IInv'
<1>1. TypeOK'
  BY DEF IInv, AskStart, TypeOK
<1>2. OneBidder'
  BY DEF IInv, AskStart, TypeOK, OneBidder
<1>3. Threads'
  BY DEF IInv, AskStart, TypeOK, Threads
<1>4. Slate'
  BY DEF IInv, AskStart, TypeOK, OneBidder, Threads, Slate
<1>5. Requests'
  BY DEF IInv, AskStart, TypeOK, Threads, Slate, Requests, FlagEarned
<1>6. FlagEarned'
  BY DEF IInv, AskStart, TypeOK, Threads, Slate, Requests, FlagEarned, Twice
<1>7. SignalsEarned'
  BY DEF IInv, AskStart, TypeOK, Threads, Requests, SignalsEarned
<1>8. Copies'
  BY DEF IInv, AskStart, TypeOK, Threads, Copies, SignalsEarned
<1>9. FlagKept'
  BY DEF IInv, AskStart, TypeOK, OneBidder, Threads, Slate, Requests, FlagKept
<1>10. QED
  BY <1>1, <1>2, <1>3, <1>4, <1>5, <1>6, <1>7, <1>8, <1>9 DEF IInv

LEMMA RegisterKeeps ==
  ASSUME IInv, Races = {}, NEW j \in Job, Register(j)
  PROVE  IInv'
<1>1. TypeOK'
  BY DEF IInv, Register, TypeOK
<1>2. OneBidder'
  BY DEF IInv, Register, TypeOK, OneBidder
<1>3. Threads'
  BY DEF IInv, Register, TypeOK, Threads
<1>4. Slate'
  BY DEF IInv, Register, TypeOK, OneBidder, Threads, Slate
<1>5. Requests'
  BY DEF IInv, Register, TypeOK, Threads, Slate, Requests, FlagEarned
<1>6. FlagEarned'
  BY DEF IInv, Register, TypeOK, Threads, Slate, Requests, FlagEarned, Twice
<1>7. SignalsEarned'
  BY DEF IInv, Register, TypeOK, Threads, Requests, SignalsEarned
<1>8. Copies'
  BY DEF IInv, Register, TypeOK, Threads, Copies, SignalsEarned
<1>9. FlagKept'
  BY DEF IInv, Register, TypeOK, OneBidder, Threads, Slate, Requests, FlagKept
<1>10. QED
  BY <1>1, <1>2, <1>3, <1>4, <1>5, <1>6, <1>7, <1>8, <1>9 DEF IInv

LEMMA ClearKeeps ==
  ASSUME IInv, Races = {}, NEW j \in Job, Clear(j)
  PROVE  IInv'
<1>1. TypeOK'
  BY DEF IInv, Clear, TypeOK
<1>2. OneBidder'
  BY DEF IInv, Clear, TypeOK, OneBidder
<1>3. Threads'
  BY DEF IInv, Clear, TypeOK, Threads
<1>4. Slate'
  BY DEF IInv, Clear, TypeOK, OneBidder, Threads, Slate
<1>5. Requests'
  BY DEF IInv, Clear, TypeOK, Threads, Slate, Requests, FlagEarned
<1>6. FlagEarned'
  BY DEF IInv, Clear, TypeOK, Threads, Slate, Requests, FlagEarned, Twice
<1>7. SignalsEarned'
  BY DEF IInv, Clear, TypeOK, Threads, Requests, SignalsEarned
<1>8. Copies'
  BY DEF IInv, Clear, TypeOK, Threads, Copies, SignalsEarned
<1>9. FlagKept'
  BY DEF IInv, Clear, TypeOK, OneBidder, Threads, Slate, Requests, FlagKept
<1>10. QED
  BY <1>1, <1>2, <1>3, <1>4, <1>5, <1>6, <1>7, <1>8, <1>9 DEF IInv

LEMMA SpawnKeeps ==
  ASSUME IInv, Races = {}, NEW j \in Job, Spawn(j)
  PROVE  IInv'
<1>1. TypeOK'
  BY DEF IInv, Spawn, TypeOK
<1>2. OneBidder'
  BY DEF IInv, Spawn, TypeOK, OneBidder
<1>3. Threads'
  BY DEF IInv, Spawn, TypeOK, Threads
<1>4. Slate'
  BY DEF IInv, Spawn, TypeOK, OneBidder, Threads, Slate
<1>5. Requests'
  BY DEF IInv, Spawn, TypeOK, Threads, Slate, Requests, FlagEarned
<1>6. FlagEarned'
  BY DEF IInv, Spawn, TypeOK, Threads, Slate, Requests, FlagEarned, Twice
<1>7. SignalsEarned'
  BY DEF IInv, Spawn, TypeOK, Threads, Requests, SignalsEarned
<1>8. Copies'
  BY DEF IInv, Spawn, TypeOK, Threads, Copies, SignalsEarned
<1>9. FlagKept'
  BY DEF IInv, Spawn, TypeOK, OneBidder, Threads, Slate, Requests, FlagKept
<1>10. QED
  BY <1>1, <1>2, <1>3, <1>4, <1>5, <1>6, <1>7, <1>8, <1>9 DEF IInv

LEMMA StartFailsKeeps ==
  ASSUME IInv, Races = {}, NEW j \in Job, StartFails(j)
  PROVE  IInv'
<1>1. TypeOK'
  BY DEF IInv, StartFails, TypeOK
<1>2. OneBidder'
  BY DEF IInv, StartFails, TypeOK, OneBidder
<1>3. Threads'
  BY DEF IInv, StartFails, TypeOK, Threads
<1>4. Slate'
  BY DEF IInv, StartFails, TypeOK, OneBidder, Threads, Slate
<1>5. Requests'
  BY DEF IInv, StartFails, TypeOK, Threads, Slate, Requests, FlagEarned
<1>6. FlagEarned'
  BY DEF IInv, StartFails, TypeOK, Threads, Slate, Requests, FlagEarned, Twice
<1>7. SignalsEarned'
  BY DEF IInv, StartFails, TypeOK, Threads, Requests, SignalsEarned
<1>8. Copies'
  BY DEF IInv, StartFails, TypeOK, Threads, Copies, SignalsEarned
<1>9. FlagKept'
  BY DEF IInv, StartFails, TypeOK, OneBidder, Threads, Slate, Requests, FlagKept
<1>10. QED
  BY <1>1, <1>2, <1>3, <1>4, <1>5, <1>6, <1>7, <1>8, <1>9 DEF IInv

LEMMA ReapKeeps ==
  ASSUME IInv, Races = {}, NEW j \in Job, Reap(j)
  PROVE  IInv'
<1>1. TypeOK'
  BY DEF IInv, Reap, TypeOK
<1>2. OneBidder'
  BY DEF IInv, Reap, TypeOK, OneBidder
<1>3. Threads'
  BY DEF IInv, Reap, TypeOK, Threads
<1>4. Slate'
  BY DEF IInv, Reap, TypeOK, OneBidder, Threads, Slate
<1>5. Requests'
  BY DEF IInv, Reap, TypeOK, Threads, Slate, Requests, FlagEarned
<1>6. FlagEarned'
  BY DEF IInv, Reap, TypeOK, Threads, Slate, Requests, FlagEarned, Twice
<1>7. SignalsEarned'
  BY DEF IInv, Reap, TypeOK, Threads, Requests, SignalsEarned
<1>8. Copies'
  BY DEF IInv, Reap, TypeOK, Threads, Copies, SignalsEarned
<1>9. FlagKept'
  BY DEF IInv, Reap, TypeOK, OneBidder, Threads, Slate, Requests, FlagKept
<1>10. QED
  BY <1>1, <1>2, <1>3, <1>4, <1>5, <1>6, <1>7, <1>8, <1>9 DEF IInv

LEMMA ReadFlagKeeps ==
  ASSUME IInv, Races = {}, NEW r \in Request, ReadFlag(r)
  PROVE  IInv'
<1>1. TypeOK'
  BY DEF IInv, ReadFlag, TypeOK
<1>2. OneBidder'
  BY DEF IInv, ReadFlag, TypeOK, OneBidder
<1>3. Threads'
  BY DEF IInv, ReadFlag, TypeOK, Threads
<1>4. Slate'
  BY DEF IInv, ReadFlag, TypeOK, OneBidder, Threads, Slate
<1>5. Requests'
  BY DEF IInv, ReadFlag, TypeOK, Threads, Slate, Requests, FlagEarned
<1>6. FlagEarned'
  BY DEF IInv, ReadFlag, TypeOK, Threads, Slate, Requests, FlagEarned, Twice
<1>7. SignalsEarned'
  BY DEF IInv, ReadFlag, TypeOK, Threads, Requests, SignalsEarned
<1>8. Copies'
  BY DEF IInv, ReadFlag, TypeOK, Threads, Copies, SignalsEarned
<1>9. FlagKept'
  BY DEF IInv, ReadFlag, TypeOK, OneBidder, Threads, Slate, Requests, FlagKept
<1>10. QED
  BY <1>1, <1>2, <1>3, <1>4, <1>5, <1>6, <1>7, <1>8, <1>9 DEF IInv

LEMMA OpenFlagKeeps ==
  ASSUME IInv, Races = {}, NEW r \in Request, OpenFlag(r)
  PROVE  IInv'
<1>1. TypeOK'
  BY DEF IInv, OpenFlag, TypeOK
<1>2. OneBidder'
  BY DEF IInv, OpenFlag, TypeOK, OneBidder
<1>3. Threads'
  BY DEF IInv, OpenFlag, TypeOK, Threads
<1>4. Slate'
  BY DEF IInv, OpenFlag, TypeOK, OneBidder, Threads, Slate
<1>5. Requests'
  BY DEF IInv, OpenFlag, TypeOK, Threads, Slate, Requests, FlagEarned
<1>6. FlagEarned'
  BY DEF IInv, OpenFlag, TypeOK, Threads, Slate, Requests, FlagEarned, Twice
<1>7. SignalsEarned'
  BY DEF IInv, OpenFlag, TypeOK, Threads, Requests, SignalsEarned
<1>8. Copies'
  BY DEF IInv, OpenFlag, TypeOK, Threads, Copies, SignalsEarned
<1>9. FlagKept'
  BY DEF IInv, OpenFlag, TypeOK, OneBidder, Threads, Slate, Requests, FlagKept
<1>10. QED
  BY <1>1, <1>2, <1>3, <1>4, <1>5, <1>6, <1>7, <1>8, <1>9 DEF IInv

LEMMA WriteFlagKeeps ==
  ASSUME IInv, Races = {}, NEW r \in Request, WriteFlag(r)
  PROVE  IInv'
<1>1. TypeOK'
  BY DEF IInv, WriteFlag, TypeOK
<1>2. OneBidder'
  BY DEF IInv, WriteFlag, TypeOK, OneBidder
<1>3. Threads'
  BY DEF IInv, WriteFlag, TypeOK, Threads
<1>4. Slate'
  BY DEF IInv, WriteFlag, TypeOK, OneBidder, Threads, Slate
<1>5. Requests'
  BY DEF IInv, WriteFlag, TypeOK, Threads, Slate, Requests, FlagEarned
<1>6. FlagEarned'
  BY DEF IInv, WriteFlag, TypeOK, Threads, Slate, Requests, FlagEarned, Twice
<1>7. SignalsEarned'
  BY DEF IInv, WriteFlag, TypeOK, Threads, Requests, SignalsEarned
<1>8. Copies'
  BY DEF IInv, WriteFlag, TypeOK, Threads, Copies, SignalsEarned
<1>9. FlagKept'
  BY DEF IInv, WriteFlag, TypeOK, OneBidder, Threads, Slate, Requests, FlagKept
<1>10. QED
  BY <1>1, <1>2, <1>3, <1>4, <1>5, <1>6, <1>7, <1>8, <1>9 DEF IInv

LEMMA SignalKeeps ==
  ASSUME IInv, Races = {}, NEW r \in Request, Signal(r)
  PROVE  IInv'
<1>1. TypeOK'
  BY DEF IInv, Signal, TypeOK, Requests
<1>2. OneBidder'
  BY DEF IInv, Signal, TypeOK, OneBidder
<1>3. Threads'
  BY DEF IInv, Signal, TypeOK, Threads
<1>4. Slate'
  BY DEF IInv, Signal, TypeOK, OneBidder, Threads, Slate
<1>5. Requests'
  BY DEF IInv, Signal, TypeOK, Threads, Slate, Requests, FlagEarned
<1>6. FlagEarned'
  BY DEF IInv, Signal, TypeOK, Threads, Slate, Requests, FlagEarned, Twice
<1>7. SignalsEarned'
  BY DEF IInv, Signal, TypeOK, Threads, Requests, SignalsEarned
<1>8. Copies'
  BY DEF IInv, Signal, TypeOK, Threads, Copies, SignalsEarned
<1>9. FlagKept'
  BY DEF IInv, Signal, TypeOK, OneBidder, Threads, Slate, Requests, FlagKept
<1>10. QED
  BY <1>1, <1>2, <1>3, <1>4, <1>5, <1>6, <1>7, <1>8, <1>9 DEF IInv

LEMMA StopDoneKeeps ==
  ASSUME IInv, Races = {}, NEW r \in Request, StopDone(r)
  PROVE  IInv'
<1>1. TypeOK'
  BY DEF IInv, StopDone, TypeOK
<1>2. OneBidder'
  BY DEF IInv, StopDone, TypeOK, OneBidder
<1>3. Threads'
  BY DEF IInv, StopDone, TypeOK, Threads
<1>4. Slate'
  BY DEF IInv, StopDone, TypeOK, OneBidder, Threads, Slate
<1>5. Requests'
  BY DEF IInv, StopDone, TypeOK, Threads, Slate, Requests, FlagEarned
<1>6. FlagEarned'
  BY DEF IInv, StopDone, TypeOK, Threads, Slate, Requests, FlagEarned, Twice
<1>7. SignalsEarned'
  BY DEF IInv, StopDone, TypeOK, Threads, Requests, SignalsEarned
<1>8. Copies'
  BY DEF IInv, StopDone, TypeOK, Threads, Copies, SignalsEarned
<1>9. FlagKept'
  BY DEF IInv, StopDone, TypeOK, OneBidder, Threads, Slate, Requests, FlagKept
<1>10. QED
  BY <1>1, <1>2, <1>3, <1>4, <1>5, <1>6, <1>7, <1>8, <1>9 DEF IInv

LEMMA KillKeeps ==
  ASSUME IInv, Races = {}, NEW r \in Request, Kill(r)
  PROVE  IInv'
<1>1. TypeOK'
  BY DEF IInv, Kill, TypeOK
<1>2. OneBidder'
  BY DEF IInv, Kill, TypeOK, OneBidder
<1>3. Threads'
  BY DEF IInv, Kill, TypeOK, Threads, Requests
<1>4. Slate'
  BY DEF IInv, Kill, TypeOK, OneBidder, Threads, Slate
<1>5. Requests'
  BY DEF IInv, Kill, TypeOK, Threads, Slate, Requests, FlagEarned
<1>6. FlagEarned'
  BY DEF IInv, Kill, TypeOK, Threads, Slate, Requests, FlagEarned, Twice
<1>7. SignalsEarned'
  BY DEF IInv, Kill, TypeOK, Threads, Requests, SignalsEarned
<1>8. Copies'
  BY DEF IInv, Kill, TypeOK, Threads, Copies, SignalsEarned
<1>9. FlagKept'
  BY DEF IInv, Kill, TypeOK, OneBidder, Threads, Slate, Requests, FlagKept
<1>10. QED
  BY <1>1, <1>2, <1>3, <1>4, <1>5, <1>6, <1>7, <1>8, <1>9 DEF IInv

LEMMA InstallHandlerKeeps ==
  ASSUME IInv, Races = {}, NEW j \in Job, InstallHandler(j)
  PROVE  IInv'
<1>1. TypeOK'
  BY DEF IInv, InstallHandler, TypeOK
<1>2. OneBidder'
  BY DEF IInv, InstallHandler, TypeOK, OneBidder
<1>3. Threads'
  BY DEF IInv, InstallHandler, TypeOK, Threads
<1>4. Slate'
  BY DEF IInv, InstallHandler, TypeOK, OneBidder, Threads, Slate
<1>5. Requests'
  BY DEF IInv, InstallHandler, TypeOK, Threads, Slate, Requests, FlagEarned
<1>6. FlagEarned'
  BY DEF IInv, InstallHandler, TypeOK, Threads, Slate, Requests, FlagEarned, Twice
<1>7. SignalsEarned'
  BY DEF IInv, InstallHandler, TypeOK, Threads, Requests, SignalsEarned
<1>8. Copies'
  BY DEF IInv, InstallHandler, TypeOK, Threads, Copies, SignalsEarned
<1>9. FlagKept'
  BY DEF IInv, InstallHandler, TypeOK, OneBidder, Threads, Slate, Requests, FlagKept
<1>10. QED
  BY <1>1, <1>2, <1>3, <1>4, <1>5, <1>6, <1>7, <1>8, <1>9 DEF IInv

LEMMA ComposePollKeeps ==
  ASSUME IInv, Races = {}, NEW j \in Job, ComposePoll(j)
  PROVE  IInv'
<1>1. TypeOK'
  BY DEF IInv, ComposePoll, TypeOK
<1>2. OneBidder'
  BY DEF IInv, ComposePoll, TypeOK, OneBidder
<1>3. Threads'
  BY DEF IInv, ComposePoll, TypeOK, Threads
<1>4. Slate'
  BY DEF IInv, ComposePoll, TypeOK, OneBidder, Threads, Slate
<1>5. Requests'
  BY DEF IInv, ComposePoll, TypeOK, Threads, Slate, Requests, FlagEarned
<1>6. FlagEarned'
  BY DEF IInv, ComposePoll, TypeOK, Threads, Slate, Requests, FlagEarned, Twice
<1>7. SignalsEarned'
  BY DEF IInv, ComposePoll, TypeOK, Threads, Requests, SignalsEarned
<1>8. Copies'
  BY DEF IInv, ComposePoll, TypeOK, Threads, Copies, SignalsEarned
<1>9. FlagKept'
  BY DEF IInv, ComposePoll, TypeOK, OneBidder, Threads, Slate, Requests, FlagKept
<1>10. QED
  BY <1>1, <1>2, <1>3, <1>4, <1>5, <1>6, <1>7, <1>8, <1>9 DEF IInv

LEMMA KeepGoingKeeps ==
  ASSUME IInv, Races = {}, NEW j \in Job, KeepGoing(j)
  PROVE  IInv'
<1>1. TypeOK'
  BY DEF IInv, KeepGoing, TypeOK
<1>2. OneBidder'
  BY DEF IInv, KeepGoing, TypeOK, OneBidder
<1>3. Threads'
  BY DEF IInv, KeepGoing, TypeOK, Threads
<1>4. Slate'
  BY DEF IInv, KeepGoing, TypeOK, OneBidder, Threads, Slate
<1>5. Requests'
  BY DEF IInv, KeepGoing, TypeOK, Threads, Slate, Requests, FlagEarned
<1>6. FlagEarned'
  BY DEF IInv, KeepGoing, TypeOK, Threads, Slate, Requests, FlagEarned, Twice
<1>7. SignalsEarned'
  BY DEF IInv, KeepGoing, TypeOK, Threads, Requests, SignalsEarned
<1>8. Copies'
  BY DEF IInv, KeepGoing, TypeOK, Threads, Copies, SignalsEarned
<1>9. FlagKept'
  BY DEF IInv, KeepGoing, TypeOK, OneBidder, Threads, Slate, Requests, FlagKept
<1>10. QED
  BY <1>1, <1>2, <1>3, <1>4, <1>5, <1>6, <1>7, <1>8, <1>9 DEF IInv

LEMMA LeaveOnFlagKeeps ==
  ASSUME IInv, Races = {}, NEW j \in Job, LeaveOnFlag(j)
  PROVE  IInv'
<1>1. TypeOK'
  BY DEF IInv, LeaveOnFlag, TypeOK
<1>2. OneBidder'
  BY DEF IInv, LeaveOnFlag, TypeOK, OneBidder
<1>3. Threads'
  BY DEF IInv, LeaveOnFlag, TypeOK, Threads
<1>4. Slate'
  BY DEF IInv, LeaveOnFlag, TypeOK, OneBidder, Threads, Slate
<1>5. Requests'
  BY DEF IInv, LeaveOnFlag, TypeOK, Threads, Slate, Requests, FlagEarned
<1>6. FlagEarned'
  BY DEF IInv, LeaveOnFlag, TypeOK, Threads, Slate, Requests, FlagEarned, Twice
<1>7. SignalsEarned'
  BY DEF IInv, LeaveOnFlag, TypeOK, Threads, Requests, SignalsEarned
<1>8. Copies'
  BY DEF IInv, LeaveOnFlag, TypeOK, Threads, Copies, SignalsEarned
<1>9. FlagKept'
  BY DEF IInv, LeaveOnFlag, TypeOK, OneBidder, Threads, Slate, Requests, FlagKept
<1>10. QED
  BY <1>1, <1>2, <1>3, <1>4, <1>5, <1>6, <1>7, <1>8, <1>9 DEF IInv

LEMMA HoldKeeps ==
  ASSUME IInv, Races = {}, NEW j \in Job, Hold(j)
  PROVE  IInv'
<1>1. TypeOK'
  BY DEF IInv, Hold, TypeOK
<1>2. OneBidder'
  BY DEF IInv, Hold, TypeOK, OneBidder
<1>3. Threads'
  BY DEF IInv, Hold, TypeOK, Threads
<1>4. Slate'
  BY DEF IInv, Hold, TypeOK, OneBidder, Threads, Slate
<1>5. Requests'
  BY DEF IInv, Hold, TypeOK, Threads, Slate, Requests, FlagEarned
<1>6. FlagEarned'
  BY DEF IInv, Hold, TypeOK, Threads, Slate, Requests, FlagEarned, Twice
<1>7. SignalsEarned'
  BY DEF IInv, Hold, TypeOK, Threads, Requests, SignalsEarned
<1>8. Copies'
  BY DEF IInv, Hold, TypeOK, Threads, Copies, SignalsEarned
<1>9. FlagKept'
  BY DEF IInv, Hold, TypeOK, OneBidder, Threads, Slate, Requests, FlagKept
<1>10. QED
  BY <1>1, <1>2, <1>3, <1>4, <1>5, <1>6, <1>7, <1>8, <1>9 DEF IInv

LEMMA SendRaiseKeeps ==
  ASSUME IInv, Races = {}, NEW j \in Job, SendRaise(j)
  PROVE  IInv'
<1>1. TypeOK'
  BY DEF IInv, SendRaise, TypeOK
<1>2. OneBidder'
  BY DEF IInv, SendRaise, TypeOK, OneBidder
<1>3. Threads'
  BY DEF IInv, SendRaise, TypeOK, Threads
<1>4. Slate'
  BY DEF IInv, SendRaise, TypeOK, OneBidder, Threads, Slate
<1>5. Requests'
  BY DEF IInv, SendRaise, TypeOK, Threads, Slate, Requests, FlagEarned
<1>6. FlagEarned'
  BY DEF IInv, SendRaise, TypeOK, Threads, Slate, Requests, FlagEarned, Twice
<1>7. SignalsEarned'
  BY DEF IInv, SendRaise, TypeOK, Threads, Requests, SignalsEarned
<1>8. Copies'
  BY DEF IInv, SendRaise, TypeOK, Threads, Copies, SignalsEarned
<1>9. FlagKept'
  BY DEF IInv, SendRaise, TypeOK, OneBidder, Threads, Slate, Requests, FlagKept
<1>10. QED
  BY <1>1, <1>2, <1>3, <1>4, <1>5, <1>6, <1>7, <1>8, <1>9 DEF IInv

LEMMA RaiseSentKeeps ==
  ASSUME IInv, Races = {}, NEW j \in Job, RaiseSent(j)
  PROVE  IInv'
<1>1. TypeOK'
  BY DEF IInv, RaiseSent, TypeOK
<1>2. OneBidder'
  BY DEF IInv, RaiseSent, TypeOK, OneBidder
<1>3. Threads'
  BY DEF IInv, RaiseSent, TypeOK, Threads
<1>4. Slate'
  BY DEF IInv, RaiseSent, TypeOK, OneBidder, Threads, Slate
<1>5. Requests'
  BY DEF IInv, RaiseSent, TypeOK, Threads, Slate, Requests, FlagEarned
<1>6. FlagEarned'
  BY DEF IInv, RaiseSent, TypeOK, Threads, Slate, Requests, FlagEarned, Twice
<1>7. SignalsEarned'
  BY DEF IInv, RaiseSent, TypeOK, Threads, Requests, SignalsEarned
<1>8. Copies'
  BY DEF IInv, RaiseSent, TypeOK, Threads, Copies, SignalsEarned
<1>9. FlagKept'
  BY DEF IInv, RaiseSent, TypeOK, OneBidder, Threads, Slate, Requests, FlagKept
<1>10. QED
  BY <1>1, <1>2, <1>3, <1>4, <1>5, <1>6, <1>7, <1>8, <1>9 DEF IInv

LEMMA LeaveKeeps ==
  ASSUME IInv, Races = {}, NEW j \in Job, Leave(j)
  PROVE  IInv'
<1>1. TypeOK'
  BY DEF IInv, Leave, TypeOK
<1>2. OneBidder'
  BY DEF IInv, Leave, TypeOK, OneBidder
<1>3. Threads'
  BY DEF IInv, Leave, TypeOK, Threads
<1>4. Slate'
  BY DEF IInv, Leave, TypeOK, OneBidder, Threads, Slate
<1>5. Requests'
  BY DEF IInv, Leave, TypeOK, Threads, Slate, Requests, FlagEarned
<1>6. FlagEarned'
  BY DEF IInv, Leave, TypeOK, Threads, Slate, Requests, FlagEarned, Twice
<1>7. SignalsEarned'
  BY DEF IInv, Leave, TypeOK, Threads, Requests, SignalsEarned
<1>8. Copies'
  BY DEF IInv, Leave, TypeOK, Threads, Copies, SignalsEarned
<1>9. FlagKept'
  BY DEF IInv, Leave, TypeOK, OneBidder, Threads, Slate, Requests, FlagKept
<1>10. QED
  BY <1>1, <1>2, <1>3, <1>4, <1>5, <1>6, <1>7, <1>8, <1>9 DEF IInv

LEMMA HangKeeps ==
  ASSUME IInv, Races = {}, NEW j \in Job, Hang(j)
  PROVE  IInv'
<1>1. TypeOK'
  BY DEF IInv, Hang, TypeOK
<1>2. OneBidder'
  BY DEF IInv, Hang, TypeOK, OneBidder
<1>3. Threads'
  BY DEF IInv, Hang, TypeOK, Threads
<1>4. Slate'
  BY DEF IInv, Hang, TypeOK, OneBidder, Threads, Slate
<1>5. Requests'
  BY DEF IInv, Hang, TypeOK, Threads, Slate, Requests, FlagEarned
<1>6. FlagEarned'
  BY DEF IInv, Hang, TypeOK, Threads, Slate, Requests, FlagEarned, Twice
<1>7. SignalsEarned'
  BY DEF IInv, Hang, TypeOK, Threads, Requests, SignalsEarned
<1>8. Copies'
  BY DEF IInv, Hang, TypeOK, Threads, Copies, SignalsEarned
<1>9. FlagKept'
  BY DEF IInv, Hang, TypeOK, OneBidder, Threads, Slate, Requests, FlagKept
<1>10. QED
  BY <1>1, <1>2, <1>3, <1>4, <1>5, <1>6, <1>7, <1>8, <1>9 DEF IInv

LEMMA CrashKeeps ==
  ASSUME IInv, Races = {}, NEW j \in Job, Crash(j)
  PROVE  IInv'
<1>1. TypeOK'
  BY DEF IInv, Crash, TypeOK
<1>2. OneBidder'
  BY DEF IInv, Crash, TypeOK, OneBidder
<1>3. Threads'
  BY DEF IInv, Crash, TypeOK, Threads
<1>4. Slate'
  BY DEF IInv, Crash, TypeOK, OneBidder, Threads, Slate
<1>5. Requests'
  BY DEF IInv, Crash, TypeOK, Threads, Slate, Requests, FlagEarned
<1>6. FlagEarned'
  BY DEF IInv, Crash, TypeOK, Threads, Slate, Requests, FlagEarned, Twice
<1>7. SignalsEarned'
  BY DEF IInv, Crash, TypeOK, Threads, Requests, SignalsEarned
<1>8. Copies'
  BY DEF IInv, Crash, TypeOK, Threads, Copies, SignalsEarned
<1>9. FlagKept'
  BY DEF IInv, Crash, TypeOK, OneBidder, Threads, Slate, Requests, FlagKept
<1>10. QED
  BY <1>1, <1>2, <1>3, <1>4, <1>5, <1>6, <1>7, <1>8, <1>9 DEF IInv

LEMMA InterruptBootKeeps ==
  ASSUME IInv, Races = {}, NEW j \in Job, InterruptBoot(j)
  PROVE  IInv'
<1>1. TypeOK'
  BY DEF IInv, InterruptBoot, TypeOK
<1>2. OneBidder'
  BY DEF IInv, InterruptBoot, TypeOK, OneBidder
<1>3. Threads'
  BY DEF IInv, InterruptBoot, TypeOK, Threads
<1>4. Slate'
  BY DEF IInv, InterruptBoot, TypeOK, OneBidder, Threads, Slate
<1>5. Requests'
  BY DEF IInv, InterruptBoot, TypeOK, Threads, Slate, Requests, FlagEarned
<1>6. FlagEarned'
  BY DEF IInv, InterruptBoot, TypeOK, Threads, Slate, Requests, FlagEarned, Twice
<1>7. SignalsEarned'
  BY DEF IInv, InterruptBoot, TypeOK, Threads, Requests, SignalsEarned
<1>8. Copies'
  BY DEF IInv, InterruptBoot, TypeOK, Threads, Copies, SignalsEarned
<1>9. FlagKept'
  BY DEF IInv, InterruptBoot, TypeOK, OneBidder, Threads, Slate, Requests, FlagKept
<1>10. QED
  BY <1>1, <1>2, <1>3, <1>4, <1>5, <1>6, <1>7, <1>8, <1>9 DEF IInv

LEMMA InterruptDisarmsKeeps ==
  ASSUME IInv, Races = {}, NEW j \in Job, InterruptDisarms(j)
  PROVE  IInv'
<1>1. TypeOK'
  BY DEF IInv, InterruptDisarms, TypeOK
<1>2. OneBidder'
  BY DEF IInv, InterruptDisarms, TypeOK, OneBidder
<1>3. Threads'
  BY DEF IInv, InterruptDisarms, TypeOK, Threads
<1>4. Slate'
  BY DEF IInv, InterruptDisarms, TypeOK, OneBidder, Threads, Slate
<1>5. Requests'
  BY DEF IInv, InterruptDisarms, TypeOK, Threads, Slate, Requests, FlagEarned
<1>6. FlagEarned'
  BY DEF IInv, InterruptDisarms, TypeOK, Threads, Slate, Requests, FlagEarned, Twice
<1>7. SignalsEarned'
  BY DEF IInv, InterruptDisarms, TypeOK, Threads, Requests, SignalsEarned
<1>8. Copies'
  BY DEF IInv, InterruptDisarms, TypeOK, Threads, Copies, SignalsEarned
<1>9. FlagKept'
  BY DEF IInv, InterruptDisarms, TypeOK, OneBidder, Threads, Slate, Requests, FlagKept
<1>10. QED
  BY <1>1, <1>2, <1>3, <1>4, <1>5, <1>6, <1>7, <1>8, <1>9 DEF IInv

LEMMA InterruptLeavesKeeps ==
  ASSUME IInv, Races = {}, NEW j \in Job, InterruptLeaves(j)
  PROVE  IInv'
<1>1. TypeOK'
  BY DEF IInv, InterruptLeaves, TypeOK
<1>2. OneBidder'
  BY DEF IInv, InterruptLeaves, TypeOK, OneBidder
<1>3. Threads'
  BY DEF IInv, InterruptLeaves, TypeOK, Threads
<1>4. Slate'
  BY DEF IInv, InterruptLeaves, TypeOK, OneBidder, Threads, Slate
<1>5. Requests'
  BY DEF IInv, InterruptLeaves, TypeOK, Threads, Slate, Requests, FlagEarned
<1>6. FlagEarned'
  BY DEF IInv, InterruptLeaves, TypeOK, Threads, Slate, Requests, FlagEarned, Twice
<1>7. SignalsEarned'
  BY DEF IInv, InterruptLeaves, TypeOK, Threads, Requests, SignalsEarned
<1>8. Copies'
  BY DEF IInv, InterruptLeaves, TypeOK, Threads, Copies, SignalsEarned
<1>9. FlagKept'
  BY DEF IInv, InterruptLeaves, TypeOK, OneBidder, Threads, Slate, Requests, FlagKept
<1>10. QED
  BY <1>1, <1>2, <1>3, <1>4, <1>5, <1>6, <1>7, <1>8, <1>9 DEF IInv

LEMMA StopNothingKeeps ==
  ASSUME IInv, NEW r \in Request, NEW j \in Job, StopNothing(r, j)
  PROVE  IInv'
<1>1. TypeOK' /\ OneBidder' /\ Threads'
  BY DEF IInv, StopNothing, TypeOK, OneBidder, Threads
<1>2. Slate' /\ Requests' /\ FlagEarned'
  BY DEF IInv, StopNothing, TypeOK, Threads, Slate, Requests, FlagEarned, Twice
<1>3. SignalsEarned' /\ Copies' /\ FlagKept'
  BY DEF IInv, StopNothing, TypeOK, Threads, Requests, SignalsEarned, Copies, FlagKept
<1>4. QED
  BY <1>1, <1>2, <1>3 DEF IInv

\* A stop begins on the one bidder that runs: no other is starting.
LEMMA StopBeginKeeps ==
  ASSUME IInv, NEW r \in Request, NEW j \in Job, StopBegin(r, j)
  PROVE  IInv'
<1>1. TypeOK' /\ OneBidder' /\ Threads'
  BY DEF IInv, StopBegin, TypeOK, OneBidder, Threads
<1>2. Slate'
  <2>1. job[j] = "spawned"
    BY DEF IInv, StopBegin, Threads, TypeOK
  <2>2. \A k \in Job : job[k] \notin {"registered", "cleared"}
    BY <2>1 DEF IInv, OneBidder
  <2>3. QED
    BY <2>2 DEF StopBegin, Slate
<1>3. Requests' /\ FlagEarned'
  BY DEF IInv, StopBegin, TypeOK, Threads, Requests, FlagEarned, Twice
<1>4. SignalsEarned' /\ Copies' /\ FlagKept'
  BY DEF IInv, StopBegin, TypeOK, Threads, Requests, SignalsEarned, Copies, FlagKept
<1>5. QED
  BY <1>1, <1>2, <1>3, <1>4 DEF IInv

LEMMA RestartAppKeeps ==
  ASSUME IInv, RestartApp
  PROVE  IInv'
<1>1. TypeOK'
  BY BoundsAssumption DEF IInv, RestartApp, TypeOK
<1>2. OneBidder' /\ Threads' /\ Slate'
  BY DEF IInv, RestartApp, TypeOK, OneBidder, Threads, Slate
<1>3. Requests' /\ FlagEarned'
  BY DEF IInv, RestartApp, TypeOK, Threads, Requests, FlagEarned, Twice
<1>4. SignalsEarned' /\ Copies' /\ FlagKept'
  BY DEF IInv, RestartApp, TypeOK, Threads, Requests, SignalsEarned, Copies, FlagKept
<1>5. QED
  BY <1>1, <1>2, <1>3, <1>4 DEF IInv

-----------------------------------------------------------------------------
(* The invariant.                                                          *)

LEMMA InitEstablishes == Init => IInv
BY BoundsAssumption DEF Init, IInv, TypeOK, OneBidder, Threads, Slate, Requests,
   FlagEarned, Twice, SignalsEarned, Copies, FlagKept

LEMMA StepKeeps ==
  ASSUME IInv, Races = {}, [Next]_vars
  PROVE  IInv'
<1>1. ASSUME NEW j \in Job, StartStep(j) PROVE IInv'
  BY <1>1, AskStartKeeps, RegisterKeeps, ClearKeeps, SpawnKeeps,
     StartFailsKeeps, ReapKeeps DEF StartStep
<1>2. ASSUME NEW j \in Job, ChildStep(j) PROVE IInv'
  BY <1>2, InstallHandlerKeeps, ComposePollKeeps, KeepGoingKeeps, LeaveOnFlagKeeps,
     HoldKeeps, SendRaiseKeeps, RaiseSentKeeps, LeaveKeeps DEF ChildStep
<1>3. ASSUME NEW j \in Job, Interrupt(j) \/ Hang(j) \/ Crash(j) PROVE IInv'
  BY <1>3, InterruptBootKeeps, InterruptDisarmsKeeps, InterruptLeavesKeeps, HangKeeps,
     CrashKeeps DEF Interrupt
<1>4. ASSUME NEW r \in Request, StopStep(r) PROVE IInv'
  BY <1>4, ReadFlagKeeps, OpenFlagKeeps, WriteFlagKeeps, SignalKeeps, StopDoneKeeps,
     KillKeeps DEF StopStep
<1>5. ASSUME NEW r \in Request, NEW j \in Job, StopNothing(r, j) \/ StopBegin(r, j)
      PROVE  IInv'
  BY <1>5, StopNothingKeeps, StopBeginKeeps
<1>6. CASE RestartApp
  BY <1>6, RestartAppKeeps
<1>7. CASE UNCHANGED vars
  BY <1>7 DEF vars, IInv, TypeOK, OneBidder, Threads, Slate, Requests, FlagEarned, Twice,
     SignalsEarned, Copies, FlagKept
<1>8. QED
  BY <1>1, <1>2, <1>3, <1>4, <1>5, <1>6, <1>7 DEF Next

LEMMA Invariance ==
  ASSUME Races = {}
  PROVE  Spec => []IInv
<1>1. Init => IInv
  BY InitEstablishes
<1>2. IInv /\ [Next]_vars => IInv'
  BY StepKeeps
<1>3. QED
  BY <1>1, <1>2, PTL DEF Spec

\* Every variable keeps its type, whoever is stopped, killed or restarted.
THEOREM TypeCorrect ==
  ASSUME Races = {}
  PROVE  Spec => []TypeOK
<1>1. IInv => TypeOK
  BY DEF IInv
<1>2. QED
  BY <1>1, Invariance, PTL

\* The check made under _START_LOCK is enough: however many requests resolve
\* their rooms at once, one app runs one bidder.
THEOREM OneBidderAtATime ==
  ASSUME Races = {}
  PROVE  Spec => []OneBidder
<1>1. IInv => OneBidder
  BY DEF IInv
<1>2. QED
  BY <1>1, Invariance, PTL

-----------------------------------------------------------------------------
(* What one step may do.                                                   *)

\* Only a poll that passes the write lock sends a raise, and only a thread
\* that has cleared the flag starts a child.
LEMMA OnlyTheGateSends ==
  ASSUME IInv, [Next]_vars, NEW j \in Job, child'[j] # child[j],
         child'[j] \in {"sending", "boot"}
  PROVE  \/ child'[j] = "sending" /\ Stage(flag) = "none"
         \/ child'[j] = "boot" /\ job[j] = "cleared"
<1>1. ASSUME NEW k \in Job, StartStep(k) PROVE child'[j] = "boot" /\ job[j] = "cleared"
  BY <1>1 DEF IInv, TypeOK, StartStep, AskStart, Register, Clear, Spawn,
     StartFails, Reap
<1>2. ASSUME NEW k \in Job, ChildStep(k)
      PROVE  child'[j] = "sending" /\ Stage(flag) = "none"
  BY <1>2 DEF IInv, TypeOK, ChildStep, InstallHandler, ComposePoll, KeepGoing, LeaveOnFlag,
     Hold, SendRaise, RaiseSent, Leave
<1>3. ASSUME NEW k \in Job, Interrupt(k) \/ Hang(k) \/ Crash(k) PROVE FALSE
  BY <1>3 DEF IInv, TypeOK, Interrupt, InterruptBoot, InterruptDisarms, InterruptLeaves,
     Hang, Crash
<1>4. ASSUME NEW r \in Request, StopStep(r) PROVE FALSE
  BY <1>4 DEF IInv, TypeOK, StopStep, ReadFlag, OpenFlag, WriteFlag, Signal, StopDone, Kill
<1>5. ASSUME NEW r \in Request, NEW k \in Job, StopNothing(r, k) \/ StopBegin(r, k)
      PROVE  FALSE
  BY <1>5 DEF StopNothing, StopBegin
<1>6. ASSUME RestartApp \/ UNCHANGED vars PROVE FALSE
  BY <1>6 DEF RestartApp, vars
<1>7. QED
  BY <1>1, <1>2, <1>3, <1>4, <1>5, <1>6 DEF Next

\* No raise passes the write lock once a stop is written, however the poll,
\* the signal and the bid fall: but for the instant another stop rewrites the
\* file.
THEOREM RaisesHeld ==
  ASSUME Races = {}
  PROVE  Spec => HeldAfterStop
<1>1. IInv /\ [Next]_vars => \A j \in Job : Held(j)
  <2> SUFFICES ASSUME IInv, [Next]_vars, NEW j \in Job,
                      child[j] = "cycle", child'[j] = "sending", asked[j] # {}, restarts = 0
               PROVE  flag \in {"empty", "garbled"}
    BY DEF Held
  <2>1. Stage(flag) = "none"
    BY OnlyTheGateSends
  <2>2. flag # "none"
    BY DEF IInv, FlagKept
  <2>3. QED
    BY <2>1, <2>2 DEF IInv, TypeOK
<1>2. QED
  BY <1>1, Invariance, PTL DEF Spec, HeldAfterStop

\* A child starts on a clean slate, whatever its predecessors left there.
THEOREM StartsFresh ==
  ASSUME Races = {}
  PROVE  Spec => FreshStart
<1>1. IInv /\ [Next]_vars => \A j \in Job : Fresh(j)
  <2> SUFFICES ASSUME IInv, [Next]_vars, NEW j \in Job, child[j] = "none", child'[j] = "boot"
               PROVE  Stage(flag) = "none"
    BY DEF Fresh
  <2>1. job[j] = "cleared"
    BY OnlyTheGateSends
  <2>2. QED
    BY <2>1 DEF IInv, Slate
<1>2. QED
  BY <1>1, Invariance, PTL DEF Spec, FreshStart

-----------------------------------------------------------------------------
(* The refinement: every step is a step of the gesture, or none.           *)

GestureStep == [Gesture!Next]_(Gesture!vars)

\* A step that moves no child from one mode to another is none of the gesture.
LEMMA Silent ==
  ASSUME UNCHANGED <<begun, asked>>,
         \A j \in Job :
           \/ child'[j] = child[j] /\ armed'[j] = armed[j]
           \/ child[j] \in Up /\ child'[j] \in Up /\ armed'[j] = armed[j]
              /\ child[j] # "sending" /\ child'[j] # "sending"
           \/ child[j] = "leaving" /\ child'[j] = "left"
  PROVE  UNCHANGED Gesture!vars
<1>1. Mode' = Mode
  BY DEF Mode
<1>2. Raising' = Raising
  BY DEF Raising
<1>3. QED
  BY <1>1, <1>2 DEF Gesture!vars

LEMMA SpawnBegins ==
  ASSUME IInv, NEW j \in Job, Spawn(j)
  PROVE  Gesture!Begin(j)
<1>1. child[j] = "none"
  BY DEF IInv, Threads, Spawn
<1>2. Raising' = Raising
  BY <1>1 DEF Raising, Spawn, IInv, TypeOK
<1>3. PICK arm \in BOOLEAN : begun' = [begun EXCEPT ![j] = arm] /\ armed' = [armed EXCEPT ![j] = arm]
  BY DEF Spawn
<1>4. Mode' = [Mode EXCEPT ![j] = IF arm THEN "armed" ELSE "watching"]
  BY <1>1, <1>3 DEF Mode, Spawn, IInv, TypeOK
<1>5. QED
  BY <1>1, <1>2, <1>3, <1>4 DEF Gesture!Begin, Mode, Spawn

LEMMA WriteAsks ==
  ASSUME IInv, NEW r \in Request, WriteFlag(r)
  PROVE  Gesture!Ask(r)
<1>1. UNCHANGED <<Mode, begun, Raising>>
  BY DEF Mode, Raising, WriteFlag
<1>2. \A j \in Job : r \notin asked[j]
  BY DEF IInv, Requests, WriteFlag
<1>3. {j \in Job : child[j] \in Up} \subseteq Gesture!Up
  BY DEF Gesture!Up, Mode
<1>4. asked' = [j \in Job |-> IF j \in {k \in Job : child[k] \in Up}
                              THEN asked[j] \cup {r} ELSE asked[j]]
  BY DEF WriteFlag
<1>5. QED
  BY <1>1, <1>2, <1>3, <1>4 DEF Gesture!Ask

\* armed[0] is cleared, whatever cleared it.
LEMMA ClearedIsDisarm ==
  ASSUME TypeOK, NEW j \in Job, child[j] \in Up, armed[j], asked[j] # {},
         NEW state \in Up, child' = [child EXCEPT ![j] = state],
         child[j] = "sending" <=> state = "sending",
         armed' = [armed EXCEPT ![j] = FALSE], UNCHANGED <<begun, asked>>
  PROVE  Gesture!Disarm(j)
<1>1. Mode[j] = "armed" /\ Mode' = [Mode EXCEPT ![j] = "watching"]
  BY DEF Mode, TypeOK
<1>2. Raising' = Raising
  BY DEF Raising, TypeOK
<1>3. QED
  BY <1>1, <1>2 DEF Gesture!Disarm

\* The end of a child is one of the two ends of a run.
LEMMA EndIsDie ==
  ASSUME TypeOK, NEW j \in Job, child[j] \in Up, child' = [child EXCEPT ![j] = "died"],
         armed' = [armed EXCEPT ![j] = FALSE], UNCHANGED <<begun, asked>>
  PROVE  Gesture!Die(j)
<1>1. j \in Gesture!Up /\ Mode' = [Mode EXCEPT ![j] = "died"]
  BY DEF Mode, TypeOK, Gesture!Up
<1>2. Raising' = [Raising EXCEPT ![j] = FALSE]
  BY DEF Raising, TypeOK
<1>3. QED
  BY <1>1, <1>2 DEF Gesture!Die

LEMMA EndIsLeave ==
  ASSUME TypeOK, NEW j \in Job, child[j] \in Up, child' = [child EXCEPT ![j] = "leaving"],
         IF begun[j] THEN Twice(j) ELSE asked[j] # {},
         armed' \in [Job -> BOOLEAN], \A k \in Job \ {j} : armed'[k] = armed[k],
         UNCHANGED <<begun, asked>>
  PROVE  Gesture!Leave(j)
<1>1. j \in Gesture!Up /\ Mode' = [Mode EXCEPT ![j] = "left"]
  BY DEF Mode, TypeOK, Gesture!Up
<1>2. Raising' = [Raising EXCEPT ![j] = FALSE]
  BY DEF Raising, TypeOK
<1>3. QED
  BY <1>1, <1>2 DEF Gesture!Leave, Gesture!Twice, Twice

LEMMA PollIsDisarm ==
  ASSUME IInv, NEW j \in Job, KeepGoing(j)
  PROVE  Gesture!Disarm(j) \/ UNCHANGED Gesture!vars
<1>1. CASE armed' = armed
  BY <1>1, Silent DEF KeepGoing, IInv, TypeOK
<1>2. CASE armed' # armed
  <2>1. Stage(flag) = Disarm /\ armed[j] /\ armed' = [armed EXCEPT ![j] = FALSE]
    BY <1>2 DEF KeepGoing, IInv, TypeOK
  <2>2. asked[j] # {}
    BY <2>1 DEF IInv, FlagEarned, KeepGoing
  <2>3. QED
    BY <1>2, <2>1, <2>2, ClearedIsDisarm DEF KeepGoing, IInv, TypeOK
<1>3. QED
  BY <1>1, <1>2

LEMMA FlagIsLeave ==
  ASSUME IInv, NEW j \in Job, LeaveOnFlag(j)
  PROVE  Gesture!Leave(j)
<1>1. IF begun[j] THEN Twice(j) ELSE asked[j] # {}
  BY DEF IInv, LeaveOnFlag, FlagEarned, Twice, Copies
<1>2. QED
  BY <1>1, EndIsLeave DEF LeaveOnFlag, IInv, TypeOK

LEMMA InterruptIsGesture ==
  ASSUME IInv, Races = {}, NEW j \in Job, Interrupt(j)
  PROVE  Gesture!Disarm(j) \/ Gesture!Leave(j) \/ Gesture!Die(j) \/ UNCHANGED Gesture!vars
<1>1. CASE InterruptBoot(j)
  BY <1>1, EndIsDie DEF InterruptBoot, IInv, TypeOK
<1>2. CASE InterruptDisarms(j)
  <2>1. asked[j] # {} /\ child[j] \in Up
    BY <1>2 DEF InterruptDisarms, IInv, SignalsEarned
  <2>2. CASE armed[j]
    <3>1. child' = [child EXCEPT ![j] = child[j]]
      BY <1>2 DEF InterruptDisarms, IInv, TypeOK
    <3>2. QED
      BY <1>2, <2>1, <2>2, <3>1, ClearedIsDisarm DEF InterruptDisarms, IInv
  <2>3. CASE ~armed[j]
    BY <1>2, <2>3, Silent DEF InterruptDisarms, IInv, TypeOK
  <2>4. QED
    BY <2>2, <2>3
<1>3. CASE InterruptLeaves(j)
  <2>1. IF begun[j] THEN Twice(j) ELSE asked[j] # {}
    BY <1>3 DEF InterruptLeaves, IInv, TypeOK, SignalsEarned, Twice
  <2>2. QED
    BY <1>3, <2>1, EndIsLeave DEF InterruptLeaves, IInv, TypeOK
<1>4. QED
  BY <1>1, <1>2, <1>3 DEF Interrupt

LEMMA RaiseIsGesture ==
  ASSUME IInv, NEW j \in Job, SendRaise(j) \/ RaiseSent(j)
  PROVE  Gesture!Raise(j) \/ Gesture!Settle(j)
<1>1. Mode' = Mode
  BY DEF Mode, SendRaise, RaiseSent, IInv, TypeOK
<1>2. CASE SendRaise(j)
  <2>1. Mode[j] = "armed" /\ ~Raising[j] /\ Raising' = [Raising EXCEPT ![j] = TRUE]
    BY <1>2 DEF SendRaise, Mode, Raising, IInv, TypeOK
  <2>2. QED
    BY <1>1, <1>2, <2>1 DEF Gesture!Raise, SendRaise
<1>3. CASE RaiseSent(j)
  <2>1. Raising[j] /\ Raising' = [Raising EXCEPT ![j] = FALSE]
    BY <1>3 DEF RaiseSent, Raising, IInv, TypeOK
  <2>2. QED
    BY <1>1, <1>3, <2>1 DEF Gesture!Settle, RaiseSent
<1>4. QED
  BY <1>2, <1>3

LEMMA KillIsDie ==
  ASSUME IInv, NEW r \in Request, Kill(r)
  PROVE  (\E j \in Job : Gesture!Die(j)) \/ UNCHANGED Gesture!vars
<1> DEFINE j == req[r].job
<1>1. j \in Job /\ child[j] \in Live
  BY DEF Kill, IInv, TypeOK, Requests
<1>2. CASE child[j] = "leaving"
  <2>1. ~armed'[j] /\ child' = [child EXCEPT ![j] = "left"] /\ UNCHANGED <<begun, asked>>
    BY <1>1, <1>2 DEF Kill, IInv, TypeOK
  <2>2. Mode' = Mode
    BY <1>1, <1>2, <2>1 DEF Mode, Kill, IInv, TypeOK
  <2>3. Raising' = Raising
    BY <1>1, <1>2, <2>1 DEF Raising, IInv, TypeOK
  <2>4. QED
    BY <2>1, <2>2, <2>3 DEF Gesture!vars
<1>3. CASE child[j] # "leaving"
  BY <1>1, <1>3, EndIsDie DEF Kill, IInv, TypeOK
<1>4. QED
  BY <1>2, <1>3

LEMMA StepIsGesture ==
  ASSUME IInv, Races = {}, [Next]_vars
  PROVE  GestureStep
<1>1. ASSUME NEW j \in Job, StartStep(j) PROVE GestureStep
  <2>1. CASE Spawn(j)
    BY <2>1, SpawnBegins DEF GestureStep, Gesture!Next
  <2>2. CASE ~Spawn(j)
    BY <1>1, <2>2, Silent DEF GestureStep, StartStep, AskStart, Register, Clear,
       StartFails, Reap
  <2>3. QED
    BY <2>1, <2>2
<1>2. ASSUME NEW j \in Job, ChildStep(j) PROVE GestureStep
  <2>1. CASE KeepGoing(j) \/ LeaveOnFlag(j) \/ SendRaise(j) \/ RaiseSent(j)
    BY <2>1, PollIsDisarm, FlagIsLeave, RaiseIsGesture DEF GestureStep, Gesture!Next
  <2>2. CASE Leave(j)
    <3>1. Mode' = Mode /\ Raising' = Raising
      BY <2>2 DEF Leave, Mode, Raising, IInv, TypeOK
    <3>2. QED
      BY <2>2, <3>1 DEF GestureStep, Gesture!vars, Leave
  <2>3. CASE InstallHandler(j) \/ ComposePoll(j) \/ Hold(j)
    BY <2>3, Silent DEF GestureStep, InstallHandler, ComposePoll, Hold, IInv, TypeOK
  <2>4. QED
    BY <1>2, <2>1, <2>2, <2>3 DEF ChildStep
<1>3. ASSUME NEW j \in Job, Interrupt(j) \/ Hang(j) \/ Crash(j) PROVE GestureStep
  <2>1. CASE Interrupt(j)
    BY <2>1, InterruptIsGesture DEF GestureStep, Gesture!Next
  <2>2. CASE Hang(j)
    BY <2>2, Silent DEF GestureStep, Hang, IInv, TypeOK
  <2>3. CASE Crash(j)
    BY <2>3, EndIsDie DEF GestureStep, Gesture!Next, Crash, IInv
  <2>4. QED
    BY <1>3, <2>1, <2>2, <2>3
<1>4. ASSUME NEW r \in Request, StopStep(r) PROVE GestureStep
  <2>1. CASE WriteFlag(r) \/ Kill(r)
    BY <2>1, WriteAsks, KillIsDie DEF GestureStep, Gesture!Next
  <2>2. CASE ReadFlag(r) \/ OpenFlag(r) \/ Signal(r) \/ StopDone(r)
    BY <2>2, Silent DEF GestureStep, ReadFlag, OpenFlag, Signal, StopDone
  <2>3. QED
    BY <1>4, <2>1, <2>2 DEF StopStep
<1>5. ASSUME NEW r \in Request, NEW j \in Job, StopNothing(r, j) \/ StopBegin(r, j)
      PROVE  GestureStep
  BY <1>5, Silent DEF GestureStep, StopNothing, StopBegin
<1>6. CASE RestartApp \/ UNCHANGED vars
  BY <1>6, Silent DEF GestureStep, RestartApp, vars
<1>7. QED
  BY <1>1, <1>2, <1>3, <1>4, <1>5, <1>6 DEF Next

\* The flag file, the signals, the two snapshots of armed_at_start and the
\* threads of the app implement the gesture: one request never ends an armed
\* run, two different ones are needed; one is enough for a run that was never
\* armed; a disarmed run sends nothing.
THEOREM GestureImplemented ==
  ASSUME Races = {}
  PROVE  Spec => ImplementsGesture
<1>1. Init => Gesture!Init
  BY DEF Init, Gesture!Init, Mode, Raising
<1>2. IInv /\ [Next]_vars => [Gesture!Next]_(Gesture!vars)
  BY StepIsGesture DEF GestureStep
<1>3. QED
  BY <1>1, <1>2, Invariance, PTL DEF Spec, ImplementsGesture, Gesture!Spec

=============================================================================
