------------------------- MODULE PipelineRunProofs -------------------------
(***************************************************************************)
(* Theorems about PipelineRun, for every set of processes and every value  *)
(* of its bounds.                                                          *)
(***************************************************************************)
EXTENDS PipelineRun, FiniteSetTheorems, TLAPS

\* Everything from a try_lock that succeeded to the unlock.
Locked == Staging \union {"recover", "unlock", "sweep", "claim", "release"}

\* Stations at which a process remembers the run it means to execute.
Aimed == Staging \union {"acquire", "sweep", "claim", "release"}

TargetsAreRuns == \A p \in Procs : pc[p] \in Aimed => target[p] \in Runs

\* ... and that run has a row.
TargetsExist == \A p \in Procs : pc[p] \in Aimed => status[target[p]] # "none"

\* Whoever is inside advisory_lock holds it ...
LockedHoldTheLock == \A p \in Procs : pc[p] \in Locked => lock = p

\* ... and the run it is staging is `running`.
StagedRunsAreRunning ==
    \A p \in Procs : pc[p] \in Staging => status[target[p]] = "running"

-----------------------------------------------------------------------------

\* A count of recorded jobs never exceeds the number of jobs.
LEMMA CountsAreBounded ==
    ASSUME TypeOK, NEW r \in Runs, NEW s \in JobStates
    PROVE  LiveCounts(r)[s] \in 0..MaxJobs
  <1> DEFINE S == {j \in recorded[r] : jobStatus[j] = s}
  <1>1. S \subseteq 1..MaxJobs
    BY DEF TypeOK, Jobs
  <1>2. IsFiniteSet(1..MaxJobs) /\ Cardinality(1..MaxJobs) = IF 1 > MaxJobs THEN 0 ELSE MaxJobs - 1 + 1
    BY FS_Interval, PipelineAssumption
  <1>3. IsFiniteSet(S) /\ Cardinality(S) <= Cardinality(1..MaxJobs)
    BY <1>1, <1>2, FS_Subset
  <1>4. Cardinality(S) \in Nat
    BY <1>3, FS_CardinalityType
  <1>5. Cardinality(S) <= MaxJobs
    BY <1>2, <1>3, <1>4, PipelineAssumption
  <1>6. QED
    BY <1>4, <1>5, PipelineAssumption DEF LiveCounts

\* Live counts have the type of frozen ones, and are never taken for unset.
LEMMA CountsAreCounts ==
    ASSUME TypeOK, NEW r \in Runs
    PROVE  LiveCounts(r) \in Counts /\ LiveCounts(r) # Unset
  <1>1. \A s \in JobStates : LiveCounts(r)[s] \in 0..MaxJobs
    BY CountsAreBounded
  <1>2. LiveCounts(r) = [s \in JobStates |-> LiveCounts(r)[s]]
    BY DEF LiveCounts
  <1>3. "queued" \in JobStates
    BY DEF JobStates, JobActive
  <1>4. LiveCounts(r)["queued"] # Unset["queued"]
    BY <1>1, <1>3, PipelineAssumption DEF Unset
  <1>5. QED
    BY <1>1, <1>2, <1>4, PipelineAssumption DEF Counts

\* A verdict is a status.
LEMMA VerdictIsStatus ==
    ASSUME NEW r, NEW counts
    PROVE  Verdict(r, counts) \in TerminalStatuses \union {"awaiting"}
  BY DEF Verdict, TerminalStatuses

LEMMA SettleIsTyped ==
    ASSUME TypeOK, NEW waiting, Settle(waiting)
    PROVE  /\ status' \in [Runs -> ActiveStatuses \union TerminalStatuses \union {"none"}]
           /\ frozen' \in [Runs -> Counts]
  BY CountsAreCounts, VerdictIsStatus DEF Settle, TypeOK, ActiveStatuses

LEMMA FinishIsTyped ==
    ASSUME TypeOK, NEW r \in Runs, NEW s \in TerminalStatuses \union {"awaiting"}, Finish(r, s)
    PROVE  /\ status' \in [Runs -> ActiveStatuses \union TerminalStatuses \union {"none"}]
           /\ frozen' \in [Runs -> Counts]
  BY CountsAreCounts DEF Finish, TypeOK, ActiveStatuses

-----------------------------------------------------------------------------
(* What the shared pieces of the actions do to the types.                  *)

LEMMA SpendIsTyped ==
    ASSUME TypeOK, NEW b \in Bounds, Spend(b)
    PROVE  left' \in [Bounds -> Nat]
  BY DEF TypeOK, Spend

LEMMA GotoIsTyped ==
    ASSUME TypeOK, NEW p \in Procs, NEW s \in Stations, Goto(p, s)
    PROVE  pc' \in [Procs -> Stations]
  BY DEF TypeOK, Goto

LEMMA LeaveIsTyped ==
    ASSUME TypeOK, NEW p \in Procs, Leave(p)
    PROVE  /\ pc' \in [Procs -> Stations]
           /\ target' \in [Procs -> Runs \union {NoRun}]
           /\ batch' \in [Procs -> [Reasons -> SUBSET Jobs]]
  BY DEF TypeOK, Leave, Goto, Empty, Stations

LEMMA UnlockIsTyped ==
    ASSUME TypeOK, NEW p \in Procs, Unlock(p)
    PROVE  lock' \in Procs \union {NoOne}
  BY DEF TypeOK, Unlock

Typing == TypeOK /\ TargetsAreRuns

LEMMA TypeInit == Init => TypeOK
  <1>1. Unset \in Counts
    BY PipelineAssumption DEF Unset, Counts
  <1>2. QED
    BY <1>1, PipelineAssumption DEF Init, TypeOK, Empty, Stations, Bounds, Reasons

LEMMA TypeNext == Typing /\ [Next]_vars => TypeOK'
  <1> SUFFICES ASSUME TypeOK, TargetsAreRuns, [Next]_vars PROVE TypeOK'
    BY DEF Typing
  <1> USE DEF rowVars, jobVars, procVars
  <1>a. "starts" \in Bounds /\ "crashes" \in Bounds /\ "errors" \in Bounds /\ "losses" \in Bounds
    BY DEF Bounds
  <1>b. /\ {"recover", "unlock", "poll", "settle", "gate", "insert"} \subseteq Stations
        /\ {"acquire", "sweep", "claim", "release"} \subseteq Stations
        /\ Staging \subseteq Stations
    BY DEF Stations
  <1>c. /\ {"stage", "enqueue", "record created", "record retried"} \subseteq Staging
        /\ {"mark rag", "close", "give up"} \subseteq Staging
    BY DEF Staging
  <1>1. ASSUME NEW p \in Procs, BeginRecovery(p) PROVE TypeOK'
    <2>1. left' \in [Bounds -> Nat]
      BY <1>1, <1>a, SpendIsTyped DEF BeginRecovery, TypeOK
    <2>2. pc' \in [Procs -> Stations]
      BY <1>1, <1>b, GotoIsTyped DEF BeginRecovery, AfterRecovery
    <2>3. lock' \in Procs \union {NoOne}
      BY <1>1 DEF BeginRecovery, TryLock, TypeOK
    <2>4. QED
      BY <1>1, <2>1, <2>2, <2>3 DEF BeginRecovery, TypeOK
  <1>2. ASSUME NEW p \in Procs, Recover(p) PROVE TypeOK'
    <2>1. status' \in [Runs -> ActiveStatuses \union TerminalStatuses \union {"none"}]
      BY <1>2, VerdictIsStatus DEF Recover, SweepAndSettle, ActiveStatuses, TerminalStatuses, TypeOK
    <2>2. frozen' \in [Runs -> Counts]
      BY <1>2, CountsAreCounts DEF Recover, SweepAndSettle, TypeOK
    <2>3. error' \subseteq Runs
      BY <1>2 DEF Recover, SweepAndSettle, In, TypeOK
    <2>4. pc' \in [Procs -> Stations]
      BY <1>2, <1>b, GotoIsTyped DEF Recover
    <2>5. QED
      BY <1>2, <2>1, <2>2, <2>3, <2>4 DEF Recover, TypeOK
  <1>3. ASSUME NEW p \in Procs, EndRecovery(p) PROVE TypeOK'
    <2>1. pc' \in [Procs -> Stations]
      BY <1>3, <1>b, GotoIsTyped DEF EndRecovery, AfterRecovery
    <2>2. QED
      BY <1>3, <2>1, UnlockIsTyped DEF EndRecovery, TypeOK
  <1>4. ASSUME NEW p \in Procs, BeginRequest(p) PROVE TypeOK'
    <2>1. pc' \in [Procs -> Stations]
      BY <1>4, <1>b, GotoIsTyped DEF BeginRequest
    <2>2. QED
      BY <1>4, <1>a, <2>1, SpendIsTyped DEF BeginRequest, TypeOK
  <1>5. ASSUME NEW p \in Procs, SettleBeforeRequest(p) PROVE TypeOK'
    <2>1. pc' \in [Procs -> Stations]
      BY <1>5, <1>b, GotoIsTyped DEF SettleBeforeRequest
    <2>2. QED
      BY <1>5, <2>1, SettleIsTyped DEF SettleBeforeRequest, TypeOK
  <1>6. ASSUME NEW p \in Procs, Gate(p) PROVE TypeOK'
    <2>1. CASE Leave(p)
      BY <1>6, <2>1, LeaveIsTyped DEF Gate, TypeOK
    <2>2. CASE Goto(p, "insert") /\ UNCHANGED <<target, batch>>
      BY <1>6, <2>2, <1>b, GotoIsTyped DEF Gate, TypeOK
    <2>3. QED
      BY <1>6, <2>1, <2>2 DEF Gate
  <1>7. ASSUME NEW p \in Procs, Insert(p) PROVE TypeOK'
    <2>1. status' \in [Runs -> ActiveStatuses \union TerminalStatuses \union {"none"}]
      BY <1>7 DEF Insert, TypeOK, ActiveStatuses
    <2>2. /\ pc' \in [Procs -> Stations]
          /\ target' \in [Procs -> Runs \union {NoRun}]
          /\ batch' \in [Procs -> [Reasons -> SUBSET Jobs]]
      <3>1. CASE Leave(p)
        BY <3>1, LeaveIsTyped
      <3>2. CASE \E r \in Runs : Goto(p, "acquire") /\ target' = [target EXCEPT ![p] = r] /\ UNCHANGED batch
        BY <3>2, <1>b, GotoIsTyped DEF TypeOK
      <3>3. QED
        BY <1>7, <3>1, <3>2 DEF Insert
    <2>3. QED
      BY <1>7, <2>1, <2>2 DEF Insert, TypeOK
  <1>9. ASSUME NEW p \in Procs, ClaimNext(p) PROVE TypeOK'
    <2>1. CASE Leave(p)
      BY <1>9, <2>1, LeaveIsTyped DEF ClaimNext, TypeOK
    <2>2. CASE \E r \in Runs : target' = [target EXCEPT ![p] = r] /\ Goto(p, "acquire") /\ UNCHANGED batch
      BY <1>9, <2>2, <1>b, GotoIsTyped DEF ClaimNext, TypeOK
    <2>3. QED
      BY <1>9, <2>1, <2>2 DEF ClaimNext, In
  <1>10. ASSUME NEW p \in Procs, AcquireLock(p) PROVE TypeOK'
    <2>1. CASE TryLock(p) /\ Goto(p, "sweep") /\ UNCHANGED <<target, batch>>
      BY <1>10, <2>1, <1>b, GotoIsTyped DEF AcquireLock, TryLock, TypeOK
    <2>2. CASE Leave(p) /\ UNCHANGED lock
      BY <1>10, <2>2, LeaveIsTyped DEF AcquireLock, TypeOK
    <2>3. QED
      BY <1>10, <2>1, <2>2 DEF AcquireLock
  <1>11. ASSUME NEW p \in Procs, Sweep(p) PROVE TypeOK'
    <2>1. pc' \in [Procs -> Stations]
      BY <1>11, <1>b, GotoIsTyped DEF Sweep
    <2>2. QED
      BY <1>11, <2>1 DEF Sweep, In, TypeOK, TerminalStatuses
  <1>12. ASSUME NEW p \in Procs, Claim(p) PROVE TypeOK'
    <2>1. pc' \in [Procs -> Stations]
      BY <1>12, <1>b, <1>c, GotoIsTyped DEF Claim
    <2>2. QED
      BY <1>12, <2>1 DEF Claim, TypeOK, ActiveStatuses
  <1>13. ASSUME NEW p \in Procs, RunStages(p) PROVE TypeOK'
    <2>1. pc' \in [Procs -> Stations]
      BY <1>13, <1>b, <1>c, GotoIsTyped DEF RunStages
    <2>2. itemFailed' \subseteq Runs
      BY <1>13 DEF RunStages, ItemsFail, TypeOK, TargetsAreRuns, At, Aimed, Staging
    <2>3. QED
      BY <1>13, <2>1, <2>2 DEF RunStages, TypeOK
  <1>14. ASSUME NEW p \in Procs, EnqueueJob(p) PROVE TypeOK'
    <2>1. PICK j \in Jobs, reason \in Reasons :
            /\ jobStatus' = [jobStatus EXCEPT ![j] = "queued"]
            /\ enqueuer' = [enqueuer EXCEPT ![j] = target[p]]
            /\ batch' = [batch EXCEPT ![p][reason] = @ \union {j}]
      BY <1>14 DEF EnqueueJob
    <2>2. batch' \in [Procs -> [Reasons -> SUBSET Jobs]]
      BY <2>1 DEF TypeOK
    <2>3. /\ jobStatus' \in [Jobs -> JobStates \union {"none"}]
          /\ enqueuer' \in [Jobs -> Runs \union {NoRun}]
      BY <2>1 DEF TypeOK, JobStates, JobActive
    <2>4. QED
      BY <1>14, <2>2, <2>3 DEF EnqueueJob, TypeOK
  <1>15. ASSUME NEW p \in Procs, EndEnqueue(p) PROVE TypeOK'
    <2>1. pc' \in [Procs -> Stations]
      BY <1>15, <1>b, <1>c, GotoIsTyped DEF EndEnqueue
    <2>2. QED
      BY <1>15, <2>1 DEF EndEnqueue, TypeOK
  <1>16. ASSUME NEW p \in Procs, RecordCreated(p) \/ RecordRetried(p) PROVE TypeOK'
    <2>1. PICK reason \in Reasons, here, next \in Staging : Record(p, reason, here, next)
      BY <1>16, <1>c DEF RecordCreated, RecordRetried, Reasons
    <2>2. pc' \in [Procs -> Stations]
      BY <2>1, <1>b, <1>c, GotoIsTyped DEF Record
    <2>3. target[p] \in Runs
      BY <2>1 DEF Record, At, TargetsAreRuns, Aimed
    <2>4. batch[p][reason] \subseteq Jobs
      BY <2>1 DEF TypeOK
    <2>5. recorded' \in [Runs -> SUBSET Jobs]
      BY <2>1, <2>3, <2>4 DEF Record, TypeOK
    <2>6. QED
      BY <2>1, <2>2, <2>5 DEF Record, TypeOK
  <1>18. ASSUME NEW p \in Procs, MarkRag(p) PROVE TypeOK'
    <2>1. pc' \in [Procs -> Stations]
      BY <1>18, <1>b, <1>c, GotoIsTyped DEF MarkRag
    <2>2. itemFailed' \subseteq Runs
      BY <1>18 DEF MarkRag, ItemsFail, TypeOK, TargetsAreRuns, At, Aimed, Staging
    <2>3. QED
      BY <1>18, <2>1, <2>2 DEF MarkRag, TypeOK
  <1>19. ASSUME NEW p \in Procs, Close(p) PROVE TypeOK'
    <2>1. target[p] \in Runs
      BY <1>19 DEF Close, At, TargetsAreRuns, Aimed, Staging
    <2>2. /\ status' \in [Runs -> ActiveStatuses \union TerminalStatuses \union {"none"}]
          /\ frozen' \in [Runs -> Counts]
      BY <1>19, <2>1, FinishIsTyped, VerdictIsStatus DEF Close
    <2>3. pc' \in [Procs -> Stations]
      BY <1>19, <1>b, GotoIsTyped DEF Close
    <2>4. QED
      BY <1>19, <2>2, <2>3 DEF Close, TypeOK
  <1>20. ASSUME NEW p \in Procs, GiveUp(p) PROVE TypeOK'
    <2>1. target[p] \in Runs
      BY <1>20 DEF GiveUp, At, TargetsAreRuns, Aimed, Staging
    <2>2. /\ status' \in [Runs -> ActiveStatuses \union TerminalStatuses \union {"none"}]
          /\ frozen' \in [Runs -> Counts]
      BY <1>20, <2>1, FinishIsTyped DEF GiveUp, TerminalStatuses
    <2>3. pc' \in [Procs -> Stations]
      BY <1>20, <1>b, GotoIsTyped DEF GiveUp
    <2>4. QED
      BY <1>20, <2>1, <2>2, <2>3 DEF GiveUp, TypeOK
  <1>21. ASSUME NEW p \in Procs, EndRun(p) PROVE TypeOK'
    BY <1>21, LeaveIsTyped, UnlockIsTyped DEF EndRun, TypeOK
  <1>22. ASSUME NEW p \in Procs, FinishFails(p) PROVE TypeOK'
    <2>1. pc' \in [Procs -> Stations]
      BY <1>22, <1>b, GotoIsTyped DEF FinishFails
    <2>2. QED
      BY <1>22, <1>a, <2>1, SpendIsTyped DEF FinishFails, TypeOK
  <1>23. ASSUME NEW p \in Procs, Crash(p) PROVE TypeOK'
    BY <1>23, <1>a, LeaveIsTyped, UnlockIsTyped, SpendIsTyped DEF Crash, TypeOK
  <1>24. ASSUME NEW j \in Jobs, JobStep(j) PROVE TypeOK'
    BY <1>24 DEF JobStep, StartJob, FinishJob, SweepStaleJob, FinishLate, JobStates, JobActive, JobTerminal, TypeOK
  <1>25. ASSUME PollStatus PROVE TypeOK'
    BY <1>25, SettleIsTyped DEF PollStatus, TypeOK
  <1>26. ASSUME LoseLock PROVE TypeOK'
    BY <1>26, <1>a, SpendIsTyped DEF LoseLock, TypeOK
  <1>27. CASE UNCHANGED vars
    BY <1>27 DEF vars, TypeOK
  <1>28. QED
    BY <1>1, <1>2, <1>3, <1>4, <1>5, <1>6, <1>7, <1>9, <1>10, <1>11, <1>12, <1>13,
       <1>14, <1>15, <1>16, <1>18, <1>19, <1>20, <1>21, <1>22, <1>23, <1>24, <1>25,
       <1>26, <1>27 DEF Next, Step

LEMMA GotoKeepsTargets ==
    ASSUME Typing, NEW p \in Procs, NEW s, Goto(p, s), UNCHANGED target,
           s \in Aimed => target[p] \in Runs
    PROVE  TargetsAreRuns'
  BY DEF Typing, TypeOK, TargetsAreRuns, Goto

LEMMA LeaveKeepsTargets ==
    ASSUME Typing, NEW p \in Procs, Leave(p)
    PROVE  TargetsAreRuns'
  <1>1. "idle" \notin Aimed
    BY DEF Aimed, Staging
  <1>2. QED
    BY <1>1 DEF Typing, TypeOK, TargetsAreRuns, Leave, Goto

LEMMA AimKeepsTargets ==
    ASSUME Typing, NEW p \in Procs, NEW r \in Runs, NEW s,
           target' = [target EXCEPT ![p] = r], Goto(p, s)
    PROVE  TargetsAreRuns'
  BY DEF Typing, TypeOK, TargetsAreRuns, Goto

LEMMA TargetsNext == Typing /\ [Next]_vars => TargetsAreRuns'
  <1> SUFFICES ASSUME Typing, [Next]_vars PROVE TargetsAreRuns'
    OBVIOUS
  <1> USE DEF At
  <1>a. \A s \in {"recover", "unlock", "poll", "settle", "gate", "insert"} : s \notin Aimed
    BY DEF Aimed, Staging
  <1>b. {"acquire", "sweep", "claim", "release"} \union Staging \subseteq Aimed
    BY DEF Aimed
  <1>c. /\ {"stage", "enqueue", "record created", "record retried"} \subseteq Staging
        /\ {"mark rag", "close", "give up"} \subseteq Staging
    BY DEF Staging
  <1>d. \A p \in Procs : pc[p] \in Aimed => target[p] \in Runs
    BY DEF Typing, TargetsAreRuns
  <1>1. ASSUME NEW p \in Procs,
               \/ BeginRecovery(p) \/ Recover(p) \/ EndRecovery(p)
               \/ BeginRequest(p) \/ SettleBeforeRequest(p)
        PROVE  TargetsAreRuns'
    <2>1. PICK s \in {"recover", "unlock", "poll", "settle", "gate"} : Goto(p, s) /\ UNCHANGED target
      BY <1>1 DEF BeginRecovery, Recover, EndRecovery, BeginRequest, SettleBeforeRequest, AfterRecovery
    <2>2. QED
      BY <2>1, <1>a, GotoKeepsTargets
  <1>2. ASSUME NEW p \in Procs,
               Gate(p) \/ EndRun(p) \/ Crash(p)
        PROVE  TargetsAreRuns'
    <2>1. Leave(p) \/ (Goto(p, "insert") /\ UNCHANGED target)
      BY <1>2 DEF Gate, EndRun, Crash
    <2>2. QED
      BY <2>1, <1>a, LeaveKeepsTargets, GotoKeepsTargets
  <1>3. ASSUME NEW p \in Procs, Insert(p) \/ ClaimNext(p)
        PROVE  TargetsAreRuns'
    <2>1. Leave(p) \/ \E r \in Runs : target' = [target EXCEPT ![p] = r] /\ Goto(p, "acquire")
      BY <1>3 DEF Insert, ClaimNext, In
    <2>2. QED
      BY <2>1, LeaveKeepsTargets, AimKeepsTargets
  <1>4. ASSUME NEW p \in Procs, AcquireLock(p)
        PROVE  TargetsAreRuns'
    <2>1. Leave(p) \/ (Goto(p, "sweep") /\ UNCHANGED target /\ pc[p] = "acquire")
      BY <1>4 DEF AcquireLock
    <2>2. QED
      BY <2>1, <1>b, <1>d, LeaveKeepsTargets, GotoKeepsTargets
  <1>5. ASSUME NEW p \in Procs,
               \/ Sweep(p) \/ Claim(p) \/ RunStages(p) \/ EndEnqueue(p)
               \/ RecordCreated(p) \/ RecordRetried(p) \/ MarkRag(p)
               \/ Close(p) \/ GiveUp(p) \/ FinishFails(p)
        PROVE  TargetsAreRuns'
    <2>1. pc[p] \in Aimed
      BY <1>5, <1>b, <1>c DEF Sweep, Claim, RunStages, EndEnqueue, RecordCreated, RecordRetried,
         Record, MarkRag, Close, GiveUp, FinishFails
    <2>2. \E s : Goto(p, s) /\ UNCHANGED target
      BY <1>5 DEF Sweep, Claim, RunStages, EndEnqueue, RecordCreated, RecordRetried,
         Record, MarkRag, Close, GiveUp, FinishFails
    <2>3. QED
      BY <2>1, <2>2, <1>d, GotoKeepsTargets
  <1>6. ASSUME UNCHANGED <<pc, target>>
        PROVE  TargetsAreRuns'
    BY <1>6, <1>d DEF TargetsAreRuns
  <1>7. ASSUME NEW p \in Procs, EnqueueJob(p)
        PROVE  UNCHANGED <<pc, target>>
    BY <1>7 DEF EnqueueJob
  <1>8. ASSUME NEW j \in Jobs, JobStep(j)
        PROVE  UNCHANGED <<pc, target>>
    BY <1>8 DEF JobStep, StartJob, FinishJob, SweepStaleJob, FinishLate, procVars
  <1>9. (PollStatus \/ LoseLock \/ UNCHANGED vars) => UNCHANGED <<pc, target>>
    BY DEF PollStatus, LoseLock, procVars, vars
  <1>10. QED
    BY <1>1, <1>2, <1>3, <1>4, <1>5, <1>6, <1>7, <1>8, <1>9 DEF Next, Step

LEMMA TypingInit == Init => Typing
  <1>1. "idle" \notin Aimed
    BY DEF Aimed, Staging
  <1>2. QED
    BY <1>1, TypeInit DEF Init, Typing, TargetsAreRuns

LEMMA TypingNext == Typing /\ [Next]_vars => Typing'
  BY TypeNext, TargetsNext DEF Typing

-----------------------------------------------------------------------------
(* The lock.                                                               *)

\* A lost connection stays lost.
LEMMA LossesNext ==
    ASSUME Typing, left["losses"] <= MaxLockLosses, [Next]_vars
    PROVE  /\ left'["losses"] <= MaxLockLosses
           /\ LockHolds' => LockHolds /\ ~LoseLock
  <1>a. left \in [Bounds -> Nat] /\ "losses" \in Bounds /\ left["losses"] \in Nat /\ MaxLockLosses \in Nat
    BY PipelineAssumption DEF Typing, TypeOK, Bounds
  <1>1. CASE LoseLock
    <2>1. left'["losses"] = left["losses"] - 1
      BY <1>a, <1>1 DEF LoseLock, Spend
    <2>2. QED
      BY <1>a, <2>1 DEF LockHolds
  <1>2. CASE UNCHANGED left /\ ~LoseLock
    BY <1>2 DEF LockHolds
  <1>3. CASE ~LoseLock /\ \E b \in {"starts", "crashes", "errors"} : Spend(b)
    <2>1. left'["losses"] = left["losses"]
      BY <1>a, <1>3 DEF Spend, Bounds
    <2>2. QED
      BY <1>3, <2>1 DEF LockHolds
  <1>4. LoseLock \/ UNCHANGED left \/ \E b \in {"starts", "crashes", "errors"} : Spend(b)
    BY DEF Next, Step, JobStep, vars, BeginRecovery, Recover, EndRecovery, BeginRequest,
       SettleBeforeRequest, Gate, Insert, ClaimNext, AcquireLock, Sweep, Claim,
       RunStages, EnqueueJob, EndEnqueue, RecordCreated, RecordRetried, Record, MarkRag, Close,
       GiveUp, EndRun, FinishFails, Crash, PollStatus, StartJob, FinishJob, SweepStaleJob,
       FinishLate
  <1>5. QED
    BY <1>1, <1>2, <1>3, <1>4

\* Inside the lock a process gets only by taking it free, and it leaves the
\* locked stations only with the unlock or its death.
LEMMA LockNext ==
    ASSUME Typing, LockedHoldTheLock, [Next]_vars, ~LoseLock
    PROVE  LockedHoldTheLock'
  <1> USE DEF At, Goto
  <1>a. /\ {"idle", "poll", "settle", "gate", "insert", "acquire"} \intersect Locked = {}
        /\ Staging \union {"recover", "unlock", "sweep", "claim", "release"} = Locked
    BY DEF Locked, Staging
  <1>b. /\ {"stage", "enqueue", "record created", "record retried"} \subseteq Staging
        /\ {"mark rag", "close", "give up"} \subseteq Staging
    BY DEF Staging
  <1>c. NoOne \notin Procs
    BY PipelineAssumption
  <1>d. /\ pc \in [Procs -> Stations]
        /\ \A p \in Procs : pc[p] \in Locked => lock = p
    BY DEF Typing, TypeOK, LockedHoldTheLock
  <1>1. ASSUME NEW p \in Procs, lock = NoOne, lock' = p,
               NEW s, pc' = [pc EXCEPT ![p] = s]
        PROVE  LockedHoldTheLock'
    <2>1. \A q \in Procs : pc[q] \notin Locked
      BY <1>1, <1>c, <1>d
    <2>2. \A q \in Procs \ {p} : pc'[q] \notin Locked
      BY <1>1, <1>d, <2>1
    <2>3. QED
      BY <1>1, <2>2 DEF LockedHoldTheLock
  <1>2. ASSUME NEW p \in Procs, UNCHANGED lock,
               NEW s, pc' = [pc EXCEPT ![p] = s], s \in Locked => pc[p] \in Locked
        PROVE  LockedHoldTheLock'
    BY <1>2, <1>d DEF LockedHoldTheLock
  <1>3. ASSUME NEW p \in Procs, Unlock(p),
               NEW s, pc' = [pc EXCEPT ![p] = s], s \notin Locked
        PROVE  LockedHoldTheLock'
    <2>1. \A q \in Procs \ {p} : pc'[q] \in Locked => lock = q
      BY <1>3, <1>d
    <2>2. \A q \in Procs \ {p} : lock = q => lock' = q
      BY <1>3 DEF Unlock
    <2>3. pc'[p] \notin Locked
      BY <1>3, <1>d
    <2>4. QED
      BY <2>1, <2>2, <2>3 DEF LockedHoldTheLock
  <1>4. ASSUME UNCHANGED <<pc, lock>>
        PROVE  LockedHoldTheLock'
    BY <1>4, <1>d DEF LockedHoldTheLock
  <1>5. ASSUME NEW p \in Procs, BeginRecovery(p) \/ AcquireLock(p)
        PROVE  LockedHoldTheLock'
    <2>1. CASE TryLock(p)
      <3>1. \E s : pc' = [pc EXCEPT ![p] = s]
        BY <1>5 DEF BeginRecovery, AcquireLock, Leave
      <3>2. QED
        BY <2>1, <3>1, <1>1 DEF TryLock
    <2>2. CASE UNCHANGED lock
      <3>1. \E s \in {"idle", "poll", "settle"} : pc' = [pc EXCEPT ![p] = s]
        BY <1>5, <2>2, <1>c DEF BeginRecovery, AcquireLock, Leave, TryLock, AfterRecovery
      <3>2. QED
        BY <2>2, <3>1, <1>a, <1>2
    <2>3. QED
      BY <1>5, <2>1, <2>2 DEF BeginRecovery, AcquireLock
  <1>6. ASSUME NEW p \in Procs,
               \/ BeginRequest(p) \/ SettleBeforeRequest(p) \/ Gate(p)
               \/ Insert(p) \/ ClaimNext(p)
        PROVE  LockedHoldTheLock'
    <2>1. UNCHANGED lock
      BY <1>6 DEF BeginRequest, SettleBeforeRequest, Gate, Insert, ClaimNext
    <2>2. \E s \in {"idle", "settle", "gate", "insert", "acquire"} : pc' = [pc EXCEPT ![p] = s]
      BY <1>6 DEF BeginRequest, SettleBeforeRequest, Gate, Insert, ClaimNext, Leave
    <2>3. QED
      BY <2>1, <2>2, <1>a, <1>2
  <1>7. ASSUME NEW p \in Procs,
               \/ Recover(p) \/ Sweep(p) \/ Claim(p) \/ RunStages(p) \/ EndEnqueue(p)
               \/ RecordCreated(p) \/ RecordRetried(p) \/ MarkRag(p)
               \/ Close(p) \/ GiveUp(p) \/ FinishFails(p)
        PROVE  LockedHoldTheLock'
    <2>1. UNCHANGED lock /\ \E s : pc' = [pc EXCEPT ![p] = s]
      BY <1>7 DEF Recover, Sweep, Claim, RunStages, EndEnqueue, RecordCreated, RecordRetried,
         Record, MarkRag, Close, GiveUp, FinishFails
    <2>2. pc[p] \in Locked
      BY <1>7, <1>a, <1>b DEF Recover, Sweep, Claim, RunStages, EndEnqueue, RecordCreated,
         RecordRetried, Record, MarkRag, Close, GiveUp, FinishFails
    <2>3. QED
      BY <2>1, <2>2, <1>2
  <1>8. ASSUME NEW p \in Procs, EndRecovery(p) \/ EndRun(p) \/ Crash(p)
        PROVE  LockedHoldTheLock'
    <2>1. Unlock(p) /\ \E s \in {"idle", "poll", "settle"} : pc' = [pc EXCEPT ![p] = s]
      BY <1>8 DEF EndRecovery, EndRun, Crash, Leave, AfterRecovery
    <2>2. QED
      BY <2>1, <1>a, <1>3
  <1>9. ASSUME NEW p \in Procs, EnqueueJob(p)
        PROVE  UNCHANGED <<pc, lock>>
    BY <1>9 DEF EnqueueJob
  <1>10. ASSUME NEW j \in Jobs, JobStep(j)
         PROVE  UNCHANGED <<pc, lock>>
    BY <1>10 DEF JobStep, StartJob, FinishJob, SweepStaleJob, FinishLate, procVars
  <1>11. (PollStatus \/ UNCHANGED vars) => UNCHANGED <<pc, lock>>
    BY DEF PollStatus, procVars, vars
  <1>12. QED
    BY <1>4, <1>5, <1>6, <1>7, <1>8, <1>9, <1>10, <1>11 DEF Next, Step

\* Two processes are never inside the lock at once.
LEMMA OneInside ==
    ASSUME LockedHoldTheLock, NEW p \in Procs, NEW q \in Procs,
           pc[p] \in Locked, pc[q] \in Locked
    PROVE  p = q
  BY DEF LockedHoldTheLock

\* A staged run stays `running`: whoever could take that away holds the lock
\* and is therefore the one staging it.
LEMMA StagedNext ==
    ASSUME Typing, LockedHoldTheLock, StagedRunsAreRunning, [Next]_vars
    PROVE  StagedRunsAreRunning'
  <1> USE DEF At, Goto
  <1>a. /\ Staging \subseteq Locked
        /\ {"recover", "unlock", "sweep", "claim", "release"} \subseteq Locked
        /\ {"recover", "unlock", "sweep", "claim", "release"} \intersect Staging = {}
        /\ {"idle", "poll", "settle", "gate", "insert", "acquire"} \intersect Staging = {}
    BY DEF Locked, Staging
  <1>b. /\ {"stage", "enqueue", "record created", "record retried"} \subseteq Staging
        /\ {"mark rag", "close", "give up"} \subseteq Staging
    BY DEF Staging
  <1>c. /\ pc \in [Procs -> Stations]
        /\ target \in [Procs -> Runs \union {NoRun}]
        /\ status \in [Runs -> ActiveStatuses \union TerminalStatuses \union {"none"}]
        /\ \A p \in Procs : pc[p] \in Staging => target[p] \in Runs
        /\ \A p \in Procs : pc[p] = "claim" => target[p] \in Runs
    BY DEF Typing, TypeOK, TargetsAreRuns, Aimed
  <1>d. \A p \in Procs : pc[p] \in Staging => status[target[p]] = "running"
    BY DEF StagedRunsAreRunning
  \* A step of p that moves p out of the staging stations, or along them, and
  \* touches no running row.
  <1>1. ASSUME NEW p \in Procs, NEW s, pc' = [pc EXCEPT ![p] = s],
               s \in Staging => pc[p] \in Staging /\ target'[p] = target[p],
               \A q \in Procs \ {p} : target'[q] = target[q],
               \A r \in Runs : status[r] = "running" => status'[r] = "running"
        PROVE  StagedRunsAreRunning'
    BY <1>1, <1>c, <1>d DEF StagedRunsAreRunning
  \* A step of the process that holds the lock, which leaves the staging stations.
  <1>2. ASSUME NEW p \in Procs, NEW s, pc' = [pc EXCEPT ![p] = s], pc[p] \in Locked,
               s \notin Staging
        PROVE  StagedRunsAreRunning'
    <2>1. \A q \in Procs \ {p} : pc[q] \notin Staging
      BY <1>2, <1>a, OneInside
    <2>2. \A q \in Procs : pc'[q] \notin Staging
      BY <1>2, <1>c, <2>1
    <2>3. QED
      BY <2>2 DEF StagedRunsAreRunning
  <1>3. ASSUME UNCHANGED <<pc, target>>,
               \A r \in Runs : status[r] = "running" => status'[r] = "running"
        PROVE  StagedRunsAreRunning'
    BY <1>3, <1>c, <1>d DEF StagedRunsAreRunning
  <1>4. ASSUME NEW waiting, waiting \subseteq In({"awaiting"}), Settle(waiting)
        PROVE  \A r \in Runs : status[r] = "running" => status'[r] = "running"
    BY <1>4 DEF Settle, In
  <1>5. ASSUME NEW p \in Procs,
               \/ BeginRecovery(p) \/ EndRecovery(p) \/ BeginRequest(p)
               \/ Gate(p) \/ ClaimNext(p) \/ AcquireLock(p)
               \/ EndRun(p) \/ Crash(p)
        PROVE  StagedRunsAreRunning'
    <2>1. \E s \in {"idle", "recover", "poll", "settle", "insert", "acquire", "sweep"} :
             pc' = [pc EXCEPT ![p] = s]
      BY <1>5 DEF BeginRecovery, EndRecovery, BeginRequest, Gate, ClaimNext,
         AcquireLock, EndRun, Crash, Leave, AfterRecovery
    <2>2. UNCHANGED target \/ \E r : target' = [target EXCEPT ![p] = r]
      BY <1>5 DEF BeginRecovery, EndRecovery, BeginRequest, Gate, ClaimNext,
         AcquireLock, EndRun, Crash, Leave
    <2>3. UNCHANGED status
      BY <1>5 DEF BeginRecovery, EndRecovery, BeginRequest, Gate, ClaimNext,
         AcquireLock, EndRun, Crash, rowVars
    <2>4. \A q \in Procs \ {p} : target'[q] = target[q]
      BY <2>2, <1>c
    <2>5. QED
      BY <2>1, <2>3, <2>4, <1>a, <1>1
  <1>6. ASSUME NEW p \in Procs, SettleBeforeRequest(p)
        PROVE  StagedRunsAreRunning'
    <2>1. \A r \in Runs : status[r] = "running" => status'[r] = "running"
      BY <1>6, <1>4 DEF SettleBeforeRequest
    <2>2. QED
      BY <1>6, <2>1, <1>a, <1>1 DEF SettleBeforeRequest
  <1>7. ASSUME NEW p \in Procs, Insert(p)
        PROVE  StagedRunsAreRunning'
    <2>1. ASSUME NEW r \in Runs, \A q \in Runs : status[q] = "none" <=> q >= r,
                 status' = [status EXCEPT ![r] = "queued"]
          PROVE  \A q \in Runs : status[q] = "running" => status'[q] = "running"
      <3>1. status[r] = "none"
        BY <2>1, PipelineAssumption DEF Runs
      <3>2. QED
        BY <2>1, <3>1, <1>c
    <2>2. \A r \in Runs : status[r] = "running" => status'[r] = "running"
      BY <1>7, <2>1 DEF Insert
    <2>3. \E s \in {"idle", "acquire"} : pc' = [pc EXCEPT ![p] = s]
      BY <1>7 DEF Insert, Leave
    <2>4. \A q \in Procs \ {p} : target'[q] = target[q]
      BY <1>7, <1>c DEF Insert, Leave
    <2>5. QED
      BY <2>2, <2>3, <2>4, <1>a, <1>1
  <1>8. ASSUME NEW p \in Procs, Recover(p) \/ Sweep(p) \/ Close(p) \/ GiveUp(p) \/ FinishFails(p)
        PROVE  StagedRunsAreRunning'
    <2>1. \E s \in {"unlock", "claim", "release"} : pc' = [pc EXCEPT ![p] = s]
      BY <1>8 DEF Recover, Sweep, Close, GiveUp, FinishFails
    <2>2. pc[p] \in Locked
      BY <1>8, <1>a, <1>b DEF Recover, Sweep, Close, GiveUp, FinishFails
    <2>3. QED
      BY <2>1, <2>2, <1>a, <1>2
  <1>9. ASSUME NEW p \in Procs, Claim(p)
        PROVE  StagedRunsAreRunning'
    <2>1. CASE status[target[p]] = "queued"
      <3>1. /\ status' = [status EXCEPT ![target[p]] = "running"]
            /\ pc' = [pc EXCEPT ![p] = "stage"]
            /\ target' = target
            /\ target[p] \in Runs
        BY <1>9, <2>1, <1>c DEF Claim
      <3>2. \A q \in Procs : pc'[q] \in Staging => status'[target'[q]] = "running"
        BY <3>1, <1>c, <1>d
      <3>3. QED
        BY <3>2 DEF StagedRunsAreRunning
    <2>2. CASE status[target[p]] # "queued"
      <3>1. pc' = [pc EXCEPT ![p] = "release"] /\ pc[p] \in Locked
        BY <1>9, <2>2, <1>a DEF Claim
      <3>2. QED
        BY <3>1, <1>a, <1>2
    <2>3. QED
      BY <2>1, <2>2
  <1>10. ASSUME NEW p \in Procs,
                \/ RunStages(p) \/ EndEnqueue(p) \/ RecordCreated(p) \/ RecordRetried(p)
                \/ MarkRag(p)
         PROVE  StagedRunsAreRunning'
    <2>1. UNCHANGED <<status, target>> /\ \E s : pc' = [pc EXCEPT ![p] = s]
      BY <1>10 DEF RunStages, EndEnqueue, RecordCreated, RecordRetried, Record, MarkRag, rowVars
    <2>2. pc[p] \in Staging
      BY <1>10, <1>b DEF RunStages, EndEnqueue, RecordCreated, RecordRetried, Record, MarkRag
    <2>3. QED
      BY <2>1, <2>2, <1>1
  <1>11. ASSUME NEW p \in Procs, EnqueueJob(p)
         PROVE  UNCHANGED <<pc, target, status>>
    BY <1>11 DEF EnqueueJob, rowVars
  <1>12. ASSUME NEW j \in Jobs, JobStep(j)
         PROVE  UNCHANGED <<pc, target, status>>
    BY <1>12 DEF JobStep, StartJob, FinishJob, SweepStaleJob, FinishLate, procVars, rowVars
  <1>13. (LoseLock \/ UNCHANGED vars) => UNCHANGED <<pc, target, status>>
    BY DEF LoseLock, rowVars, vars
  <1>14. ASSUME PollStatus
         PROVE  StagedRunsAreRunning'
    <2>1. PICK r \in In({"awaiting"}) : Settle({r})
      BY <1>14 DEF PollStatus
    <2>2. \A q \in Runs : status[q] = "running" => status'[q] = "running"
      BY <2>1, <1>4
    <2>3. QED
      BY <1>14, <2>2, <1>3 DEF PollStatus, procVars
  <1>15. QED
    BY <1>3, <1>5, <1>6, <1>7, <1>8, <1>9, <1>10, <1>11, <1>12, <1>13, <1>14 DEF Next, Step

-----------------------------------------------------------------------------
(* Admission.                                                              *)

\* No row disappears, and a row becomes active only by being inserted while
\* nothing is active.
Admits ==
    /\ \A r \in Runs : status[r] # "none" => status'[r] # "none"
    /\ \/ \A r \in Runs : status'[r] \in ActiveStatuses => status[r] \in ActiveStatuses
       \/ \E n \in Runs :
            /\ \A r \in Runs : status[r] \notin ActiveStatuses
            /\ \A r \in Runs \ {n} : status'[r] = status[r]

LEMMA EveryStepAdmits ==
    ASSUME Typing, TargetsExist, [Next]_vars
    PROVE  Admits
  <1> USE DEF At
  <1>a. /\ status \in [Runs -> ActiveStatuses \union TerminalStatuses \union {"none"}]
        /\ \A p \in Procs : pc[p] \in Staging => target[p] \in Runs
        /\ \A p \in Procs : pc[p] \in Staging => status[target[p]] # "none"
    BY DEF Typing, TypeOK, TargetsAreRuns, TargetsExist, Aimed
  <1>b. /\ ActiveStatuses \intersect TerminalStatuses = {}
        /\ {"queued", "running", "awaiting"} \subseteq ActiveStatuses
        /\ "failed" \in TerminalStatuses
        /\ "none" \notin ActiveStatuses \union TerminalStatuses
    BY DEF ActiveStatuses, TerminalStatuses
  <1>c. /\ {"close", "give up"} \subseteq Staging
    BY DEF Staging
  <1>1. ASSUME NEW waiting, waiting \subseteq In({"awaiting"}), Settle(waiting)
        PROVE  Admits
    BY <1>1, <1>a, <1>b, VerdictIsStatus DEF Settle, In, Admits
  <1>2. ASSUME NEW p \in Procs, Recover(p) PROVE Admits
    BY <1>2, <1>a, <1>b, VerdictIsStatus DEF Recover, SweepAndSettle, In, Admits
  <1>3. ASSUME NEW p \in Procs, Insert(p) PROVE Admits
    <2>1. CASE UNCHANGED status
      BY <2>1 DEF Admits
    <2>2. CASE In(ActiveStatuses) = {} /\ \E r \in Runs : status' = [status EXCEPT ![r] = "queued"]
      <3>1. PICK n \in Runs : status' = [status EXCEPT ![n] = "queued"]
        BY <2>2
      <3>2. \A r \in Runs : status[r] \notin ActiveStatuses
        BY <2>2 DEF In
      <3>3. QED
        BY <3>1, <3>2, <1>a DEF Admits
    <2>3. QED
      BY <1>3, <2>1, <2>2 DEF Insert
  <1>4. ASSUME NEW p \in Procs, Sweep(p) PROVE Admits
    BY <1>4, <1>a, <1>b DEF Sweep, Admits
  <1>5. ASSUME NEW p \in Procs, Claim(p) PROVE Admits
    BY <1>5, <1>a, <1>b DEF Claim, Admits
  <1>6. ASSUME NEW p \in Procs, Close(p) \/ GiveUp(p) PROVE Admits
    <2>1. pc[p] \in Staging
      BY <1>6, <1>c DEF Close, GiveUp
    <2>2. PICK s \in TerminalStatuses \union {"awaiting"} : Finish(target[p], s)
      BY <1>6, <1>b, VerdictIsStatus DEF Close, GiveUp
    <2>3. target[p] \in Runs /\ status[target[p]] \in ActiveStatuses \union TerminalStatuses
      BY <2>1, <1>a
    <2>4. QED
      BY <2>2, <2>3, <1>a, <1>b DEF Finish, Admits
  <1>7. ASSUME UNCHANGED status PROVE Admits
    BY <1>7 DEF Admits
  <1>8. ASSUME NEW p \in Procs,
               \/ BeginRecovery(p) \/ EndRecovery(p) \/ BeginRequest(p)
               \/ Gate(p) \/ ClaimNext(p) \/ AcquireLock(p)
               \/ RunStages(p) \/ EnqueueJob(p) \/ EndEnqueue(p) \/ RecordCreated(p)
               \/ RecordRetried(p) \/ MarkRag(p) \/ EndRun(p) \/ FinishFails(p) \/ Crash(p)
        PROVE  UNCHANGED status
    BY <1>8 DEF BeginRecovery, EndRecovery, BeginRequest, Gate, ClaimNext,
       AcquireLock, RunStages, EnqueueJob, EndEnqueue, RecordCreated, RecordRetried, Record,
       MarkRag, EndRun, FinishFails, Crash, rowVars
  <1>9. ASSUME NEW j \in Jobs, JobStep(j) PROVE UNCHANGED status
    BY <1>9 DEF JobStep, StartJob, FinishJob, SweepStaleJob, FinishLate, rowVars
  <1>10. (LoseLock \/ UNCHANGED vars) => UNCHANGED status
    BY DEF LoseLock, rowVars, vars
  <1>11. ASSUME PollStatus PROVE Admits
    <2>1. PICK r \in In({"awaiting"}) : Settle({r})
      BY <1>11 DEF PollStatus
    <2>2. QED
      BY <2>1, <1>1
  <1>12. ASSUME NEW p \in Procs, SettleBeforeRequest(p) PROVE Admits
    BY <1>12, <1>1 DEF SettleBeforeRequest
  <1>13. QED
    BY <1>2, <1>3, <1>4, <1>5, <1>6, <1>7, <1>8, <1>9, <1>10, <1>11, <1>12 DEF Next, Step

LEMMA TargetsExistNext ==
    ASSUME Typing, TargetsExist, [Next]_vars
    PROVE  TargetsExist'
  <1> USE DEF At, Goto
  <1>a. Typing'
    BY TypingNext
  <1>b. \A r \in Runs : status[r] # "none" => status'[r] # "none"
    BY EveryStepAdmits DEF Admits
  <1>c. /\ {"stage", "enqueue", "record created", "record retried"} \subseteq Staging
        /\ {"mark rag", "close", "give up"} \subseteq Staging
        /\ Staging \union {"acquire", "sweep", "claim", "release"} = Aimed
        /\ {"idle", "recover", "unlock", "poll", "settle", "gate", "insert"} \intersect Aimed = {}
    BY DEF Staging, Aimed
  <1>d. /\ pc \in [Procs -> Stations]
        /\ target \in [Procs -> Runs \union {NoRun}]
        /\ status \in [Runs -> ActiveStatuses \union TerminalStatuses \union {"none"}]
        /\ \A p \in Procs : pc[p] \in Aimed => target[p] \in Runs /\ status[target[p]] # "none"
    BY DEF Typing, TypeOK, TargetsAreRuns, TargetsExist
  <1>1. ASSUME NEW p \in Procs, NEW s, pc' = [pc EXCEPT ![p] = s],
               \A q \in Procs \ {p} : target'[q] = target[q],
               s \in Aimed => pc[p] \in Aimed /\ target'[p] = target[p]
        PROVE  TargetsExist'
    BY <1>1, <1>b, <1>d DEF TargetsExist
  <1>2. ASSUME NEW p \in Procs, NEW r \in Runs, NEW s, pc' = [pc EXCEPT ![p] = s],
               target' = [target EXCEPT ![p] = r], status'[r] # "none"
        PROVE  TargetsExist'
    BY <1>2, <1>b, <1>d DEF TargetsExist
  <1>3. ASSUME UNCHANGED <<pc, target>> PROVE TargetsExist'
    BY <1>3, <1>b, <1>d DEF TargetsExist
  <1>4. ASSUME NEW p \in Procs,
               \/ BeginRecovery(p) \/ Recover(p) \/ EndRecovery(p) \/ BeginRequest(p)
               \/ SettleBeforeRequest(p) \/ Gate(p) \/ EndRun(p) \/ Crash(p)
        PROVE  TargetsExist'
    <2>1. \E s \in {"idle", "recover", "unlock", "poll", "settle", "gate", "insert"} :
             pc' = [pc EXCEPT ![p] = s]
      BY <1>4 DEF BeginRecovery, Recover, EndRecovery, BeginRequest, SettleBeforeRequest, Gate,
         EndRun, Crash, Leave, AfterRecovery
    <2>2. \A q \in Procs \ {p} : target'[q] = target[q]
      BY <1>4, <1>d DEF BeginRecovery, Recover, EndRecovery, BeginRequest, SettleBeforeRequest, Gate,
         EndRun, Crash, Leave
    <2>3. QED
      BY <2>1, <2>2, <1>c, <1>1
  <1>5. ASSUME NEW p \in Procs, Insert(p) \/ ClaimNext(p) PROVE TargetsExist'
    <2>1. CASE Leave(p)
      <3>1. \A q \in Procs \ {p} : target'[q] = target[q]
        BY <2>1, <1>d DEF Leave
      <3>2. pc' = [pc EXCEPT ![p] = "idle"]
        BY <2>1 DEF Leave
      <3>3. QED
        BY <3>1, <3>2, <1>c, <1>1
    <2>2. CASE ~Leave(p)
      <3>1. \E r \in Runs : /\ pc' = [pc EXCEPT ![p] = "acquire"]
                            /\ target' = [target EXCEPT ![p] = r]
                            /\ status'[r] # "none"
        BY <1>5, <2>2, <1>d DEF Insert, ClaimNext, In, rowVars
      <3>2. QED
        BY <3>1, <1>2
    <2>3. QED
      BY <2>1, <2>2
  <1>6. ASSUME NEW p \in Procs, AcquireLock(p) PROVE TargetsExist'
    <2>1. \E s \in {"idle", "sweep"} : pc' = [pc EXCEPT ![p] = s]
      BY <1>6 DEF AcquireLock, Leave
    <2>2. \A q \in Procs \ {p} : target'[q] = target[q]
      BY <1>6, <1>d DEF AcquireLock, Leave
    <2>3. pc'[p] = "sweep" => target'[p] = target[p]
      BY <1>6, <1>d DEF AcquireLock, Leave
    <2>4. pc[p] \in Aimed
      BY <1>6, <1>c DEF AcquireLock
    <2>5. QED
      BY <2>1, <2>2, <2>3, <2>4, <1>c, <1>d, <1>1
  <1>7. ASSUME NEW p \in Procs,
               \/ Sweep(p) \/ Claim(p) \/ RunStages(p) \/ EndEnqueue(p)
               \/ RecordCreated(p) \/ RecordRetried(p) \/ MarkRag(p)
               \/ Close(p) \/ GiveUp(p) \/ FinishFails(p)
        PROVE  TargetsExist'
    <2>1. pc[p] \in Aimed
      BY <1>7, <1>c DEF Sweep, Claim, RunStages, EndEnqueue, RecordCreated, RecordRetried,
         Record, MarkRag, Close, GiveUp, FinishFails
    <2>2. UNCHANGED target /\ \E s : pc' = [pc EXCEPT ![p] = s]
      BY <1>7 DEF Sweep, Claim, RunStages, EndEnqueue, RecordCreated, RecordRetried,
         Record, MarkRag, Close, GiveUp, FinishFails
    <2>3. QED
      BY <2>1, <2>2, <1>1
  <1>8. ASSUME NEW p \in Procs, EnqueueJob(p) PROVE UNCHANGED <<pc, target>>
    BY <1>8 DEF EnqueueJob
  <1>9. ASSUME NEW j \in Jobs, JobStep(j) PROVE UNCHANGED <<pc, target>>
    BY <1>9 DEF JobStep, StartJob, FinishJob, SweepStaleJob, FinishLate, procVars
  <1>10. (PollStatus \/ LoseLock \/ UNCHANGED vars) => UNCHANGED <<pc, target>>
    BY DEF PollStatus, LoseLock, procVars, vars
  <1>11. QED
    BY <1>3, <1>4, <1>5, <1>6, <1>7, <1>8, <1>9, <1>10 DEF Next, Step

-----------------------------------------------------------------------------
(* The ledger of a run: which jobs its RAG stage enqueued, and which of them *)
(* nrb_pipeline_run_jobs holds.  Nothing here rests on the lock.             *)

\* Stations at which a process remembers jobs it enqueued.
Handling == {"enqueue", "record created", "record retried", "mark rag", "close",
             "give up", "release"}

Remembered(p) == batch[p]["created"] \union batch[p]["retried"]

\* What a verdict, or the wait for one, is written over.
Closed == {"awaiting", "succeeded", "partial"}

\* Even after a lost lock no two processes stage one run: only one claimed it.
StagersDiffer ==
    \A p, q \in Procs :
        pc[p] \in Staging /\ pc[q] \in Staging /\ target[p] = target[q] => p = q

\* A staged run is `running`, or a sweep failed it under its orchestrator.
StagedRunsAreOpen ==
    \A p \in Procs : pc[p] \in Staging => status[target[p]] \in {"running", "failed"}

\* Nobody worked for a run that nobody claimed.
UnclaimedRunsAreBlank ==
    \A r \in Runs : status[r] \in {"none", "queued"} =>
        recorded[r] = {} /\ \A j \in Jobs : enqueuer[j] # r

BatchesAreStaged == \A p \in Procs : pc[p] \notin Handling => Remembered(p) = {}

\* The orchestrator of a run remembers every job enqueued for it, and no other
\* job is recorded.
StagedJobsAreRemembered ==
    \A p \in Procs : pc[p] \in Staging =>
        /\ recorded[target[p]] \subseteq Remembered(p)
        /\ \A j \in Jobs : enqueuer[j] = target[p] => j \in Remembered(p)

\* Past a _record_jobs, the jobs of its reason are recorded.
RecordsAreKept ==
    \A p \in Procs :
        /\ pc[p] \in {"record retried", "mark rag", "close"} =>
             batch[p]["created"] \subseteq recorded[target[p]]
        /\ pc[p] \in {"mark rag", "close"} =>
             batch[p]["retried"] \subseteq recorded[target[p]]

Ledger ==
    /\ StagersDiffer
    /\ StagedRunsAreOpen
    /\ UnclaimedRunsAreBlank
    /\ BatchesAreStaged
    /\ StagedJobsAreRemembered
    /\ RecordsAreKept

\* A step of p that records nothing and enqueues nothing, moves p along the
\* staging stations or out of them, and leaves every other staged run open.
LEMMA LedgerFrame ==
    ASSUME Typing, Ledger, NEW p \in Procs, NEW s, pc' = [pc EXCEPT ![p] = s],
           UNCHANGED <<recorded, enqueuer>>,
           \A q \in Procs \ {p} : target'[q] = target[q] /\ batch'[q] = batch[q],
           \A q \in Procs \ {p} :
               pc[q] \in Staging => status'[target[q]] \in {"running", "failed"},
           \A r \in Runs :
               status'[r] \in {"none", "queued"} => status[r] \in {"none", "queued"},
           s \in Staging => /\ pc[p] \in Staging
                            /\ target'[p] = target[p]
                            /\ batch'[p] = batch[p]
                            /\ status'[target[p]] \in {"running", "failed"},
           s \notin Handling => batch'[p]["created"] = {} /\ batch'[p]["retried"] = {},
           s \in {"record retried", "mark rag", "close"} =>
               batch[p]["created"] \subseteq recorded[target[p]],
           s \in {"mark rag", "close"} =>
               batch[p]["retried"] \subseteq recorded[target[p]]
    PROVE  Ledger'
  <1>a. /\ pc \in [Procs -> Stations]
        /\ pc'[p] = s
        /\ \A q \in Procs \ {p} : pc'[q] = pc[q]
    BY DEF Typing, TypeOK
  <1>b. {"record retried", "mark rag", "close"} \subseteq Staging
    BY DEF Staging
  <1>c. \A q \in Procs : pc'[q] \in Staging =>
            /\ pc[q] \in Staging
            /\ target'[q] = target[q]
            /\ batch'[q] = batch[q]
    BY <1>a
  <1>1. StagersDiffer'
    BY <1>c DEF Ledger, StagersDiffer
  <1>2. StagedRunsAreOpen'
    BY <1>a DEF Ledger, StagedRunsAreOpen
  <1>3. UnclaimedRunsAreBlank'
    BY DEF Ledger, UnclaimedRunsAreBlank
  <1>4. BatchesAreStaged'
    BY <1>a DEF Ledger, BatchesAreStaged, Remembered
  <1>5. StagedJobsAreRemembered'
    <2> SUFFICES ASSUME NEW q \in Procs, pc'[q] \in Staging
                 PROVE  /\ recorded[target'[q]] \subseteq batch'[q]["created"] \union batch'[q]["retried"]
                        /\ \A j \in Jobs : enqueuer[j] = target'[q] =>
                             j \in batch'[q]["created"] \union batch'[q]["retried"]
      BY DEF StagedJobsAreRemembered, Remembered
    <2>1. pc[q] \in Staging /\ target'[q] = target[q] /\ batch'[q] = batch[q]
      BY <1>c
    <2>2. /\ recorded[target[q]] \subseteq batch[q]["created"] \union batch[q]["retried"]
          /\ \A j \in Jobs : enqueuer[j] = target[q] =>
               j \in batch[q]["created"] \union batch[q]["retried"]
      BY <2>1 DEF Ledger, StagedJobsAreRemembered, Remembered
    <2>3. QED
      BY <2>1, <2>2
  <1>6. RecordsAreKept'
    BY <1>a, <1>b DEF Ledger, RecordsAreKept
  <1>7. QED
    BY <1>1, <1>2, <1>3, <1>4, <1>5, <1>6 DEF Ledger

\* A step of no process.
LEMMA LedgerStill ==
    ASSUME Ledger, TargetsAreRuns, UNCHANGED <<pc, target, batch, recorded, enqueuer>>,
           \A r \in Runs : /\ status[r] \in {"running", "failed"} =>
                                status'[r] \in {"running", "failed"}
                           /\ status'[r] \in {"none", "queued"} =>
                                status[r] \in {"none", "queued"}
    PROVE  Ledger'
  <1>1. /\ StagersDiffer' /\ BatchesAreStaged' /\ StagedJobsAreRemembered' /\ RecordsAreKept'
    BY DEF Ledger, StagersDiffer, BatchesAreStaged, StagedJobsAreRemembered, RecordsAreKept,
       Remembered
  <1>2. StagedRunsAreOpen'
    BY DEF Ledger, StagedRunsAreOpen, TargetsAreRuns, Aimed
  <1>3. UnclaimedRunsAreBlank'
    BY DEF Ledger, UnclaimedRunsAreBlank
  <1>4. QED
    BY <1>1, <1>2, <1>3 DEF Ledger

\* The claim is the one way in: nobody staged a queued run, nor worked for it.
LEMMA LedgerClaim ==
    ASSUME Typing, Ledger, NEW p \in Procs, Claim(p), status[target[p]] = "queued"
    PROVE  Ledger'
  <1>a. /\ status' = [status EXCEPT ![target[p]] = "running"]
        /\ pc' = [pc EXCEPT ![p] = "stage"]
        /\ UNCHANGED <<recorded, enqueuer, target, batch>>
        /\ pc[p] = "claim"
    BY DEF Claim, Goto, At, jobVars
  <1>b. /\ pc \in [Procs -> Stations]
        /\ pc'[p] = "stage"
        /\ \A q \in Procs \ {p} : pc'[q] = pc[q]
    BY <1>a DEF Typing, TypeOK
  <1>c. "claim" \notin Handling /\ "claim" \in Aimed /\ "stage" \notin Handling
    BY DEF Handling, Aimed
  <1>d. target[p] \in Runs
    BY <1>a, <1>c DEF Typing, TargetsAreRuns
  <1>e. /\ status \in [Runs -> ActiveStatuses \union TerminalStatuses \union {"none"}]
        /\ status'[target[p]] = "running"
        /\ \A r \in Runs : r # target[p] => status'[r] = status[r]
    BY <1>a, <1>d DEF Typing, TypeOK
  <1>f. \A q \in Procs : pc[q] \in Staging => target[q] \in Runs /\ target[q] # target[p]
    BY DEF Ledger, StagedRunsAreOpen, Typing, TargetsAreRuns, Aimed
  <1>1. StagersDiffer'
    BY <1>a, <1>b, <1>f DEF Ledger, StagersDiffer
  <1>2. StagedRunsAreOpen'
    BY <1>a, <1>b, <1>e, <1>f DEF Ledger, StagedRunsAreOpen
  <1>3. UnclaimedRunsAreBlank'
    BY <1>a, <1>e DEF Ledger, UnclaimedRunsAreBlank
  <1>4. BatchesAreStaged'
    BY <1>a, <1>b, <1>c DEF Ledger, BatchesAreStaged, Remembered
  <1>5. StagedJobsAreRemembered'
    BY <1>a, <1>b, <1>d DEF Ledger, StagedJobsAreRemembered, UnclaimedRunsAreBlank, Remembered
  <1>6. RecordsAreKept'
    BY <1>a, <1>b DEF Ledger, RecordsAreKept
  <1>7. QED
    BY <1>1, <1>2, <1>3, <1>4, <1>5, <1>6 DEF Ledger

\* A job is enqueued and remembered in one step.
LEMMA LedgerEnqueue ==
    ASSUME Typing, Ledger, NEW p \in Procs, EnqueueJob(p)
    PROVE  Ledger'
  <1>1. PICK j \in Jobs, reason \in Reasons :
            /\ enqueuer' = [enqueuer EXCEPT ![j] = target[p]]
            /\ batch' = [batch EXCEPT ![p][reason] = @ \union {j}]
    BY DEF EnqueueJob
  <1>a. /\ pc[p] = "enqueue"
        /\ UNCHANGED <<pc, target, status, recorded>>
    BY DEF EnqueueJob, At, rowVars
  <1>b. /\ "enqueue" \in Staging /\ "enqueue" \in Handling
        /\ "enqueue" \notin {"record retried", "mark rag", "close"}
    BY DEF Staging, Handling
  <1>c. /\ batch \in [Procs -> [Reasons -> SUBSET Jobs]]
        /\ enqueuer \in [Jobs -> Runs \union {NoRun}]
        /\ "created" \in Reasons /\ "retried" \in Reasons
    BY DEF Typing, TypeOK, Reasons
  <1>d. /\ \A q \in Procs \ {p} : batch'[q] = batch[q]
        /\ batch[p]["created"] \subseteq batch'[p]["created"]
        /\ batch[p]["retried"] \subseteq batch'[p]["retried"]
        /\ j \in batch'[p]["created"] \union batch'[p]["retried"]
    BY <1>1, <1>c DEF Reasons
  <1>e. /\ enqueuer'[j] = target[p]
        /\ \A k \in Jobs : k # j => enqueuer'[k] = enqueuer[k]
    BY <1>1, <1>c
  <1>f. /\ \A q \in Procs \ {p} : pc[q] \in Staging => target[q] # target[p]
        /\ status[target[p]] \notin {"none", "queued"}
    BY <1>a, <1>b DEF Ledger, StagersDiffer, StagedRunsAreOpen
  <1>2. StagersDiffer' /\ StagedRunsAreOpen'
    BY <1>a DEF Ledger, StagersDiffer, StagedRunsAreOpen
  <1>3. UnclaimedRunsAreBlank'
    BY <1>a, <1>e, <1>f DEF Ledger, UnclaimedRunsAreBlank
  <1>4. BatchesAreStaged'
    BY <1>a, <1>b, <1>d DEF Ledger, BatchesAreStaged, Remembered
  <1>5. StagedJobsAreRemembered'
    <2> SUFFICES ASSUME NEW q \in Procs, pc[q] \in Staging
                 PROVE  /\ recorded[target[q]] \subseteq batch'[q]["created"] \union batch'[q]["retried"]
                        /\ \A k \in Jobs : enqueuer'[k] = target[q] =>
                             k \in batch'[q]["created"] \union batch'[q]["retried"]
      BY <1>a DEF StagedJobsAreRemembered, Remembered
    <2>1. /\ recorded[target[q]] \subseteq batch[q]["created"] \union batch[q]["retried"]
          /\ \A k \in Jobs : enqueuer[k] = target[q] =>
               k \in batch[q]["created"] \union batch[q]["retried"]
      BY DEF Ledger, StagedJobsAreRemembered, Remembered
    <2>2. CASE q = p
      BY <2>1, <2>2, <1>d, <1>e
    <2>3. CASE q # p
      BY <2>1, <2>3, <1>d, <1>e, <1>f
    <2>4. QED
      BY <2>2, <2>3
  <1>6. RecordsAreKept'
    <2> SUFFICES ASSUME NEW q \in Procs
                 PROVE  /\ pc[q] \in {"record retried", "mark rag", "close"} =>
                             batch'[q]["created"] \subseteq recorded[target[q]]
                        /\ pc[q] \in {"mark rag", "close"} =>
                             batch'[q]["retried"] \subseteq recorded[target[q]]
      BY <1>a DEF RecordsAreKept
    <2>1. CASE q = p
      BY <2>1, <1>a
    <2>2. CASE q # p
      BY <2>2, <1>d DEF Ledger, RecordsAreKept
    <2>3. QED
      BY <2>1, <2>2
  <1>7. QED
    BY <1>2, <1>3, <1>4, <1>5, <1>6 DEF Ledger

\* One _record_jobs that does not raise.
LEMMA LedgerRecord ==
    ASSUME Typing, Ledger, NEW p \in Procs, NEW reason \in Reasons, NEW here, NEW next,
           \/ reason = "created" /\ here = "record created" /\ next = "record retried"
           \/ reason = "retried" /\ here = "record retried" /\ next = "mark rag",
           pc[p] = here, pc' = [pc EXCEPT ![p] = next],
           recorded' = [recorded EXCEPT ![target[p]] = @ \union batch[p][reason]],
           UNCHANGED <<status, enqueuer, target, batch>>
    PROVE  Ledger'
  <1>a. /\ here \in Staging /\ next \in Staging /\ next \in Handling
        /\ here \notin {"mark rag", "close"}
    BY DEF Staging, Handling
  <1>b. /\ pc \in [Procs -> Stations]
        /\ pc'[p] = next
        /\ \A q \in Procs \ {p} : pc'[q] = pc[q]
    BY DEF Typing, TypeOK
  <1>c. target[p] \in Runs
    BY <1>a DEF Typing, TargetsAreRuns, Aimed
  <1>d. /\ recorded \in [Runs -> SUBSET Jobs]
        /\ recorded'[target[p]] = recorded[target[p]] \union batch[p][reason]
        /\ \A r \in Runs : r # target[p] => recorded'[r] = recorded[r]
    BY <1>c DEF Typing, TypeOK
  <1>e. \A q \in Procs \ {p} :
            pc[q] \in Staging => target[q] \in Runs /\ target[q] # target[p]
    BY <1>a DEF Ledger, StagersDiffer, Typing, TargetsAreRuns, Aimed
  <1>f. status[target[p]] \notin {"none", "queued"}
    BY <1>a DEF Ledger, StagedRunsAreOpen
  <1>g. {"record retried", "mark rag", "close"} \subseteq Staging
    BY DEF Staging
  <1>1. StagersDiffer' /\ StagedRunsAreOpen'
    BY <1>a, <1>b DEF Ledger, StagersDiffer, StagedRunsAreOpen
  <1>2. UnclaimedRunsAreBlank'
    BY <1>d, <1>f DEF Ledger, UnclaimedRunsAreBlank
  <1>3. BatchesAreStaged'
    BY <1>a, <1>b DEF Ledger, BatchesAreStaged, Remembered
  <1>4. StagedJobsAreRemembered'
    <2> SUFFICES ASSUME NEW q \in Procs, pc'[q] \in Staging
                 PROVE  /\ recorded'[target[q]] \subseteq batch[q]["created"] \union batch[q]["retried"]
                        /\ \A k \in Jobs : enqueuer[k] = target[q] =>
                             k \in batch[q]["created"] \union batch[q]["retried"]
      BY DEF StagedJobsAreRemembered, Remembered
    <2>1. pc[q] \in Staging
      BY <1>a, <1>b
    <2>2. /\ recorded[target[q]] \subseteq batch[q]["created"] \union batch[q]["retried"]
          /\ \A k \in Jobs : enqueuer[k] = target[q] =>
               k \in batch[q]["created"] \union batch[q]["retried"]
      BY <2>1 DEF Ledger, StagedJobsAreRemembered, Remembered
    <2>3. CASE q = p
      BY <2>2, <2>3, <1>d
    <2>4. CASE q # p
      BY <2>1, <2>2, <2>4, <1>d, <1>e
    <2>5. QED
      BY <2>3, <2>4
  <1>5. RecordsAreKept'
    <2> SUFFICES ASSUME NEW q \in Procs
                 PROVE  /\ pc'[q] \in {"record retried", "mark rag", "close"} =>
                             batch[q]["created"] \subseteq recorded'[target[q]]
                        /\ pc'[q] \in {"mark rag", "close"} =>
                             batch[q]["retried"] \subseteq recorded'[target[q]]
      BY DEF RecordsAreKept
    <2>1. CASE q = p
      <3>1. here = "record retried" => batch[p]["created"] \subseteq recorded[target[p]]
        BY DEF Ledger, RecordsAreKept
      <3>2. QED
        BY <2>1, <3>1, <1>b, <1>d
    <2>2. CASE q # p
      <3>1. pc'[q] = pc[q]
        BY <2>2, <1>b
      <3>2. pc[q] \in {"record retried", "mark rag", "close"} =>
              recorded'[target[q]] = recorded[target[q]]
        BY <2>2, <1>d, <1>e, <1>g
      <3>3. QED
        BY <3>1, <3>2 DEF Ledger, RecordsAreKept
    <2>3. QED
      BY <2>1, <2>2
  <1>6. QED
    BY <1>1, <1>2, <1>3, <1>4, <1>5 DEF Ledger

\* Settling a waiting run opens no row and reopens none.
LEMMA SettleDrifts ==
    ASSUME NEW waiting, waiting \subseteq In({"awaiting"}), Settle(waiting), NEW r \in Runs
    PROVE  /\ status[r] \in {"running", "failed"} => status'[r] = status[r]
           /\ status'[r] \in {"none", "queued"} => status[r] \in {"none", "queued"}
  BY VerdictIsStatus DEF Settle, In, TerminalStatuses

\* What _finish leaves in a row.
LEMMA FinishCloses ==
    ASSUME Typing, NEW r \in Runs, NEW s \in TerminalStatuses \union {"awaiting"},
           Finish(r, s)
    PROVE  /\ status'[r] \in TerminalStatuses \union {"awaiting"}
           /\ \A q \in Runs : q # r => status'[q] = status[q] /\ frozen'[q] = frozen[q]
  BY DEF Typing, TypeOK, Finish

LEMMA LedgerInit == Init => Ledger
  <1>1. "idle" \notin Staging /\ "idle" \notin Handling
    BY DEF Staging, Handling
  <1>2. \A r \in Runs : r # NoRun
    BY PipelineAssumption DEF Runs, NoRun
  <1>3. QED
    BY <1>1, <1>2 DEF Init, Ledger, StagersDiffer, StagedRunsAreOpen, UnclaimedRunsAreBlank,
       BatchesAreStaged, StagedJobsAreRemembered, RecordsAreKept, Remembered, Empty, Reasons

LEMMA LedgerNext ==
    ASSUME Typing, Ledger, [Next]_vars
    PROVE  Ledger'
  <1> USE DEF At, Goto
  <1>a. /\ {"stage", "enqueue", "record created", "record retried"} \subseteq Staging
        /\ {"mark rag", "close", "give up"} \subseteq Staging
        /\ {"idle", "recover", "unlock", "poll", "settle", "gate", "insert"} \intersect Staging = {}
        /\ {"acquire", "sweep", "claim", "release"} \intersect Staging = {}
    BY DEF Staging
  <1>b. /\ {"enqueue", "record created", "record retried", "mark rag"} \subseteq Handling
        /\ {"close", "give up", "release"} \subseteq Handling
        /\ {"idle", "recover", "unlock", "poll", "settle", "gate", "insert"} \intersect Handling = {}
        /\ {"acquire", "sweep", "claim", "stage"} \intersect Handling = {}
    BY DEF Handling
  <1>c. /\ pc \in [Procs -> Stations]
        /\ target \in [Procs -> Runs \union {NoRun}]
        /\ batch \in [Procs -> [Reasons -> SUBSET Jobs]]
        /\ status \in [Runs -> ActiveStatuses \union TerminalStatuses \union {"none"}]
        /\ \A p \in Procs : pc[p] \in Staging => target[p] \in Runs
    BY DEF Typing, TypeOK, TargetsAreRuns, Aimed
  <1>d. \A p \in Procs : pc[p] \in Staging => status[target[p]] \in {"running", "failed"}
    BY DEF Ledger, StagedRunsAreOpen
  <1>e. \A p \in Procs : pc[p] \notin Handling =>
            batch[p]["created"] = {} /\ batch[p]["retried"] = {}
    BY DEF Ledger, BatchesAreStaged, Remembered
  <1>f. "created" \in Reasons /\ "retried" \in Reasons
    BY DEF Reasons
  \* p leaves the staging stations, or was at none, and opens no staged run.
  <1>1. ASSUME NEW p \in Procs, NEW s, pc' = [pc EXCEPT ![p] = s], s \notin Staging,
               UNCHANGED <<recorded, enqueuer>>,
               \A q \in Procs \ {p} : target'[q] = target[q] /\ batch'[q] = batch[q],
               s \notin Handling => batch'[p]["created"] = {} /\ batch'[p]["retried"] = {},
               \A q \in Procs \ {p} :
                   pc[q] \in Staging => status'[target[q]] \in {"running", "failed"},
               \A r \in Runs :
                   status'[r] \in {"none", "queued"} => status[r] \in {"none", "queued"}
        PROVE  Ledger'
    <2>1. s \notin {"record retried", "mark rag", "close"} /\ s \notin {"mark rag", "close"}
      BY <1>1, <1>a
    <2>2. QED
      BY <1>1, <2>1, LedgerFrame
  <1>2. ASSUME NEW p \in Procs, Leave(p), UNCHANGED <<status, recorded, enqueuer>>
        PROVE  Ledger'
    <2>1. /\ pc' = [pc EXCEPT ![p] = "idle"]
          /\ \A q \in Procs \ {p} : target'[q] = target[q] /\ batch'[q] = batch[q]
          /\ batch'[p]["created"] = {} /\ batch'[p]["retried"] = {}
      BY <1>2, <1>c, <1>f DEF Leave, Empty
    <2>2. QED
      BY <1>2, <2>1, <1>1, <1>a, <1>d
  <1>3. ASSUME NEW p \in Procs, NEW s, pc' = [pc EXCEPT ![p] = s], s \notin Staging,
               s \notin Handling => pc[p] \notin Handling,
               UNCHANGED <<recorded, enqueuer, batch>>,
               \A q \in Procs \ {p} : target'[q] = target[q],
               \A r \in Runs : /\ status[r] \in {"running", "failed"} =>
                                    status'[r] \in {"running", "failed"}
                               /\ status'[r] \in {"none", "queued"} =>
                                    status[r] \in {"none", "queued"}
        PROVE  Ledger'
    <2>1. \A q \in Procs : pc[q] \in Staging => status'[target[q]] \in {"running", "failed"}
      BY <1>3, <1>c, <1>d
    <2>2. QED
      BY <1>1, <1>3, <1>e, <2>1
  \* p goes on along the staging stations.
  <1>4. ASSUME NEW p \in Procs, NEW s \in Staging, pc' = [pc EXCEPT ![p] = s],
               pc[p] \in Staging,
               UNCHANGED <<recorded, enqueuer, batch, target, status>>,
               \/ s \in {"enqueue", "record created", "give up"}
               \/ s = "close" /\ pc[p] \in {"stage", "mark rag"}
        PROVE  Ledger'
    <2>1. s \in Handling
      BY <1>4, <1>b
    <2>2. s = "close" => /\ batch[p]["created"] \subseteq recorded[target[p]]
                         /\ batch[p]["retried"] \subseteq recorded[target[p]]
      <3>1. CASE pc[p] = "stage"
        BY <3>1, <1>b, <1>e
      <3>2. CASE pc[p] = "mark rag"
        BY <3>2 DEF Ledger, RecordsAreKept
      <3>3. QED
        BY <1>4, <3>1, <3>2
    <2>3. /\ s \in {"record retried", "mark rag", "close"} => s = "close"
          /\ s \in {"mark rag", "close"} => s = "close"
      BY <1>4
    <2>4. QED
      BY <1>4, <1>d, <2>1, <2>2, <2>3, LedgerFrame
  <1>5. ASSUME NEW p \in Procs,
               \/ BeginRecovery(p) \/ EndRecovery(p) \/ BeginRequest(p)
               \/ Gate(p) \/ ClaimNext(p) \/ AcquireLock(p)
               \/ EndRun(p) \/ Crash(p) \/ FinishFails(p)
        PROVE  Ledger'
    <2>1. CASE Leave(p)
      <3>1. UNCHANGED <<status, recorded, enqueuer>>
        BY <1>5 DEF BeginRecovery, EndRecovery, BeginRequest, Gate, ClaimNext, AcquireLock,
           EndRun, Crash, FinishFails, rowVars, jobVars
      <3>2. QED
        BY <2>1, <3>1, <1>2
    <2>2. CASE ~Leave(p)
      <3>1. UNCHANGED <<status, recorded, enqueuer, batch>>
        BY <1>5, <2>2 DEF BeginRecovery, EndRecovery, BeginRequest, Gate, ClaimNext, AcquireLock,
           EndRun, Crash, FinishFails, rowVars, jobVars
      <3>2. \A q \in Procs \ {p} : target'[q] = target[q]
        BY <1>5, <2>2, <1>c DEF BeginRecovery, EndRecovery, BeginRequest, Gate, ClaimNext,
           AcquireLock, EndRun, Crash, FinishFails
      <3>3. \/ pc' = [pc EXCEPT ![p] = "release"]
            \/ /\ \E s \in {"recover", "poll", "settle", "insert", "acquire", "sweep"} :
                    pc' = [pc EXCEPT ![p] = s]
               /\ pc[p] \in {"idle", "unlock", "gate", "poll", "acquire"}
        BY <1>5, <2>2 DEF BeginRecovery, EndRecovery, BeginRequest, Gate, ClaimNext, AcquireLock,
           EndRun, Crash, FinishFails, AfterRecovery
      <3>4. QED
        BY <3>1, <3>2, <3>3, <1>3, <1>a, <1>b
    <2>3. QED
      BY <2>1, <2>2
  <1>6. ASSUME NEW p \in Procs, SettleBeforeRequest(p)
        PROVE  Ledger'
    <2>1. Settle(In({"awaiting"}))
      BY <1>6 DEF SettleBeforeRequest
    <2>2. \A r \in Runs : /\ status[r] \in {"running", "failed"} =>
                               status'[r] \in {"running", "failed"}
                          /\ status'[r] \in {"none", "queued"} => status[r] \in {"none", "queued"}
      BY <2>1, SettleDrifts
    <2>3. /\ pc' = [pc EXCEPT ![p] = "gate"] /\ pc[p] = "settle"
          /\ UNCHANGED <<recorded, enqueuer, batch, target>>
      BY <1>6 DEF SettleBeforeRequest, jobVars
    <2>4. QED
      BY <2>2, <2>3, <1>3, <1>a, <1>b
  <1>7. ASSUME NEW p \in Procs, Insert(p)
        PROVE  Ledger'
    <2>1. CASE Leave(p) /\ UNCHANGED status
      BY <1>7, <2>1, <1>2 DEF Insert, jobVars
    <2>2. CASE \E r \in Runs :
                 /\ \A q \in Runs : status[q] = "none" <=> q >= r
                 /\ status' = [status EXCEPT ![r] = "queued"]
                 /\ IF p \in Operators
                    THEN /\ Goto(p, "acquire")
                         /\ target' = [target EXCEPT ![p] = r]
                         /\ UNCHANGED batch
                    ELSE Leave(p)
      <3>1. PICK r \in Runs :
                 /\ \A q \in Runs : status[q] = "none" <=> q >= r
                 /\ status' = [status EXCEPT ![r] = "queued"]
                 /\ IF p \in Operators
                    THEN /\ Goto(p, "acquire")
                         /\ target' = [target EXCEPT ![p] = r]
                         /\ UNCHANGED batch
                    ELSE Leave(p)
        BY <2>2
      <3>2. status[r] = "none"
        BY <3>1, PipelineAssumption DEF Runs
      <3>3. \A q \in Runs : /\ status[q] \in {"running", "failed"} =>
                                 status'[q] \in {"running", "failed"}
                            /\ status'[q] \in {"none", "queued"} => status[q] \in {"none", "queued"}
        BY <3>1, <3>2, <1>c
      <3>4. UNCHANGED <<recorded, enqueuer>> /\ pc[p] = "insert"
        BY <1>7 DEF Insert, jobVars
      <3>5. CASE p \in Operators
        <4>1. /\ pc' = [pc EXCEPT ![p] = "acquire"] /\ UNCHANGED batch
              /\ \A q \in Procs \ {p} : target'[q] = target[q]
          BY <3>1, <3>5, <1>c
        <4>2. QED
          BY <4>1, <3>3, <3>4, <1>3, <1>a, <1>b
      <3>6. CASE p \notin Operators
        <4>1. /\ pc' = [pc EXCEPT ![p] = "idle"]
              /\ \A q \in Procs \ {p} : target'[q] = target[q] /\ batch'[q] = batch[q]
              /\ batch'[p]["created"] = {} /\ batch'[p]["retried"] = {}
          BY <3>1, <3>6, <1>c, <1>f DEF Leave, Empty
        <4>2. \A q \in Procs : pc[q] \in Staging => status'[target[q]] \in {"running", "failed"}
          BY <3>3, <1>c, <1>d
        <4>3. QED
          BY <4>1, <4>2, <3>3, <3>4, <1>1, <1>a
      <3>7. QED
        BY <3>5, <3>6
    <2>3. QED
      BY <1>7, <2>1, <2>2 DEF Insert
  <1>8. ASSUME NEW p \in Procs, Recover(p) \/ Sweep(p)
        PROVE  Ledger'
    <2>1. \A r \in Runs : /\ status[r] \in {"running", "failed"} =>
                               status'[r] \in {"running", "failed"}
                          /\ status'[r] \in {"none", "queued"} => status[r] \in {"none", "queued"}
      BY <1>8, VerdictIsStatus DEF Recover, SweepAndSettle, Sweep, In, TerminalStatuses
    <2>2. /\ \/ pc' = [pc EXCEPT ![p] = "unlock"] /\ pc[p] = "recover"
             \/ pc' = [pc EXCEPT ![p] = "claim"] /\ pc[p] = "sweep"
          /\ UNCHANGED <<recorded, enqueuer, batch, target>>
      BY <1>8 DEF Recover, Sweep, jobVars
    <2>3. QED
      BY <2>1, <2>2, <1>3, <1>a, <1>b
  <1>9. ASSUME NEW p \in Procs, Claim(p)
        PROVE  Ledger'
    <2>1. CASE status[target[p]] = "queued"
      BY <1>9, <2>1, LedgerClaim
    <2>2. CASE status[target[p]] # "queued"
      <3>1. /\ pc' = [pc EXCEPT ![p] = "release"]
            /\ UNCHANGED <<status, recorded, enqueuer, batch, target>>
        BY <1>9, <2>2 DEF Claim, jobVars
      <3>2. QED
        BY <3>1, <1>3, <1>a, <1>b
    <2>3. QED
      BY <2>1, <2>2
  <1>10. ASSUME NEW p \in Procs, RunStages(p) \/ EndEnqueue(p) \/ MarkRag(p)
         PROVE  Ledger'
    <2>1. /\ UNCHANGED <<recorded, enqueuer, batch, target, status>>
          /\ pc[p] \in {"stage", "enqueue", "mark rag"}
          /\ \E s \in {"enqueue", "record created", "give up", "close"} :
               /\ pc' = [pc EXCEPT ![p] = s]
               /\ s = "close" => pc[p] \in {"stage", "mark rag"}
      BY <1>10 DEF RunStages, EndEnqueue, MarkRag, rowVars, jobVars
    <2>2. QED
      BY <2>1, <1>4, <1>a
  <1>11. ASSUME NEW p \in Procs, NEW reason \in Reasons, NEW here, NEW next,
                \/ reason = "created" /\ here = "record created" /\ next = "record retried"
                \/ reason = "retried" /\ here = "record retried" /\ next = "mark rag",
                Record(p, reason, here, next)
         PROVE  Ledger'
    <2>1. /\ pc[p] = here /\ pc[p] \in Staging
          /\ UNCHANGED <<status, enqueuer, target, batch>>
      BY <1>11, <1>a DEF Record, jobVars
    <2>2. CASE /\ recorded' = [recorded EXCEPT ![target[p]] = @ \union batch[p][reason]]
               /\ pc' = [pc EXCEPT ![p] = next]
      BY <1>11, <2>1, <2>2, LedgerRecord
    <2>3. CASE UNCHANGED recorded /\ pc' = [pc EXCEPT ![p] = "give up"]
      BY <2>1, <2>3, <1>4, <1>a
    <2>4. QED
      BY <1>11, <2>2, <2>3 DEF Record
  <1>12. ASSUME NEW p \in Procs, Close(p) \/ GiveUp(p)
         PROVE  Ledger'
    <2>1. /\ pc[p] \in Staging
          /\ pc' = [pc EXCEPT ![p] = "release"]
          /\ UNCHANGED <<recorded, enqueuer, batch, target>>
      BY <1>12, <1>a DEF Close, GiveUp, jobVars
    <2>2. target[p] \in Runs
      BY <2>1, <1>c
    <2>3. PICK s \in TerminalStatuses \union {"awaiting"} : Finish(target[p], s)
      BY <1>12, VerdictIsStatus DEF Close, GiveUp, TerminalStatuses
    <2>4. /\ status'[target[p]] \in TerminalStatuses \union {"awaiting"}
          /\ \A r \in Runs : r # target[p] => status'[r] = status[r]
      BY <2>2, <2>3, FinishCloses
    <2>5. \A q \in Procs \ {p} : pc[q] \in Staging => status'[target[q]] \in {"running", "failed"}
      BY <2>1, <2>4, <1>c, <1>d DEF Ledger, StagersDiffer
    <2>6. \A r \in Runs : status'[r] \in {"none", "queued"} => status[r] \in {"none", "queued"}
      BY <2>4 DEF TerminalStatuses
    <2>7. QED
      BY <2>1, <2>5, <2>6, <1>1, <1>a, <1>b
  <1>13. ASSUME UNCHANGED <<pc, target, batch, recorded, enqueuer, status>>
         PROVE  Ledger'
    BY <1>13, LedgerStill DEF Typing
  <1>14. ASSUME NEW j \in Jobs, JobStep(j)
         PROVE  UNCHANGED <<pc, target, batch, recorded, enqueuer, status>>
    BY <1>14 DEF JobStep, StartJob, FinishJob, SweepStaleJob, FinishLate, procVars, rowVars
  <1>15. LoseLock \/ UNCHANGED vars => UNCHANGED <<pc, target, batch, recorded, enqueuer, status>>
    BY DEF LoseLock, rowVars, jobVars, vars
  <1>16. ASSUME PollStatus
         PROVE  Ledger'
    <2>1. PICK r \in In({"awaiting"}) : Settle({r})
      BY <1>16 DEF PollStatus
    <2>2. \A q \in Runs : /\ status[q] \in {"running", "failed"} =>
                               status'[q] \in {"running", "failed"}
                          /\ status'[q] \in {"none", "queued"} => status[q] \in {"none", "queued"}
      BY <2>1, SettleDrifts
    <2>3. UNCHANGED <<pc, target, batch, recorded, enqueuer>>
      BY <1>16 DEF PollStatus, procVars, jobVars
    <2>4. QED
      BY <2>2, <2>3, LedgerStill DEF Typing
  <1>17. ASSUME NEW p \in Procs, RecordCreated(p) \/ RecordRetried(p)
         PROVE  Ledger'
    BY <1>17, <1>11, <1>f DEF RecordCreated, RecordRetried
  <1>18. QED
    BY <1>5, <1>6, <1>7, <1>8, <1>9, <1>10, <1>12, <1>13, <1>14, <1>15, <1>16, <1>17,
       LedgerEnqueue DEF Next, Step

-----------------------------------------------------------------------------
(* Closing a run.                                                          *)

\* How a run comes to wait for its jobs or to have a verdict, or stays so: it
\* was so before, or its orchestrator closed it in this step.  Its jobs, what
\* is recorded of them and its item failures do not move then.
Closes(r) ==
    \/ /\ status[r] \in Closed
       /\ \A j \in Jobs : enqueuer'[j] = r => enqueuer[j] = r
       /\ recorded[r] \subseteq recorded'[r]
       /\ r \in itemFailed' <=> r \in itemFailed
    \/ \E p \in Procs : Close(p) /\ target[p] = r

LEMMA EveryStepCloses ==
    ASSUME Typing, Ledger, [Next]_vars, NEW r \in Runs, status'[r] \in Closed
    PROVE  Closes(r)
  <1> USE DEF At
  <1>a. /\ {"stage", "enqueue", "record created", "record retried"} \subseteq Staging
        /\ {"mark rag", "close", "give up"} \subseteq Staging
    BY DEF Staging
  <1>b. \A p \in Procs : pc[p] \in Staging =>
            /\ target[p] \in Runs
            /\ status[target[p]] \in {"running", "failed"}
    BY DEF Ledger, StagedRunsAreOpen, Typing, TargetsAreRuns, Aimed
  <1>c. /\ status \in [Runs -> ActiveStatuses \union TerminalStatuses \union {"none"}]
        /\ enqueuer \in [Jobs -> Runs \union {NoRun}]
        /\ recorded \in [Runs -> SUBSET Jobs]
    BY DEF Typing, TypeOK
  <1>1. ASSUME status[r] \in Closed, UNCHANGED <<recorded, enqueuer, itemFailed>>
        PROVE  Closes(r)
    BY <1>1 DEF Closes
  <1>2. ASSUME NEW waiting, waiting \subseteq In({"awaiting"}), Settle(waiting)
        PROVE  status[r] \in Closed
    BY <1>2 DEF Settle, In, Closed
  <1>3. ASSUME NEW p \in Procs,
               \/ BeginRecovery(p) \/ EndRecovery(p) \/ BeginRequest(p) \/ Gate(p)
               \/ ClaimNext(p) \/ AcquireLock(p) \/ EndEnqueue(p) \/ EndRun(p)
               \/ Crash(p) \/ FinishFails(p)
        PROVE  Closes(r)
    <2>1. UNCHANGED <<status, recorded, enqueuer, itemFailed>>
      BY <1>3 DEF BeginRecovery, EndRecovery, BeginRequest, Gate, ClaimNext, AcquireLock,
         EndEnqueue, EndRun, Crash, FinishFails, rowVars, jobVars
    <2>2. QED
      BY <2>1, <1>1
  <1>4. ASSUME NEW p \in Procs, SettleBeforeRequest(p) PROVE Closes(r)
    <2>1. status[r] \in Closed
      BY <1>4, <1>2 DEF SettleBeforeRequest
    <2>2. QED
      BY <1>4, <2>1, <1>1 DEF SettleBeforeRequest, jobVars
  <1>5. ASSUME NEW p \in Procs, Recover(p) \/ Sweep(p) PROVE Closes(r)
    <2>1. status[r] \in Closed
      BY <1>5 DEF Recover, SweepAndSettle, Sweep, In, Closed
    <2>2. QED
      BY <1>5, <2>1, <1>1 DEF Recover, Sweep, jobVars
  <1>6. ASSUME NEW p \in Procs, Insert(p) \/ Claim(p) PROVE Closes(r)
    <2>1. \/ UNCHANGED status
          \/ \E q \in Runs, s \in {"queued", "running"} : status' = [status EXCEPT ![q] = s]
          \/ target[p] \notin Runs /\ status' = [status EXCEPT ![target[p]] = "running"]
      BY <1>6 DEF Insert, Claim
    <2>2. status[r] \in Closed
      BY <2>1, <1>c DEF Closed
    <2>3. QED
      BY <1>6, <2>2, <1>1 DEF Insert, Claim, jobVars
  <1>7. ASSUME NEW p \in Procs, RunStages(p) \/ MarkRag(p) PROVE Closes(r)
    <2>1. /\ UNCHANGED <<status, recorded, enqueuer>>
          /\ pc[p] \in Staging
          /\ itemFailed' \in {itemFailed, itemFailed \union {target[p]}}
      BY <1>7, <1>a DEF RunStages, MarkRag, ItemsFail, jobVars
    <2>2. r # target[p]
      BY <2>1, <1>b DEF Closed
    <2>3. QED
      BY <2>1, <2>2 DEF Closes
  <1>8. ASSUME NEW p \in Procs, EnqueueJob(p) PROVE Closes(r)
    <2>1. PICK j \in Jobs : enqueuer' = [enqueuer EXCEPT ![j] = target[p]]
      BY <1>8 DEF EnqueueJob
    <2>2. UNCHANGED <<status, recorded, itemFailed>> /\ pc[p] \in Staging
      BY <1>8, <1>a DEF EnqueueJob, rowVars
    <2>3. r # target[p]
      BY <2>2, <1>b DEF Closed
    <2>4. QED
      BY <2>1, <2>2, <2>3, <1>c DEF Closes
  <1>9. ASSUME NEW p \in Procs, RecordCreated(p) \/ RecordRetried(p) PROVE Closes(r)
    <2>1. /\ UNCHANGED <<status, enqueuer, itemFailed>>
          /\ \/ \E reason \in Reasons :
                  recorded' = [recorded EXCEPT ![target[p]] = @ \union batch[p][reason]]
             \/ UNCHANGED recorded
      BY <1>9 DEF RecordCreated, RecordRetried, Record, Reasons, jobVars
    <2>2. recorded[r] \subseteq recorded'[r]
      BY <2>1, <1>c
    <2>3. QED
      BY <2>1, <2>2 DEF Closes
  <1>10. ASSUME NEW p \in Procs, GiveUp(p) PROVE Closes(r)
    <2>1. pc[p] \in Staging /\ Finish(target[p], "failed")
      BY <1>10, <1>a DEF GiveUp
    <2>2. status[r] \in Closed
      BY <2>1, <1>c DEF Finish, Closed
    <2>3. QED
      BY <1>10, <2>2, <1>1 DEF GiveUp, jobVars
  <1>11. ASSUME NEW p \in Procs, Close(p) PROVE Closes(r)
    <2>1. pc[p] \in Staging
      BY <1>11, <1>a DEF Close
    <2>2. PICK s \in TerminalStatuses \union {"awaiting"} : Finish(target[p], s)
      BY <1>11, VerdictIsStatus DEF Close
    <2>3. target[p] # r => status'[r] = status[r]
      BY <2>1, <2>2, <1>b, FinishCloses
    <2>4. QED
      BY <1>11, <2>3, <1>1 DEF Close, Closes, jobVars
  <1>12. ASSUME NEW j \in Jobs, JobStep(j) PROVE Closes(r)
    <2>1. UNCHANGED <<status, recorded, enqueuer, itemFailed>>
      BY <1>12 DEF JobStep, StartJob, FinishJob, SweepStaleJob, FinishLate, rowVars
    <2>2. QED
      BY <2>1, <1>1
  <1>13. ASSUME LoseLock \/ UNCHANGED vars PROVE Closes(r)
    <2>1. UNCHANGED <<status, recorded, enqueuer, itemFailed>>
      BY <1>13 DEF LoseLock, rowVars, jobVars, vars
    <2>2. QED
      BY <2>1, <1>1
  <1>14. ASSUME PollStatus PROVE Closes(r)
    <2>1. PICK q \in In({"awaiting"}) : Settle({q})
      BY <1>14 DEF PollStatus
    <2>2. status[r] \in Closed
      BY <2>1, <1>2
    <2>3. QED
      BY <1>14, <2>2, <1>1 DEF PollStatus, jobVars
  <1>15. QED
    BY <1>3, <1>4, <1>5, <1>6, <1>7, <1>8, <1>9, <1>10, <1>11, <1>12, <1>13, <1>14
       DEF Next, Step

LEMMA AttributionNext ==
    ASSUME Typing, Ledger, JobsAreAttributed, [Next]_vars
    PROVE  JobsAreAttributed'
  <1> SUFFICES ASSUME NEW r \in Runs, status'[r] \in Closed,
                      NEW j \in Jobs, enqueuer'[j] = r
               PROVE  j \in recorded'[r]
    BY DEF JobsAreAttributed, In, Closed
  <1>1. Closes(r)
    BY EveryStepCloses
  <1>2. CASE /\ status[r] \in Closed
             /\ \A k \in Jobs : enqueuer'[k] = r => enqueuer[k] = r
             /\ recorded[r] \subseteq recorded'[r]
    BY <1>2 DEF JobsAreAttributed, In, Closed
  <1>3. CASE \E p \in Procs : Close(p) /\ target[p] = r
    <2>1. PICK p \in Procs : Close(p) /\ target[p] = r
      BY <1>3
    <2>2. pc[p] = "close" /\ "close" \in Staging /\ UNCHANGED <<recorded, enqueuer>>
      BY <2>1 DEF Close, At, jobVars, Staging
    <2>3. j \in batch[p]["created"] \union batch[p]["retried"]
      BY <2>1, <2>2 DEF Ledger, StagedJobsAreRemembered, Remembered
    <2>4. batch[p]["created"] \subseteq recorded[r] /\ batch[p]["retried"] \subseteq recorded[r]
      BY <2>1, <2>2 DEF Ledger, RecordsAreKept
    <2>5. QED
      BY <2>2, <2>3, <2>4
  <1>4. QED
    BY <1>1, <1>2, <1>3 DEF Closes

-----------------------------------------------------------------------------
(* Judging a run.                                                          *)

\* How a run comes to `succeeded` or `partial`, or stays there: by the counts of
\* this moment, which are frozen with the verdict.
Judges(r) ==
    /\ r \in itemFailed' <=> r \in itemFailed
    /\ \/ /\ status'[r] = status[r]
          /\ frozen'[r] = frozen[r]
       \/ /\ status'[r] = Verdict(r, LiveCounts(r))
          /\ frozen'[r] = LiveCounts(r)

\* A run closed with nothing queued has no recorded job, so the counts its
\* verdict is read from, all zero, are its live ones.
LEMMA ClosedOnItsCounts ==
    ASSUME Typing, Ledger, NEW p \in Procs, Close(p), NEW r \in Runs, target[p] = r,
           status'[r] \in {"succeeded", "partial"}
    PROVE  status'[r] = Verdict(r, LiveCounts(r)) /\ frozen'[r] = LiveCounts(r)
  <1> DEFINE zero == [s \in JobStates |-> 0]
  <1>1. pc[p] = "close" /\ "close" \in Staging
    BY DEF Close, At, Staging
  <1>2. status[r] \in {"running", "failed"}
    BY <1>1 DEF Ledger, StagedRunsAreOpen
  <1>3. /\ status \in [Runs -> ActiveStatuses \union TerminalStatuses \union {"none"}]
        /\ frozen \in [Runs -> Counts]
    BY DEF Typing, TypeOK
  <1>4. CASE Remembered(p) # {}
    <2>1. Finish(r, "awaiting")
      BY <1>4 DEF Close, Remembered
    <2>2. QED
      BY <2>1, <1>2, <1>3 DEF Finish, TerminalStatuses
  <1>5. CASE Remembered(p) = {}
    <2>1. Finish(r, Verdict(r, zero))
      BY <1>5 DEF Close, Remembered
    <2>2. recorded[r] = {}
      BY <1>1, <1>5 DEF Ledger, StagedJobsAreRemembered
    <2>3. \A s \in JobStates : {j \in recorded[r] : jobStatus[j] = s} = {}
      BY <2>2
    <2>4. LiveCounts(r) = zero
      BY <2>3, FS_EmptySet DEF LiveCounts
    <2>5. Finish(r, Verdict(r, LiveCounts(r)))
      BY <2>1, <2>4
    <2>6. CASE Verdict(r, LiveCounts(r)) = "awaiting"
      BY <2>5, <2>6, <1>2, <1>3 DEF Finish, TerminalStatuses
    <2>7. CASE Verdict(r, LiveCounts(r)) # "awaiting"
      BY <2>5, <2>7, <1>3 DEF Finish
    <2>8. QED
      BY <2>6, <2>7
  <1>6. QED
    BY <1>4, <1>5

LEMMA EveryStepJudges ==
    ASSUME Typing, Ledger, [Next]_vars, NEW r \in Runs, status'[r] \in {"succeeded", "partial"}
    PROVE  Judges(r)
  <1> USE DEF At
  <1>a. /\ {"stage", "enqueue", "record created", "record retried"} \subseteq Staging
        /\ {"mark rag", "close", "give up"} \subseteq Staging
    BY DEF Staging
  <1>b. \A p \in Procs : pc[p] \in Staging =>
            /\ target[p] \in Runs
            /\ status[target[p]] \in {"running", "failed"}
    BY DEF Ledger, StagedRunsAreOpen, Typing, TargetsAreRuns, Aimed
  <1>c. /\ status \in [Runs -> ActiveStatuses \union TerminalStatuses \union {"none"}]
        /\ frozen \in [Runs -> Counts]
    BY DEF Typing, TypeOK
  <1>1. ASSUME UNCHANGED itemFailed, status'[r] = status[r], frozen'[r] = frozen[r]
        PROVE  Judges(r)
    BY <1>1 DEF Judges
  <1>2. ASSUME NEW waiting, Settle(waiting), UNCHANGED itemFailed
        PROVE  Judges(r)
    BY <1>2 DEF Settle, Judges
  <1>3. ASSUME NEW p \in Procs,
               \/ BeginRecovery(p) \/ EndRecovery(p) \/ BeginRequest(p) \/ Gate(p)
               \/ ClaimNext(p) \/ AcquireLock(p) \/ EnqueueJob(p) \/ EndEnqueue(p)
               \/ RecordCreated(p) \/ RecordRetried(p) \/ EndRun(p)
               \/ Crash(p) \/ FinishFails(p)
        PROVE  Judges(r)
    <2>1. UNCHANGED <<status, itemFailed, frozen>>
      BY <1>3 DEF BeginRecovery, EndRecovery, BeginRequest, Gate, ClaimNext, AcquireLock,
         EnqueueJob, EndEnqueue, RecordCreated, RecordRetried, Record, EndRun, Crash,
         FinishFails, rowVars
    <2>2. QED
      BY <2>1, <1>1
  <1>4. ASSUME NEW p \in Procs, SettleBeforeRequest(p) PROVE Judges(r)
    BY <1>4, <1>2 DEF SettleBeforeRequest
  <1>5. ASSUME NEW p \in Procs, Recover(p) PROVE Judges(r)
    <2>1. SweepAndSettle /\ UNCHANGED itemFailed
      BY <1>5 DEF Recover
    <2>2. QED
      BY <2>1 DEF SweepAndSettle, In, Judges
  <1>6. ASSUME NEW p \in Procs, Sweep(p) \/ Claim(p) \/ Insert(p) PROVE Judges(r)
    <2>1. UNCHANGED <<itemFailed, frozen>>
      BY <1>6 DEF Sweep, Claim, Insert
    <2>2. \/ UNCHANGED status
          \/ status' = [q \in Runs |-> IF status[q] = "running" THEN "failed" ELSE status[q]]
          \/ \E q, s : status' = [status EXCEPT ![q] = s] /\ s \in {"queued", "running"}
      BY <1>6 DEF Sweep, Claim, Insert
    <2>3. status'[r] = status[r]
      BY <2>2, <1>c
    <2>4. QED
      BY <2>1, <2>3, <1>1
  <1>7. ASSUME NEW p \in Procs, RunStages(p) \/ MarkRag(p) PROVE Judges(r)
    <2>1. /\ UNCHANGED <<status, frozen>>
          /\ pc[p] \in Staging
          /\ itemFailed' \in {itemFailed, itemFailed \union {target[p]}}
      BY <1>7, <1>a DEF RunStages, MarkRag, ItemsFail
    <2>2. r # target[p]
      BY <2>1, <1>b
    <2>3. QED
      BY <2>1, <2>2 DEF Judges
  <1>8. ASSUME NEW p \in Procs, Close(p) \/ GiveUp(p), target[p] # r PROVE Judges(r)
    <2>1. pc[p] \in Staging /\ UNCHANGED itemFailed
      BY <1>8, <1>a DEF Close, GiveUp
    <2>2. PICK s \in TerminalStatuses \union {"awaiting"} : Finish(target[p], s)
      BY <1>8, VerdictIsStatus DEF Close, GiveUp, TerminalStatuses
    <2>3. status'[r] = status[r] /\ frozen'[r] = frozen[r]
      BY <2>1, <2>2, <1>8, <1>b, FinishCloses
    <2>4. QED
      BY <2>1, <2>3, <1>1
  <1>9. ASSUME NEW p \in Procs, Close(p), target[p] = r PROVE Judges(r)
    <2>1. UNCHANGED itemFailed
      BY <1>9 DEF Close
    <2>2. QED
      BY <1>9, <2>1, ClosedOnItsCounts DEF Judges
  <1>10. ASSUME NEW p \in Procs, GiveUp(p), target[p] = r PROVE FALSE
    BY <1>10, <1>c DEF GiveUp, Finish
  <1>11. ASSUME NEW j \in Jobs, JobStep(j) PROVE Judges(r)
    <2>1. UNCHANGED <<status, itemFailed, frozen>>
      BY <1>11 DEF JobStep, StartJob, FinishJob, SweepStaleJob, FinishLate, rowVars
    <2>2. QED
      BY <2>1, <1>1
  <1>12. ASSUME LoseLock \/ UNCHANGED vars PROVE Judges(r)
    <2>1. UNCHANGED <<status, itemFailed, frozen>>
      BY <1>12 DEF LoseLock, rowVars, vars
    <2>2. QED
      BY <2>1, <1>1
  <1>13. ASSUME PollStatus PROVE Judges(r)
    BY <1>13, <1>2 DEF PollStatus
  <1>14. QED
    BY <1>3, <1>4, <1>5, <1>6, <1>7, <1>8, <1>9, <1>10, <1>11, <1>12, <1>13 DEF Next, Step

LEMMA VerdictNext ==
    ASSUME Typing, Ledger, VerdictIsEarned, [Next]_vars
    PROVE  VerdictIsEarned'
  <1> SUFFICES ASSUME NEW r \in Runs, status'[r] \in {"succeeded", "partial"}
               PROVE  /\ frozen'[r] # Unset
                      /\ frozen'[r]["queued"] = 0 /\ frozen'[r]["running"] = 0
                      /\ status'[r] = "succeeded" =>
                           frozen'[r]["failed"] = 0 /\ r \notin itemFailed'
                      /\ status'[r] = "partial" =>
                           /\ frozen'[r]["succeeded"] > 0
                           /\ frozen'[r]["failed"] > 0 \/ r \in itemFailed'
    BY DEF VerdictIsEarned, In
  <1>1. Judges(r)
    BY EveryStepJudges
  <1>2. CASE status'[r] = status[r] /\ frozen'[r] = frozen[r]
    BY <1>1, <1>2 DEF Judges, VerdictIsEarned, In
  <1>3. CASE status'[r] = Verdict(r, LiveCounts(r)) /\ frozen'[r] = LiveCounts(r)
    <2> DEFINE c == LiveCounts(r)
    <2>1. c # Unset
      BY CountsAreCounts DEF Typing
    <2>2. /\ c["queued"] \in Nat /\ c["running"] \in Nat
          /\ c["succeeded"] \in Nat /\ c["failed"] \in Nat
      BY CountsAreBounded, PipelineAssumption DEF Typing, JobStates, JobActive, JobTerminal
    <2>3. /\ r \in itemFailed' <=> r \in itemFailed
      BY <1>1 DEF Judges
    <2> HIDE DEF c
    <2>4. status'[r] = Verdict(r, c) /\ frozen'[r] = c
      BY <1>3 DEF c
    <2>5. /\ c["queued"] = 0 /\ c["running"] = 0
          /\ Verdict(r, c) = "succeeded" => c["failed"] = 0 /\ r \notin itemFailed
          /\ Verdict(r, c) = "partial" =>
               /\ c["succeeded"] > 0
               /\ c["failed"] > 0 \/ r \in itemFailed
      BY <2>2, <2>4 DEF Verdict
    <2>6. QED
      BY <2>1, <2>3, <2>4, <2>5
  <1>4. QED
    BY <1>1, <1>2, <1>3 DEF Judges

-----------------------------------------------------------------------------
(* What the lock protects.                                                 *)

\* The lock is held by whoever is inside, and a staged run is `running`, as long
\* as no lock connection has dropped.
LockProtects ==
    /\ Typing
    /\ left["losses"] <= MaxLockLosses
    /\ LockHolds => LockedHoldTheLock /\ StagedRunsAreRunning

LEMMA LockProtectsInit == Init => LockProtects
  <1>1. "idle" \notin Locked /\ "idle" \notin Staging
    BY DEF Locked, Staging
  <1>2. Init => left["losses"] = MaxLockLosses
    BY DEF Init, Bounds
  <1>3. QED
    BY <1>1, <1>2, TypingInit, PipelineAssumption
       DEF Init, LockProtects, LockedHoldTheLock, StagedRunsAreRunning

LEMMA LockProtectsNext == LockProtects /\ [Next]_vars => LockProtects'
  <1> SUFFICES ASSUME LockProtects, [Next]_vars
               PROVE  LockProtects'
    OBVIOUS
  <1>1. Typing'
    BY TypingNext DEF LockProtects
  <1>2. left'["losses"] <= MaxLockLosses /\ (LockHolds' => LockHolds /\ ~LoseLock)
    BY LossesNext DEF LockProtects
  <1>3. LockHolds' => LockedHoldTheLock' /\ StagedRunsAreRunning'
    BY <1>2, LockNext, StagedNext DEF LockProtects
  <1>4. QED
    BY <1>1, <1>2, <1>3 DEF LockProtects

\* Only the orchestrator of a run writes over a verdict, and while it stages the
\* run there is none.
LEMMA VerdictsStay ==
    ASSUME Typing, StagedRunsAreRunning, [Next]_vars,
           NEW r \in Runs, status[r] \in TerminalStatuses
    PROVE  status'[r] = status[r] /\ frozen'[r] = frozen[r]
  <1> USE DEF At
  <1>a. "close" \in Staging /\ "give up" \in Staging
    BY DEF Staging
  <1>b. /\ status \in [Runs -> ActiveStatuses \union TerminalStatuses \union {"none"}]
        /\ frozen \in [Runs -> Counts]
        /\ \A p \in Procs : pc[p] \in Staging =>
             target[p] \in Runs /\ status[target[p]] = "running"
    BY DEF Typing, TypeOK, TargetsAreRuns, Aimed, StagedRunsAreRunning
  <1>c. status[r] \notin {"none", "queued", "running", "awaiting"}
    BY DEF TerminalStatuses
  <1>1. ASSUME NEW waiting, waiting \subseteq In({"awaiting"}), Settle(waiting)
        PROVE  status'[r] = status[r] /\ frozen'[r] = frozen[r]
    BY <1>1, <1>c DEF Settle, In
  <1>2. ASSUME NEW p \in Procs, Recover(p) \/ Sweep(p)
        PROVE  status'[r] = status[r] /\ frozen'[r] = frozen[r]
    BY <1>2, <1>c DEF Recover, SweepAndSettle, Sweep, In
  <1>3. ASSUME NEW p \in Procs, Insert(p)
        PROVE  status'[r] = status[r] /\ frozen'[r] = frozen[r]
    <2>1. ASSUME NEW q \in Runs, \A k \in Runs : status[k] = "none" <=> k >= q,
                 status' = [status EXCEPT ![q] = "queued"]
          PROVE  status'[r] = status[r]
      <3>1. status[q] = "none"
        BY <2>1, PipelineAssumption DEF Runs
      <3>2. QED
        BY <2>1, <3>1, <1>b, <1>c
    <2>2. QED
      BY <1>3, <2>1 DEF Insert
  <1>4. ASSUME NEW p \in Procs, Claim(p)
        PROVE  status'[r] = status[r] /\ frozen'[r] = frozen[r]
    BY <1>4, <1>b, <1>c DEF Claim
  <1>5. ASSUME NEW p \in Procs, Close(p) \/ GiveUp(p)
        PROVE  status'[r] = status[r] /\ frozen'[r] = frozen[r]
    <2>1. pc[p] \in Staging
      BY <1>5, <1>a DEF Close, GiveUp
    <2>2. PICK s \in TerminalStatuses \union {"awaiting"} : Finish(target[p], s)
      BY <1>5, VerdictIsStatus DEF Close, GiveUp, TerminalStatuses
    <2>3. r # target[p] /\ target[p] \in Runs
      BY <2>1, <1>b, <1>c
    <2>4. QED
      BY <2>2, <2>3, FinishCloses
  <1>6. ASSUME UNCHANGED <<status, frozen>>
        PROVE  status'[r] = status[r] /\ frozen'[r] = frozen[r]
    BY <1>6
  <1>7. ASSUME NEW p \in Procs,
               \/ BeginRecovery(p) \/ EndRecovery(p) \/ BeginRequest(p)
               \/ Gate(p) \/ ClaimNext(p) \/ AcquireLock(p)
               \/ RunStages(p) \/ EnqueueJob(p) \/ EndEnqueue(p) \/ RecordCreated(p)
               \/ RecordRetried(p) \/ MarkRag(p) \/ EndRun(p) \/ FinishFails(p) \/ Crash(p)
        PROVE  UNCHANGED <<status, frozen>>
    BY <1>7 DEF BeginRecovery, EndRecovery, BeginRequest, Gate, ClaimNext,
       AcquireLock, RunStages, EnqueueJob, EndEnqueue, RecordCreated, RecordRetried, Record,
       MarkRag, EndRun, FinishFails, Crash, rowVars
  <1>8. ASSUME NEW j \in Jobs, JobStep(j) PROVE UNCHANGED <<status, frozen>>
    BY <1>8 DEF JobStep, StartJob, FinishJob, SweepStaleJob, FinishLate, rowVars
  <1>9. (LoseLock \/ UNCHANGED vars) => UNCHANGED <<status, frozen>>
    BY DEF LoseLock, rowVars, vars
  <1>10. ASSUME PollStatus
         PROVE  status'[r] = status[r] /\ frozen'[r] = frozen[r]
    BY <1>10, <1>1 DEF PollStatus
  <1>11. ASSUME NEW p \in Procs, SettleBeforeRequest(p)
         PROVE  status'[r] = status[r] /\ frozen'[r] = frozen[r]
    BY <1>11, <1>1 DEF SettleBeforeRequest
  <1>12. QED
    BY <1>2, <1>3, <1>4, <1>5, <1>6, <1>7, <1>8, <1>9, <1>10, <1>11 DEF Next, Step

\* A staged run ends by its orchestrator's hand, which freezes its counts: a
\* sweep would need the lock that process holds.
LEMMA StagedRunsCloseFrozen ==
    ASSUME Typing, LockedHoldTheLock, StagedRunsAreRunning, [Next]_vars,
           NEW p \in Procs, pc[p] \in Staging,
           NEW r \in Runs, target[p] = r, status'[r] \in TerminalStatuses
    PROVE  frozen'[r] # Unset
  <1> USE DEF At
  <1>a. /\ Staging \subseteq Locked /\ {"recover", "sweep"} \subseteq Locked
        /\ "recover" \notin Staging /\ "sweep" \notin Staging
        /\ "close" \in Staging /\ "give up" \in Staging
    BY DEF Staging, Locked
  <1>b. /\ status \in [Runs -> ActiveStatuses \union TerminalStatuses \union {"none"}]
        /\ frozen \in [Runs -> Counts]
        /\ status[r] = "running"
        /\ "running" \notin TerminalStatuses /\ "queued" \notin TerminalStatuses
        /\ \A q \in Procs : pc[q] \in Staging => target[q] \in Runs
    BY DEF Typing, TypeOK, TargetsAreRuns, Aimed, StagedRunsAreRunning, TerminalStatuses
  <1>1. ASSUME status'[r] = status[r]
        PROVE  FALSE
    BY <1>1, <1>b
  <1>2. ASSUME NEW waiting, waiting \subseteq In({"awaiting"}), Settle(waiting)
        PROVE  FALSE
    BY <1>2, <1>b DEF Settle, In
  <1>3. ASSUME NEW q \in Procs, Recover(q) \/ Sweep(q)
        PROVE  FALSE
    <2>1. pc[q] \in Locked /\ pc[q] \notin Staging
      BY <1>3, <1>a DEF Recover, Sweep
    <2>2. q = p
      BY <2>1, <1>a, OneInside
    <2>3. QED
      BY <2>1, <2>2
  <1>4. ASSUME NEW q \in Procs, Insert(q) \/ Claim(q)
        PROVE  FALSE
    <2>1. \/ UNCHANGED status
          \/ \E k, s : status' = [status EXCEPT ![k] = s] /\ s \in {"queued", "running"}
      BY <1>4 DEF Insert, Claim
    <2>2. QED
      BY <2>1, <1>b
  <1>5. ASSUME NEW q \in Procs, Close(q) \/ GiveUp(q)
        PROVE  frozen'[r] # Unset
    <2>1. pc[q] \in Staging
      BY <1>5, <1>a DEF Close, GiveUp
    <2>2. PICK s \in TerminalStatuses \union {"awaiting"} : Finish(target[q], s)
      BY <1>5, VerdictIsStatus DEF Close, GiveUp, TerminalStatuses
    <2>3. q = p
      BY <2>1, <1>a, OneInside
    <2>4. LiveCounts(r) # Unset
      BY CountsAreCounts DEF Typing
    <2>5. s # "awaiting"
      BY <2>2, <2>3, <1>b DEF Finish, TerminalStatuses
    <2>6. frozen'[r] = LiveCounts(r)
      BY <2>2, <2>3, <2>5, <1>b DEF Finish
    <2>7. QED
      BY <2>4, <2>6
  <1>6. ASSUME NEW q \in Procs,
               \/ BeginRecovery(q) \/ EndRecovery(q) \/ BeginRequest(q)
               \/ Gate(q) \/ ClaimNext(q) \/ AcquireLock(q)
               \/ RunStages(q) \/ EnqueueJob(q) \/ EndEnqueue(q) \/ RecordCreated(q)
               \/ RecordRetried(q) \/ MarkRag(q) \/ EndRun(q) \/ FinishFails(q) \/ Crash(q)
        PROVE  UNCHANGED status
    BY <1>6 DEF BeginRecovery, EndRecovery, BeginRequest, Gate, ClaimNext,
       AcquireLock, RunStages, EnqueueJob, EndEnqueue, RecordCreated, RecordRetried, Record,
       MarkRag, EndRun, FinishFails, Crash, rowVars
  <1>7. ASSUME NEW j \in Jobs, JobStep(j) PROVE UNCHANGED status
    BY <1>7 DEF JobStep, StartJob, FinishJob, SweepStaleJob, FinishLate, rowVars
  <1>8. (LoseLock \/ UNCHANGED vars) => UNCHANGED status
    BY DEF LoseLock, rowVars, vars
  <1>9. PollStatus => FALSE
    BY <1>2 DEF PollStatus
  <1>10. ASSUME NEW q \in Procs, SettleBeforeRequest(q) PROVE FALSE
    BY <1>10, <1>2 DEF SettleBeforeRequest
  <1>11. QED
    BY <1>1, <1>3, <1>4, <1>5, <1>6, <1>7, <1>8, <1>9, <1>10 DEF Next, Step

-----------------------------------------------------------------------------

\* The variables of PipelineRun keep their types.
THEOREM PipelineTypeCorrect == Spec => []TypeOK
  <1>1. Typing => TypeOK
    BY DEF Typing
  <1>2. QED
    BY <1>1, TypingInit, TypingNext, PTL DEF Spec

\* At most one update is in progress, with or without the lock: the index
\* decides admission, and nothing else makes a row active.
THEOREM OneRunIsActive == Spec => []OneActiveRun
  <1> DEFINE IInv == Typing /\ TargetsExist /\ OneActiveRun
  <1>1. Init => IInv
    <2>1. "idle" \notin Aimed /\ "none" \notin ActiveStatuses
      BY DEF Aimed, Staging, ActiveStatuses
    <2>2. QED
      BY <2>1, TypingInit DEF Init, TargetsExist, OneActiveRun
  <1>2. IInv /\ [Next]_vars => IInv'
    <2> SUFFICES ASSUME IInv, [Next]_vars PROVE IInv'
      OBVIOUS
    <2>1. Admits
      BY EveryStepAdmits
    <2>2. OneActiveRun'
      BY <2>1 DEF Admits, OneActiveRun
    <2>3. QED
      BY <2>2, TypingNext, TargetsExistNext
  <1>3. QED
    BY <1>1, <1>2, PTL DEF Spec

\* While every lock connection has held, a recovery or a sweep never fails a run
\* that a live process is staging, and no two processes stage at once.
THEOREM SweepsSpareTheLiving == Spec => []SweepSparesTheLiving
  <1>1. LockProtects => SweepSparesTheLiving
    <2>1. Staging \subseteq Locked
      BY DEF Locked
    <2>2. QED
      BY <2>1, OneInside DEF LockProtects, SweepSparesTheLiving, StagedRunsAreRunning
  <1>2. QED
    BY <1>1, LockProtectsInit, LockProtectsNext, PTL DEF Spec

\* A run that waits for its jobs or has a verdict is credited with every job it
\* enqueued, whichever process, death or lost lock came between.
THEOREM EveryJobIsAttributed == Spec => []JobsAreAttributed
  <1> DEFINE IInv == Typing /\ Ledger /\ JobsAreAttributed
  <1>1. Init => IInv
    BY TypingInit, LedgerInit DEF Init, JobsAreAttributed, In
  <1>2. IInv /\ [Next]_vars => IInv'
    BY TypingNext, LedgerNext, AttributionNext
  <1>3. QED
    BY <1>1, <1>2, PTL DEF Spec

\* A verdict other than `failed` agrees with the job counts it was frozen with.
THEOREM VerdictsAreEarned == Spec => []VerdictIsEarned
  <1> DEFINE IInv == Typing /\ Ledger /\ VerdictIsEarned
  <1>1. Init => IInv
    BY TypingInit, LedgerInit DEF Init, VerdictIsEarned, In
  <1>2. IInv /\ [Next]_vars => IInv'
    BY TypingNext, LedgerNext, VerdictNext
  <1>3. QED
    BY <1>1, <1>2, PTL DEF Spec

\* A verdict stands, and the counts reported with it do.
THEOREM VerdictsStand == Spec => HistoryStands
  <1>1. LockProtects /\ [Next]_vars =>
          [LockHolds' =>
             \A r \in In(TerminalStatuses) :
                 /\ status'[r] = status[r]
                 /\ frozen[r] # Unset => Report(r)' = Report(r)]_vars
    <2> SUFFICES ASSUME LockProtects, [Next]_vars, LockHolds',
                        NEW r \in In(TerminalStatuses)
                 PROVE  /\ status'[r] = status[r]
                        /\ frozen[r] # Unset => Report(r)' = Report(r)
      OBVIOUS
    <2>1. Typing /\ StagedRunsAreRunning
      BY LossesNext DEF LockProtects
    <2>2. r \in Runs /\ status[r] \in TerminalStatuses
      BY DEF In
    <2>3. status'[r] = status[r] /\ frozen'[r] = frozen[r]
      BY <2>1, <2>2, VerdictsStay
    <2>4. frozen[r] # Unset => Report(r) = frozen[r] /\ Report(r)' = frozen'[r]
      BY <2>2, <2>3 DEF Report, TerminalStatuses
    <2>5. QED
      BY <2>3, <2>4
  <1>2. QED
    BY <1>1, LockProtectsInit, LockProtectsNext, PTL DEF Spec, HistoryStands

\* A live orchestrator never leaves a run ended without its counts.
THEOREM OrchestratorsCloseFrozen == Spec => LivingRunClosesFrozen
  <1>1. LockProtects /\ [Next]_vars =>
          [LockHolds' =>
             \A p \in Procs :
                 /\ pc[p] \in Staging
                 /\ status[target[p]] = "running"
                 /\ status'[target[p]] \in TerminalStatuses
                 => frozen'[target[p]] # Unset]_vars
    <2> SUFFICES ASSUME LockProtects, [Next]_vars, LockHolds', NEW p \in Procs,
                        pc[p] \in Staging, status'[target[p]] \in TerminalStatuses
                 PROVE  frozen'[target[p]] # Unset
      OBVIOUS
    <2>1. Typing /\ LockedHoldTheLock /\ StagedRunsAreRunning
      BY LossesNext DEF LockProtects
    <2>2. target[p] \in Runs
      BY <2>1 DEF Typing, TargetsAreRuns, Aimed
    <2>3. QED
      BY <2>1, <2>2, StagedRunsCloseFrozen
  <1>2. QED
    BY <1>1, LockProtectsInit, LockProtectsNext, PTL DEF Spec, LivingRunClosesFrozen
=============================================================================
