-------------------------- MODULE RetentionProofs ---------------------------
(***************************************************************************)
(* Proofs about Retention, for any number of replicas and any faults: how  *)
(* a replica stops.                                                        *)
(***************************************************************************)
EXTENDS Retention, TLAPS

\* Why a background task returned: it was told to, or something broke that
\* cancels the group when it is looked at.
ReturnExplained == \A r \in Replica :
    task[r]["cleaner"] = "returned" => BackgroundDone(r) \/ broke[r]

\* A process that is gone leaves nothing but its lock row.
GoneIsClean == \A r \in Replica : ~live[r] =>
    /\ ~stop[r] /\ ~quit[r] /\ ~cancelled[r] /\ ~failed[r] /\ ~broke[r]
    /\ \A t \in Task : task[r][t] = "done"

RetentionInv == RetentionTypeOK /\ ReturnExplained /\ GoneIsClean /\ DrainWindow /\ CleanExit

-----------------------------------------------------------------------------
(* Type correctness *)

Step(r) ==
    \/ Start(r) \/ Terminate(r) \/ Internal(r)
    \/ ServerBreaks(r) \/ BackgroundBreaks(r) \/ Crash(r)
    \/ Acquire(r) \/ TakeOver(r) \/ LoseLock(r)
    \/ Delete(r) \/ DeleteFails(r) \/ Tick(r)

\* The steps that leave the tasks of all replicas alone.
LockStep(r) ==
    Acquire(r) \/ TakeOver(r) \/ LoseLock(r) \/ Delete(r) \/ DeleteFails(r) \/ Tick(r)

LEMMA NextCases ==
  ASSUME RetentionNext
  PROVE  Age \/ \E r \in Replica : Step(r)
BY DEF RetentionNext, Step

LEMMA FaultType == ASSUME faults \in 0..MaxFaults, Fault PROVE faults' \in 0..MaxFaults
BY RetentionAssumption DEF Fault

LEMMA LockStepInv ==
  ASSUME RetentionInv, NEW r \in Replica, LockStep(r)
  PROVE  RetentionInv'
<1>1. UNCHANGED processVars
  BY DEF LockStep, Acquire, TakeOver, LoseLock, Delete, DeleteFails, Tick
<1>2. /\ job' \in [Replica -> {"none", "idle"} \cup Table]
      /\ \A s \in Replica : job'[s] # "none" => job[s] # "none" \/ (s = r /\ Waiting(r))
  BY DEF LockStep, Acquire, TakeOver, LoseLock, Delete, DeleteFails, Tick,
         RetentionInv, RetentionTypeOK, Table
<1>3. holder' \in Replica \cup {NoReplica} /\ expired' \subseteq Table
  BY DEF LockStep, Acquire, TakeOver, LoseLock, Delete, DeleteFails, Tick,
         RetentionInv, RetentionTypeOK
<1>4. faults' \in 0..MaxFaults
  BY FaultType DEF LockStep, Acquire, TakeOver, LoseLock, Delete, DeleteFails, Tick,
         RetentionInv, RetentionTypeOK, FaultWhenSweeping
<1>5. RetentionTypeOK'
  BY <1>1, <1>2, <1>3, <1>4 DEF RetentionInv, RetentionTypeOK, processVars, Waiting
<1> QED
  BY <1>1, <1>5 DEF RetentionInv, ReturnExplained, GoneIsClean, DrainWindow, CleanExit,
         processVars, BackgroundDone

-----------------------------------------------------------------------------
(* Stopping *)

LEMMA DoneType ==
  ASSUME NEW F, F \in [Replica -> [Task -> {"running", "returned", "done"}]],
         NEW r \in Replica, NEW t \in Task, NEW s \in {"running", "returned", "done"}
  PROVE  /\ [F EXCEPT ![r][t] = s] \in [Replica -> [Task -> {"running", "returned", "done"}]]
         /\ [F EXCEPT ![r][t] = s][r][t] = s
         /\ \A q \in Replica, u \in Task :
               (q # r \/ u # t) => [F EXCEPT ![r][t] = s][q][u] = F[q][u]
OBVIOUS

LEMMA GoneInv ==
  ASSUME RetentionInv, NEW r \in Replica, Exit(r) \/ Crash(r)
  PROVE  RetentionInv'
<1>1. Gone(r) /\ live[r] /\ expired' = expired /\ holder' = holder
  BY DEF Exit, Crash
<1>2. /\ job' \in [Replica -> {"none", "idle"} \cup Table]
      /\ job'[r] = "none"
      /\ \A q \in Replica : q # r => job'[q] = job[q]
  BY DEF Exit, Crash, RetentionInv, RetentionTypeOK, Task
<1>3. faults' \in 0..MaxFaults
  BY FaultType DEF Exit, Crash, RetentionInv, RetentionTypeOK
<1>4. RetentionTypeOK'
  BY <1>1, <1>2, <1>3 DEF RetentionInv, RetentionTypeOK, Gone
<1> QED
  BY <1>1, <1>4 DEF RetentionInv, RetentionTypeOK, Gone, ReturnExplained, GoneIsClean,
         DrainWindow, CleanExit, BackgroundDone, Task

LEMMA StartInv ==
  ASSUME RetentionInv, NEW r \in Replica, Start(r)
  PROVE  RetentionInv'
<1>1. RetentionTypeOK'
  BY DEF Start, RetentionInv, RetentionTypeOK, Task
<1> QED
  BY <1>1 DEF Start, RetentionInv, RetentionTypeOK, ReturnExplained, GoneIsClean,
         DrainWindow, CleanExit, BackgroundDone, Task

LEMMA StopInv ==
  ASSUME RetentionInv, NEW r \in Replica, Terminate(r) \/ Quit(r)
  PROVE  RetentionInv'
<1>1. UNCHANGED <<live, task, cancelled, failed, broke, job, holder, expired>> /\ live[r]
  BY DEF Terminate, Quit
<1>2. /\ stop' \in [Replica -> BOOLEAN] /\ quit' \in [Replica -> BOOLEAN]
      /\ \A q \in Replica : (stop[q] => stop'[q]) /\ (quit[q] => quit'[q])
      /\ \A q \in Replica : q # r => stop'[q] = stop[q] /\ quit'[q] = quit[q]
  BY DEF Terminate, Quit, RetentionInv, RetentionTypeOK
<1>3. faults' \in 0..MaxFaults
  BY FaultType DEF Terminate, Quit, FaultWhenSweeping, RetentionInv, RetentionTypeOK
<1>4. RetentionTypeOK'
  BY <1>1, <1>2, <1>3 DEF RetentionInv, RetentionTypeOK
<1> QED
  BY <1>1, <1>2, <1>4 DEF RetentionInv, ReturnExplained, GoneIsClean, DrainWindow,
         CleanExit, BackgroundDone

\* What the steps of a task have in common: one task of one live replica
\* changes, and the group is cancelled and has an error only with a reason.
LEMMA TaskInv ==
  ASSUME RetentionInv, NEW r \in Replica, NEW t \in Task,
         NEW s \in {"running", "returned", "done"},
         live[r], Becomes(r, t, s), UNCHANGED <<live, stop, quit, expired>>,
         faults' \in 0..MaxFaults,
         cancelled' \in [Replica -> BOOLEAN], failed' \in [Replica -> BOOLEAN],
         broke' \in [Replica -> BOOLEAN],
         \A q \in Replica : /\ q # r => /\ cancelled'[q] = cancelled[q]
                                       /\ failed'[q] = failed[q] /\ broke'[q] = broke[q]
                            /\ cancelled[q] => cancelled'[q]
                            /\ broke[q] => broke'[q],
         cancelled'[r] => cancelled[r] \/ quit[r] \/ broke'[r],
         failed'[r] => failed[r] \/ broke'[r],
         (t = "server" /\ s # "running") => cancelled'[r],
         (t = "cleaner" /\ s = "returned") => BackgroundDone(r) \/ broke'[r],
         t = "cleaner" => s # "running" /\ job' = [job EXCEPT ![r] = "none"],
         t # "cleaner" => job' = job,
         holder' \in Replica \cup {NoReplica}
  PROVE  RetentionInv'
<1>1. /\ task' \in [Replica -> [Task -> {"running", "returned", "done"}]]
      /\ task'[r][t] = s
      /\ \A q \in Replica, u \in Task : (q # r \/ u # t) => task'[q][u] = task[q][u]
  BY DoneType DEF RetentionInv, RetentionTypeOK, Becomes
<1>2. "cleaner" \in Task /\ "server" \in Task
  BY DEF Task
<1>3. /\ job' \in [Replica -> {"none", "idle"} \cup Table]
      /\ t = "cleaner" => job'[r] = "none"
      /\ \A q \in Replica : (q # r \/ t # "cleaner") => job'[q] = job[q]
  BY DEF RetentionInv, RetentionTypeOK
<1>4. RetentionTypeOK'
  BY <1>1, <1>2, <1>3 DEF RetentionInv, RetentionTypeOK
<1>5. ReturnExplained'
  BY <1>1, <1>2 DEF RetentionInv, ReturnExplained, BackgroundDone
<1>6. GoneIsClean'
  <2> SUFFICES ASSUME NEW q \in Replica, ~live[q]
               PROVE  /\ ~stop[q] /\ ~quit[q] /\ ~cancelled'[q] /\ ~failed'[q] /\ ~broke'[q]
                      /\ \A u \in Task : task'[q][u] = "done"
    BY DEF GoneIsClean
  <2>1. q # r
    OBVIOUS
  <2> QED
    BY <1>1, <2>1 DEF RetentionInv, GoneIsClean
<1>7. DrainWindow'
  BY <1>1, <1>2 DEF RetentionInv, DrainWindow
<1>8. CleanExit'
  BY DEF RetentionInv, CleanExit
<1> QED
  BY <1>4, <1>5, <1>6, <1>7, <1>8 DEF RetentionInv

LEMMA ServerInv ==
  ASSUME RetentionInv, NEW r \in Replica, ServerReturns(r) \/ ServerBreaks(r)
  PROVE  RetentionInv'
<1>1. live[r]
  BY DEF ServerReturns, ServerBreaks, RetentionInv, GoneIsClean, Task
<1>2. /\ Becomes(r, "server", "done")
      /\ UNCHANGED <<live, stop, quit, job, holder, expired>>
      /\ cancelled' = [cancelled EXCEPT ![r] = TRUE]
  BY DEF ServerReturns, ServerBreaks
<1>3. faults' \in 0..MaxFaults
  BY FaultType DEF ServerReturns, ServerBreaks, RetentionInv, RetentionTypeOK
<1>4. CASE ServerReturns(r)
  <2>1. UNCHANGED <<failed, broke>> /\ ServerDone(r)
    BY <1>4 DEF ServerReturns
  <2> QED
    BY <1>1, <1>2, <1>3, <2>1, TaskInv DEF ServerDone, RetentionInv, RetentionTypeOK, Task
<1>5. CASE ServerBreaks(r)
  <2>1. failed' = [failed EXCEPT ![r] = TRUE] /\ broke' = [broke EXCEPT ![r] = TRUE]
    BY <1>5 DEF ServerBreaks
  <2> QED
    BY <1>1, <1>2, <1>3, <2>1, TaskInv DEF RetentionInv, RetentionTypeOK, Task
<1> QED
  BY <1>4, <1>5

LEMMA ReturnsInv ==
  ASSUME RetentionInv, NEW r \in Replica, BackgroundReturns(r) \/ BackgroundBreaks(r)
  PROVE  RetentionInv'
<1>1. PICK t \in {"pubsub", "cleaner"} :
        /\ task[r][t] = "running" /\ Returns(r, t)
        /\ IF BackgroundReturns(r)
           THEN BackgroundDone(r) /\ broke' = broke
           ELSE broke' = [broke EXCEPT ![r] = @ \/ t = "cleaner"]
  BY DEF BackgroundReturns, BackgroundBreaks
<1>2. live[r]
  BY <1>1 DEF RetentionInv, GoneIsClean, Task
<1>3. UNCHANGED <<live, stop, quit, cancelled, failed, expired>>
  BY DEF BackgroundReturns, BackgroundBreaks
<1>4. faults' \in 0..MaxFaults
  BY FaultType DEF BackgroundReturns, BackgroundBreaks, RetentionInv, RetentionTypeOK
<1>5. /\ t \in Task /\ Becomes(r, t, "returned")
      /\ t = "cleaner" => job' = [job EXCEPT ![r] = "none"]
      /\ t # "cleaner" => job' = job
      /\ holder' \in Replica \cup {NoReplica}
  BY <1>1 DEF Returns, LeaveJob, Task, RetentionInv, RetentionTypeOK
<1>6. /\ broke' \in [Replica -> BOOLEAN]
      /\ \A q \in Replica : (q # r => broke'[q] = broke[q]) /\ (broke[q] => broke'[q])
      /\ t = "cleaner" => BackgroundDone(r) \/ broke'[r]
  BY <1>1 DEF RetentionInv, RetentionTypeOK
<1> QED
  BY <1>2, <1>3, <1>4, <1>5, <1>6, TaskInv DEF RetentionInv, RetentionTypeOK

LEMMA StopScopedInv ==
  ASSUME RetentionInv, NEW r \in Replica, StopScoped(r)
  PROVE  RetentionInv'
<1>1. PICK t \in {"pubsub", "cleaner"} :
        /\ task[r][t] = "returned"
        /\ \/ BackgroundDone(r) /\ Clean(r, t)
           \/ ~BackgroundDone(r) /\ (Retried(r, t) \/ FailedTask(r, t))
  BY DEF StopScoped
<1>2. live[r] /\ t \in Task
  BY <1>1 DEF RetentionInv, GoneIsClean, Task
<1>3. UNCHANGED <<live, stop, quit, broke, job, holder, expired, faults>>
  BY DEF StopScoped
<1>4. t = "cleaner" => job' = [job EXCEPT ![r] = "none"]
  BY <1>1, <1>3 DEF RetentionInv, RetentionTypeOK
<1>5. CASE Clean(r, t) \/ Retried(r, t)
  BY <1>1, <1>2, <1>3, <1>4, <1>5, TaskInv
  DEF Clean, Retried, RetentionInv, RetentionTypeOK
<1>6. CASE FailedTask(r, t) /\ ~BackgroundDone(r)
  <2>1. t = "cleaner" /\ broke[r]
    BY <1>1, <1>6 DEF FailedTask, RetentionInv, ReturnExplained
  <2> QED
    BY <1>2, <1>3, <1>4, <1>6, <2>1, TaskInv DEF FailedTask, RetentionInv, RetentionTypeOK
<1> QED
  BY <1>1, <1>5, <1>6

-----------------------------------------------------------------------------
(* The theorems *)

LEMMA InitInv == RetentionInit => RetentionInv
BY RetentionAssumption DEF RetentionInit, RetentionInv, RetentionTypeOK, ReturnExplained,
   GoneIsClean, DrainWindow, CleanExit, Task

LEMMA StepInv == RetentionInv /\ [RetentionNext]_retentionVars => RetentionInv'
<1> SUFFICES ASSUME RetentionInv, [RetentionNext]_retentionVars PROVE RetentionInv'
  OBVIOUS
<1>1. CASE UNCHANGED retentionVars
  BY <1>1 DEF retentionVars, processVars, RetentionInv, RetentionTypeOK, ReturnExplained,
     GoneIsClean, DrainWindow, CleanExit, BackgroundDone
<1>2. CASE Age
  BY <1>2 DEF Age, processVars, RetentionInv, RetentionTypeOK, ReturnExplained,
     GoneIsClean, DrainWindow, CleanExit, BackgroundDone
<1>3. ASSUME NEW r \in Replica, Step(r) PROVE RetentionInv'
  BY <1>3, LockStepInv, GoneInv, StartInv, StopInv, ServerInv, ReturnsInv, StopScopedInv
  DEF Step, LockStep, Internal
<1> QED
  BY <1>1, <1>2, <1>3, NextCases

LEMMA RetentionInvariant == RetentionSpec => []RetentionInv
  BY InitInv, StepInv, PTL DEF RetentionSpec

\* Replicas, their tasks and the job keep their types; a job only runs inside of
\* the cleaner of a live replica.
THEOREM RetentionTypeCorrect == RetentionSpec => []RetentionTypeOK
<1>1. RetentionInv => RetentionTypeOK
  BY DEF RetentionInv
<1> QED
  BY <1>1, RetentionInvariant, PTL

\* A stopped replica serves until its deadline unless something broke.
THEOREM StopsDrain == RetentionSpec => []DrainWindow
<1>1. RetentionInv => DrainWindow
  BY DEF RetentionInv
<1> QED
  BY <1>1, RetentionInvariant, PTL

\* Only a real failure makes a process exit with an error.
THEOREM StopsAreClean == RetentionSpec => []CleanExit
<1>1. RetentionInv => CleanExit
  BY DEF RetentionInv
<1> QED
  BY <1>1, RetentionInvariant, PTL
=============================================================================
