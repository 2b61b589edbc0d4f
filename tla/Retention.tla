----------------------------- MODULE Retention ------------------------------
(***************************************************************************)
(* Replicas of the service, their tasks and their retention cleaner: Run   *)
(* and stopScoped (internal/app.go), RunCleaner (internal/store.go) and    *)
(* runUser (cmd/user/main.go).  A replica is told to stop, breaks, crashes *)
(* and is started again; the cleaner runs on the one that holds the job    *)
(* lock.                                                                   *)
(*                                                                         *)
(* The task group, the graceful shutdown and the job lock are a library's. *)
(* They are modelled as app.go and store.go use and describe them: the     *)
(* group is cancelled when a required task returns or another one fails,   *)
(* a retried task is started again; stop is requested at SIGTERM and quit  *)
(* ten seconds later; a lock whose holder is not seen for a minute is      *)
(* taken over, and the holder's run is cancelled once it notices.          *)
(***************************************************************************)
EXTENDS Naturals

CONSTANTS
    Replica,
    NoReplica,  \* nobody holds the job lock
    MaxFaults   \* crashes, failures, and sweeps cut short (bound)

ASSUME RetentionAssumption == NoReplica \notin Replica /\ MaxFaults \in Nat

Task  == {"server", "pubsub", "cleaner"}
Table == {"message", "inbox_message"}

VARIABLES
    live,       \* the process is there
    stop,       \* a graceful stop is requested
    quit,       \* and its deadline has passed
    task,       \* what each task of the group is doing
    cancelled,  \* the group's context is cancelled
    failed,     \* the group has an error to return from Wait
    broke,      \* something failed that was not being stopped (history)
    job,        \* what the cleaner's job does, "none" without the lock
    holder,     \* the holder in the job_lock row
    expired,    \* the tables with messages past their retention
    faults      \* faults so far

processVars   == <<live, stop, quit, task, cancelled, failed, broke>>
retentionVars == <<processVars, job, holder, expired, faults>>

\* Type correctness; the job only runs inside of the cleaner task.
RetentionTypeOK ==
    /\ live \in [Replica -> BOOLEAN]
    /\ stop \in [Replica -> BOOLEAN] /\ quit \in [Replica -> BOOLEAN]
    /\ task \in [Replica -> [Task -> {"running", "returned", "done"}]]
    /\ cancelled \in [Replica -> BOOLEAN] /\ failed \in [Replica -> BOOLEAN]
    /\ broke \in [Replica -> BOOLEAN]
    /\ job \in [Replica -> {"none", "idle"} \cup Table]
    /\ holder \in Replica \cup {NoReplica}
    /\ expired \subseteq Table
    /\ faults \in 0..MaxFaults
    /\ \A r \in Replica : job[r] # "none" => live[r] /\ task[r]["cleaner"] = "running"

Fault == faults < MaxFaults /\ faults' = faults + 1

\* A fault only if it cuts a sweep of r short.
FaultWhenSweeping(r) == IF job[r] \in Table THEN Fault ELSE UNCHANGED faults

-----------------------------------------------------------------------------
(* The tasks of a replica *)

Becomes(r, t, s) == task' = [task EXCEPT ![r][t] = s]

\* The contexts that CancelOnQuit and CancelOnStop derive are done.
ServerDone(r)     == quit[r] \/ cancelled[r]
BackgroundDone(r) == stop[r] \/ cancelled[r]

\* The job ends with its task and hands the lock back.
LeaveJob(r) ==
    /\ job' = [job EXCEPT ![r] = "none"]
    /\ holder' = IF holder = r THEN NoReplica ELSE holder

\* runUser and Run, up to Wait.  What fails before the tasks are started keeps
\* the process from starting.
Start(r) ==
    /\ ~live[r]
    /\ live' = [live EXCEPT ![r] = TRUE]
    /\ task' = [task EXCEPT ![r] = [t \in Task |-> "running"]]
    /\ UNCHANGED <<stop, quit, cancelled, failed, broke, job, holder, expired, faults>>

\* SIGTERM, at a deploy.
Terminate(r) ==
    /\ live[r] /\ ~stop[r]
    /\ stop' = [stop EXCEPT ![r] = TRUE]
    /\ FaultWhenSweeping(r)
    /\ UNCHANGED <<live, quit, task, cancelled, failed, broke, job, holder, expired>>

Quit(r) ==
    /\ live[r] /\ stop[r] /\ ~quit[r]
    /\ quit' = [quit EXCEPT ![r] = TRUE]
    /\ UNCHANGED <<live, stop, task, cancelled, failed, broke, job, holder, expired, faults>>

ServerStops(r) ==
    /\ task[r]["server"] = "running" /\ BackgroundDone(r)
    /\ Becomes(r, "server", "done")
    /\ cancelled' = [cancelled EXCEPT ![r] = TRUE]
    /\ UNCHANGED <<live, stop, quit, failed, broke, job, holder, expired, faults>>
\* The server is required: its return cancels the group.
ServerReturns(r) ==
    /\ task[r]["server"] = "running" /\ ServerDone(r)
    /\ Becomes(r, "server", "done")
    /\ cancelled' = [cancelled EXCEPT ![r] = TRUE]
    /\ UNCHANGED <<live, stop, quit, failed, broke, job, holder, expired, faults>>

\* It cannot listen, or stops to.
ServerBreaks(r) ==
    /\ live[r] /\ task[r]["server"] = "running" /\ ~ServerDone(r)
    /\ Fault
    /\ Becomes(r, "server", "done")
    /\ cancelled' = [cancelled EXCEPT ![r] = TRUE]
    /\ failed' = [failed EXCEPT ![r] = TRUE]
    /\ broke' = [broke EXCEPT ![r] = TRUE]
    /\ UNCHANGED <<live, stop, quit, job, holder, expired>>

\* The subscriber or the cleaner returns, in general with an error.
Returns(r, t) ==
    /\ Becomes(r, t, "returned")
    /\ IF t = "cleaner" THEN LeaveJob(r) ELSE UNCHANGED <<job, holder>>

\* It has been told to.
BackgroundReturns(r) ==
    /\ BackgroundDone(r)
    /\ \E t \in {"pubsub", "cleaner"} : task[r][t] = "running" /\ Returns(r, t)
    /\ UNCHANGED <<live, stop, quit, cancelled, failed, broke, expired, faults>>

\* The LISTEN connection is reset, or the job lock gives up.
BackgroundBreaks(r) ==
    /\ live[r] /\ ~BackgroundDone(r)
    /\ Fault
    /\ \E t \in {"pubsub", "cleaner"} :
          /\ task[r][t] = "running"
          /\ Returns(r, t)
          /\ broke' = [broke EXCEPT ![r] = @ \/ t = "cleaner"]
    /\ UNCHANGED <<live, stop, quit, cancelled, failed, expired>>

Clean(r, t) == Becomes(r, t, "done") /\ UNCHANGED <<cancelled, failed>>

Retried(r, t) ==
    /\ t = "pubsub"
    /\ Becomes(r, t, "running")
    /\ UNCHANGED <<cancelled, failed>>

FailedTask(r, t) ==
    /\ t = "cleaner"
    /\ Becomes(r, t, "done")
    /\ cancelled' = [cancelled EXCEPT ![r] = TRUE]
    /\ failed' = [failed EXCEPT ![r] = TRUE]

StopUnscoped(r) ==
    /\ \E t \in {"pubsub", "cleaner"} :
          /\ task[r][t] = "returned"
          /\ \/ t = "pubsub" /\ BackgroundDone(r) /\ Clean(r, t)
             \/ ~BackgroundDone(r) /\ Retried(r, t)
             \/ FailedTask(r, t)
    /\ UNCHANGED <<live, stop, quit, broke, job, holder, expired, faults>>
StopSilently(r) ==
    /\ \E t \in {"pubsub", "cleaner"} :
          /\ task[r][t] = "returned"
          /\ \/ (t = "cleaner" \/ BackgroundDone(r)) /\ Clean(r, t)
             \/ ~BackgroundDone(r) /\ Retried(r, t)
    /\ UNCHANGED <<live, stop, quit, broke, job, holder, expired, faults>>
\* stopScoped: an error counts unless the context was done by the time it is
\* looked at.  It makes GoWithRetries start the subscriber again, and Go fail
\* the group.
StopScoped(r) ==
    /\ \E t \in {"pubsub", "cleaner"} :
          /\ task[r][t] = "returned"
          /\ \/ BackgroundDone(r) /\ Clean(r, t)
             \/ ~BackgroundDone(r) /\ (Retried(r, t) \/ FailedTask(r, t))
    /\ UNCHANGED <<live, stop, quit, broke, job, holder, expired, faults>>

Gone(r) ==
    /\ live' = [live EXCEPT ![r] = FALSE]
    /\ stop' = [stop EXCEPT ![r] = FALSE]
    /\ quit' = [quit EXCEPT ![r] = FALSE]
    /\ task' = [task EXCEPT ![r] = [t \in Task |-> "done"]]
    /\ cancelled' = [cancelled EXCEPT ![r] = FALSE]
    /\ failed' = [failed EXCEPT ![r] = FALSE]
    /\ broke' = [broke EXCEPT ![r] = FALSE]

\* Wait returns when all tasks are done, and the process exits.
Exit(r) ==
    /\ live[r] /\ \A t \in Task : task[r][t] = "done"
    /\ Gone(r)
    /\ UNCHANGED <<job, holder, expired, faults>>

\* The process is killed.  Its lock row stays.
Crash(r) ==
    /\ live[r]
    /\ Fault
    /\ Gone(r)
    /\ job' = [job EXCEPT ![r] = "none"]
    /\ UNCHANGED <<holder, expired>>

-----------------------------------------------------------------------------
(* The job lock *)

\* A replica whose cleaner waits for the lock.
Waiting(r) ==
    live[r] /\ task[r]["cleaner"] = "running" /\ ~BackgroundDone(r) /\ job[r] = "none"

\* The row is free, or not touched any more.
Available == \A h \in Replica : h = holder => job[h] = "none"

AcquireIdle(r) ==
    /\ Waiting(r)
    /\ Available
    /\ holder' = r
    /\ job' = [job EXCEPT ![r] = "idle"]
    /\ UNCHANGED <<processVars, expired, faults>>
\* The job sweeps as soon as it holds the lock.
Acquire(r) ==
    /\ Waiting(r)
    /\ Available
    /\ holder' = r
    /\ job' = [job EXCEPT ![r] = "message"]
    /\ UNCHANGED <<processVars, expired, faults>>

\* The holder is alive, and has not managed to touch its row for a minute.
TakeOver(r) ==
    /\ Waiting(r)
    /\ \E h \in Replica : h = holder /\ job[h] # "none" /\ FaultWhenSweeping(h)
    /\ holder' = r
    /\ job' = [job EXCEPT ![r] = "message"]
    /\ UNCHANGED <<processVars, expired>>

\* A replica notices that its lock is gone, and waits for it again.
LoseLock(r) ==
    /\ job[r] # "none" /\ holder # r
    /\ job' = [job EXCEPT ![r] = "none"]
    /\ UNCHANGED <<processVars, holder, expired, faults>>

-----------------------------------------------------------------------------
(* The job *)

\* removeOldMessages: one DELETE, then the other, then back to the ticker.
Delete(r) ==
    /\ job[r] \in Table
    /\ expired' = expired \ {job[r]}
    /\ job' = [job EXCEPT ![r] = IF @ = "message" THEN "inbox_message" ELSE "idle"]
    /\ UNCHANGED <<processVars, holder, faults>>

\* A DELETE fails and the rest of the sweep with it.  It is logged, and left to
\* the next tick.
DeleteFails(r) ==
    /\ job[r] \in Table
    /\ Fault
    /\ job' = [job EXCEPT ![r] = "idle"]
    /\ UNCHANGED <<processVars, holder, expired>>

\* case <-ticker.C
Tick(r) ==
    /\ job[r] = "idle"
    /\ job' = [job EXCEPT ![r] = "message"]
    /\ UNCHANGED <<processVars, holder, expired, faults>>

\* Messages get too old.
Age ==
    /\ \E t \in Table : expired' = expired \cup {t}
    /\ UNCHANGED <<processVars, job, holder, faults>>

-----------------------------------------------------------------------------
RetentionInit ==
    /\ live = [r \in Replica |-> FALSE]
    /\ stop = [r \in Replica |-> FALSE] /\ quit = [r \in Replica |-> FALSE]
    /\ task = [r \in Replica |-> [t \in Task |-> "done"]]
    /\ cancelled = [r \in Replica |-> FALSE] /\ failed = [r \in Replica |-> FALSE]
    /\ broke = [r \in Replica |-> FALSE]
    /\ job = [r \in Replica |-> "none"]
    /\ holder = NoReplica /\ expired = {} /\ faults = 0

Internal(r) ==
    \/ Quit(r) \/ ServerReturns(r) \/ BackgroundReturns(r) \/ StopScoped(r) \/ Exit(r)

RetentionNext ==
    \/ \E r \in Replica :
          \/ Start(r) \/ Terminate(r) \/ Internal(r)
          \/ ServerBreaks(r) \/ BackgroundBreaks(r) \/ Crash(r)
          \/ Acquire(r) \/ TakeOver(r) \/ LoseLock(r)
          \/ Delete(r) \/ DeleteFails(r) \/ Tick(r)
    \/ Age

RetentionSpec == RetentionInit /\ [][RetentionNext]_retentionVars

\* Replicas are started again, tasks come to their end when told to, statements
\* return and tickers tick.  A replica lives longer than the twenty seconds
\* between two looks at the lock, so that a free lock is taken in the end
\* however often replicas are replaced.
RetentionFairSpec ==
    /\ RetentionSpec
    /\ \A r \in Replica : /\ WF_retentionVars(Start(r))
                          /\ WF_retentionVars(Internal(r))
                          /\ WF_retentionVars(Delete(r))
                          /\ WF_retentionVars(Tick(r))
                          /\ WF_retentionVars(LoseLock(r))
    /\ SF_retentionVars(\E r \in Replica : Acquire(r))

-----------------------------------------------------------------------------
(* Properties *)

\* The drain window: between a stop and its deadline the server goes on serving,
\* while the background tasks come to their end, unless something broke.
DrainWindow ==
    \A r \in Replica :
        (live[r] /\ ~quit[r] /\ ~broke[r])
            => task[r]["server"] = "running" /\ ~cancelled[r]

\* A process that is stopped exits without an error, however its tasks return.
CleanExit == \A r \in Replica : failed[r] => broke[r]

\* A replica that is told to stop, or whose server or cleaner breaks, does not
\* linger without it.
ExitsInTheEnd == \A r \in Replica : (stop[r] \/ broke[r]) ~> ~live[r]

\* Messages past their retention are removed in the end, although the first
\* table may keep the second from being swept, replicas are replaced and lose
\* the lock before any tick, and a crashed one leaves its lock behind.
EventuallySwept == \A t \in Table : t \in expired ~> t \notin expired
=============================================================================
