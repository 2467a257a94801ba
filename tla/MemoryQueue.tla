----------------------------- MODULE MemoryQueue -----------------------------
(***************************************************************************)
(* One queue of the in-process driver: the MemoryQueueProcessor class of   *)
(* packages/core/queue/memory-queue.ts.                                    *)
(*                                                                         *)
(* The code is single threaded, so what runs between two awaits is one     *)
(* step, and everything else may happen at an await: the user code sends   *)
(* jobs, adds and removes workers or closes the queue, timers fire, other  *)
(* processing loops advance.  A processing loop is one call of the timer   *)
(* callback of processJobs together with the call its finally block makes. *)
(* Nothing in the code limits it to one: Loops is a set.                   *)
(*                                                                         *)
(* A job is the object sendJob creates, numbered in the order of the       *)
(* sends; its createdAt is the first job of the same millisecond, as only  *)
(* the order of times matters.  The clock is taken not to go back.         *)
(***************************************************************************)
EXTENDS Naturals, FiniteSets

CONSTANTS
    Ids,             \* the job ids of the sends, a uuid being one not used yet
    Loops,           \* slots for the processing loops alive at once
    MaxSends,        \* bound: how many jobs are ever created
    MaxWorkers,      \* bound: how many workers are registered at once
    MaxAttempts,     \* the attempts option (QUEUE_RETRY_ATTEMPTS)
    Delays,          \* whether the sends have a delay option: {TRUE}, {FALSE} or both
    Ties,            \* whether a send is in the millisecond of the one before, as Delays
    DrainedListener  \* whether a listener of the drained event is registered

ASSUME MemoryQueueAssumption ==
    /\ MaxSends \in Nat
    /\ MaxWorkers \in Nat
    /\ MaxAttempts \in Nat \ {0}
    /\ Delays \subseteq BOOLEAN
    /\ Ties \subseteq BOOLEAN
    /\ DrainedListener \in BOOLEAN
    /\ Ids # {} /\ Loops # {}

Jobs  == 1 .. MaxSends
NoJob == 0

VARIABLES
    sent,           \* the number of jobs created so far
    jobId,          \* job.id
    stamp,          \* job.createdAt, its place in _jobs and whether it had a delay
    status,         \* job.status, "none" before the job is created
    attempts,       \* job.attempts
    map,            \* _jobs: the job held under an id, NoJob without one
    delayTimers,    \* _delayTimeouts: the jobs whose delay timer is pending
    removalTimers,  \* the jobs whose clean up timer is pending
    workers,        \* the number of active entries of _workers
    processing,     \* _processing
    latest,         \* the loop whose timer _processingTimeout holds
    pc,             \* where each processing loop is
    cur,            \* the job a loop is processing
    batch,          \* the jobs of jobsToProcess a loop has still to process
    phase           \* how far close() got, "open" before it is called

jobVars  == <<sent, jobId, stamp, status, attempts, map>>
loopVars == <<processing, latest, pc, cur, batch>>
vars     == <<jobVars, delayTimers, removalTimers, workers, loopVars, phase>>

Status   == {"none", "delayed", "waiting", "active", "completed", "failed"}
Finished == {"completed", "failed"}

Stamp == [createdAt : 0 .. MaxSends, place : 0 .. MaxSends, delayed : BOOLEAN]

(* The types, and the numbers within their bounds.                           *)
TypeOK ==
    /\ sent \in 0 .. MaxSends
    /\ jobId \in [Jobs -> Ids]
    /\ stamp \in [Jobs -> Stamp]
    /\ status \in [Jobs -> Status]
    /\ attempts \in [Jobs -> Nat]
    /\ map \in [Ids -> Jobs \cup {NoJob}]
    /\ delayTimers \subseteq Jobs
    /\ removalTimers \subseteq Jobs
    /\ workers \in 0 .. MaxWorkers
    /\ processing \in BOOLEAN
    /\ latest \in Loops
    /\ pc \in [Loops -> {"idle", "timer", "draining", "running", "settling", "retrying"}]
    /\ cur \in [Loops -> Jobs \cup {NoJob}]
    /\ batch \in [Loops -> SUBSET Jobs]
    /\ phase \in {"open", "closing", "awaiting", "closed"}

Init ==
    /\ sent = 0
    /\ jobId = [j \in Jobs |-> CHOOSE i \in Ids : TRUE]   \* until the send
    /\ stamp = [j \in Jobs |-> [createdAt |-> 0, place |-> 0, delayed |-> FALSE]]
    /\ status = [j \in Jobs |-> "none"]
    /\ attempts = [j \in Jobs |-> 0]
    /\ map = [i \in Ids |-> NoJob]
    /\ delayTimers = {}
    /\ removalTimers = {}
    /\ workers = 0
    /\ processing = FALSE
    /\ latest = CHOOSE l \in Loops : TRUE   \* undefined: no timer to clear
    /\ pc = [l \in Loops |-> "idle"]
    /\ cur = [l \in Loops |-> NoJob]
    /\ batch = [l \in Loops |-> {}]
    /\ phase = "open"

-----------------------------------------------------------------------------
(* What the operations have in common.                                       *)

Held == {map[i] : i \in Ids} \ {NoJob}

InMap(s) == {j \in Held : status[j] = s}

(* The versions of the definitions below that end in a comment "mutant" are  *)
(* wrong on purpose: a property is shown to fail with one in place of the    *)
(* definition after it.                                                      *)

ProcessJobsUnguarded ==   \* mutant: no test of _processing
    \E l \in Loops :
        /\ pc[l] = "idle"
        /\ processing' = TRUE
        /\ latest' = l
        /\ pc' = [pc EXCEPT ![l] = "timer"]

(* processJobs: nothing while a loop is on its way or the queue is closed,   *)
(* or else a new loop, whose timer is the one _processingTimeout keeps.      *)
ProcessJobs ==
    \/ /\ processing \/ phase # "open"
       /\ UNCHANGED <<processing, latest, pc>>
    \/ /\ ~processing
       /\ phase = "open"
       /\ \E l \in Loops :
             /\ pc[l] = "idle"
             /\ processing' = TRUE
             /\ latest' = l
             /\ pc' = [pc EXCEPT ![l] = "timer"]

FinishOnly(l) ==   \* mutant: no call of processJobs
    /\ processing' = FALSE
    /\ latest' = latest
    /\ pc' = [pc EXCEPT ![l] = "idle"]
    /\ cur' = [cur EXCEPT ![l] = NoJob]
    /\ batch' = [batch EXCEPT ![l] = {}]

(* The finally block of the timer callback.  It clears _processing whatever  *)
(* the other loops do, so that the call of processJobs passes its guard.     *)
Finish(l) ==
    /\ processing' = (phase = "open")
    /\ latest' = IF phase = "open" THEN l ELSE latest
    /\ pc' = [pc EXCEPT ![l] = IF phase = "open" THEN "timer" ELSE "idle"]
    /\ cur' = [cur EXCEPT ![l] = NoJob]
    /\ batch' = [batch EXCEPT ![l] = {}]

(* The order of the sorted jobs: by createdAt, and as sort is stable, within *)
(* a millisecond as in _jobs.                                                *)
Before(j, k) ==
    \/ stamp[j].createdAt < stamp[k].createdAt
    \/ stamp[j].createdAt = stamp[k].createdAt /\ stamp[j].place < stamp[k].place

(* The loop takes the first of the jobs it has to process and calls          *)
(* processJob, which looks neither at the job's status, nor at the worker's  *)
(* active flag, nor at _closed.  The await of the active event is part of    *)
(* the worker's time.                                                        *)
Activate(l, jobs) ==
    \E j \in jobs :
        /\ \A k \in jobs \ {j} : Before(j, k)
        /\ status' = [status EXCEPT ![j] = "active"]
        /\ attempts' = [attempts EXCEPT ![j] = @ + 1]
        /\ cur' = [cur EXCEPT ![l] = j]
        /\ batch' = [batch EXCEPT ![l] = jobs \ {j}]
        /\ pc' = [pc EXCEPT ![l] = "running"]

NewestJobs ==   \* mutant: sorted the other way round
    LET waiting == InMap("waiting")
    IN {j \in waiting : Cardinality({k \in waiting : Before(j, k)}) < workers}

(* waitingJobs.slice(0, availableWorkers.length) *)
JobsToProcess ==
    LET waiting == InMap("waiting")
    IN {j \in waiting : Cardinality({k \in waiting : Before(k, j)}) < workers}

-----------------------------------------------------------------------------
StatusAfterOneMore(j) ==   \* mutant: one attempt too many
    IF attempts[j] > MaxAttempts THEN "failed" ELSE "waiting"

StatusKept(j) ==   \* mutant: the status of a failed job is not set
    IF attempts[j] >= MaxAttempts THEN status[j] ELSE "waiting"

(* The catch block of processJob: the job fails or waits for a retry.        *)
StatusAfterError(j) ==
    IF attempts[j] >= MaxAttempts THEN "failed" ELSE "waiting"

(* The id is free, or that of a completed job: sendJob makes a new job.      *)
Reusable(i) == map[i] # NoJob => status[map[i]] = "completed"

RemoveById(j) == [map EXCEPT ![jobId[j]] = NoJob]   \* mutant: no test of the job

(* removeJob: the id may have been given to another job meanwhile.           *)
RemoveJob(j) == IF map[jobId[j]] = j THEN [map EXCEPT ![jobId[j]] = NoJob] ELSE map

JobReadLate(l) ==   \* mutant: the job is read once the loop has let go of it
    IF pc[l] = "settling" THEN {NoJob} ELSE {}

CompletedOnly(l) ==   \* mutant: no clean up of failed jobs
    IF pc[l] = "settling" /\ status[cur[l]] = "completed" THEN {cur[l]} ELSE {}

(* The jobs a loop has just finished: each gets a clean up timer.            *)
JustFinished(l) == IF pc[l] = "settling" THEN {cur[l]} ELSE {}

KeepTimers == pc   \* mutant: no clearTimeout

(* clearTimeout(_processingTimeout), which may have fired long ago. *)
ClearTimer == [l \in Loops |-> IF l = latest /\ pc[l] = "timer" THEN "idle" ELSE pc[l]]

Unfinished == InMap("active") \cup InMap("waiting")   \* mutant: waits for more

(* The jobs close() waits for.                                               *)
StillActive == InMap("active")

AfterClosing == IF StillActive = {} THEN "closed" ELSE "awaiting"

-----------------------------------------------------------------------------
(* The user's operations.                                                    *)

(* What sendJob says of the job j with the id i.  A Map keeps a key that is  *)
(* set again in its place, so that the job takes that of the completed one.  *)
NewStamp(j, i, delayed, tie) ==
    [createdAt |-> IF tie /\ sent > 0 THEN stamp[sent].createdAt ELSE j,
     place     |-> IF map[i] = NoJob THEN j ELSE stamp[map[i]].place,
     delayed   |-> delayed]

(* sendJob with a new id, or with the id of a completed job. *)
SendJob(i, delayed, tie) ==
    LET j == sent + 1
    IN /\ phase = "open"
       /\ sent < MaxSends
       /\ Reusable(i)
       /\ sent' = j
       /\ jobId' = [jobId EXCEPT ![j] = i]
       /\ stamp' = [stamp EXCEPT ![j] = NewStamp(j, i, delayed, tie)]
       /\ map' = [map EXCEPT ![i] = j]
       /\ status' = [status EXCEPT ![j] = IF delayed THEN "delayed" ELSE "waiting"]
       /\ \/ /\ delayed
             /\ delayTimers' = delayTimers \cup {j}
             /\ UNCHANGED <<processing, latest, pc>>
          \/ /\ ~delayed
             /\ ProcessJobs
             /\ UNCHANGED delayTimers
       /\ UNCHANGED <<attempts, removalTimers, workers, cur, batch, phase>>

(* sendJob of an id whose job is not completed: it returns that job. *)
SendExisting(i) ==
    /\ phase = "open"
    /\ ~Reusable(i)
    /\ UNCHANGED vars

(* sendJob of a closed queue: it throws QueueClosed. *)
SendRejected ==
    /\ phase # "open"
    /\ UNCHANGED vars

AddWorker ==
    /\ workers < MaxWorkers
    /\ workers' = workers + 1
    /\ ProcessJobs
    /\ UNCHANGED <<jobVars, delayTimers, removalTimers, cur, batch, phase>>

RemoveWorker ==
    /\ workers > 0
    /\ workers' = workers - 1
    /\ UNCHANGED <<jobVars, delayTimers, removalTimers, loopVars, phase>>

(* close() up to its first await, the closing event. *)
Close ==
    /\ phase = "open"
    /\ phase' = "closing"
    /\ UNCHANGED <<jobVars, delayTimers, removalTimers, workers, loopVars>>

(* The rest of close() up to its second await: the timers are cleared, the   *)
(* queue is closed at once when no job is active.                            *)
ClosingSettled ==
    /\ phase = "closing"
    /\ pc' = ClearTimer
    /\ delayTimers' = {}
    /\ phase' = AfterClosing
    /\ UNCHANGED <<jobVars, removalTimers, workers, processing, latest, cur, batch>>

-----------------------------------------------------------------------------
(* The timers and the continuations of the queue.                            *)

(* The interval of close(). *)
CloseTick ==
    /\ phase = "awaiting"
    /\ StillActive = {}
    /\ phase' = "closed"
    /\ UNCHANGED <<jobVars, delayTimers, removalTimers, workers, loopVars>>

DelayDue(j) ==
    /\ j \in delayTimers
    /\ delayTimers' = delayTimers \ {j}
    /\ status' = [status EXCEPT ![j] = "waiting"]
    /\ ProcessJobs
    /\ UNCHANGED <<sent, jobId, stamp, attempts, map, removalTimers, workers, cur, batch, phase>>

(* The clean up timer of a finished job. *)
RemovalDue(j) ==
    /\ j \in removalTimers
    /\ removalTimers' = removalTimers \ {j}
    /\ map' = RemoveJob(j)
    /\ UNCHANGED <<sent, jobId, stamp, status, attempts, delayTimers, workers, loopVars, phase>>

(* The timer of a loop fires and there are jobs and workers. *)
StartBatch(l) ==
    /\ pc[l] = "timer"
    /\ Activate(l, JobsToProcess)
    /\ UNCHANGED <<sent, jobId, stamp, map, delayTimers, removalTimers, workers,
                   processing, latest, phase>>

IsDrained == Held # {} /\ InMap("waiting") = {} /\ InMap("active") = {}

(* The timer of a loop fires and there is nothing to do: the loop is done,   *)
(* after it has emitted the drained event when the queue is drained.  Only   *)
(* with a listener does the event give way to other steps: _processing is    *)
(* then already false.                                                       *)
StartNothing(l) ==
    /\ pc[l] = "timer"
    /\ JobsToProcess = {}
    /\ \/ /\ IsDrained /\ DrainedListener
          /\ processing' = FALSE
          /\ pc' = [pc EXCEPT ![l] = "draining"]
          /\ UNCHANGED <<latest, cur, batch>>
       \/ /\ ~(IsDrained /\ DrainedListener)
          /\ Finish(l)
    /\ UNCHANGED <<jobVars, delayTimers, removalTimers, workers, phase>>

(* The listeners of the drained event have settled. *)
DrainedSettled(l) ==
    /\ pc[l] = "draining"
    /\ Finish(l)
    /\ UNCHANGED <<jobVars, delayTimers, removalTimers, workers, phase>>

(* processJob after its worker returned. *)
WorkerSucceeds(l) ==
    /\ pc[l] = "running"
    /\ status' = [status EXCEPT ![cur[l]] = "completed"]
    /\ pc' = [pc EXCEPT ![l] = "settling"]
    /\ UNCHANGED <<sent, jobId, stamp, attempts, map, delayTimers, removalTimers, workers,
                   processing, latest, cur, batch, phase>>

(* processJob after its worker threw. *)
WorkerFails(l) ==
    LET after == StatusAfterError(cur[l])
    IN /\ pc[l] = "running"
       /\ status' = [status EXCEPT ![cur[l]] = after]
       /\ pc' = [pc EXCEPT ![l] = IF after = "waiting" THEN "retrying" ELSE "settling"]
       /\ UNCHANGED <<sent, jobId, stamp, attempts, map, delayTimers, removalTimers, workers,
                      processing, latest, cur, batch, phase>>

(* The listeners of the completed, failed or error event have settled: a     *)
(* finished job gets its clean up timer, the loop goes on with its jobs.     *)
JobSettled(l) ==
    /\ pc[l] \in {"settling", "retrying"}
    /\ removalTimers' = removalTimers \cup JustFinished(l)
    /\ \/ /\ Activate(l, batch[l])
          /\ UNCHANGED <<processing, latest>>
       \/ /\ batch[l] = {}
          /\ Finish(l)
          /\ UNCHANGED <<status, attempts>>
    /\ UNCHANGED <<sent, jobId, stamp, map, delayTimers, workers, phase>>

LoopStep(l) ==
    \/ StartBatch(l)
    \/ StartNothing(l)
    \/ DrainedSettled(l)
    \/ WorkerSucceeds(l)
    \/ WorkerFails(l)
    \/ JobSettled(l)

Next ==
    \/ \E i \in Ids, delayed \in Delays, tie \in Ties : SendJob(i, delayed, tie)
    \/ \E i \in Ids : SendExisting(i)
    \/ SendRejected
    \/ AddWorker
    \/ RemoveWorker
    \/ Close
    \/ ClosingSettled
    \/ CloseTick
    \/ \E j \in Jobs : DelayDue(j) \/ RemovalDue(j)
    \/ \E l \in Loops : LoopStep(l)

Spec == Init /\ [][Next]_vars

(* Node fires every timer that is due and resumes every settled promise;     *)
(* that the worker functions and the listeners settle is up to the user and  *)
(* assumed.                                                                  *)
Fairness ==
    /\ \A l \in Loops : WF_vars(LoopStep(l))
    /\ \A j \in Jobs : WF_vars(DelayDue(j)) /\ WF_vars(RemovalDue(j))
    /\ WF_vars(ClosingSettled)
    /\ WF_vars(CloseTick)

FairSpec == Spec /\ Fairness

-----------------------------------------------------------------------------
(* Properties.                                                               *)

(* Two loops never run at once: _processing is a lock, although the finally  *)
(* block of a loop clears it without asking who set it.  Holds when the      *)
(* drained event has no listener.                                            *)
SingleLoop ==
    \A l, m \in Loops : pc[l] # "idle" /\ pc[m] # "idle" => l = m

(* An accepted job stays in the queue under its id until it is finished: no  *)
(* other job takes its id and no clean up timer of an earlier job of the     *)
(* same id removes it.                                                       *)
AcceptedJobHeld ==
    \A j \in 1 .. sent : status[j] \notin Finished => map[jobId[j]] = j

(* The active jobs are those a worker is processing now.  close() waits for  *)
(* the jobs whose status is active: one left active without a worker would   *)
(* make it wait forever, one with a worker and another status is not waited  *)
(* for.                                                                      *)
ActiveJobIsRunning ==
    {j \in Jobs : status[j] = "active"} = {cur[l] : l \in {m \in Loops : pc[m] = "running"}}

(* Once close() is past the closing event, no loop starts: its timer was     *)
(* cleared, the loop that was running does not call processJobs again, and   *)
(* no job sent, worker added or delay timer makes another one.  Holds when   *)
(* the drained event has no listener.                                        *)
ClosedStartsNoLoop ==
    phase \in {"awaiting", "closed"}
        => delayTimers = {} /\ \A l \in Loops : pc[l] # "timer"

(* close() has waited for the active jobs and the queue processes nothing.   *)
(* Does not hold: a loop goes on with its batch.                             *)
ClosedIsQuiet == phase = "closed" => InMap("active") = {}

(* A job that was sent without a delay and never tried does not see a job    *)
(* sent after it start first, however the workers come and go; but for a     *)
(* job of the same millisecond with the id of a completed one, which has     *)
(* taken its place in _jobs.                                                 *)
OldestFirst ==
    [][\A j, k \in Jobs :
           /\ status[j] # "active" /\ status'[j] = "active"
           /\ k < j /\ ~stamp[k].delayed
           /\ stamp[k].createdAt < stamp[j].createdAt \/ stamp[j].place = j
           => ~(status[k] = "waiting" /\ attempts[k] = 0)]_vars

(* The queue keeps the promises of JobLifecycle.  Holds when the drained     *)
(* event has no listener.                                                    *)
Lifecycle == INSTANCE JobLifecycle
LifecycleSpec == Lifecycle!Spec

(* A worker gets a job that waits.  Does not hold when the drained event has *)
(* a listener: two loops take the same job.                                  *)
ActiveFromWaiting ==
    [][\A j \in Jobs : attempts'[j] # attempts[j] => status[j] = "waiting"]_vars

(* A waiting job is processed to its end, unless the queue is closed or is   *)
(* left without workers.                                                     *)
WaitingServed ==
    \A j \in Jobs :
        status[j] = "waiting" ~> status[j] \in Finished \/ phase # "open" \/ workers = 0

(* A finished job, completed or failed, leaves the queue: its id can be used *)
(* again, even when the queue is closed meanwhile.                           *)
FinishedRemoved ==
    \A j \in Jobs : status[j] \in Finished ~> map[jobId[j]] # j

(* close() returns: the jobs that were waiting or being retried when it was  *)
(* called do not keep it waiting.                                            *)
CloseReturns == phase = "closing" ~> phase = "closed"
=============================================================================
