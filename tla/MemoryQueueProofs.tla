------------------------- MODULE MemoryQueueProofs --------------------------
(***************************************************************************)
(* Proofs about MemoryQueue for every number of ids, jobs, workers,        *)
(* attempts and loop slots.                                                *)
(*                                                                         *)
(* Those about Inv are of a queue whose drained event has no listener.     *)
(* (With one, the model checker shows that they do not hold.)  Their core: *)
(* _processing is TRUE whenever a loop is alive, so that processJobs makes *)
(* one only when there is none, and the finally block of a loop, which     *)
(* clears _processing, is run by the only loop.  Hence the jobs a loop has *)
(* still to process wait until it reaches them, although it does not look  *)
(* at their status again.                                                  *)
(*                                                                         *)
(* The types, the stamps and the order of the first attempts (OrderInv) do *)
(* not depend on that: they hold of two loops as well.                     *)
(***************************************************************************)
EXTENDS MemoryQueue, FiniteSetTheorems, TLAPS

(* What _processing and _processingTimeout say about the loops.            *)
LoopInv ==
    /\ SingleLoop
    /\ \A l \in Loops : pc[l] # "idle" => processing
    /\ \A l \in Loops : pc[l] # "draining"
    /\ \A l \in Loops : pc[l] = "timer" => latest = l
    /\ ClosedStartsNoLoop

(* What a loop knows of its job and of those it has still to process.      *)
BatchInv == \A l \in Loops :
    /\ pc[l] \in {"idle", "timer"} => cur[l] = NoJob /\ batch[l] = {}
    /\ pc[l] \in {"running", "settling", "retrying"} => cur[l] # NoJob
    /\ pc[l] = "running" => status[cur[l]] = "active"
    /\ pc[l] = "settling" => status[cur[l]] \in Finished
    /\ \A j \in batch[l] : status[j] = "waiting"

(* An active job has its loop, a pending timer finds its job as it left it. *)
JobInv ==
    /\ \A j \in Jobs : status[j] = "active" => \E l \in Loops : pc[l] = "running" /\ cur[l] = j
    /\ \A j \in delayTimers : status[j] = "delayed"
    /\ \A j \in removalTimers : status[j] \in Finished

AttemptInv == \A j \in Jobs :
    /\ j > sent <=> status[j] = "none"
    /\ status[j] \in {"none", "delayed"} => attempts[j] = 0
    /\ status[j] = "waiting" => attempts[j] < MaxAttempts
    /\ status[j] = "failed" => attempts[j] = MaxAttempts
    /\ attempts[j] <= MaxAttempts

MapInv ==
    /\ \A i \in Ids : map[i] # NoJob => map[i] <= sent /\ jobId[map[i]] = i
    /\ AcceptedJobHeld

Inv == TypeOK /\ LoopInv /\ BatchInv /\ JobInv /\ AttemptInv /\ MapInv

(* The places of a loop, and the types of what belongs to the loops.       *)
PCs == {"idle", "timer", "draining", "running", "settling", "retrying"}

LoopTypeOK ==
    /\ processing \in BOOLEAN
    /\ latest \in Loops
    /\ pc \in [Loops -> PCs]
    /\ cur \in [Loops -> Jobs \cup {NoJob}]
    /\ batch \in [Loops -> SUBSET Jobs]

(* A call of processJobs keeps the types of the loops.                       *)
LEMMA ProcessJobsType ==
    ASSUME TypeOK, ProcessJobs, UNCHANGED <<cur, batch>> PROVE LoopTypeOK'
  BY DEF TypeOK, LoopTypeOK, ProcessJobs, PCs

(* The finally block of a loop: while the queue is open the loop goes on as  *)
(* the next one, else it is over.                                            *)
LEMMA FinishStep ==
    ASSUME NEW l \in Loops, TypeOK, Finish(l)
    PROVE  /\ LoopTypeOK'
           /\ phase = "open" => processing' /\ latest' = l /\ pc' = [pc EXCEPT ![l] = "timer"]
           /\ phase # "open" => ~processing' /\ latest' = latest /\ pc' = [pc EXCEPT ![l] = "idle"]
           /\ cur' = [cur EXCEPT ![l] = NoJob]
           /\ batch' = [batch EXCEPT ![l] = {}]
<1>1. CASE phase = "open"
  BY <1>1 DEF TypeOK, LoopTypeOK, Finish, PCs
<1>2. CASE phase # "open"
  BY <1>2 DEF TypeOK, LoopTypeOK, Finish, PCs
<1> QED
  BY <1>1, <1>2

(* Starting a job keeps the types.                                           *)
LEMMA ActivateType ==
    ASSUME NEW l \in Loops, NEW jobs \in SUBSET Jobs, TypeOK,
           Activate(l, jobs), UNCHANGED <<processing, latest>>
    PROVE  /\ LoopTypeOK'
           /\ status' \in [Jobs -> Status]
           /\ attempts' \in [Jobs -> Nat]
  BY DEF TypeOK, LoopTypeOK, Activate, PCs, Status

(* The invariant holds at the start, and each action below keeps it.         *)
LEMMA InitInv == Init => Inv
<1> SUFFICES ASSUME Init PROVE Inv
  OBVIOUS
<1>1. TypeOK
  <2>1. (CHOOSE i \in Ids : TRUE) \in Ids /\ (CHOOSE l \in Loops : TRUE) \in Loops
    BY MemoryQueueAssumption
  <2>2. jobId \in [Jobs -> Ids] /\ latest \in Loops
    BY <2>1 DEF Init
  <2>3. sent \in 0 .. MaxSends /\ workers \in 0 .. MaxWorkers
    BY MemoryQueueAssumption DEF Init
  <2>4. /\ status \in [Jobs -> Status] /\ attempts \in [Jobs -> Nat]
        /\ map \in [Ids -> Jobs \cup {NoJob}]
        /\ delayTimers \subseteq Jobs /\ removalTimers \subseteq Jobs
    BY DEF Init, Status
  <2>5. LoopTypeOK /\ phase \in {"open", "closing", "awaiting", "closed"}
    BY <2>2 DEF Init, LoopTypeOK, PCs
  <2>6. stamp \in [Jobs -> Stamp]
    BY MemoryQueueAssumption DEF Init, Stamp
  <2> QED
    BY <2>2, <2>3, <2>4, <2>5, <2>6 DEF TypeOK, LoopTypeOK, PCs
<1>2. LoopInv
  BY DEF Init, LoopInv, SingleLoop, ClosedStartsNoLoop
<1>3. BatchInv /\ JobInv /\ AttemptInv /\ MapInv
  BY MemoryQueueAssumption
     DEF Init, BatchInv, JobInv, AttemptInv, MapInv, AcceptedJobHeld, Jobs
<1> QED
  BY <1>1, <1>2, <1>3 DEF Inv

(* What sendJob says of a job is of its type.                                *)
LEMMA NewStampType ==
    ASSUME NEW i \in Ids, NEW delayed \in BOOLEAN, NEW tie \in BOOLEAN, TypeOK, sent < MaxSends
    PROVE  NewStamp(sent + 1, i, delayed, tie) \in Stamp
<1>1. sent \in Nat /\ sent + 1 \in 0 .. MaxSends /\ (sent > 0 => sent \in Jobs)
  BY MemoryQueueAssumption DEF TypeOK, Jobs
<1>2. map[i] # NoJob => map[i] \in Jobs
  BY DEF TypeOK
<1>3. \A j \in Jobs : stamp[j].createdAt \in 0 .. MaxSends /\ stamp[j].place \in 0 .. MaxSends
  BY DEF TypeOK, Stamp
<1> QED
  BY <1>1, <1>2, <1>3 DEF NewStamp, Stamp

LEMMA SendJobInv ==
    ASSUME NEW i \in Ids, NEW delayed \in Delays, NEW tie \in Ties, Inv, ~DrainedListener,
           SendJob(i, delayed, tie)
    PROVE  Inv'
<1>1. TypeOK'
  <2>1. LoopTypeOK'
    BY ProcessJobsType DEF Inv, SendJob, TypeOK, LoopTypeOK, PCs
  <2>2. sent + 1 \in Jobs
    BY MemoryQueueAssumption DEF Inv, TypeOK, Jobs, SendJob
  <2>3. sent' \in 0 .. MaxSends /\ workers' \in 0 .. MaxWorkers
    BY MemoryQueueAssumption DEF Inv, TypeOK, SendJob
  <2>4. jobId' \in [Jobs -> Ids] /\ map' \in [Ids -> Jobs \cup {NoJob}]
    BY <2>2 DEF Inv, TypeOK, SendJob
  <2>5. status' \in [Jobs -> Status] /\ attempts' \in [Jobs -> Nat]
    BY <2>2 DEF Inv, TypeOK, SendJob, Status
  <2>6. delayTimers' \subseteq Jobs /\ removalTimers' \subseteq Jobs
    BY <2>2 DEF Inv, TypeOK, SendJob
  <2>7. stamp' \in [Jobs -> Stamp]
    <3>1. NewStamp(sent + 1, i, delayed, tie) \in Stamp
      BY NewStampType, MemoryQueueAssumption DEF Inv, SendJob
    <3> QED
      BY <2>2, <3>1 DEF Inv, TypeOK, SendJob
  <2> QED
    BY <2>1, <2>3, <2>4, <2>5, <2>6, <2>7 DEF Inv, SendJob, TypeOK, LoopTypeOK, PCs
<1>2. LoopInv'
  BY
     DEF Inv, TypeOK, LoopInv, SingleLoop, ClosedStartsNoLoop, SendJob, ProcessJobs,
         Reusable
<1>3. BatchInv'
  BY DEF Inv, TypeOK, BatchInv, AttemptInv, Finished, SendJob, ProcessJobs, Reusable
<1>4. JobInv'
  <2>1. sent + 1 \in Jobs /\ status[sent + 1] = "none"
    BY MemoryQueueAssumption DEF Inv, TypeOK, AttemptInv, Jobs, SendJob
  <2>2. \A l \in Loops : pc[l] = "running" => pc'[l] = "running" /\ cur'[l] = cur[l]
    BY DEF SendJob, ProcessJobs, Inv, TypeOK
  <2>3. \A j \in Jobs : j # sent + 1 => status'[j] = status[j]
    BY DEF SendJob, Inv, TypeOK
  <2>4. status'[sent + 1] \in {"delayed", "waiting"} /\ (delayed => status'[sent + 1] = "delayed")
    BY <2>1 DEF SendJob, Inv, TypeOK
  <2>5. delayTimers' \subseteq delayTimers \cup (IF delayed THEN {sent + 1} ELSE {})
    BY DEF SendJob
  <2>6. removalTimers' = removalTimers
    BY DEF SendJob
  <2> QED
    BY <2>1, <2>2, <2>3, <2>4, <2>5, <2>6 DEF Inv, TypeOK, JobInv, Finished, SendJob
<1>5. AttemptInv'
  BY MemoryQueueAssumption
     DEF Inv, TypeOK, AttemptInv, Jobs, SendJob, ProcessJobs, Reusable
<1>6. MapInv'
  BY MemoryQueueAssumption
     DEF Inv, TypeOK, MapInv, AcceptedJobHeld, Jobs, NoJob, Finished, SendJob,
         ProcessJobs, Reusable
<1> QED
  BY <1>1, <1>2, <1>3, <1>4, <1>5, <1>6 DEF Inv

LEMMA AddWorkerInv ==
    ASSUME Inv, ~DrainedListener, AddWorker PROVE Inv'
<1>1. TypeOK'
  <2>1. LoopTypeOK'
    BY ProcessJobsType DEF Inv, AddWorker, TypeOK
  <2> QED
    BY <2>1, MemoryQueueAssumption DEF Inv, AddWorker, TypeOK, LoopTypeOK, jobVars, PCs
<1>2. LoopInv'
  BY DEF Inv, TypeOK, LoopInv, SingleLoop, ClosedStartsNoLoop, AddWorker, ProcessJobs
<1>3. BatchInv'
  BY DEF Inv, TypeOK, BatchInv, jobVars, AddWorker, ProcessJobs
<1>4. JobInv'
  BY DEF Inv, TypeOK, JobInv, jobVars, AddWorker, ProcessJobs
<1>5. AttemptInv'
  BY MemoryQueueAssumption DEF Inv, TypeOK, AttemptInv, jobVars, AddWorker, ProcessJobs
<1>6. MapInv'
  BY MemoryQueueAssumption
     DEF Inv, TypeOK, MapInv, AcceptedJobHeld, jobVars, AddWorker, ProcessJobs
<1> QED
  BY <1>1, <1>2, <1>3, <1>4, <1>5, <1>6 DEF Inv

LEMMA RemoveWorkerInv ==
    ASSUME Inv, ~DrainedListener, RemoveWorker PROVE Inv'
<1>1. TypeOK'
  BY MemoryQueueAssumption DEF Inv, TypeOK, RemoveWorker, jobVars, loopVars
<1>2. LoopInv'
  BY DEF Inv, TypeOK, LoopInv, SingleLoop, ClosedStartsNoLoop, RemoveWorker, loopVars
<1>3. BatchInv'
  BY DEF Inv, TypeOK, BatchInv, RemoveWorker, jobVars, loopVars
<1>4. JobInv'
  BY DEF Inv, TypeOK, JobInv, RemoveWorker, jobVars, loopVars
<1>5. AttemptInv'
  BY MemoryQueueAssumption DEF Inv, TypeOK, AttemptInv, RemoveWorker, jobVars
<1>6. MapInv'
  BY MemoryQueueAssumption
     DEF Inv, TypeOK, MapInv, AcceptedJobHeld, RemoveWorker, jobVars
<1> QED
  BY <1>1, <1>2, <1>3, <1>4, <1>5, <1>6 DEF Inv

LEMMA CloseInv ==
    ASSUME Inv, ~DrainedListener, Close PROVE Inv'
<1>1. TypeOK'
  BY MemoryQueueAssumption DEF Inv, TypeOK, Close, jobVars, loopVars
<1>2. LoopInv'
  BY DEF Inv, TypeOK, LoopInv, SingleLoop, ClosedStartsNoLoop, Close, loopVars
<1>3. BatchInv'
  BY DEF Inv, TypeOK, BatchInv, Close, jobVars, loopVars
<1>4. JobInv'
  BY DEF Inv, TypeOK, JobInv, Close, jobVars, loopVars
<1>5. AttemptInv'
  BY MemoryQueueAssumption DEF Inv, TypeOK, AttemptInv, Close, jobVars
<1>6. MapInv'
  BY MemoryQueueAssumption DEF Inv, TypeOK, MapInv, AcceptedJobHeld, Close, jobVars
<1> QED
  BY <1>1, <1>2, <1>3, <1>4, <1>5, <1>6 DEF Inv

LEMMA ClosingSettledInv ==
    ASSUME Inv, ~DrainedListener, ClosingSettled PROVE Inv'
<1>1. TypeOK'
  BY MemoryQueueAssumption
     DEF Inv, TypeOK, ClosingSettled, ClearTimer, AfterClosing, jobVars
<1>2. LoopInv'
  BY
     DEF Inv, TypeOK, LoopInv, SingleLoop, ClosedStartsNoLoop, ClosingSettled,
         ClearTimer, AfterClosing
<1>3. BatchInv'
  BY DEF Inv, TypeOK, BatchInv, ClosingSettled, ClearTimer, AfterClosing, jobVars
<1>4. JobInv'
  BY DEF Inv, TypeOK, JobInv, ClosingSettled, ClearTimer, AfterClosing, jobVars
<1>5. AttemptInv'
  BY MemoryQueueAssumption
     DEF Inv, TypeOK, AttemptInv, ClosingSettled, ClearTimer, AfterClosing, jobVars
<1>6. MapInv'
  BY MemoryQueueAssumption
     DEF Inv, TypeOK, MapInv, AcceptedJobHeld, ClosingSettled, ClearTimer,
         AfterClosing, jobVars
<1> QED
  BY <1>1, <1>2, <1>3, <1>4, <1>5, <1>6 DEF Inv

LEMMA CloseTickInv ==
    ASSUME Inv, ~DrainedListener, CloseTick PROVE Inv'
<1>1. TypeOK'
  BY MemoryQueueAssumption DEF Inv, TypeOK, CloseTick, jobVars, loopVars
<1>2. LoopInv'
  BY DEF Inv, TypeOK, LoopInv, SingleLoop, ClosedStartsNoLoop, CloseTick, loopVars
<1>3. BatchInv'
  BY DEF Inv, TypeOK, BatchInv, CloseTick, jobVars, loopVars
<1>4. JobInv'
  BY DEF Inv, TypeOK, JobInv, CloseTick, jobVars, loopVars
<1>5. AttemptInv'
  BY MemoryQueueAssumption DEF Inv, TypeOK, AttemptInv, CloseTick, jobVars
<1>6. MapInv'
  BY MemoryQueueAssumption DEF Inv, TypeOK, MapInv, AcceptedJobHeld, CloseTick, jobVars
<1> QED
  BY <1>1, <1>2, <1>3, <1>4, <1>5, <1>6 DEF Inv

LEMMA DelayDueInv ==
    ASSUME NEW j \in Jobs, Inv, ~DrainedListener, DelayDue(j) PROVE Inv'
<1>1. TypeOK'
  <2>1. LoopTypeOK'
    BY ProcessJobsType DEF Inv, DelayDue, TypeOK
  <2> QED
    BY <2>1, MemoryQueueAssumption DEF Inv, DelayDue, TypeOK, LoopTypeOK, Status, PCs
<1>2. LoopInv'
  BY DEF Inv, TypeOK, LoopInv, SingleLoop, ClosedStartsNoLoop, DelayDue, ProcessJobs
<1>3. BatchInv'
  BY DEF Inv, TypeOK, BatchInv, JobInv, Finished, DelayDue, ProcessJobs
<1>4. JobInv'
  BY DEF Inv, TypeOK, JobInv, Finished, DelayDue, ProcessJobs
<1>5. AttemptInv'
  BY MemoryQueueAssumption DEF Inv, TypeOK, JobInv, AttemptInv, DelayDue, ProcessJobs
<1>6. MapInv'
  BY MemoryQueueAssumption
     DEF Inv, TypeOK, JobInv, MapInv, AcceptedJobHeld, Finished, DelayDue, ProcessJobs
<1> QED
  BY <1>1, <1>2, <1>3, <1>4, <1>5, <1>6 DEF Inv

LEMMA RemovalDueInv ==
    ASSUME NEW j \in Jobs, Inv, ~DrainedListener, RemovalDue(j) PROVE Inv'
<1>1. TypeOK'
  BY MemoryQueueAssumption DEF Inv, TypeOK, RemovalDue, RemoveJob, loopVars
<1>2. LoopInv'
  BY
     DEF Inv, TypeOK, LoopInv, SingleLoop, ClosedStartsNoLoop, RemovalDue, RemoveJob,
         loopVars
<1>3. BatchInv'
  BY DEF Inv, TypeOK, BatchInv, RemovalDue, RemoveJob, loopVars
<1>4. JobInv'
  BY DEF Inv, TypeOK, JobInv, RemovalDue, RemoveJob, loopVars
<1>5. AttemptInv'
  BY MemoryQueueAssumption DEF Inv, TypeOK, AttemptInv, RemovalDue, RemoveJob
<1>6. MapInv'
  BY MemoryQueueAssumption
     DEF Inv, TypeOK, JobInv, MapInv, AcceptedJobHeld, RemovalDue, RemoveJob
<1> QED
  BY <1>1, <1>2, <1>3, <1>4, <1>5, <1>6 DEF Inv

LEMMA StartBatchInv ==
    ASSUME NEW l \in Loops, Inv, ~DrainedListener, StartBatch(l) PROVE Inv'
<1>1. TypeOK'
  BY MemoryQueueAssumption
     DEF Inv, TypeOK, StartBatch, Activate, JobsToProcess, InMap, Held, Status
<1>2. LoopInv'
  BY
     DEF Inv, TypeOK, LoopInv, SingleLoop, ClosedStartsNoLoop, StartBatch, Activate,
         JobsToProcess, InMap, Held
<1>3. BatchInv'
  BY
     DEF Inv, TypeOK, LoopInv, SingleLoop, BatchInv, StartBatch, Activate,
         JobsToProcess, InMap, Held
<1>4. JobInv'
  BY
     DEF Inv, TypeOK, LoopInv, JobInv, StartBatch, Activate, JobsToProcess, InMap,
         Held, Finished
<1>5. AttemptInv'
  BY MemoryQueueAssumption
     DEF Inv, TypeOK, AttemptInv, StartBatch, Activate, JobsToProcess, InMap, Held
<1>6. MapInv'
  BY MemoryQueueAssumption
     DEF Inv, TypeOK, MapInv, AcceptedJobHeld, StartBatch, Activate, JobsToProcess,
         InMap, Held, NoJob
<1> QED
  BY <1>1, <1>2, <1>3, <1>4, <1>5, <1>6 DEF Inv

LEMMA StartNothingInv ==
    ASSUME NEW l \in Loops, Inv, ~DrainedListener, StartNothing(l) PROVE Inv'
<1> Finish(l)
  BY DEF StartNothing
<1> HIDE DEF Finish
<1>1. TypeOK'
  BY FinishStep DEF Inv, TypeOK, jobVars, LoopTypeOK, StartNothing
<1>2. LoopInv'
  BY FinishStep DEF Inv, TypeOK, LoopInv, SingleLoop, ClosedStartsNoLoop, StartNothing
<1>3. BatchInv'
  BY FinishStep DEF Inv, TypeOK, BatchInv, jobVars, StartNothing
<1>4. JobInv'
  BY FinishStep DEF Inv, TypeOK, JobInv, jobVars, StartNothing
<1>5. AttemptInv'
  BY FinishStep DEF Inv, TypeOK, AttemptInv, jobVars, StartNothing
<1>6. MapInv'
  BY FinishStep DEF Inv, TypeOK, MapInv, AcceptedJobHeld, jobVars, StartNothing
<1> QED
  BY <1>1, <1>2, <1>3, <1>4, <1>5, <1>6 DEF Inv

LEMMA WorkerSucceedsInv ==
    ASSUME NEW l \in Loops, Inv, ~DrainedListener, WorkerSucceeds(l) PROVE Inv'
<1>1. TypeOK'
  BY MemoryQueueAssumption DEF Inv, TypeOK, WorkerSucceeds, Status
<1>2. LoopInv'
  BY DEF Inv, TypeOK, LoopInv, SingleLoop, ClosedStartsNoLoop, WorkerSucceeds
<1>3. BatchInv'
  BY DEF Inv, TypeOK, LoopInv, SingleLoop, BatchInv, WorkerSucceeds, Finished
<1>4. JobInv'
  BY DEF Inv, TypeOK, BatchInv, JobInv, WorkerSucceeds, Finished
<1>5. AttemptInv'
  BY MemoryQueueAssumption DEF Inv, TypeOK, BatchInv, AttemptInv, WorkerSucceeds
<1>6. MapInv'
  BY MemoryQueueAssumption
     DEF Inv, TypeOK, MapInv, AcceptedJobHeld, WorkerSucceeds, Finished
<1> QED
  BY <1>1, <1>2, <1>3, <1>4, <1>5, <1>6 DEF Inv

LEMMA WorkerFailsInv ==
    ASSUME NEW l \in Loops, Inv, ~DrainedListener, WorkerFails(l) PROVE Inv'
<1>1. TypeOK'
  BY MemoryQueueAssumption DEF Inv, TypeOK, WorkerFails, StatusAfterError, Status
<1>2. LoopInv'
  BY
     DEF Inv, TypeOK, LoopInv, SingleLoop, ClosedStartsNoLoop, WorkerFails,
         StatusAfterError
<1>3. BatchInv'
  BY
     DEF Inv, TypeOK, LoopInv, SingleLoop, BatchInv, WorkerFails, StatusAfterError,
         Finished
<1>4. JobInv'
  BY DEF Inv, TypeOK, BatchInv, JobInv, WorkerFails, StatusAfterError, Finished
<1>5. AttemptInv'
  BY MemoryQueueAssumption
     DEF Inv, TypeOK, BatchInv, AttemptInv, WorkerFails, StatusAfterError
<1>6. MapInv'
  BY MemoryQueueAssumption
     DEF Inv, TypeOK, BatchInv, MapInv, AcceptedJobHeld, WorkerFails,
         StatusAfterError, Finished
<1> QED
  BY <1>1, <1>2, <1>3, <1>4, <1>5, <1>6 DEF Inv

LEMMA JobSettledInv ==
    ASSUME NEW l \in Loops, Inv, ~DrainedListener, JobSettled(l) PROVE Inv'
<1>1. /\ pc[l] \in {"settling", "retrying"}
      /\ cur[l] \in Jobs
      /\ removalTimers' \subseteq removalTimers \cup {cur[l]}
      /\ pc[l] # "settling" => removalTimers' = removalTimers
  BY DEF JobSettled, JustFinished, Inv, TypeOK, BatchInv
<1>2. UNCHANGED <<sent, jobId, stamp, map, delayTimers, workers, phase>>
  BY DEF JobSettled
<1>3. CASE Activate(l, batch[l]) /\ UNCHANGED <<processing, latest>>
  <2>1. batch[l] \in SUBSET Jobs
    BY DEF Inv, TypeOK
  <2>2. PICK j \in batch[l] :
          /\ status' = [status EXCEPT ![j] = "active"]
          /\ attempts' = [attempts EXCEPT ![j] = @ + 1]
          /\ cur' = [cur EXCEPT ![l] = j]
          /\ batch' = [batch EXCEPT ![l] = batch[l] \ {j}]
          /\ pc' = [pc EXCEPT ![l] = "running"]
    BY <1>3 DEF Activate
  <2>3. TypeOK'
    BY <1>1, <1>2, <1>3, <2>1, <2>2, ActivateType, MemoryQueueAssumption
       DEF Inv, TypeOK, LoopTypeOK
  <2>4. LoopInv'
    BY <1>1, <1>2, <1>3, <2>1, <2>2, MemoryQueueAssumption
       DEF Inv, TypeOK, LoopInv, SingleLoop, ClosedStartsNoLoop
  <2>5. BatchInv'
    BY <1>1, <1>2, <1>3, <2>1, <2>2, MemoryQueueAssumption
       DEF Inv, TypeOK, LoopInv, SingleLoop, BatchInv, Jobs, NoJob
  <2>6. JobInv'
    <3>1. status[j] = "waiting" /\ \A k \in Jobs : k # j => status'[k] = status[k]
      BY <2>1, <2>2 DEF Inv, TypeOK, BatchInv
    <3>2. status'[j] = "active" /\ pc'[l] = "running" /\ cur'[l] = j
      BY <2>1, <2>2 DEF Inv, TypeOK
    <3>3. \A m \in Loops : pc[m] = "running" => m # l /\ pc'[m] = "running" /\ cur'[m] = cur[m]
      BY <1>1, <2>2 DEF Inv, TypeOK
    <3>4. pc[l] = "settling" => status[cur[l]] \in Finished
      BY DEF Inv, BatchInv
    <3> QED
      BY <1>1, <1>2, <2>1, <3>1, <3>2, <3>3, <3>4 DEF Inv, JobInv, TypeOK, Finished
  <2>7. AttemptInv'
    BY <1>1, <1>2, <1>3, <2>1, <2>2, MemoryQueueAssumption
       DEF Inv, TypeOK, BatchInv, AttemptInv
  <2>8. MapInv'
    BY <1>1, <1>2, <1>3, <2>1, <2>2, MemoryQueueAssumption
       DEF Inv, TypeOK, BatchInv, MapInv, AcceptedJobHeld, Finished
  <2> QED
    BY <2>3, <2>4, <2>5, <2>6, <2>7, <2>8 DEF Inv
<1>4. CASE Finish(l) /\ UNCHANGED <<status, attempts>>
  <2>1. /\ LoopTypeOK'
        /\ phase = "open" => processing' /\ latest' = l /\ pc' = [pc EXCEPT ![l] = "timer"]
        /\ phase # "open" => ~processing' /\ latest' = latest /\ pc' = [pc EXCEPT ![l] = "idle"]
        /\ cur' = [cur EXCEPT ![l] = NoJob]
        /\ batch' = [batch EXCEPT ![l] = {}]
    BY <1>4, FinishStep DEF Inv
  <2>2. TypeOK'
    BY <1>1, <1>2, <1>4, <2>1, MemoryQueueAssumption DEF Inv, TypeOK, LoopTypeOK
  <2>3. LoopInv'
    <3>1. \A m \in Loops : m # l => pc[m] = "idle" /\ pc'[m] = "idle"
      BY <1>1, <2>1 DEF Inv, TypeOK, LoopInv, SingleLoop
    <3>2. CASE phase = "open"
      <4>1. processing' /\ latest' = l /\ pc'[l] = "timer" /\ phase' = "open"
        BY <1>2, <2>1, <3>2 DEF Inv, TypeOK
      <4> QED
        BY <3>1, <4>1 DEF LoopInv, SingleLoop, ClosedStartsNoLoop
    <3>3. CASE phase # "open"
      <4>1. pc'[l] = "idle" /\ phase' = phase /\ delayTimers' = delayTimers
        BY <1>2, <2>1, <3>3 DEF Inv, TypeOK
      <4> QED
        BY <3>1, <4>1 DEF Inv, LoopInv, SingleLoop, ClosedStartsNoLoop
    <3> QED
      BY <3>2, <3>3
  <2>4. BatchInv'
    BY <1>1, <1>2, <1>4, <2>1, MemoryQueueAssumption DEF Inv, TypeOK, BatchInv
  <2>5. JobInv'
    BY <1>1, <1>2, <1>4, <2>1, MemoryQueueAssumption
       DEF Inv, TypeOK, LoopInv, SingleLoop, BatchInv, JobInv
  <2>6. AttemptInv'
    BY <1>1, <1>2, <1>4, <2>1, MemoryQueueAssumption DEF Inv, TypeOK, AttemptInv
  <2>7. MapInv'
    BY <1>1, <1>2, <1>4, <2>1, MemoryQueueAssumption
       DEF Inv, TypeOK, MapInv, AcceptedJobHeld
  <2> QED
    BY <2>2, <2>3, <2>4, <2>5, <2>6, <2>7 DEF Inv
<1> QED
  BY <1>3, <1>4 DEF JobSettled

(* Steps that change nothing.                                                *)
LEMMA StutterInv ==
    ASSUME Inv, UNCHANGED vars PROVE Inv'
  BY
     DEF vars, jobVars, loopVars, Inv, TypeOK, LoopInv, SingleLoop,
         ClosedStartsNoLoop, BatchInv, JobInv, AttemptInv, MapInv, AcceptedJobHeld

(* Every step keeps the invariant.                                           *)
LEMMA NextInv ==
    ASSUME ~DrainedListener, Inv, [Next]_vars PROVE Inv'
<1>1. ASSUME NEW l \in Loops, LoopStep(l) PROVE Inv'
  BY <1>1, StartBatchInv, StartNothingInv, WorkerSucceedsInv, WorkerFailsInv,
     JobSettledInv
     DEF LoopStep, DrainedSettled, Inv, LoopInv
<1>2. CASE SendRejected \/ \E i \in Ids : SendExisting(i)
  BY <1>2, StutterInv DEF SendRejected, SendExisting
<1> QED
  BY <1>1, <1>2, SendJobInv, AddWorkerInv, RemoveWorkerInv, CloseInv,
     ClosingSettledInv, CloseTickInv, DelayDueInv, RemovalDueInv, StutterInv
     DEF Next

(* Inv is an invariant of a queue without a listener of the drained event.   *)
THEOREM Invariance == ASSUME ~DrainedListener PROVE Spec => []Inv
<1>1. Init => Inv
  BY InitInv
<1>2. Inv /\ [Next]_vars => Inv'
  BY NextInv
<1> QED
  BY <1>1, <1>2, PTL DEF Spec

(* At most one processing loop is alive.                                     *)
THEOREM OneLoop == ASSUME ~DrainedListener PROVE Spec => []SingleLoop
<1>1. Inv => SingleLoop
  BY DEF Inv, LoopInv
<1> QED
  BY <1>1, Invariance, PTL

(* A job that was accepted is held under its id until it is finished.        *)
THEOREM JobsHeld == ASSUME ~DrainedListener PROVE Spec => []AcceptedJobHeld
<1>1. Inv => AcceptedJobHeld
  BY DEF Inv, MapInv
<1> QED
  BY <1>1, Invariance, PTL

(* A job is active exactly while a loop has a worker process it.             *)
THEOREM ActiveRuns == ASSUME ~DrainedListener PROVE Spec => []ActiveJobIsRunning
<1>1. ASSUME Inv PROVE ActiveJobIsRunning
  <2>1. \A j \in Jobs : status[j] = "active" => \E l \in Loops : pc[l] = "running" /\ cur[l] = j
    BY <1>1 DEF Inv, JobInv
  <2>2. \A l \in Loops : pc[l] = "running" => cur[l] \in Jobs /\ status[cur[l]] = "active"
    BY <1>1 DEF Inv, BatchInv, TypeOK
  <2> QED
    BY <2>1, <2>2 DEF ActiveJobIsRunning
<1> QED
  BY <1>1, Invariance, PTL

(* Once close() is past the closing event, no timer of the queue starts a    *)
(* loop or makes a job wait.                                                 *)
THEOREM ClosedStarts == ASSUME ~DrainedListener PROVE Spec => []ClosedStartsNoLoop
<1>1. Inv => ClosedStartsNoLoop
  BY DEF Inv, LoopInv
<1> QED
  BY <1>1, Invariance, PTL

(* A loop that starts a job of those it has still to process takes a step of *)
(* the lifecycle: the job waits and has an attempt left.                     *)
LEMMA LifecycleStart ==
    ASSUME NEW l \in Loops, NEW jobs, NEW j \in jobs, Inv, jobs \subseteq Jobs,
           \A k \in jobs : status[k] = "waiting",
           status' = [status EXCEPT ![j] = "active"],
           attempts' = [attempts EXCEPT ![j] = @ + 1]
    PROVE  Lifecycle!Next
<1>1. j \in Jobs /\ attempts[j] < MaxAttempts
  BY DEF Inv, AttemptInv
<1>2. Lifecycle!Start(j)
  BY <1>1 DEF Lifecycle!Start, Lifecycle!Move
<1> QED
  BY <1>1, <1>2 DEF Lifecycle!Next

(* Every step of the queue is a step of the lifecycle of one job, or changes *)
(* neither the status nor the attempts of any.                               *)
LEMMA LifecycleStep ==
    ASSUME ~DrainedListener, Inv, [Next]_vars
    PROVE  [Lifecycle!Next]_<<status, attempts>>
<1> USE DEF Lifecycle!Next, Lifecycle!Move
<1>1. ASSUME NEW i \in Ids, NEW delayed \in Delays, NEW tie \in Ties, SendJob(i, delayed, tie)
      PROVE  Lifecycle!Next
  <2>1. sent + 1 \in Jobs /\ status[sent + 1] = "none"
    BY <1>1, MemoryQueueAssumption DEF Inv, TypeOK, AttemptInv, SendJob, Jobs
  <2>2. Lifecycle!Accept(sent + 1)
    BY <1>1, <2>1 DEF SendJob, Lifecycle!Accept
  <2> QED
    BY <2>1, <2>2
<1>2. ASSUME NEW j \in Jobs, DelayDue(j) PROVE Lifecycle!Next
  <2>1. Lifecycle!Due(j)
    BY <1>2 DEF DelayDue, Lifecycle!Due, Inv, JobInv
  <2> QED
    BY <2>1
<1>3. ASSUME NEW l \in Loops, LoopStep(l)
      PROVE  Lifecycle!Next \/ UNCHANGED <<status, attempts>>
  <2>1. CASE StartBatch(l)
    <3>1. JobsToProcess \subseteq Jobs /\ \A k \in JobsToProcess : status[k] = "waiting"
      BY DEF Inv, TypeOK, JobsToProcess, InMap, Held
    <3> QED
      BY <2>1, <3>1, LifecycleStart DEF StartBatch, Activate
  <2>2. CASE StartNothing(l) \/ DrainedSettled(l)
    BY <2>2 DEF StartNothing, DrainedSettled, jobVars
  <2>3. CASE WorkerSucceeds(l)
    <3>1. cur[l] \in Jobs /\ Lifecycle!Complete(cur[l])
      BY <2>3 DEF WorkerSucceeds, Lifecycle!Complete, Inv, TypeOK, BatchInv
    <3> QED
      BY <3>1
  <2>4. CASE WorkerFails(l)
    <3>1. cur[l] \in Jobs /\ status[cur[l]] = "active" /\ attempts' = attempts
      BY <2>4 DEF WorkerFails, Inv, TypeOK, BatchInv
    <3>2. CASE attempts[cur[l]] >= MaxAttempts
      <4>1. attempts[cur[l]] = MaxAttempts
        BY <3>1, <3>2, MemoryQueueAssumption DEF Inv, AttemptInv, TypeOK
      <4>2. Lifecycle!GiveUp(cur[l])
        BY <2>4, <3>1, <3>2, <4>1 DEF WorkerFails, StatusAfterError, Lifecycle!GiveUp
      <4> QED
        BY <3>1, <4>2
    <3>3. CASE ~(attempts[cur[l]] >= MaxAttempts)
      <4>1. attempts[cur[l]] < MaxAttempts
        BY <3>1, <3>3, MemoryQueueAssumption DEF Inv, TypeOK
      <4>2. Lifecycle!Retry(cur[l])
        BY <2>4, <3>1, <3>3, <4>1 DEF WorkerFails, StatusAfterError, Lifecycle!Retry
      <4> QED
        BY <3>1, <4>2
    <3> QED
      BY <3>2, <3>3
  <2>5. CASE JobSettled(l)
    <3>1. batch[l] \subseteq Jobs /\ \A k \in batch[l] : status[k] = "waiting"
      BY DEF Inv, TypeOK, BatchInv
    <3> QED
      BY <2>5, <3>1, LifecycleStart DEF JobSettled, Activate
  <2> QED
    BY <1>3, <2>1, <2>2, <2>3, <2>4, <2>5 DEF LoopStep
<1>4. CASE \/ SendRejected \/ \E i \in Ids : SendExisting(i)
           \/ AddWorker \/ RemoveWorker \/ Close \/ ClosingSettled \/ CloseTick
           \/ \E j \in Jobs : RemovalDue(j)
           \/ UNCHANGED vars
  BY <1>4
     DEF SendRejected, SendExisting, AddWorker, RemoveWorker, Close, ClosingSettled,
         CloseTick, RemovalDue, vars, jobVars
<1> QED
  BY <1>1, <1>2, <1>3, <1>4 DEF Next

(* The queue keeps the promises of JobLifecycle: every job is processed only *)
(* when it waits, at most maxAttempts times, by one worker at a time, and    *)
(* fails only after its last attempt.                                        *)
THEOREM ImplementsLifecycle == ASSUME ~DrainedListener PROVE Spec => LifecycleSpec
<1>1. Init => Lifecycle!Init
  BY DEF Init, Lifecycle!Init
<1> QED
  BY <1>1, LifecycleStep, Invariance, PTL DEF Spec, LifecycleSpec, Lifecycle!Spec

-----------------------------------------------------------------------------
(* With a listener of the drained event or without one.                      *)

(* A loop that runs a job has one.                                           *)
CurType == \A l \in Loops : pc[l] \in {"running", "settling", "retrying"} => cur[l] \in Jobs

(* The types, inductive with it.                                             *)
TypeInv == TypeOK /\ CurType

(* The loops after a call of processJobs.                                    *)
LEMMA ProcessJobsCur ==
    ASSUME TypeInv, ProcessJobs, UNCHANGED <<cur, batch>> PROVE LoopTypeOK' /\ CurType'
<1>1. LoopTypeOK'
  BY ProcessJobsType DEF TypeInv
<1>2. CurType'
  BY DEF TypeInv, TypeOK, CurType, ProcessJobs
<1> QED
  BY <1>1, <1>2

(* After a finally block.                                                    *)
LEMMA FinishCur == ASSUME NEW l \in Loops, TypeInv, Finish(l) PROVE LoopTypeOK' /\ CurType'
<1>1. LoopTypeOK'
  BY FinishStep DEF TypeInv
<1>2. CurType'
  BY DEF TypeInv, TypeOK, CurType, Finish
<1> QED
  BY <1>1, <1>2

(* After the start of a job.                                                 *)
LEMMA ActivateCur ==
    ASSUME NEW l \in Loops, NEW jobs \in SUBSET Jobs, TypeInv,
           Activate(l, jobs), UNCHANGED <<processing, latest>>
    PROVE  /\ LoopTypeOK' /\ CurType'
           /\ status' \in [Jobs -> Status]
           /\ attempts' \in [Jobs -> Nat]
<1>1. LoopTypeOK' /\ status' \in [Jobs -> Status] /\ attempts' \in [Jobs -> Nat]
  BY ActivateType DEF TypeInv
<1>2. CurType'
  BY DEF TypeInv, TypeOK, CurType, Activate
<1> QED
  BY <1>1, <1>2

(* A step of a loop keeps the types.                                         *)
LEMMA LoopStepTypes == ASSUME TypeInv, NEW l \in Loops, LoopStep(l) PROVE TypeInv'
<1> USE DEF TypeInv
<1>0. JobsToProcess \subseteq Jobs /\ batch[l] \subseteq Jobs
  BY DEF TypeOK, JobsToProcess, InMap, Held
<1>1. CASE StartBatch(l)
  <2>1. /\ LoopTypeOK' /\ CurType'
        /\ status' \in [Jobs -> Status] /\ attempts' \in [Jobs -> Nat]
    BY <1>0, <1>1, ActivateCur DEF StartBatch
  <2>2. UNCHANGED <<sent, jobId, stamp, map, delayTimers, removalTimers, workers, phase>>
    BY <1>1 DEF StartBatch
  <2> QED
    BY <2>1, <2>2 DEF TypeOK, LoopTypeOK, PCs
<1>2. CASE StartNothing(l)
  <2>1. LoopTypeOK' /\ CurType'
    <3>1. CASE Finish(l)
      BY <3>1, FinishCur
    <3>2. CASE /\ processing' = FALSE
               /\ pc' = [pc EXCEPT ![l] = "draining"]
               /\ UNCHANGED <<latest, cur, batch>>
      BY <3>2 DEF TypeOK, CurType, LoopTypeOK, PCs
    <3> QED
      BY <1>2, <3>1, <3>2 DEF StartNothing
  <2>2. UNCHANGED <<jobVars, delayTimers, removalTimers, workers, phase>>
    BY <1>2 DEF StartNothing
  <2> QED
    BY <2>1, <2>2 DEF TypeOK, LoopTypeOK, PCs, jobVars
<1>3. CASE DrainedSettled(l)
  <2>1. LoopTypeOK' /\ CurType'
    BY <1>3, FinishCur DEF DrainedSettled
  <2>2. UNCHANGED <<jobVars, delayTimers, removalTimers, workers, phase>>
    BY <1>3 DEF DrainedSettled
  <2> QED
    BY <2>1, <2>2 DEF TypeOK, LoopTypeOK, PCs, jobVars
<1>4. CASE WorkerSucceeds(l)
  BY <1>4 DEF WorkerSucceeds, TypeOK, CurType, Status
<1>5. CASE WorkerFails(l)
  BY <1>5 DEF WorkerFails, StatusAfterError, TypeOK, CurType, Status
<1>6. CASE JobSettled(l)
  <2>1. /\ LoopTypeOK' /\ CurType'
        /\ status' \in [Jobs -> Status] /\ attempts' \in [Jobs -> Nat]
    <3>1. CASE Finish(l) /\ UNCHANGED <<status, attempts>>
      BY <3>1, FinishCur DEF TypeOK
    <3>2. CASE Activate(l, batch[l]) /\ UNCHANGED <<processing, latest>>
      BY <1>0, <3>2, ActivateCur
    <3> QED
      BY <1>6, <3>1, <3>2 DEF JobSettled
  <2>2. removalTimers' \subseteq Jobs
    BY <1>6 DEF JobSettled, JustFinished, TypeOK, CurType
  <2>3. UNCHANGED <<sent, jobId, stamp, map, delayTimers, workers, phase>>
    BY <1>6 DEF JobSettled
  <2> QED
    BY <2>1, <2>2, <2>3 DEF TypeOK, LoopTypeOK, PCs
<1> QED
  BY <1>1, <1>2, <1>3, <1>4, <1>5, <1>6 DEF LoopStep

(* Every step keeps the types, whether or not the drained event has a        *)
(* listener.                                                                 *)
LEMMA TypeStep == ASSUME TypeInv, [Next]_vars PROVE TypeInv'
<1> USE DEF TypeInv
<1>1. ASSUME NEW i \in Ids, NEW delayed \in Delays, NEW tie \in Ties, SendJob(i, delayed, tie) PROVE TypeInv'
  <2>1. LoopTypeOK' /\ CurType'
    <3>1. UNCHANGED <<cur, batch>> /\ (ProcessJobs \/ UNCHANGED <<processing, latest, pc>>)
      BY <1>1 DEF SendJob
    <3>2. CASE UNCHANGED <<processing, latest, pc>>
      BY <3>1, <3>2 DEF TypeOK, CurType, LoopTypeOK, PCs
    <3> QED
      BY <3>1, <3>2, ProcessJobsCur
  <2>2. sent' = sent + 1 /\ sent' \in 0 .. MaxSends /\ sent' \in Jobs
    BY <1>1, MemoryQueueAssumption DEF SendJob, TypeOK, Jobs
  <2>3. /\ jobId' \in [Jobs -> Ids] /\ status' \in [Jobs -> Status]
        /\ map' \in [Ids -> Jobs \cup {NoJob}] /\ attempts' = attempts
        /\ delayTimers' \subseteq Jobs
    BY <1>1, <2>2 DEF SendJob, TypeOK, Status
  <2>4. UNCHANGED <<removalTimers, workers, phase>>
    BY <1>1 DEF SendJob
  <2>5. stamp' \in [Jobs -> Stamp]
    <3>1. NewStamp(sent + 1, i, delayed, tie) \in Stamp
      BY <1>1, NewStampType, MemoryQueueAssumption DEF SendJob
    <3> QED
      BY <1>1, <2>2, <3>1 DEF TypeOK, SendJob
  <2> QED
    BY <2>1, <2>2, <2>3, <2>4, <2>5 DEF TypeOK, LoopTypeOK, PCs
<1>2. ASSUME NEW j \in Jobs, DelayDue(j) PROVE TypeInv'
  <2>1. LoopTypeOK' /\ CurType'
    BY <1>2, ProcessJobsCur DEF DelayDue
  <2>2. status' \in [Jobs -> Status] /\ delayTimers' \subseteq Jobs
    BY <1>2 DEF DelayDue, TypeOK, Status
  <2>3. UNCHANGED <<sent, jobId, stamp, attempts, map, removalTimers, workers, phase>>
    BY <1>2 DEF DelayDue
  <2> QED
    BY <2>1, <2>2, <2>3 DEF TypeOK, LoopTypeOK, PCs
<1>3. ASSUME NEW j \in Jobs, RemovalDue(j) PROVE TypeInv'
  BY <1>3 DEF RemovalDue, RemoveJob, TypeOK, CurType, loopVars
<1>4. CASE AddWorker
  <2>1. LoopTypeOK' /\ CurType'
    BY <1>4, ProcessJobsCur DEF AddWorker
  <2>2. workers' \in 0 .. MaxWorkers
    BY <1>4, MemoryQueueAssumption DEF AddWorker, TypeOK
  <2>3. UNCHANGED <<jobVars, delayTimers, removalTimers, phase>>
    BY <1>4 DEF AddWorker
  <2> QED
    BY <2>1, <2>2, <2>3 DEF TypeOK, LoopTypeOK, PCs, jobVars
<1>5. CASE RemoveWorker
  BY <1>5, MemoryQueueAssumption DEF RemoveWorker, TypeOK, CurType, jobVars, loopVars
<1>6. CASE Close \/ CloseTick
  BY <1>6 DEF Close, CloseTick, TypeOK, CurType, jobVars, loopVars
<1>7. CASE ClosingSettled
  <2>1. phase' \in {"awaiting", "closed"} /\ delayTimers' = {}
    BY <1>7 DEF ClosingSettled, AfterClosing
  <2>2. LoopTypeOK' /\ CurType'
    BY <1>7 DEF ClosingSettled, ClearTimer, TypeOK, CurType, LoopTypeOK, PCs
  <2>3. UNCHANGED <<jobVars, removalTimers, workers>>
    BY <1>7 DEF ClosingSettled
  <2> QED
    BY <2>1, <2>2, <2>3 DEF TypeOK, LoopTypeOK, PCs, jobVars
<1>8. CASE UNCHANGED vars
  BY <1>8 DEF vars, jobVars, loopVars, TypeOK, CurType
<1>9. CASE SendRejected \/ \E i \in Ids : SendExisting(i)
  BY <1>8, <1>9 DEF SendRejected, SendExisting
<1> QED
  BY <1>1, <1>2, <1>3, <1>4, <1>5, <1>6, <1>7, <1>8, <1>9, LoopStepTypes DEF Next

(* The types, for every step.                                                *)
LEMMA Types == Spec => []TypeInv
<1>1. Init => TypeInv
  <2> SUFFICES ASSUME Init PROVE TypeInv
    OBVIOUS
  <2>1. TypeOK
    BY InitInv DEF Inv
  <2>2. CurType
    BY DEF Init, CurType
  <2> QED
    BY <2>1, <2>2 DEF TypeInv
<1> QED
  BY <1>1, TypeStep, PTL DEF Spec

(* The variables keep their types, whether or not the drained event has a    *)
(* listener.                                                                 *)
THEOREM TypeCorrect == Spec => []TypeOK
<1>1. TypeInv => TypeOK
  BY DEF TypeInv
<1> QED
  BY <1>1, Types, PTL

-----------------------------------------------------------------------------
(* The stamps.  A job takes the place in _jobs of one sent before it, or     *)
(* that of its own number, and the clock does not go back.                   *)
StampInv ==
    /\ \A i \in Ids : map[i] <= sent
    /\ \A j \in 1 .. sent : /\ stamp[j].createdAt <= j
                           /\ stamp[j].place <= j
                           /\ \A k \in 1 .. j : stamp[k].createdAt <= stamp[j].createdAt

(* What the types say of the numbers in the stamps.                          *)
LEMMA StampNumbers ==
    ASSUME TypeOK, NEW j \in Jobs PROVE stamp[j].createdAt \in Nat /\ stamp[j].place \in Nat
BY MemoryQueueAssumption DEF TypeOK, Stamp

(* Only a send makes a stamp, and the map gets no job but those sent.        *)
LEMMA StampStep == ASSUME TypeInv, StampInv, [Next]_vars PROVE StampInv'
<1>1. map \in [Ids -> Jobs \cup {NoJob}] /\ sent \in 0 .. MaxSends /\ stamp \in [Jobs -> Stamp]
  BY DEF TypeInv, TypeOK
<1>0. \A i \in Ids : map[i] \in Nat
  <2>1. Jobs \cup {NoJob} \subseteq Nat
    BY MemoryQueueAssumption DEF Jobs, NoJob
  <2> QED
    BY <1>1, <2>1
<1>2. ASSUME UNCHANGED <<sent, stamp>>, \A i \in Ids : map'[i] = map[i] \/ map'[i] = NoJob
      PROVE  StampInv'
  <2>1. \A i \in Ids : map'[i] <= sent'
    BY <1>1, <1>2, MemoryQueueAssumption DEF StampInv, NoJob
  <2> QED
    BY <1>2, <2>1 DEF StampInv
<1>3. ASSUME NEW i \in Ids, NEW delayed \in Delays, NEW tie \in Ties, SendJob(i, delayed, tie)
      PROVE  StampInv'
  <2> DEFINE n == sent + 1
             new == NewStamp(n, i, delayed, tie)
  <2>1. /\ sent \in Nat /\ n \in Jobs /\ 1 .. sent \subseteq Jobs /\ Jobs \subseteq Nat
        /\ sent' = n /\ 1 .. n = 1 .. sent \cup {n} /\ n \notin 1 .. sent
    BY <1>1, <1>3, MemoryQueueAssumption DEF SendJob, Jobs
  <2>2. stamp'[n] = new /\ \A j \in 1 .. sent : stamp'[j] = stamp[j]
    BY <1>1, <1>3, <2>1 DEF SendJob
  <2>3. \A k \in Ids : map'[k] <= sent'
    <3> SUFFICES ASSUME NEW k \in Ids PROVE map'[k] <= n
      BY <2>1
    <3>1. map'[k] = IF k = i THEN n ELSE map[k]
      BY <1>1, <1>3 DEF SendJob
    <3>2. map[k] \in Nat /\ map[k] <= sent
      BY <1>0 DEF StampInv
    <3> QED
      BY <2>1, <3>1, <3>2
  <2>4. new.place <= n
    <3>1. CASE map[i] = NoJob
      BY <2>1, <3>1 DEF NewStamp
    <3>2. CASE map[i] # NoJob
      <4>1. map[i] \in 1 .. sent
        BY <1>1, <2>1, <3>2, MemoryQueueAssumption DEF StampInv, Jobs
      <4>2. stamp[map[i]].place \in Nat /\ stamp[map[i]].place <= map[i] /\ map[i] \in Nat
        BY <2>1, <4>1, StampNumbers DEF StampInv, TypeInv
      <4> QED
        BY <2>1, <3>2, <4>1, <4>2 DEF NewStamp
    <3> QED
      BY <3>1, <3>2
  <2>5. new.createdAt <= n /\ \A k \in 1 .. sent : stamp[k].createdAt <= new.createdAt
    <3>1. \A k \in 1 .. sent : stamp[k].createdAt \in Nat /\ stamp[k].createdAt <= k /\ k \in Nat
      BY <2>1, StampNumbers DEF StampInv, TypeInv
    <3>2. CASE tie /\ sent > 0
      <4>1. new.createdAt = stamp[sent].createdAt /\ sent \in 1 .. sent
        BY <2>1, <3>2 DEF NewStamp
      <4> QED
        BY <2>1, <3>1, <4>1 DEF StampInv
    <3>3. CASE ~(tie /\ sent > 0)
      <4>1. new.createdAt = n
        BY <3>3 DEF NewStamp
      <4> QED
        BY <2>1, <3>1, <4>1
    <3> QED
      BY <3>2, <3>3
  <2>6. new.createdAt <= new.createdAt
    <3>1. new \in Stamp
      BY <1>3, NewStampType, MemoryQueueAssumption DEF SendJob, TypeInv
    <3> QED
      BY <3>1, MemoryQueueAssumption DEF Stamp
  <2> HIDE DEF new
  <2>7. ASSUME NEW j \in 1 .. n
        PROVE  /\ stamp'[j].createdAt <= j
               /\ stamp'[j].place <= j
               /\ \A k \in 1 .. j : stamp'[k].createdAt <= stamp'[j].createdAt
    <3>1. CASE j = n
      BY <2>1, <2>2, <2>4, <2>5, <2>6, <3>1
    <3>2. CASE j \in 1 .. sent
      <4>1. 1 .. j \subseteq 1 .. sent
        BY <2>1, <3>2
      <4> QED
        BY <2>2, <3>2, <4>1 DEF StampInv
    <3> QED
      BY <2>1, <3>1, <3>2
  <2> QED
    BY <2>1, <2>3, <2>7 DEF StampInv
<1>4. ASSUME NEW l \in Loops, LoopStep(l) PROVE StampInv'
  BY <1>2, <1>4
     DEF LoopStep, StartBatch, StartNothing, DrainedSettled, WorkerSucceeds, WorkerFails,
         JobSettled, jobVars
<1>5. ASSUME NEW j \in Jobs, DelayDue(j) \/ RemovalDue(j) PROVE StampInv'
  BY <1>1, <1>2, <1>5 DEF DelayDue, RemovalDue, RemoveJob
<1>6. CASE AddWorker \/ RemoveWorker \/ Close \/ ClosingSettled \/ CloseTick
  BY <1>2, <1>6 DEF AddWorker, RemoveWorker, Close, ClosingSettled, CloseTick, jobVars
<1>7. CASE UNCHANGED vars
  BY <1>2, <1>7 DEF vars, jobVars
<1>8. CASE SendRejected \/ \E i \in Ids : SendExisting(i)
  BY <1>7, <1>8 DEF SendRejected, SendExisting
<1> QED
  BY <1>3, <1>4, <1>5, <1>6, <1>7, <1>8 DEF Next

(* Of two jobs, the one sent first is sorted first, when it is of an earlier *)
(* millisecond or the other one has not taken the place of a completed job.  *)
LEMMA EarlierIsBefore ==
    ASSUME TypeOK, StampInv, NEW j \in Jobs, NEW k \in Jobs, k < j, j <= sent,
           stamp[k].createdAt < stamp[j].createdAt \/ stamp[j].place = j
    PROVE  Before(k, j)
<1>1. j \in 1 .. sent /\ k \in 1 .. j /\ k \in 1 .. sent /\ j \in Nat /\ k \in Nat
  BY MemoryQueueAssumption DEF TypeOK, Jobs
<1>2. stamp[k].createdAt <= stamp[j].createdAt /\ stamp[k].place <= k
  BY <1>1 DEF StampInv
<1>3. /\ stamp[k].createdAt \in Nat /\ stamp[j].createdAt \in Nat
      /\ stamp[k].place \in Nat /\ stamp[j].place \in Nat
  BY StampNumbers
<1> QED
  BY <1>1, <1>2, <1>3 DEF Before

(* The order of the sorted jobs is one.                                      *)
LEMMA BeforeTransitive ==
    ASSUME TypeOK, NEW i \in Jobs, NEW j \in Jobs, NEW k \in Jobs, Before(i, j), Before(j, k)
    PROVE  Before(i, k)
<1>1. \A m \in Jobs : stamp[m].createdAt \in Nat /\ stamp[m].place \in Nat
  BY StampNumbers
<1> QED
  BY <1>1 DEF Before

LEMMA BeforeIrreflexive == ASSUME TypeOK, NEW j \in Jobs PROVE ~Before(j, j)
BY StampNumbers DEF Before

(* A job sent without a delay that waits and was never tried.                *)
Fresh(k) == status[k] = "waiting" /\ attempts[k] = 0 /\ ~stamp[k].delayed

(* With a listener of the drained event or without one: a job that a loop    *)
(* has still to process has those sent and sorted before it, of the jobs     *)
(* never tried, in the same batch.  Whatever runs or is to be cleaned up was *)
(* tried, so that the jobs never tried are in the map.                       *)
OrderInv ==
    /\ \A j \in delayTimers : j <= sent /\ stamp[j].delayed
    /\ \A j \in Jobs : j > sent => status[j] = "none"
    /\ \A l \in Loops : pc[l] \in {"running", "settling", "retrying"} =>
         attempts[cur[l]] > 0 /\ cur[l] <= sent
    /\ \A j \in removalTimers : attempts[j] > 0
    /\ \A k \in Jobs : Fresh(k) => map[jobId[k]] = k
    /\ \A l \in Loops : \A j \in batch[l] :
         j <= sent /\ \A k \in Jobs : k < j /\ Before(k, j) /\ Fresh(k) => k \in batch[l]

(* Of the waiting jobs, those before one that is taken are taken.            *)
LEMMA SliceClosed ==
    ASSUME TypeOK, NEW j \in JobsToProcess, NEW k \in InMap("waiting"), Before(k, j)
    PROVE  k \in JobsToProcess
<1> DEFINE W == InMap("waiting")
           A == {i \in W : Before(i, k)}
           B == {i \in W : Before(i, j)}
<1>1. W \subseteq Jobs /\ j \in W /\ k \in W
  BY DEF InMap, Held, TypeOK, JobsToProcess
<1>2. IsFiniteSet(Jobs)
  BY MemoryQueueAssumption, FS_Interval DEF Jobs
<1> HIDE DEF W
<1>3. IsFiniteSet(B) /\ IsFiniteSet(A)
  <2>1. B \subseteq Jobs /\ A \subseteq Jobs
    BY <1>1
  <2> HIDE DEF A, B
  <2> QED
    BY <1>2, <2>1, FS_Subset
<1>4. A \subseteq B
  <2>1. ASSUME NEW i \in W, Before(i, k) PROVE Before(i, j)
    <3>1. i \in Jobs /\ k \in Jobs /\ j \in Jobs
      BY <1>1
    <3> QED
      BY <2>1, <3>1, BeforeTransitive
  <2> QED
    BY <2>1
<1>5. Cardinality(B) < workers
  BY DEF JobsToProcess, W
<1>6. Cardinality(A) <= Cardinality(B) /\ Cardinality(A) \in Nat /\ Cardinality(B) \in Nat
  <2> HIDE DEF A, B
  <2> QED
    BY <1>3, <1>4, FS_Subset, FS_CardinalityType
<1>7. Cardinality(A) < workers
  <2> HIDE DEF A, B
  <2>1. workers \in Nat
    BY MemoryQueueAssumption DEF TypeOK
  <2> QED
    BY <1>5, <1>6, <2>1
<1> QED
  BY <1>1, <1>7 DEF JobsToProcess, W

(* A job that is started has those sent and sorted before it that were never *)
(* tried among those it was chosen from; so there are none.                  *)
Closed(jobs) ==
    /\ jobs \in SUBSET Jobs
    /\ \A j \in jobs :
         j <= sent /\ \A k \in Jobs : k < j /\ Before(k, j) /\ Fresh(k) => k \in jobs

(* The jobs a timer takes are closed,                                        *)
LEMMA JobsToProcessClosed == ASSUME TypeInv, OrderInv PROVE Closed(JobsToProcess)
<1> USE DEF TypeInv
<1>1. JobsToProcess \in SUBSET Jobs /\ \A j \in JobsToProcess : status[j] = "waiting"
  BY DEF TypeOK, JobsToProcess, InMap, Held
<1>2. ASSUME NEW j \in JobsToProcess PROVE j <= sent
  <2>1. j \in Jobs /\ status[j] # "none"
    BY <1>1
  <2> QED
    BY <2>1, MemoryQueueAssumption DEF OrderInv, Jobs, TypeOK
<1>3. ASSUME NEW j \in JobsToProcess, NEW k \in Jobs, Before(k, j), Fresh(k)
      PROVE  k \in JobsToProcess
  <2>1. map[jobId[k]] = k /\ jobId[k] \in Ids /\ k # NoJob
    BY <1>3, MemoryQueueAssumption DEF OrderInv, TypeOK, Jobs, NoJob
  <2>2. k \in InMap("waiting")
    BY <1>3, <2>1 DEF InMap, Held, Fresh
  <2> QED
    BY <1>3, <2>2, SliceClosed
<1> QED
  BY <1>1, <1>2, <1>3 DEF Closed

(* and so are those a loop has left.                                         *)
LEMMA BatchClosed == ASSUME TypeInv, OrderInv, NEW l \in Loops PROVE Closed(batch[l])
BY DEF TypeInv, TypeOK, OrderInv, Closed

(* What starts a job starts the first of those never tried, and leaves the   *)
(* others closed.                                                            *)
LEMMA ActivateOrder ==
    ASSUME TypeInv, OrderInv, NEW l \in Loops, NEW jobs, Closed(jobs), Activate(l, jobs),
           UNCHANGED <<sent, jobId, stamp, map, delayTimers>>,
           \A j \in removalTimers' : j \in removalTimers \/ (j \in Jobs /\ attempts[j] > 0)
    PROVE  /\ OrderInv'
           /\ \A j, k \in Jobs : status[j] # "active" /\ status'[j] = "active" /\ k < j /\ Before(k, j)
             => ~Fresh(k)
<1>1. PICK j \in jobs :
        /\ \A k \in jobs \ {j} : Before(j, k)
        /\ status' = [status EXCEPT ![j] = "active"]
        /\ attempts' = [attempts EXCEPT ![j] = attempts[j] + 1]
        /\ cur' = [cur EXCEPT ![l] = j]
        /\ batch' = [batch EXCEPT ![l] = jobs \ {j}]
        /\ pc' = [pc EXCEPT ![l] = "running"]
  BY DEF Activate
<1>2. /\ j \in Jobs /\ jobs \subseteq Jobs /\ j <= sent /\ status \in [Jobs -> Status]
      /\ attempts \in [Jobs -> Nat] /\ cur \in [Loops -> Jobs \cup {NoJob}]
      /\ batch \in [Loops -> SUBSET Jobs] /\ removalTimers \subseteq Jobs
      /\ sent \in Nat /\ Jobs \subseteq Nat
  BY MemoryQueueAssumption DEF Closed, TypeInv, TypeOK, Jobs
<1>3. /\ \A k \in Jobs : attempts'[k] = IF k = j THEN attempts[j] + 1 ELSE attempts[k]
      /\ \A k \in Jobs : status'[k] = IF k = j THEN "active" ELSE status[k]
  BY <1>1, <1>2
<1>4. \A k \in Jobs : /\ Fresh(k)' <=> Fresh(k) /\ k # j
                     /\ \A i \in Jobs : Before(k, i)' <=> Before(k, i)
  BY <1>2, <1>3 DEF Fresh, Before
<1>5. \A k \in Jobs : attempts[k] > 0 => attempts'[k] > 0
  BY <1>2, <1>3
<1>6. /\ \A k \in delayTimers' : k <= sent' /\ stamp'[k].delayed
      /\ \A k \in Jobs : k > sent' => status'[k] = "none"
  BY <1>2, <1>3 DEF OrderInv
<1>7. ASSUME NEW m \in Loops, pc'[m] \in {"running", "settling", "retrying"}
      PROVE  attempts'[cur'[m]] > 0 /\ cur'[m] <= sent'
  <2>1. CASE m = l
    <3>1. cur'[m] = j
      BY <1>1, <1>2, <2>1
    <3> QED
      BY <1>2, <1>3, <3>1
  <2>2. CASE m # l
    <3>1. cur'[m] = cur[m] /\ pc'[m] = pc[m]
      BY <1>1, <1>2, <2>2 DEF TypeInv, TypeOK
    <3>2. cur[m] \in Jobs /\ attempts[cur[m]] > 0 /\ cur[m] <= sent
      BY <1>7, <3>1 DEF TypeInv, CurType, OrderInv
    <3> QED
      BY <1>5, <3>1, <3>2
  <2> QED
    BY <2>1, <2>2
<1>8. \A k \in removalTimers' : attempts'[k] > 0
  BY <1>2, <1>5 DEF OrderInv
<1>9. \A k \in Jobs : Fresh(k)' => map'[jobId'[k]] = k
  BY <1>4 DEF OrderInv
<1>10. ASSUME NEW m \in Loops, NEW i \in batch'[m]
       PROVE  i <= sent' /\ \A k \in Jobs : k < i /\ Before(k, i)' /\ Fresh(k)' => k \in batch'[m]
  <2>1. CASE m = l
    <3>1. batch'[m] = jobs \ {j}
      BY <1>1, <1>2, <2>1
    <3> QED
      BY <1>4, <1>10, <3>1 DEF Closed
  <2>2. CASE m # l
    <3>1. batch'[m] = batch[m] /\ i \in Jobs
      BY <1>1, <1>2, <1>10, <2>2
    <3>2. /\ i <= sent
          /\ \A k \in Jobs : k < i /\ Before(k, i) /\ Fresh(k) => k \in batch[m]
      BY <1>10, <3>1 DEF OrderInv
    <3> QED
      BY <1>4, <3>1, <3>2
  <2> QED
    BY <2>1, <2>2
<1>11. OrderInv'
  BY <1>6, <1>7, <1>8, <1>9, <1>10 DEF OrderInv
<1>12. ASSUME NEW i \in Jobs, NEW k \in Jobs, status[i] # "active", status'[i] = "active", k < i,
              Before(k, i), Fresh(k)
       PROVE  FALSE
  <2>1. i = j
    BY <1>3, <1>12
  <2>2. k \in jobs
    BY <1>12, <2>1 DEF Closed
  <2>3. k # j /\ Before(j, k)
    BY <1>1, <1>2, <1>12, <2>1, <2>2
  <2> QED
    BY <1>2, <1>12, <2>1, <2>3, BeforeTransitive, BeforeIrreflexive DEF TypeInv
<1> QED
  BY <1>11, <1>12

(* A step that starts no job, and makes none of the jobs never tried, leaves *)
(* their order.                                                              *)
LEMMA QuietOrder ==
    ASSUME TypeInv, OrderInv,
           UNCHANGED <<sent, jobId, stamp, attempts>>, delayTimers' \subseteq delayTimers,
           \A j \in Jobs : /\ Fresh(j)' => Fresh(j)
                           /\ j > sent => status'[j] = "none"
                           /\ Fresh(j) => map'[jobId[j]] = map[jobId[j]]
                           /\ status'[j] = "active" => status[j] = "active",
           \A l \in Loops : \/ pc'[l] \notin {"running", "settling", "retrying"}
                            \/ pc[l] \in {"running", "settling", "retrying"} /\ cur'[l] = cur[l],
           \A l \in Loops : batch'[l] = {} \/ batch'[l] = batch[l],
           \A j \in removalTimers' : j \in removalTimers \/ attempts[j] > 0
    PROVE  /\ OrderInv'
           /\ \A j, k \in Jobs : status[j] # "active" /\ status'[j] = "active" /\ k < j /\ Before(k, j)
             => ~Fresh(k)
<1>1. /\ \A j \in delayTimers' : j <= sent' /\ stamp'[j].delayed
      /\ \A j \in Jobs : j > sent' => status'[j] = "none"
  BY DEF OrderInv
<1>2. \A l \in Loops : pc'[l] \in {"running", "settling", "retrying"} =>
        attempts'[cur'[l]] > 0 /\ cur'[l] <= sent'
  BY DEF OrderInv
<1>3. \A j \in removalTimers' : attempts'[j] > 0
  BY DEF OrderInv
<1>4. \A k \in Jobs : Fresh(k)' => map'[jobId'[k]] = k
  BY DEF OrderInv
<1>5. \A l \in Loops : \A j \in batch'[l] :
        j <= sent' /\ \A k \in Jobs : k < j /\ Before(k, j)' /\ Fresh(k)' => k \in batch'[l]
  <2> SUFFICES ASSUME NEW l \in Loops, NEW j \in batch'[l]
               PROVE  /\ j <= sent'
                      /\ \A k \in Jobs : k < j /\ Before(k, j)' /\ Fresh(k)' => k \in batch'[l]
    OBVIOUS
  <2>1. batch'[l] = batch[l]
    OBVIOUS
  <2> QED
    BY <2>1 DEF OrderInv, Before
<1>6. OrderInv'
  BY <1>1, <1>2, <1>3, <1>4, <1>5 DEF OrderInv
<1> QED
  BY <1>6


(* What a step keeps of the order, and that it starts no job before one that *)
(* was never tried.                                                          *)
Ordered ==
    /\ OrderInv'
    /\ \A j, k \in Jobs : status[j] # "active" /\ status'[j] = "active" /\ k < j /\ Before(k, j)
             => ~Fresh(k)

(* A loop goes on.                                                           *)
LEMMA LoopStepOrder == ASSUME TypeInv, OrderInv, NEW l \in Loops, LoopStep(l) PROVE Ordered
<1> USE DEF Ordered
<1>0. /\ pc \in [Loops -> PCs] /\ cur \in [Loops -> Jobs \cup {NoJob}]
      /\ batch \in [Loops -> SUBSET Jobs] /\ status \in [Jobs -> Status]
      /\ attempts \in [Jobs -> Nat]
  BY DEF TypeInv, TypeOK, PCs
<1>1. CASE StartBatch(l)
  <2>1. Closed(JobsToProcess)
    BY JobsToProcessClosed
  <2>2. Activate(l, JobsToProcess)
    BY <1>1 DEF StartBatch
  <2>3. UNCHANGED <<sent, jobId, stamp, map, delayTimers, removalTimers>>
    BY <1>1 DEF StartBatch
  <2>4. \A j \in removalTimers' : j \in removalTimers \/ (j \in Jobs /\ attempts[j] > 0)
    BY <2>3
  <2> QED
    BY <2>1, <2>2, <2>3, <2>4, ActivateOrder
<1>2. ASSUME Finish(l), UNCHANGED <<status, attempts, sent, jobId, stamp, map, delayTimers>>,
             \A j \in removalTimers' : j \in removalTimers \/ attempts[j] > 0
      PROVE  Ordered
  <2>1. \A m \in Loops : \/ pc'[m] \notin {"running", "settling", "retrying"}
                         \/ pc[m] \in {"running", "settling", "retrying"} /\ cur'[m] = cur[m]
    BY <1>0, <1>2 DEF Finish
  <2>2. \A m \in Loops : batch'[m] = {} \/ batch'[m] = batch[m]
    BY <1>0, <1>2 DEF Finish
  <2>3. \A j \in Jobs : /\ Fresh(j)' => Fresh(j)
                        /\ j > sent => status'[j] = "none"
                        /\ Fresh(j) => map'[jobId[j]] = map[jobId[j]]
                        /\ status'[j] = "active" => status[j] = "active"
    BY <1>2 DEF Fresh, OrderInv
  <2> QED
    BY <1>2, <2>1, <2>2, <2>3, QuietOrder
<1>3. CASE StartNothing(l)
  <2>1. CASE Finish(l)
    BY <1>2, <1>3, <2>1 DEF StartNothing, jobVars
  <2>2. CASE pc' = [pc EXCEPT ![l] = "draining"] /\ UNCHANGED <<cur, batch>>
    <3>1. UNCHANGED <<sent, jobId, stamp, attempts, status, map, delayTimers, removalTimers>>
      BY <1>3 DEF StartNothing, jobVars
    <3>2. \A j \in Jobs : /\ Fresh(j)' => Fresh(j)
                          /\ j > sent => status'[j] = "none"
      BY <3>1 DEF Fresh, OrderInv
    <3>3. \A m \in Loops : \/ pc'[m] \notin {"running", "settling", "retrying"}
                           \/ pc[m] \in {"running", "settling", "retrying"} /\ cur'[m] = cur[m]
      BY <1>0, <2>2
    <3> QED
      BY <2>2, <3>1, <3>2, <3>3, QuietOrder
  <2> QED
    BY <1>3, <2>1, <2>2 DEF StartNothing
<1>4. CASE DrainedSettled(l)
  BY <1>2, <1>4 DEF DrainedSettled, jobVars
<1>5. ASSUME NEW after \in Status \ {"active"}, NEW p \in {"settling", "retrying"},
             pc[l] = "running",
             status' = [status EXCEPT ![cur[l]] = after],
             pc' = [pc EXCEPT ![l] = p],
             UNCHANGED <<sent, jobId, stamp, attempts, map, delayTimers, removalTimers, cur, batch>>
      PROVE  Ordered
  <2>1. cur[l] \in Jobs /\ attempts[cur[l]] > 0 /\ cur[l] <= sent /\ sent \in Nat /\ Jobs \subseteq Nat
    BY <1>5, MemoryQueueAssumption DEF TypeInv, TypeOK, CurType, OrderInv, Jobs
  <2>2. \A j \in Jobs : /\ Fresh(j)' => Fresh(j)
                        /\ j > sent => status'[j] = "none"
                        /\ status'[j] = "active" => status[j] = "active"
    <3> SUFFICES ASSUME NEW j \in Jobs
                 PROVE  /\ Fresh(j)' => Fresh(j)
                        /\ j > sent => status'[j] = "none"
                        /\ status'[j] = "active" => status[j] = "active"
      OBVIOUS
    <3>1. CASE j = cur[l]
      BY <1>0, <1>5, <2>1, <3>1 DEF Fresh
    <3>2. CASE j # cur[l]
      BY <1>0, <1>5, <3>2 DEF Fresh, OrderInv
    <3> QED
      BY <3>1, <3>2
  <2>3. \A m \in Loops : \/ pc'[m] \notin {"running", "settling", "retrying"}
                         \/ pc[m] \in {"running", "settling", "retrying"} /\ cur'[m] = cur[m]
    BY <1>0, <1>5
  <2> QED
    BY <1>5, <2>2, <2>3, QuietOrder
<1>6. CASE WorkerSucceeds(l)
  BY <1>5, <1>6 DEF WorkerSucceeds, Status
<1>7. CASE WorkerFails(l)
  <2>1. StatusAfterError(cur[l]) \in Status \ {"active"}
    BY DEF StatusAfterError, Status
  <2>2. PICK p \in {"settling", "retrying"} : pc' = [pc EXCEPT ![l] = p]
    BY <1>7 DEF WorkerFails
  <2> QED
    BY <1>5, <1>7, <2>1, <2>2 DEF WorkerFails
<1>8. CASE JobSettled(l)
  <2>1. \A j \in removalTimers' : j \in removalTimers \/ (j \in Jobs /\ attempts[j] > 0)
    BY <1>8 DEF JobSettled, JustFinished, TypeInv, CurType, OrderInv
  <2>2. CASE Activate(l, batch[l])
    BY <1>8, <2>1, <2>2, BatchClosed, ActivateOrder DEF JobSettled
  <2>3. CASE Finish(l) /\ UNCHANGED <<status, attempts>>
    BY <1>2, <1>8, <2>1, <2>3 DEF JobSettled
  <2> QED
    BY <1>8, <2>2, <2>3 DEF JobSettled
<1> QED
  BY <1>1, <1>3, <1>4, <1>6, <1>7, <1>8 DEF LoopStep

(* A job is sent after all the others, under an id whose job was tried.      *)
LEMMA SendJobOrder ==
    ASSUME TypeInv, OrderInv, NEW i \in Ids, NEW delayed \in Delays, NEW tie \in Ties,
           SendJob(i, delayed, tie)
    PROVE  Ordered
<1> DEFINE n == sent + 1
<1>1. n \in Jobs /\ sent \in Nat /\ Jobs \subseteq Nat
  BY MemoryQueueAssumption DEF SendJob, TypeInv, TypeOK, Jobs
<1>2. /\ sent' = n /\ jobId' = [jobId EXCEPT ![n] = i] /\ map' = [map EXCEPT ![i] = n]
      /\ status' = [status EXCEPT ![n] = IF delayed THEN "delayed" ELSE "waiting"]
      /\ stamp' = [stamp EXCEPT ![n] = NewStamp(n, i, delayed, tie)]
      /\ UNCHANGED <<attempts, removalTimers, cur, batch>>
      /\ Reusable(i)
      /\ delayTimers' = (IF delayed THEN delayTimers \cup {n} ELSE delayTimers)
      /\ ProcessJobs \/ pc' = pc
  BY DEF SendJob
<1>3. /\ pc \in [Loops -> PCs] /\ status \in [Jobs -> Status] /\ map \in [Ids -> Jobs \cup {NoJob}]
      /\ jobId \in [Jobs -> Ids] /\ batch \in [Loops -> SUBSET Jobs]
      /\ stamp \in [Jobs -> Stamp] /\ delayTimers \subseteq Jobs
  BY DEF TypeInv, TypeOK, PCs
<1> HIDE DEF n
<1>4. \A j \in Jobs : j # n => /\ Fresh(j)' <=> Fresh(j)
                             /\ \A k \in Jobs : k # n => (Before(k, j)' <=> Before(k, j))
  BY <1>2, <1>3 DEF Fresh, Before
<1>5. \A j \in Jobs : j > sent' => status'[j] = "none"
  BY <1>1, <1>2, <1>3 DEF OrderInv, n
<1>6. \A l \in Loops : pc'[l] \in {"running", "settling", "retrying"} =>
        pc[l] \in {"running", "settling", "retrying"}
  BY <1>2, <1>3 DEF ProcessJobs
<1>7. \A l \in Loops : pc'[l] \in {"running", "settling", "retrying"} =>
        attempts'[cur'[l]] > 0 /\ cur'[l] <= sent'
  <2> SUFFICES ASSUME NEW l \in Loops, pc[l] \in {"running", "settling", "retrying"}
               PROVE  attempts[cur[l]] > 0 /\ cur[l] <= n
    BY <1>2, <1>6
  <2>1. cur[l] \in Nat /\ attempts[cur[l]] > 0 /\ cur[l] <= sent
    BY <1>1 DEF TypeInv, CurType, OrderInv
  <2> QED
    BY <1>1, <2>1 DEF n
<1>8. ASSUME NEW k \in Jobs, Fresh(k)' PROVE map'[jobId'[k]] = k
  <2>1. CASE k = n
    BY <1>1, <1>2, <1>3, <2>1
  <2>2. CASE k # n
    <3>1. Fresh(k) /\ map[jobId[k]] = k /\ jobId'[k] = jobId[k] /\ jobId[k] \in Ids
      BY <1>2, <1>3, <1>4, <1>8, <2>2 DEF OrderInv
    <3>2. jobId[k] # i
      <4>1. ASSUME jobId[k] = i PROVE FALSE
        <5>1. map[i] = k /\ k # NoJob
          BY <1>1, <3>1, <4>1, MemoryQueueAssumption DEF Jobs, NoJob
        <5> QED
          BY <1>2, <3>1, <5>1 DEF Reusable, Fresh
      <4> QED
        BY <4>1
    <3> QED
      BY <1>2, <1>3, <3>1, <3>2
  <2> QED
    BY <2>1, <2>2
<1>9. ASSUME NEW l \in Loops, NEW j \in batch'[l]
      PROVE  j <= sent' /\ \A k \in Jobs : k < j /\ Before(k, j)' /\ Fresh(k)' => k \in batch'[l]
  <2>1. /\ batch'[l] = batch[l] /\ j \in Jobs /\ j \in Nat /\ j <= sent
        /\ \A k \in Jobs : k < j /\ Before(k, j) /\ Fresh(k) => k \in batch[l]
    BY <1>1, <1>2, <1>3, <1>9 DEF OrderInv
  <2>2. j <= n /\ j # n /\ ~(n < j)
    BY <1>1, <2>1 DEF n
  <2> QED
    BY <1>2, <1>4, <2>1, <2>2
<1>10. \A j \in delayTimers' : j <= sent' /\ stamp'[j].delayed
  <2>1. ASSUME NEW j \in delayTimers PROVE j <= n /\ stamp'[j].delayed
    <3>1. j \in Jobs /\ j <= sent /\ j # n /\ stamp[j].delayed
      BY <1>1, <1>3 DEF OrderInv, n
    <3> QED
      BY <1>1, <1>2, <1>3, <3>1 DEF n
  <2>2. delayed => stamp'[n].delayed
    BY <1>1, <1>2, <1>3 DEF NewStamp
  <2> QED
    BY <1>1, <1>2, <2>1, <2>2 DEF n
<1>11. OrderInv'
  BY <1>2, <1>5, <1>7, <1>8, <1>9, <1>10 DEF OrderInv
<1>12. \A j \in Jobs : status'[j] = "active" => status[j] = "active"
  BY <1>2, <1>3
<1> QED
  BY <1>11, <1>12 DEF Ordered

(* Every step.                                                               *)
LEMMA NextOrder == ASSUME TypeInv, OrderInv, [Next]_vars PROVE Ordered
<1>1. ASSUME NEW i \in Ids, NEW delayed \in Delays, NEW tie \in Ties, SendJob(i, delayed, tie)
      PROVE  Ordered
  BY <1>1, SendJobOrder
<1>2. ASSUME UNCHANGED <<sent, jobId, stamp, attempts, status, cur, batch>>,
             delayTimers' \subseteq delayTimers, removalTimers' \subseteq removalTimers,
             \A j \in Jobs : Fresh(j) => map'[jobId[j]] = map[jobId[j]],
             \A l \in Loops : pc'[l] = pc[l] \/ pc'[l] \in {"idle", "timer"}
      PROVE  Ordered
  <2>1. \A j \in Jobs : (Fresh(j)' => Fresh(j)) /\ (j > sent => status'[j] = "none")
    BY <1>2 DEF Fresh, OrderInv
  <2>2. \A l \in Loops : \/ pc'[l] \notin {"running", "settling", "retrying"}
                         \/ pc[l] \in {"running", "settling", "retrying"} /\ cur'[l] = cur[l]
    BY <1>2
  <2> QED
    BY <1>2, <2>1, <2>2, QuietOrder DEF Ordered
<1>3. pc \in [Loops -> PCs]
  BY DEF TypeInv, TypeOK, PCs
<1>4. CASE AddWorker
  <2>1. \A l \in Loops : pc'[l] = pc[l] \/ pc'[l] \in {"idle", "timer"}
    BY <1>3, <1>4 DEF AddWorker, ProcessJobs
  <2> QED
    BY <1>2, <1>4, <2>1 DEF AddWorker, jobVars
<1>5. CASE RemoveWorker \/ Close \/ CloseTick
  BY <1>2, <1>5 DEF RemoveWorker, Close, CloseTick, jobVars, loopVars
<1>6. CASE ClosingSettled
  <2>1. \A l \in Loops : pc'[l] = pc[l] \/ pc'[l] \in {"idle", "timer"}
    BY <1>3, <1>6 DEF ClosingSettled, ClearTimer
  <2> QED
    BY <1>2, <1>6, <2>1 DEF ClosingSettled, jobVars
<1>7. ASSUME NEW j \in Jobs, RemovalDue(j) PROVE Ordered
  <2>1. ASSUME NEW k \in Jobs, Fresh(k) PROVE map'[jobId[k]] = map[jobId[k]]
    <3>1. map[jobId[k]] = k /\ k # j
      BY <1>7, <2>1 DEF OrderInv, RemovalDue, Fresh
    <3> QED
      BY <1>7, <3>1 DEF RemovalDue, RemoveJob, TypeInv, TypeOK
  <2> QED
    BY <1>2, <1>7, <2>1 DEF RemovalDue, loopVars
<1>8. ASSUME NEW j \in Jobs, DelayDue(j) PROVE Ordered
  <2>1. /\ j <= sent /\ stamp[j].delayed /\ sent \in Nat /\ j \in Nat
        /\ status \in [Jobs -> Status]
    BY <1>8, MemoryQueueAssumption DEF OrderInv, DelayDue, TypeInv, TypeOK, Jobs
  <2>2. /\ UNCHANGED <<sent, jobId, stamp, attempts, map, removalTimers, cur, batch>>
        /\ delayTimers' \subseteq delayTimers
        /\ status' = [status EXCEPT ![j] = "waiting"]
    BY <1>8 DEF DelayDue
  <2>3. \A k \in Jobs : /\ Fresh(k)' => Fresh(k)
                        /\ k > sent => status'[k] = "none"
                        /\ status'[k] = "active" => status[k] = "active"
    BY <2>1, <2>2 DEF Fresh, OrderInv
  <2>4. \A l \in Loops : \/ pc'[l] \notin {"running", "settling", "retrying"}
                         \/ pc[l] \in {"running", "settling", "retrying"} /\ cur'[l] = cur[l]
    BY <1>3, <1>8, <2>2 DEF DelayDue, ProcessJobs
  <2> QED
    BY <2>2, <2>3, <2>4, QuietOrder DEF Ordered
<1>9. CASE UNCHANGED vars
  BY <1>2, <1>9 DEF vars, jobVars, loopVars
<1>10. CASE SendRejected \/ \E i \in Ids : SendExisting(i)
  BY <1>9, <1>10 DEF SendRejected, SendExisting
<1> QED
  BY <1>1, <1>4, <1>5, <1>6, <1>7, <1>8, <1>9, <1>10, LoopStepOrder DEF Next

(* A job that was sent without a delay and never tried does not see a job    *)
(* sent after it start first, unless that one is of the same millisecond and *)
(* has taken the place of a completed job, for every number of workers,      *)
(* loops and ids, whether other jobs have delays, and whether or not the     *)
(* drained event has a listener.                                             *)
THEOREM StartsOldestFirst == Spec => OldestFirst
<1>1. Init => OrderInv /\ StampInv
  BY DEF Init, OrderInv, StampInv, Fresh, NoJob
<1>2. TypeInv /\ OrderInv /\ StampInv /\ [Next]_vars => OrderInv' /\ StampInv'
  BY NextOrder, StampStep DEF Ordered
<1>3. TypeInv /\ OrderInv /\ StampInv /\ [Next]_vars =>
        [\A j, k \in Jobs :
           /\ status[j] # "active" /\ status'[j] = "active"
           /\ k < j /\ ~stamp[k].delayed
           /\ stamp[k].createdAt < stamp[j].createdAt \/ stamp[j].place = j
           => ~(status[k] = "waiting" /\ attempts[k] = 0)]_vars
  <2> SUFFICES ASSUME TypeInv, OrderInv, StampInv, Next, NEW j \in Jobs, NEW k \in Jobs,
                      status[j] # "active", status'[j] = "active", k < j, ~stamp[k].delayed,
                      stamp[k].createdAt < stamp[j].createdAt \/ stamp[j].place = j
               PROVE  ~(status[k] = "waiting" /\ attempts[k] = 0)
    OBVIOUS
  <2>1. Ordered
    BY NextOrder
  <2>2. j <= sent
    <3>1. status'[j] # "none" /\ j \in Nat /\ sent' \in Nat
      BY TypeStep, MemoryQueueAssumption DEF TypeInv, TypeOK, Jobs
    <3>2. j <= sent'
      BY <2>1, <3>1 DEF Ordered, OrderInv
    <3>3. CASE \E i \in Ids, delayed \in Delays, tie \in Ties : SendJob(i, delayed, tie)
      <4>1. status'[j] = status[j] \/ status'[j] \in {"delayed", "waiting"}
        BY <3>3 DEF SendJob, TypeInv, TypeOK
      <4> QED
        BY <4>1
    <3>4. CASE UNCHANGED sent
      BY <3>2, <3>4
    <3> QED
      BY <3>3, <3>4
         DEF Next, LoopStep, StartBatch, StartNothing, DrainedSettled, WorkerSucceeds,
             WorkerFails, JobSettled, DelayDue, RemovalDue, AddWorker, RemoveWorker, Close,
             ClosingSettled, CloseTick, SendRejected, SendExisting, jobVars, vars
  <2>3. Before(k, j)
    BY <2>2, EarlierIsBefore DEF TypeInv
  <2> QED
    BY <2>1, <2>3 DEF Ordered, Fresh
<1> QED
  BY <1>1, <1>2, <1>3, Types, PTL DEF Spec, OldestFirst
=============================================================================
