---------------------------- MODULE JobLifecycle ----------------------------
(***************************************************************************)
(* What a queue promises of every job it accepts, whatever its workers,    *)
(* timers and loops do: the job is processed only when it waits, at most   *)
(* maxAttempts times, by one worker at a time, and it is finished once.    *)
(* MemoryQueue implements this specification.                              *)
(***************************************************************************)
EXTENDS Naturals

CONSTANTS Jobs, MaxAttempts

VARIABLES status, attempts

Init ==
    /\ status = [j \in Jobs |-> "none"]
    /\ attempts = [j \in Jobs |-> 0]

Move(j, from, to) ==
    /\ status[j] = from
    /\ status' = [status EXCEPT ![j] = to]

Accept(j) ==
    /\ Move(j, "none", "waiting") \/ Move(j, "none", "delayed")
    /\ UNCHANGED attempts

Due(j) ==
    /\ Move(j, "delayed", "waiting")
    /\ UNCHANGED attempts

Start(j) ==
    /\ attempts[j] < MaxAttempts
    /\ Move(j, "waiting", "active")
    /\ attempts' = [attempts EXCEPT ![j] = @ + 1]

Complete(j) ==
    /\ Move(j, "active", "completed")
    /\ UNCHANGED attempts

Retry(j) ==
    /\ attempts[j] < MaxAttempts
    /\ Move(j, "active", "waiting")
    /\ UNCHANGED attempts

(* A job fails only after its last attempt. *)
GiveUp(j) ==
    /\ attempts[j] = MaxAttempts
    /\ Move(j, "active", "failed")
    /\ UNCHANGED attempts

Next == \E j \in Jobs :
    \/ Accept(j) \/ Due(j) \/ Start(j)
    \/ Complete(j) \/ Retry(j) \/ GiveUp(j)

Spec == Init /\ [][Next]_<<status, attempts>>
=============================================================================
