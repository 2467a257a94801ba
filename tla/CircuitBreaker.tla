---------------------------- MODULE CircuitBreaker ----------------------------
(***************************************************************************)
(* The circuit breaker of the Redis memory and the commands it guards:     *)
(* packages/redis/circuit-breaker.ts, guardClient of client-guard.ts and   *)
(* the ready event of monitorConnection in redis-memory.ts.                *)
(*                                                                         *)
(* Every method of the breaker runs to its end without an await; what      *)
(* happens in between is that other commands are sent and settle, in any   *)
(* order, long after the breaker has opened or closed.  Redis and the      *)
(* connection are the environment: a command sent while Redis does not     *)
(* answer, or in flight when it stops or the connection is lost, may fail  *)
(* at any later time (a command timeout, or the end of the connection).    *)
(*                                                                         *)
(* Time is counted in ticks, and the code's _openedAt is kept as what the  *)
(* code computes from it: remaining().                                     *)
(***************************************************************************)
EXTENDS Naturals, FiniteSets

CONSTANTS
    Commands,     \* slots for the commands in flight at once
    Threshold,    \* MEMORY_REDIS_CIRCUIT_BREAKER_THRESHOLD, 0 disables the breaker
    Cooldown,     \* MEMORY_REDIS_CIRCUIT_BREAKER_COOLDOWN, in ticks
    MaxFailures   \* bound: where the count of failures stops

ASSUME BreakerAssumption ==
    /\ Threshold \in Nat
    /\ Cooldown \in Nat
    /\ MaxFailures \in Nat
    /\ Threshold <= MaxFailures

VARIABLES
    failures,    \* _failures
    open,        \* _openedAt is defined
    remaining,   \* remaining()
    ready,       \* client.status is ready
    answering,   \* Redis answers the commands
    inFlight,    \* the commands sent and not settled: a mode, or "none"
    mayFail,     \* the commands in flight that Redis may leave unanswered
    sinceProbe   \* history: ticks since the last probe, up to Cooldown

breakerVars == <<failures, open, remaining>>
vars == <<breakerVars, ready, answering, inFlight, mayFail, sinceProbe>>

(* How a command in flight was sent: past the breaker by a client that was   *)
(* not ready, through the closed breaker, or through the open one.           *)
Mode == {"unguarded", "call", "probe"}

(* The types, and the ticks within their ranges.                             *)
TypeOK ==
    /\ failures \in 0 .. MaxFailures
    /\ open \in BOOLEAN
    /\ remaining \in 0 .. Cooldown
    /\ ready \in BOOLEAN
    /\ answering \in BOOLEAN
    /\ inFlight \in [Commands -> Mode \cup {"none"}]
    /\ mayFail \subseteq Commands
    /\ sinceProbe \in 0 .. Cooldown

Init ==
    /\ failures = 0
    /\ open = FALSE
    /\ remaining = 0
    /\ ready = FALSE
    /\ answering \in BOOLEAN
    /\ inFlight = [c \in Commands |-> "none"]
    /\ mayFail = {}
    /\ sinceProbe = Cooldown

-----------------------------------------------------------------------------
(* The breaker.  The definitions that end in a comment "mutant" are wrong on *)
(* purpose: a property fails with one in place of the definition after it.   *)

IsOpen == open /\ remaining > 0

AcquireUnmarked ==   \* mutant: the probe does not start another cooldown
    \/ /\ ~open
       /\ UNCHANGED breakerVars
    \/ /\ open /\ ~IsOpen
       /\ UNCHANGED breakerVars

AcquireClosed ==   \* mutant: no probe
    /\ ~open
    /\ UNCHANGED breakerVars

(* acquire() returns TRUE: the breaker is closed, or the call is a probe and *)
(* keeps the calls after it waiting for another cooldown.                    *)
Acquire ==
    \/ /\ ~open
       /\ UNCHANGED breakerVars
    \/ /\ open /\ ~IsOpen
       /\ remaining' = Cooldown
       /\ UNCHANGED <<failures, open>>

SuccessOpen ==   \* mutant: the breaker stays open
    /\ failures' = 0
    /\ UNCHANGED <<open, remaining>>

Success ==
    /\ failures' = 0
    /\ open' = FALSE
    /\ remaining' = 0

Failed == IF failures < MaxFailures THEN failures + 1 ELSE failures

FailureLate ==   \* mutant: one failure more than the threshold
    \/ /\ Threshold = 0
       /\ UNCHANGED breakerVars
    \/ /\ Threshold > 0
       /\ failures' = Failed
       /\ \/ /\ open \/ failures' > Threshold
             /\ open' = TRUE
             /\ remaining' = Cooldown
          \/ /\ ~open /\ ~(failures' > Threshold)
             /\ UNCHANGED <<open, remaining>>

(* failure(): opens at the threshold; an open breaker, whichever command     *)
(* failed, stays open for another cooldown.                                  *)
Failure ==
    \/ /\ Threshold = 0
       /\ UNCHANGED breakerVars
    \/ /\ Threshold > 0
       /\ failures' = Failed
       /\ \/ /\ open \/ failures' >= Threshold
             /\ open' = TRUE
             /\ remaining' = Cooldown
          \/ /\ ~open /\ ~(failures' >= Threshold)
             /\ UNCHANGED <<open, remaining>>

RemainingBelow == remaining - 1   \* mutant: no Math.max

RemainingAfterTick == IF remaining > 0 THEN remaining - 1 ELSE 0

-----------------------------------------------------------------------------
(* sendCommand and the settling of a command.                                *)

Launch(c, mode) ==
    /\ inFlight[c] = "none"
    /\ inFlight' = [inFlight EXCEPT ![c] = mode]
    /\ mayFail' = IF answering THEN mayFail ELSE mayFail \cup {c}
    /\ UNCHANGED <<ready, answering>>

SendGuarded(c) ==
    /\ ready
    /\ Acquire
    /\ Launch(c, IF open THEN "probe" ELSE "call")
    /\ sinceProbe' = IF open THEN 0 ELSE sinceProbe

(* acquire() returns FALSE: the command is rejected and not sent. *)
SendRejected ==
    /\ ready
    /\ IsOpen
    /\ UNCHANGED vars

SendUnguarded(c) ==
    /\ ~ready
    /\ Launch(c, "unguarded")
    /\ UNCHANGED <<breakerVars, sinceProbe>>

Settle(c) ==
    /\ inFlight' = [inFlight EXCEPT ![c] = "none"]
    /\ mayFail' = mayFail \ {c}
    /\ UNCHANGED <<ready, answering, sinceProbe>>

(* Redis replies, with a result or an error reply.  What counts is whether   *)
(* the client was ready when it sent the command, not whether it is now.     *)
Answered(c) ==
    /\ inFlight[c] # "none"
    /\ IF inFlight[c] = "unguarded" THEN UNCHANGED breakerVars ELSE Success
    /\ Settle(c)

(* The command is rejected without a reply. *)
Unanswered(c) ==
    /\ c \in mayFail
    /\ IF inFlight[c] = "unguarded" THEN UNCHANGED breakerVars ELSE Failure
    /\ Settle(c)

-----------------------------------------------------------------------------
(* Time, Redis and the connection.                                           *)

Tick ==
    /\ remaining > 0 \/ sinceProbe < Cooldown
    /\ remaining' = RemainingAfterTick
    /\ sinceProbe' = IF sinceProbe < Cooldown THEN sinceProbe + 1 ELSE Cooldown
    /\ UNCHANGED <<failures, open, ready, answering, inFlight, mayFail>>

AllInFlight == {c \in Commands : inFlight[c] # "none"}

(* The ready event of a connection: the breaker closes. *)
ConnectionReady ==
    /\ ~ready
    /\ ready' = TRUE
    /\ Success
    /\ UNCHANGED <<answering, inFlight, mayFail, sinceProbe>>

(* The ready event of another client of the same memory, guarded or not: the *)
(* clients that createClient returns share the breaker.                      *)
OtherConnectionReady ==
    /\ Success
    /\ UNCHANGED <<ready, answering, inFlight, mayFail, sinceProbe>>

ConnectionLost ==
    /\ ready
    /\ ready' = FALSE
    /\ mayFail' = AllInFlight
    /\ UNCHANGED <<breakerVars, answering, inFlight, sinceProbe>>

RedisHangs ==
    /\ answering
    /\ answering' = FALSE
    /\ mayFail' = AllInFlight
    /\ UNCHANGED <<breakerVars, ready, inFlight, sinceProbe>>

RedisAnswers ==
    /\ ~answering
    /\ answering' = TRUE
    /\ UNCHANGED <<breakerVars, ready, inFlight, mayFail, sinceProbe>>

Next ==
    \/ \E c \in Commands :
          SendGuarded(c) \/ SendUnguarded(c) \/ Answered(c) \/ Unanswered(c)
    \/ SendRejected
    \/ Tick
    \/ ConnectionReady \/ OtherConnectionReady \/ ConnectionLost
    \/ RedisHangs \/ RedisAnswers

Spec == Init /\ [][Next]_vars

(* Time passes; a command in flight settles, by its timeout at the latest    *)
(* (with MEMORY_REDIS_COMMAND_TIMEOUT 0 this is not certain); and there are  *)
(* callers, who send again after their command has settled.                  *)
Fairness ==
    /\ WF_vars(Tick)
    /\ \A c \in Commands : WF_vars(Answered(c) \/ Unanswered(c))
    /\ \A c \in Commands : WF_vars(SendGuarded(c))

FairSpec == Spec /\ Fairness

-----------------------------------------------------------------------------
(* Properties.                                                               *)

(* The breaker is open exactly when the failures since the last success      *)
(* have reached the threshold, whatever the order of the commands that       *)
(* settle late; with a threshold of 0 it never opens.                        *)
OpenAtThreshold == open <=> Threshold > 0 /\ failures >= Threshold

Probes == {c \in Commands : inFlight[c] = "probe"}

(* One call per cooldown goes through as a probe, also when the breaker was  *)
(* closed and opened again since the last probe.                             *)
OneProbePerCooldown ==
    [][\A c \in Commands : c \in Probes' \ Probes => sinceProbe = Cooldown]_vars

(* An open breaker does not stay open without a probe, although commands     *)
(* that were sent before it opened keep failing and extend the cooldown.     *)
ProbedOrClosed == open /\ ready ~> ~open \/ ~ready \/ Probes # {}

(* When Redis answers again for good and the connection stays, the breaker   *)
(* closes for good, whatever is still to fail.                               *)
Recovers == <>[](answering /\ ready) => <>[]~open

(* "A failed probe keeps the breaker open for another cooldown": nothing     *)
(* else does.  Does not hold: a command sent before it opened, and failing   *)
(* later, does too.                                                          *)
ExtendedByProbe ==
    [][open /\ remaining' > remaining
          => \E c \in Commands : (c \in Probes) # (c \in Probes')]_vars
=============================================================================
