------------------------ MODULE CircuitBreakerProofs -------------------------
(***************************************************************************)
(* Proofs about CircuitBreaker for every number of commands, threshold and *)
(* cooldown.                                                               *)
(*                                                                         *)
(* That the probes are a cooldown apart needs an invariant that relates    *)
(* the time since the last probe to the time until the next: a breaker     *)
(* that opens, or stays open after a late failure, starts a full cooldown, *)
(* a probe does so as well, and time moves one of them up and the other    *)
(* down.                                                                   *)
(***************************************************************************)
EXTENDS CircuitBreaker, TLAPS

(* A probe and the one after it are at least a cooldown apart. *)
ProbeDistance == open => remaining + sinceProbe >= Cooldown

Inv == TypeOK /\ OpenAtThreshold /\ ProbeDistance

LEMMA InitInv == Init => Inv
<1> SUFFICES ASSUME Init PROVE Inv
  OBVIOUS
<1>1. TypeOK
  <2>1. /\ failures \in 0 .. MaxFailures /\ remaining \in 0 .. Cooldown
        /\ sinceProbe \in 0 .. Cooldown
    BY BreakerAssumption DEF Init
  <2>2. inFlight \in [Commands -> Mode \cup {"none"}] /\ mayFail \subseteq Commands
    BY DEF Init
  <2>3. open \in BOOLEAN /\ ready \in BOOLEAN /\ answering \in BOOLEAN
    BY DEF Init
  <2> QED
    BY <2>1, <2>2, <2>3 DEF TypeOK
<1>2. ~open /\ ~(Threshold > 0 /\ failures >= Threshold)
  BY BreakerAssumption DEF Init
<1> QED
  BY <1>1, <1>2 DEF Inv, OpenAtThreshold, ProbeDistance

(* The methods of the breaker keep its part of the invariant.              *)
BreakerOK ==
    /\ failures \in 0 .. MaxFailures
    /\ open \in BOOLEAN
    /\ remaining \in 0 .. Cooldown
    /\ OpenAtThreshold

LEMMA SuccessOK == ASSUME BreakerOK, Success PROVE BreakerOK' /\ ~open'
<1>1. /\ failures' \in 0 .. MaxFailures
      /\ remaining' \in 0 .. Cooldown
      /\ ~(Threshold > 0 /\ failures' >= Threshold)
  BY BreakerAssumption DEF Success
<1>2. ~open' /\ open' \in BOOLEAN
  BY DEF Success
<1> QED
  BY <1>1, <1>2 DEF BreakerOK, OpenAtThreshold

LEMMA FailureOK ==
    ASSUME BreakerOK, Failure
    PROVE  /\ BreakerOK'
           /\ open' => remaining' = Cooldown
<1>1. CASE Threshold = 0
  BY <1>1 DEF BreakerOK, Failure, OpenAtThreshold, breakerVars
<1>2. CASE Threshold > 0
  <2>1. failures \in 0 .. MaxFailures /\ Threshold \in Nat /\ MaxFailures \in Nat /\ Threshold <= MaxFailures
    BY BreakerAssumption DEF BreakerOK
  <2>2. failures' = Failed
    BY <1>2 DEF Failure
  <2>3. failures' \in 0 .. MaxFailures /\ (failures >= Threshold => failures' >= Threshold)
    BY <2>1, <2>2 DEF Failed
  <2>4. CASE open \/ failures' >= Threshold
    <3>1. open' = TRUE /\ remaining' = Cooldown
      BY <1>2, <2>4 DEF Failure
    <3>2. failures' >= Threshold
      BY <2>3, <2>4 DEF BreakerOK, OpenAtThreshold
    <3> QED
      BY <1>2, <2>3, <3>1, <3>2, BreakerAssumption DEF BreakerOK, OpenAtThreshold
  <2>5. CASE ~(open \/ failures' >= Threshold)
    <3>1. open' = open /\ remaining' = remaining
      BY <1>2, <2>5 DEF Failure
    <3> QED
      BY <1>2, <2>3, <2>5, <3>1 DEF BreakerOK, OpenAtThreshold
  <2> QED
    BY <2>4, <2>5
<1> QED
  BY <1>1, <1>2, BreakerAssumption

LEMMA NextInv == Inv /\ [Next]_vars => Inv'
<1> SUFFICES ASSUME Inv, [Next]_vars PROVE Inv'
  OBVIOUS
<1>a. BreakerOK
  BY DEF Inv, TypeOK, BreakerOK
<1>b. ASSUME breakerVars' = breakerVars PROVE BreakerOK'
  BY <1>a, <1>b DEF BreakerOK, OpenAtThreshold, breakerVars
<1>1. ASSUME NEW c \in Commands, SendGuarded(c) PROVE Inv'
  <2>1. BreakerOK'
    BY <1>1, <1>a, <1>b, BreakerAssumption
       DEF SendGuarded, Acquire, BreakerOK, OpenAtThreshold
  <2>2. inFlight' \in [Commands -> Mode \cup {"none"}] /\ mayFail' \subseteq Commands
    BY <1>1 DEF SendGuarded, Launch, Inv, TypeOK, Mode
  <2>3. sinceProbe' \in 0 .. Cooldown /\ ProbeDistance'
    BY <1>1, BreakerAssumption
       DEF SendGuarded, Acquire, IsOpen, Inv, TypeOK, ProbeDistance, breakerVars
  <2> QED
    BY <1>1, <2>1, <2>2, <2>3 DEF SendGuarded, Launch, Inv, TypeOK, BreakerOK
<1>2. ASSUME NEW c \in Commands, SendUnguarded(c) PROVE Inv'
  <2>1. inFlight' \in [Commands -> Mode \cup {"none"}] /\ mayFail' \subseteq Commands
    BY <1>2 DEF SendUnguarded, Launch, Inv, TypeOK, Mode
  <2> QED
    BY <1>2, <2>1
       DEF SendUnguarded, Launch, Inv, TypeOK, OpenAtThreshold, ProbeDistance,
           breakerVars
<1>3. ASSUME NEW c \in Commands, Answered(c) PROVE Inv'
  <2>1. BreakerOK' /\ (breakerVars' = breakerVars \/ ~open')
    BY <1>3, <1>a, <1>b, SuccessOK DEF Answered
  <2>2. inFlight' \in [Commands -> Mode \cup {"none"}] /\ mayFail' \subseteq Commands
    BY <1>3 DEF Answered, Settle, Inv, TypeOK
  <2> QED
    BY <1>3, <2>1, <2>2
       DEF Answered, Settle, Inv, TypeOK, BreakerOK, ProbeDistance, breakerVars
<1>4. ASSUME NEW c \in Commands, Unanswered(c) PROVE Inv'
  <2>1. BreakerOK' /\ (breakerVars' = breakerVars \/ (open' => remaining' = Cooldown))
    BY <1>4, <1>a, <1>b, FailureOK DEF Unanswered
  <2>2. inFlight' \in [Commands -> Mode \cup {"none"}] /\ mayFail' \subseteq Commands
    BY <1>4 DEF Unanswered, Settle, Inv, TypeOK
  <2>3. sinceProbe' = sinceProbe /\ sinceProbe \in 0 .. Cooldown
    BY <1>4 DEF Unanswered, Settle, Inv, TypeOK
  <2>4. ProbeDistance'
    <3>1. CASE breakerVars' = breakerVars
      BY <2>3, <3>1 DEF Inv, ProbeDistance, breakerVars
    <3>2. CASE open' => remaining' = Cooldown
      BY <2>3, <3>2, BreakerAssumption DEF ProbeDistance
    <3> QED
      BY <2>1, <3>1, <3>2
  <2> QED
    BY <1>4, <2>1, <2>2, <2>4 DEF Unanswered, Settle, Inv, TypeOK, BreakerOK
<1>5. CASE Tick
  BY <1>5, BreakerAssumption
     DEF Tick, RemainingAfterTick, Inv, TypeOK, OpenAtThreshold, ProbeDistance
<1>6. CASE ConnectionReady \/ OtherConnectionReady
  <2>1. BreakerOK' /\ ~open'
    BY <1>6, <1>a, SuccessOK DEF ConnectionReady, OtherConnectionReady
  <2> QED
    BY <1>6, <2>1
       DEF ConnectionReady, OtherConnectionReady, Inv, TypeOK, BreakerOK,
           ProbeDistance
<1>7. CASE ConnectionLost \/ RedisHangs \/ RedisAnswers
  <2>1. ready' \in BOOLEAN /\ answering' \in BOOLEAN /\ mayFail' \subseteq Commands
    BY <1>7 DEF ConnectionLost, RedisHangs, RedisAnswers, AllInFlight, Inv, TypeOK
  <2>2. UNCHANGED <<breakerVars, inFlight, sinceProbe>>
    BY <1>7 DEF ConnectionLost, RedisHangs, RedisAnswers
  <2> QED
    BY <2>1, <2>2 DEF Inv, TypeOK, OpenAtThreshold, ProbeDistance, breakerVars
<1>8. CASE UNCHANGED vars
  BY <1>8 DEF vars, Inv, TypeOK, OpenAtThreshold, ProbeDistance, breakerVars
<1> QED
  BY <1>1, <1>2, <1>3, <1>4, <1>5, <1>6, <1>7, <1>8 DEF Next, SendRejected

(* Inv is an invariant of the breaker. *)
THEOREM Invariance == Spec => []Inv
  BY InitInv, NextInv, PTL DEF Spec

(* The variables keep their types, and the ticks their ranges. *)
THEOREM TypeCorrect == Spec => []TypeOK
<1>1. Inv => TypeOK
  BY DEF Inv
<1> QED
  BY <1>1, Invariance, PTL

(* The breaker is open exactly when the failures have reached a threshold    *)
(* that is not 0.                                                            *)
THEOREM OpensAtThreshold == Spec => []OpenAtThreshold
<1>1. Inv => OpenAtThreshold
  BY DEF Inv
<1> QED
  BY <1>1, Invariance, PTL

(* Whatever the breaker did in between, a probe is sent a cooldown or more   *)
(* after the one before it.                                                  *)
THEOREM ProbesApart == Spec => OneProbePerCooldown
<1>1. ASSUME Inv, [Next]_vars, NEW c \in Commands, c \in Probes' \ Probes
      PROVE  sinceProbe = Cooldown
  <2>1. inFlight'[c] = "probe" /\ inFlight[c] # "probe"
    BY <1>1 DEF Probes
  <2>2. PICK d \in Commands : SendGuarded(d) \/ SendUnguarded(d) \/ Answered(d) \/ Unanswered(d)
    BY <1>1, <2>1 DEF Next, SendRejected, Tick, ConnectionReady,
       OtherConnectionReady, ConnectionLost, RedisHangs, RedisAnswers, vars
  <2>3. ~Answered(d) /\ ~Unanswered(d) /\ ~SendUnguarded(d)
    BY <1>1, <2>1 DEF Answered, Unanswered, Settle, SendUnguarded, Launch, Inv, TypeOK
  <2>4. SendGuarded(d) /\ open
    BY <1>1, <2>1, <2>2, <2>3 DEF SendGuarded, Launch, Inv, TypeOK
  <2>5. remaining = 0
    BY <1>1, <2>4, BreakerAssumption DEF SendGuarded, Acquire, IsOpen, Inv, TypeOK
  <2> QED
    BY <1>1, <2>4, <2>5, BreakerAssumption DEF Inv, TypeOK, ProbeDistance
<1>2. Inv /\ [Next]_vars =>
          [\A c \in Commands : c \in Probes' \ Probes => sinceProbe = Cooldown]_vars
  BY <1>1
<1> QED
  BY <1>2, Invariance, PTL DEF Spec, OneProbePerCooldown
=============================================================================
