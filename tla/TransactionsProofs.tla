-------------------------- MODULE TransactionsProofs --------------------------
(*****************************************************************************)
(* Proofs about Transactions for any calls, retries, writes, models and      *)
(* files, whatever fails and however often the functions are attempted.      *)
(*                                                                           *)
(* A context hands its callbacks over to its call when it ends. The          *)
(* invariants say what its lists hold until then and what is left of them    *)
(* afterwards: the events of its writes, in order (EventInv); an             *)
(* invalidation of each model it has written (StaleInv); and the removals of *)
(* the files that will have no row, of no others (RowInv) and of all of them *)
(* where no function leaves an upload running (OrphanInv). Of each variable  *)
(* a lemma says which actions change it; the steps of the invariants follow  *)
(* from these.                                                               *)
(*****************************************************************************)
EXTENDS Transactions, SequenceTheorems, TLAPS

(* Among callbacks, the events of the writes after the ath and up to the bth *)
(* are there, each once and in order, and no others.                         *)
Emits(callbacks, a, b) ==
    /\ a <= b
    /\ \A i \in 1 .. Len(callbacks) :
          callbacks[i].do = "emit" => callbacks[i].arg \in (a + 1) .. b
    /\ \A n \in (a + 1) .. b : Contains(callbacks, Event(n))
    /\ \A i, j \in 1 .. Len(callbacks) :
          i < j /\ callbacks[i].do = "emit" /\ callbacks[j].do = "emit"
             => callbacks[i].arg < callbacks[j].arg

(* Only removals of objects are among callbacks.                             *)
OnlyRemoves(callbacks) == \A i \in 1 .. Len(callbacks) : callbacks[i].do = "remove"

(* A call runs the callbacks of its context, which has ended with result.    *)
Settles(c, result) == pc[c] = "settling" /\ outcome[Current(c)] = result

-----------------------------------------------------------------------------
(* The context of a call is open while its function runs, and so are those   *)
(* of its further attempts; the callbacks of a call are those of one that    *)
(* settles.                                                                  *)
Attempts ==
    \A c \in Calls :
        /\ pc[c] \in {"idle", "running"} => outcome[Current(c)] = "open"
        /\ pc[c] # "settling" => left[c] = <<>>
        /\ pc[c] = "settling" => outcome[Current(c)] # "open"
        /\ pc[c] = "resolved" => outcome[Current(c)] = "committed"
        /\ \A n \in 0 .. Retries : n > attempt[c] => outcome[<<c, n>>] = "open"

(* The events a context has emitted and those that are to come. *)
ContextEvents(x) ==
    /\ outcome[x] # "committed" => emitted[x] = <<>>
    /\ outcome[x] = "open" => Emits(commitCallbacks[x], 0, Len(writes[x]))
    /\ OnlyRemoves(rollbackCallbacks[x])
    /\ Len(emitted[x]) <= Len(writes[x])
    /\ \A n \in 1 .. Len(emitted[x]) : emitted[x][n] = n

(* The events a call has still to emit, after which it has emitted all.      *)
CallEvents(c) ==
    /\ Settles(c, "committed") =>
          Emits(left[c], Len(emitted[Current(c)]), Len(writes[Current(c)]))
    /\ Settles(c, "rolledBack") => OnlyRemoves(left[c])
    /\ pc[c] = "resolved" => Len(emitted[Current(c)]) = Len(writes[Current(c)])

(* The invariant of the events.                                              *)
EventInv ==
    /\ TypeOK /\ Attempts
    /\ \A x \in Contexts : ContextEvents(x)
    /\ \A c \in Calls : CallEvents(c)

(* An open context is to invalidate the models it has written. *)
Invalidations ==
    \A x \in Contexts : outcome[x] = "open" =>
        \A n \in 1 .. Len(writes[x]) : Contains(commitCallbacks[x], Invalidate(writes[x][n]))

(* The invariant of the stale responses.                                     *)
StaleInv == TypeOK /\ Attempts /\ Invalidations /\ StaleIsBeingInvalidated

(* The rows and the removals of a file.                                      *)
FileRows ==
    /\ \A x \in Contexts, f \in Files :
          /\ f \in created[x] =>
                owner[f] = x /\ upload[f] = "over" /\ (outcome[x] = "open" => f \in objects)
          /\ f \in deleted[x] =>
                f \in created[owner[f]] /\ (owner[f] = x \/ outcome[owner[f]] = "committed")
          /\ f \in undeleted[x] =>
                f \in created[owner[f]] /\ (owner[f] = x \/ outcome[owner[f]] = "committed")
          /\ f \in deleted[x] /\ outcome[x] = "committed" => f \notin rows
    /\ \A f \in rows : f \in created[owner[f]] /\ outcome[owner[f]] = "committed"
    /\ \A f \in Files : upload[f] = "stored" /\ outcome[owner[f]] = "open" => f \in objects

(* The files that are to be removed on a rollback are those of the context;  *)
(* on a commit, those it has deleted, or failed to delete, or whose row was  *)
(* not created. What a call is about to remove comes from these.             *)
Removals ==
    /\ \A x \in Contexts, f \in Files :
          /\ Contains(rollbackCallbacks[x], RemoveObject(f)) =>
                owner[f] = x /\ upload[f] # "none"
          /\ Contains(commitCallbacks[x], RemoveObject(f)) =>
                \/ f \in deleted[x] \cup undeleted[x]
                \/ upload[f] = "over" /\ \A y \in Contexts : f \notin created[y]
    /\ \A c \in Calls, f \in Files : Contains(left[c], RemoveObject(f)) =>
          /\ Settles(c, "rolledBack") => owner[f] = Current(c) /\ upload[f] # "none"
          /\ Settles(c, "committed") => Contains(commitCallbacks[Current(c)], RemoveObject(f))

(* The invariant of the rows.                                                *)
RowInv == TypeOK /\ Attempts /\ FileRows /\ Removals /\ RowHasObject

(* Who is to remove a file that gets no row.                                 *)
ToBeRemoved ==
    /\ \A f \in Files :
          /\ upload[f] = "none" => f \notin objects
          /\ upload[f] \in {"storing", "stored"} => outcome[owner[f]] = "open"
          /\ upload[f] = "stored" \/ (upload[f] = "over" /\ f \in objects) =>
                Contains(rollbackCallbacks[owner[f]], RemoveObject(f))
          /\ upload[f] = "over" /\ f \in objects /\ f \notin created[owner[f]] =>
                Contains(commitCallbacks[owner[f]], RemoveObject(f))
    /\ \A x \in Contexts : \A f \in deleted[x] : Contains(commitCallbacks[x], RemoveObject(f))

(* The invariant of the orphans, where no function leaves an upload running. *)
OrphanInv == RowInv /\ ToBeRemoved /\ NoOrphan

-----------------------------------------------------------------------------
(* Lists of callbacks.                                                       *)

(* An appended callback is added to those a list contains.                   *)
LEMMA ContainsAppend ==
    ASSUME NEW S, NEW s \in Seq(S), NEW e \in S, NEW d
    PROVE  Contains(Append(s, e), d) <=> Contains(s, d) \/ d = e
<1>1. /\ Len(s) \in Nat /\ Len(Append(s, e)) = Len(s) + 1
      /\ \A i \in 1 .. Len(s) : Append(s, e)[i] = s[i]
      /\ Append(s, e)[Len(s) + 1] = e
  BY AppendProperties, LenProperties
<1> QED
  BY <1>1 DEF Contains

(* A list without its first callback contains the others, and possibly that  *)
(* one.                                                                      *)
LEMMA ContainsTail ==
    ASSUME NEW S, NEW s \in Seq(S), s # <<>>, NEW d
    PROVE  Contains(s, d) <=> Contains(Tail(s), d) \/ d = Head(s)
<1>1. /\ Len(s) \in Nat \ {0} /\ Len(Tail(s)) = Len(s) - 1
      /\ \A i \in 1 .. Len(Tail(s)) : Tail(s)[i] = s[i + 1]
  BY HeadTailProperties, EmptySeq
<1>2. Head(s) = s[1]
  OBVIOUS
<1>3. ASSUME Contains(s, d), d # Head(s) PROVE Contains(Tail(s), d)
  <2>1. PICK i \in 1 .. Len(s) : s[i] = d
    BY <1>3 DEF Contains
  <2>2. i - 1 \in 1 .. Len(Tail(s)) /\ Tail(s)[i - 1] = d
    BY <1>1, <1>2, <1>3, <2>1
  <2> QED
    BY <2>2 DEF Contains
<1>4. ASSUME Contains(Tail(s), d) PROVE Contains(s, d)
  <2>1. PICK i \in 1 .. Len(Tail(s)) : Tail(s)[i] = d
    BY <1>4 DEF Contains
  <2>2. i + 1 \in 1 .. Len(s) /\ s[i + 1] = d
    BY <1>1, <2>1
  <2> QED
    BY <2>2 DEF Contains
<1> QED
  BY <1>1, <1>2, <1>3, <1>4 DEF Contains

(* No callback is left in the empty list.                                    *)
LEMMA ContainsEmpty == ASSUME NEW d PROVE ~Contains(<<>>, d)
BY DEF Contains

(* The callbacks are those of events, invalidations and removals.            *)
LEMMA Callbacks ==
    /\ \A n \in 1 .. MaxWrites : Event(n) \in Callback
    /\ \A m \in Models : Invalidate(m) \in Callback
    /\ \A f \in Files : RemoveObject(f) \in Callback
    /\ \A e \in Callback :
          /\ e.do = "emit" => e.arg \in 1 .. MaxWrites /\ e = Event(e.arg)
          /\ e.do = "invalidate" => e.arg \in Models /\ e = Invalidate(e.arg)
          /\ e.do = "remove" => e.arg \in Files /\ e = RemoveObject(e.arg)
          /\ e.do \in {"emit", "invalidate", "remove"}
<1>1. \A n : Event(n).do = "emit" /\ Event(n).arg = n
  BY DEF Event
<1>2. \A m : Invalidate(m).do = "invalidate" /\ Invalidate(m).arg = m
  BY DEF Invalidate
<1>3. \A f : RemoveObject(f).do = "remove" /\ RemoveObject(f).arg = f
  BY DEF RemoveObject
<1> QED
  BY <1>1, <1>2, <1>3 DEF Callback

(* A callback that emits no event leaves the events of a list alone.         *)
LEMMA EmitsAppendOther ==
    ASSUME NEW s \in Seq(Callback), NEW e \in Callback, e.do # "emit",
           NEW a, NEW b, Emits(s, a, b)
    PROVE  Emits(Append(s, e), a, b)
<1>1. /\ Len(s) \in Nat /\ Len(Append(s, e)) = Len(s) + 1
      /\ \A i \in 1 .. Len(s) : Append(s, e)[i] = s[i]
      /\ Append(s, e)[Len(s) + 1] = e
  BY AppendProperties, LenProperties
<1>2. \A n \in (a + 1) .. b : Contains(Append(s, e), Event(n))
  BY ContainsAppend DEF Emits
<1> QED
  BY <1>1, <1>2 DEF Emits

(* The event of the next write may be appended.                              *)
LEMMA EmitsAppend ==
    ASSUME NEW s \in Seq(Callback), NEW a \in Nat, NEW b \in Nat, b + 1 <= MaxWrites,
           Emits(s, a, b)
    PROVE  Emits(Append(s, Event(b + 1)), a, b + 1)
<1> DEFINE e == Event(b + 1)
<1>0. e \in Callback /\ e.do = "emit" /\ e.arg = b + 1
  BY TransactionsAssumption DEF Event, Callback
<1>1. /\ Len(s) \in Nat /\ Len(Append(s, e)) = Len(s) + 1
      /\ \A i \in 1 .. Len(s) : Append(s, e)[i] = s[i]
      /\ Append(s, e)[Len(s) + 1] = e
  BY <1>0, AppendProperties, LenProperties
<1>2. ASSUME NEW n \in (a + 1) .. (b + 1) PROVE Contains(Append(s, e), Event(n))
  <2>1. n \in (a + 1) .. b \/ n = b + 1
    OBVIOUS
  <2> QED
    BY <1>0, <2>1, ContainsAppend DEF Emits
<1> HIDE DEF e
<1>3. \A i \in 1 .. Len(Append(s, e)) :
         Append(s, e)[i].do = "emit" => Append(s, e)[i].arg \in (a + 1) .. (b + 1)
  BY <1>0, <1>1 DEF Emits
<1>4. \A i, j \in 1 .. Len(Append(s, e)) :
         i < j /\ Append(s, e)[i].do = "emit" /\ Append(s, e)[j].do = "emit"
            => Append(s, e)[i].arg < Append(s, e)[j].arg
  BY <1>0, <1>1 DEF Emits
<1> QED
  BY <1>2, <1>3, <1>4 DEF Emits, e

(* The first event of a list is the next to emit.                            *)
LEMMA EmitsTail ==
    ASSUME NEW s \in Seq(Callback), s # <<>>, NEW a \in Nat, NEW b \in Nat, Emits(s, a, b)
    PROVE  IF Head(s).do = "emit"
           THEN Head(s).arg = a + 1 /\ Emits(Tail(s), a + 1, b)
           ELSE Emits(Tail(s), a, b)
<1>1. /\ Len(s) \in Nat \ {0} /\ Len(Tail(s)) = Len(s) - 1
      /\ \A i \in 1 .. Len(Tail(s)) : Tail(s)[i] = s[i + 1]
  BY HeadTailProperties, EmptySeq
<1>2. Head(s) = s[1]
  OBVIOUS
<1>3. ASSUME NEW i \in 1 .. Len(Tail(s)), NEW j \in 1 .. Len(Tail(s)), i < j,
             Tail(s)[i].do = "emit", Tail(s)[j].do = "emit"
      PROVE  Tail(s)[i].arg < Tail(s)[j].arg
  BY <1>1, <1>3 DEF Emits
<1>4. CASE Head(s).do = "emit"
  <2>1. Head(s).arg \in (a + 1) .. b
    BY <1>1, <1>2, <1>4 DEF Emits
  <2>2. Contains(s, Event(a + 1))
    BY <2>1 DEF Emits
  <2>3. PICK k \in 1 .. Len(s) : s[k] = Event(a + 1)
    BY <2>2 DEF Contains
  <2>4. s[k].do = "emit" /\ s[k].arg = a + 1
    BY <2>3 DEF Event
  <2>5. k = 1
    BY <1>1, <1>2, <1>4, <2>1, <2>4 DEF Emits
  <2>6. Head(s).arg = a + 1
    BY <1>2, <2>4, <2>5
  <2>7. \A i \in 1 .. Len(Tail(s)) : Tail(s)[i].do = "emit" => Tail(s)[i].arg \in (a + 2) .. b
    BY <1>1, <1>2, <1>4, <2>6 DEF Emits
  <2>8. ASSUME NEW n \in (a + 2) .. b PROVE Contains(Tail(s), Event(n))
    <3>1. Contains(s, Event(n))
      BY DEF Emits
    <3>2. Event(n) # Head(s)
      BY <2>6 DEF Event
    <3> QED
      BY <3>1, <3>2, ContainsTail
  <2> QED
    BY <1>3, <1>4, <2>1, <2>6, <2>7, <2>8 DEF Emits
<1>5. CASE Head(s).do # "emit"
  <2>1. ASSUME NEW n \in (a + 1) .. b PROVE Contains(Tail(s), Event(n))
    <3>1. Contains(s, Event(n))
      BY DEF Emits
    <3>2. Event(n) # Head(s)
      BY <1>5 DEF Event
    <3> QED
      BY <3>1, <3>2, ContainsTail
  <2> QED
    BY <1>1, <1>3, <1>5, <2>1 DEF Emits
<1> QED
  BY <1>4, <1>5

(* The empty list emits no events.                                           *)
LEMMA EmitsEmpty ==
    ASSUME NEW a \in Nat, NEW b \in Nat PROVE Emits(<<>>, a, b) <=> a = b
<1>1. Emits(<<>>, a, b) => a = b
  BY ContainsEmpty DEF Emits
<1>2. a = b => Emits(<<>>, a, b)
  BY DEF Emits
<1> QED
  BY <1>1, <1>2

-----------------------------------------------------------------------------
(* Types and attempts.                                                       *)

(* A call has a context of its own.                                          *)
LEMMA CurrentContext ==
    ASSUME TypeOK, NEW c \in Calls
    PROVE  /\ Current(c) \in Contexts
           /\ \A d \in Calls : Current(d) = Current(c) => d = c
BY DEF TypeOK, Current, Contexts

(* A process starts with the types of its variables.                         *)
LEMMA InitType == Init => TypeOK
<1> SUFFICES ASSUME Init PROVE TypeOK
  OBVIOUS
<1>1. Contexts # {}
  <2>1. PICK c \in Calls : TRUE
    BY TransactionsAssumption
  <2>2. <<c, 0>> \in Contexts
    BY TransactionsAssumption DEF Contexts
  <2> QED
    BY <2>2
<1>2. (CHOOSE x \in Contexts : TRUE) \in Contexts
  BY <1>1
<1> HIDE DEF Contexts
<1>3. owner \in [Files -> Contexts]
  BY <1>2 DEF Init
<1> QED
  BY <1>3, TransactionsAssumption DEF Init, TypeOK

(* Every step keeps the types.                                               *)
LEMMA TypeStep == ASSUME TypeOK, Next PROVE TypeOK'
<1> USE DEF TypeOK, callVars, fileVars
<1>1. ASSUME NEW c \in Calls, Begin(c) \/ Retry(c) \/ Finish(c) PROVE TypeOK'
  <2>1. CASE Begin(c)
    BY <2>1 DEF Begin
  <2>2. CASE Retry(c)
    BY <2>2, TransactionsAssumption DEF Retry, MayRetry
  <2>3. CASE Finish(c)
    BY <2>3 DEF Finish
  <2> QED
    BY <1>1, <2>1, <2>2, <2>3
<1>2. ASSUME NEW c \in Calls, NEW m \in Models, Write(c, m) PROVE TypeOK'
  <2> DEFINE x == Current(c)
             n == Len(writes[x]) + 1
  <2>1. x \in Contexts /\ n \in 1 .. MaxWrites
    BY <1>2, CurrentContext, LenProperties, TransactionsAssumption DEF Write
  <2>2. AddInvalidation(commitCallbacks[x], m) \in Seq(Callback)
    BY <2>1, Callbacks DEF AddInvalidation
  <2>3. Append(AddInvalidation(commitCallbacks[x], m), Event(n)) \in Seq(Callback)
    BY <2>1, <2>2, Callbacks
  <2>4. commitCallbacks' \in [Contexts -> Seq(Callback)]
    BY <1>2, <2>1, <2>3 DEF Write
  <2>5. writes' \in [Contexts -> Seq(Models)]
    BY <1>2, <2>1 DEF Write
  <2> QED
    BY <1>2, <2>4, <2>5 DEF Write
<1>3. ASSUME NEW c \in Calls, NEW f \in Files, StartUpload(c, f) PROVE TypeOK'
  BY <1>3, CurrentContext DEF StartUpload
<1>4. ASSUME NEW c \in Calls, NEW f \in Files, DeleteFile(c, f) PROVE TypeOK'
  <2>1. Append(commitCallbacks[Current(c)], RemoveObject(f)) \in Seq(Callback)
    BY CurrentContext, Callbacks
  <2>2. commitCallbacks' \in [Contexts -> Seq(Callback)]
    BY <1>4, <2>1 DEF DeleteFile, DeleteStored
  <2>3. deleted' \in [Contexts -> SUBSET Files] /\ undeleted' \in [Contexts -> SUBSET Files]
    <3>1. CASE DeleteRow(Current(c), f)
      BY <3>1 DEF DeleteRow
    <3>2. CASE DeleteRowFails(Current(c), f)
      BY <3>2 DEF DeleteRowFails
    <3> QED
      BY <1>4, <3>1, <3>2 DEF DeleteFile
  <2> QED
    BY <1>4, <2>2, <2>3 DEF DeleteFile, DeleteStored
<1>5. ASSUME NEW c \in Calls, Commit(c) PROVE TypeOK'
  <2>1. StaleAfter(Current(c)) \subseteq Models
    BY CurrentContext, LenProperties DEF StaleAfter
  <2> QED
    BY <1>5, <2>1, CurrentContext DEF Commit
<1>6. ASSUME NEW c \in Calls, NEW b \in BOOLEAN, RollBack(c, b) PROVE TypeOK'
  BY <1>6, CurrentContext DEF RollBack, RollbackList
<1>7. ASSUME NEW c \in Calls, RunCallback(c) PROVE TypeOK'
  <2>1. Head(left[c]) \in Callback /\ Tail(left[c]) \in Seq(Callback)
    BY <1>7, HeadTailProperties DEF RunCallback
  <2>2. left' \in [Calls -> Seq(Callback)]
    BY <1>7, <2>1 DEF RunCallback
  <2>3. emitted' \in [Contexts -> Seq(1 .. MaxWrites)]
    <3>1. CASE Head(left[c]).do = "emit"
      <4>1. Head(left[c]).arg \in 1 .. MaxWrites /\ Current(c) \in Contexts
        BY <2>1, <3>1, Callbacks, CurrentContext
      <4>2. Append(emitted[Current(c)], Head(left[c]).arg) \in Seq(1 .. MaxWrites)
        BY <4>1
      <4> QED
        BY <1>7, <3>1, <4>1, <4>2 DEF RunCallback
    <3>2. CASE Head(left[c]).do # "emit"
      BY <1>7, <3>2 DEF RunCallback
    <3> QED
      BY <3>1, <3>2
  <2> QED
    BY <1>7, <2>2, <2>3 DEF RunCallback
<1>8. ASSUME NEW f \in Files, Stored(f) PROVE TypeOK'
  <2>1. owner[f] \in Contexts /\ owner[f][1] \in Calls
    BY DEF Contexts
  <2>2. rollbackCallbacks' \in [Contexts -> Seq(Callback)]
    BY <1>8, <2>1, Callbacks DEF Stored, AfterRollback
  <2>3. left' \in [Calls -> Seq(Callback)]
    BY <1>8, <2>1, Callbacks DEF Stored, AfterRollback
  <2> QED
    BY <1>8, <2>2, <2>3 DEF Stored
<1>9. ASSUME NEW f \in Files, TooLarge(f) \/ RowCreated(f) \/ RowFails(f) PROVE TypeOK'
  <2>1. CASE TooLarge(f)
    BY <2>1 DEF TooLarge
  <2>2. CASE RowCreated(f)
    BY <2>2 DEF RowCreated
  <2>3. CASE RowFails(f)
    <3>1. Append(commitCallbacks[owner[f]], RemoveObject(f)) \in Seq(Callback)
      BY Callbacks
    <3>2. commitCallbacks' \in [Contexts -> Seq(Callback)]
      BY <2>3, <3>1 DEF RowFails, DeleteStored
    <3> QED
      BY <2>3, <3>2 DEF RowFails, DeleteStored
  <2> QED
    BY <1>9, <2>1, <2>2, <2>3
<1> QED
  BY <1>1, <1>2, <1>3, <1>4, <1>5, <1>6, <1>7, <1>8, <1>9 DEF Next

(* Every step keeps what the attempts promise: a retry opens a context that  *)
(* no attempt has used.                                                      *)
LEMMA AttemptsStep == ASSUME TypeOK, Attempts, Next PROVE Attempts'
<1> USE DEF TypeOK, callVars, fileVars, Attempts
<1>1. ASSUME NEW c \in Calls, Begin(c) PROVE Attempts'
  BY <1>1 DEF Begin, Current
<1>2. ASSUME NEW c \in Calls, Retry(c) PROVE Attempts'
  BY <1>2, TransactionsAssumption DEF Retry, MayRetry, CallbacksRun, Current
<1>3. ASSUME NEW c \in Calls, Finish(c) PROVE Attempts'
  BY <1>3 DEF Finish, CallbacksRun, Current
<1>4. ASSUME NEW c \in Calls,
             \/ \E m \in Models : Write(c, m)
             \/ \E f \in Files : StartUpload(c, f) \/ DeleteFile(c, f)
      PROVE  Attempts'
  <2>1. UNCHANGED <<pc, attempt, outcome, left>>
    <3>1. CASE \E m \in Models : Write(c, m)
      BY <3>1 DEF Write
    <3>2. CASE \E f \in Files : StartUpload(c, f)
      BY <3>2 DEF StartUpload
    <3>3. CASE \E f \in Files : DeleteFile(c, f)
      BY <3>3 DEF DeleteFile
    <3> QED
      BY <1>4, <3>1, <3>2, <3>3
  <2> QED
    BY <2>1 DEF Current
<1>5. ASSUME NEW c \in Calls, Commit(c) \/ \E b \in BOOLEAN : RollBack(c, b)
      PROVE  Attempts'
  <2>1. /\ pc' = [pc EXCEPT ![c] = "settling"] /\ attempt' = attempt
        /\ \E result \in {"committed", "rolledBack"} :
              outcome' = [outcome EXCEPT ![Current(c)] = result]
        /\ \E s : left' = [left EXCEPT ![c] = s]
    BY <1>5 DEF Commit, RollBack
  <2>2. Current(c) = <<c, attempt[c]>> /\ Current(c) \in Contexts
    BY CurrentContext DEF Current
  <2> QED
    BY <2>1, <2>2 DEF Current, Contexts
<1>6. ASSUME NEW c \in Calls, RunCallback(c) PROVE Attempts'
  BY <1>6 DEF RunCallback, Current
<1>7. ASSUME NEW f \in Files, Stored(f) PROVE Attempts'
  BY <1>7 DEF Stored, AfterRollback, Current, Contexts
<1>8. ASSUME NEW f \in Files, TooLarge(f) \/ RowCreated(f) \/ RowFails(f) PROVE Attempts'
  BY <1>8 DEF TooLarge, RowCreated, RowFails, DeleteStored, Current
<1> QED
  BY <1>1, <1>2, <1>3, <1>4, <1>5, <1>6, <1>7, <1>8 DEF Next

-----------------------------------------------------------------------------
(* Events.                                                                   *)

(* The events of a context that a step does not touch.                       *)
LEMMA SameContext ==
    ASSUME NEW x \in Contexts, ContextEvents(x),
           outcome'[x] = outcome[x], emitted'[x] = emitted[x], writes'[x] = writes[x],
           commitCallbacks'[x] = commitCallbacks[x], rollbackCallbacks'[x] = rollbackCallbacks[x]
    PROVE  ContextEvents(x)'
BY DEF ContextEvents, Emits, OnlyRemoves

(* The events left for a call whose context a step does not touch.           *)
LEMMA SameCall ==
    ASSUME NEW c \in Calls, CallEvents(c),
           pc'[c] = pc[c], attempt'[c] = attempt[c], left'[c] = left[c],
           outcome'[Current(c)] = outcome[Current(c)],
           emitted'[Current(c)] = emitted[Current(c)],
           writes'[Current(c)] = writes[Current(c)]
    PROVE  CallEvents(c)'
<1>1. Current(c)' = Current(c)
  BY DEF Current
<1> QED
  BY <1>1 DEF CallEvents, Settles, Emits, OnlyRemoves

(* A removal may be appended to a list of removals.                          *)
LEMMA RemovesAppend ==
    ASSUME NEW s \in Seq(Callback), OnlyRemoves(s), NEW f \in Files
    PROVE  OnlyRemoves(Append(s, RemoveObject(f)))
<1> DEFINE e == RemoveObject(f)
<1>1. e \in Callback /\ e.do = "remove"
  BY Callbacks DEF RemoveObject
<1>2. /\ Len(s) \in Nat /\ Len(Append(s, e)) = Len(s) + 1
      /\ \A i \in 1 .. Len(s) : Append(s, e)[i] = s[i]
      /\ Append(s, e)[Len(s) + 1] = e
  BY <1>1, AppendProperties, LenProperties
<1> QED
  BY <1>1, <1>2 DEF OnlyRemoves

(* The tail of a list of removals is one.                                    *)
LEMMA RemovesTail ==
    ASSUME NEW s \in Seq(Callback), s # <<>>, OnlyRemoves(s)
    PROVE  Head(s).do = "remove" /\ OnlyRemoves(Tail(s))
<1>1. /\ Len(s) \in Nat \ {0} /\ Len(Tail(s)) = Len(s) - 1
      /\ \A i \in 1 .. Len(Tail(s)) : Tail(s)[i] = s[i + 1]
  BY HeadTailProperties, EmptySeq
<1>2. Head(s) = s[1]
  OBVIOUS
<1> QED
  BY <1>1, <1>2 DEF OnlyRemoves

(* Nothing has been written or emitted at the start.                         *)
LEMMA InitEvents == Init => EventInv
<1> SUFFICES ASSUME Init PROVE EventInv
  OBVIOUS
<1>1. TypeOK
  BY InitType
<1>2. Attempts
  BY <1>1, CurrentContext DEF Init, Attempts, Contexts
<1>3. \A x \in Contexts : ContextEvents(x)
  BY EmitsEmpty DEF Init, ContextEvents, OnlyRemoves
<1>4. \A c \in Calls : CallEvents(c)
  BY DEF Init, CallEvents, Settles
<1> QED
  BY <1>1, <1>2, <1>3, <1>4 DEF EventInv

(* A write adds the next event. *)
LEMMA EventsWrite ==
    ASSUME EventInv, NEW c \in Calls, NEW m \in Models, Write(c, m)
    PROVE  (\A x \in Contexts : ContextEvents(x)') /\ (\A d \in Calls : CallEvents(d)')
<1> USE DEF EventInv, callVars, fileVars
<1>0. PICK x \in Contexts : x = Current(c)
  BY CurrentContext
<1> USE <1>0
<1> DEFINE n == Len(writes[x]) + 1
           s == commitCallbacks[x]
<1>1. x \in Contexts /\ \A d \in Calls : Current(d) = x => d = c
  BY CurrentContext
<1>2. outcome[x] = "open" /\ pc[c] = "running" /\ s \in Seq(Callback) /\ writes[x] \in Seq(Models)
  BY <1>1 DEF Write, Attempts, TypeOK
<1>3. Len(writes[x]) \in Nat /\ n <= MaxWrites /\ Emits(s, 0, Len(writes[x])) /\ emitted[x] = <<>>
  <2>1. attempt[c] \in Nat /\ n \in Nat
    BY <1>1, LenProperties, TransactionsAssumption DEF TypeOK
  <2>2. n <= MaxWrites
    BY <2>1, TransactionsAssumption DEF Write
  <2> QED
    BY <1>1, <1>2, <2>2, LenProperties DEF Write, ContextEvents
<1>4. AddInvalidation(s, m) \in Seq(Callback) /\ Emits(AddInvalidation(s, m), 0, Len(writes[x]))
  BY <1>2, <1>3, Callbacks, EmitsAppendOther DEF AddInvalidation, Invalidate
<1>5. Emits(Append(AddInvalidation(s, m), Event(n)), 0, n)
  BY <1>3, <1>4, EmitsAppend
<1>6. commitCallbacks'[x] = Append(AddInvalidation(s, m), Event(n)) /\ Len(writes'[x]) = n
  BY <1>1, <1>2 DEF Write, TypeOK
<1>7. ContextEvents(x)'
  <2>1. emitted'[x] = <<>> /\ Len(<<>>) = 0
    BY <1>3 DEF Write
  <2>2. Emits(commitCallbacks'[x], 0, Len(writes'[x])) /\ Len(writes'[x]) \in Nat
    BY <1>3, <1>5, <1>6
  <2>3. OnlyRemoves(rollbackCallbacks'[x]) /\ outcome'[x] = "open"
    BY <1>2 DEF ContextEvents, Write
  <2> QED
    BY <2>1, <2>2, <2>3 DEF ContextEvents
<1>8. ASSUME NEW y \in Contexts, y # x PROVE ContextEvents(y)'
  BY <1>8, SameContext DEF Write, TypeOK
<1>9. CallEvents(c)'
  BY <1>2 DEF CallEvents, Settles, Write
<1>10. ASSUME NEW d \in Calls, d # c PROVE CallEvents(d)'
  <2>1. Current(d) # x /\ Current(d) \in Contexts
    BY <1>1, <1>10, CurrentContext
  <2> QED
    BY <2>1, SameCall DEF Write, TypeOK
<1> QED
  BY <1>7, <1>8, <1>9, <1>10

(* deleteStored adds no event. *)
LEMMA EventsDelete ==
    ASSUME EventInv, NEW x \in Contexts, NEW f \in Files, DeleteStored(x, f),
           UNCHANGED <<callVars, outcome, writes, rollbackCallbacks, left, emitted>>
    PROVE  (\A y \in Contexts : ContextEvents(y)') /\ (\A c \in Calls : CallEvents(c)')
<1> USE DEF EventInv, callVars
<1>1. commitCallbacks[x] \in Seq(Callback)
      /\ commitCallbacks'[x] = Append(commitCallbacks[x], RemoveObject(f))
  BY DEF DeleteStored, TypeOK
<1>2. RemoveObject(f) \in Callback /\ RemoveObject(f).do # "emit"
  BY Callbacks DEF RemoveObject
<1>3. ContextEvents(x)'
  BY <1>1, <1>2, EmitsAppendOther DEF ContextEvents, OnlyRemoves
<1>4. ASSUME NEW y \in Contexts, y # x PROVE ContextEvents(y)'
  BY <1>4, SameContext DEF DeleteStored, TypeOK
<1>5. \A c \in Calls : CallEvents(c)'
  BY SameCall
<1> QED
  BY <1>3, <1>4, <1>5

(* An attempt that ends runs its events after a commit only. *)
LEMMA EventsEnd ==
    ASSUME EventInv, NEW c \in Calls, Commit(c) \/ \E b \in BOOLEAN : RollBack(c, b)
    PROVE  (\A x \in Contexts : ContextEvents(x)') /\ (\A d \in Calls : CallEvents(d)')
<1> USE DEF EventInv
<1>0. PICK x \in Contexts : x = Current(c)
  BY CurrentContext
<1> USE <1>0
<1>1. x \in Contexts /\ Current(c)' = x /\ \A d \in Calls : Current(d) = x => d = c
  BY CurrentContext DEF Commit, RollBack, Current
<1>2. outcome[x] = "open"
  BY DEF Commit, RollBack, FunctionMayEnd, Attempts
<1>3. emitted[x] = <<>> /\ Emits(commitCallbacks[x], 0, Len(writes[x]))
      /\ OnlyRemoves(rollbackCallbacks[x])
  BY <1>1, <1>2 DEF ContextEvents
<1>4. UNCHANGED <<attempt, emitted, writes, commitCallbacks, rollbackCallbacks>>
      /\ pc' = [pc EXCEPT ![c] = "settling"]
  BY DEF Commit, RollBack
<1>5. \/ outcome' = [outcome EXCEPT ![x] = "committed"]
         /\ left' = [left EXCEPT ![c] = commitCallbacks[x]]
      \/ outcome' = [outcome EXCEPT ![x] = "rolledBack"]
         /\ left' = [left EXCEPT ![c] = rollbackCallbacks[x]]
  BY DEF Commit, RollBack, RollbackList
<1>6. ContextEvents(x)'
  BY <1>1, <1>3, <1>4, <1>5 DEF ContextEvents, OnlyRemoves, TypeOK
<1>7. ASSUME NEW y \in Contexts, y # x PROVE ContextEvents(y)'
  BY <1>4, <1>5, <1>7, SameContext DEF TypeOK
<1>8. CallEvents(c)'
  <2>1. Len(emitted[x]) = 0
    BY <1>3
  <2>2. pc'[c] = "settling" /\ outcome'[x] \in {"committed", "rolledBack"}
        /\ (outcome'[x] = "committed" => left'[c] = commitCallbacks[x])
        /\ (outcome'[x] = "rolledBack" => left'[c] = rollbackCallbacks[x])
    BY <1>1, <1>4, <1>5 DEF TypeOK
  <2> QED
    BY <1>1, <1>3, <1>4, <2>1, <2>2 DEF CallEvents, Settles, OnlyRemoves, Emits
<1>9. ASSUME NEW d \in Calls, d # c PROVE CallEvents(d)'
  <2>1. Current(d) # x /\ Current(d) \in Contexts
    BY <1>1, <1>9, CurrentContext
  <2> QED
    BY <1>4, <1>5, <1>9, <2>1, SameCall DEF TypeOK
<1> QED
  BY <1>6, <1>7, <1>8, <1>9

(* A callback that emits emits the next event. *)
LEMMA EventsRun ==
    ASSUME EventInv, NEW c \in Calls, RunCallback(c)
    PROVE  (\A x \in Contexts : ContextEvents(x)') /\ (\A d \in Calls : CallEvents(d)')
<1> USE DEF EventInv
<1>0. PICK x \in Contexts : x = Current(c)
  BY CurrentContext
<1> USE <1>0
<1> DEFINE next == Head(left[c])
           a == Len(emitted[x])
           b == Len(writes[x])
<1>1. x \in Contexts /\ Current(c)' = x /\ \A d \in Calls : Current(d) = x => d = c
  BY CurrentContext DEF RunCallback, callVars, Current
<1>2. /\ left[c] \in Seq(Callback) /\ left[c] # <<>> /\ left'[c] = Tail(left[c])
      /\ pc[c] = "settling" /\ pc' = pc /\ outcome' = outcome /\ writes' = writes
      /\ attempt' = attempt /\ commitCallbacks' = commitCallbacks
      /\ rollbackCallbacks' = rollbackCallbacks
      /\ \A d \in Calls : d # c => left'[d] = left[d]
  BY DEF RunCallback, callVars, TypeOK
<1>3. outcome[x] \in {"committed", "rolledBack"}
  BY <1>1, <1>2 DEF Attempts, TypeOK
<1>4. a \in Nat /\ b \in Nat /\ emitted[x] \in Seq(1 .. MaxWrites)
  BY <1>1, LenProperties DEF TypeOK
<1>5. \A y \in Contexts : y # x => emitted'[y] = emitted[y]
  BY <1>1 DEF RunCallback, TypeOK
<1>6. \A y \in Contexts : y # x => ContextEvents(y)'
  BY <1>2, <1>5, SameContext
<1>7. ASSUME NEW d \in Calls, d # c PROVE CallEvents(d)'
  <2>1. Current(d) # x /\ Current(d) \in Contexts
    BY <1>1, <1>7, CurrentContext
  <2> QED
    BY <1>2, <1>5, <1>7, <2>1, SameCall
<1>8. CASE outcome[x] = "rolledBack"
  <2>1. next.do = "remove" /\ OnlyRemoves(Tail(left[c]))
    BY <1>2, <1>8, RemovesTail DEF CallEvents, Settles
  <2>2. emitted'[x] = emitted[x]
    BY <1>1, <2>1 DEF RunCallback
  <2>3. ContextEvents(x)'
    BY <1>1, <1>2, <2>2, SameContext
  <2>4. CallEvents(c)'
    BY <1>1, <1>2, <1>8, <2>1 DEF CallEvents, Settles, OnlyRemoves
  <2> QED
    BY <1>6, <1>7, <2>3, <2>4
<1>9. CASE outcome[x] = "committed"
  <2>1. Emits(left[c], a, b)
    BY <1>2, <1>9 DEF CallEvents, Settles
  <2>2. CASE next.do = "emit"
    <3>1. next.arg = a + 1 /\ Emits(Tail(left[c]), a + 1, b)
      BY <1>2, <1>4, <2>1, <2>2, EmitsTail
    <3>2. emitted'[x] = Append(emitted[x], a + 1)
      BY <1>1, <2>2, <3>1 DEF RunCallback, TypeOK
    <3>3. a + 1 \in 1 .. MaxWrites
      <4>1. next \in Callback
        BY <1>2, HeadTailProperties
      <4> QED
        BY <2>2, <3>1, <4>1, Callbacks
    <3>4. /\ Len(emitted'[x]) = a + 1 /\ emitted'[x][a + 1] = a + 1
          /\ \A n \in 1 .. a : emitted'[x][n] = emitted[x][n]
      BY <1>4, <3>2, <3>3, AppendProperties
    <3>5. a + 1 <= b
      BY <3>1 DEF Emits
    <3>6. ContextEvents(x)'
      BY <1>1, <1>2, <1>4, <1>9, <3>4, <3>5 DEF ContextEvents, OnlyRemoves
    <3>7. CallEvents(c)'
      BY <1>1, <1>2, <1>9, <3>1, <3>4 DEF CallEvents, Settles
    <3> QED
      BY <1>6, <1>7, <3>6, <3>7
  <2>3. CASE next.do # "emit"
    <3>1. emitted'[x] = emitted[x] /\ Emits(Tail(left[c]), a, b)
      BY <1>2, <1>4, <2>1, <2>3, EmitsTail DEF RunCallback
    <3>2. ContextEvents(x)'
      BY <1>1, <1>2, <3>1, SameContext
    <3>3. CallEvents(c)'
      BY <1>1, <1>2, <1>9, <3>1 DEF CallEvents, Settles
    <3> QED
      BY <1>6, <1>7, <3>2, <3>3
  <2> QED
    BY <2>2, <2>3
<1> QED
  BY <1>3, <1>8, <1>9

(* What is stored adds a removal. *)
LEMMA EventsStored ==
    ASSUME EventInv, NEW f \in Files, Stored(f)
    PROVE  (\A x \in Contexts : ContextEvents(x)') /\ (\A d \in Calls : CallEvents(d)')
<1> USE DEF EventInv, callVars
<1>0. PICK x \in Contexts, c \in Calls : x = owner[f] /\ c = x[1]
  BY DEF TypeOK, Contexts
<1> USE <1>0
<1>2. /\ rollbackCallbacks[x] \in Seq(Callback)
      /\ rollbackCallbacks' =
            [rollbackCallbacks EXCEPT ![x] = Append(rollbackCallbacks[x], RemoveObject(f))]
      /\ left' = left \/ (x = Current(c) /\ Settles(c, "rolledBack")
                          /\ left' = [left EXCEPT ![c] = Append(left[c], RemoveObject(f))])
  BY DEF Stored, AfterRollback, Settles, TypeOK
<1>3. ContextEvents(x)'
  <2>1. OnlyRemoves(rollbackCallbacks'[x])
    BY <1>2, RemovesAppend DEF ContextEvents, TypeOK
  <2> QED
    BY <2>1 DEF ContextEvents, Stored, OnlyRemoves
<1>4. ASSUME NEW y \in Contexts, y # x PROVE ContextEvents(y)'
  BY <1>2, <1>4, SameContext DEF Stored, TypeOK
<1>5. ASSUME NEW d \in Calls PROVE CallEvents(d)'
  <2>1. CASE left'[d] = left[d]
    BY <2>1, SameCall DEF Stored
  <2>2. CASE left'[d] # left[d]
    <3>1. d = c /\ Settles(c, "rolledBack") /\ left'[c] = Append(left[c], RemoveObject(f))
      BY <1>2, <2>2 DEF TypeOK
    <3>2. OnlyRemoves(left'[c])
      BY <3>1, RemovesAppend DEF CallEvents, TypeOK
    <3> QED
      BY <3>1, <3>2 DEF CallEvents, Settles, Stored, Current, OnlyRemoves
  <2> QED
    BY <2>1, <2>2
<1> QED
  BY <1>3, <1>4, <1>5

(* Every step keeps the events in order.                                     *)
LEMMA EventsStep == ASSUME EventInv, Next PROVE EventInv'
<1>1. TypeOK' /\ Attempts'
  BY TypeStep, AttemptsStep DEF EventInv
<1> SUFFICES (\A x \in Contexts : ContextEvents(x)') /\ (\A c \in Calls : CallEvents(c)')
  BY <1>1 DEF EventInv
<1> USE DEF EventInv, callVars, fileVars
<1>2. ASSUME UNCHANGED <<outcome, writes, commitCallbacks, rollbackCallbacks, left, emitted>>
      PROVE  /\ \A x \in Contexts : ContextEvents(x)'
             /\ \A c \in Calls : pc'[c] = pc[c] /\ attempt'[c] = attempt[c] => CallEvents(c)'
  BY <1>2, SameContext, SameCall
<1>3. ASSUME NEW c \in Calls, Begin(c) \/ Retry(c) \/ Finish(c)
      PROVE  (\A x \in Contexts : ContextEvents(x)') /\ (\A d \in Calls : CallEvents(d)')
  <2>1. UNCHANGED <<outcome, writes, commitCallbacks, rollbackCallbacks, left, emitted>>
    BY <1>3 DEF Begin, Retry, Finish
  <2>2. \A d \in Calls : d # c => pc'[d] = pc[d] /\ attempt'[d] = attempt[d]
    BY <1>3 DEF Begin, Retry, Finish, TypeOK
  <2>3. CASE Begin(c) \/ Retry(c)
    <3>1. pc'[c] = "running"
      BY <2>3 DEF Begin, Retry, TypeOK
    <3> QED
      BY <1>2, <2>1, <2>2, <3>1 DEF CallEvents, Settles
  <2>4. CASE Finish(c)
    <3>1. pc'[c] = (IF outcome[Current(c)] = "committed" THEN "resolved" ELSE "rejected")
          /\ pc[c] = "settling" /\ left[c] = <<>> /\ Current(c)' = Current(c)
      BY <2>4 DEF Finish, CallbacksRun, TypeOK, Current
    <3>2. Len(emitted[Current(c)]) \in Nat /\ Len(writes[Current(c)]) \in Nat
      BY CurrentContext, LenProperties DEF TypeOK
    <3>3. pc'[c] = "resolved" => Len(emitted[Current(c)]) = Len(writes[Current(c)])
      BY <3>1, <3>2, EmitsEmpty DEF CallEvents, Settles
    <3>4. CallEvents(c)'
      BY <2>1, <3>1, <3>3 DEF CallEvents, Settles
    <3> QED
      BY <1>2, <2>1, <2>2, <3>4
  <2> QED
    BY <1>3, <2>3, <2>4
<1>4. ASSUME NEW c \in Calls, NEW f \in Files, StartUpload(c, f)
      PROVE  (\A x \in Contexts : ContextEvents(x)') /\ (\A d \in Calls : CallEvents(d)')
  <2>1. UNCHANGED <<outcome, writes, commitCallbacks, rollbackCallbacks, left, emitted, pc, attempt>>
    BY <1>4 DEF StartUpload
  <2> QED
    BY <1>2, <2>1
<1>5. ASSUME NEW c \in Calls, NEW f \in Files, DeleteFile(c, f)
      PROVE  (\A x \in Contexts : ContextEvents(x)') /\ (\A d \in Calls : CallEvents(d)')
  <2>1. DeleteStored(Current(c), f) /\ Current(c) \in Contexts
        /\ UNCHANGED <<callVars, outcome, writes, rollbackCallbacks, left, emitted>>
    BY <1>5, CurrentContext DEF DeleteFile
  <2>2. PICK x \in Contexts : x = Current(c)
    BY <2>1
  <2> QED
    BY <2>1, <2>2, EventsDelete
<1>6. ASSUME NEW f \in Files, RowFails(f)
      PROVE  (\A x \in Contexts : ContextEvents(x)') /\ (\A d \in Calls : CallEvents(d)')
  <2>1. DeleteStored(owner[f], f) /\ owner[f] \in Contexts
        /\ UNCHANGED <<callVars, outcome, writes, rollbackCallbacks, left, emitted>>
    BY <1>6 DEF RowFails, TypeOK
  <2>2. PICK x \in Contexts : x = owner[f]
    BY <2>1
  <2> QED
    BY <2>1, <2>2, EventsDelete
<1>7. ASSUME NEW f \in Files, TooLarge(f) \/ RowCreated(f)
      PROVE  (\A x \in Contexts : ContextEvents(x)') /\ (\A d \in Calls : CallEvents(d)')
  <2>1. UNCHANGED <<outcome, writes, commitCallbacks, rollbackCallbacks, left, emitted, pc, attempt>>
    BY <1>7 DEF TooLarge, RowCreated
  <2> QED
    BY <1>2, <2>1
<1> QED
  BY <1>3, <1>4, <1>5, <1>6, <1>7, EventsWrite, EventsEnd, EventsRun, EventsStored DEF Next

-----------------------------------------------------------------------------
(* Which action it is that changes an outcome, a list, or a file.            *)

(* The outcome of a context is set once, by the commit or rollback of its    *)
(* call.                                                                     *)
LEMMA OutcomeTouched ==
    ASSUME TypeOK, Attempts, Next, NEW x \in Contexts
    PROVE  \/ outcome'[x] = outcome[x]
           \/ /\ outcome[x] = "open"
              /\ \E c \in Calls : x = Current(c) /\
                    \/ Commit(c) /\ outcome'[x] = "committed"
                    \/ \E b \in BOOLEAN : RollBack(c, b) /\ outcome'[x] = "rolledBack"
<1> USE DEF TypeOK
<1>1. ASSUME NEW c \in Calls, Commit(c) \/ \E b \in BOOLEAN : RollBack(c, b)
      PROVE  outcome[Current(c)] = "open"
  BY <1>1 DEF Commit, RollBack, FunctionMayEnd, Attempts
<1>2. ASSUME NEW c \in Calls, Commit(c)
      PROVE  outcome'[x] = outcome[x] \/ (x = Current(c) /\ outcome'[x] = "committed")
  BY <1>2 DEF Commit
<1>3. ASSUME NEW c \in Calls, NEW b \in BOOLEAN, RollBack(c, b)
      PROVE  outcome'[x] = outcome[x] \/ (x = Current(c) /\ outcome'[x] = "rolledBack")
  BY <1>3 DEF RollBack
<1>4. ASSUME NEW c \in Calls, Begin(c) \/ RunCallback(c) \/ Retry(c) \/ Finish(c)
             \/ (\E m \in Models : Write(c, m))
             \/ (\E f \in Files : StartUpload(c, f) \/ DeleteFile(c, f))
      PROVE  outcome' = outcome
  BY <1>4 DEF Begin, Write, StartUpload, DeleteFile, RunCallback, Retry, Finish
<1>5. ASSUME NEW f \in Files, Stored(f) \/ TooLarge(f) \/ RowCreated(f) \/ RowFails(f)
      PROVE  outcome' = outcome
  BY <1>5 DEF Stored, TooLarge, RowCreated, RowFails
<1> QED
  BY <1>1, <1>2, <1>3, <1>4, <1>5 DEF Next

(* What is in the list of a context stays there, and what is added.          *)
LEMMA CommitListGrows ==
    ASSUME TypeOK, Next, NEW x \in Contexts, NEW d
    PROVE  /\ Contains(commitCallbacks[x], d) => Contains(commitCallbacks'[x], d)
           /\ Contains(commitCallbacks'[x], d) =>
                 \/ Contains(commitCallbacks[x], d)
                 \/ d.do # "remove"
                 \/ \E c \in Calls, f \in Files :
                       x = Current(c) /\ DeleteFile(c, f) /\ d = RemoveObject(f)
                 \/ \E f \in Files : x = owner[f] /\ RowFails(f) /\ d = RemoveObject(f)
<1> USE DEF TypeOK, callVars, fileVars
<1>1. ASSUME NEW y \in Contexts, NEW f \in Files, DeleteStored(y, f)
      PROVE  Contains(commitCallbacks'[x], d) <=>
                Contains(commitCallbacks[x], d) \/ (x = y /\ d = RemoveObject(f))
  <2>1. /\ commitCallbacks[y] \in Seq(Callback) /\ RemoveObject(f) \in Callback
        /\ commitCallbacks'[y] = Append(commitCallbacks[y], RemoveObject(f))
        /\ x # y => commitCallbacks'[x] = commitCallbacks[x]
    BY <1>1, Callbacks DEF DeleteStored
  <2>2. Contains(Append(commitCallbacks[y], RemoveObject(f)), d)
           <=> Contains(commitCallbacks[y], d) \/ d = RemoveObject(f)
    BY <2>1, ContainsAppend
  <2> QED
    BY <2>1, <2>2
<1>2. ASSUME NEW c \in Calls, NEW m \in Models, Write(c, m)
      PROVE  /\ Contains(commitCallbacks[x], d) => Contains(commitCallbacks'[x], d)
             /\ Contains(commitCallbacks'[x], d) =>
                   Contains(commitCallbacks[x], d) \/ d.do # "remove"
  <2> DEFINE s == commitCallbacks[x]
             n == Len(writes[x]) + 1
  <2>1. CASE x = Current(c)
    <3>1. s \in Seq(Callback) /\ n \in 1 .. MaxWrites
      BY <1>2, <2>1, LenProperties, TransactionsAssumption DEF Write
    <3>2. Event(n) \in Callback /\ Invalidate(m) \in Callback
      BY <3>1, Callbacks
    <3>3. AddInvalidation(s, m) \in Seq(Callback)
      BY <3>1, <3>2 DEF AddInvalidation
    <3>4. Contains(AddInvalidation(s, m), d) <=> Contains(s, d) \/ d = Invalidate(m)
      BY <3>1, <3>2, ContainsAppend DEF AddInvalidation
    <3>5. commitCallbacks'[x] = Append(AddInvalidation(s, m), Event(n))
      BY <1>2, <2>1 DEF Write
    <3>6. Contains(commitCallbacks'[x], d)
             <=> Contains(s, d) \/ d = Invalidate(m) \/ d = Event(n)
      BY <3>2, <3>3, <3>4, <3>5, ContainsAppend
    <3> QED
      BY <3>6 DEF Event, Invalidate
  <2>2. CASE x # Current(c)
    BY <1>2, <2>2 DEF Write
  <2> QED
    BY <2>1, <2>2
<1>3. ASSUME NEW c \in Calls, NEW f \in Files, DeleteFile(c, f)
      PROVE  Contains(commitCallbacks'[x], d) <=>
                Contains(commitCallbacks[x], d) \/ (x = Current(c) /\ d = RemoveObject(f))
  BY <1>1, <1>3, CurrentContext DEF DeleteFile
<1>4. ASSUME NEW f \in Files, RowFails(f)
      PROVE  Contains(commitCallbacks'[x], d) <=>
                Contains(commitCallbacks[x], d) \/ (x = owner[f] /\ d = RemoveObject(f))
  BY <1>1, <1>4 DEF RowFails
<1>5. ASSUME NEW c \in Calls, Begin(c) \/ Commit(c) \/ RunCallback(c) \/ Retry(c) \/ Finish(c)
             \/ (\E b \in BOOLEAN : RollBack(c, b)) \/ (\E f \in Files : StartUpload(c, f))
      PROVE  commitCallbacks' = commitCallbacks
  BY <1>5 DEF Begin, StartUpload, Commit, RollBack, RunCallback, Retry, Finish
<1>6. ASSUME NEW f \in Files, Stored(f) \/ TooLarge(f) \/ RowCreated(f)
      PROVE  commitCallbacks' = commitCallbacks
  BY <1>6 DEF Stored, TooLarge, RowCreated
<1> QED
  BY <1>2, <1>3, <1>4, <1>5, <1>6 DEF Next

(* What is in the list of a context for its rollback stays there; only a     *)
(* stored file is added.                                                     *)
LEMMA RollbackListGrows ==
    ASSUME TypeOK, Next, NEW x \in Contexts, NEW d
    PROVE  /\ Contains(rollbackCallbacks[x], d) => Contains(rollbackCallbacks'[x], d)
           /\ Contains(rollbackCallbacks'[x], d) =>
                 \/ Contains(rollbackCallbacks[x], d)
                 \/ \E f \in Files : x = owner[f] /\ Stored(f) /\ d = RemoveObject(f)
           /\ \A f \in Files : x = owner[f] /\ Stored(f) =>
                 Contains(rollbackCallbacks'[x], RemoveObject(f))
<1> USE DEF TypeOK, callVars, fileVars
<1>1. ASSUME NEW f \in Files, Stored(f), NEW e
      PROVE  Contains(rollbackCallbacks'[x], e) <=>
                Contains(rollbackCallbacks[x], e) \/ (x = owner[f] /\ e = RemoveObject(f))
  <2>1. /\ rollbackCallbacks[x] \in Seq(Callback) /\ RemoveObject(f) \in Callback
        /\ x = owner[f] =>
              rollbackCallbacks'[x] = Append(rollbackCallbacks[x], RemoveObject(f))
        /\ x # owner[f] => rollbackCallbacks'[x] = rollbackCallbacks[x]
    BY <1>1, Callbacks DEF Stored, AfterRollback
  <2>2. Contains(Append(rollbackCallbacks[x], RemoveObject(f)), e)
           <=> Contains(rollbackCallbacks[x], e) \/ e = RemoveObject(f)
    BY <2>1, ContainsAppend
  <2> QED
    BY <2>1, <2>2
<1>2. ASSUME NEW c \in Calls, Begin(c) \/ Commit(c) \/ RunCallback(c) \/ Retry(c) \/ Finish(c)
             \/ (\E b \in BOOLEAN : RollBack(c, b)) \/ (\E m \in Models : Write(c, m))
             \/ (\E f \in Files : StartUpload(c, f) \/ DeleteFile(c, f))
      PROVE  rollbackCallbacks' = rollbackCallbacks
  BY <1>2 DEF Begin, StartUpload, Commit, RollBack, RunCallback, Retry, Finish, Write, DeleteFile
<1>3. ASSUME NEW f \in Files, TooLarge(f) \/ RowCreated(f) \/ RowFails(f)
      PROVE  rollbackCallbacks' = rollbackCallbacks
  BY <1>3 DEF TooLarge, RowCreated, RowFails
<1> QED
  BY <1>1, <1>2, <1>3 DEF Next

(* What is left for a call to run stays so until it runs, and comes from the *)
(* list of its context.                                                      *)
LEMMA LeftKept ==
    ASSUME TypeOK, Attempts, Next, NEW c \in Calls, NEW d, Contains(left[c], d)
    PROVE  \/ pc'[c] = "settling" /\ Contains(left'[c], d)
           \/ RunCallback(c) /\ d = Head(left[c])
<1> USE DEF TypeOK, callVars, fileVars
<1>1. pc[c] = "settling" /\ left[c] # <<>>
  BY ContainsEmpty DEF Attempts
<1>2. ASSUME NEW b \in Calls, b # c
      PROVE  /\ Begin(b) \/ Commit(b) \/ RunCallback(b) \/ Retry(b) \/ Finish(b)
                   \/ (\E z \in BOOLEAN : RollBack(b, z))
                => pc'[c] = pc[c] /\ left'[c] = left[c]
  BY <1>2 DEF Begin, Commit, RollBack, RunCallback, Retry, Finish
<1>3. ~Begin(c) /\ ~Commit(c) /\ ~Retry(c) /\ ~Finish(c) /\ \A z \in BOOLEAN : ~RollBack(c, z)
  BY <1>1 DEF Begin, Commit, RollBack, FunctionMayEnd, Retry, Finish, CallbacksRun
<1>4. ASSUME RunCallback(c) PROVE pc'[c] = pc[c] /\ left'[c] = Tail(left[c])
  BY <1>4 DEF RunCallback
<1>5. ASSUME RunCallback(c), d # Head(left[c]) PROVE Contains(left'[c], d)
  <2>1. Contains(Tail(left[c]), d)
    BY <1>1, <1>5, ContainsTail
  <2> QED
    BY <1>4, <1>5, <2>1
<1>6. ASSUME NEW b \in Calls, (\E m \in Models : Write(b, m))
                 \/ (\E f \in Files : StartUpload(b, f) \/ DeleteFile(b, f))
      PROVE  pc'[c] = pc[c] /\ left'[c] = left[c]
  BY <1>6 DEF Write, StartUpload, DeleteFile
<1>7. ASSUME NEW f \in Files, TooLarge(f) \/ RowCreated(f) \/ RowFails(f)
      PROVE  pc'[c] = pc[c] /\ left'[c] = left[c]
  BY <1>7 DEF TooLarge, RowCreated, RowFails
<1>8. ASSUME NEW f \in Files, Stored(f) PROVE pc'[c] = pc[c] /\ Contains(left'[c], d)
  <2>1. RemoveObject(f) \in Callback
    BY Callbacks
  <2>2. left'[c] = left[c] \/ left'[c] = Append(left[c], RemoveObject(f))
    BY <1>8 DEF Stored, AfterRollback
  <2>3. Contains(Append(left[c], RemoveObject(f)), d)
    BY <2>1, ContainsAppend
  <2> QED
    BY <1>8, <2>2, <2>3 DEF Stored
<1> QED
  BY <1>1, <1>2, <1>3, <1>4, <1>5, <1>6, <1>7, <1>8 DEF Next

(* Where the callbacks come from that a call has left to run.                *)
LEMMA LeftAdded ==
    ASSUME TypeOK, Attempts, Next, NEW c \in Calls, NEW d, Contains(left'[c], d)
    PROVE  \/ Contains(left[c], d)
           \/ \E f \in Files : /\ Stored(f) /\ owner[f] = Current(c) /\ d = RemoveObject(f)
                               /\ Settles(c, "rolledBack")
           \/ Commit(c) /\ Contains(commitCallbacks[Current(c)], d)
           \/ \E b \in BOOLEAN : RollBack(c, b) /\ Contains(rollbackCallbacks[Current(c)], d)
<1> USE DEF TypeOK, callVars, fileVars
<1>1. ASSUME NEW b \in Calls, b # c
      PROVE  Commit(b) \/ RunCallback(b) \/ (\E z \in BOOLEAN : RollBack(b, z))
                => left'[c] = left[c]
  BY <1>1 DEF Commit, RollBack, RunCallback
<1>2. ASSUME RunCallback(c) PROVE Contains(left[c], d)
  <2>1. left[c] # <<>> /\ left'[c] = Tail(left[c])
    BY <1>2 DEF RunCallback
  <2> QED
    BY <2>1, ContainsTail
<1>3. ASSUME Commit(c) PROVE Contains(commitCallbacks[Current(c)], d)
  BY <1>3 DEF Commit
<1>4. ASSUME NEW b \in BOOLEAN, RollBack(c, b) PROVE Contains(rollbackCallbacks[Current(c)], d)
  BY <1>4 DEF RollBack, RollbackList
<1>5. ASSUME NEW b \in Calls, Begin(b) \/ Retry(b) \/ Finish(b) \/ (\E m \in Models : Write(b, m))
                 \/ (\E f \in Files : StartUpload(b, f) \/ DeleteFile(b, f))
      PROVE  left' = left
  BY <1>5 DEF Begin, Retry, Finish, Write, StartUpload, DeleteFile
<1>6. ASSUME NEW f \in Files, TooLarge(f) \/ RowCreated(f) \/ RowFails(f)
      PROVE  left' = left
  BY <1>6 DEF TooLarge, RowCreated, RowFails
<1>7. ASSUME NEW f \in Files, Stored(f), ~Contains(left[c], d)
      PROVE  owner[f] = Current(c) /\ d = RemoveObject(f) /\ Settles(c, "rolledBack")
  <2>1. RemoveObject(f) \in Callback /\ owner[f] \in Contexts
    BY Callbacks
  <2>2. \/ left'[c] = left[c]
        \/ /\ left'[c] = Append(left[c], RemoveObject(f))
           /\ c = owner[f][1] /\ owner[f] = Current(owner[f][1])
           /\ pc[owner[f][1]] = "settling" /\ outcome[owner[f]] = "rolledBack"
    BY <1>7 DEF Stored, AfterRollback
  <2>3. Contains(Append(left[c], RemoveObject(f)), d) <=> d = RemoveObject(f)
    BY <1>7, <2>1, ContainsAppend
  <2> QED
    BY <1>7, <2>2, <2>3 DEF Settles
<1> QED
  BY <1>1, <1>2, <1>3, <1>4, <1>5, <1>6, <1>7 DEF Next

(* Who changes the upload, the owner, the rows and the object of a file.     *)
LEMMA FilesTouched ==
    ASSUME TypeOK, Next, NEW f \in Files
    PROVE  /\ upload'[f] # upload[f] =>
                 \/ \E c \in Calls : StartUpload(c, f) /\ upload'[f] = "storing"
                 \/ Stored(f) /\ upload'[f] = "stored"
                 \/ (TooLarge(f) \/ RowCreated(f) \/ RowFails(f)) /\ upload'[f] = "over"
           /\ owner'[f] # owner[f] =>
                 \E c \in Calls : StartUpload(c, f) /\ owner'[f] = Current(c)
           /\ \A x \in Contexts :
                 /\ f \in created[x] => f \in created'[x]
                 /\ f \in created'[x] => f \in created[x] \/ (RowCreated(f) /\ x = owner[f])
                 /\ f \in deleted[x] => f \in deleted'[x]
                 /\ f \in deleted'[x] => f \in deleted[x]
                       \/ \E c \in Calls : x = Current(c) /\ DeleteFile(c, f)
                 /\ f \in undeleted[x] => f \in undeleted'[x]
                 /\ f \in undeleted'[x] => f \in undeleted[x]
                       \/ \E c \in Calls : x = Current(c) /\ DeleteFile(c, f)
           /\ f \in objects' => f \in objects \/ Stored(f)
           /\ f \in objects => f \in objects' \/ TooLarge(f)
                 \/ \E c \in Calls : RunCallback(c) /\ Head(left[c]) = RemoveObject(f)
           /\ f \in rows' => f \in rows
                 \/ \E c \in Calls : Commit(c) /\ f \in created[Current(c)]
           /\ f \in rows => f \in rows'
                 \/ \E c \in Calls : Commit(c) /\ f \in deleted[Current(c)]
<1> USE DEF TypeOK, callVars, fileVars
<1>1. ASSUME NEW c \in Calls, Begin(c) \/ Retry(c) \/ Finish(c)
             \/ (\E m \in Models : Write(c, m)) \/ (\E b \in BOOLEAN : RollBack(c, b))
      PROVE  UNCHANGED <<upload, owner, created, deleted, undeleted, objects, rows>>
  BY <1>1 DEF Begin, Write, RollBack, Retry, Finish
<1>2. ASSUME NEW c \in Calls, Commit(c)
      PROVE  UNCHANGED <<upload, owner, created, deleted, undeleted, objects>>
             /\ rows' = (rows \cup created[Current(c)]) \ deleted[Current(c)]
  BY <1>2 DEF Commit
<1>3. ASSUME NEW c \in Calls, RunCallback(c)
      PROVE  /\ UNCHANGED <<upload, owner, created, deleted, undeleted, rows>>
             /\ objects' = objects \/ (Head(left[c]).do = "remove"
                                       /\ objects' = objects \ {Head(left[c]).arg})
             /\ Head(left[c]) \in Callback
  BY <1>3, HeadTailProperties DEF RunCallback
<1>4. ASSUME NEW c \in Calls, NEW g \in Files, StartUpload(c, g)
      PROVE  /\ UNCHANGED <<created, deleted, undeleted, objects, rows>>
             /\ upload' = [upload EXCEPT ![g] = "storing"]
             /\ owner' = [owner EXCEPT ![g] = Current(c)]
  BY <1>4 DEF StartUpload
<1>5. ASSUME NEW c \in Calls, NEW g \in Files, DeleteFile(c, g)
      PROVE  /\ UNCHANGED <<upload, owner, created, objects, rows>>
             /\ \/ deleted' = [deleted EXCEPT ![Current(c)] = @ \cup {g}] /\ undeleted' = undeleted
                \/ undeleted' = [undeleted EXCEPT ![Current(c)] = @ \cup {g}] /\ deleted' = deleted
  BY <1>5 DEF DeleteFile, DeleteStored, DeleteRow, DeleteRowFails
<1>6. ASSUME NEW g \in Files, Stored(g)
      PROVE  /\ UNCHANGED <<owner, created, deleted, undeleted, rows>>
             /\ upload' = [upload EXCEPT ![g] = "stored"] /\ objects' = objects \cup {g}
  BY <1>6 DEF Stored
<1>7. ASSUME NEW g \in Files, TooLarge(g)
      PROVE  /\ UNCHANGED <<owner, created, deleted, undeleted, rows>>
             /\ upload' = [upload EXCEPT ![g] = "over"] /\ objects' = objects \ {g}
  BY <1>7 DEF TooLarge
<1>8. ASSUME NEW g \in Files, RowCreated(g)
      PROVE  /\ UNCHANGED <<owner, deleted, undeleted, objects, rows>>
             /\ upload' = [upload EXCEPT ![g] = "over"]
             /\ created' = [created EXCEPT ![owner[g]] = @ \cup {g}]
  BY <1>8 DEF RowCreated
<1>9. ASSUME NEW g \in Files, RowFails(g)
      PROVE  /\ UNCHANGED <<owner, created, deleted, undeleted, objects, rows>>
             /\ upload' = [upload EXCEPT ![g] = "over"]
  BY <1>9 DEF RowFails, DeleteStored
<1>10. upload'[f] # upload[f] =>
                 \/ \E c \in Calls : StartUpload(c, f) /\ upload'[f] = "storing"
                 \/ Stored(f) /\ upload'[f] = "stored"
                 \/ (TooLarge(f) \/ RowCreated(f) \/ RowFails(f)) /\ upload'[f] = "over"
  BY <1>1, <1>2, <1>3, <1>4, <1>5, <1>6, <1>7, <1>8, <1>9 DEF Next
<1>11. owner'[f] # owner[f] =>
                 \E c \in Calls : StartUpload(c, f) /\ owner'[f] = Current(c)
  BY <1>1, <1>2, <1>3, <1>4, <1>5, <1>6, <1>7, <1>8, <1>9 DEF Next
<1>12. ASSUME NEW x \in Contexts
       PROVE  /\ f \in created[x] => f \in created'[x]
              /\ f \in created'[x] => f \in created[x] \/ (RowCreated(f) /\ x = owner[f])
  <2>1. ASSUME NEW g \in Files, RowCreated(g)
        PROVE  /\ f \in created[x] => f \in created'[x]
               /\ f \in created'[x] => f \in created[x] \/ (g = f /\ x = owner[f])
    <3>1. created' = [created EXCEPT ![owner[g]] = created[owner[g]] \cup {g}]
      BY <2>1 DEF RowCreated
    <3>2. CASE x = owner[g]
      BY <3>1, <3>2
    <3>3. CASE x # owner[g]
      BY <3>1, <3>3
    <3> QED
      BY <3>2, <3>3
  <2>2. created' = created \/ \E g \in Files : RowCreated(g)
    BY <1>1, <1>2, <1>3, <1>4, <1>5, <1>6, <1>7, <1>9 DEF Next
  <2> QED
    BY <2>1, <2>2
<1>13. ASSUME NEW x \in Contexts
       PROVE  /\ f \in deleted[x] => f \in deleted'[x]
              /\ f \in deleted'[x] => f \in deleted[x]
                     \/ \E c \in Calls : x = Current(c) /\ DeleteFile(c, f)
              /\ f \in undeleted[x] => f \in undeleted'[x]
              /\ f \in undeleted'[x] => f \in undeleted[x]
                     \/ \E c \in Calls : x = Current(c) /\ DeleteFile(c, f)
  <2>1. ASSUME NEW c \in Calls, NEW g \in Files, DeleteFile(c, g)
        PROVE  /\ f \in deleted[x] => f \in deleted'[x]
               /\ f \in deleted'[x] => f \in deleted[x] \/ (g = f /\ x = Current(c))
               /\ f \in undeleted[x] => f \in undeleted'[x]
               /\ f \in undeleted'[x] => f \in undeleted[x] \/ (g = f /\ x = Current(c))
    <3>1. CASE deleted' = [deleted EXCEPT ![Current(c)] = @ \cup {g}] /\ undeleted' = undeleted
      BY <3>1
    <3>2. CASE undeleted' = [undeleted EXCEPT ![Current(c)] = @ \cup {g}] /\ deleted' = deleted
      BY <3>2
    <3> QED
      BY <1>5, <2>1, <3>1, <3>2
  <2>2. \/ deleted' = deleted /\ undeleted' = undeleted
        \/ \E c \in Calls, g \in Files : DeleteFile(c, g)
    BY <1>1, <1>2, <1>3, <1>4, <1>6, <1>7, <1>8, <1>9 DEF Next
  <2> QED
    BY <2>1, <2>2
<1>14. f \in objects' => f \in objects \/ Stored(f)
  BY <1>1, <1>2, <1>3, <1>4, <1>5, <1>6, <1>7, <1>8, <1>9 DEF Next
<1>15. f \in objects => f \in objects' \/ TooLarge(f)
          \/ \E c \in Calls : RunCallback(c) /\ Head(left[c]) = RemoveObject(f)
  <2>1. ASSUME NEW c \in Calls, RunCallback(c), f \in objects, f \notin objects'
        PROVE  Head(left[c]) = RemoveObject(f)
    BY <1>3, <2>1, Callbacks
  <2> QED
    BY <1>1, <1>2, <1>4, <1>5, <1>6, <1>7, <1>8, <1>9, <2>1 DEF Next
<1>16. /\ f \in rows' => f \in rows
             \/ \E c \in Calls : Commit(c) /\ f \in created[Current(c)]
       /\ f \in rows => f \in rows'
             \/ \E c \in Calls : Commit(c) /\ f \in deleted[Current(c)]
  BY <1>1, <1>2, <1>3, <1>4, <1>5, <1>6, <1>7, <1>8, <1>9 DEF Next
<1> QED
  BY <1>10, <1>11, <1>12, <1>13, <1>14, <1>15, <1>16

-----------------------------------------------------------------------------
(* Stale responses.                                                          *)

(* Every step keeps the invalidations: a commit hands them to its call.      *)
LEMMA StaleStep == ASSUME StaleInv, Next PROVE StaleInv'
<1> USE DEF StaleInv
<1>1. TypeOK' /\ Attempts'
  BY TypeStep, AttemptsStep
<1>2. Invalidations'
  <2> SUFFICES ASSUME NEW x \in Contexts, outcome'[x] = "open", NEW n \in 1 .. Len(writes'[x])
               PROVE  Contains(commitCallbacks'[x], Invalidate(writes'[x][n]))
    BY DEF Invalidations
  <2>1. outcome[x] = "open"
    BY OutcomeTouched
  <2>2. CASE writes'[x] = writes[x]
    BY <2>1, <2>2, CommitListGrows DEF Invalidations
  <2>3. ASSUME NEW c \in Calls, NEW m \in Models, Write(c, m), x = Current(c)
        PROVE  Contains(commitCallbacks'[x], Invalidate(writes'[x][n]))
    <3> DEFINE s == commitCallbacks[x]
               k == Len(writes[x]) + 1
    <3>1. s \in Seq(Callback) /\ writes[x] \in Seq(Models) /\ k \in 1 .. MaxWrites
      BY <2>3, LenProperties, TransactionsAssumption DEF Write, TypeOK
    <3>2. Event(k) \in Callback /\ Invalidate(m) \in Callback
      BY <3>1, Callbacks
    <3>3. AddInvalidation(s, m) \in Seq(Callback)
          /\ Contains(AddInvalidation(s, m), Invalidate(m))
      BY <3>1, <3>2, ContainsAppend DEF AddInvalidation
    <3>4. commitCallbacks'[x] = Append(AddInvalidation(s, m), Event(k))
          /\ writes'[x] = Append(writes[x], m)
      BY <2>3 DEF Write, TypeOK
    <3>5. Contains(commitCallbacks'[x], Invalidate(m))
      BY <3>2, <3>3, <3>4, ContainsAppend
    <3>6. CASE n = k
      BY <3>1, <3>4, <3>5, <3>6, AppendProperties
    <3>7. CASE n # k
      <4>1. n \in 1 .. Len(writes[x]) /\ writes'[x][n] = writes[x][n]
        BY <3>1, <3>4, <3>7, AppendProperties, LenProperties
      <4> QED
        BY <2>1, <4>1, CommitListGrows DEF Invalidations
    <3> QED
      BY <3>6, <3>7
  <2>4. writes'[x] = writes[x] \/ \E c \in Calls, m \in Models : Write(c, m) /\ x = Current(c)
    <3> USE DEF TypeOK
    <3>1. ASSUME NEW c \in Calls, NEW m \in Models, Write(c, m), x # Current(c)
          PROVE  writes'[x] = writes[x]
      BY <3>1 DEF Write
    <3>2. ASSUME NEW c \in Calls, Begin(c) \/ Commit(c) \/ RunCallback(c) \/ Retry(c) \/ Finish(c)
                   \/ (\E b \in BOOLEAN : RollBack(c, b))
                   \/ (\E f \in Files : StartUpload(c, f) \/ DeleteFile(c, f))
          PROVE  writes' = writes
      BY <3>2 DEF Begin, StartUpload, DeleteFile, Commit, RollBack, RunCallback, Retry, Finish
    <3>3. ASSUME NEW f \in Files, Stored(f) \/ TooLarge(f) \/ RowCreated(f) \/ RowFails(f)
          PROVE  writes' = writes
      BY <3>3 DEF Stored, TooLarge, RowCreated, RowFails
    <3> QED
      BY <3>1, <3>2, <3>3 DEF Next
  <2> QED
    BY <2>2, <2>3, <2>4
<1>3. StaleIsBeingInvalidated'
  <2> SUFFICES ASSUME NEW m \in stale'
               PROVE  \E c \in Calls : pc'[c] = "settling" /\ Contains(left'[c], Invalidate(m))
    BY DEF StaleIsBeingInvalidated
  <2>1. CASE m \in stale
    <3>1. PICK c \in Calls : pc[c] = "settling" /\ Contains(left[c], Invalidate(m))
      BY <2>1 DEF StaleIsBeingInvalidated
    <3>2. ~(RunCallback(c) /\ Invalidate(m) = Head(left[c]))
      BY DEF RunCallback, Invalidate
    <3> QED
      BY <3>1, <3>2, LeftKept
  <2>2. CASE m \notin stale
    <3>1. PICK c \in Calls : Commit(c)
      <4>1. ASSUME NEW c \in Calls, Begin(c) \/ RunCallback(c) \/ Retry(c) \/ Finish(c)
                     \/ (\E b \in BOOLEAN : RollBack(c, b)) \/ (\E k \in Models : Write(c, k))
                     \/ (\E f \in Files : StartUpload(c, f) \/ DeleteFile(c, f))
            PROVE  stale' \subseteq stale
        BY <4>1 DEF Begin, Write, StartUpload, DeleteFile, RollBack, RunCallback, Retry, Finish
      <4>2. ASSUME NEW f \in Files, Stored(f) \/ TooLarge(f) \/ RowCreated(f) \/ RowFails(f)
            PROVE  stale' = stale
        BY <4>2 DEF Stored, TooLarge, RowCreated, RowFails
      <4> QED
        BY <2>2, <4>1, <4>2 DEF Next
    <3>2. PICK n \in 1 .. Len(writes[Current(c)]) : m = writes[Current(c)][n]
      <4>1. writes[Current(c)] \in Seq(Models)
        BY CurrentContext DEF TypeOK
      <4> QED
        BY <2>2, <3>1, <4>1, LenProperties DEF Commit, StaleAfter
    <3>3. outcome[Current(c)] = "open" /\ Current(c) \in Contexts
      BY <3>1, CurrentContext DEF Commit, FunctionMayEnd, Attempts
    <3>4. Contains(commitCallbacks[Current(c)], Invalidate(m))
      BY <3>2, <3>3 DEF Invalidations
    <3>5. pc'[c] = "settling" /\ left'[c] = commitCallbacks[Current(c)]
      BY <3>1 DEF Commit, TypeOK
    <3> QED
      BY <3>4, <3>5
  <2> QED
    BY <2>1, <2>2
<1> QED
  BY <1>1, <1>2, <1>3

-----------------------------------------------------------------------------
(* Rows and the objects of their files.                                      *)

(* A committed transaction has failed to delete the row of the file.         *)
Undeleted(f) == \E x \in Contexts : outcome[x] = "committed" /\ f \in undeleted[x]

(* A callback removes a file of its own rolled back attempt, or one that has *)
(* no row any more or never gets one, or one whose deletion failed.          *)
LEMMA CallbackRemoves ==
    ASSUME RowInv, NEW c \in Calls, RunCallback(c), NEW f \in Files,
           Head(left[c]) = RemoveObject(f)
    PROVE  \/ owner[f] = Current(c) /\ outcome[owner[f]] = "rolledBack" /\ upload[f] # "none"
           \/ /\ outcome[Current(c)] = "committed"
              /\ f \in deleted[Current(c)] \cup undeleted[Current(c)]
           \/ upload[f] = "over" /\ \A y \in Contexts : f \notin created[y]
<1> USE DEF RowInv
<1>1. left[c] \in Seq(Callback) /\ left[c] # <<>> /\ pc[c] = "settling"
  BY DEF RunCallback, TypeOK
<1>2. Contains(left[c], RemoveObject(f))
  BY <1>1, ContainsTail
<1>3. Current(c) \in Contexts /\ outcome[Current(c)] \in {"committed", "rolledBack"}
  BY <1>1, CurrentContext DEF Attempts, TypeOK
<1>4. CASE outcome[Current(c)] = "rolledBack"
  BY <1>1, <1>2, <1>4 DEF Removals, Settles
<1>5. CASE outcome[Current(c)] = "committed"
  <2>1. Contains(commitCallbacks[Current(c)], RemoveObject(f))
    BY <1>1, <1>2, <1>5 DEF Removals, Settles
  <2> QED
    BY <1>3, <1>5, <2>1 DEF Removals
<1> QED
  BY <1>3, <1>4, <1>5

(* The file of a row that is, or may be, committed stays where it is, unless *)
(* a deletion of the row has failed.                                         *)
LEMMA RowObjectStays ==
    ASSUME RowInv, Next, NEW f \in Files, f \in objects, f \notin objects'
    PROVE  /\ \A x \in Contexts : outcome[x] = "open" => f \notin created[x]
           /\ f \notin rows \/ Undeleted(f)
           /\ upload[f] = "stored" /\ outcome[owner[f]] = "open" => TooLarge(f)
<1> USE DEF RowInv
<1>0. owner[f] \in Contexts
  BY DEF TypeOK
<1>1. CASE TooLarge(f)
  BY <1>0, <1>1 DEF TooLarge, FileRows
<1>2. ASSUME NEW c \in Calls, RunCallback(c), Head(left[c]) = RemoveObject(f)
      PROVE  /\ \A x \in Contexts : outcome[x] = "open" => f \notin created[x]
             /\ f \notin rows \/ Undeleted(f)
             /\ ~(upload[f] = "stored" /\ outcome[owner[f]] = "open")
  <2>1. Current(c) \in Contexts
    BY CurrentContext
  <2>2. CASE owner[f] = Current(c) /\ outcome[owner[f]] = "rolledBack"
    BY <1>0, <2>1, <2>2 DEF FileRows
  <2>3. CASE outcome[Current(c)] = "committed" /\ f \in deleted[Current(c)]
    BY <1>0, <2>1, <2>3 DEF FileRows
  <2>4. CASE outcome[Current(c)] = "committed" /\ f \in undeleted[Current(c)]
    BY <1>0, <2>1, <2>4 DEF FileRows, Undeleted
  <2>5. CASE upload[f] = "over" /\ \A y \in Contexts : f \notin created[y]
    BY <1>0, <2>5 DEF FileRows
  <2> QED
    BY <1>2, <2>2, <2>3, <2>4, <2>5, CallbackRemoves
<1> QED
  BY <1>1, <1>2, FilesTouched

(* Every step keeps the rows with the files of their contexts.               *)
LEMMA FileRowsStep == ASSUME RowInv, Next PROVE FileRows'
<1> USE DEF RowInv
<1>0. ASSUME NEW f \in Files PROVE owner[f] \in Contexts
  BY <1>0 DEF TypeOK
<1>1. ASSUME NEW f \in Files, upload[f] # "none" PROVE owner'[f] = owner[f]
  BY <1>1, FilesTouched DEF StartUpload
<1>2. ASSUME NEW x \in Contexts, outcome[x] # "open" PROVE outcome'[x] = outcome[x]
  BY <1>2, OutcomeTouched
<1>3. ASSUME NEW x \in Contexts, NEW f \in Files, f \in created'[x]
      PROVE  /\ owner'[f] = x /\ upload'[f] = "over" /\ (outcome'[x] = "open" => f \in objects')
  <2>1. CASE f \in created[x]
    <3>1. owner[f] = x /\ upload[f] = "over" /\ (outcome[x] = "open" => f \in objects)
      BY <2>1 DEF FileRows
    <3>2. upload'[f] = "over"
      BY <3>1, FilesTouched DEF StartUpload, Stored
    <3>3. outcome'[x] = "open" => outcome[x] = "open"
      BY <1>2
    <3>4. outcome'[x] = "open" => f \in objects'
      BY <2>1, <3>1, <3>3, RowObjectStays
    <3> QED
      BY <1>1, <3>1, <3>2, <3>4
  <2>2. CASE RowCreated(f) /\ x = owner[f]
    BY <2>2 DEF RowCreated, CanQuery, FileRows, TypeOK
  <2> QED
    BY <1>3, <2>1, <2>2, FilesTouched
<1>4. ASSUME NEW x \in Contexts, NEW f \in Files, f \in deleted'[x] \/ f \in undeleted'[x]
      PROVE  /\ f \in created'[owner'[f]]
             /\ owner'[f] = x \/ outcome'[owner'[f]] = "committed"
  <2>1. f \in created[owner[f]] /\ (owner[f] = x \/ outcome[owner[f]] = "committed")
    <3>1. CASE f \in deleted[x] \/ f \in undeleted[x]
      BY <3>1 DEF FileRows
    <3>2. ASSUME NEW c \in Calls, x = Current(c), DeleteFile(c, f)
          PROVE  f \in created[owner[f]] /\ (owner[f] = x \/ outcome[owner[f]] = "committed")
      BY <3>2 DEF DeleteFile, FileRows
    <3> QED
      BY <1>4, <3>1, <3>2, FilesTouched
  <2>2. upload[f] = "over"
    BY <1>0, <2>1 DEF FileRows
  <2>3. f \in created'[owner[f]] /\ owner'[f] = owner[f]
    BY <1>0, <1>1, <2>1, <2>2, FilesTouched
  <2> QED
    BY <1>0, <1>2, <2>1, <2>3
<1>5. ASSUME NEW f \in Files, f \in rows'
      PROVE  f \in created'[owner'[f]] /\ outcome'[owner'[f]] = "committed"
  <2>1. f \in created[owner[f]]
    <3>1. CASE f \in rows
      BY <3>1 DEF FileRows
    <3>2. ASSUME NEW c \in Calls, Commit(c), f \in created[Current(c)]
          PROVE  f \in created[owner[f]]
      BY <3>2, CurrentContext DEF FileRows
    <3> QED
      BY <1>5, <3>1, <3>2, FilesTouched
  <2>2. owner'[f] = owner[f] /\ f \in created'[owner[f]]
    BY <1>0, <1>1, <2>1, FilesTouched DEF FileRows
  <2>3. outcome'[owner[f]] = "committed"
    <3>1. CASE f \in rows
      BY <1>0, <1>2, <3>1 DEF FileRows
    <3>2. ASSUME NEW c \in Calls, Commit(c), f \in created[Current(c)]
          PROVE  outcome'[owner[f]] = "committed"
      <4>1. owner[f] = Current(c) /\ Current(c) \in Contexts
        BY <3>2, CurrentContext DEF FileRows
      <4> QED
        BY <3>2, <4>1 DEF Commit, TypeOK
    <3> QED
      BY <1>5, <3>1, <3>2, FilesTouched
  <2> QED
    BY <2>2, <2>3
<1>6. ASSUME NEW x \in Contexts, NEW f \in Files, f \in deleted'[x], outcome'[x] = "committed"
      PROVE  f \notin rows'
  <2>1. f \in deleted[x]
    <3>1. ASSUME NEW c \in Calls, x = Current(c), DeleteFile(c, f) PROVE FALSE
      BY <1>6, <3>1 DEF DeleteFile, Attempts
    <3> QED
      BY <1>6, <3>1, FilesTouched
  <2>2. CASE outcome[x] = "committed"
    <3>1. f \notin rows
      BY <2>1, <2>2 DEF FileRows
    <3>2. ASSUME NEW c \in Calls, Commit(c), f \in created[Current(c)] PROVE FALSE
      <4>1. Current(c) \in Contexts /\ outcome[Current(c)] = "open"
        BY <3>2, CurrentContext DEF Commit, FunctionMayEnd, Attempts
      <4>2. owner[f] = Current(c)
        BY <3>2, <4>1 DEF FileRows
      <4> QED
        BY <2>1, <2>2, <4>1, <4>2 DEF FileRows
    <3> QED
      BY <3>1, <3>2, FilesTouched
  <2>3. ASSUME NEW c \in Calls, x = Current(c), Commit(c) PROVE f \notin rows'
    BY <2>1, <2>3 DEF Commit
  <2> QED
    BY <1>6, <2>2, <2>3, OutcomeTouched
<1>7. ASSUME NEW f \in Files, upload'[f] = "stored", outcome'[owner'[f]] = "open"
      PROVE  f \in objects'
  <2>1. CASE Stored(f)
    BY <2>1 DEF Stored
  <2>2. CASE upload[f] = "stored"
    <3>1. outcome[owner[f]] = "open"
      BY <1>0, <1>1, <1>2, <1>7, <2>2
    <3>2. ~TooLarge(f)
      BY <1>7 DEF TooLarge, TypeOK
    <3> QED
      BY <2>2, <3>1, <3>2, RowObjectStays DEF FileRows
  <2> QED
    BY <1>7, <2>1, <2>2, FilesTouched
<1>8. rows' \subseteq Files
  BY TypeStep DEF TypeOK
<1> QED
  BY <1>3, <1>4, <1>5, <1>6, <1>7, <1>8 DEF FileRows

(* Every step keeps the removals with the files they are for.                *)
LEMMA RemovalsStep == ASSUME RowInv, Next PROVE Removals'
<1> USE DEF RowInv
<1>0. ASSUME NEW f \in Files PROVE owner[f] \in Contexts
  BY <1>0 DEF TypeOK
<1>1. ASSUME NEW f \in Files, upload[f] # "none"
      PROVE  owner'[f] = owner[f] /\ upload'[f] # "none"
  BY <1>1, FilesTouched DEF StartUpload
<1>2. ASSUME NEW x \in Contexts, outcome[x] # "open" PROVE outcome'[x] = outcome[x]
  BY <1>2, OutcomeTouched
<1>3. ASSUME NEW x \in Contexts, NEW f \in Files,
             Contains(rollbackCallbacks'[x], RemoveObject(f))
      PROVE  owner'[f] = x /\ upload'[f] # "none"
  <2>1. CASE Contains(rollbackCallbacks[x], RemoveObject(f))
    BY <1>1, <2>1 DEF Removals
  <2>2. ASSUME NEW g \in Files, x = owner[g], Stored(g), RemoveObject(f) = RemoveObject(g)
        PROVE  owner'[f] = x /\ upload'[f] # "none"
    <3>1. g = f
      BY <2>2 DEF RemoveObject
    <3> QED
      BY <1>1, <2>2, <3>1 DEF Stored
  <2> QED
    BY <1>3, <2>1, <2>2, RollbackListGrows
<1>4. ASSUME NEW x \in Contexts, NEW f \in Files,
             Contains(commitCallbacks'[x], RemoveObject(f)),
             f \notin deleted'[x], f \notin undeleted'[x]
      PROVE  upload'[f] = "over" /\ \A y \in Contexts : f \notin created'[y]
  <2>1. CASE Contains(commitCallbacks[x], RemoveObject(f))
    <3>1. upload[f] = "over" /\ \A y \in Contexts : f \notin created[y]
      BY <1>4, <2>1, FilesTouched DEF Removals
    <3>2. upload'[f] = "over" /\ ~RowCreated(f)
      BY <3>1, FilesTouched DEF StartUpload, Stored, RowCreated
    <3> QED
      BY <3>1, <3>2, FilesTouched
  <2>2. ASSUME NEW c \in Calls, NEW g \in Files, x = Current(c), DeleteFile(c, g),
               RemoveObject(f) = RemoveObject(g)
        PROVE  FALSE
    <3>1. g = f
      BY <2>2 DEF RemoveObject
    <3> QED
      BY <1>4, <2>2, <3>1 DEF DeleteFile, DeleteRow, DeleteRowFails, TypeOK
  <2>3. ASSUME NEW g \in Files, RowFails(g), RemoveObject(f) = RemoveObject(g)
        PROVE  upload'[f] = "over" /\ \A y \in Contexts : f \notin created'[y]
    <3>1. g = f
      BY <2>3 DEF RemoveObject
    <3> QED
      BY <2>3, <3>1 DEF RowFails, FileRows, TypeOK
  <2>4. RemoveObject(f).do = "remove"
    BY DEF RemoveObject
  <2> QED
    BY <1>4, <2>1, <2>2, <2>3, <2>4, CommitListGrows
<1>5. ASSUME NEW c \in Calls, NEW f \in Files, Contains(left'[c], RemoveObject(f))
      PROVE  /\ Settles(c, "rolledBack")' => owner'[f] = Current(c)' /\ upload'[f] # "none"
             /\ Settles(c, "committed")' =>
                   Contains(commitCallbacks'[Current(c)'], RemoveObject(f))
  <2>0. Current(c) \in Contexts
    BY CurrentContext
  <2>1. CASE Contains(left[c], RemoveObject(f))
    <3>1. pc[c] = "settling" /\ outcome[Current(c)] # "open" /\ left[c] # <<>>
      BY <2>1, ContainsEmpty DEF Attempts
    <3>2. outcome'[Current(c)] = outcome[Current(c)]
      BY <1>2, <2>0, <3>1
    <3>3. attempt'[c] = attempt[c]
      <4> USE DEF TypeOK, callVars
      <4>1. ~Retry(c)
        BY <3>1 DEF Retry, CallbacksRun
      <4>2. ASSUME NEW d \in Calls, d # c, Retry(d) PROVE attempt'[c] = attempt[c]
        BY <4>2 DEF Retry
      <4>3. ASSUME NEW d \in Calls, Begin(d) \/ Commit(d) \/ RunCallback(d) \/ Finish(d)
                   \/ (\E b \in BOOLEAN : RollBack(d, b)) \/ (\E m \in Models : Write(d, m))
                   \/ (\E g \in Files : StartUpload(d, g) \/ DeleteFile(d, g))
            PROVE  attempt' = attempt
        BY <4>3 DEF Begin, Write, StartUpload, DeleteFile, Commit, RollBack, RunCallback, Finish
      <4>4. ASSUME NEW g \in Files, Stored(g) \/ TooLarge(g) \/ RowCreated(g) \/ RowFails(g)
            PROVE  attempt' = attempt
        BY <4>4 DEF Stored, TooLarge, RowCreated, RowFails
      <4> QED
        BY <4>1, <4>2, <4>3, <4>4 DEF Next
    <3>4. Current(c)' = Current(c)
      BY <3>3 DEF Current
    <3>5. CASE outcome[Current(c)] = "rolledBack"
      <4>1. owner[f] = Current(c) /\ upload[f] # "none"
        BY <2>1, <3>1, <3>5 DEF Removals, Settles
      <4> QED
        BY <1>1, <3>2, <3>4, <3>5, <4>1 DEF Settles
    <3>6. CASE outcome[Current(c)] = "committed"
      <4>1. Contains(commitCallbacks[Current(c)], RemoveObject(f))
        BY <2>1, <3>1, <3>6 DEF Removals, Settles
      <4> QED
        BY <2>0, <3>2, <3>4, <3>6, <4>1, CommitListGrows DEF Settles
    <3> QED
      BY <2>0, <3>1, <3>5, <3>6 DEF TypeOK
  <2>2. ASSUME NEW g \in Files, Stored(g), owner[g] = Current(c),
               RemoveObject(f) = RemoveObject(g), Settles(c, "rolledBack")
        PROVE  /\ Settles(c, "rolledBack")' => owner'[f] = Current(c)' /\ upload'[f] # "none"
               /\ ~Settles(c, "committed")'
    <3>1. g = f
      BY <2>2 DEF RemoveObject
    <3>2. Current(c)' = Current(c) /\ outcome' = outcome
      BY <2>2 DEF Stored, callVars, Current
    <3> QED
      BY <1>1, <2>2, <3>1, <3>2 DEF Stored, Settles
  <2>3. ASSUME Commit(c), Contains(commitCallbacks[Current(c)], RemoveObject(f))
        PROVE  /\ ~Settles(c, "rolledBack")'
               /\ Contains(commitCallbacks'[Current(c)'], RemoveObject(f))
    BY <2>0, <2>3 DEF Commit, Current, Settles, TypeOK
  <2>4. ASSUME NEW b \in BOOLEAN, RollBack(c, b),
               Contains(rollbackCallbacks[Current(c)], RemoveObject(f))
        PROVE  /\ owner'[f] = Current(c)' /\ upload'[f] # "none"
               /\ ~Settles(c, "committed")'
    <3>1. owner[f] = Current(c) /\ upload[f] # "none"
      BY <2>0, <2>4 DEF Removals
    <3> QED
      BY <1>1, <2>0, <2>4, <3>1 DEF RollBack, Current, Settles, TypeOK
  <2> QED
    BY <1>5, <2>1, <2>2, <2>3, <2>4, LeftAdded
<1> QED
  BY <1>3, <1>4, <1>5 DEF Removals

(* Every step keeps the object of every row whose deletion has not failed.   *)
LEMMA RowsStep == ASSUME RowInv, Next PROVE RowInv'
<1>1. TypeOK' /\ Attempts' /\ FileRows' /\ Removals'
  BY TypeStep, AttemptsStep, FileRowsStep, RemovalsStep DEF RowInv
<1>2. RowHasObject'
  <2> SUFFICES ASSUME NEW f \in Files, f \in rows', f \notin objects' PROVE Undeleted(f)'
    BY <1>1 DEF RowHasObject, Undeleted, TypeOK
  <2>1. ASSUME Undeleted(f) PROVE Undeleted(f)'
    <3>1. PICK x \in Contexts : outcome[x] = "committed" /\ f \in undeleted[x]
      BY <2>1 DEF Undeleted
    <3>2. outcome'[x] = "committed" /\ f \in undeleted'[x]
      BY <3>1, OutcomeTouched, FilesTouched DEF RowInv
    <3> QED
      BY <3>2 DEF Undeleted
  <2>2. CASE f \in rows
    <3>1. CASE f \in objects
      BY <2>1, <2>2, <3>1, RowObjectStays DEF RowInv
    <3>2. CASE f \notin objects
      BY <2>1, <2>2, <3>2 DEF RowInv, RowHasObject, Undeleted
    <3> QED
      BY <3>1, <3>2
  <2>3. ASSUME NEW c \in Calls, Commit(c), f \in created[Current(c)] PROVE FALSE
    <3>1. Current(c) \in Contexts /\ outcome[Current(c)] = "open"
      BY <2>3, CurrentContext DEF Commit, FunctionMayEnd, Attempts, RowInv
    <3>2. f \in objects
      BY <2>3, <3>1 DEF RowInv, FileRows
    <3> QED
      BY <2>3, <3>2 DEF Commit, fileVars
  <2> QED
    BY <2>2, <2>3, FilesTouched DEF RowInv
<1> QED
  BY <1>1, <1>2 DEF RowInv

-----------------------------------------------------------------------------
(* Orphans, when no function leaves an upload running.                       *)

(* Every step keeps a removal for each file that may get no row.             *)
LEMMA ToBeRemovedStep == ASSUME OrphanInv, ~LeavesRunning, Next PROVE ToBeRemoved'
<1> USE DEF OrphanInv, RowInv
<1>0. ASSUME NEW f \in Files PROVE owner[f] \in Contexts
  BY <1>0 DEF TypeOK
<1>1. ASSUME NEW f \in Files, upload[f] # "none" PROVE owner'[f] = owner[f]
  BY <1>1, FilesTouched DEF StartUpload
<1>2. ASSUME NEW f \in Files, upload'[f] = "none" PROVE f \notin objects'
  <2>1. upload[f] = "none" /\ ~Stored(f)
    BY <1>2, FilesTouched DEF Stored
  <2> QED
    BY <2>1, FilesTouched DEF ToBeRemoved
<1>3. ASSUME NEW f \in Files, upload'[f] \in {"storing", "stored"}
      PROVE  outcome'[owner'[f]] = "open"
  <2>1. ASSUME NEW c \in Calls, StartUpload(c, f) PROVE outcome'[owner'[f]] = "open"
    BY <2>1 DEF StartUpload, Attempts, TypeOK
  <2>2. CASE upload[f] \in {"storing", "stored"}
    <3>1. outcome[owner[f]] = "open" /\ owner'[f] = owner[f]
      BY <1>1, <2>2 DEF ToBeRemoved
    <3>2. ASSUME NEW c \in Calls, owner[f] = Current(c), FunctionMayEnd(c) PROVE FALSE
      BY <2>2, <3>2 DEF FunctionMayEnd
    <3> QED
      BY <1>0, <3>1, <3>2, OutcomeTouched DEF Commit, RollBack
  <2> QED
    BY <1>3, <2>1, <2>2, FilesTouched DEF Stored
<1>4. ASSUME NEW f \in Files, upload'[f] = "stored" \/ (upload'[f] = "over" /\ f \in objects')
      PROVE  Contains(rollbackCallbacks'[owner'[f]], RemoveObject(f))
  <2>1. CASE Stored(f)
    <3>1. owner'[f] = owner[f]
      BY <2>1 DEF Stored
    <3> QED
      BY <1>0, <2>1, <3>1, RollbackListGrows
  <2>2. CASE ~Stored(f)
    <3>1. upload[f] = "stored" \/ (upload[f] = "over" /\ f \in objects)
      BY <1>4, <2>2, FilesTouched DEF TooLarge, RowCreated, RowFails
    <3>2. Contains(rollbackCallbacks[owner[f]], RemoveObject(f)) /\ owner'[f] = owner[f]
      BY <1>1, <3>1 DEF ToBeRemoved
    <3> QED
      BY <1>0, <3>2, RollbackListGrows
  <2> QED
    BY <2>1, <2>2
<1>5. ASSUME NEW f \in Files, upload'[f] = "over", f \in objects', f \notin created'[owner'[f]]
      PROVE  Contains(commitCallbacks'[owner'[f]], RemoveObject(f))
  <2>1. ~Stored(f) /\ ~TooLarge(f) /\ f \in objects
    BY <1>5, FilesTouched DEF Stored, TooLarge, TypeOK
  <2>2. CASE upload[f] = "over"
    <3>1. owner'[f] = owner[f] /\ f \notin created[owner[f]]
      BY <1>0, <1>1, <1>5, <2>2, FilesTouched
    <3> QED
      BY <1>0, <2>1, <2>2, <3>1, CommitListGrows DEF ToBeRemoved
  <2>3. CASE RowCreated(f)
    BY <1>0, <1>5, <2>3 DEF RowCreated, TypeOK
  <2>4. CASE RowFails(f)
    <3>1. owner'[f] = owner[f] /\ RemoveObject(f) \in Callback
          /\ commitCallbacks'[owner[f]] = Append(commitCallbacks[owner[f]], RemoveObject(f))
          /\ commitCallbacks[owner[f]] \in Seq(Callback)
      BY <1>0, <2>4, Callbacks DEF RowFails, DeleteStored, TypeOK
    <3>2. Contains(Append(commitCallbacks[owner[f]], RemoveObject(f)), RemoveObject(f))
      BY <3>1, ContainsAppend
    <3> QED
      BY <3>1, <3>2
  <2> QED
    BY <1>5, <2>1, <2>2, <2>3, <2>4, FilesTouched
<1>6. ASSUME NEW x \in Contexts, NEW f \in deleted'[x]
      PROVE  Contains(commitCallbacks'[x], RemoveObject(f))
  <2>0. f \in Files
    BY TypeStep DEF TypeOK
  <2>1. CASE f \in deleted[x]
    BY <2>1, CommitListGrows DEF ToBeRemoved
  <2>2. ASSUME NEW c \in Calls, x = Current(c), DeleteFile(c, f)
        PROVE  Contains(commitCallbacks'[x], RemoveObject(f))
    <3>1. RemoveObject(f) \in Callback /\ commitCallbacks[x] \in Seq(Callback)
          /\ commitCallbacks'[x] = Append(commitCallbacks[x], RemoveObject(f))
      BY <2>0, <2>2, Callbacks DEF DeleteFile, DeleteStored, TypeOK
    <3>2. Contains(Append(commitCallbacks[x], RemoveObject(f)), RemoveObject(f))
      BY <3>1, ContainsAppend
    <3> QED
      BY <3>1, <3>2
  <2> QED
    BY <2>0, <2>1, <2>2, FilesTouched
<1> QED
  BY <1>2, <1>3, <1>4, <1>5, <1>6 DEF ToBeRemoved

(* The end of a transaction hands the removal of its orphans to its call.    *)
LEMMA NoOrphanStep == ASSUME OrphanInv, ~LeavesRunning, Next PROVE NoOrphan'
<1> USE DEF OrphanInv, RowInv
<1> SUFFICES ASSUME NEW f \in Files, f \in objects', f \notin rows', outcome'[owner'[f]] # "open"
             PROVE  \E c \in Calls : Contains(left'[c], RemoveObject(f))
  BY TypeStep DEF NoOrphan, TypeOK
<1>0. owner[f] \in Contexts
  BY DEF TypeOK
<1>1. ToBeRemoved'
  BY ToBeRemovedStep
<1>2. upload'[f] # "stored"
  BY <1>1 DEF ToBeRemoved
<1>3. ~Stored(f)
  BY <1>2 DEF Stored, TypeOK
<1>4. f \in objects /\ upload[f] # "none" /\ owner'[f] = owner[f]
  BY <1>3, FilesTouched DEF ToBeRemoved, StartUpload
<1>5. ASSUME NEW c \in Calls, Commit(c), f \in deleted[Current(c)]
      PROVE  Contains(left'[c], RemoveObject(f))
  <2>1. Current(c) \in Contexts /\ left'[c] = commitCallbacks[Current(c)]
    BY <1>5, CurrentContext DEF Commit, TypeOK
  <2> QED
    BY <1>5, <2>1 DEF ToBeRemoved
<1>6. CASE f \in rows
  BY <1>5, <1>6, FilesTouched
<1>7. ASSUME NEW c \in Calls, Contains(left[c], RemoveObject(f))
      PROVE  Contains(left'[c], RemoveObject(f))
  <2>1. ~(RunCallback(c) /\ RemoveObject(f) = Head(left[c]))
    BY DEF RunCallback, RemoveObject
  <2> QED
    BY <1>7, <2>1, LeftKept
<1>8. ASSUME NEW c \in Calls, owner[f] = Current(c), f \notin rows, FunctionMayEnd(c)
      PROVE  upload[f] = "over"
  BY <1>4, <1>8 DEF FunctionMayEnd, TypeOK
<1>9. ASSUME NEW c \in Calls, owner[f] = Current(c), Commit(c), f \notin rows
      PROVE  Contains(left'[c], RemoveObject(f))
  <2>1. upload[f] = "over"
    BY <1>8, <1>9 DEF Commit
  <2>2. CASE f \in created[Current(c)]
    BY <1>5, <1>9, <2>2 DEF Commit
  <2>3. CASE f \notin created[Current(c)]
    <3>1. Contains(commitCallbacks[owner[f]], RemoveObject(f))
      BY <1>4, <1>9, <2>1, <2>3 DEF ToBeRemoved
    <3> QED
      BY <1>9, <3>1 DEF Commit, TypeOK
  <2> QED
    BY <2>2, <2>3
<1>10. ASSUME NEW c \in Calls, NEW b \in BOOLEAN, owner[f] = Current(c), RollBack(c, b), f \notin rows
       PROVE  Contains(left'[c], RemoveObject(f))
  <2>1. upload[f] = "over"
    BY <1>8, <1>10 DEF RollBack
  <2>2. Contains(rollbackCallbacks[owner[f]], RemoveObject(f))
    BY <1>4, <2>1 DEF ToBeRemoved
  <2> QED
    BY <1>10, <2>2 DEF RollBack, RollbackList, TypeOK
<1>11. CASE f \notin rows /\ outcome[owner[f]] = "open"
  BY <1>0, <1>4, <1>9, <1>10, <1>11, OutcomeTouched
<1>12. CASE f \notin rows /\ outcome[owner[f]] # "open"
  BY <1>4, <1>7, <1>12 DEF NoOrphan
<1> QED
  BY <1>6, <1>11, <1>12

-----------------------------------------------------------------------------
(* The theorems.                                                             *)

(* The events, attempts and types, for every step.                           *)
LEMMA EventInvariant == Spec => []EventInv
<1>1. ASSUME EventInv, UNCHANGED vars PROVE EventInv'
  <2> USE <1>1 DEF EventInv, vars, callVars, fileVars
  <2>1. TypeOK' /\ Attempts'
    BY DEF TypeOK, Attempts, Current
  <2> QED
    BY <2>1, SameContext, SameCall
<1>2. EventInv /\ [Next]_vars => EventInv'
  BY <1>1, EventsStep
<1> QED
  BY <1>2, InitEvents, PTL DEF Spec

(* The invalidations, for every step.                                        *)
LEMMA StaleInvariant == Spec => []StaleInv
<1>1. Init => StaleInv
  BY InitEvents DEF Init, EventInv, StaleInv, Invalidations, StaleIsBeingInvalidated
<1>2. ASSUME StaleInv, UNCHANGED vars PROVE StaleInv'
  BY <1>2 DEF StaleInv, vars, callVars, fileVars, TypeOK, Attempts, Current, Invalidations,
              StaleIsBeingInvalidated
<1>3. StaleInv /\ [Next]_vars => StaleInv'
  BY <1>2, StaleStep
<1> QED
  BY <1>1, <1>3, PTL DEF Spec

(* The rows and removals, for every step.                                    *)
LEMMA RowInvariant == Spec => []RowInv
<1>1. Init => RowInv
  BY InitEvents, ContainsEmpty
     DEF Init, EventInv, RowInv, FileRows, Removals, RowHasObject
<1>2. ASSUME RowInv, UNCHANGED vars PROVE RowInv'
  BY <1>2 DEF RowInv, vars, callVars, fileVars, TypeOK, Attempts, Current, FileRows,
              Removals, Settles, RowHasObject
<1>3. RowInv /\ [Next]_vars => RowInv'
  BY <1>2, RowsStep
<1> QED
  BY <1>1, <1>3, PTL DEF Spec

(* The variables of the transactions keep their types: a call makes no more  *)
(* attempts than the retries option allows.                                  *)
THEOREM TypeCorrect == Spec => []TypeOK
BY EventInvariant, PTL DEF EventInv

(* Listeners get the events of committed writes only, each once and in the   *)
(* order of the writes (transaction-scope.ts, afterCommit; settleTransaction *)
(* of prisma-database.ts).                                                   *)
THEOREM EventsAreOfCommits == Spec => []EventsOfCommits
<1>1. EventInv => EventsOfCommits
  <2> SUFFICES ASSUME EventInv, NEW x \in Contexts
               PROVE  /\ emitted[x] # <<>> => outcome[x] = "committed"
                      /\ Len(emitted[x]) <= Len(writes[x])
                      /\ \A n \in DOMAIN emitted[x] : emitted[x][n] = n
    BY DEF EventsOfCommits
  <2>1. DOMAIN emitted[x] = 1 .. Len(emitted[x])
    BY LenProperties DEF EventInv, TypeOK
  <2> QED
    BY <2>1 DEF EventInv, ContextEvents
<1> QED
  BY <1>1, EventInvariant, PTL

(* A call that has returned has emitted all events of its writes.            *)
THEOREM CallsAreEffective == Spec => []ResolvedIsEffective
<1>1. EventInv => ResolvedIsEffective
  BY DEF EventInv, CallEvents, ResolvedIsEffective
<1> QED
  BY <1>1, EventInvariant, PTL

(* A response that a commit made stale is kept only while a call that has    *)
(* not returned is to invalidate it.                                         *)
THEOREM StaleAreInvalidated == Spec => []StaleIsBeingInvalidated
BY StaleInvariant, PTL DEF StaleInv

(* A committed row is without its file only when a transaction committed     *)
(* although its deletion of the row had failed: no rollback and no waiting   *)
(* removal takes the file of a row, also when uploads are left running.      *)
THEOREM RowsHaveObjects == Spec => []RowHasObject
BY RowInvariant, PTL DEF RowInv

(* When no function leaves an upload running, a file without a row is that   *)
(* of a transaction under way or about to be removed.                        *)
THEOREM NoOrphans == ASSUME ~LeavesRunning PROVE Spec => []NoOrphan
<1>1. Init => OrphanInv
  <2>1. Init => RowInv
    BY InitEvents, ContainsEmpty
       DEF Init, EventInv, RowInv, FileRows, Removals, RowHasObject
  <2>2. Init => ToBeRemoved /\ NoOrphan
    BY DEF Init, ToBeRemoved, NoOrphan
  <2> QED
    BY <2>1, <2>2 DEF OrphanInv
<1>2. ASSUME OrphanInv, Next PROVE OrphanInv'
  BY <1>2, RowsStep, ToBeRemovedStep, NoOrphanStep DEF OrphanInv
<1>3. ASSUME OrphanInv, UNCHANGED vars PROVE OrphanInv'
  BY <1>3 DEF OrphanInv, RowInv, vars, callVars, fileVars, TypeOK, Attempts, Current, FileRows,
              Removals, Settles, RowHasObject, ToBeRemoved, NoOrphan
<1>4. OrphanInv /\ [Next]_vars => OrphanInv'
  BY <1>2, <1>3
<1> QED
  BY <1>1, <1>4, PTL DEF Spec, OrphanInv
=============================================================================
