----------------------------- MODULE CallProofs -----------------------------
(***************************************************************************)
(* What the circuit breaker guarantees however many goroutines share it,   *)
(* and what it guarantees to a single one; what the calls made through it  *)
(* and its retries guarantee; and the histories of the conversations these *)
(* calls carry, for every budget of iterations and number of tool calls.   *)
(***************************************************************************)
EXTENDS ProtectedCalls, Conversation, Checks, FiniteSetTheorems, SequenceTheorems,
        WellFoundedInduction, TLAPS

-----------------------------------------------------------------------------
(* Any number of goroutines.                                               *)

\* Every step keeps the variables within their types.
LEMMA TypeStep == TypeOK /\ [Next]_vars => TypeOK'
<1> SUFFICES ASSUME TypeOK, [Next]_vars PROVE TypeOK'
  OBVIOUS
<1> USE BreakerConstants
<1>1. CASE UNCHANGED vars
  BY <1>1 DEF TypeOK, vars
<1>2. CASE Tick
  BY <1>2 DEF Tick, TypeOK, counters
<1>3. ASSUME NEW c \in Callers, Execute(c)
      PROVE  TypeOK'
  <2>1. call[c] \in Call
    BY DEF TypeOK
  <2>2. ASSUME NEW s \in Steps, Goto(c, s)
        PROVE  call' \in [Callers -> Call]
    BY <2>1, <2>2 DEF TypeOK, Goto, Call
  <2>3. ASSUME NEW s \in Steps, NEW t \in Nat,
               \/ call' = [call EXCEPT ![c].pc = s, ![c].at = t]
               \/ call' = [call EXCEPT ![c].at = t, ![c].pc = s]
               \/ call' = [call EXCEPT ![c].pc = s, ![c].n = t]
        PROVE  call' \in [Callers -> Call]
    BY <2>1, <2>3 DEF TypeOK, Call
  <2>4. call' \in [Callers -> Call]
    <3>1. CASE LoadState(c)
      <4> DEFINE next == CASE state = "closed" -> "run" [] state = "open" -> "checkTimeout"
                           [] state = "half-open" -> "checkRequests"
      <4>1. next \in Steps /\ now \in Nat
        BY DEF TypeOK, States, Steps
      <4>2. call' = [call EXCEPT ![c].at = now, ![c].pc = next]
        BY <3>1 DEF LoadState
      <4> QED
        BY ONLY <4>1, <4>2, <2>3
    <3>2. CASE Fail(c)
      <4>1. "stamp" \in Steps /\ now \in Nat
        BY DEF TypeOK, Steps
      <4> QED
        BY <3>2, <4>1, <2>3 DEF Fail
    <3>3. CASE LoadFailures(c) \/ Succeed(c)
      <4>1. {"loadRequests", "loadStateOk"} \subseteq Steps
            /\ failures \in Nat /\ successes + 1 \in Nat
        BY DEF TypeOK, Steps
      <4> QED
        BY <3>3, <4>1, <2>3 DEF LoadFailures, Succeed
    <3>4. ASSUME ~LoadState(c), ~Fail(c), ~LoadFailures(c), ~Succeed(c)
          PROVE  \E s \in Steps : Goto(c, s)
      BY <1>3, <3>4
      DEF Execute, CheckTimeout, CheckRequests, CasHalfOpen, CasOpen, CasReopen, CasClose,
          ResetSuccesses, ClearSuccesses, ResetFailures, ResetRequests, Return, StampFailure,
          LoadStateFail, LoadRequests, LoadStateOk, OnFailure, Steps, States, TypeOK
    <3> QED
      BY <2>2, <3>1, <3>2, <3>3, <3>4
  <2>5. /\ failures' \in Nat /\ requests' \in Nat /\ successes' \in Nat
        /\ lastFailure' \in Nat /\ now' = now
    <3>1. call[c].at \in Nat
      BY <2>1 DEF Call
    <3> QED
      BY <1>3, <3>1
      DEF TypeOK, Execute, LoadState, CheckTimeout, CheckRequests, Return, Succeed, LoadStateOk,
          ResetSuccesses, ResetFailures, ResetRequests, Fail, StampFailure, Stamp,
          ClearSuccesses, LoadStateFail, LoadFailures, LoadRequests, CasHalfOpen, CasOpen,
          CasReopen, CasClose, counters
  <2>6. state' \in States
    BY <1>3
    DEF TypeOK, Execute, LoadState, CheckTimeout, CheckRequests, Return, Succeed, LoadStateOk,
        ResetSuccesses, ResetFailures, ResetRequests, Fail, StampFailure, ClearSuccesses,
        LoadStateFail, LoadFailures, LoadRequests, CasHalfOpen, CasOpen, CasReopen, CasClose,
        Swapped, States
  <2> QED
    BY <2>4, <2>5, <2>6 DEF TypeOK
<1> QED
  BY <1>1, <1>2, <1>3 DEF Next

\* What follows needs the steps of the breaker and no fairness: it is true of
\* the breaker alone and of the one that retry loops call.
BreakerSteps == Init /\ [][Next]_vars

\* Types need no fairness.
LEMMA BreakerTypes == BreakerSteps => []TypeOK
<1>1. Init => TypeOK
  BY BreakerConstants DEF Init, TypeOK, States, Steps, Call
<1> QED
  BY <1>1, TypeStep, PTL DEF BreakerSteps

\* The breaker's words and every goroutine's locals keep their types.
THEOREM BreakerTypeCorrect == Spec => []TypeOK
BY BreakerTypes, PTL DEF Spec, BreakerSteps

\* The steps of recordFailure that follow the store of lastFailureTime.
AfterStamp == {"clearSuccesses", "loadStateFail", "loadFailures", "loadRequests", "casOpen",
               "casReopen"}

\* OpenIsStamped with what makes it inductive: a goroutine about to store a
\* time holds a real one, one past the store has left a real one behind, and
\* the circuit can only open in the hands of the latter.
StampInv ==
    /\ OpenIsStamped
    /\ \A c \in Callers :
         /\ At(c, "stamp") => call[c].at >= Created
         /\ call[c].pc \in AfterStamp => lastFailure >= Created

\* Every step of the breaker keeps a circuit that opens stamped.
LEMMA StampStep == TypeOK /\ StampInv /\ [Next]_vars => StampInv'
<1> SUFFICES ASSUME TypeOK, StampInv, [Next]_vars PROVE StampInv'
  OBVIOUS
<1> USE BreakerConstants DEF StampInv, OpenIsStamped, At, AfterStamp
<1>1. CASE UNCHANGED vars
  BY <1>1 DEF vars
<1>2. CASE Tick
  BY <1>2 DEF Tick, counters
<1>3. ASSUME NEW c \in Callers, Execute(c)
      PROVE  StampInv'
  <2>1. /\ call \in [Callers -> Call] /\ call[c] \in Call
        /\ now \in Nat /\ now >= Created /\ lastFailure \in Nat /\ state \in States
    BY DEF TypeOK
  <2>2. CASE \/ LoadState(c) \/ CheckTimeout(c) \/ CheckRequests(c) \/ Return(c) \/ Succeed(c)
             \/ LoadStateOk(c) \/ ResetSuccesses(c) \/ ResetFailures(c) \/ ResetRequests(c)
    BY <2>1, <2>2
    DEF LoadState, CheckTimeout, CheckRequests, Return, Succeed, LoadStateOk, ResetSuccesses,
        ResetFailures, ResetRequests, Goto, counters, Call, States
  <2>3. CASE Fail(c)
    BY <2>1, <2>3 DEF Fail, Call
  <2>4. CASE StampFailure(c)
    BY <2>1, <2>4 DEF StampFailure, Stamp, Goto, Call
  <2>5. CASE ClearSuccesses(c) \/ LoadStateFail(c) \/ LoadFailures(c) \/ LoadRequests(c)
    BY <2>1, <2>5
    DEF ClearSuccesses, LoadStateFail, LoadFailures, LoadRequests, OnFailure, Goto, counters,
        Call, States
  <2>6. CASE CasHalfOpen(c) \/ CasOpen(c) \/ CasReopen(c) \/ CasClose(c)
    BY <2>1, <2>6
    DEF CasHalfOpen, CasOpen, CasReopen, CasClose, Swapped, Goto, counters, Call, States
  <2> QED
    BY <1>3, <2>2, <2>3, <2>4, <2>5, <2>6 DEF Execute
<1> QED
  BY <1>1, <1>2, <1>3 DEF Next

\* The stamp is kept from the first step on.
LEMMA StampedSteps == BreakerSteps => []OpenIsStamped
<1>1. Init => StampInv
  BY DEF Init, StampInv, OpenIsStamped, At, AfterStamp
<1>2. StampInv => OpenIsStamped
  BY DEF StampInv
<1> QED
  BY <1>1, <1>2, StampStep, BreakerTypes, PTL DEF BreakerSteps

\* However many goroutines count failures and open the circuit on each other's
\* counts, a circuit that is not closed carries the time of a failure.
THEOREM OpenCircuitsAreStamped == Spec => []OpenIsStamped
BY StampedSteps, PTL DEF Spec, BreakerSteps

\* A step moves the circuit along an edge of the pattern or not at all.
LEMMA LegalSteps == BreakerSteps => LegalTransitions
<1>1. TypeOK /\ [Next]_vars => [LegalStep(state, state')]_state
  <2> SUFFICES ASSUME Next, state' # state PROVE LegalStep(state, state')
    BY DEF vars
  <2>1. PICK c \in Callers : Execute(c)
    BY DEF Next, Tick
  <2>2. CasHalfOpen(c) \/ CasOpen(c) \/ CasReopen(c) \/ CasClose(c)
    BY <2>1
    DEF Execute, LoadState, CheckTimeout, CheckRequests, Return, Succeed, LoadStateOk,
        ResetSuccesses, ResetFailures, ResetRequests, Fail, StampFailure, ClearSuccesses,
        LoadStateFail, LoadFailures, LoadRequests
  <2> QED
    BY <2>2 DEF CasHalfOpen, CasOpen, CasReopen, CasClose, Swapped, LegalStep
<1> QED
  BY <1>1, BreakerTypes, PTL DEF BreakerSteps, LegalTransitions

\* Every goroutine moves the circuit along the edges of the pattern only.
THEOREM TransitionsAreLegal == Spec => LegalTransitions
BY LegalSteps, PTL DEF Spec, BreakerSteps

-----------------------------------------------------------------------------
(* One goroutine.                                                          *)

\* With one goroutine what shouldOpen loaded is still true when it is used: the
\* circuit opens on counters that are still in place.
SoleInv ==
    /\ OpenedForFailures
    /\ \A c \in Callers :
         /\ At(c, "loadRequests") => call[c].n = failures
         /\ At(c, "casOpen") => failures >= MaxFailures \/ requests >= MinRequests
         /\ call[c].pc \in {"resetFailures", "resetRequests"} => state = "closed"

\* With one goroutine nothing changes between a load and its use.
LEMMA SoleStep ==
    ASSUME NEW sole, Callers = {sole}, TypeOK, SoleInv, [Next]_vars
    PROVE  SoleInv'
<1> USE BreakerConstants DEF SoleInv, OpenedForFailures, At
<1>1. CASE UNCHANGED vars
  BY <1>1 DEF vars
<1>2. CASE Tick
  BY <1>2 DEF Tick, counters, TypeOK, Call
<1>3. ASSUME Execute(sole)
      PROVE  SoleInv'
  <2>1. /\ call \in [Callers -> Call] /\ call[sole] \in Call
        /\ now \in Nat /\ lastFailure \in Nat /\ state \in States
        /\ failures \in Nat /\ requests \in Nat
    BY DEF TypeOK
  <2>2. CASE \/ LoadState(sole) \/ CheckTimeout(sole) \/ CheckRequests(sole)
    BY <2>1, <2>2
    DEF LoadState, CheckTimeout, CheckRequests, Elapsed, Goto, counters, Call, States
  <2>3. CASE \/ Return(sole) \/ Succeed(sole) \/ LoadStateOk(sole) \/ ResetSuccesses(sole)
             \/ ClearSuccesses(sole)
    BY <2>1, <2>3
    DEF Return, Succeed, LoadStateOk, ResetSuccesses, ClearSuccesses, Goto, counters, Call
  <2>4. CASE ResetFailures(sole) \/ ResetRequests(sole)
    BY <2>1, <2>4 DEF ResetFailures, ResetRequests, Goto, Call
  <2>5. CASE Fail(sole) \/ StampFailure(sole)
    BY <2>1, <2>5 DEF Fail, StampFailure, Stamp, Goto, Call
  <2>6. CASE LoadStateFail(sole) \/ LoadFailures(sole)
    BY <2>1, <2>6 DEF LoadStateFail, LoadFailures, OnFailure, Goto, counters, Call, States
  <2>7. CASE LoadRequests(sole)
    <3>1. ShouldOpen(failures, requests) => failures >= MaxFailures \/ requests >= MinRequests
      BY DEF ShouldOpen
    <3> QED
      BY <2>1, <2>7, <3>1 DEF LoadRequests, Goto, counters, Call
  <2>8. CASE CasHalfOpen(sole) \/ CasOpen(sole) \/ CasReopen(sole) \/ CasClose(sole)
    BY <2>1, <2>8
    DEF CasHalfOpen, CasOpen, CasReopen, CasClose, Swapped, Goto, counters, Call, States
  <2> QED
    BY <1>3, <2>2, <2>3, <2>4, <2>5, <2>6, <2>7, <2>8 DEF Execute
<1> QED
  BY <1>1, <1>2, <1>3 DEF Next

\* What a sole goroutine's circuit keeps to, whoever calls it.
LEMMA SoleSteps ==
    ASSUME NEW CONSTANT sole, Callers = {sole}
    PROVE  BreakerSteps => []OpenedForFailures
<1>1. Init => SoleInv
  BY BreakerConstants DEF Init, SoleInv, OpenedForFailures, At
<1>2. TypeOK /\ SoleInv /\ [Next]_vars => SoleInv'
  BY SoleStep
<1>3. SoleInv => OpenedForFailures
  BY DEF SoleInv
<1> QED
  BY <1>1, <1>2, <1>3, BreakerTypes, PTL DEF BreakerSteps

\* To a sole caller the breaker keeps the promise of its configuration: it opens
\* only for enough failures or requests.
THEOREM SoleCallerIsServed ==
    ASSUME NEW CONSTANT sole, Callers = {sole}
    PROVE  Spec => []OpenedForFailures
BY SoleSteps, PTL DEF Spec, BreakerSteps

-----------------------------------------------------------------------------
(* The retry loop around the breaker.                                      *)

\* Whatever the loop does, the breaker takes one of its own steps or none.
LEMMA CallStepsBreaker == [CallNext]_callVars => [Next]_vars
<1> SUFFICES ASSUME [CallNext]_callVars PROVE [Next]_vars OBVIOUS
<1>1. CASE UNCHANGED callVars BY <1>1 DEF callVars
<1>2. CASE Cancel BY <1>2 DEF Cancel
<1>3. CASE TimePasses BY <1>3 DEF TimePasses, Next
<1>4. ASSUME NEW c \in Callers, Begin(c) PROVE [Next]_vars BY <1>4 DEF Begin
<1>5. ASSUME NEW c \in Callers, Step(c) PROVE Execute(c) \/ UNCHANGED vars
  <2>1. ASSUME NEW outcome, Finish(c, outcome) PROVE Execute(c) \/ UNCHANGED vars
      BY <2>1 DEF Finish, Execute
  <2>2. CASE Admission(c) BY <2>2 DEF Admission, Execute
  <2>3. CASE Answered(c) BY <2>1, <2>3 DEF Answered, Succeeded
  <2>4. CASE Unanswered(c) \/ Delay(c) \/ NextAttempt(c)
      BY <2>4 DEF Unanswered, Delay, NextAttempt
  <2>5. CASE Exhausted(c) \/ NotRetryable(c) \/ CancelledWait(c)
      BY <2>1, <2>5 DEF Exhausted, NotRetryable, CancelledWait, GiveUp
  <2>6. CASE Record(c) BY <2>6 DEF Record, Execute
  <2> QED BY <1>5, <2>2, <2>3, <2>4, <2>5, <2>6 DEF Step
<1> QED BY <1>1, <1>2, <1>3, <1>4, <1>5 DEF CallNext, Next

\* The calls of the clients implement the breaker: what holds of goroutines
\* that call Execute as they like holds of the retry loops.
THEOREM CallsUseTheBreaker == CallSpec => BreakerSteps
<1>1. CallInit => Init BY DEF CallInit
<1> QED BY <1>1, CallStepsBreaker, PTL DEF CallSpec, BreakerSteps

\* Under the retry loops, too, the circuit is stamped and moves along the edges
\* of the pattern, and keeps what the configuration promises to one goroutine.
THEOREM CallsKeepTheBreaker ==
    ASSUME NEW CONSTANT sole, Callers = {sole}
    PROVE  CallSpec => []OpenIsStamped /\ LegalTransitions /\ []OpenedForFailures
BY CallsUseTheBreaker, StampedSteps, LegalSteps, SoleSteps, PTL

\* The policies allow an attempt, as all the code constructs do (errors/retry.go:27
\* to 77).  The loop of Execute does not test it: without one it sends nothing.
AttemptsAllowed ==
    \A type \in {"claude_api", "github_api", "default"} : GetRetryer(type).attempts \in Nat \ {0}

\* The frame is a record; the policy of a call depends on its operation alone.
FrameOK ==
    \E o, w, d : \E n \in Nat : frame = [op |-> o, attempt |-> n, cause |-> w, due |-> d]
PolicyOf(o) == IF Retried(o) THEN GetRetryer(OperationType(o)) ELSE NoRetryPolicy
Bound == PolicyOf(op).attempts

\* Requests that took effect are those whose answer was lost, and the one that
\* ends the call; every attempt the policy allows makes one at most.
Counted ==
    /\ applied \in Nat /\ lost \in Nat
    /\ applied <= lost + (IF pc \in {"idle", "record"} THEN 1 ELSE 0)
    /\ pc # "idle" => applied <= Bound
    /\ pc \in {"admission", "send"} => applied + 1 <= attempt
    /\ pc \in {"failed", "wait"} => applied <= attempt
    /\ pc \in {"admission", "send", "failed"} => attempt <= Bound
    /\ pc = "wait" => attempt + 1 <= Bound
CallInv == FrameOK /\ Counted

\* Every operation is allowed an attempt, retried or not.
LEMMA BoundPositive ==
    ASSUME AttemptsAllowed PROVE \A o : PolicyOf(o).attempts \in Nat \ {0}
<1>1. NoRetryPolicy.attempts = 1 BY DEF NoRetryPolicy
<1> QED BY <1>1 DEF AttemptsAllowed, PolicyOf, OperationType

\* The policy under which a call runs is that of its operation.
LEMMA BoundIsThePolicy == Policy.attempts = Bound
BY DEF Policy, Bound, PolicyOf

\* The fields of a frame of which some are replaced.
LEMMA FrameFields ==
    ASSUME FrameOK
    PROVE  /\ attempt \in Nat
           /\ \A w : [frame EXCEPT !.cause = w]
                = [op |-> op, attempt |-> attempt, cause |-> w, due |-> frame.due]
           /\ \A d : [frame EXCEPT !.due = d]
                = [op |-> op, attempt |-> attempt, cause |-> frame.cause, due |-> d]
<1>1. PICK o, v, d : \E n \in Nat : frame = [op |-> o, attempt |-> n, cause |-> v, due |-> d]
    BY DEF FrameOK
<1>2. PICK n \in Nat : frame = [op |-> o, attempt |-> n, cause |-> v, due |-> d]
    BY <1>1
<1>3. op = o /\ attempt = n /\ frame.cause = v /\ frame.due = d BY <1>2 DEF op, attempt
<1>4. ASSUME NEW w PROVE [frame EXCEPT !.cause = w]
                = [op |-> o, attempt |-> n, cause |-> w, due |-> d]
    BY <1>2
<1>5. ASSUME NEW e PROVE [frame EXCEPT !.due = e]
                = [op |-> o, attempt |-> n, cause |-> v, due |-> e]
    BY <1>2
<1> QED BY <1>3, <1>4, <1>5

\* A step that keeps operation, attempt and counts, and ends or is recorded.
LEMMA Finished ==
    ASSUME CallInv, NEW c \in Callers, NEW outcome, Finish(c, outcome),
           pc \in {"send", "failed", "wait"}, applied' \in Nat, lost' = lost,
           applied' <= lost + 1, applied' <= Bound
    PROVE  CallInv'
<1>1. CASE ~Guarded(op)
    <2>1. pc' = "idle" /\ frame' = NoCall BY <1>1 DEF Finish, Goes
    <2> QED BY <2>1 DEF CallInv, FrameOK, Counted, NoCall
<1>2. CASE Guarded(op)
    <2>1. pc' = "record" /\ frame' = frame BY <1>2 DEF Finish, Goes
    <2> QED BY <2>1 DEF CallInv, FrameOK, Counted, Bound, op
<1> QED BY <1>1, <1>2

\* Every step of the loop counts what took effect and what was lost.
LEMMA CallStep ==
    ASSUME AttemptsAllowed, CallInv, [CallNext]_callVars
    PROVE  CallInv'
<1>1. \A o : PolicyOf(o).attempts \in Nat \ {0} BY BoundPositive
<1>2. CASE UNCHANGED <<pc, frame, applied, lost>>
    BY <1>2 DEF CallInv, FrameOK, Counted, Bound, op, attempt
<1>3. ASSUME NEW c \in Callers, Begin(c) PROVE CallInv'
    <2>1. PICK o \in Operations :
              /\ frame' = [NoCall EXCEPT !.op = o, !.attempt = 1]
              /\ pc' = IF Guarded(o) THEN "admission" ELSE "send"
        BY <1>3 DEF Begin
    <2>2. frame' = [op |-> o, attempt |-> 1, cause |-> "other", due |-> 0]
        BY <2>1 DEF NoCall
    <2>3. applied' = 0 /\ lost' = 0 BY <1>3 DEF Begin
    <2>4. FrameOK' BY <2>2 DEF FrameOK
    <2>5. op' = o /\ attempt' = 1 BY <2>2 DEF op, attempt
    <2>6. Bound' \in Nat \ {0} BY <1>1, <2>5 DEF Bound
    <2> QED BY <2>1, <2>3, <2>4, <2>5, <2>6 DEF CallInv, Counted
<1>4. ASSUME NEW c \in Callers, Admission(c) PROVE CallInv'
    <2>1. pc = "admission" /\ pc' \in {"send", "idle", "admission"} /\ applied' = applied /\ lost' = lost
        BY <1>4 DEF Admission, Goes, history
    <2>2. frame' = IF pc' = "idle" THEN NoCall ELSE frame
        BY <1>4 DEF Admission, Goes
    <2>3. FrameOK' BY <2>2 DEF CallInv, FrameOK, NoCall
    <2>4. pc' # "idle" => Bound' = Bound /\ attempt' = attempt
        BY <2>2 DEF Bound, op, attempt
    <2> QED BY <2>1, <2>3, <2>4 DEF CallInv, Counted
<1>5. ASSUME NEW c \in Callers, Answered(c) PROVE CallInv'
    <2>1. pc = "send" /\ applied' \in {applied, applied + 1} /\ lost' = lost /\ Finish(c, "succeed")
        BY <1>5 DEF Answered, Succeeded
    <2>2. attempt \in Nat BY FrameFields DEF CallInv
    <2>3. Bound \in Nat BY <1>1 DEF Bound
    <2> QED BY <2>1, <2>2, <2>3, Finished DEF CallInv, Counted
<1>6. ASSUME NEW c \in Callers, Unanswered(c) PROVE CallInv'
    <2>1. PICK w : frame' = [frame EXCEPT !.cause = w]
        BY <1>6 DEF Unanswered
    <2>2. frame' = [op |-> op, attempt |-> attempt, cause |-> w, due |-> frame.due] /\ attempt \in Nat
        BY <2>1, FrameFields DEF CallInv
    <2>3. FrameOK' /\ op' = op /\ attempt' = attempt BY <2>2 DEF FrameOK, op, attempt
    <2>4. Bound' = Bound /\ Bound \in Nat BY <1>1, <2>3 DEF Bound
    <2>5. /\ pc = "send" /\ pc' = "failed"
          /\ \/ applied' = applied /\ lost' = lost
             \/ applied' = applied + 1 /\ lost' = lost + 1
        BY <1>6 DEF Unanswered
    <2> QED BY <2>2, <2>3, <2>4, <2>5 DEF CallInv, Counted
<1>7. ASSUME NEW c \in Callers, GiveUp(c), pc \in {"failed", "wait"} PROVE CallInv'
    <2>1. applied' = applied /\ lost' = lost /\ Finish(c, "fail")
        BY <1>7 DEF GiveUp
    <2>2. Bound \in Nat BY <1>1 DEF Bound
    <2> QED BY <1>7, <2>1, <2>2, Finished DEF CallInv, Counted
<1>8. ASSUME NEW c \in Callers, Delay(c) PROVE CallInv'
    <2>1. PICK d : frame' = [frame EXCEPT !.due = d]
        BY <1>8 DEF Delay
    <2>2. frame' = [op |-> op, attempt |-> attempt, cause |-> frame.cause, due |-> d] /\ attempt \in Nat
        BY <2>1, FrameFields DEF CallInv
    <2>3. FrameOK' /\ op' = op /\ attempt' = attempt BY <2>2 DEF FrameOK, op, attempt
    <2>4. Bound' = Bound /\ Bound \in Nat BY <1>1, <2>3 DEF Bound
    <2>5. pc = "failed" /\ pc' = "wait" /\ attempt < Bound /\ applied' = applied /\ lost' = lost
        BY <1>8, BoundIsThePolicy DEF Delay, history
    <2> QED BY <2>2, <2>3, <2>4, <2>5 DEF CallInv, Counted
<1>9. ASSUME NEW c \in Callers, NextAttempt(c) PROVE CallInv'
    <2>1. frame' = [op |-> op, attempt |-> attempt + 1, cause |-> "other", due |-> 0] /\ attempt \in Nat
        BY <1>9, FrameFields DEF CallInv, NextAttempt, NoCall
    <2>6. \E n \in Nat : frame' = [op |-> op, attempt |-> n, cause |-> "other", due |-> 0]
        BY <2>1
    <2>2. FrameOK' BY <2>6 DEF FrameOK
    <2>5. op' = op /\ attempt' = attempt + 1 BY <2>1 DEF op, attempt
    <2>3. Bound' = Bound /\ Bound \in Nat BY <1>1, <2>5 DEF Bound
    <2>4. pc = "wait" /\ pc' = "send" /\ applied' = applied /\ lost' = lost
        BY <1>9 DEF NextAttempt, history
    <2> QED BY <2>1, <2>2, <2>3, <2>4, <2>5 DEF CallInv, Counted
<1>10. ASSUME NEW c \in Callers, Record(c) PROVE CallInv'
    <2>1. pc = "record" /\ pc' \in {"idle", "record"} /\ applied' = applied /\ lost' = lost
        BY <1>10 DEF Record, Goes
    <2>2. frame' = IF pc' = "idle" THEN NoCall ELSE frame
        BY <1>10 DEF Record, Goes
    <2>3. FrameOK' BY <2>2 DEF CallInv, FrameOK, NoCall
    <2>4. pc' # "idle" => Bound' = Bound BY <2>2 DEF Bound, op
    <2> QED BY <2>1, <2>3, <2>4 DEF CallInv, Counted
<1>11. CASE Cancel \/ TimePasses \/ UNCHANGED callVars
    BY <1>2, <1>11 DEF Cancel, TimePasses, callVars, history
<1>12. ASSUME NEW c \in Callers, Step(c) PROVE CallInv'
    <2>1. CASE Exhausted(c) \/ NotRetryable(c) \/ CancelledWait(c)
        BY <1>7, <2>1 DEF Exhausted, NotRetryable, CancelledWait
    <2> QED BY <1>4, <1>5, <1>6, <1>8, <1>9, <1>10, <1>12, <2>1 DEF Step
<1> QED BY <1>3, <1>11, <1>12 DEF CallNext

\* A request is repeated only for an answer that was lost, and never beyond
\* the attempts of its policy, for every policy that allows an attempt.
THEOREM DuplicatesNeedLostAnswers ==
    ASSUME AttemptsAllowed PROVE CallSpec => []DuplicatesAreLostAnswers
<1>1. CallInit => CallInv
  <2> SUFFICES ASSUME CallInit PROVE CallInv OBVIOUS
  <2>1. FrameOK BY DEF CallInit, FrameOK, NoCall
  <2> QED BY <2>1 DEF CallInit, CallInv, Counted
<1>2. CallInv => DuplicatesAreLostAnswers
    BY BoundIsThePolicy DEF CallInv, Counted, DuplicatesAreLostAnswers
<1> QED BY <1>1, <1>2, CallStep, PTL DEF CallSpec

-----------------------------------------------------------------------------
(* The histories of a conversation.                                        *)

Messages == [role : {"user", "assistant"}, uses : SUBSET Nat, answers : SUBSET Nat]

ConversationTypeOK ==
    /\ messages \in Seq(Messages)
    /\ phase \in {"idle", "ask", "tools"}
    /\ calls \in Nat
    /\ todo \in SUBSET Nat /\ results \in SUBSET Nat

\* The tool calls the i-th message has to answer.
Asked(log, i) == IF i = 1 THEN {} ELSE log[i - 1].uses

EachAnswered == \A i \in DOMAIN messages : messages[i].answers = Asked(messages, i)

\* What the last message asks for is open only while the tools are executed.
LastAsks == IF messages = << >> THEN {} ELSE messages[Len(messages)].uses
OpenCalls ==
    /\ phase # "tools" => LastAsks = {}
    /\ phase = "tools" => LastAsks = results \cup todo

\* The calls that are left are a range of the numbers, so one of them is first.
TodoIsRange == \E low, high \in Nat : todo = low .. high

ConversationInv == ConversationTypeOK /\ EachAnswered /\ OpenCalls /\ TodoIsRange

-----------------------------------------------------------------------------
\* A message that answers what the last one asks keeps every call answered.
LEMMA AppendAnswers ==
    ASSUME ConversationTypeOK, EachAnswered, NEW m \in Messages, m.answers = LastAsks,
           messages' = Append(messages, m)
    PROVE  /\ messages' \in Seq(Messages)
           /\ EachAnswered'
           /\ LastAsks' = m.uses
<1>1. /\ messages' \in Seq(Messages) /\ Len(messages') = Len(messages) + 1
      /\ messages'[Len(messages')] = m
      /\ \A i \in 1 .. Len(messages) : messages'[i] = messages[i]
    BY DEF ConversationTypeOK
<1>2. LastAsks' = m.uses BY <1>1 DEF LastAsks
<1>3. ASSUME NEW i \in DOMAIN messages' PROVE messages'[i].answers = Asked(messages', i)
  <2>1. i \in 1 .. Len(messages) + 1 BY <1>1 DEF ConversationTypeOK
  <2>2. CASE i = Len(messages) + 1
      BY <2>2, <1>1 DEF LastAsks, Asked, ConversationTypeOK
  <2>3. CASE i \in 1 .. Len(messages)
    <3>1. messages'[i].answers = Asked(messages, i)
        BY <2>3, <1>1 DEF EachAnswered, ConversationTypeOK
    <3>2. i = 1 \/ i - 1 \in 1 .. Len(messages) BY <2>3 DEF ConversationTypeOK
    <3> QED BY <3>1, <3>2, <1>1 DEF Asked
  <2> QED BY <2>1, <2>2, <2>3 DEF ConversationTypeOK
<1> QED BY <1>1, <1>2, <1>3 DEF EachAnswered

\* A new conversation asks nothing.
LEMMA InitConversation == ConversationInit => ConversationInv
<1> SUFFICES ASSUME ConversationInit PROVE ConversationInv OBVIOUS
<1>1. TodoIsRange
  <2>1. todo = 1 .. 0 BY DEF ConversationInit
  <2> QED BY <2>1 DEF TodoIsRange
<1> QED BY <1>1 DEF ConversationInit, ConversationInv, ConversationTypeOK, EachAnswered, OpenCalls,
           LastAsks

\* A user's message follows an answer without tool calls.
LEMMA SendPreserves == ASSUME ConversationInv, Send PROVE ConversationInv'
<1>1. UserMessage \in Messages /\ UserMessage.answers = {} /\ UserMessage.uses = {}
    BY DEF UserMessage, Messages
<1>2. messages' = Append(messages, UserMessage) /\ LastAsks = {}
    BY DEF Send, ConversationInv, OpenCalls
<1>3. messages' \in Seq(Messages) /\ EachAnswered' /\ LastAsks' = {}
    BY <1>1, <1>2, AppendAnswers DEF ConversationInv
<1> QED BY <1>3 DEF Send, ConversationInv, ConversationTypeOK, OpenCalls, TodoIsRange

\* A request that fails leaves the history as it was.
LEMMA FailurePreserves == ASSUME ConversationInv, RequestFails PROVE ConversationInv'
BY DEF RequestFails, ConversationInv, ConversationTypeOK, EachAnswered, Asked, OpenCalls, LastAsks,
       TodoIsRange

\* An answer asks for a new range of calls, all of them to be executed.
LEMMA AnswerPreserves ==
    ASSUME ConversationInv, phase = "ask", NEW low \in Nat, NEW high \in Nat, NEW stop,
           Answer(low .. high, stop), Cardinality(low .. high) \in Nat
    PROVE  ConversationInv'
<1> DEFINE asks == low .. high
<1>1. Assistant(asks) \in Messages /\ Assistant(asks).answers = {} /\ Assistant(asks).uses = asks
    BY DEF Assistant, Messages
<1>2. messages' = Append(messages, Assistant(asks)) /\ LastAsks = {}
    BY DEF Answer, ConversationInv, OpenCalls
<1>3. messages' \in Seq(Messages) /\ EachAnswered' /\ LastAsks' = asks
    BY <1>1, <1>2, AppendAnswers DEF ConversationInv
<1>4. calls' \in Nat BY DEF Answer, ConversationInv, ConversationTypeOK
<1>5. /\ todo' = asks /\ results' = {}
      /\ phase' = IF asks = {} THEN "idle" ELSE "tools"
    BY DEF Answer, ToolCalls
<1> QED BY <1>3, <1>4, <1>5 DEF ConversationInv, ConversationTypeOK, OpenCalls, TodoIsRange

\* So does any answer the API gives, within the budget or beyond it.
LEMMA ReceivePreserves == ASSUME ConversationInv, ReceiveAnswer PROVE ConversationInv'
<1>0. phase = "ask" /\ calls \in Nat
    BY DEF ReceiveAnswer, ConversationInv, ConversationTypeOK
<1>1. CASE Answer({}, "end_turn")
  <2>1. {} = 1 .. 0 /\ Cardinality({}) = 0 BY FS_EmptySet
  <2>2. Answer(1 .. 0, "end_turn") /\ Cardinality(1 .. 0) \in Nat BY <1>1, <2>1
  <2> QED BY <1>0, <2>2, AnswerPreserves
<1>2. CASE \E n \in 1..MaxTools, stop \in {"tool_use", "max_tokens"} :
               Answer(calls + 1 .. calls + n, stop)
  <2>1. PICK n \in 1..MaxTools, stop \in {"tool_use", "max_tokens"} :
            Answer(calls + 1 .. calls + n, stop)
      BY <1>2
  <2>2. calls + 1 \in Nat /\ calls + n \in Nat BY <1>0, ConversationConstants
  <2>3. Cardinality(calls + 1 .. calls + n) \in Nat BY <2>2, FS_Interval, FS_CardinalityType
  <2> QED BY <1>0, <2>1, <2>2, <2>3, AnswerPreserves
<1> QED BY <1>1, <1>2 DEF ReceiveAnswer

\* The first of the calls that are left has its result.
LEMMA ExecutePreserves == ASSUME ConversationInv, ExecuteTool PROVE ConversationInv'
<1>1. PICK low \in Nat, high \in Nat : todo = low .. high BY DEF ConversationInv, TodoIsRange
<1> DEFINE next == CHOOSE c \in todo : \A d \in todo : c <= d
<1>2. next = low /\ low \in todo
  <2>1. low \in todo /\ \A d \in todo : low <= d BY <1>1 DEF ExecuteTool
  <2>2. next \in todo /\ \A d \in todo : next <= d BY <2>1
  <2> QED BY <1>1, <2>1, <2>2
<1>3. /\ results' = results \cup {next} /\ todo' = todo \ {next}
      /\ phase = "tools" /\ UNCHANGED <<messages, phase, calls>>
    BY DEF ExecuteTool, ResultOf
<1>4. todo' = low + 1 .. high BY <1>1, <1>2, <1>3
<1>5. TodoIsRange' BY <1>4 DEF TodoIsRange
<1>6. results' \cup todo' = results \cup todo BY <1>2, <1>3
<1>7. results' \in SUBSET Nat /\ todo' \in SUBSET Nat
    BY <1>2, <1>3 DEF ConversationInv, ConversationTypeOK
<1> QED BY <1>3, <1>5, <1>6, <1>7 DEF ConversationInv, ConversationTypeOK, EachAnswered, Asked,
                                      OpenCalls, LastAsks

\* The results go back in one message, which answers all of the calls.
LEMMA ReturnPreserves == ASSUME ConversationInv, ReturnResults PROVE ConversationInv'
<1> DEFINE m == ToolResults(results)
<1>1. m \in Messages /\ m.answers = results /\ m.uses = {}
    BY DEF ToolResults, UserMessage, Messages, ConversationInv, ConversationTypeOK
<1>2. messages' = Append(messages, m) /\ LastAsks = results
    BY DEF ReturnResults, ConversationInv, OpenCalls
<1>3. messages' \in Seq(Messages) /\ EachAnswered' /\ LastAsks' = {}
    BY <1>1, <1>2, AppendAnswers DEF ConversationInv
<1>4. phase' \in {"idle", "ask"} /\ UNCHANGED <<todo, results, calls>> BY DEF ReturnResults
<1> QED BY <1>3, <1>4 DEF ConversationInv, ConversationTypeOK, OpenCalls, TodoIsRange

\* A history is dropped or kept between two messages, never cut.
LEMMA RestorePreserves == ASSUME ConversationInv, Restore PROVE ConversationInv'
<1>1. messages' = << >> \/ messages' = messages BY DEF Restore
<1>2. UNCHANGED <<phase, todo, results, calls>> /\ phase = "idle" BY DEF Restore
<1>3. CASE messages' = << >>
    BY <1>2, <1>3 DEF ConversationInv, ConversationTypeOK, EachAnswered, OpenCalls, LastAsks,
                      TodoIsRange
<1>4. CASE messages' = messages
    BY <1>2, <1>4 DEF ConversationInv, ConversationTypeOK, EachAnswered, Asked, OpenCalls,
                      LastAsks, TodoIsRange
<1> QED BY <1>1, <1>3, <1>4

\* Every step keeps each call answered in the message after it.
LEMMA NextConversation ==
    ConversationInv /\ [ConversationNext]_conversationVars => ConversationInv'
<1>1. ASSUME ConversationInv, UNCHANGED conversationVars PROVE ConversationInv'
    BY <1>1 DEF conversationVars, ConversationInv, ConversationTypeOK, EachAnswered, Asked,
                OpenCalls, LastAsks, TodoIsRange
<1> QED BY <1>1, SendPreserves, FailurePreserves, ReceivePreserves, ExecutePreserves,
           ReturnPreserves, RestorePreserves DEF ConversationNext

\* Every history sent to the API answers each tool call in the message after
\* it and nothing else, for every budget of iterations, number of tools and of
\* messages, whatever fails in between (conversation.go:60-139).
THEOREM ToolCallsAreAnswered == ConversationSpec => []ToolCallsAnswered
<1>1. ConversationInv => ToolCallsAnswered
  <2> SUFFICES ASSUME ConversationInv, phase = "ask", NEW i \in DOMAIN messages
               PROVE  /\ messages[i].answers = Asked(messages, i)
                      /\ i = Len(messages) => messages[i].uses = {}
      BY DEF ToolCallsAnswered, Asked
  <2>1. messages[i].answers = Asked(messages, i) BY DEF ConversationInv, EachAnswered
  <2>2. i = Len(messages) => messages[i].uses = {}
      BY DEF ConversationInv, ConversationTypeOK, OpenCalls, LastAsks
  <2> QED BY <2>1, <2>2
<1> QED BY <1>1, InitConversation, NextConversation, PTL DEF ConversationSpec

-----------------------------------------------------------------------------
(* Checks.                                                                 *)

LessThan == OpToRel(<, Nat)

\* Of a set of numbers that is not empty there is a least one.
LEMMA LeastExists ==
    ASSUME NEW S, S \subseteq Nat, S # {}
    PROVE  \E x \in S : \A y \in S : x <= y
<1>1. IsWellFoundedOn(LessThan, Nat) BY NatLessThanWellFounded DEF LessThan
<1>2. LessThan = {p \in Nat \X Nat : p[1] < p[2]} BY DEF LessThan, OpToRel
<1>3. PICK x \in S : \A y \in S : <<y, x>> \notin LessThan BY <1>1, WFMin
<1>4. \A y \in S : <<y, x>> \notin {p \in Nat \X Nat : p[1] < p[2]} BY <1>2, <1>3
<1>5. \A y \in S : y \in Nat /\ x \in Nat /\ ~(y < x) BY <1>4
<1> QED BY <1>5

\* What holds at first and after each turn if before it, holds to the end.
LEMMA TurnByTurn ==
    ASSUME NEW Q, NEW last \in Nat, 0 \in Q, \A i \in 1..last : i - 1 \in Q => i \in Q
    PROVE  \A i \in 0..last : i \in Q
<1> DEFINE Missing == {i \in 0..last : i \notin Q}
<1> SUFFICES ASSUME Missing # {} PROVE FALSE OBVIOUS
<1>1. Missing \subseteq Nat OBVIOUS
<1> HIDE DEF Missing
<1>2. PICK n \in Missing : \A m \in Missing : n <= m BY <1>1, LeastExists
<1>3. n \in 1..last /\ n \notin Q BY <1>2 DEF Missing
<1>4. n - 1 \in 0..last /\ n - 1 \notin Missing BY <1>2, <1>3 DEF Missing
<1>5. n - 1 \in Q BY <1>4 DEF Missing
<1> QED BY <1>3, <1>5

\* g is what a loop holds that starts with something and takes turns.
IsLoop(g, start, turn, last) ==
    g[0] = start /\ \A i \in 1..last : g[i] = turn[<<g[i - 1], i>>]

\* A loop that keeps its result in R holds something in R after each turn.
LEMMA LoopRuns ==
    ASSUME NEW R, NEW last \in Nat, NEW start \in R, NEW turn \in [R \X (1..last) -> R]
    PROVE  \E g \in [0..last -> R] : IsLoop(g, start, turn, last)
<1> DEFINE Holds(n, g) == IsLoop(g, start, turn, n)
           Q == {n \in 0..last : \E g \in [0..n -> R] : Holds(n, g)}
<1>1. 0 \in Q
  <2> DEFINE g == [i \in 0..0 |-> start]
  <2>1. g \in [0..0 -> R] /\ Holds(0, g) BY DEF IsLoop
  <2>2. \E f \in [0..0 -> R] : Holds(0, f)
    <3> HIDE DEF g, Holds
    <3> QED BY <2>1
  <2>3. 0 \in 0..last OBVIOUS
  <2> QED
    <3> HIDE DEF Holds
    <3> QED BY <2>2, <2>3
<1>2. ASSUME NEW n \in 1..last, n - 1 \in Q PROVE n \in Q
  <2>1. PICK g \in [0..(n - 1) -> R] : Holds(n - 1, g) BY <1>2
  <2> DEFINE h == [i \in 0..n |-> IF i = n THEN turn[<<g[n - 1], n>>] ELSE g[i]]
  <2>2. g[n - 1] \in R /\ turn[<<g[n - 1], n>>] \in R BY <2>1
  <2>3. h \in [0..n -> R] BY <2>1, <2>2
  <2>4. h[0] = start BY <2>1 DEF IsLoop
  <2>5. ASSUME NEW i \in 1..n PROVE h[i] = turn[<<h[i - 1], i>>]
    <3>1. i - 1 \in 0..n /\ i - 1 # n /\ i \in 0..n OBVIOUS
    <3>2. h[i - 1] = g[i - 1] BY <3>1
    <3>3. CASE i = n BY <3>1, <3>2, <3>3 DEF IsLoop
    <3>4. CASE i # n
      <4>1. i \in 1..(n - 1) BY <3>4
      <4>2. g[i] = turn[<<g[i - 1], i>>] BY <2>1, <4>1 DEF IsLoop
      <4> QED BY <3>1, <3>2, <3>4, <4>2
    <3> QED BY <3>3, <3>4
  <2>6. Holds(n, h) BY <2>4, <2>5 DEF IsLoop
  <2>7. n \in 0..last OBVIOUS
  <2> HIDE DEF Holds, h
  <2> QED BY <2>3, <2>6, <2>7
<1> HIDE DEF Q
<1>3. \A n \in 0..last : n \in Q BY <1>1, <1>2, TurnByTurn
<1>4. last \in Q BY <1>3
<1> QED BY <1>4 DEF Q

\* What the loops hold: a status, and how many checks are not passing.
Results == [status : {"pending", "running", "failed"}, passing : BOOLEAN,
            failed : Nat, pending : Nat]

LEMMA ResultsAreTyped ==
    /\ NoResult \in Results
    /\ \A result \in Results : \A kind \in RunKinds : AddCheckRun(result, kind) \in Results
    /\ \A result \in Results : \A kind \in StatusKinds : AddStatus(result, kind) \in Results
<1>1. NoResult \in Results BY DEF NoResult, Results
<1>2. ASSUME NEW result \in Results
      PROVE  IsPending(result) \in Results /\ IsFailed(result) \in Results
  <2>1. result.failed + 1 \in Nat /\ result.pending + 1 \in Nat BY DEF Results
  <2> QED BY <2>1 DEF IsPending, IsFailed, Results
<1> QED BY <1>1, <1>2 DEF AddCheckRun, AddStatus

LEMMA AfterRunsIs ==
    ASSUME NEW runs \in Seq(RunKinds)
    PROVE  /\ AfterRuns(runs)[0] = NoResult
           /\ \A i \in 1..Len(runs) :
                  AfterRuns(runs)[i] = AddCheckRun(AfterRuns(runs)[i - 1], runs[i])
<1> DEFINE last == Len(runs)
           turn == [p \in Results \X (1..last) |-> AddCheckRun(p[1], runs[p[2]])]
           Turns(g) == [i \in 0..last |->
                            IF i = 0 THEN NoResult ELSE AddCheckRun(g[i - 1], runs[i])]
<1>0. last \in Nat /\ \A i \in 1..last : runs[i] \in RunKinds OBVIOUS
<1>1. turn \in [Results \X (1..last) -> Results]
  <2>1. \A p \in Results \X (1..last) : AddCheckRun(p[1], runs[p[2]]) \in Results
      BY <1>0, ResultsAreTyped
  <2> QED BY <2>1
<1>2. \E g \in [0..last -> Results] : IsLoop(g, NoResult, turn, last)
  <2>1. NoResult \in Results BY ResultsAreTyped
  <2> HIDE DEF turn, last
  <2> QED BY <1>0, <1>1, <2>1, LoopRuns
<1>3. PICK g \in [0..last -> Results] :
          g[0] = NoResult /\ \A i \in 1..last : g[i] = turn[<<g[i - 1], i>>]
    BY <1>2 DEF IsLoop
<1>4. ASSUME NEW i \in 1..last PROVE g[i] = AddCheckRun(g[i - 1], runs[i])
  <2>1. i - 1 \in 0..last BY <1>0
  <2>2. <<g[i - 1], i>> \in Results \X (1..last) BY <1>3, <2>1
  <2>3. turn[<<g[i - 1], i>>] = AddCheckRun(g[i - 1], runs[i]) BY <2>2
  <2> QED BY <1>3, <2>3
<1>5. g = Turns(g) BY <1>0, <1>3, <1>4
<1>6. AfterRuns(runs) = CHOOSE f : f = Turns(f) BY DEF AfterRuns
<1>7. AfterRuns(runs) = Turns(AfterRuns(runs)) BY <1>5, <1>6
<1> HIDE DEF Turns
<1>8. \A f : f = Turns(f) => f[0] = NoResult
                /\ \A i \in 1..last : f[i] = AddCheckRun(f[i - 1], runs[i])
    BY <1>0 DEF Turns
<1> QED BY <1>7, <1>8

LEMMA AfterStatusesIs ==
    ASSUME NEW before \in Results, NEW legacy \in Seq(StatusKinds)
    PROVE  /\ AfterStatuses(before, legacy)[0] = before
           /\ \A i \in 1..Len(legacy) :
                  AfterStatuses(before, legacy)[i]
                      = AddStatus(AfterStatuses(before, legacy)[i - 1], legacy[i])
<1> DEFINE last == Len(legacy)
           turn == [p \in Results \X (1..last) |-> AddStatus(p[1], legacy[p[2]])]
           Turns(g) == [i \in 0..last |->
                            IF i = 0 THEN before ELSE AddStatus(g[i - 1], legacy[i])]
<1>0. last \in Nat /\ \A i \in 1..last : legacy[i] \in StatusKinds OBVIOUS
<1>1. turn \in [Results \X (1..last) -> Results]
  <2>1. \A p \in Results \X (1..last) : AddStatus(p[1], legacy[p[2]]) \in Results
      BY <1>0, ResultsAreTyped
  <2> QED BY <2>1
<1>2. \E g \in [0..last -> Results] : IsLoop(g, before, turn, last)
  <2> HIDE DEF turn, last
  <2> QED BY <1>0, <1>1, LoopRuns
<1>3. PICK g \in [0..last -> Results] :
          g[0] = before /\ \A i \in 1..last : g[i] = turn[<<g[i - 1], i>>]
    BY <1>2 DEF IsLoop
<1>4. ASSUME NEW i \in 1..last PROVE g[i] = AddStatus(g[i - 1], legacy[i])
  <2>1. i - 1 \in 0..last BY <1>0
  <2>2. <<g[i - 1], i>> \in Results \X (1..last) BY <1>3, <2>1
  <2>3. turn[<<g[i - 1], i>>] = AddStatus(g[i - 1], legacy[i]) BY <2>2
  <2> QED BY <1>3, <2>3
<1>5. g = Turns(g) BY <1>0, <1>3, <1>4
<1>6. AfterStatuses(before, legacy) = CHOOSE f : f = Turns(f) BY DEF AfterStatuses
<1>7. AfterStatuses(before, legacy) = Turns(AfterStatuses(before, legacy)) BY <1>5, <1>6
<1> HIDE DEF Turns
<1>8. \A f : f = Turns(f) => f[0] = before
                /\ \A i \in 1..last : f[i] = AddStatus(f[i - 1], legacy[i])
    BY <1>0 DEF Turns
<1> QED BY <1>7, <1>8

Unfinished == Pending \cup Failing \cup {"pending"}

\* A result says of the checks seen so far no more than is true of them.
SoundFor(result, seen) ==
    /\ result \in Results
    /\ result.passing => seen \cap Unfinished = {}
    /\ result.failed > 0 \/ result.status = "failed" => seen \cap Failing # {}

LEMMA StaysSound ==
    ASSUME NEW result, NEW seen, SoundFor(result, seen)
    PROVE  /\ \A kind \in RunKinds : SoundFor(AddCheckRun(result, kind), seen \cup {kind})
           /\ \A kind \in StatusKinds : SoundFor(AddStatus(result, kind), seen \cup {kind})
<1>1. result \in Results BY DEF SoundFor
<1>2. /\ IsPending(result).passing = FALSE /\ IsPending(result).failed = result.failed
      /\ IsPending(result).status = "running"
      /\ IsFailed(result).passing = FALSE
    BY <1>1 DEF IsPending, IsFailed, Results
<1>3. ASSUME NEW kind \in RunKinds
      PROVE  SoundFor(AddCheckRun(result, kind), seen \cup {kind})
  <2>1. AddCheckRun(result, kind) \in Results BY <1>1, ResultsAreTyped
  <2>2. CASE kind = "in_progress"
    <3>1. AddCheckRun(result, kind) = IsPending(result)
        BY <2>2 DEF AddCheckRun, Pending, Failing
    <3> QED BY <1>2, <2>1, <3>1 DEF SoundFor
  <2>3. CASE kind = "failure"
    <3>1. AddCheckRun(result, kind) = IsFailed(result)
        BY <2>3 DEF AddCheckRun, Pending, Failing
    <3> QED BY <1>2, <2>1, <2>3, <3>1 DEF SoundFor, Failing
  <2>4. CASE kind \in {"success", "unknown"}
    <3>1. AddCheckRun(result, kind) = result BY <2>4 DEF AddCheckRun, Pending, Failing
    <3>2. kind \notin Unfinished BY <2>4 DEF Unfinished, Pending, Failing
    <3> QED BY <3>1, <3>2 DEF SoundFor
  <2> QED BY <2>2, <2>3, <2>4 DEF RunKinds
<1>4. ASSUME NEW kind \in StatusKinds
      PROVE  SoundFor(AddStatus(result, kind), seen \cup {kind})
  <2>1. AddStatus(result, kind) \in Results BY <1>1, ResultsAreTyped
  <2>2. CASE kind = "pending"
    <3>1. AddStatus(result, kind) = IsPending(result) BY <2>2 DEF AddStatus
    <3> QED BY <1>2, <2>1, <3>1 DEF SoundFor
  <2>3. CASE kind = "failure"
    <3>1. AddStatus(result, kind) = IsFailed(result) BY <2>3 DEF AddStatus
    <3> QED BY <1>2, <2>1, <2>3, <3>1 DEF SoundFor, Failing
  <2>4. CASE kind = "success"
    <3>1. AddStatus(result, kind) = result BY <2>4 DEF AddStatus
    <3>2. kind \notin Unfinished BY <2>4 DEF Unfinished, Pending, Failing
    <3> QED BY <3>1, <3>2 DEF SoundFor
  <2> QED BY <2>2, <2>3, <2>4 DEF StatusKinds
<1> QED BY <1>3, <1>4

\* After both loops the result is sound for everything that was listed.
LEMMA LoopsAreSound ==
    ASSUME NEW runs \in Seq(RunKinds), NEW legacy \in Seq(StatusKinds)
    PROVE  SoundFor(AfterStatuses(AfterRuns(runs)[Len(runs)], legacy)[Len(legacy)],
                    ToSet(runs) \cup ToSet(legacy))
<1> DEFINE f == AfterRuns(runs)
           Q == {i \in 0..Len(runs) : SoundFor(f[i], {runs[j] : j \in 1..i})}
           before == f[Len(runs)]
           g == AfterStatuses(before, legacy)
           P == {i \in 0..Len(legacy) :
                     SoundFor(g[i], ToSet(runs) \cup {legacy[j] : j \in 1..i})}
<1>1. /\ Len(runs) \in Nat /\ Len(legacy) \in Nat
      /\ \A i \in 1..Len(runs) : runs[i] \in RunKinds
      /\ \A i \in 1..Len(legacy) : legacy[i] \in StatusKinds
      /\ ToSet(runs) = {runs[j] : j \in 1..Len(runs)}
      /\ ToSet(legacy) = {legacy[j] : j \in 1..Len(legacy)}
    BY DEF ToSet
<1> HIDE DEF f
<1>2. 0 \in Q
  <2>1. f[0] = NoResult BY AfterRunsIs DEF f
  <2>2. {runs[j] : j \in 1..0} = {} OBVIOUS
  <2>3. SoundFor(NoResult, {}) BY ResultsAreTyped DEF SoundFor, NoResult
  <2>4. SoundFor(f[0], {runs[j] : j \in 1..0}) BY <2>1, <2>2, <2>3
  <2>5. 0 \in 0..Len(runs) BY <1>1
  <2> QED BY <2>4, <2>5
<1>3. ASSUME NEW i \in 1..Len(runs), i - 1 \in Q PROVE i \in Q
  <2>1. f[i] = AddCheckRun(f[i - 1], runs[i]) BY AfterRunsIs DEF f
  <2>2. {runs[j] : j \in 1..i} = {runs[j] : j \in 1..(i - 1)} \cup {runs[i]} OBVIOUS
  <2>3. SoundFor(f[i - 1], {runs[j] : j \in 1..(i - 1)}) BY <1>3
  <2>4. SoundFor(f[i], {runs[j] : j \in 1..i}) BY <1>1, <2>1, <2>2, <2>3, StaysSound
  <2> QED BY <2>4
<1>4. \A i \in 0..Len(runs) : i \in Q
  <2> HIDE DEF Q
  <2> QED BY <1>1, <1>2, <1>3, TurnByTurn
<1>5. SoundFor(before, ToSet(runs))
  <2>1. Len(runs) \in 0..Len(runs) BY <1>1
  <2>2. Len(runs) \in Q BY <1>4, <2>1
  <2>3. SoundFor(f[Len(runs)], {runs[j] : j \in 1..Len(runs)}) BY <2>2
  <2> QED BY <1>1, <2>3
<1> HIDE DEF before, g
<1>6. before \in Results BY <1>5 DEF SoundFor
<1>7. 0 \in P
  <2>1. g[0] = before BY <1>6, AfterStatusesIs DEF g
  <2>2. ToSet(runs) \cup {legacy[j] : j \in 1..0} = ToSet(runs) OBVIOUS
  <2>3. SoundFor(g[0], ToSet(runs) \cup {legacy[j] : j \in 1..0}) BY <1>5, <2>1, <2>2
  <2>4. 0 \in 0..Len(legacy) BY <1>1
  <2> QED BY <2>3, <2>4
<1>8. ASSUME NEW i \in 1..Len(legacy), i - 1 \in P PROVE i \in P
  <2>1. g[i] = AddStatus(g[i - 1], legacy[i]) BY <1>6, AfterStatusesIs DEF g
  <2>2. {legacy[j] : j \in 1..i} = {legacy[j] : j \in 1..(i - 1)} \cup {legacy[i]} OBVIOUS
  <2>3. SoundFor(g[i - 1], ToSet(runs) \cup {legacy[j] : j \in 1..(i - 1)}) BY <1>8
  <2>4. ToSet(runs) \cup {legacy[j] : j \in 1..i}
            = (ToSet(runs) \cup {legacy[j] : j \in 1..(i - 1)}) \cup {legacy[i]}
      BY <2>2
  <2>5. SoundFor(g[i], ToSet(runs) \cup {legacy[j] : j \in 1..i})
      BY <1>1, <2>1, <2>3, <2>4, StaysSound
  <2> QED BY <2>5
<1>9. \A i \in 0..Len(legacy) : i \in P
  <2> HIDE DEF P
  <2> QED BY <1>1, <1>7, <1>8, TurnByTurn
<1>10. SoundFor(g[Len(legacy)], ToSet(runs) \cup ToSet(legacy))
  <2>1. Len(legacy) \in 0..Len(legacy) BY <1>1
  <2>2. Len(legacy) \in P BY <1>9, <2>1
  <2>3. SoundFor(g[Len(legacy)], ToSet(runs) \cup {legacy[j] : j \in 1..Len(legacy)})
      BY <2>2
  <2> QED BY <1>1, <2>3
<1> QED BY <1>10 DEF before, g, f

\* So is what AnalyzeCheckResults makes of it.
LEMMA AnalysisIsSound ==
    ASSUME NEW runs \in Seq(RunKinds), NEW legacy \in Seq(StatusKinds)
    PROVE  LET seen == ToSet(runs) \cup ToSet(legacy)
           IN /\ AnalyzeCheckResults(runs, legacy) = "success" => seen \cap Unfinished = {}
              /\ AnalyzeCheckResults(runs, legacy) = "failed" => seen \cap Failing # {}
<1> DEFINE result == AfterStatuses(AfterRuns(runs)[Len(runs)], legacy)[Len(legacy)]
<1>1. SoundFor(result, ToSet(runs) \cup ToSet(legacy)) BY LoopsAreSound
<1>2. AnalyzeCheckResults(runs, legacy) = Final(result) BY DEF AnalyzeCheckResults
<1> HIDE DEF result
<1>3. result.status \in {"pending", "running", "failed"} BY <1>1 DEF SoundFor, Results
<1> QED BY <1>1, <1>2, <1>3 DEF Final, SoundFor

ChecksTypeOK ==
    /\ checkRuns \in Seq(RunKinds) /\ statuses \in Seq(StatusKinds)
    /\ poll \in [at : {"loop", "runs", "statuses", "analyze", "returned"}, count : Nat,
                 runs : Seq(RunKinds), statuses : Seq(StatusKinds)]

\* A verdict is the end of the last poll, whose answers are kept.
ChecksInv ==
    /\ ChecksTypeOK
    /\ verdict \in {"success", "failed"} => poll.at = "returned"
    /\ VerdictIsSound

LEMMA ChecksKeepInv == ChecksInv /\ [ChecksNext]_checksVars => ChecksInv'
<1> SUFFICES ASSUME ChecksInv, [ChecksNext]_checksVars PROVE ChecksInv'
    OBVIOUS
<1>0. /\ checkRuns \in Seq(RunKinds) /\ statuses \in Seq(StatusKinds)
      /\ poll.at \in {"loop", "runs", "statuses", "analyze", "returned"}
      /\ poll.count \in Nat /\ poll.runs \in Seq(RunKinds)
      /\ poll.statuses \in Seq(StatusKinds)
      /\ poll = [at |-> poll.at, count |-> poll.count, runs |-> poll.runs,
                 statuses |-> poll.statuses]
    BY DEF ChecksInv, ChecksTypeOK
<1>1. CASE CheckRunChanges
  <2>1. checkRuns' \in Seq(RunKinds)
    <3>1. PICK kind \in RunKinds :
              \/ checkRuns' = Append(checkRuns, kind)
              \/ \E i \in DOMAIN checkRuns : checkRuns' = [checkRuns EXCEPT ![i] = kind]
        BY <1>1 DEF CheckRunChanges
    <3>2. CASE checkRuns' = Append(checkRuns, kind) BY <1>0, <3>2, AppendProperties
    <3>3. CASE \E i \in DOMAIN checkRuns : checkRuns' = [checkRuns EXCEPT ![i] = kind]
        BY <1>0, <3>3, ExceptSeq, LenProperties
    <3> QED BY <3>1, <3>2, <3>3
  <2> QED BY <1>1, <2>1 DEF CheckRunChanges, ChecksInv, ChecksTypeOK, VerdictIsSound
<1>2. CASE StatusChanges
  <2>1. statuses' \in Seq(StatusKinds)
    <3>1. PICK kind \in StatusKinds :
              \/ statuses' = Append(statuses, kind)
              \/ \E i \in DOMAIN statuses : statuses' = [statuses EXCEPT ![i] = kind]
        BY <1>2 DEF StatusChanges
    <3>2. CASE statuses' = Append(statuses, kind) BY <1>0, <3>2, AppendProperties
    <3>3. CASE \E i \in DOMAIN statuses : statuses' = [statuses EXCEPT ![i] = kind]
        BY <1>0, <3>3, ExceptSeq, LenProperties
    <3> QED BY <3>1, <3>2, <3>3
  <2> QED BY <1>2, <2>1 DEF StatusChanges, ChecksInv, ChecksTypeOK, VerdictIsSound
<1>3. CASE CancelValidation
    BY <1>3 DEF CancelValidation, ChecksInv, ChecksTypeOK, VerdictIsSound
<1>4. CASE StartPoll
  <2>1. verdict \notin {"success", "failed"} BY <1>4 DEF StartPoll, ChecksInv
  <2>2. verdict' \notin {"success", "failed"} BY <1>4, <2>1 DEF StartPoll, Decide
  <2>3. checkRuns' \in Seq(RunKinds) /\ statuses' \in Seq(StatusKinds)
      BY <1>0, <1>4, EmptySeq DEF StartPoll, Decide
  <2>4. poll' \in [at : {"loop", "runs", "statuses", "analyze", "returned"}, count : Nat,
                   runs : Seq(RunKinds), statuses : Seq(StatusKinds)]
    <3>1. CASE Decide("error") BY <3>1 DEF Decide, ChecksInv, ChecksTypeOK
    <3>2. CASE poll' = [poll EXCEPT !.at = "runs", !.count = @ + 1]
      <4>1. poll' = [at |-> "runs", count |-> poll.count + 1, runs |-> poll.runs,
                     statuses |-> poll.statuses]
          BY <1>0, <3>2
      <4>2. poll.count + 1 \in Nat BY <1>0
      <4> HIDE <3>2
      <4> QED BY <1>0, <4>1, <4>2
    <3> QED BY <1>4, <3>1, <3>2 DEF StartPoll
  <2> QED BY <2>2, <2>3, <2>4 DEF ChecksInv, ChecksTypeOK, VerdictIsSound
<1>5. CASE ListCheckRuns
  <2>1. verdict' \notin {"success", "failed"} BY <1>5 DEF ListCheckRuns, ChecksInv
  <2>2. ChecksTypeOK' BY <1>5 DEF ListCheckRuns, ChecksInv, ChecksTypeOK
  <2> QED BY <2>1, <2>2 DEF ChecksInv, VerdictIsSound
<1>6. CASE GetCombinedStatus
  <2>1. verdict' \notin {"success", "failed"} BY <1>6 DEF GetCombinedStatus, ChecksInv
  <2>2. ChecksTypeOK' BY <1>6 DEF GetCombinedStatus, ChecksInv, ChecksTypeOK
  <2> QED BY <2>1, <2>2 DEF ChecksInv, VerdictIsSound
<1>7. CASE CheckRequestFails
  <2>1. verdict' = "error" BY <1>7 DEF CheckRequestFails, Decide
  <2>2. ChecksTypeOK' BY <1>7 DEF CheckRequestFails, Decide, ChecksInv, ChecksTypeOK
  <2> QED BY <2>1, <2>2 DEF ChecksInv, VerdictIsSound
<1>8. CASE Analyze
  <2> DEFINE status == AnalyzeCheckResults(poll.runs, poll.statuses)
  <2>1. CASE status \in {"success", "failed"}
    <3>1. verdict' = status /\ poll' = [poll EXCEPT !.at = "returned"]
        BY <1>8, <2>1 DEF Analyze, Decide
    <3>2. poll'.runs = poll.runs /\ poll'.statuses = poll.statuses /\ poll'.at = "returned"
        BY <1>0, <3>1
    <3>3. ChecksTypeOK' BY <1>8, <3>1 DEF Analyze, ChecksInv, ChecksTypeOK
    <3>4. VerdictIsSound'
      <4> HIDE DEF status
      <4>1. LET seen == ToSet(poll.runs) \cup ToSet(poll.statuses)
            IN /\ status = "success" => seen \cap Unfinished = {}
               /\ status = "failed" => seen \cap Failing # {}
          BY <1>0, AnalysisIsSound DEF status
      <4> QED BY <3>1, <3>2, <4>1 DEF VerdictIsSound, Unfinished
    <3> QED BY <3>2, <3>3, <3>4 DEF ChecksInv
  <2>2. CASE status \notin {"success", "failed"}
    <3>1. verdict' \notin {"success", "failed"} BY <1>8, <2>2 DEF Analyze, ChecksInv
    <3>2. poll' = [poll EXCEPT !.at = "loop", !.runs = << >>, !.statuses = << >>]
        BY <1>8, <2>2 DEF Analyze
    <3>3. poll' = [at |-> "loop", count |-> poll.count, runs |-> << >>, statuses |-> << >>]
        BY <1>0, <3>2
    <3>4. << >> \in Seq(RunKinds) /\ << >> \in Seq(StatusKinds) BY EmptySeq
    <3>5. ChecksTypeOK' BY <1>0, <1>8, <3>3, <3>4 DEF Analyze, ChecksTypeOK
    <3> QED BY <3>1, <3>5 DEF ChecksInv, VerdictIsSound
  <2> QED BY <2>1, <2>2
<1>9. CASE UNCHANGED checksVars
    BY <1>9 DEF checksVars, ChecksInv, ChecksTypeOK, VerdictIsSound
<1> QED BY <1>1, <1>2, <1>3, <1>4, <1>5, <1>6, <1>7, <1>8, <1>9 DEF ChecksNext

\* In whatever order any number of checks is listed, started, finished and run
\* again while they are polled, ValidatePR says success only if none of those it
\* read is pending or failed, and failure only if one of them has failed
\* (pr_validation.go:145-237).
THEOREM VerdictsAreSound == ChecksSpec => []VerdictIsSound
<1>1. ChecksInit => ChecksInv
    BY DEF ChecksInit, ChecksInv, ChecksTypeOK, VerdictIsSound
<1>2. ChecksInv => VerdictIsSound BY DEF ChecksInv
<1> QED BY <1>1, <1>2, ChecksKeepInv, PTL DEF ChecksSpec

=============================================================================
