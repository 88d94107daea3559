---------------------------- MODULE ProtectedCalls ----------------------------
(***************************************************************************)
(* The calls one goroutine makes to GitHub and Claude under the retry loop *)
(* of internal/errors, some of them inside the circuit breaker: which      *)
(* errors are tried again and when, what reaches the service, and what the *)
(* breaker is told.  Time is counted in units of five seconds, the         *)
(* shortest RetryAfter of the code.                                        *)
(***************************************************************************)
EXTENDS CircuitBreaker

CONSTANTS
    RetryEnabled,     \* ErrorHandlingConfig.Retry.Enabled
    Policies,         \* the configured retry policies, by operation
    Operations        \* the calls this instance makes

VARIABLES
    pc,          \* where the goroutine is in the call
    frame,       \* its locals: the call, the attempt, why it failed, when the timer fires
    cancelled,   \* the context of the call
    applied,     \* requests of the last call that took effect
    lost,        \* of these, those whose answer never came
    wasted       \* requests of failed calls since the breaker was last closed

history == <<applied, lost, wasted>>
callVars == <<vars, pc, frame, cancelled, history>>

-----------------------------------------------------------------------------
(* Errors.                                                                 *)

Error(type, retryable, after) == [type |-> type, retryable |-> retryable, after |-> after]

NetworkError == Error("network", TRUE, 1)
TimeoutError == Error("timeout", TRUE, 2)
APIError == Error("api", TRUE, 1)
TemporaryError == Error("temporary", TRUE, 1)
RateLimitError == Error("rate_limit", TRUE, 12)
AuthError == Error("auth", FALSE, 0)
PermanentError == Error("permanent", FALSE, 0)

\* Status codes with a classification, and failures without a status.
StatusError ==
    [rateLimited |-> RateLimitError, unauthorized |-> AuthError, forbidden |-> AuthError,
     serverError |-> APIError, notFound |-> PermanentError, badRequest |-> PermanentError]
Statuses == DOMAIN StatusError
Causes == Statuses \cup {"deadline", "refused", "reset", "cancelled", "other"}

IsTimeout(c) == c = "deadline"
IsNetwork(c) == c \in {"refused", "reset"}

\* ClassifyError looks for StatusCode() on the error itself: the cores of the
\* clients wrap it first, and the status is not seen.
ClassifyError(c, wrapped) ==
    CASE c \in Statuses /\ ~wrapped -> StatusError[c]
      [] IsTimeout(c) -> TimeoutError
      [] IsNetwork(c) -> NetworkError
      [] OTHER -> TemporaryError

-----------------------------------------------------------------------------
(* The error manager.                                                      *)

NoRetryPolicy == [attempts |-> 1, base |-> 0, cap |-> 0, factor |-> 1, jitter |-> 0,
                  retryable |-> {}]

\* Configured names of errors; "authentication" is a name of the configuration
\* for the type "auth", and unknown names are dropped.
ErrorTypeOf == [network |-> "network", rate_limit |-> "rate_limit", timeout |-> "timeout",
                api |-> "api", temporary |-> "temporary", authentication |-> "auth",
                permanent |-> "permanent"]
ConvertRetryableErrors(names) == {ErrorTypeOf[n] : n \in names \cap DOMAIN ErrorTypeOf}

\* initializeRetryPolicies.
RetryPolicies ==
    [o \in DOMAIN Policies |->
        [Policies[o] EXCEPT !.retryable = ConvertRetryableErrors(@)]]

GetRetryer(o) ==
    IF ~RetryEnabled THEN NoRetryPolicy
    ELSE RetryPolicies[IF o \in DOMAIN RetryPolicies THEN o ELSE "default"]

\* The clients: the operation type each of their calls asks the manager for,
\* and what surrounds it.
OperationType(o) ==
    IF o \in {"SendMessage", "SendMessageWithTools"} THEN "claude_api"
    ELSE IF o = "Decorated" THEN "default" ELSE "github_api"
Retried(o) == o # "AddLabels"
Guarded(o) == o \in {"SendMessage", "Decorated"}
Wrapped(o) == o # "Decorated"
Changes(o) == o \in {"CreateIssue", "AddLabels"}

op == frame.op
attempt == frame.attempt
NoCall == [op |-> "none", attempt |-> 0, cause |-> "other", due |-> 0]

\* The error the loop classifies, and the policy it follows.
Failure == ClassifyError(frame.cause, Wrapped(op))
Policy == IF Retried(op) THEN GetRetryer(OperationType(op)) ELSE NoRetryPolicy

-----------------------------------------------------------------------------
(* The retry loop.                                                         *)

\* shouldRetry.  Variant: any error that calls itself retryable.
RetryAny(p, e) == e.retryable
ShouldRetry(p, e) == e.retryable /\ e.type \in p.retryable

\* calculateDelay: RetryAfter takes the place of the capped backoff.
Lower(a, b) == IF a < b THEN a ELSE b
CalculateDelay(p, n, e) ==
    IF e.after > 0 THEN e.after ELSE Lower(p.base * p.factor^(n - 1), p.cap)

\* addJitter: up to jitter percent more or less.
AddJitter(p, delay) ==
    LET spread == (delay * p.jitter) \div 100
    IN  (delay - spread)..(delay + spread)

Idle == pc = "idle"

CallInit ==
    /\ Init
    /\ pc = "idle" /\ frame = NoCall /\ cancelled = FALSE
    /\ applied = 0 /\ lost = 0 /\ wasted = 0

\* The locals are gone when the call returns.
Goes(to) == pc' = to /\ frame' = IF to = "idle" THEN NoCall ELSE frame

Begin(c) ==
    /\ Idle /\ requests < MaxCount
    /\ \E o \in Operations :
         /\ frame' = [NoCall EXCEPT !.op = o, !.attempt = 1]
         /\ pc' = IF Guarded(o) THEN "admission" ELSE "send"
    /\ applied' = 0 /\ lost' = 0
    /\ UNCHANGED <<vars, cancelled, wasted>>

\* canExecute; an idle breaker after it means that the call was rejected.
Admission(c) ==
    /\ pc = "admission"
    /\ LoadState(c) \/ CheckTimeout(c) \/ CasHalfOpen(c) \/ ResetSuccesses(c) \/ CheckRequests(c)
    /\ Goes(CASE call'[c].pc = "run" -> "send"
              [] call'[c].pc = "idle" -> "idle"
              [] OTHER -> "admission")
    /\ UNCHANGED <<cancelled, history>>

\* The loop ends: under the breaker its outcome is recorded first.
Finish(c, outcome) ==
    IF Guarded(op)
    THEN Return(c) /\ call'[c].pc = outcome /\ Goes("record")
    ELSE Goes("idle") /\ UNCHANGED vars

\* A request answered without error ends the call.  Variant: the loop goes on.
KeepTrying(c) == frame' = [frame EXCEPT !.attempt = @ + 1] /\ UNCHANGED <<pc, vars>>
Succeeded(c) == Finish(c, "succeed")

Answered(c) ==
    /\ pc = "send" /\ ~cancelled
    /\ applied' = IF Changes(op) THEN applied + 1 ELSE applied
    /\ Succeeded(c)
    /\ UNCHANGED <<cancelled, lost, wasted>>

\* A request that times out, or is cut off, may have taken effect.  Under a
\* cancelled context nothing is sent.
Unanswered(c) ==
    /\ pc = "send"
    /\ \E w \in IF cancelled THEN {"cancelled"} ELSE Causes \ {"cancelled"} :
         /\ frame' = [frame EXCEPT !.cause = w]
         /\ \/ UNCHANGED <<applied, lost>>
            \/ /\ w \in {"deadline", "reset", "serverError"} /\ Changes(op)
               /\ applied' = applied + 1 /\ lost' = lost + 1
    /\ pc' = "failed"
    /\ UNCHANGED <<vars, cancelled, wasted>>

\* The call fails: the breaker counts the whole loop as one failure.
GiveUp(c) ==
    /\ Finish(c, "fail")
    /\ wasted' = IF Guarded(op) THEN wasted + attempt ELSE wasted
    /\ UNCHANGED <<cancelled, applied, lost>>

Exhausted(c) ==
    /\ pc = "failed" /\ attempt >= Policy.attempts
    /\ GiveUp(c)

NotRetryable(c) ==
    /\ pc = "failed" /\ attempt < Policy.attempts /\ ~ShouldRetry(Policy, Failure)
    /\ GiveUp(c)

Delay(c) ==
    /\ pc = "failed" /\ attempt < Policy.attempts /\ ShouldRetry(Policy, Failure)
    /\ \E d \in AddJitter(Policy, CalculateDelay(Policy, attempt, Failure)) :
         frame' = [frame EXCEPT !.due = now + d]
    /\ pc' = "wait"
    /\ UNCHANGED <<vars, cancelled, history>>

\* select { case <-time.After(delay) }
NextAttempt(c) ==
    /\ pc = "wait" /\ now >= frame.due
    /\ pc' = "send"
    /\ frame' = [NoCall EXCEPT !.op = op, !.attempt = attempt + 1]
    /\ UNCHANGED <<vars, cancelled, history>>

\* select { case <-ctx.Done() }.  Variant: only the timer is waited for.
NoCancellation == FALSE
Interrupted == cancelled

CancelledWait(c) ==
    /\ pc = "wait" /\ Interrupted
    /\ GiveUp(c)

\* recordResult; closing the circuit starts the count of wasted requests anew.
Record(c) ==
    /\ pc = "record"
    /\ \/ Fail(c) \/ StampFailure(c) \/ ClearSuccesses(c) \/ LoadStateFail(c)
       \/ LoadFailures(c) \/ LoadRequests(c) \/ CasOpen(c) \/ CasReopen(c)
       \/ Succeed(c) \/ LoadStateOk(c) \/ CasClose(c) \/ ResetFailures(c) \/ ResetRequests(c)
    /\ Goes(IF call'[c].pc = "idle" THEN "idle" ELSE "record")
    /\ wasted' = IF state = "half-open" /\ state' = "closed" THEN 0 ELSE wasted
    /\ UNCHANGED <<cancelled, applied, lost>>

\* The process is told to stop.
Cancel ==
    /\ ~cancelled /\ cancelled' = TRUE
    /\ UNCHANGED <<vars, pc, frame, history>>

TimePasses == Tick /\ UNCHANGED <<pc, frame, cancelled, history>>

Step(c) ==
    \/ Admission(c) \/ Answered(c) \/ Unanswered(c) \/ Exhausted(c) \/ NotRetryable(c)
    \/ Delay(c) \/ NextAttempt(c) \/ CancelledWait(c) \/ Record(c)

CallNext == Cancel \/ TimePasses \/ \E c \in Callers : Begin(c) \/ Step(c)

\* The goroutine runs, requests end (the HTTP clients have timeouts); nobody
\* owes another call or a cancellation, and timers need not fire.
CallSpec == CallInit /\ [][CallNext]_callVars /\ \A c \in Callers : WF_callVars(Step(c))

-----------------------------------------------------------------------------
(* Properties, for one goroutine (Callers is a singleton).                 *)

CallTypeOK ==
    /\ TypeOK
    /\ pc \in {"idle", "admission", "send", "failed", "wait", "record"}
    /\ frame \in [op : Operations \cup {"none"}, attempt : Nat, cause : Causes, due : Nat]
    /\ cancelled \in BOOLEAN
    /\ applied \in Nat /\ lost \in 0..applied /\ wasted \in Nat

\* CreateIssue is tried again although the first request may have created the
\* issue: there are duplicates, but only one for every answer that was lost,
\* and never more than the policy's attempts.
DuplicatesAreLostAnswers ==
    /\ applied <= lost + (IF pc \in {"idle", "record"} THEN 1 ELSE 0)
    /\ pc # "idle" => applied <= Policy.attempts

\* A retry loop counts as one failure of the breaker, so the circuit opens
\* late: but while it is closed the service has refused at most MaxFailures
\* full loops since the circuit was last closed.
OpensLate ==
    state = "closed" /\ Idle =>
        \/ wasted = 0
        \/ \E o \in Operations : Guarded(o) /\
               wasted < MaxFailures * GetRetryer(OperationType(o)).attempts

\* A call whose context is cancelled returns, without waiting for the delay
\* of a retry to pass.
CancelEnds == (cancelled /\ ~Idle) ~> Idle

\* "authentication: No; permanent: No" (the column Retryable of the table in
\* docs/guides/code-conventions.md): a request that was refused as
\* unauthorized, or as wrong, is not sent again.
RefusedIsFinal ==
    [][pc = "failed" /\ frame.cause \in {"unauthorized", "forbidden", "notFound", "badRequest"}
        => pc' # "wait"]_callVars
=============================================================================
