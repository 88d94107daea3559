---------------------------- MODULE CircuitBreaker ----------------------------
(***************************************************************************)
(* CircuitBreaker of internal/errors: a state and four counters, each read *)
(* and written by atomic instructions, with no lock over any two of them.  *)
(* Every instruction on shared memory is an action; the goroutines that    *)
(* call Execute interleave between them.                                   *)
(***************************************************************************)
EXTENDS Integers

CONSTANTS
    Callers,      \* goroutines that share the breaker
    MaxFailures, Timeout, MaxRequests, MinRequests,  \* CircuitBreakerConfig
    RatioNum, RatioDen,   \* FailureRatio = RatioNum / RatioDen
    Created,      \* time.Now() when the breaker is created, in Unix seconds
    MaxTime,      \* bound: the clock stops there
    MaxCount      \* bound: a call starts only while fewer requests are counted

ASSUME BreakerConstants ==
    /\ {MaxFailures, MaxRequests, MinRequests, RatioDen} \subseteq Nat \ {0}
    /\ Timeout \in Nat /\ RatioNum \in Nat
    /\ Created \in Nat \ {0} /\ MaxTime \in Nat /\ Created <= MaxTime /\ MaxCount \in Nat

VARIABLES
    state, failures, requests, successes, lastFailure,  \* the breaker
    now,                                                \* the clock
    call     \* per goroutine: pc, a time and a counter value held in locals

counters == <<failures, requests, successes, lastFailure>>
vars == <<state, failures, requests, successes, lastFailure, now, call>>

States == {"closed", "open", "half-open"}
Steps == {"idle", "checkTimeout", "casHalfOpen", "resetSuccesses", "checkRequests", "run",
          "fail", "stamp", "clearSuccesses", "loadStateFail", "loadFailures", "loadRequests",
          "casOpen", "casReopen", "succeed", "loadStateOk", "casClose", "resetFailures",
          "resetRequests"}
Call == [pc : Steps, at : Nat, n : Nat]

TypeOK ==
    /\ state \in States
    /\ failures \in Nat /\ requests \in Nat /\ successes \in Nat /\ lastFailure \in Nat
    /\ now \in Created..MaxTime
    /\ call \in [Callers -> Call]

Init ==
    /\ state = "closed"
    /\ failures = 0 /\ requests = 0 /\ successes = 0 /\ lastFailure = 0
    /\ now = Created
    /\ call = [c \in Callers |-> [pc |-> "idle", at |-> 0, n |-> 0]]

At(c, step) == call[c].pc = step
Goto(c, step) == call' = [call EXCEPT ![c].pc = step]

\* atomic.CompareAndSwapInt32.  Variant: a plain store.
Stored(old, new) == state' = new
Swapped(old, new) == state = old /\ state' = new

-----------------------------------------------------------------------------
(* canExecute.                                                             *)

LoadState(c) ==
    /\ At(c, "idle") /\ requests < MaxCount
    /\ call' = [call EXCEPT ![c].at = now,
                            ![c].pc = CASE state = "closed" -> "run"
                                        [] state = "open" -> "checkTimeout"
                                        [] state = "half-open" -> "checkRequests"]
    /\ UNCHANGED <<state, counters, now>>

\* The test against lastFailureTime, which another goroutine may store anew
\* before the swap that follows.
Elapsed(at) == at - lastFailure >= Timeout

\* idle: the call was rejected with ErrCircuitBreakerOpen.
CheckTimeout(c) ==
    /\ At(c, "checkTimeout")
    /\ Goto(c, IF Elapsed(call[c].at) THEN "casHalfOpen" ELSE "idle")
    /\ UNCHANGED <<state, counters, now>>

\* The loser of the race is admitted as well.
CasHalfOpen(c) ==
    /\ At(c, "casHalfOpen")
    /\ \/ Swapped("open", "half-open") /\ Goto(c, "resetSuccesses")
       \/ state # "open" /\ UNCHANGED state /\ Goto(c, "run")
    /\ UNCHANGED <<counters, now>>

ResetSuccesses(c) ==
    /\ At(c, "resetSuccesses")
    /\ successes' = 0
    /\ Goto(c, "run")
    /\ UNCHANGED <<state, failures, requests, lastFailure, now>>

CheckRequests(c) ==
    /\ At(c, "checkRequests")
    /\ Goto(c, IF requests < MaxRequests THEN "run" ELSE "idle")
    /\ UNCHANGED <<state, counters, now>>

-----------------------------------------------------------------------------
(* The protected function returns; recordResult counts the request.        *)

Return(c) ==
    /\ At(c, "run")
    /\ requests' = requests + 1
    /\ \E outcome \in {"fail", "succeed"} : Goto(c, outcome)
    /\ UNCHANGED <<state, failures, successes, lastFailure, now>>

(* recordFailure. *)

Fail(c) ==
    /\ At(c, "fail")
    /\ failures' = failures + 1
    /\ call' = [call EXCEPT ![c].pc = "stamp", ![c].at = now]
    /\ UNCHANGED <<state, requests, successes, lastFailure, now>>

\* Variant: the time is kept only once the circuit is open.
LateStamp(c) == lastFailure' = IF state = "open" THEN call[c].at ELSE lastFailure
Stamp(c) == lastFailure' = call[c].at

StampFailure(c) ==
    /\ At(c, "stamp")
    /\ Stamp(c)
    /\ Goto(c, "clearSuccesses")
    /\ UNCHANGED <<state, failures, requests, successes, now>>

ClearSuccesses(c) ==
    /\ At(c, "clearSuccesses")
    /\ successes' = 0
    /\ Goto(c, "loadStateFail")
    /\ UNCHANGED <<state, failures, requests, lastFailure, now>>

\* What recordFailure does in the state it loads.  Variant: a failed probe is
\* only counted.
ProbeIgnored(s) ==
    CASE s = "closed" -> "loadFailures" [] s = "half-open" -> "idle" [] s = "open" -> "idle"
OnFailure(s) ==
    CASE s = "closed" -> "loadFailures" [] s = "half-open" -> "casReopen" [] s = "open" -> "idle"

LoadStateFail(c) ==
    /\ At(c, "loadStateFail")
    /\ Goto(c, OnFailure(state))
    /\ UNCHANGED <<state, counters, now>>

\* shouldOpen loads the two counters one after the other.
LoadFailures(c) ==
    /\ At(c, "loadFailures")
    /\ call' = [call EXCEPT ![c].pc = "loadRequests", ![c].n = failures]
    /\ UNCHANGED <<state, counters, now>>

\* shouldOpen.  Variant: opens one failure early.
OpensEarly(f, r) == f + 1 >= MaxFailures \/ (r >= MinRequests /\ f * RatioDen >= RatioNum * r)
ShouldOpen(f, r) == f >= MaxFailures \/ (r >= MinRequests /\ f * RatioDen >= RatioNum * r)

LoadRequests(c) ==
    /\ At(c, "loadRequests")
    /\ Goto(c, IF ShouldOpen(call[c].n, requests) THEN "casOpen" ELSE "idle")
    /\ UNCHANGED <<state, counters, now>>

CasOpen(c) ==
    /\ At(c, "casOpen")
    /\ Swapped("closed", "open") \/ (state # "closed" /\ UNCHANGED state)
    /\ Goto(c, "idle")
    /\ UNCHANGED <<counters, now>>

CasReopen(c) ==
    /\ At(c, "casReopen")
    /\ Swapped("half-open", "open") \/ (state # "half-open" /\ UNCHANGED state)
    /\ Goto(c, "idle")
    /\ UNCHANGED <<counters, now>>

(* recordSuccess. *)

Succeed(c) ==
    /\ At(c, "succeed")
    /\ successes' = successes + 1
    /\ call' = [call EXCEPT ![c].pc = "loadStateOk", ![c].n = successes + 1]
    /\ UNCHANGED <<state, failures, requests, lastFailure, now>>

LoadStateOk(c) ==
    /\ At(c, "loadStateOk")
    /\ Goto(c, IF state = "half-open" /\ call[c].n >= MaxRequests THEN "casClose" ELSE "idle")
    /\ UNCHANGED <<state, counters, now>>

CasClose(c) ==
    /\ At(c, "casClose")
    /\ \/ Swapped("half-open", "closed") /\ Goto(c, "resetFailures")
       \/ state # "half-open" /\ UNCHANGED state /\ Goto(c, "idle")
    /\ UNCHANGED <<counters, now>>

ResetFailures(c) ==
    /\ At(c, "resetFailures")
    /\ failures' = 0
    /\ Goto(c, "resetRequests")
    /\ UNCHANGED <<state, requests, successes, lastFailure, now>>

ResetRequests(c) ==
    /\ At(c, "resetRequests")
    /\ requests' = 0
    /\ Goto(c, "idle")
    /\ UNCHANGED <<state, failures, successes, lastFailure, now>>

-----------------------------------------------------------------------------
Tick == now < MaxTime /\ now' = now + 1 /\ UNCHANGED <<state, counters, call>>

Execute(c) ==
    \/ LoadState(c) \/ CheckTimeout(c) \/ CasHalfOpen(c) \/ ResetSuccesses(c)
    \/ CheckRequests(c) \/ Return(c)
    \/ Fail(c) \/ StampFailure(c) \/ ClearSuccesses(c) \/ LoadStateFail(c)
    \/ LoadFailures(c) \/ LoadRequests(c) \/ CasOpen(c) \/ CasReopen(c)
    \/ Succeed(c) \/ LoadStateOk(c) \/ CasClose(c) \/ ResetFailures(c) \/ ResetRequests(c)

Next == Tick \/ \E c \in Callers : Execute(c)

\* Goroutines keep running, protected calls return, and every caller calls
\* again (the poll loop retries); the clock needs no fairness.
Spec == Init /\ [][Next]_vars /\ \A c \in Callers : WF_vars(Execute(c))

-----------------------------------------------------------------------------
(* Properties.                                                             *)

\* The breaker moves only along the edges of the pattern, whichever stale
\* state recordFailure and recordSuccess acted on.
LegalStep(old, new) ==
    <<old, new>> \in {<<"closed", "open">>, <<"open", "half-open">>,
                      <<"half-open", "open">>, <<"half-open", "closed">>}
LegalTransitions ==
    [][LegalStep(state, state')]_state

\* Whichever goroutine opens the circuit, on failures that others counted and
\* have not stamped yet, the time of some failure is stored by then: a circuit
\* open with the zero time would be probed at once.
OpenIsStamped == state # "closed" => lastFailure >= Created

\* With one probe required to close (MaxRequests = 1, the configuration of
\* circuit_breaker_test.go), a half-open circuit is always decided.
HalfOpenIsLeft == (state = "half-open") ~> (state # "half-open")

\* "MaxFailures is the number of failures needed to open the circuit": when
\* one goroutine uses the breaker, an open or half-open circuit has counted
\* that many failures since it was last closed, or, below that number, at
\* least MinRequests requests.
OpenedForFailures ==
    state # "closed" => failures >= MaxFailures \/ requests >= MinRequests
=============================================================================
