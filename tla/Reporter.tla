------------------------------- MODULE Reporter -------------------------------
(***************************************************************************)
(* Reporter of pkg/reporter: goroutines of the agent put events on a       *)
(* bounded channel, flushLoop collects and sends them in batches, Close    *)
(* cancels flushLoop, flushes what is left and waits for the goroutines.   *)
(* Events are numbered in the order in which they are reported.            *)
(***************************************************************************)
EXTENDS Integers, Sequences, SequencesExt

CONSTANTS
    BufferSize,     \* Config.BufferSize
    MaxEvents       \* bound: events reported, agent.stopped included

ASSUME ReporterConstants ==
    BufferSize \in Nat \ {0} /\ MaxEvents \in Nat

VARIABLES
    queue,      \* the channel r.events
    buffer,     \* flushLoop's local buffer
    batch,      \* the events Flush took off the channel in Close
    fate,       \* per event; stored and lost are what became of its request
    reported,   \* number of events reported
    loop,       \* flushLoop
    closer,     \* the goroutine that calls Close
    heartbeat,  \* the goroutine of Heartbeat
    cancelled,  \* Close called r.cancel()
    signalled   \* the process' signal context is done

vars == <<queue, buffer, batch, fate, reported, loop, closer, heartbeat, cancelled, signalled>>

Events == 1..MaxEvents
Fates == {"unreported", "dropped", "held", "stored", "lost"}

TypeOK ==
    /\ queue \in Seq(Events) /\ buffer \in Seq(Events) /\ batch \in Seq(Events)
    /\ fate \in [Events -> Fates]
    /\ reported \in 0..MaxEvents
    /\ loop \in {"select", "send", "refused", "drain", "lastSend", "done"}
    /\ closer \in {"open", "report", "flush", "send", "wait", "closed"}
    /\ heartbeat \in {"wait", "send", "done"}
    /\ cancelled \in BOOLEAN /\ signalled \in BOOLEAN

Init ==
    /\ queue = <<>> /\ buffer = <<>> /\ batch = <<>>
    /\ fate = [e \in Events |-> "unreported"]
    /\ reported = 0
    /\ loop = "select" /\ closer = "open" /\ heartbeat = "wait"
    /\ cancelled = FALSE /\ signalled = FALSE

Fated(events, what) ==
    fate' = [e \in Events |-> IF Contains(events, e) THEN what ELSE fate[e]]

\* The request of sendBatch ends: the control plane may have stored the batch
\* even if the answer is an error.
Outcome(events) == \E what \in {"stored", "lost"} : Fated(events, what)

-----------------------------------------------------------------------------
(* Report, called by the agent, by register once the control plane has     *)
(* answered, and by Close.                                                 *)

\* Variant: one event more than the channel holds.
Unbounded == TRUE
HasRoom == Len(queue) < BufferSize

Report ==
    LET e == reported + 1 IN
    /\ reported < MaxEvents
    /\ reported' = e
    /\ IF HasRoom
       THEN queue' = Append(queue, e) /\ fate' = [fate EXCEPT ![e] = "held"]
       ELSE queue' = queue /\ fate' = [fate EXCEPT ![e] = "dropped"]
    /\ UNCHANGED <<buffer, batch, cancelled, signalled, loop, heartbeat>>

\* A call of the running program: the last event is left for Close to report.
AgentReport == reported + 1 < MaxEvents /\ Report /\ UNCHANGED closer

-----------------------------------------------------------------------------
(* flushLoop.                                                              *)

\* A batch is full.
Full(b) == Len(b) >= BufferSize

\* sendBatch(ctx, buffer): under a cancelled context the request is refused.
StartSend == loop' = IF cancelled THEN "refused" ELSE "send"

Collect ==
    /\ loop = "select" /\ queue # <<>>
    /\ queue' = Tail(queue)
    /\ buffer' = Append(buffer, Head(queue))
    /\ IF Full(buffer') THEN StartSend ELSE UNCHANGED loop
    /\ UNCHANGED <<batch, fate, reported, closer, heartbeat, cancelled, signalled>>

TickerFires ==
    /\ loop = "select" /\ buffer # <<>>
    /\ StartSend
    /\ UNCHANGED <<queue, buffer, batch, fate, reported, closer, heartbeat, cancelled, signalled>>

\* What the loop's buffer holds after a send.  Variant: the batch is kept and
\* sent again.
Kept == buffer
AfterSend == <<>>

\* Variant: a batch that failed goes back to the channel, behind the events
\* reported since.
RequeueFailed ==
    /\ loop = "send"
    /\ \/ Outcome(buffer) /\ UNCHANGED queue
       \/ /\ Len(queue \o buffer) <= BufferSize
          /\ UNCHANGED fate /\ queue' = queue \o buffer
    /\ buffer' = AfterSend
    /\ loop' = "select"
    /\ UNCHANGED <<batch, reported, closer, heartbeat, cancelled, signalled>>
SendEnds ==
    /\ \/ loop = "send" /\ Outcome(buffer)
       \/ loop = "refused" /\ Fated(buffer, "lost")
    /\ buffer' = AfterSend
    /\ loop' = "select"
    /\ UNCHANGED <<queue, batch, reported, closer, heartbeat, cancelled, signalled>>

SeeCancel ==
    /\ loop = "select" /\ cancelled
    /\ loop' = "drain"
    /\ UNCHANGED <<queue, buffer, batch, fate, reported, closer, heartbeat, cancelled, signalled>>

Drain ==
    /\ loop = "drain" /\ queue # <<>>
    /\ queue' = Tail(queue)
    /\ buffer' = Append(buffer, Head(queue))
    /\ UNCHANGED <<batch, fate, reported, loop, closer, heartbeat, cancelled, signalled>>

\* Variant: the loop returns without sending what it collected.
DropAll == "done"
DrainedTo == IF buffer = <<>> THEN "done" ELSE "lastSend"

Drained ==
    /\ loop = "drain" /\ queue = <<>>
    /\ loop' = DrainedTo
    /\ UNCHANGED <<queue, buffer, batch, fate, reported, closer, heartbeat, cancelled, signalled>>

LastSendEnds ==
    /\ loop = "lastSend"
    /\ Outcome(buffer)
    /\ buffer' = <<>>
    /\ loop' = "done"
    /\ UNCHANGED <<queue, batch, reported, closer, heartbeat, cancelled, signalled>>

FlushLoop ==
    Collect \/ TickerFires \/ SendEnds \/ SeeCancel \/ Drain \/ Drained \/ LastSendEnds

-----------------------------------------------------------------------------
(* Heartbeat, under the context that the signal cancels.                   *)

\* When the goroutine returns.  Variant: it does not watch its context.
NeverStops == FALSE
Stops == signalled

Beat(from, to) ==
    /\ heartbeat = from /\ heartbeat' = to
    /\ UNCHANGED <<queue, buffer, batch, fate, reported, loop, closer, cancelled, signalled>>

HeartbeatFires == Beat("wait", "send")
HeartbeatSent == Beat("send", "wait")
HeartbeatStops == Stops /\ Beat("wait", "done")

Heartbeat == HeartbeatFires \/ HeartbeatSent \/ HeartbeatStops

-----------------------------------------------------------------------------
(* The signal, and Close after the orchestrator stopped (runStart).        *)

Signal ==
    /\ ~signalled /\ signalled' = TRUE
    /\ UNCHANGED <<queue, buffer, batch, fate, reported, loop, closer, heartbeat, cancelled>>

CloseCancels ==
    /\ closer = "open" /\ signalled
    /\ cancelled' = TRUE
    /\ closer' = "report"
    /\ UNCHANGED <<queue, buffer, batch, fate, reported, loop, heartbeat, signalled>>

CloseReports == closer = "report" /\ closer' = "flush" /\ Report

FlushTakes ==
    /\ closer = "flush" /\ queue # <<>>
    /\ queue' = Tail(queue)
    /\ batch' = Append(batch, Head(queue))
    /\ UNCHANGED <<buffer, fate, reported, loop, closer, heartbeat, cancelled, signalled>>

FlushSends ==
    /\ closer = "flush" /\ queue = <<>>
    /\ closer' = IF batch = <<>> THEN "wait" ELSE "send"
    /\ UNCHANGED <<queue, buffer, batch, fate, reported, loop, heartbeat, cancelled, signalled>>

FlushEnds ==
    /\ closer = "send"
    /\ Outcome(batch)
    /\ batch' = <<>>
    /\ closer' = "wait"
    /\ UNCHANGED <<queue, buffer, reported, loop, heartbeat, cancelled, signalled>>

\* wg.Wait().
CloseReturns ==
    /\ closer = "wait" /\ loop = "done" /\ heartbeat = "done"
    /\ closer' = "closed"
    /\ UNCHANGED <<queue, buffer, batch, fate, reported, loop, heartbeat, cancelled, signalled>>

Close ==
    CloseCancels \/ CloseReports \/ FlushTakes \/ FlushSends \/ FlushEnds \/ CloseReturns

-----------------------------------------------------------------------------
Next == AgentReport \/ FlushLoop \/ Heartbeat \/ Signal \/ Close

\* The goroutines are scheduled and every request ends by its timeout; the
\* select of Heartbeat, which finds its context done again and again, takes
\* that case.  No one has to report an event or to send a signal.
Spec ==
    /\ Init /\ [][Next]_vars
    /\ WF_vars(FlushLoop) /\ WF_vars(Close)
    /\ WF_vars(HeartbeatSent) /\ SF_vars(HeartbeatStops)

-----------------------------------------------------------------------------
(* Properties.                                                             *)

\* "a fire-and-forget client" (docs/controlplane): every event is dropped at
\* once or sent in one request only, by flushLoop or by Close.
Delivery == INSTANCE EventDelivery WITH Events <- Events, fate <- fate
DeliveredOnce == Delivery!Spec

\* An event counted as held is in exactly one of the channel, the loop's
\* buffer and Close's batch, once: none is forgotten and none is shared by the
\* two goroutines that take events off the channel.
Places(e) ==
    LET At(s, name) == {<<name, i>> : i \in {i \in DOMAIN s : s[i] = e}}
    IN  At(queue, "queue") \cup At(buffer, "buffer") \cup At(batch, "batch")
HeldOnce ==
    \A e \in Events :
        IF fate[e] = "held" THEN \E place \in Places(e) : Places(e) = {place}
                            ELSE Places(e) = {}

\* Until Close the control plane stores events in the order of the reports,
\* also when batches fail in between.
InOrder ==
    [][~cancelled => \A e, f \in Events :
         (fate[e] = "stored" /\ fate[f] # "stored" /\ fate'[f] = "stored") => e < f]_vars

\* "fire-and-forget client with internal buffering": an agent that reports
\* faster than the control plane answers holds no more than two buffers.
MemoryBound == ~cancelled => Len(queue) <= BufferSize /\ Len(buffer) <= BufferSize

\* What was on its way when Close was called is sent or given up, even if no
\* more events come.
HeldIsSettled ==
    \A e \in Events : (fate[e] = "held" /\ ~cancelled) ~> fate[e] \in {"stored", "lost"}

\* Close waits for flushLoop and Heartbeat, and returns.
CloseEnds == cancelled ~> closer = "closed"
=============================================================================
