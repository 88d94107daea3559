---------------------------- MODULE ReporterProofs ----------------------------
(***************************************************************************)
(* The Reporter implements EventDelivery, for every buffer size: an event  *)
(* is dropped at once or leaves in one request only.                       *)
(***************************************************************************)
EXTENDS Reporter, TLAPS

-----------------------------------------------------------------------------
(* The sequences a step makes.                                             *)

\* The sequence without its head holds the other elements, in their order.
LEMMA TailParts ==
    ASSUME NEW S, NEW s \in Seq(S), s # <<>>
    PROVE  /\ Head(s) \in S /\ Head(s) = s[1] /\ Tail(s) \in Seq(S)
           /\ Len(s) \in Nat /\ Len(s) >= 1 /\ Len(Tail(s)) = Len(s) - 1
           /\ \A i \in 1..Len(Tail(s)) : Tail(s)[i] = s[i + 1]
  OBVIOUS

\* The sequence with one element more.
LEMMA AppendParts ==
    ASSUME NEW S, NEW s \in Seq(S), NEW e \in S
    PROVE  /\ Append(s, e) \in Seq(S) /\ Append(s, e) # <<>>
           /\ Len(s) \in Nat /\ Len(Append(s, e)) = Len(s) + 1
           /\ \A i \in 1..Len(s) : Append(s, e)[i] = s[i]
           /\ Append(s, e)[Len(s) + 1] = e
  OBVIOUS

-----------------------------------------------------------------------------
(* Types.                                                                  *)

\* Losing a batch leaves every event with a fate.
LEMMA FatedTypes ==
    ASSUME TypeOK, NEW s, Fated(s, "lost")
    PROVE  fate' \in [Events -> Fates]
  BY DEF Fated, TypeOK, Fates

\* A request's end leaves every event with a fate.
LEMMA OutcomeTypes ==
    ASSUME TypeOK, NEW s, Outcome(s)
    PROVE  fate' \in [Events -> Fates]
<1>1. PICK what \in Fates : Fated(s, what)
  BY DEF Outcome, Fates
<1> QED
  BY <1>1 DEF Fated, TypeOK

\* Every step keeps the variables within their types.
LEMMA TypeStep == TypeOK /\ [Next]_vars => TypeOK'
<1> SUFFICES ASSUME TypeOK, [Next]_vars PROVE TypeOK'
  OBVIOUS
<1> USE ReporterConstants
<1>1. /\ queue \in Seq(Events) /\ buffer \in Seq(Events) /\ batch \in Seq(Events)
      /\ fate \in [Events -> Fates] /\ reported \in 0..MaxEvents
      /\ <<>> \in Seq(Events)
  BY DEF TypeOK
<1>2. ASSUME Report PROVE /\ queue' \in Seq(Events) /\ fate' \in [Events -> Fates]
                          /\ reported' \in 0..MaxEvents
  <2>1. reported + 1 \in Events /\ reported + 1 \in 0..MaxEvents
    BY <1>1, <1>2 DEF Report, Events
  <2>2. Append(queue, reported + 1) \in Seq(Events)
    BY <1>1, <2>1
  <2> QED
    BY <1>1, <1>2, <2>1, <2>2 DEF Report, Fates
<1>3. CASE AgentReport
  BY <1>2, <1>3 DEF AgentReport, Report, TypeOK
<1>4. CASE Collect \/ Drain \/ FlushTakes
  <2>1. Head(queue) \in Events /\ Tail(queue) \in Seq(Events)
    BY <1>1, <1>4, TailParts DEF Collect, Drain, FlushTakes
  <2>2. /\ Append(buffer, Head(queue)) \in Seq(Events)
        /\ Append(batch, Head(queue)) \in Seq(Events)
    BY <1>1, <2>1
  <2> QED
    BY <1>1, <1>4, <2>1, <2>2 DEF Collect, StartSend, Drain, FlushTakes, TypeOK
<1>5. CASE TickerFires
  BY <1>1, <1>5 DEF TickerFires, StartSend, TypeOK
<1>6. CASE SendEnds \/ LastSendEnds \/ FlushEnds
  <2>1. fate' \in [Events -> Fates]
    BY <1>6, OutcomeTypes, FatedTypes DEF SendEnds, LastSendEnds, FlushEnds
  <2> QED
    BY <1>1, <1>6, <2>1 DEF SendEnds, LastSendEnds, FlushEnds, AfterSend, TypeOK
<1>8. CASE CloseReports
  BY <1>2, <1>8 DEF CloseReports, Report, TypeOK
<1>9. CASE SeeCancel \/ Drained \/ Heartbeat \/ Signal \/ CloseCancels \/ FlushSends
           \/ CloseReturns \/ UNCHANGED vars
  BY ZenonT(60), <1>1, <1>9
  DEF SeeCancel, Drained, DrainedTo, Heartbeat, HeartbeatFires, HeartbeatSent, HeartbeatStops,
      Beat, Signal, CloseCancels, FlushSends, CloseReturns, vars, TypeOK
<1> QED
  BY <1>3, <1>4, <1>5, <1>6, <1>8, <1>9 DEF Next, FlushLoop, Close

\* The reporter's buffers and goroutines keep their types.
THEOREM ReporterTypeCorrect == Spec => []TypeOK
<1>1. Init => TypeOK
  <2>0. 0 \in 0..MaxEvents
    BY ReporterConstants
  <2>1. <<>> \in Seq(Events) /\ [e \in Events |-> "unreported"] \in [Events -> Fates]
    BY DEF Fates
  <2> QED
    BY <2>0, <2>1 DEF Init, TypeOK
<1> QED
  BY <1>1, TypeStep, PTL DEF Spec

-----------------------------------------------------------------------------
(* The invariant.                                                          *)

\* A sequence of held events, in the order of their reports.
Ascending(s) == \A i, j \in 1..Len(s) : i < j => s[i] < s[j]
AllHeld(s) == \A i \in 1..Len(s) : fate[s[i]] = "held"
Before(s, t) == \A i \in 1..Len(s), j \in 1..Len(t) : s[i] < t[j]
Apart(s, t) == \A i \in 1..Len(s), j \in 1..Len(t) : s[i] # t[j]

\* Every event on its way is held, in one place, once, and the converse;
\* events not reported yet are nowhere.
DeliveryInv ==
    /\ AllHeld(queue) /\ AllHeld(buffer) /\ AllHeld(batch)
    /\ Ascending(queue) /\ Ascending(buffer) /\ Ascending(batch)
    /\ Before(buffer, queue) /\ Before(batch, queue) /\ Apart(buffer, batch)
    /\ \A e \in Events :
         fate[e] = "held" => Contains(queue, e) \/ Contains(buffer, e) \/ Contains(batch, e)
    /\ \A e \in Events : e > reported => fate[e] = "unreported"
    /\ loop \in {"send", "refused", "lastSend"} => buffer # <<>>
    /\ closer = "send" => batch # <<>>

\* What the sequences of a typed state hold.
LEMMA Elements ==
    ASSUME TypeOK
    PROVE  /\ Len(queue) \in Nat /\ Len(buffer) \in Nat /\ Len(batch) \in Nat
           /\ \A i \in 1..Len(queue) : queue[i] \in Events
           /\ \A i \in 1..Len(buffer) : buffer[i] \in Events
           /\ \A i \in 1..Len(batch) : batch[i] \in Events
           /\ fate \in [Events -> Fates] /\ reported \in Nat /\ Events \subseteq Int
  BY ReporterConstants DEF TypeOK, Events

\* Report: the new event is younger than all others and goes last.
LEMMA DeliveryReport ==
    TypeOK /\ DeliveryInv /\ Report /\ (closer' = "send" => batch # <<>>) => DeliveryInv'
<1> SUFFICES ASSUME TypeOK, DeliveryInv, Report, closer' = "send" => batch # <<>>
             PROVE  DeliveryInv'
  OBVIOUS
<1> USE Elements DEF DeliveryInv
<1> DEFINE e == reported + 1
<1>1. e \in Events /\ fate[e] = "unreported" /\ reported' = e
  BY ReporterConstants DEF Report, Events
<1>2. UNCHANGED <<buffer, batch, loop>>
  BY DEF Report
<1>3. CASE HasRoom
  <2>1. queue' = Append(queue, e) /\ fate' = [fate EXCEPT ![e] = "held"]
    BY <1>3 DEF Report
  <2> HIDE DEF e
  <2>2. /\ Len(queue') = Len(queue) + 1 /\ queue'[Len(queue) + 1] = e
        /\ \A i \in 1..Len(queue) : queue'[i] = queue[i]
    BY <1>1, <2>1, AppendParts DEF TypeOK
  <2>3. AllHeld(queue)' /\ AllHeld(buffer)' /\ AllHeld(batch)'
    BY <1>1, <1>2, <2>1, <2>2 DEF AllHeld
  <2>4. ASSUME NEW f \in Events, fate[f] = "held"
        PROVE  f < e
    <3>1. f \in Int /\ ~(f > reported)
      BY <2>4
    <3> QED
      BY <3>1 DEF e
  <2>9. /\ \A i \in 1..Len(queue) : queue[i] < e
        /\ \A i \in 1..Len(buffer) : buffer[i] < e
        /\ \A i \in 1..Len(batch) : batch[i] < e
    BY <2>4 DEF AllHeld
  <2>5. Ascending(queue)' /\ Ascending(buffer)' /\ Ascending(batch)'
    <3>1. /\ Ascending(queue) /\ Ascending(buffer) /\ Ascending(batch)
          /\ Len(queue) \in Nat
      OBVIOUS
    <3>2. Ascending(queue)'
      BY ONLY <3>1, <2>2, <2>9 DEF Ascending
    <3> QED
      BY <3>1, <3>2, <1>2 DEF Ascending
  <2>8. Before(buffer, queue)' /\ Before(batch, queue)' /\ Apart(buffer, batch)'
    <3>1. /\ Before(buffer, queue) /\ Before(batch, queue) /\ Apart(buffer, batch)
          /\ Len(queue) \in Nat
      OBVIOUS
    <3> QED
      BY ONLY SMTT(30), <3>1, <1>2, <2>2, <2>9 DEF Before, Apart
  <2>6. \A f \in Events :
          fate'[f] = "held" => Contains(queue, f)' \/ Contains(buffer, f)' \/ Contains(batch, f)'
    BY <1>1, <1>2, <2>1, <2>2 DEF Contains
  <2>7. \A f \in Events : f > reported' => fate'[f] = "unreported"
    BY <1>1, <2>1 DEF e
  <2> QED
    BY <1>2, <2>3, <2>5, <2>6, <2>7, <2>8
<1>4. CASE ~HasRoom
  <2>1. queue' = queue /\ fate' = [fate EXCEPT ![e] = "dropped"]
    BY <1>4 DEF Report
  <2>2. AllHeld(queue)' /\ AllHeld(buffer)' /\ AllHeld(batch)'
    BY <1>1, <1>2, <2>1 DEF AllHeld
  <2>3. /\ Ascending(queue)' /\ Ascending(buffer)' /\ Ascending(batch)'
        /\ Before(buffer, queue)' /\ Before(batch, queue)' /\ Apart(buffer, batch)'
    BY <1>2, <2>1 DEF Ascending, Before, Apart
  <2>4. \A f \in Events :
          /\ f > reported' => fate'[f] = "unreported"
          /\ fate'[f] = "held" => Contains(queue, f)' \/ Contains(buffer, f)' \/ Contains(batch, f)'
    BY <1>1, <1>2, <2>1 DEF Contains
  <2> QED
    BY <1>2, <2>2, <2>3, <2>4
<1> QED
  BY <1>3, <1>4

\* The loop takes the oldest event of the channel.
LEMMA DeliveryTaken ==
    ASSUME TypeOK, DeliveryInv, queue # <<>>, queue' = Tail(queue),
           buffer' = Append(buffer, Head(queue)), UNCHANGED <<batch, fate, reported, closer>>
    PROVE  DeliveryInv'
<1> USE Elements DEF DeliveryInv
<1>1. /\ Len(queue) >= 1 /\ Len(queue') = Len(queue) - 1 /\ Head(queue) = queue[1]
      /\ \A i \in 1..Len(queue') : queue'[i] = queue[i + 1]
  BY TailParts DEF TypeOK
<1>2. Head(queue) \in Events
  BY TailParts DEF TypeOK
<1>3. /\ Len(buffer') = Len(buffer) + 1 /\ buffer'[Len(buffer) + 1] = queue[1]
      /\ \A i \in 1..Len(buffer) : buffer'[i] = buffer[i]
      /\ buffer' # <<>>
  <2>1. buffer \in Seq(Events)
    BY DEF TypeOK
  <2> QED
    BY ONLY <1>1, <1>2, <2>1, AppendParts, buffer' = Append(buffer, Head(queue))
<1>4. AllHeld(queue)' /\ AllHeld(buffer)' /\ AllHeld(batch)'
  BY <1>1, <1>3 DEF AllHeld
<1>5. Ascending(queue)' /\ Ascending(batch)'
  BY <1>1 DEF Ascending
<1>10. /\ Ascending(queue) /\ Ascending(buffer)
       /\ Before(buffer, queue) /\ Before(batch, queue)
       /\ Len(queue) \in Nat /\ Len(buffer) \in Nat /\ UNCHANGED batch
  OBVIOUS
<1>6. Ascending(buffer)'
  <2>1. \A i \in 1..Len(buffer) : buffer[i] < queue[1]
    BY ONLY <1>1, <1>10 DEF Before
  <2>2. ASSUME NEW i \in 1..Len(buffer'), NEW j \in 1..Len(buffer'), i < j
        PROVE  buffer'[i] < buffer'[j]
    <3>1. i \in 1..Len(buffer) /\ (j \in 1..Len(buffer) \/ j = Len(buffer) + 1)
      BY ONLY <2>2, <1>3, <1>10
    <3> QED
      BY ONLY <1>3, <1>10, <2>1, <2>2, <3>1 DEF Ascending
  <2> QED
    BY ONLY <2>2 DEF Ascending
<1>7. Before(buffer, queue)' /\ Before(batch, queue)'
  <2>1. Before(batch, queue)'
    BY ONLY <1>1, <1>10 DEF Before
  <2>2. Before(buffer, queue)'
    <3>1. \A j \in 1..Len(queue') :
            /\ j + 1 \in 1..Len(queue) /\ queue'[j] = queue[j + 1] /\ queue[1] < queue[j + 1]
      BY ONLY <1>1, <1>10 DEF Ascending
    <3>2. ASSUME NEW i \in 1..Len(buffer'), NEW j \in 1..Len(queue')
          PROVE  buffer'[i] < queue'[j]
      <4>1. i \in 1..Len(buffer) \/ i = Len(buffer) + 1
        BY ONLY <3>2, <1>3, <1>10
      <4>2. CASE i \in 1..Len(buffer)
        BY ONLY <4>2, <1>3, <1>10, <3>1, <3>2 DEF Before
      <4>3. CASE i = Len(buffer) + 1
        BY ONLY <4>3, <1>3, <3>1, <3>2
      <4> QED
        BY ONLY <4>1, <4>2, <4>3
    <3> QED
      BY ONLY <3>2 DEF Before
  <2> QED
    BY <2>1, <2>2
<1>8. Apart(buffer, batch)'
  <2>1. \A i \in 1..Len(batch) : queue[1] # batch[i]
    <3>1. \A i \in 1..Len(batch) : batch[i] \in Int /\ queue[1] \in Int
      BY <1>1 DEF TypeOK
    <3>2. \A i \in 1..Len(batch) : batch[i] < queue[1]
      BY ONLY <1>1, <1>10 DEF Before
    <3> QED
      BY ONLY <3>1, <3>2
  <2>2. Apart(buffer, batch)
    OBVIOUS
  <2>3. ASSUME NEW i \in 1..Len(buffer'), NEW j \in 1..Len(batch)
        PROVE  buffer'[i] # batch[j]
    <3>1. i \in 1..Len(buffer) \/ i = Len(buffer) + 1
      BY ONLY <2>3, <1>3, <1>10
    <3> QED
      BY ONLY <1>3, <2>1, <2>2, <2>3, <3>1 DEF Apart
  <2> QED
    BY ONLY <1>10, <2>3 DEF Apart
<1>9. ASSUME NEW e \in Events, fate[e] = "held"
      PROVE  Contains(queue, e)' \/ Contains(buffer, e)' \/ Contains(batch, e)'
  <2>1. CASE Contains(queue, e)
    <3>1. PICK i \in 1..Len(queue) : queue[i] = e
      BY <2>1 DEF Contains
    <3>2. CASE i = 1
      BY <1>3, <3>1, <3>2 DEF Contains
    <3>3. CASE i > 1
      <4>1. i - 1 \in 1..Len(queue') /\ queue'[i - 1] = e
        BY <1>1, <3>1, <3>3
      <4> QED
        BY <4>1 DEF Contains
    <3> QED
      BY <3>1, <3>2, <3>3
  <2>2. CASE Contains(buffer, e)
    BY <1>3, <2>2 DEF Contains
  <2> QED
    BY <1>9, <2>1, <2>2 DEF Contains
<1> QED
  BY <1>3, <1>4, <1>5, <1>6, <1>7, <1>8, <1>9

\* Close takes the oldest event of the channel.
LEMMA DeliveryFlushTakes == TypeOK /\ DeliveryInv /\ FlushTakes => DeliveryInv'
<1> SUFFICES ASSUME TypeOK, DeliveryInv, FlushTakes PROVE DeliveryInv'
  OBVIOUS
<1> USE Elements DEF DeliveryInv, FlushTakes
<1>1. /\ Len(queue) >= 1 /\ Len(queue') = Len(queue) - 1 /\ Head(queue) = queue[1]
      /\ \A i \in 1..Len(queue') : queue'[i] = queue[i + 1]
      /\ Head(queue) \in Events
  BY TailParts DEF TypeOK
<1>2. /\ Len(batch') = Len(batch) + 1 /\ batch'[Len(batch) + 1] = queue[1]
      /\ \A i \in 1..Len(batch) : batch'[i] = batch[i]
  <2>1. batch \in Seq(Events) /\ batch' = Append(batch, Head(queue))
    BY DEF TypeOK
  <2> QED
    BY ONLY <1>1, <2>1, AppendParts
<1>3. AllHeld(queue)' /\ AllHeld(buffer)' /\ AllHeld(batch)'
  BY <1>1, <1>2 DEF AllHeld
<1>4. Ascending(queue)' /\ Ascending(buffer)'
  BY <1>1 DEF Ascending
<1>5. Ascending(batch)'
  <2>1. Ascending(batch) /\ Before(batch, queue) /\ Len(queue) \in Nat /\ Len(batch) \in Nat
    OBVIOUS
  <2>2. \A i \in 1..Len(batch) : batch[i] < queue[1]
    BY ONLY <1>1, <2>1 DEF Before
  <2>3. ASSUME NEW i \in 1..Len(batch'), NEW j \in 1..Len(batch'), i < j
        PROVE  batch'[i] < batch'[j]
    <3>1. i \in 1..Len(batch) /\ (j \in 1..Len(batch) \/ j = Len(batch) + 1)
      BY ONLY <2>1, <2>3, <1>2
    <3> QED
      BY ONLY <1>2, <2>1, <2>2, <2>3, <3>1 DEF Ascending
  <2> QED
    BY ONLY <2>3 DEF Ascending
<1>6. Before(buffer, queue)' /\ Before(batch, queue)'
  BY SMTT(30), <1>1, <1>2 DEF Before, Ascending
<1>7. Apart(buffer, batch)'
  BY <1>1, <1>2 DEF Apart, Before
<1>8. ASSUME NEW e \in Events, fate[e] = "held"
      PROVE  Contains(queue, e)' \/ Contains(buffer, e)' \/ Contains(batch, e)'
  <2>1. CASE Contains(queue, e)
    <3>1. PICK i \in 1..Len(queue) : queue[i] = e
      BY <2>1 DEF Contains
    <3>2. CASE i = 1
      BY <1>2, <3>1, <3>2 DEF Contains
    <3>3. CASE i > 1
      <4>1. i - 1 \in 1..Len(queue') /\ queue'[i - 1] = e
        BY <1>1, <3>1, <3>3
      <4> QED
        BY <4>1 DEF Contains
    <3> QED
      BY <3>1, <3>2, <3>3
  <2>2. CASE Contains(batch, e)
    BY <1>2, <2>2 DEF Contains
  <2> QED
    BY <1>8, <2>1, <2>2 DEF Contains
<1> QED
  BY <1>3, <1>4, <1>5, <1>6, <1>7, <1>8

\* The request of the loop's batch ends, well or not.
LEMMA DeliverySent ==
    ASSUME TypeOK, DeliveryInv, NEW what \in {"stored", "lost"}, Fated(buffer, what),
           buffer' = <<>>, loop' \in {"select", "done"},
           UNCHANGED <<queue, batch, reported, closer>>
    PROVE  DeliveryInv'
<1> USE Elements DEF DeliveryInv
<1>1. Len(buffer') = 0
  OBVIOUS
<1>2. \A e \in Events :
        /\ Contains(buffer, e) => fate'[e] = what
        /\ ~Contains(buffer, e) => fate'[e] = fate[e]
  BY DEF Fated
<1>3. AllHeld(queue)'
  <2>1. \A i \in 1..Len(queue) : ~Contains(buffer, queue[i])
    BY DEF Before, Contains
  <2> QED
    BY <1>2, <2>1 DEF AllHeld
<1>4. AllHeld(batch)'
  <2>1. \A i \in 1..Len(batch) : ~Contains(buffer, batch[i])
    BY DEF Apart, Contains
  <2> QED
    BY <1>2, <2>1 DEF AllHeld
<1>5. /\ AllHeld(buffer)' /\ Ascending(queue)' /\ Ascending(buffer)' /\ Ascending(batch)'
      /\ Before(buffer, queue)' /\ Before(batch, queue)' /\ Apart(buffer, batch)'
  BY <1>1 DEF AllHeld, Ascending, Before, Apart
<1>6. \A e \in Events :
        fate'[e] = "held" => Contains(queue, e)' \/ Contains(buffer, e)' \/ Contains(batch, e)'
  BY <1>2 DEF Contains
<1>7. \A e \in Events : e > reported => fate'[e] = "unreported"
  BY <1>2 DEF AllHeld, Contains
<1> QED
  BY <1>3, <1>4, <1>5, <1>6, <1>7

\* The request of Close's batch ends, well or not.
LEMMA DeliveryFlushed ==
    ASSUME TypeOK, DeliveryInv, NEW what \in {"stored", "lost"}, Fated(batch, what),
           batch' = <<>>, closer' = "wait", UNCHANGED <<queue, buffer, reported, loop>>
    PROVE  DeliveryInv'
<1> USE Elements DEF DeliveryInv
<1>1. Len(batch') = 0
  OBVIOUS
<1>2. \A e \in Events :
        /\ Contains(batch, e) => fate'[e] = what
        /\ ~Contains(batch, e) => fate'[e] = fate[e]
  BY DEF Fated
<1>3. AllHeld(queue)'
  <2>1. \A i \in 1..Len(queue) : ~Contains(batch, queue[i])
    BY DEF Before, Contains
  <2> QED
    BY <1>2, <2>1 DEF AllHeld
<1>4. AllHeld(buffer)'
  <2>1. \A i \in 1..Len(buffer) : ~Contains(batch, buffer[i])
    BY DEF Apart, Contains
  <2> QED
    BY <1>2, <2>1 DEF AllHeld
<1>5. /\ AllHeld(batch)' /\ Ascending(queue)' /\ Ascending(buffer)' /\ Ascending(batch)'
      /\ Before(buffer, queue)' /\ Before(batch, queue)' /\ Apart(buffer, batch)'
  BY <1>1 DEF AllHeld, Ascending, Before, Apart
<1>6. \A e \in Events :
        fate'[e] = "held" => Contains(queue, e)' \/ Contains(buffer, e)' \/ Contains(batch, e)'
  BY <1>2 DEF Contains
<1>7. \A e \in Events : e > reported => fate'[e] = "unreported"
  BY <1>2 DEF AllHeld, Contains
<1> QED
  BY <1>3, <1>4, <1>5, <1>6, <1>7

LEMMA DeliveryStep == TypeOK /\ DeliveryInv /\ [Next]_vars => DeliveryInv'
<1> SUFFICES ASSUME TypeOK, DeliveryInv, [Next]_vars PROVE DeliveryInv'
  OBVIOUS
<1>1. CASE AgentReport \/ CloseReports
  BY <1>1, DeliveryReport DEF AgentReport, CloseReports, DeliveryInv
<1>2. CASE Collect \/ Drain
  <2>1. /\ queue # <<>> /\ queue' = Tail(queue) /\ buffer' = Append(buffer, Head(queue))
        /\ UNCHANGED <<batch, fate, reported, closer>>
    BY <1>2 DEF Collect, Drain
  <2> QED
    BY <2>1, DeliveryTaken
<1>3. CASE FlushTakes
  BY <1>3, DeliveryFlushTakes
<1>4. CASE SendEnds \/ LastSendEnds
  <2>1. PICK what \in {"stored", "lost"} : Fated(buffer, what)
    BY <1>4 DEF SendEnds, LastSendEnds, Outcome
  <2> QED
    BY <1>4, <2>1, DeliverySent DEF SendEnds, LastSendEnds, AfterSend
<1>5. CASE FlushEnds
  <2>1. PICK what \in {"stored", "lost"} : Fated(batch, what)
    BY <1>5 DEF FlushEnds, Outcome
  <2> QED
    BY <1>5, <2>1, DeliveryFlushed DEF FlushEnds
<1>6. CASE TickerFires \/ SeeCancel \/ Drained \/ Heartbeat \/ Signal \/ CloseCancels
           \/ FlushSends \/ CloseReturns \/ UNCHANGED vars
  <2>1. /\ UNCHANGED <<queue, buffer, batch, fate, reported>>
        /\ loop' \in {"send", "refused", "lastSend"} => buffer # <<>>
        /\ closer' = "send" => batch # <<>>
    BY <1>6
    DEF TickerFires, StartSend, SeeCancel, Drained, DrainedTo, Heartbeat, HeartbeatFires,
        HeartbeatSent, HeartbeatStops, Beat, Signal, CloseCancels, FlushSends, CloseReturns,
        vars, DeliveryInv
  <2> QED
    BY <2>1 DEF DeliveryInv, AllHeld, Ascending, Before, Apart, Contains
<1> QED
  BY <1>1, <1>2, <1>3, <1>4, <1>5, <1>6 DEF Next, FlushLoop, Close

LEMMA DeliveryInit == Init => DeliveryInv
<1> SUFFICES ASSUME Init PROVE DeliveryInv
  OBVIOUS
<1>1. Len(queue) = 0 /\ Len(buffer) = 0 /\ Len(batch) = 0
  BY DEF Init
<1>2. \A e \in Events : fate[e] = "unreported"
  BY DEF Init
<1> QED
  BY <1>1, <1>2 DEF Init, DeliveryInv, AllHeld, Ascending, Before, Apart, Contains

LEMMA DeliveryAlways == Spec => [](TypeOK /\ DeliveryInv)
BY DeliveryInit, DeliveryStep, ReporterTypeCorrect, PTL DEF Spec

-----------------------------------------------------------------------------
(* The results.                                                            *)

\* Every event on its way is in one place, once.
THEOREM EventsAreHeldOnce == Spec => []HeldOnce
<1>1. ASSUME TypeOK, DeliveryInv PROVE HeldOnce
  <2> SUFFICES ASSUME NEW e \in Events
               PROVE  IF fate[e] = "held" THEN \E place \in Places(e) : Places(e) = {place}
                                          ELSE Places(e) = {}
    BY DEF HeldOnce
  <2> DEFINE At(s, name) == {<<name, i>> : i \in {i \in DOMAIN s : s[i] = e}}
  <2>1. Places(e) = At(queue, "queue") \cup At(buffer, "buffer") \cup At(batch, "batch")
    BY DEF Places
  <2>2. /\ DOMAIN queue = 1..Len(queue) /\ DOMAIN buffer = 1..Len(buffer)
        /\ DOMAIN batch = 1..Len(batch)
        /\ Len(queue) \in Nat /\ Len(buffer) \in Nat /\ Len(batch) \in Nat
    BY <1>1 DEF TypeOK
  <2>3. CASE fate[e] # "held"
    <3>1. At(queue, "queue") = {} /\ At(buffer, "buffer") = {} /\ At(batch, "batch") = {}
      BY <1>1, <2>2, <2>3 DEF DeliveryInv, AllHeld
    <3> QED
      BY <2>1, <2>3, <3>1
  <2>4. ASSUME NEW i \in 1..Len(queue), queue[i] = e
        PROVE  Places(e) = {<<"queue", i>>}
    <3>1. /\ \A j \in 1..Len(queue) : queue[j] = e => j = i
          /\ \A j \in 1..Len(buffer) : buffer[j] # e
          /\ \A j \in 1..Len(batch) : batch[j] # e
      BY <1>1, <2>2, <2>4, Elements DEF DeliveryInv, Ascending, Before
    <3>2. At(queue, "queue") = {<<"queue", i>>} /\ At(buffer, "buffer") = {} /\ At(batch, "batch") = {}
      BY <2>2, <2>4, <3>1
    <3> QED
      BY <2>1, <3>2
  <2>5. ASSUME NEW i \in 1..Len(buffer), buffer[i] = e
        PROVE  Places(e) = {<<"buffer", i>>}
    <3>1. /\ \A j \in 1..Len(buffer) : buffer[j] = e => j = i
          /\ \A j \in 1..Len(queue) : queue[j] # e
          /\ \A j \in 1..Len(batch) : batch[j] # e
      BY <1>1, <2>2, <2>5, Elements DEF DeliveryInv, Ascending, Before, Apart
    <3>2. At(buffer, "buffer") = {<<"buffer", i>>} /\ At(queue, "queue") = {} /\ At(batch, "batch") = {}
      BY <2>2, <2>5, <3>1
    <3> QED
      BY <2>1, <3>2
  <2>6. ASSUME NEW i \in 1..Len(batch), batch[i] = e
        PROVE  Places(e) = {<<"batch", i>>}
    <3>1. /\ \A j \in 1..Len(batch) : batch[j] = e => j = i
          /\ \A j \in 1..Len(queue) : queue[j] # e
          /\ \A j \in 1..Len(buffer) : buffer[j] # e
      BY <1>1, <2>2, <2>6, Elements DEF DeliveryInv, Ascending, Before, Apart
    <3>2. At(batch, "batch") = {<<"batch", i>>} /\ At(queue, "queue") = {} /\ At(buffer, "buffer") = {}
      BY <2>2, <2>6, <3>1
    <3> QED
      BY <2>1, <3>2
  <2>7. CASE fate[e] = "held"
    <3>1. Contains(queue, e) \/ Contains(buffer, e) \/ Contains(batch, e)
      BY <1>1, <2>7 DEF DeliveryInv
    <3>2. \E place \in Places(e) : Places(e) = {place}
      BY <2>4, <2>5, <2>6, <3>1 DEF Contains
    <3> QED
      BY <2>7, <3>2
  <2> QED
    BY <2>3, <2>7
<1> QED
  BY <1>1, DeliveryAlways, PTL

\* The Reporter implements the abstract fire-and-forget client.
THEOREM ReporterImplementsDelivery == Spec => DeliveredOnce
<1>1. Init => Delivery!Init
  BY DEF Init, Delivery!Init
<1>2. TypeOK /\ DeliveryInv /\ [Next]_vars => [Delivery!Next]_fate
  <2> SUFFICES ASSUME TypeOK, DeliveryInv, [Next]_vars, fate' # fate PROVE Delivery!Next
    OBVIOUS
  <2>1. ASSUME Report PROVE Delivery!Next
    <3> DEFINE e == reported + 1
    <3>1. e \in Events /\ fate[e] = "unreported"
      BY <2>1, Elements, ReporterConstants DEF Report, Events, DeliveryInv
    <3>2. PICK what \in {"held", "dropped"} : fate' = [fate EXCEPT ![e] = what]
      BY <2>1 DEF Report
    <3> HIDE DEF e
    <3>3. fate' = [f \in Events |-> IF f \in {e} THEN what ELSE fate[f]]
      BY <3>1, <3>2 DEF TypeOK
    <3>4. Delivery!Become({e}, "unreported", what)
      BY <3>1, <3>3 DEF Delivery!Become
    <3> QED
      BY <3>1, <3>2, <3>4 DEF Delivery!Next
  <2>2. ASSUME NEW s \in {buffer, batch}, s # <<>>, NEW what \in {"stored", "lost"}, Fated(s, what)
        PROVE  Delivery!Next
    <3> DEFINE S == {e \in Events : Contains(s, e)}
    <3>1. \A e \in S : fate[e] = "held"
      BY <2>2 DEF DeliveryInv, AllHeld, Contains
    <3>2. S # {}
      <4>1. s \in Seq(Events) /\ s[1] \in Events /\ 1 \in 1..Len(s)
        BY <2>2 DEF TypeOK
      <4> QED
        BY <4>1 DEF Contains
    <3>3. fate' = [f \in Events |-> IF f \in S THEN what ELSE fate[f]]
      BY <2>2 DEF Fated
    <3>4. Delivery!Become(S, "held", what)
      BY <3>1, <3>2, <3>3 DEF Delivery!Become
    <3>5. S \in SUBSET Events
      OBVIOUS
    <3> QED
      BY <2>2, <3>4, <3>5 DEF Delivery!Next
  <2>3. CASE SendEnds \/ LastSendEnds
    <3>1. buffer # <<>>
      BY <2>3 DEF SendEnds, LastSendEnds, DeliveryInv
    <3>2. \E what \in {"stored", "lost"} : Fated(buffer, what)
      BY <2>3 DEF SendEnds, LastSendEnds, Outcome
    <3> QED
      BY <2>2, <3>1, <3>2
  <2>4. CASE FlushEnds
    <3>1. batch # <<>>
      BY <2>4 DEF FlushEnds, DeliveryInv
    <3>2. \E what \in {"stored", "lost"} : Fated(batch, what)
      BY <2>4 DEF FlushEnds, Outcome
    <3> QED
      BY <2>2, <3>1, <3>2
  <2> QED
    BY <2>1, <2>3, <2>4
    DEF Next, AgentReport, FlushLoop, Close, CloseReports, Collect, TickerFires, SeeCancel, Drain,
        Drained, Heartbeat, HeartbeatFires, HeartbeatSent, HeartbeatStops, Beat, Signal,
        CloseCancels, FlushTakes, FlushSends, CloseReturns, vars
<1> QED
  BY <1>1, <1>2, DeliveryAlways, PTL DEF Spec, DeliveredOnce, Delivery!Spec

\* While the reporter is open only the loop takes events, and what the control
\* plane has is older than what is on its way.
OrderInv ==
    /\ loop \in {"refused", "drain", "lastSend", "done"} \/ closer # "open" => cancelled
    /\ ~cancelled => \A e \in Events : fate[e] = "stored" =>
         /\ \A i \in 1..Len(buffer) : e < buffer[i]
         /\ \A i \in 1..Len(queue) : e < queue[i]

\* A send by the loop while the reporter is open stores younger events only.
LEMMA SendInOrder ==
    ASSUME TypeOK, DeliveryInv, OrderInv, ~cancelled, Next,
           NEW e \in Events, NEW f \in Events,
           fate[f] # "stored", fate'[f] = "stored"
    PROVE  /\ loop = "send" /\ Contains(buffer, f) /\ buffer' = <<>> /\ queue' = queue
           /\ fate[e] = "stored" => e < f
<1>1. Report => FALSE
  BY Elements DEF Report
<1>2. SendEnds /\ loop = "send"
  BY <1>1
  DEF Next, AgentReport, FlushLoop, Close, CloseReports, Collect, TickerFires, SeeCancel, Drain,
      Drained, Heartbeat, HeartbeatFires, HeartbeatSent, HeartbeatStops, Beat, Signal,
      CloseCancels, FlushTakes, FlushSends, CloseReturns, OrderInv, LastSendEnds, FlushEnds,
      SendEnds
<1>3. Contains(buffer, f)
  BY <1>2 DEF SendEnds, Outcome, Fated
<1> QED
  BY <1>2, <1>3 DEF SendEnds, AfterSend, OrderInv, Contains

LEMMA OrderStep == TypeOK /\ DeliveryInv /\ OrderInv /\ [Next]_vars => OrderInv'
<1> SUFFICES ASSUME TypeOK, DeliveryInv, OrderInv, [Next]_vars PROVE OrderInv'
  OBVIOUS
<1>0. CASE UNCHANGED vars
  BY <1>0 DEF vars, OrderInv
<1>1. CASE cancelled'
  BY <1>1 DEF OrderInv
<1> SUFFICES ASSUME Next, ~cancelled' PROVE OrderInv'
  BY <1>0, <1>1
<1>2. ~cancelled /\ closer = "open" /\ closer' = "open" /\ (loop' # loop => loop' \in {"select", "send"})
  BY DEF OrderInv, Next, AgentReport, Report, FlushLoop, Close, CloseReports, Collect, StartSend,
         TickerFires, SeeCancel, Drain, Drained, Heartbeat, HeartbeatFires, HeartbeatSent,
         HeartbeatStops, Beat, Signal, CloseCancels, FlushTakes, FlushSends, FlushEnds,
         CloseReturns, SendEnds, LastSendEnds
<1>3. ASSUME NEW e \in Events, fate'[e] = "stored"
      PROVE  /\ \A i \in 1..Len(buffer') : e < buffer'[i]
             /\ \A i \in 1..Len(queue') : e < queue'[i]
  <2>1. CASE fate[e] # "stored"
    <3>1. /\ loop = "send" /\ Contains(buffer, e) /\ buffer' = <<>> /\ queue' = queue
      BY <1>2, <1>3, <2>1, SendInOrder
    <3>2. Before(buffer, queue)
      BY DEF DeliveryInv
    <3> QED
      BY <3>1, <3>2 DEF Before, Contains
  <2>2. CASE fate[e] = "stored"
    <3>0. /\ \A i \in 1..Len(buffer) : e < buffer[i]
          /\ \A i \in 1..Len(queue) : e < queue[i]
      BY <1>2, <2>2 DEF OrderInv
    <3>1. CASE AgentReport
      <4>1. e <= reported /\ reported + 1 \in Events /\ e \in Int
        <5>1. e \in Int /\ reported \in Nat /\ ~(e > reported)
          BY <2>2, Elements DEF DeliveryInv
        <5>2. reported < MaxEvents
          BY <3>1 DEF AgentReport, Report
        <5> QED
          BY ONLY <5>1, <5>2, ReporterConstants DEF Events
      <4>2. queue' = queue \/ queue' = Append(queue, reported + 1)
        BY <3>1 DEF AgentReport, Report
      <4>3. \A i \in 1..Len(queue') : e < queue'[i]
        <5>1. CASE queue' = queue
          BY <3>0, <5>1
        <5>2. CASE queue' = Append(queue, reported + 1)
          <6>1. queue \in Seq(Events) /\ reported \in Nat
            BY Elements DEF TypeOK
          <6>2. /\ Len(queue) \in Nat /\ Len(queue') = Len(queue) + 1
                /\ \A i \in 1..Len(queue) : queue'[i] = queue[i]
                /\ queue'[Len(queue) + 1] = reported + 1
            BY ONLY <6>1, <4>1, <5>2, AppendParts
          <6> QED
            BY ONLY <3>0, <4>1, <6>1, <6>2
        <5> QED
          BY <4>2, <5>1, <5>2
      <4> QED
        BY <3>0, <3>1, <4>3 DEF AgentReport, Report
    <3>2. CASE Collect
      <4>1. /\ queue \in Seq(Events) /\ queue # <<>> /\ buffer \in Seq(Events)
            /\ queue' = Tail(queue) /\ buffer' = Append(buffer, Head(queue))
        BY <3>2 DEF Collect, TypeOK
      <4>2. /\ Head(queue) \in Events /\ Head(queue) = queue[1]
            /\ Len(queue) \in Nat /\ Len(queue) >= 1 /\ Len(queue') = Len(queue) - 1
            /\ \A i \in 1..Len(queue') : queue'[i] = queue[i + 1]
        BY ONLY <4>1, TailParts
      <4>3. /\ Len(buffer) \in Nat /\ Len(buffer') = Len(buffer) + 1
            /\ \A i \in 1..Len(buffer) : buffer'[i] = buffer[i]
            /\ buffer'[Len(buffer) + 1] = queue[1]
        BY ONLY <4>1, <4>2, AppendParts
      <4>4. \A i \in 1..Len(queue') : e < queue'[i]
        BY ONLY <3>0, <4>2
      <4>5. e < queue[1]
        BY ONLY <3>0, <4>2
      <4>6. \A i \in 1..Len(buffer') : e < buffer'[i]
        BY ONLY <3>0, <4>3, <4>5
      <4> QED
        BY <4>4, <4>6
    <3>3. CASE SendEnds
      BY <3>0, <3>3 DEF SendEnds, AfterSend
    <3>4. CASE TickerFires \/ SeeCancel \/ Drained \/ Heartbeat \/ Signal
      BY <3>0, <3>4
      DEF TickerFires, SeeCancel, Drained, Heartbeat, HeartbeatFires, HeartbeatSent,
          HeartbeatStops, Beat, Signal
    <3> QED
      BY <1>2, <3>1, <3>2, <3>3, <3>4
      DEF Next, FlushLoop, Close, CloseReports, CloseCancels, FlushTakes, FlushSends, FlushEnds,
          CloseReturns, Drain, LastSendEnds, OrderInv
  <2> QED
    BY <2>1, <2>2
<1> QED
  BY <1>2, <1>3 DEF OrderInv

\* Until Close the control plane stores events in the order of their reports.
THEOREM EventsAreStoredInOrder == Spec => InOrder
<1>1. Init => OrderInv
  BY DEF Init, OrderInv
<1>2. TypeOK /\ DeliveryInv /\ OrderInv /\ [Next]_vars =>
        [~cancelled => \A e, f \in Events :
            (fate[e] = "stored" /\ fate[f] # "stored" /\ fate'[f] = "stored") => e < f]_vars
  BY SendInOrder
<1> QED
  BY <1>1, <1>2, OrderStep, DeliveryAlways, PTL DEF Spec, InOrder

-----------------------------------------------------------------------------
(* Memory.                                                                 *)

\* While the reporter is open the loop is only in select with room for one more
\* event in its buffer: a full buffer is sent before anything else.
MemInv ==
    ~cancelled => /\ Len(queue) <= BufferSize /\ Len(buffer) <= BufferSize
                  /\ loop = "select" => Len(buffer) < BufferSize

LEMMA MemStep == TypeOK /\ OrderInv /\ MemInv /\ [Next]_vars => MemInv'
<1> SUFFICES ASSUME TypeOK, OrderInv, MemInv, [Next]_vars, ~cancelled' PROVE MemInv'
  BY DEF MemInv
<1>0. /\ queue \in Seq(Events) /\ buffer \in Seq(Events) /\ BufferSize \in Nat \ {0}
      /\ Len(queue) \in Nat /\ Len(buffer) \in Nat
  BY ReporterConstants DEF TypeOK
<1>1. CASE UNCHANGED vars
  BY <1>1 DEF vars, MemInv
<1>2. ~cancelled
  BY DEF Next, AgentReport, Report, FlushLoop, Close, CloseReports, Collect, TickerFires, SeeCancel,
         Drain, Drained, Heartbeat, HeartbeatFires, HeartbeatSent, HeartbeatStops, Beat, Signal,
         CloseCancels, FlushTakes, FlushSends, FlushEnds, CloseReturns, SendEnds, LastSendEnds, vars
<1>3. closer = "open" /\ loop \in {"select", "send"}
  BY <1>2 DEF OrderInv, TypeOK
<1>4. CASE AgentReport
  <2>1. queue' = queue \/ (Len(queue) < BufferSize /\ queue' = Append(queue, reported + 1))
    BY <1>4 DEF AgentReport, Report, HasRoom
  <2>2. Len(Append(queue, reported + 1)) = Len(queue) + 1
    BY <1>0
  <2>3. Len(queue') <= BufferSize
    BY <1>0, <1>2, <2>1, <2>2 DEF MemInv
  <2> QED
    BY <1>2, <1>4, <2>3 DEF AgentReport, Report, MemInv
<1>5. CASE Collect
  <2>1. /\ queue # <<>> /\ queue' = Tail(queue) /\ buffer' = Append(buffer, Head(queue))
        /\ loop = "select" /\ (Len(buffer') < BufferSize \/ loop' # "select")
    BY <1>0, <1>5 DEF Collect, Full, StartSend
  <2>2. Len(Tail(queue)) <= Len(queue) /\ Len(Append(buffer, Head(queue))) = Len(buffer) + 1
    BY <1>0, <2>1
  <2>3. Len(queue) <= BufferSize /\ Len(buffer) < BufferSize
    BY <1>2, <2>1 DEF MemInv
  <2>4. Len(queue') <= BufferSize /\ Len(buffer') <= BufferSize
    BY <1>0, <2>1, <2>2, <2>3
  <2> QED
    BY <2>1, <2>4 DEF MemInv
<1>6. CASE SendEnds
  <2>1. queue' = queue /\ buffer' = <<>> /\ Len(<<>>) = 0
    BY <1>6 DEF SendEnds, AfterSend
  <2> QED
    BY <1>0, <1>2, <2>1 DEF MemInv
<1>7. CASE TickerFires \/ Heartbeat \/ Signal
  BY <1>2, <1>7
  DEF TickerFires, StartSend, Heartbeat, HeartbeatFires, HeartbeatSent, HeartbeatStops, Beat, Signal,
      MemInv
<1> QED
  BY <1>1, <1>2, <1>3, <1>4, <1>5, <1>6, <1>7
  DEF Next, FlushLoop, Close, CloseReports, CloseCancels, FlushTakes, FlushSends, FlushEnds,
      CloseReturns, SeeCancel, Drain, Drained, LastSendEnds

\* An agent that reports faster than the control plane answers never holds more
\* than two buffers of events, whatever the size of the buffer.
THEOREM MemoryIsBounded == Spec => []MemoryBound
<1>1. Init => OrderInv /\ MemInv
  BY ReporterConstants DEF Init, OrderInv, MemInv
<1>2. MemInv => MemoryBound
  BY DEF MemInv, MemoryBound
<1> QED
  BY <1>1, <1>2, OrderStep, MemStep, DeliveryAlways, PTL DEF Spec
=============================================================================
