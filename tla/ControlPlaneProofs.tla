------------------------- MODULE ControlPlaneProofs -------------------------
(***************************************************************************)
(* What the control plane guarantees to the clients of its websocket, to   *)
(* the operator of its tunnel, and to those who make API keys and accept   *)
(* invitations, for any number of them.                                    *)
(***************************************************************************)
EXTENDS Hub, Tunnel, Fleet, Tenancy, SequenceTheorems, FiniteSetTheorems, TLAPS

-----------------------------------------------------------------------------
(* The websocket hub.                                                      *)

Numbers == {0} \cup Messages

HubTypeOK ==
    /\ hub \subseteq Clients /\ closed \subseteq Clients /\ overflowed \subseteq Clients
    /\ channel \in [Clients -> Seq(Numbers)]
    /\ written \in [Clients -> Seq(Numbers)]
    /\ handler \in [Clients -> {"none", "read", "done"}]
    /\ conn \in [Clients -> {"none", "open", "gone"}]
    /\ pump \in [Clients -> {"none", "select", "done"}]
    /\ request \in [Messages -> {"none", "range", "done", "recovered"}]
    /\ visited \in [Messages -> SUBSET Clients] /\ due \in [Messages -> SUBSET Clients]
    /\ remover \subseteq [by : Messages, of : Clients, at : {"unregister", "close"}]

\* Every step of the hub keeps the variables within their types.
LEMMA HubTypes == HubTypeOK /\ [HubNext]_hubVars => HubTypeOK'
<1> SUFFICES ASSUME HubTypeOK, [HubNext]_hubVars PROVE HubTypeOK' OBVIOUS
<1> USE DEF HubTypeOK
<1>1. CASE UNCHANGED hubVars BY <1>1 DEF hubVars
<1>2. ASSUME NEW c \in Clients, Connect(c) \/ Disconnect(c) \/ HandlerEnds(c) PROVE HubTypeOK'
  <2>1. CASE Connect(c)
    <3>1. hub' = hub \cup {c} BY <2>1 DEF Connect, WriteMap
    <3> QED BY <2>1, <3>1 DEF Connect
  <2>2. CASE Disconnect(c) BY <2>2 DEF Disconnect
  <2>3. CASE HandlerEnds(c)
    <3>1. hub' = hub \ {c} BY <2>3 DEF HandlerEnds, WriteMap, Without
    <3> QED BY <2>3, <3>1 DEF HandlerEnds
  <2> QED BY <1>2, <2>1, <2>2, <2>3
<1>3. ASSUME NEW c \in Clients, PumpWrites(c) PROVE HubTypeOK'
  <2>1. channel[c] \in Seq(Numbers) /\ channel[c] # <<>> /\ written[c] \in Seq(Numbers)
    BY <1>3 DEF PumpWrites
  <2>2. Head(channel[c]) \in Numbers /\ Tail(channel[c]) \in Seq(Numbers) BY <2>1
  <2>3. Append(written[c], Head(channel[c])) \in Seq(Numbers) BY <2>1, <2>2
  <2>4. channel' \in [Clients -> Seq(Numbers)] BY <1>3, <2>2 DEF PumpWrites
  <2>5. written' \in [Clients -> Seq(Numbers)] BY <1>3, <2>3 DEF PumpWrites
  <2>6. pump' \in [Clients -> {"none", "select", "done"}] BY ZenonT(60), <1>3 DEF PumpWrites
  <2> QED BY <1>3, <2>4, <2>5, <2>6 DEF PumpWrites
<1>4. ASSUME NEW c \in Clients, PumpEnds(c) PROVE HubTypeOK'
    BY <1>4 DEF PumpEnds
<1>5. ASSUME NEW m \in Messages, BroadcastBegins(m) \/ BroadcastEnds(m) PROVE HubTypeOK'
    BY <1>5 DEF BroadcastBegins, BroadcastEnds
<1>6. ASSUME NEW m \in Messages, NEW c \in Clients, BroadcastSends(m, c) PROVE HubTypeOK'
  <2>1. Append(channel[c], m) \in Seq(Numbers) BY DEF Numbers
  <2>2. channel' \in [Clients -> Seq(Numbers)] BY <1>6, <2>1 DEF BroadcastSends
  <2>3. visited' \in [Messages -> SUBSET Clients] BY <1>6 DEF BroadcastSends
  <2>4. remover' \subseteq [by : Messages, of : Clients, at : {"unregister", "close"}]
      BY <1>6 DEF BroadcastSends
  <2> QED BY <1>6, <2>2, <2>3, <2>4 DEF BroadcastSends
<1>7. ASSUME NEW r \in remover, RemoverUnregisters(r) \/ RemoverCloses(r) PROVE HubTypeOK'
  <2>1. r \in [by : Messages, of : Clients, at : {"unregister", "close"}] OBVIOUS
  <2>2. [r EXCEPT !.at = "close"] \in [by : Messages, of : Clients, at : {"unregister", "close"}]
      BY <2>1
  <2>3. r.of \in Clients BY <2>1
  <2> QED BY ZenonT(60), <1>7, <2>2, <2>3 DEF RemoverUnregisters, RemoverCloses, WriteMap, Without
<1> QED BY <1>1, <1>2, <1>3, <1>4, <1>5, <1>6, <1>7 DEF HubNext, ServeClient

-----------------------------------------------------------------------------
Served(c) == conn[c] = "open" /\ pump[c] = "select" /\ c \notin overflowed

\* A client that has not connected is known to no broadcast.
Unknown ==
    \A c \in Clients : handler[c] = "none" =>
        /\ c \notin hub /\ \A m \in Messages : c \notin visited[m] /\ c \notin due[m]
        /\ channel[c] = <<>> /\ written[c] = <<>>

\* A client whose connection is open is registered, or was too slow.
Registered ==
    \A c \in Clients :
        /\ conn[c] = "open" => handler[c] = "read" /\ c \in hub \cup overflowed
        /\ Len(channel[c]) <= SendBufLen
OnlySlow ==
    /\ closed \subseteq overflowed
    /\ \A r \in remover : r.of \in overflowed

\* What a stream holds was sent to the client.
Sent ==
    \A c \in Clients, m \in Messages :
        Contains(Stream(c), m) => request[m] \in {"done", "recovered"} \/ c \in visited[m]

\* What the iteration of a broadcast has sent to a client is in its stream.
Complete ==
    \A c \in Clients : Served(c) =>
        /\ IsInjective(Stream(c))
        /\ \A m \in Messages :
              c \in visited[m] \/ (request[m] = "done" /\ c \in due[m]) => Contains(Stream(c), m)

\* Every broadcast that was begun is under way or over.
Begun == \A m \in Messages : due[m] # {} => request[m] # "none"

\* A broadcast that panicked reached the channel it panicked on.
Panics == \A m \in Messages : request[m] = "recovered" => Panicked(m)

\* Closed channels stay closed, and are those of clients that were too slow.
LEMMA PanicsStep ==
    HubTypeOK /\ OnlySlow /\ Begun /\ Panics /\ [HubNext]_hubVars => Begun' /\ Panics'
<1> SUFFICES ASSUME HubTypeOK, OnlySlow, Begun, Panics, [HubNext]_hubVars PROVE Begun' /\ Panics'
    OBVIOUS
<1> USE DEF HubTypeOK, OnlySlow, Begun, Panics, Panicked
<1>1. CASE UNCHANGED hubVars BY <1>1 DEF hubVars
<1>2. ASSUME NEW c \in Clients, Connect(c) \/ Disconnect(c) \/ ServeClient(c) PROVE Begun' /\ Panics'
    BY <1>2 DEF Connect, Disconnect, ServeClient, HandlerEnds, PumpWrites, PumpEnds
<1>3. ASSUME NEW m \in Messages, BroadcastBegins(m) \/ BroadcastEnds(m) PROVE Begun' /\ Panics'
    BY ZenonT(60), <1>3 DEF BroadcastBegins, BroadcastEnds
<1>4. ASSUME NEW m \in Messages, NEW c \in Clients, BroadcastSends(m, c) PROVE Begun' /\ Panics'
  <2>1. CASE c \in closed BY <1>4, <2>1 DEF BroadcastSends
  <2>2. CASE c \notin closed BY <1>4, <2>2 DEF BroadcastSends
  <2> QED BY <2>1, <2>2
<1>5. ASSUME NEW r \in remover, RemoverUnregisters(r) \/ RemoverCloses(r) PROVE Begun' /\ Panics'
    BY <1>5 DEF RemoverUnregisters, RemoverCloses
<1> QED BY <1>1, <1>2, <1>3, <1>4, <1>5 DEF HubNext

\* A client connects with its first registration, before any message.
LEMMA UnknownStep == HubTypeOK /\ Unknown /\ [HubNext]_hubVars => Unknown'
<1> SUFFICES ASSUME HubTypeOK, Unknown, [HubNext]_hubVars PROVE Unknown' OBVIOUS
<1> USE DEF HubTypeOK, Unknown
<1>1. CASE UNCHANGED hubVars BY <1>1 DEF hubVars
<1>2. ASSUME NEW c \in Clients, Connect(c) \/ Disconnect(c) \/ HandlerEnds(c) PROVE Unknown'
    BY <1>2 DEF Connect, Disconnect, HandlerEnds, WriteMap, Without
<1>3. ASSUME NEW c \in Clients, PumpWrites(c) PROVE Unknown'
    BY <1>3 DEF PumpWrites
<1>4. ASSUME NEW c \in Clients, PumpEnds(c) PROVE Unknown'
    BY <1>4 DEF PumpEnds
<1>5. ASSUME NEW m \in Messages, BroadcastBegins(m) \/ BroadcastEnds(m) PROVE Unknown'
    BY ZenonT(60), <1>5 DEF BroadcastBegins, BroadcastEnds
<1>6. ASSUME NEW m \in Messages, NEW c \in Clients, BroadcastSends(m, c) PROVE Unknown'
    BY <1>6 DEF BroadcastSends
<1>7. ASSUME NEW r \in remover, RemoverUnregisters(r) \/ RemoverCloses(r) PROVE Unknown'
    BY <1>7 DEF RemoverUnregisters, RemoverCloses, WriteMap, Without
<1> QED BY <1>1, <1>2, <1>3, <1>4, <1>5, <1>6, <1>7 DEF HubNext, ServeClient

\* Only a client whose channel is full is unregistered and closed.
LEMMA OnlySlowStep ==
    HubTypeOK /\ Registered /\ OnlySlow /\ [HubNext]_hubVars => OnlySlow'
<1> SUFFICES ASSUME HubTypeOK, Registered, OnlySlow, [HubNext]_hubVars PROVE OnlySlow' OBVIOUS
<1> USE DEF OnlySlow
<1>1. CASE UNCHANGED <<closed, overflowed, remover>> BY <1>1
<1>2. ASSUME NEW c \in Clients, Connect(c) \/ Disconnect(c) \/ ServeClient(c)
      PROVE  UNCHANGED <<closed, overflowed, remover>>
    BY <1>2 DEF Connect, Disconnect, ServeClient, HandlerEnds, PumpWrites, PumpEnds
<1>3. ASSUME NEW m \in Messages, BroadcastBegins(m) \/ BroadcastEnds(m)
      PROVE  UNCHANGED <<closed, overflowed, remover>>
    BY <1>3 DEF BroadcastBegins, BroadcastEnds
<1>4. ASSUME NEW m \in Messages, NEW c \in Clients, BroadcastSends(m, c) PROVE OnlySlow'
  <2>1. Len(channel[c]) \in Nat /\ Len(channel[c]) <= SendBufLen BY DEF HubTypeOK, Registered
  <2>2. Full(c) => Len(channel[c]) = SendBufLen BY <2>1, HubConstants DEF Full
  <2> QED BY <1>4, <2>2 DEF BroadcastSends
<1>5. ASSUME NEW r \in remover, RemoverUnregisters(r) PROVE OnlySlow'
  <2>1. r \in [by : Messages, of : Clients, at : {"unregister", "close"}] BY DEF HubTypeOK
  <2>2. [r EXCEPT !.at = "close"].of = r.of BY <2>1
  <2> QED BY <1>5, <2>2 DEF RemoverUnregisters
<1>6. ASSUME NEW r \in remover, RemoverCloses(r) PROVE OnlySlow'
    BY <1>6 DEF RemoverCloses
<1> QED BY <1>1, <1>2, <1>3, <1>4, <1>5, <1>6 DEF HubNext, hubVars

\* A client stays registered until it disconnects or is too slow.
LEMMA RegisteredStep ==
    HubTypeOK /\ Unknown /\ Registered /\ OnlySlow /\ [HubNext]_hubVars => Registered'
<1> SUFFICES ASSUME HubTypeOK, Unknown, Registered, OnlySlow, [HubNext]_hubVars PROVE Registered'
    OBVIOUS
<1> USE DEF HubTypeOK, Registered
<1>1. CASE UNCHANGED hubVars BY <1>1 DEF hubVars
<1>2. ASSUME NEW c \in Clients, Connect(c) \/ Disconnect(c) \/ HandlerEnds(c) PROVE Registered'
    BY <1>2 DEF Connect, Disconnect, HandlerEnds, WriteMap, Without
<1>3. ASSUME NEW c \in Clients, PumpWrites(c) PROVE Registered'
  <2>1. channel[c] \in Seq(Numbers) /\ channel[c] # <<>> BY <1>3 DEF PumpWrites
  <2>2. Len(Tail(channel[c])) <= SendBufLen BY <2>1, HubConstants
  <2>3. channel'[c] = Tail(channel[c]) /\ \A d \in Clients \ {c} : channel'[d] = channel[d]
      BY <1>3 DEF PumpWrites
  <2> QED BY <1>3, <2>2, <2>3 DEF PumpWrites
<1>4. ASSUME NEW c \in Clients, PumpEnds(c) PROVE Registered'
    BY <1>4 DEF PumpEnds
<1>5. ASSUME NEW m \in Messages, BroadcastBegins(m) \/ BroadcastEnds(m) PROVE Registered'
    BY <1>5 DEF BroadcastBegins, BroadcastEnds
<1>6. ASSUME NEW m \in Messages, NEW c \in Clients, BroadcastSends(m, c) PROVE Registered'
  <2>1. channel[c] \in Seq(Numbers) /\ m \in Numbers BY DEF Numbers
  <2>2. ~Full(c) => Len(Append(channel[c], m)) <= SendBufLen BY <2>1, HubConstants DEF Full
  <2>3. \A d \in Clients \ {c} : channel'[d] = channel[d]
      BY <1>6 DEF BroadcastSends
  <2>4. channel'[c] = channel[c] \/ (~Full(c) /\ channel'[c] = Append(channel[c], m))
      BY <1>6 DEF BroadcastSends
  <2>5. \A d \in Clients : Len(channel'[d]) <= SendBufLen BY <2>2, <2>3, <2>4
  <2> QED BY <1>6, <2>5 DEF BroadcastSends
<1>7. ASSUME NEW r \in remover, RemoverUnregisters(r) \/ RemoverCloses(r) PROVE Registered'
    BY <1>7 DEF RemoverUnregisters, RemoverCloses, WriteMap, Without, OnlySlow
<1> QED BY <1>1, <1>2, <1>3, <1>4, <1>5, <1>6, <1>7 DEF HubNext, ServeClient

-----------------------------------------------------------------------------
(* Streams.                                                                *)

\* Writing a message moves the border between what is written and what waits.
LEMMA WritingKeepsStream ==
    ASSUME NEW S, NEW w \in Seq(S), NEW q \in Seq(S), q # <<>>
    PROVE  Append(w, Head(q)) \o Tail(q) = w \o q
<1>1. Head(q) \in S /\ Tail(q) \in Seq(S) /\ <<Head(q)>> \in Seq(S) OBVIOUS
<1>2. Append(w, Head(q)) = w \o <<Head(q)>> BY <1>1, AppendIsConcat
<1>3. (w \o <<Head(q)>>) \o Tail(q) = w \o (<<Head(q)>> \o Tail(q)) BY <1>1, ConcatAssociative
<1>4. <<Head(q)>> \o Tail(q) = q BY <1>1
<1> QED BY <1>2, <1>3, <1>4

\* What enters the channel comes last in what the client gets.
LEMMA SendingExtendsStream ==
    ASSUME NEW S, NEW w \in Seq(S), NEW q \in Seq(S), NEW m \in S
    PROVE  w \o Append(q, m) = Append(w \o q, m)
<1>1. <<m>> \in Seq(S) /\ w \o q \in Seq(S) OBVIOUS
<1>2. Append(q, m) = q \o <<m>> BY AppendIsConcat
<1>3. Append(w \o q, m) = (w \o q) \o <<m>> BY <1>1, AppendIsConcat
<1> QED BY <1>1, <1>2, <1>3, ConcatAssociative

\* What a sequence holds, and whether it repeats, after an Append.
LEMMA AppendedContains ==
    ASSUME NEW S, NEW s \in Seq(S), NEW m \in S
    PROVE  /\ \A e : Contains(Append(s, m), e) <=> Contains(s, e) \/ e = m
           /\ IsInjective(s) /\ ~Contains(s, m) => IsInjective(Append(s, m))
<1>1. Len(Append(s, m)) = Len(s) + 1 /\ Len(s) \in Nat OBVIOUS
<1>2. \A i \in 1..Len(s) : Append(s, m)[i] = s[i] OBVIOUS
<1>3. Append(s, m)[Len(s) + 1] = m OBVIOUS
<1>4. 1..(Len(s) + 1) = 1..Len(s) \cup {Len(s) + 1} BY <1>1
<1>5. DOMAIN s = 1..Len(s) /\ DOMAIN Append(s, m) = 1..(Len(s) + 1) OBVIOUS
<1>6. ASSUME NEW e PROVE Contains(Append(s, m), e) <=> Contains(s, e) \/ e = m
    BY <1>1, <1>2, <1>3, <1>4 DEF Contains
<1>7. IsInjective(s) /\ ~Contains(s, m) => IsInjective(Append(s, m))
    BY <1>2, <1>3, <1>4, <1>5 DEF Contains, IsInjective
<1> QED BY <1>6, <1>7

\* A message that leaves the channel of a client nobody serves is lost to its
\* stream, and no other is gained.
LEMMA TailContains ==
    ASSUME NEW S, NEW w \in Seq(S), NEW q \in Seq(S), q # <<>>, NEW e, Contains(w \o Tail(q), e)
    PROVE  Contains(w \o q, e)
<1>1. Tail(q) \in Seq(S) /\ Len(Tail(q)) = Len(q) - 1 /\ Len(q) \in Nat \ {0} /\ Len(w) \in Nat
    OBVIOUS
<1>2. PICK i \in 1..Len(w \o Tail(q)) : (w \o Tail(q))[i] = e BY DEF Contains
<1>3. Len(w \o Tail(q)) = Len(w) + Len(q) - 1 /\ Len(w \o q) = Len(w) + Len(q) BY <1>1
<1>4. CASE i <= Len(w)
    <2>1. (w \o q)[i] = e BY <1>1, <1>2, <1>3, <1>4
    <2> QED BY <1>1, <1>3, <1>4, <2>1 DEF Contains
<1>5. CASE i > Len(w)
    <2>1. (w \o Tail(q))[i] = Tail(q)[i - Len(w)] BY <1>1, <1>2, <1>3, <1>5
    <2>2. Tail(q)[i - Len(w)] = q[i - Len(w) + 1] BY <1>1, <1>2, <1>3, <1>5
    <2>3. (w \o q)[i + 1] = q[i + 1 - Len(w)] BY <1>1, <1>2, <1>3, <1>5
    <2>4. (w \o q)[i + 1] = e BY <1>1, <1>2, <1>5, <2>1, <2>2, <2>3
    <2> QED BY <1>1, <1>2, <1>3, <1>5, <2>4 DEF Contains
<1> QED BY <1>1, <1>2, <1>3, <1>4, <1>5

-----------------------------------------------------------------------------
\* The streams after each action.
LEMMA StreamSteps ==
    ASSUME HubTypeOK, [HubNext]_hubVars, NEW c \in Clients
    PROVE  \/ Stream(c)' = Stream(c)
           \/ /\ ~Served(c)'
              /\ \A e : Contains(Stream(c)', e) => Contains(Stream(c), e)
              /\ UNCHANGED <<request, visited>>
           \/ \E m \in Messages :
                 BroadcastSends(m, c) /\ Stream(c)' = Append(Stream(c), m)
<1> USE DEF HubTypeOK, Stream
<1>1. CASE UNCHANGED <<written, channel>> BY <1>1
<1>2. ASSUME NEW d \in Clients, Connect(d) \/ Disconnect(d) \/ HandlerEnds(d) \/ PumpEnds(d)
      PROVE  UNCHANGED <<written, channel>>
    BY <1>2 DEF Connect, Disconnect, HandlerEnds, PumpEnds
<1>3. ASSUME NEW m \in Messages, BroadcastBegins(m) \/ BroadcastEnds(m)
      PROVE  UNCHANGED <<written, channel>>
    BY <1>3 DEF BroadcastBegins, BroadcastEnds
<1>4. ASSUME NEW r \in remover, RemoverUnregisters(r) \/ RemoverCloses(r)
      PROVE  UNCHANGED <<written, channel>>
    BY <1>4 DEF RemoverUnregisters, RemoverCloses
<1>5. ASSUME NEW d \in Clients, PumpWrites(d), d # c
      PROVE  written'[c] = written[c] /\ channel'[c] = channel[c]
    BY <1>5 DEF PumpWrites
<1>6. CASE PumpWrites(c)
  <2>1. channel[c] \in Seq(Numbers) /\ channel[c] # <<>> /\ written[c] \in Seq(Numbers)
      BY <1>6 DEF PumpWrites
  <2>2. channel'[c] = Tail(channel[c]) BY <1>6 DEF PumpWrites
  <2>3. CASE Served(c)'
    <3>1. conn[c] = "open" /\ handler[c] = "read" /\ c \notin overflowed
        BY <1>6, <2>3 DEF PumpWrites, Served
    <3>2. written'[c] = Append(written[c], Head(channel[c])) BY <1>6, <3>1 DEF PumpWrites
    <3> QED BY <2>1, <2>2, <3>2, WritingKeepsStream
  <2>4. CASE written'[c] = written[c]
    <3>1. ASSUME NEW e, Contains(Stream(c)', e) PROVE Contains(Stream(c), e)
        BY <2>1, <2>2, <2>4, <3>1, TailContains
    <3>2. UNCHANGED <<request, visited>> BY <1>6 DEF PumpWrites
    <3> QED BY <2>3, <3>1, <3>2
  <2>5. CASE written'[c] = Append(written[c], Head(channel[c]))
      BY <2>1, <2>2, <2>5, WritingKeepsStream
  <2> QED BY <1>6, <2>4, <2>5 DEF PumpWrites
<1>7. ASSUME NEW m \in Messages, NEW d \in Clients, BroadcastSends(m, d), d # c
      PROVE  written'[c] = written[c] /\ channel'[c] = channel[c]
    BY <1>7 DEF BroadcastSends
<1>8. ASSUME NEW m \in Messages, BroadcastSends(m, c)
      PROVE  Stream(c)' = Stream(c) \/ Stream(c)' = Append(Stream(c), m)
  <2>1. written[c] \in Seq(Numbers) /\ channel[c] \in Seq(Numbers) /\ m \in Numbers
      BY DEF Numbers
  <2>2. written'[c] = written[c] /\ (channel'[c] = channel[c] \/ channel'[c] = Append(channel[c], m))
      BY <1>8 DEF BroadcastSends
  <2>3. written[c] \o Append(channel[c], m) = Append(written[c] \o channel[c], m)
      BY <2>1, SendingExtendsStream
  <2> QED BY <2>2, <2>3
<1> QED BY <1>1, <1>2, <1>3, <1>4, <1>5, <1>6, <1>7, <1>8 DEF HubNext, ServeClient, hubVars

\* A broadcast that has ended stays ended, and the clients its iteration has
\* produced are forgotten only when it ends.
LEMMA BroadcastSteps ==
    ASSUME HubTypeOK, [HubNext]_hubVars, NEW m \in Messages, NEW c \in Clients
    PROVE  /\ request[m] \in {"done", "recovered"} => request'[m] = request[m]
           /\ c \in visited[m] => c \in visited'[m] \/ request'[m] = "done"
           /\ c \in visited'[m] => c \in visited[m] \/ BroadcastSends(m, c)
           /\ request'[m] = "done" /\ c \in due'[m] =>
                 c \in due[m] /\ (request[m] = "done" \/ hub \cap due[m] \subseteq visited[m])
<1> USE DEF HubTypeOK
<1>1. CASE UNCHANGED <<request, visited, due>> BY <1>1
<1>2. ASSUME NEW d \in Clients, Connect(d) \/ Disconnect(d) \/ ServeClient(d)
      PROVE  UNCHANGED <<request, visited, due>>
    BY <1>2 DEF Connect, Disconnect, ServeClient, HandlerEnds, PumpWrites, PumpEnds
<1>3. ASSUME NEW r \in remover, RemoverUnregisters(r) \/ RemoverCloses(r)
      PROVE  UNCHANGED <<request, visited, due>>
    BY <1>3 DEF RemoverUnregisters, RemoverCloses
<1>4. ASSUME NEW n \in Messages, BroadcastBegins(n), n # m
      PROVE  request'[m] = request[m] /\ visited'[m] = visited[m] /\ due'[m] = due[m]
    BY <1>4 DEF BroadcastBegins
<1>5. ASSUME NEW n \in Messages, BroadcastEnds(n), n # m
      PROVE  request'[m] = request[m] /\ visited'[m] = visited[m] /\ due'[m] = due[m]
    BY <1>5 DEF BroadcastEnds
<1>6. ASSUME NEW n \in Messages, NEW d \in Clients, BroadcastSends(n, d), n # m
      PROVE  request'[m] = request[m] /\ visited'[m] = visited[m] /\ due'[m] = due[m]
    BY <1>6 DEF BroadcastSends
<1>7. CASE BroadcastBegins(m) BY <1>7 DEF BroadcastBegins
<1>8. CASE BroadcastEnds(m) BY <1>8 DEF BroadcastEnds
<1>9. ASSUME NEW d \in Clients, BroadcastSends(m, d), d # c
      PROVE  /\ request[m] = "range" /\ request'[m] \in {"range", "recovered"}
             /\ c \in visited'[m] <=> c \in visited[m]
    BY <1>9 DEF BroadcastSends
<1>10. CASE BroadcastSends(m, c)
  <2>1. request[m] = "range" /\ request'[m] \in {"range", "recovered"} /\ visited[m] \subseteq visited'[m]
      BY <1>10 DEF BroadcastSends
  <2> QED BY <1>10, <2>1
<1> QED BY <1>1, <1>2, <1>3, <1>4, <1>5, <1>6, <1>7, <1>8, <1>9, <1>10 DEF HubNext, hubVars

\* A message enters a stream when the iteration visits the client.
LEMMA SentStep == HubTypeOK /\ Sent /\ [HubNext]_hubVars => Sent'
<1> SUFFICES ASSUME HubTypeOK, Sent, [HubNext]_hubVars, NEW c \in Clients, NEW m \in Messages,
                    Contains(Stream(c)', m)
             PROVE  request'[m] \in {"done", "recovered"} \/ c \in visited'[m]
    BY DEF Sent
<1>1. Contains(Stream(c), m) => request'[m] \in {"done", "recovered"} \/ c \in visited'[m]
    BY BroadcastSteps DEF Sent
<1>2. CASE Stream(c)' = Stream(c) \/ \A e : Contains(Stream(c)', e) => Contains(Stream(c), e)
    BY <1>1, <1>2
<1>3. ASSUME NEW n \in Messages, BroadcastSends(n, c), Stream(c)' = Append(Stream(c), n)
      PROVE  request'[m] \in {"done", "recovered"} \/ c \in visited'[m]
  <2>1. Stream(c) \in Seq(Numbers) /\ n \in Numbers BY DEF HubTypeOK, Stream, Numbers
  <2>2. Contains(Stream(c), m) \/ m = n BY <1>3, <2>1, AppendedContains
  <2>3. c \in visited'[n] BY <1>3 DEF BroadcastSends, HubTypeOK
  <2> QED BY <1>1, <2>2, <2>3
<1> QED BY <1>2, <1>3, StreamSteps

\* A client is served from when it connects, and as long as it keeps up.
LEMMA ServedSteps ==
    ASSUME HubTypeOK, [HubNext]_hubVars, NEW c \in Clients, Served(c)'
    PROVE  Served(c) \/ (handler[c] = "none" /\ UNCHANGED <<request, visited, due, written, channel>>)
<1> USE DEF HubTypeOK, Served
<1>1. CASE UNCHANGED hubVars BY <1>1 DEF hubVars
<1>2. ASSUME NEW d \in Clients, Connect(d) \/ Disconnect(d) \/ ServeClient(d) 
      PROVE  Served(c) \/ (handler[c] = "none" /\ UNCHANGED <<request, visited, due, written, channel>>)
    BY <1>2 DEF Connect, Disconnect, ServeClient, HandlerEnds, PumpWrites, PumpEnds
<1>3. ASSUME NEW m \in Messages, BroadcastBegins(m) \/ BroadcastEnds(m) PROVE Served(c)
    BY <1>3 DEF BroadcastBegins, BroadcastEnds
<1>4. ASSUME NEW m \in Messages, NEW d \in Clients, BroadcastSends(m, d) PROVE Served(c)
    BY <1>4 DEF BroadcastSends
<1>5. ASSUME NEW r \in remover, RemoverUnregisters(r) \/ RemoverCloses(r) PROVE Served(c)
    BY <1>5 DEF RemoverUnregisters, RemoverCloses
<1> QED BY <1>1, <1>2, <1>3, <1>4, <1>5 DEF HubNext

\* A broadcast that reaches a client which keeps up puts the message in its
\* channel, for the first time.
LEMMA ReachesServed ==
    ASSUME HubTypeOK, Registered, OnlySlow, Sent, NEW m \in Messages, NEW c \in Clients,
           BroadcastSends(m, c), Served(c)'
    PROVE  Stream(c)' = Append(Stream(c), m) /\ ~Contains(Stream(c), m)
<1> USE DEF HubTypeOK
<1>1. c \notin overflowed' BY DEF Served
<1>2. c \notin overflowed BY <1>1 DEF BroadcastSends
<1>3. c \notin closed BY <1>2 DEF OnlySlow
<1>4. Full(c) => Len(channel[c]) = SendBufLen BY HubConstants DEF Full, Registered
<1>5. ~Full(c) BY <1>1, <1>3, <1>4 DEF BroadcastSends
<1>6. channel'[c] = Append(channel[c], m) /\ written' = written BY <1>3, <1>5 DEF BroadcastSends
<1>7. Stream(c)' = Append(Stream(c), m)
  <2>1. written[c] \in Seq(Numbers) /\ channel[c] \in Seq(Numbers) /\ m \in Numbers
      BY DEF Numbers
  <2> QED BY <1>6, <2>1, SendingExtendsStream DEF Stream
<1>8. request[m] = "range" /\ c \notin visited[m] BY DEF BroadcastSends
<1> QED BY <1>7, <1>8 DEF Sent

\* An iteration leaves out no client that is served, and visits none twice.
LEMMA CompleteStep ==
    HubTypeOK /\ Unknown /\ Registered /\ OnlySlow /\ Sent /\ Complete /\ [HubNext]_hubVars
               => Complete'
<1> SUFFICES ASSUME HubTypeOK, Unknown, Registered, OnlySlow, Sent, Complete, [HubNext]_hubVars,
                    NEW c \in Clients, Served(c)'
             PROVE  /\ IsInjective(Stream(c)')
                    /\ \A m \in Messages :
                          c \in visited'[m] \/ (request'[m] = "done" /\ c \in due'[m])
                              => Contains(Stream(c)', m)
    BY DEF Complete
<1>1. CASE ~Served(c)
  <2>1. handler[c] = "none" /\ UNCHANGED <<request, visited, due, written, channel>>
      BY <1>1, ServedSteps
  <2>2. \A m \in Messages : c \notin visited'[m] /\ c \notin due'[m]
      BY <2>1 DEF Unknown
  <2>3. Stream(c)' = <<>> BY <2>1 DEF Unknown, Stream
  <2> QED BY <2>2, <2>3 DEF IsInjective
<1>2. CASE Served(c)
  <2>1. Stream(c) \in Seq(Numbers) /\ Messages \subseteq Numbers
      BY DEF HubTypeOK, Stream, Numbers
  <2>2. IsInjective(Stream(c)) BY <1>2 DEF Complete
  <2>3. \/ Stream(c)' = Stream(c)
        \/ \E m \in Messages : BroadcastSends(m, c) /\ Stream(c)' = Append(Stream(c), m)
      BY StreamSteps
  <2>4. /\ IsInjective(Stream(c)')
        /\ \A e : Contains(Stream(c), e) => Contains(Stream(c)', e)
    <3>1. CASE Stream(c)' = Stream(c) BY <2>2, <3>1
    <3>2. ASSUME NEW m \in Messages, BroadcastSends(m, c), Stream(c)' = Append(Stream(c), m)
          PROVE  IsInjective(Stream(c)') /\ \A e : Contains(Stream(c), e) => Contains(Stream(c)', e)
      <4>1. ~Contains(Stream(c), m) BY <3>2, ReachesServed
      <4>2. IsInjective(Append(Stream(c), m)) BY <2>1, <2>2, <4>1, AppendedContains
      <4>3. \A e : Contains(Stream(c), e) => Contains(Append(Stream(c), m), e)
          BY <2>1, AppendedContains
      <4> QED BY <3>2, <4>2, <4>3
    <3> QED BY <2>3, <3>1, <3>2
  <2>6. ASSUME NEW m \in Messages, c \in visited'[m] PROVE Contains(Stream(c)', m)
    <3>1. CASE c \in visited[m] BY <1>2, <2>4, <3>1 DEF Complete
    <3>2. CASE BroadcastSends(m, c)
      <4>1. Stream(c)' = Append(Stream(c), m) BY <3>2, ReachesServed
      <4> QED BY <2>1, <4>1, AppendedContains
    <3> QED BY <2>6, <3>1, <3>2, BroadcastSteps
  <2>7. ASSUME NEW m \in Messages, request'[m] = "done", c \in due'[m] PROVE Contains(Stream(c)', m)
    <3>1. c \in due[m] /\ (request[m] = "done" \/ hub \cap due[m] \subseteq visited[m])
        BY <2>7, BroadcastSteps
    <3>2. c \in hub BY <1>2 DEF Served, Registered
    <3> QED BY <1>2, <2>4, <3>1, <3>2 DEF Complete
  <2> QED BY <2>4, <2>6, <2>7
<1> QED BY <1>1, <1>2

\* A client that keeps up receives every message broadcast while it was
\* registered, once, for any number of clients and any size of the channels,
\* unless the broadcast panicked first on the closed channel of a client that
\* did not keep up: with no slow client nobody misses anything.
THEOREM ServedClientsMissNothing == HubSpec => []StreamComplete
<1> DEFINE HubInv == /\ HubTypeOK /\ Unknown /\ Registered /\ OnlySlow /\ Sent /\ Complete
                     /\ Begun /\ Panics
<1>1. HubInit => HubInv
  <2> SUFFICES ASSUME HubInit PROVE HubInv OBVIOUS
  <2> USE DEF HubInit
  <2>1. \A c \in Clients : channel[c] \in {<<>>, <<0>>} /\ written[c] = <<>> OBVIOUS
  <2>2. <<>> \in Seq(Numbers) /\ <<0>> \in Seq(Numbers) BY DEF Numbers
  <2>3. HubTypeOK BY <2>2 DEF HubTypeOK
  <2>4. Unknown BY DEF Unknown
  <2>5. Registered
    <3>1. Len(<<>>) <= SendBufLen /\ Len(<<0>>) <= SendBufLen BY HubConstants
    <3> QED BY <2>1, <3>1 DEF Registered
  <2>6. OnlySlow BY DEF OnlySlow
  <2>7. \A c \in Clients : Stream(c) \in {<<>>, <<0>>} BY <2>1 DEF Stream
  <2>8. \A s \in {<<>>, <<0>>} : IsInjective(s) /\ \A m \in Messages : ~Contains(s, m)
      BY DEF IsInjective, Contains, Messages
  <2>9. Sent BY <2>7, <2>8 DEF Sent
  <2>10. Complete BY <2>7, <2>8 DEF Complete
  <2>11. Begun /\ Panics BY DEF Begun, Panics
  <2> QED BY <2>3, <2>4, <2>5, <2>6, <2>9, <2>10, <2>11
<1>2. HubInv /\ [HubNext]_hubVars => HubInv'
    BY HubTypes, UnknownStep, RegisteredStep, OnlySlowStep, SentStep, CompleteStep,
       PanicsStep
<1>3. HubInv => StreamComplete
  <2> SUFFICES ASSUME HubInv, NEW c \in Clients, Served(c)
               PROVE  /\ IsInjective(Stream(c))
                      /\ \A m \in Messages : (c \in due[m] /\ ~Contains(Stream(c), m)) =>
                            c \notin visited[m] /\ (request[m] = "range" \/ Panicked(m))
      BY DEF StreamComplete, Served
  <2>1. ASSUME NEW m \in Messages, c \in due[m], ~Contains(Stream(c), m)
        PROVE  c \notin visited[m] /\ (request[m] = "range" \/ Panicked(m))
    <3>1. c \notin visited[m] /\ request[m] # "done" BY <2>1 DEF Complete
    <3>2. request[m] \in {"range", "recovered"} BY <2>1, <3>1 DEF HubTypeOK, Begun
    <3> QED BY <3>1, <3>2 DEF Panics
  <2> QED BY <2>1 DEF Complete
<1> QED BY <1>1, <1>2, <1>3, PTL DEF HubSpec

-----------------------------------------------------------------------------
(* The tunnel.                                                             *)

Fates == {"none", "running", "failed", "exited", "broke", "killed"}

TunnelTypeOK ==
    /\ enabled \in BOOLEAN
    /\ process \in [Processes -> Fates]
    /\ waiter \in [Processes -> {"none", "spawned", "wait", "done"}]
    /\ awaited \in [Processes -> Processes \cup {0}]

\* Processes are numbered in the order of their start: the next number is free.
Numbered == \E n \in Nat : Started = 1..n

\* Fields and goroutines are about processes that were started.
Pending(p) == waiter[p] \in {"spawned", "wait"}
Known ==
    /\ cmd \in Started \cup {0} /\ cancel \in Started \cup {0}
    /\ \A p \in Processes : /\ awaited[p] \in Started \cup {0}
                            /\ Pending(p) => p \in Started
                            /\ waiter[p] = "wait" => awaited[p] # 0

\* Until a waiter comes late each waits for its own process.
Alone == ~overtaken => \A q \in Processes : awaited[q] \in {0, q}

TunnelInv == TunnelTypeOK /\ Numbered /\ Known /\ Alone /\ StopEndsAll

-----------------------------------------------------------------------------
\* Nothing has been started.
LEMMA InitTunnel == TunnelInit => TunnelInv
<1> SUFFICES ASSUME TunnelInit PROVE TunnelInv OBVIOUS
<1>1. Started = {} /\ RunningProcesses = {} BY DEF TunnelInit, Started, RunningProcesses
<1>2. Numbered
  <2>1. Started = 1..0 BY <1>1
  <2> QED BY <2>1 DEF Numbered
<1> QED BY <1>1, <1>2
    DEF TunnelInv, TunnelInit, TunnelTypeOK, Known, Alone, StopEndsAll, Pending, Fates

\* The number of the next process was never given before.
LEMMA NextIsFree ==
    ASSUME Numbered
    PROVE  LET p == Cardinality(Started) + 1
           IN  p \notin Started /\ (p \in Processes => \E n \in Nat : Started \cup {p} = 1..n)
<1>1. PICK n \in Nat : Started = 1..n BY DEF Numbered
<1>2. Cardinality(Started) = n BY <1>1, FS_Interval
<1>3. n + 1 \notin Started /\ Started \cup {n + 1} = 1..(n + 1) BY <1>1
<1> QED BY <1>2, <1>3

\* Start comes after the end of the process before, or a waiter came late.
LEMMA LaunchPreserves ==
    ASSUME TunnelInv, NEW t, StartTunnel(t)
    PROVE  TunnelInv'
<1> DEFINE p == Cardinality(Started) + 1
<1>1. CASE NothingStarted
  <2>1. Started' = Started /\ RunningProcesses' = RunningProcesses
      BY <1>1 DEF NothingStarted, Started, RunningProcesses
  <2> QED BY <1>1, <2>1
      DEF NothingStarted, goroutines, TunnelInv, TunnelTypeOK, Numbered, Known, Alone,
          StopEndsAll, Pending
<1>2. CASE ~AlreadyRunning /\ p \in Processes /\ Launch(p)
  <2>1. p \notin Started /\ \E n \in Nat : Started \cup {p} = 1..n
      BY <1>2, NextIsFree DEF TunnelInv
  <2>2. p # 0 BY <1>2 DEF Processes
  <2> HIDE DEF p
  <2>3. ~overtaken => RunningProcesses = {}
      BY <1>2 DEF TunnelInv, StopEndsAll, AlreadyRunning, RunningProcesses, Processes
  <2>4. PICK how \in {"failed", "running"} : process' = [process EXCEPT ![p] = how]
      BY <1>2 DEF Launch
  <2>5. TunnelTypeOK'
      BY <1>2 DEF Launch, goroutines, TunnelInv, TunnelTypeOK, Fates
  <2>6. Started' = Started \cup {p}
      BY <1>2, <2>4 DEF Started, TunnelInv, TunnelTypeOK
  <2>7. Numbered' BY <2>1, <2>6 DEF Numbered
  <2>8. cmd' = p /\ cancel' = p /\ awaited' = awaited /\ overtaken' = overtaken
      BY <1>2 DEF Launch, goroutines
  <2>9. waiter' \in {waiter, [waiter EXCEPT ![p] = "spawned"]}
      BY <1>2 DEF Launch, goroutines
  <2>10. Known'
      BY <1>2, <2>6, <2>8, <2>9 DEF Known, Pending, TunnelInv, TunnelTypeOK
  <2>11. CASE how = "failed"
    <3>1. RunningProcesses' = RunningProcesses \ {p}
        BY <1>2, <2>4, <2>11 DEF Launch, RunningProcesses, TunnelInv, TunnelTypeOK
    <3> QED BY <2>3, <2>5, <2>7, <2>8, <2>10, <3>1 DEF TunnelInv, Alone, StopEndsAll
  <2>12. CASE how = "running"
    <3>1. /\ RunningProcesses' = RunningProcesses \cup {p} /\ enabled' = TRUE
        BY <1>2, <2>4, <2>12 DEF Launch, RunningProcesses, TunnelInv, TunnelTypeOK
    <3>2. StopEndsAll' BY <2>3, <2>8, <3>1 DEF StopEndsAll
    <3>4. Alone' BY <2>8 DEF Alone, TunnelInv
    <3> QED BY <2>5, <2>7, <2>10, <3>2, <3>4 DEF TunnelInv
  <2> QED BY <2>11, <2>12
<1> QED BY <1>1, <1>2 DEF StartTunnel

\* Without a new process, and with fields and goroutines that know the processes.
LEMMA StopPreserves == ASSUME TunnelInv, Stop PROVE TunnelInv'
<1>1. process' = Cancelled /\ UNCHANGED <<waiter, awaited, overtaken>>
      /\ cancel' = 0 /\ cmd' = 0 /\ enabled' = FALSE
    BY DEF Stop, goroutines
<1>2. \A p \in Processes :
         process'[p] = IF p = cancel /\ process[p] = "running" THEN "killed" ELSE process[p]
  <2>1. 0 \notin Processes /\ cancel \in Processes \cup {0}
      BY DEF Processes, Started, TunnelInv, Known
  <2>2. CASE cancel = 0 BY <1>1, <2>1, <2>2 DEF Cancelled
  <2>3. CASE cancel # 0 BY <1>1, <2>1, <2>3 DEF Cancelled, TunnelInv, TunnelTypeOK
  <2> QED BY <2>2, <2>3
<1>3. process' \in [Processes -> Fates]
    BY <1>1 DEF Cancelled, TunnelInv, TunnelTypeOK, Fates
<1>4. Started' = Started BY <1>2 DEF Started
<1>5. RunningProcesses' = RunningProcesses \ {cancel} BY <1>2 DEF RunningProcesses
<1>6. ~overtaken => RunningProcesses' = {} BY <1>5 DEF TunnelInv, StopEndsAll
<1> QED BY <1>1, <1>3, <1>4, <1>6
    DEF TunnelInv, TunnelTypeOK, Numbered, Known, Alone, StopEndsAll, Pending

\* A process that exits is nobody's to stop.
LEMMA ExitPreserves == ASSUME TunnelInv, NEW p \in Processes, ProcessExits(p) PROVE TunnelInv'
<1>1. UNCHANGED <<enabled, cmd, cancel, waiter, awaited, overtaken>>
    BY DEF ProcessExits, manager, goroutines
<1>2. process' \in [Processes -> Fates] /\ Started' = Started /\ RunningProcesses' \subseteq RunningProcesses
    BY DEF ProcessExits, TunnelInv, TunnelTypeOK, Fates, Started, RunningProcesses
<1> QED BY <1>1, <1>2
    DEF TunnelInv, TunnelTypeOK, Numbered, Known, Alone, StopEndsAll, Pending

\* A goroutine touches the fields of its own process, or is noted.
LEMMA GoroutinePreserves ==
    ASSUME TunnelInv, NEW p \in Processes, Goroutine(p)
    PROVE  TunnelInv'
<1>1. UNCHANGED <<process, cmd, cancel>>
      BY DEF Goroutine, WaitBegins, WaitReportsError, WaitReturns, PollChecks, PollFails,
             PollAnswers, Poller, manager, goroutines
<1>2. Started' = Started /\ RunningProcesses' = RunningProcesses BY <1>1 DEF Started, RunningProcesses
<1>3. CASE WaitBegins(p)
  <2>1. enabled' = enabled /\ overtaken' = (overtaken \/ cmd \notin {0, p})
      BY <1>3 DEF WaitBegins, manager
  <2>2. CASE cmd = 0
      BY <1>1, <1>2, <1>3, <2>1, <2>2
      DEF WaitBegins, TunnelInv, TunnelTypeOK, Numbered, Known, Alone, StopEndsAll, Pending
  <2>3. CASE cmd # 0
    <3>1. /\ waiter' = [waiter EXCEPT ![p] = "wait"] /\ awaited' = [awaited EXCEPT ![p] = cmd]
          /\ Pending(p) /\ cmd \in Started
        BY <1>3, <2>3 DEF WaitBegins, Pending, TunnelInv, Known
    <3>2. Started \subseteq Processes BY DEF Started
    <3>3. TunnelTypeOK' /\ Numbered' /\ Known'
        BY <1>1, <1>2, <2>1, <2>3, <3>1, <3>2
        DEF TunnelInv, TunnelTypeOK, Numbered, Known, Pending
    <3>4. StopEndsAll' BY <1>1, <1>2, <2>1 DEF TunnelInv, StopEndsAll
    <3>6. Alone' BY <2>1, <3>1 DEF TunnelInv, TunnelTypeOK, Alone
    <3> QED BY <3>3, <3>4, <3>6 DEF TunnelInv
  <2> QED BY <2>2, <2>3
<1>4. CASE WaitReportsError(p)
  <2>1. /\ waiter' = [waiter EXCEPT ![p] = "done"] /\ enabled' = FALSE /\ awaited' = awaited
        /\ overtaken' = (overtaken \/ cmd \notin {0, p})
      BY <1>4 DEF WaitReportsError
  <2>2. ~overtaken' => RunningProcesses = {}
    <3> SUFFICES ASSUME ~overtaken', NEW q \in RunningProcesses PROVE FALSE OBVIOUS
    <3>0. ~overtaken /\ cmd \in {0, p} BY <2>1
    <3>1. cmd = q /\ q # 0
        BY <3>0 DEF TunnelInv, StopEndsAll, RunningProcesses, Processes
    <3>2. q = p /\ awaited[p] = p
        BY <1>4, <3>0, <3>1 DEF WaitReportsError, TunnelInv, Known, Alone
    <3>3. \A r \in Processes \ {p} : awaited[r] # p
        BY <3>0, <3>1, <3>2 DEF TunnelInv, Alone
    <3> QED BY <1>4, <3>2, <3>3 DEF WaitReportsError, WaitFails, RunningProcesses
  <2> QED BY <1>1, <1>2, <2>1, <2>2
      DEF TunnelInv, TunnelTypeOK, Numbered, Known, Alone, StopEndsAll, Pending
<1>5. CASE WaitReturns(p)
  <2>1. /\ waiter' = [waiter EXCEPT ![p] = "done"]
        /\ UNCHANGED <<enabled, awaited, overtaken>>
      BY <1>5 DEF WaitReturns, manager
  <2> QED BY <1>1, <1>2, <2>1
      DEF TunnelInv, TunnelTypeOK, Numbered, Known, Alone, StopEndsAll, Pending
<1>6. CASE PollChecks(p) \/ PollFails(p) \/ PollAnswers(p)
  <2>1. UNCHANGED <<waiter, enabled, awaited, overtaken>>
      BY <1>6 DEF PollChecks, PollFails, PollAnswers, Poller
  <2> QED BY <1>1, <1>2, <2>1
      DEF TunnelInv, TunnelTypeOK, Numbered, Known, Alone, StopEndsAll, Pending
<1> QED BY <1>3, <1>4, <1>5, <1>6 DEF Goroutine

\* Every step of the tunnel keeps its processes in its fields.
LEMMA TunnelStep == TunnelInv /\ [TunnelNext]_tunnelVars => TunnelInv'
<1> SUFFICES ASSUME TunnelInv, [TunnelNext]_tunnelVars PROVE TunnelInv' OBVIOUS
<1>1. CASE UNCHANGED <<process, enabled, cmd, cancel, waiter, awaited, overtaken>>
  <2>1. Started' = Started /\ RunningProcesses' = RunningProcesses BY <1>1 DEF Started, RunningProcesses
  <2> QED BY <1>1, <2>1
      DEF TunnelInv, TunnelTypeOK, Numbered, Known, Alone, StopEndsAll, Pending
<1>2. CASE UNCHANGED tunnelVars BY <1>1, <1>2 DEF tunnelVars, manager, goroutines
<1>3. CASE LoadAndStart
  <2>1. StartTunnel(TRUE) \/ NothingStarted BY <1>3 DEF LoadAndStart
  <2> QED BY <2>1, LaunchPreserves DEF StartTunnel
<1>4. CASE HandleToggle BY <1>4, LaunchPreserves, StopPreserves DEF HandleToggle
<1>5. CASE HandleSaveToken
  <2>1. PICK s \in Savers : SaveSetting(s) \/ SaveStops(s) \/ SetAuthToken(s) \/ SaveStarts(s)
      BY <1>5 DEF HandleSaveToken
  <2>2. CASE SaveSetting(s) \/ SetAuthToken(s)
      BY <1>1, <2>2 DEF SaveSetting, SetAuthToken, manager, goroutines
  <2>3. CASE SaveStops(s) BY <2>3, StopPreserves DEF SaveStops
  <2>4. CASE SaveStarts(s) BY <2>4, LaunchPreserves DEF SaveStarts
  <2> QED BY <2>1, <2>2, <2>3, <2>4
<1> QED BY <1>2, <1>3, <1>4, <1>5, ExitPreserves, GoroutinePreserves DEF TunnelNext

\* Whatever the operator, the processes and the goroutines do, a process that
\* runs is the one the next Stop kills, for any number of starts, until the waiter
\* of an earlier process waits for its successor or resets the fields of its
\* successor, which a restart allows (tunnel/manager.go).
THEOREM ProcessesAreNotLost == TunnelSpec => []StopEndsAll
<1>1. TunnelInv => StopEndsAll BY DEF TunnelInv
<1> QED BY <1>1, InitTunnel, TunnelStep, PTL DEF TunnelSpec

-----------------------------------------------------------------------------
(* API keys.                                                               *)

FleetTypeOK ==
    /\ key \in [Keys -> [name : Names \cup {0}, state : {"none", "live", "revoked"}]]
    /\ creator \in [Creators -> [at : {"idle", "register", "insert"}, name : Names \cup {0}]]

\* Keys are numbered in the order of their creation.
KeysNumbered == \E n \in Nat : Issued = 1..n

\* As long as nobody interferes no key is revoked, each has its own number for
\* a name, and the one request under way holds the number of the next.
Busy(c) == creator[c].at # "idle"
InOrder ==
    ~reused => /\ Live = Issued /\ \A k \in Live : key[k].name = k
               /\ \A c \in Creators : Busy(c) =>
                      /\ creator[c].name = Cardinality(Live) + 1
                      /\ \A d \in Creators \ {c} : ~Busy(d)

FleetInv == FleetTypeOK /\ KeysNumbered /\ InOrder

\* No key has been made.
LEMMA InitFleet == FleetInit => FleetInv
<1> SUFFICES ASSUME FleetInit PROVE FleetInv OBVIOUS
<1>1. FleetTypeOK BY DEF FleetInit, FleetTypeOK, NoKey, IdleCreator
<1>2. Issued = {} /\ Live = {} BY DEF FleetInit, Issued, Live, NoKey
<1>3. KeysNumbered
  <2>1. Issued = 1..0 BY <1>2
  <2> QED BY <2>1 DEF KeysNumbered
<1>4. InOrder BY <1>2 DEF InOrder, Busy, FleetInit, IdleCreator
<1> QED BY <1>1, <1>3, <1>4 DEF FleetInv

\* The name is the number of live keys plus one, counted under no lock.
LEMMA ChooseNamePreserves ==
    ASSUME FleetInv, NEW c \in Creators, ChooseName(c) PROVE FleetInv'
<1>1. PICK n \in Names, next \in {"register", "insert"} :
         /\ creator' = [creator EXCEPT ![c] = [at |-> next, name |-> n]]
         /\ reused' = (reused \/ n # CountByAgentType + 1
                        \/ \E d \in Creators \ {c} : creator[d].at # "idle")
    BY DEF ChooseName, Creating
<1>2. key' = key /\ Issued' = Issued /\ Live' = Live BY DEF ChooseName, Issued, Live
<1>3. FleetTypeOK' BY <1>1, <1>2 DEF FleetInv, FleetTypeOK
<1>4. ASSUME ~reused' PROVE ~reused /\ n = Cardinality(Live) + 1
                            /\ \A d \in Creators \ {c} : ~Busy(d)
    BY <1>1, <1>4 DEF CountByAgentType, Busy
<1>5. \A d \in Creators \ {c} : creator'[d] = creator[d]
    BY <1>1 DEF FleetInv, FleetTypeOK
<1>6. creator'[c].name = n BY <1>1 DEF FleetInv, FleetTypeOK
<1>7. InOrder' BY <1>2, <1>4, <1>5, <1>6 DEF FleetInv, InOrder, Busy
<1> QED BY <1>2, <1>3, <1>7 DEF FleetInv, KeysNumbered

\* Provisioning an agent takes the name to the row of its agent.
LEMMA ProvisionPreserves ==
    ASSUME FleetInv, NEW c \in Creators, ProvisionRegisters(c) PROVE FleetInv'
<1>1. UNCHANGED <<key, reused>> /\ Issued' = Issued /\ Live' = Live
    BY DEF ProvisionRegisters, Issued, Live
<1>2. creator' \in {[creator EXCEPT ![c] = [creator[c] EXCEPT !.at = "insert"]],
                    [creator EXCEPT ![c] = IdleCreator]}
    BY DEF ProvisionRegisters, Creating
<1>3. creator[c] \in [at : {"idle", "register", "insert"}, name : Names \cup {0}] /\ Busy(c)
    BY DEF ProvisionRegisters, FleetInv, FleetTypeOK, Busy
<1>4. FleetTypeOK' BY <1>1, <1>2, <1>3 DEF FleetInv, FleetTypeOK, IdleCreator
<1>5. \A d \in Creators \ {c} : creator'[d] = creator[d]
    BY <1>2 DEF FleetInv, FleetTypeOK
<1>6. creator'[c].at = "idle" \/ creator'[c].name = creator[c].name
    BY <1>2, <1>3 DEF FleetInv, FleetTypeOK, IdleCreator
<1>7. InOrder' BY <1>1, <1>3, <1>5, <1>6 DEF FleetInv, InOrder, Busy
<1> QED BY <1>1, <1>4, <1>7 DEF FleetInv, KeysNumbered

\* The key is inserted under the name that was chosen.
LEMMA InsertKeyPreserves ==
    ASSUME FleetInv, NEW c \in Creators, InsertKey(c) PROVE FleetInv'
<1> DEFINE k == Cardinality(Issued) + 1
<1>1. creator' = [creator EXCEPT ![c] = IdleCreator] /\ reused' = reused /\ Busy(c)
    BY DEF InsertKey, Creating, Busy
<1>2. creator' \in [Creators -> [at : {"idle", "register", "insert"}, name : Names \cup {0}]]
    BY <1>1 DEF FleetInv, FleetTypeOK, IdleCreator
<1>3. \A d \in Creators : ~reused => ~Busy(d)'
    BY <1>1 DEF FleetInv, FleetTypeOK, InOrder, Busy, IdleCreator
<1>4. CASE key' = key
  <2>1. Issued' = Issued /\ Live' = Live BY <1>4 DEF Issued, Live
  <2> QED BY <1>1, <1>2, <1>3, <1>4, <2>1 DEF FleetInv, FleetTypeOK, KeysNumbered, InOrder
<1>5. CASE k \in Keys /\ key' = [key EXCEPT ![k] = [name |-> creator[c].name, state |-> "live"]]
  <2>1. PICK n \in Nat : Issued = 1..n BY DEF FleetInv, KeysNumbered
  <2>2. k = n + 1
    <3>1. Cardinality(1..n) = n BY <2>1, FS_Interval
    <3> QED BY <2>1, <3>1
  <2> HIDE DEF k
  <2>3. Issued' = Issued \cup {k}
      BY <1>5 DEF Issued, NoKey, FleetInv, FleetTypeOK
  <2>4. Live' = Live \cup {k} BY <1>5 DEF Live, FleetInv, FleetTypeOK
  <2>5. KeysNumbered'
    <3>1. Issued' = 1..(n + 1) BY <2>1, <2>2, <2>3
    <3> QED BY <3>1 DEF KeysNumbered
  <2>6. FleetTypeOK' BY <1>2, <1>5 DEF FleetInv, FleetTypeOK
  <2>7. InOrder'
    <3> SUFFICES ASSUME ~reused PROVE Live' = Issued' /\ \A l \in Live' : key'[l].name = l
        BY <1>1, <1>3 DEF InOrder
    <3>1. Live = Issued /\ \A l \in Live : key[l].name = l BY DEF FleetInv, InOrder
    <3>2. creator[c].name = k
        BY <1>1, <2>1, <2>2, <3>1, FS_Interval DEF FleetInv, InOrder
    <3>3. k \notin Live BY <2>1, <2>2, <3>1
    <3>4. \A l \in Live : l \in Keys BY DEF Live
    <3>5. key'[k].name = k /\ \A l \in Live : key'[l] = key[l]
        BY <1>5, <3>2, <3>3, <3>4 DEF FleetInv, FleetTypeOK
    <3> QED BY <2>3, <2>4, <3>1, <3>5
  <2> QED BY <2>5, <2>6, <2>7 DEF FleetInv
<1> QED BY <1>4, <1>5 DEF InsertKey

\* A key that is revoked frees its number, which is noted.
LEMMA RevokePreserves ==
    ASSUME FleetInv, NEW k \in Keys, HandleRevoke(k) PROVE FleetInv'
<1>1. FleetTypeOK' BY DEF HandleRevoke, FleetInv, FleetTypeOK
<1>2. Issued' = Issued BY DEF HandleRevoke, Issued, NoKey, FleetInv, FleetTypeOK
<1> QED BY <1>1, <1>2 DEF HandleRevoke, FleetInv, KeysNumbered, InOrder

\* Every step keeps the names of keys in the order of their creation.
LEMMA FleetStep == FleetInv /\ [FleetNext]_fleetVars => FleetInv'
<1> SUFFICES ASSUME FleetInv, [FleetNext]_fleetVars PROVE FleetInv' OBVIOUS
<1>1. CASE UNCHANGED <<key, creator, reused>>
    BY ZenonT(60), <1>1 DEF FleetInv, FleetTypeOK, KeysNumbered, InOrder, Busy, Issued, Live
<1>2. CASE UNCHANGED fleetVars BY <1>1, <1>2 DEF fleetVars
<1>3. CASE Console
  <2>1. ASSUME NEW n \in Names, HandleRegister(n) \/ HandleDelete(n) PROVE FleetInv'
      BY <1>1, <2>1 DEF HandleRegister, HandleDelete
  <2> QED BY <1>3, <2>1, ChooseNamePreserves, ProvisionPreserves, InsertKeyPreserves,
             RevokePreserves DEF Console
<1>4. ASSUME NEW p \in Procs, Process(p) PROVE FleetInv'
    BY <1>1, <1>4 DEF Process, ProcessStarts, HeartbeatTicks, FlushLoopSends, CloseFlushes,
                      AgentDies
<1>5. ASSUME NEW r \in inbox, Ingest(r) PROVE FleetInv'
    BY <1>1, <1>5 DEF Ingest, Refused, FindsAgent, IngestRegister, IngestHeartbeat, HeartbeatFails,
                      IngestBatch
<1> QED BY <1>2, <1>3, <1>4, <1>5 DEF FleetNext

\* The names that CountByAgentType gives to API keys are those of different
\* agents, unless a key was revoked, named by hand, or created beside another.
THEOREM NamesAreDistinct == FleetSpec => []NamesDiffer
<1>1. FleetInv => NamesDiffer BY DEF FleetInv, InOrder, NamesDiffer
<1> QED BY <1>1, InitFleet, FleetStep, PTL DEF FleetSpec

-----------------------------------------------------------------------------
(* Accounts and invitations.                                               *)

RoleNames == Roles \cup {"none"}
Somebody == Users \cup {CHOOSE u \in Users : TRUE}
Claims == [Orgs -> RoleNames]
InvitationRows == [org : Nat, user : Somebody,
                   state : {"none", "pending", "gone", "expired", "accepted"}]
Managing == {"delete", "update", "remove", "invite"}
Statements == {"idle", "insertUser", "insertOrg", "addOwner", "link", "list", "roles", "issue",
               "delete", "update", "remove", "invite", "join", "mark"}
Ops == {"none", "register", "login", "refresh", "oauth", "create", "accept"} \cup Managing
Requested == [at : Statements, user : Somebody, op : Ops, org : Nat,
           claims : Claims, invitation : Invitations \cup {0}]
\* A request under way is that of a user.
Locals == {l \in Requested : l.at = "idle" \/ l.user \in Users}

TenancyTypeOK ==
    /\ users \subseteq Users /\ linked \subseteq Users
    /\ orgs \subseteq Nat /\ founded \in Nat
    /\ role \in [Orgs -> [Users -> RoleNames]]
    /\ invitation \in [Invitations -> InvitationRows]
    /\ tokens \in [Users -> Claims]
    /\ work \in [Requests -> Locals]

\* A request marks an invitation only after it made the member.
MarksJoined == \A r \in Requests : AtStep(r, "mark") => work[r].invitation \in joined

TenancyInv == TenancyTypeOK /\ MarksJoined /\ AcceptedHasJoined

\* Nobody has registered, and nobody is invited.
LEMMA InitTenancy == TenancyInit => TenancyInv
<1> SUFFICES ASSUME TenancyInit PROVE TenancyInv OBVIOUS
<1>1. NoClaims \in Claims BY DEF NoClaims, Claims, RoleNames
<1>2. NoRequest \in Locals BY <1>1 DEF NoRequest, Locals, Requested, Statements, Somebody, Ops, Managing
<1>3. NoInvitation \in InvitationRows BY DEF NoInvitation, InvitationRows, Somebody
<1>4. TenancyTypeOK
    BY <1>1, <1>2, <1>3 DEF TenancyInit, TenancyTypeOK, RoleNames
<1> QED BY <1>4
    DEF TenancyInit, TenancyInv, MarksJoined, AtStep, NoRequest, AcceptedHasJoined, NoInvitation

\* A step of one request to a statement other than "mark" that adds no
\* acceptance and keeps who joined.
LEMMA RequestMoves ==
    ASSUME TenancyInv, TenancyTypeOK', joined \subseteq joined', NEW r \in Requests,
           NEW local \in Locals, Proceeds(r, local),
           local.at = "mark" => local.invitation \in joined',
           \A i \in Invitations : invitation'[i].state = "accepted" =>
               invitation[i].state = "accepted" \/ i \in joined'
    PROVE  TenancyInv'
<1>1. MarksJoined'
    BY DEF TenancyInv, TenancyTypeOK, MarksJoined, AtStep, Proceeds
<1> QED BY <1>1 DEF TenancyInv, AcceptedHasJoined

\* The records of requests, with one or more of their fields replaced.
LEMMA LocalTypes ==
    ASSUME TenancyTypeOK
    PROVE  /\ NoRequest \in Locals /\ NoRequest.at = "idle"
           /\ \A r \in Requests : work[r] \in Locals
           /\ NoClaims \in Claims
<1>1. NoClaims \in Claims BY DEF NoClaims, Claims, RoleNames
<1> QED BY <1>1 DEF TenancyTypeOK, NoRequest, Locals, Requested, Statements, Somebody, Ops, Managing

\* A request under way goes on to a statement.
LEMMA StepTypes ==
    ASSUME NEW r, work[r] \in Locals, work[r].at # "idle", NEW s \in Statements
    PROVE  LET l == [work[r] EXCEPT !.at = s] IN l \in Locals /\ l.at = s
BY DEF Locals, Requested

\* Statements that change no table: only the request goes on.
LEMMA OnlyRequest ==
    ASSUME TenancyInv, NEW r \in Requests, NEW local \in Locals, Proceeds(r, local),
           local.at # "mark",
           UNCHANGED <<accounts, tenants, invitation, tokens, joined>>
    PROVE  TenancyInv'
<1>1. UNCHANGED <<users, linked, orgs, founded, role, invitation, tokens, joined>>
    BY DEF accounts, tenants
<1>2. TenancyTypeOK' BY <1>1 DEF TenancyInv, TenancyTypeOK, Proceeds
<1> QED BY <1>1, <1>2, RequestMoves

\* Requests that begin: signing in, founding, managing and accepting.
LEMMA SignInPreserves ==
    ASSUME TenancyInv, NEW r \in Requests,
           SignsIn(r) \/ CreateOrg(r) \/ Manages(r) \/ Accept(r)
    PROVE  TenancyInv'
<1> USE LocalTypes DEF TenancyInv, Ops, Managing
<1>1. UNCHANGED <<accounts, tenants, invitation, tokens, joined>>
    BY DEF SignsIn, CreateOrg, Manages, Accept
<1>2. ASSUME SignsIn(r) \/ CreateOrg(r) PROVE \E local \in Locals : Proceeds(r, local) /\ local.at # "mark"
  <2>1. PICK u \in Users, op \in Ops, step \in Statements \ {"mark"} :
           Proceeds(r, [NoRequest EXCEPT !.at = step, !.user = u, !.op = op])
      BY <1>2 DEF SignsIn, CreateOrg, Receives, Statements, TenancyTypeOK, Somebody
  <2>2. [NoRequest EXCEPT !.at = step, !.user = u, !.op = op] \in Locals
      BY DEF NoRequest, Locals, Requested, Somebody
  <2> QED BY <2>1, <2>2 DEF Locals, Requested
<1>3. ASSUME Manages(r) PROVE \E local \in Locals : Proceeds(r, local) /\ local.at # "mark"
  <2>1. PICK u \in Users, op \in {"delete", "update", "remove", "invite"}, o \in orgs :
           Proceeds(r, [NoRequest EXCEPT !.at = op, !.user = u, !.op = op, !.org = o])
      BY <1>3 DEF Manages, Allowed, TenancyTypeOK
  <2>0. o \in Nat BY DEF TenancyTypeOK
  <2>2. [NoRequest EXCEPT !.at = op, !.user = u, !.op = op, !.org = o] \in Locals
      BY <2>0 DEF NoRequest, Locals, Requested, Somebody, Statements
  <2> QED BY <2>1, <2>2 DEF Locals, Requested
<1>4. ASSUME Accept(r) PROVE \E local \in Locals : Proceeds(r, local) /\ local.at # "mark"
  <2>1. PICK i \in Invitations :
        /\ invitation[i].user \in users
        /\ Proceeds(r, [NoRequest EXCEPT !.at = "join", !.user = invitation[i].user, !.op = "accept",
                                  !.org = invitation[i].org, !.invitation = i])
      BY <1>4 DEF Accept
  <2>2. invitation[i] \in InvitationRows /\ invitation[i].user \in Users
      BY <2>1 DEF Invitations, TenancyTypeOK, Accept
  <2>3. [NoRequest EXCEPT !.at = "join", !.user = invitation[i].user, !.op = "accept",
                                  !.org = invitation[i].org, !.invitation = i] \in Locals
      BY <2>2 DEF NoRequest, Locals, Requested, InvitationRows, Statements, Somebody
  <2> QED BY <2>1, <2>3 DEF Locals, Requested
<1> QED BY <1>1, <1>2, <1>3, <1>4, OnlyRequest

\* The statements of registration, login and refresh.
LEMMA AccountsPreserve ==
    ASSUME TenancyInv, NEW r \in Requests,
           \/ InsertUser(r) \/ InsertOrg(r) \/ AddOwner(r) \/ CreateOAuthLink(r)
           \/ ListForUser(r) \/ GetMemberships(r) \/ CreateAccessToken(r)
    PROVE  TenancyInv'
<1> USE LocalTypes DEF TenancyInv, Ops, Managing
<1>1. work[r] \in Locals /\ work[r].at # "idle" /\ UserOf(r) \in Users
  <2>1. work[r].at # "idle"
      BY DEF InsertUser, InsertOrg, AddOwner, CreateOAuthLink, ListForUser, GetMemberships,
             CreateAccessToken, AtStep
  <2> QED BY <2>1 DEF Locals, UserOf
<1>2. CASE InsertUser(r)
  <2>1. Proceeds(r, NoRequest) \/ Proceeds(r, [work[r] EXCEPT !.at = "insertOrg"])
      BY <1>2 DEF InsertUser, GoesTo, Replies
  <2>2. "insertOrg" \in Statements BY DEF Statements
  <2>3. PICK local \in Locals : Proceeds(r, local) /\ local.at # "mark"
      BY <1>1, <2>1, <2>2, StepTypes
  <2>4. users' \subseteq Users BY <1>1, <1>2 DEF InsertUser, UserOf, Locals, Requested, TenancyTypeOK
  <2>5. TenancyTypeOK' /\ UNCHANGED <<invitation, joined>>
      BY <1>2, <2>3, <2>4
      DEF InsertUser, TenancyTypeOK, Proceeds, tenants
  <2> QED BY <2>3, <2>5, RequestMoves
<1>3. CASE InsertOrg(r)
  <2> DEFINE l == [work[r] EXCEPT !.at = "addOwner", !.org = founded']
  <2>1. founded' \in Nat BY <1>3 DEF InsertOrg, TenancyTypeOK
  <2>2. {"addOwner", "link"} \subseteq Statements BY DEF Statements
  <2>3. l \in Locals /\ l.at = "addOwner" BY <1>1, <2>1, <2>2 DEF Locals, Requested
  <2>4. Proceeds(r, NoRequest) \/ Proceeds(r, [work[r] EXCEPT !.at = "link"]) \/ Proceeds(r, l)
      BY <1>3 DEF InsertOrg, GoesTo, Replies
  <2> HIDE DEF l
  <2>5. PICK local \in Locals : Proceeds(r, local) /\ local.at # "mark"
      BY <1>1, <2>2, <2>3, <2>4, StepTypes
  <2>6. TenancyTypeOK' /\ UNCHANGED <<invitation, joined>>
      BY <1>3, <2>5 DEF InsertOrg, TenancyTypeOK, Proceeds, accounts
  <2> QED BY <2>5, <2>6, RequestMoves
<1>4. CASE AddOwner(r)
  <2> DEFINE l == [work[r] EXCEPT !.at = "issue", !.claims[OrgOf(r)] = "owner"]
  <2>1. {"issue", "link"} \subseteq Statements BY DEF Statements
  <2>2. l \in Locals /\ l.at = "issue"
      BY <1>1, <2>1 DEF Locals, Requested, Claims, RoleNames, Roles
  <2>3. Proceeds(r, NoRequest) \/ Proceeds(r, [work[r] EXCEPT !.at = "link"]) \/ Proceeds(r, l)
      BY <1>4 DEF AddOwner, GoesTo, Replies
  <2> HIDE DEF l
  <2>4. PICK local \in Locals : Proceeds(r, local) /\ local.at # "mark"
      BY <1>1, <2>1, <2>2, <2>3, StepTypes
  <2>5. role' \in [Orgs -> [Users -> RoleNames]]
      BY <1>4 DEF AddOwner, AddMember, TenancyTypeOK, RoleNames, Roles
  <2>6. TenancyTypeOK' /\ UNCHANGED <<invitation, joined>>
      BY <1>4, <2>4, <2>5 DEF AddOwner, TenancyTypeOK, Proceeds, accounts
  <2> QED BY <2>4, <2>6, RequestMoves
<1>5. CASE CreateOAuthLink(r)
  <2>1. "list" \in Statements BY DEF Statements
  <2>2. PICK local \in Locals : Proceeds(r, local) /\ local.at # "mark"
      BY <1>1, <1>5, <2>1, StepTypes DEF CreateOAuthLink, GoesTo
  <2>3. linked' \subseteq Users
      BY <1>1, <1>5 DEF CreateOAuthLink, UserOf, Locals, Requested, TenancyTypeOK
  <2>4. TenancyTypeOK' /\ UNCHANGED <<invitation, joined>>
      BY <1>5, <2>2, <2>3 DEF CreateOAuthLink, TenancyTypeOK, Proceeds, tenants
  <2> QED BY <2>2, <2>4, RequestMoves
<1>6. CASE ListForUser(r)
  <2> DEFINE l == [work[r] EXCEPT !.at = "roles", !.claims = ListedClaims(r)]
  <2>1. "roles" \in Statements BY DEF Statements
  <2>2. ListedClaims(r) \in Claims BY DEF ListedClaims, Claims, RoleNames, Roles
  <2>3. l \in Locals /\ l.at = "roles" BY <1>1, <2>1, <2>2 DEF Locals, Requested
  <2>4. Proceeds(r, NoRequest) \/ Proceeds(r, [work[r] EXCEPT !.at = "roles"]) \/ Proceeds(r, l)
      BY <1>6 DEF ListForUser, GoesTo, Replies
  <2> HIDE DEF l
  <2>5. PICK local \in Locals : Proceeds(r, local) /\ local.at # "mark"
      BY <1>1, <2>1, <2>3, <2>4, StepTypes
  <2> QED BY <1>6, <2>5, OnlyRequest DEF ListForUser
<1>7. CASE GetMemberships(r)
  <2> DEFINE rolesRead(read) ==
                 [o \in Orgs |-> IF o \in read /\ work[r].claims[o] # "none" /\ Member(o, UserOf(r))
                                 THEN role[o][UserOf(r)] ELSE work[r].claims[o]]
  <2>0. PICK read \in SUBSET Orgs :
            Proceeds(r, [work[r] EXCEPT !.at = "issue", !.claims = rolesRead(read)])
      BY <1>7 DEF GetMemberships
  <2> DEFINE roles == rolesRead(read)
  <2>1. "issue" \in Statements BY DEF Statements
  <2>2. work[r].claims \in Claims BY <1>1 DEF Locals, Requested
  <2>3. roles \in Claims BY <1>1, <2>2 DEF Claims, RoleNames, TenancyTypeOK
  <2> DEFINE l == [work[r] EXCEPT !.at = "issue", !.claims = roles]
  <2>4. Proceeds(r, l) BY <2>0
  <2> HIDE DEF roles
  <2>5. l \in Locals /\ l.at = "issue" BY <1>1, <2>1, <2>3 DEF Locals, Requested
  <2> HIDE DEF l
  <2> QED BY <1>7, <2>4, <2>5, OnlyRequest DEF GetMemberships
<1>8. CASE CreateAccessToken(r)
  <2>1. Proceeds(r, NoRequest) BY <1>8 DEF CreateAccessToken, Replies
  <2>2. tokens' \in [Users -> Claims]
      BY <1>1, <1>8 DEF CreateAccessToken, TenancyTypeOK, Locals, Requested
  <2>3. TenancyTypeOK' /\ UNCHANGED <<invitation, joined>>
      BY <1>8, <2>1, <2>2 DEF CreateAccessToken, TenancyTypeOK, Proceeds, accounts, tenants
  <2>4. NoRequest.at = "idle" BY DEF NoRequest
  <2> QED BY <2>1, <2>3, <2>4, RequestMoves
<1> QED BY <1>2, <1>3, <1>4, <1>5, <1>6, <1>7, <1>8

\* What does not touch invitations keeps what is known of them.
LEMMA TenantsPreserve ==
    ASSUME TenancyInv, NEW r \in Requests,
           DeleteOrg(r) \/ ChangeMember(r) \/ NothingChanges(r) \/ CreateInvitation(r)
    PROVE  TenancyInv'
<1> USE LocalTypes DEF TenancyInv
<1>1. Proceeds(r, NoRequest) /\ UNCHANGED <<users, linked, founded, tokens, joined>>
    BY DEF DeleteOrg, ChangeMember, NothingChanges, CreateInvitation, Replies, accounts, tenants
<1>2. CASE DeleteOrg(r)
  <2>1. role' \in [Orgs -> [Users -> RoleNames]] /\ orgs' \subseteq Nat
      BY <1>2 DEF DeleteOrg, TenancyTypeOK, RoleNames
  <2>2. \A i \in Invitations :
           /\ invitation'[i] \in InvitationRows
           /\ invitation'[i].state = "accepted" => invitation[i].state = "accepted"
      BY <1>2 DEF DeleteOrg, TenancyTypeOK, InvitationRows
  <2>3. invitation' \in [Invitations -> InvitationRows] BY <1>2, <2>2 DEF DeleteOrg
  <2>4. TenancyTypeOK' BY <1>1, <2>1, <2>3 DEF TenancyTypeOK, Proceeds
  <2> QED BY <1>1, <2>2, <2>4, RequestMoves
<1>3. CASE ChangeMember(r)
  <2> PICK u \in Users, new \in RoleNames : role' = [role EXCEPT ![OrgOf(r)][u] = new]
      BY <1>3 DEF ChangeMember, RoleNames
  <2>1. role' \in [Orgs -> [Users -> RoleNames]] BY DEF TenancyTypeOK
  <2>2. TenancyTypeOK' /\ invitation' = invitation
      BY <1>1, <1>3, <2>1 DEF ChangeMember, TenancyTypeOK, Proceeds
  <2> QED BY <1>1, <2>2, RequestMoves
<1>4. CASE NothingChanges(r) BY <1>1, <1>4, OnlyRequest DEF NothingChanges
<1>5. CASE CreateInvitation(r)
  <2>1. PICK i \in Invitations, u \in Users :
           invitation' = [invitation EXCEPT ![i] = [org |-> OrgOf(r), user |-> u, state |-> "pending"]]
      BY <1>5 DEF CreateInvitation
  <2>2. OrgOf(r) \in Nat BY <1>5 DEF CreateInvitation, TenancyTypeOK
  <2>3. invitation' \in [Invitations -> InvitationRows]
      BY <2>1, <2>2 DEF TenancyTypeOK, InvitationRows, Somebody
  <2>4. TenancyTypeOK'
      BY <1>1, <1>5, <2>3 DEF CreateInvitation, TenancyTypeOK, Proceeds, tenants
  <2>5. invitation'[i].state = "pending" /\ \A j \in Invitations \ {i} : invitation'[j] = invitation[j]
      BY <2>1 DEF TenancyTypeOK
  <2> QED BY <1>1, <2>4, <2>5, RequestMoves
<1> QED BY <1>2, <1>3, <1>4, <1>5

\* A failed Join does not get to MarkAccepted.
LEMMA AcceptPreserves ==
    ASSUME TenancyInv, NEW r \in Requests, Join(r) \/ MarkAccepted(r)
    PROVE  TenancyInv'
<1> USE LocalTypes DEF TenancyInv
<1>1. work[r] \in Locals /\ work[r].at # "idle"
    BY DEF Join, MarkAccepted, AtStep
<1>2. CASE Join(r)
  <2> DEFINE l == [work[r] EXCEPT !.at = "mark"]
  <2>1. "mark" \in Statements BY DEF Statements
  <2>2. l \in Locals /\ l.at = "mark" /\ l.invitation = work[r].invitation
      BY <1>1, <2>1 DEF Locals, Requested
  <2>3. \/ Proceeds(r, l) /\ joined' = joined \cup {work[r].invitation}
        \/ Proceeds(r, NoRequest) /\ joined' = joined
      BY <1>2 DEF Join, GoesTo, ReportError, Replies
  <2> HIDE DEF l
  <2>4. role' \in [Orgs -> [Users -> RoleNames]]
      BY <1>2 DEF Join, AddMember, TenancyTypeOK, RoleNames, Roles
  <2>5. TenancyTypeOK' /\ invitation' = invitation
      BY <1>2, <2>2, <2>3, <2>4 DEF Join, TenancyTypeOK, Proceeds, accounts
  <2> QED BY <2>2, <2>3, <2>5, RequestMoves
<1>3. CASE MarkAccepted(r)
  <2>1. Proceeds(r, NoRequest) /\ UNCHANGED <<users, linked, orgs, founded, role, tokens, joined>>
      BY <1>3 DEF MarkAccepted, Replies, accounts, tenants
  <2>2. work[r].invitation \in joined BY <1>3 DEF MarkAccepted, MarksJoined
  <2>3. invitation' \in [Invitations -> InvitationRows]
      BY <1>3 DEF MarkAccepted, TenancyTypeOK, InvitationRows
  <2>4. \A i \in Invitations \ {work[r].invitation} : invitation'[i] = invitation[i]
      BY <1>3 DEF MarkAccepted, TenancyTypeOK
  <2>5. TenancyTypeOK' BY <2>1, <2>3 DEF TenancyTypeOK, Proceeds
  <2> QED BY <2>1, <2>2, <2>4, <2>5, RequestMoves
<1> QED BY <1>2, <1>3

\* Every statement keeps what was accepted among the members.
LEMMA TenancyStep == TenancyInv /\ [TenancyNext]_tenancyVars => TenancyInv'
<1> SUFFICES ASSUME TenancyInv, [TenancyNext]_tenancyVars PROVE TenancyInv' OBVIOUS
<1>1. CASE UNCHANGED tenancyVars
    BY <1>1 DEF tenancyVars, TenancyInv, TenancyTypeOK, MarksJoined, AtStep, AcceptedHasJoined
<1>2. ASSUME NEW u \in Users, TokenExpires(u) PROVE TenancyInv'
  <2>1. tokens' \in [Users -> Claims]
      BY <1>2, LocalTypes DEF TokenExpires, TenancyInv, TenancyTypeOK
  <2> QED BY <1>2, <2>1
      DEF TokenExpires, accounts, tenants, TenancyInv, TenancyTypeOK, MarksJoined, AtStep, AcceptedHasJoined
<1>3. ASSUME NEW i \in Invitations, InvitationEnds(i) PROVE TenancyInv'
  <2>1. invitation' \in [Invitations -> InvitationRows]
        /\ \A j \in Invitations : invitation'[j].state = "accepted" => invitation[j].state = "accepted"
      BY <1>3 DEF InvitationEnds, TenancyInv, TenancyTypeOK, InvitationRows
  <2> QED BY <1>3, <2>1
      DEF InvitationEnds, accounts, tenants, TenancyInv, TenancyTypeOK, MarksJoined, AtStep,
          AcceptedHasJoined
<1> QED BY <1>1, <1>2, <1>3, SignInPreserves, AccountsPreserve, TenantsPreserve, AcceptPreserves
    DEF TenancyNext, Handles

\* HandleAccept marks an invitation accepted only after AddMember made its user
\* a member, however many requests interleave and whichever statements fail.
THEOREM AcceptedMeansJoined == TenancySpec => []AcceptedHasJoined
<1>1. TenancyInv => AcceptedHasJoined BY DEF TenancyInv
<1> QED BY <1>1, InitTenancy, TenancyStep, PTL DEF TenancySpec

=============================================================================
