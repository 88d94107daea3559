---------------------------------- MODULE Hub ----------------------------------
(***************************************************************************)
(* Hub and Client of web/ws, for the clients of one organization: each     *)
(* connection has a handler, a write pump and a bounded send channel, and  *)
(* requests of agents broadcast to all of them.  Broadcast iterates over   *)
(* the map of clients without the lock.  Messages are numbered; message m  *)
(* is broadcast by request m.                                              *)
(***************************************************************************)
EXTENDS Integers, Sequences, FiniteSets, SequencesExt

CONSTANTS
    Clients,
    SendBufLen,     \* capacity of a client's send channel (256)
    MaxMessages     \* bound: messages broadcast

ASSUME HubConstants == SendBufLen \in Nat \ {0} /\ MaxMessages \in Nat

VARIABLES
    hub,        \* the clients in the organization's map
    channel,    \* per client, the messages in its send channel
    closed,     \* the clients whose send channel is closed
    handler,    \* per client, HandleConnect
    conn,       \* per client, the connection
    pump,       \* per client, WritePump
    written,    \* per client that was never slow, the messages WritePump wrote
    request,    \* per message, its broadcast
    visited,    \* per message, the clients its iteration has produced
    due,        \* per message, the clients in the hub when its broadcast began
    remover,    \* the goroutines of Broadcast that remove a client
    overflowed, \* the clients whose channel was full for some message
    crashed     \* the process died: close of a closed channel, or a map race

hubVars == <<hub, channel, closed, handler, conn, pump, written, request, visited, due,
             remover, overflowed, crashed>>

Messages == 1..MaxMessages

\* Nobody is connected, or all are and the message 0 waits in their channels.
HubInit ==
    /\ hub \in {{}, Clients}
    /\ closed = {} /\ remover = {} /\ overflowed = {} /\ crashed = FALSE
    /\ channel = [c \in Clients |-> IF c \in hub THEN <<0>> ELSE <<>>]
    /\ handler = [c \in Clients |-> IF c \in hub THEN "read" ELSE "none"]
    /\ conn = [c \in Clients |-> IF c \in hub THEN "open" ELSE "none"]
    /\ pump = [c \in Clients |-> IF c \in hub THEN "select" ELSE "none"]
    /\ written = [c \in Clients |-> <<>>]
    /\ request = [m \in Messages |-> "none"]
    /\ visited = [m \in Messages |-> {}]
    /\ due = [m \in Messages |-> {}]

Iterating == \E m \in Messages : request[m] = "range"

\* A write of the map while Broadcast iterates: the runtime may detect it.
WriteMap(clients) ==
    /\ hub' = clients
    /\ \/ UNCHANGED crashed
       \/ Iterating /\ crashed' = TRUE

-----------------------------------------------------------------------------
(* Connections: HandleConnect, ReadPump and WritePump.                     *)

Connect(c) ==
    /\ ~crashed /\ handler[c] = "none"
    /\ handler' = [handler EXCEPT ![c] = "read"]
    /\ conn' = [conn EXCEPT ![c] = "open"]
    /\ pump' = [pump EXCEPT ![c] = "select"]
    /\ WriteMap(hub \cup {c})        \* Register
    /\ UNCHANGED <<channel, closed, written, request, visited, due, remover, overflowed>>

Disconnect(c) ==
    /\ conn[c] = "open" /\ conn' = [conn EXCEPT ![c] = "gone"]
    /\ UNCHANGED <<hub, channel, closed, handler, pump, written, request, visited, due,
                   remover, overflowed, crashed>>

\* Unregister.  Variant: the map of the organization goes with any client.
Emptied(c) == {}
Without(c) == hub \ {c}

\* ReadPump returns; the handler unregisters the client and returns, and the
\* context of WritePump is done.
HandlerEnds(c) ==
    /\ ~crashed /\ handler[c] = "read" /\ conn[c] # "open"
    /\ handler' = [handler EXCEPT ![c] = "done"]
    /\ WriteMap(Without(c))
    /\ UNCHANGED <<channel, closed, conn, pump, written, request, visited, due, remover, overflowed>>

PumpWrites(c) ==
    /\ ~crashed /\ pump[c] = "select" /\ channel[c] # <<>>
    /\ channel' = [channel EXCEPT ![c] = Tail(@)]
    /\ IF conn[c] = "open" /\ handler[c] = "read"
       THEN /\ written' = IF c \in overflowed THEN written
                          ELSE [written EXCEPT ![c] = Append(@, Head(channel[c]))]
            /\ UNCHANGED pump
       ELSE pump' = [pump EXCEPT ![c] = "done"] /\ UNCHANGED written
    /\ UNCHANGED <<hub, closed, handler, conn, request, visited, due, remover, overflowed, crashed>>

\* A closed and empty channel, a ping without an answer, or the context.
PumpEnds(c) ==
    /\ ~crashed /\ pump[c] = "select"
    /\ \/ c \in closed /\ channel[c] = <<>>
       \/ conn[c] # "open"
       \/ handler[c] = "done"
    /\ pump' = [pump EXCEPT ![c] = "done"]
    /\ UNCHANGED <<hub, channel, closed, handler, conn, written, request, visited, due,
                   remover, overflowed, crashed>>

-----------------------------------------------------------------------------
(* Broadcast, called by the ingestion handlers after the event is stored.  *)

BroadcastBegins(m) ==
    /\ ~crashed /\ request[m] = "none" /\ \A n \in 1..(m - 1) : request[n] # "none"
    /\ request' = [request EXCEPT ![m] = "range"]
    /\ due' = [due EXCEPT ![m] = hub]
    /\ UNCHANGED <<hub, channel, closed, handler, conn, pump, written, visited,
                   remover, overflowed, crashed>>

\* Variant: a client with one free place is served as if it had none.
AlmostFull(c) == Len(channel[c]) >= SendBufLen - 1
Full(c) == Len(channel[c]) >= SendBufLen

\* The iteration reaches a client.  A send on a closed channel panics; the
\* Recoverer of the router ends the request.
BroadcastSends(m, c) ==
    /\ ~crashed /\ request[m] = "range" /\ c \in hub \ visited[m]
    /\ visited' = [visited EXCEPT ![m] = @ \cup {c}]
    /\ IF c \in closed
       THEN request' = [request EXCEPT ![m] = "recovered"]
            /\ UNCHANGED <<channel, remover, overflowed>>
       ELSE /\ UNCHANGED request
            /\ IF Full(c)
               THEN /\ remover' = remover \cup {[by |-> m, of |-> c, at |-> "unregister"]}
                    /\ overflowed' = IF Len(channel[c]) = SendBufLen
                                     THEN overflowed \cup {c} ELSE overflowed
                    /\ UNCHANGED channel
               ELSE /\ channel' = [channel EXCEPT ![c] = Append(@, m)]
                    /\ UNCHANGED <<remover, overflowed>>
    /\ UNCHANGED <<hub, closed, handler, conn, pump, written, due, crashed>>

\* Clients added during the iteration may or may not be produced.
BroadcastEnds(m) ==
    /\ ~crashed /\ request[m] = "range" /\ hub \cap due[m] \subseteq visited[m]
    /\ request' = [request EXCEPT ![m] = "done"]
    /\ visited' = [visited EXCEPT ![m] = {}]
    /\ UNCHANGED <<hub, channel, closed, handler, conn, pump, written, due,
                   remover, overflowed, crashed>>

RemoverUnregisters(r) ==
    /\ ~crashed /\ r.at = "unregister"
    /\ remover' = (remover \ {r}) \cup {[r EXCEPT !.at = "close"]}
    /\ WriteMap(Without(r.of))
    /\ UNCHANGED <<channel, closed, handler, conn, pump, written, request, visited, due, overflowed>>

\* Client.Close: a channel that is closed already panics outside any request.
RemoverCloses(r) ==
    /\ ~crashed /\ r.at = "close"
    /\ remover' = remover \ {r}
    /\ closed' = closed \cup {r.of}
    /\ crashed' = (r.of \in closed)
    /\ conn' = [conn EXCEPT ![r.of] = "gone"]
    /\ UNCHANGED <<hub, channel, handler, pump, written, request, visited, due, overflowed>>

ServeClient(c) == HandlerEnds(c) \/ PumpWrites(c) \/ PumpEnds(c)

HubNext ==
    \/ \E c \in Clients : Connect(c) \/ Disconnect(c) \/ ServeClient(c)
    \/ \E m \in Messages : BroadcastBegins(m) \/ BroadcastEnds(m)
    \/ \E m \in Messages, c \in Clients : BroadcastSends(m, c)
    \/ \E r \in remover : RemoverUnregisters(r) \/ RemoverCloses(r)

HubSpec == HubInit /\ [][HubNext]_hubVars

-----------------------------------------------------------------------------
(* Properties.                                                             *)

\* A broadcast ended at the closed channel of a client that was too slow.
Stream(c) == written[c] \o channel[c]
Panicked(m) == request[m] = "recovered" /\ visited[m] \cap closed \cap overflowed # {}

\* The stream of a client that is connected and was never too slow holds each
\* message whose broadcast began after it registered and is over, once; it
\* misses one only if that broadcast panicked, on the channel of another client
\* that was too slow, before it came to this one.
StreamComplete ==
    \A c \in Clients : (conn[c] = "open" /\ pump[c] = "select" /\ c \notin overflowed) =>
        /\ IsInjective(Stream(c))
        /\ \A m \in Messages : (c \in due[m] /\ ~Contains(Stream(c), m)) =>
              c \notin visited[m] /\ (request[m] = "range" \/ Panicked(m))
=============================================================================
