---------------------------- MODULE LogForwarding -----------------------------
(***************************************************************************)
(* LogHandler of pkg/reporter: slog handlers that queue log entries for    *)
(* the control plane.  WithAttrs and WithGroup make a new handler with a   *)
(* copy of the slice, not of the entries: handlers share backing arrays,   *)
(* each under a mutex of its own.  Only the first handler has a flushLoop  *)
(* and is closed.                                                          *)
(***************************************************************************)
EXTENDS Integers, Sequences

CONSTANTS
    MaxHandlers,    \* bound: handlers made
    MaxEntries,     \* bound: entries logged
    FlushAt         \* entries that start a flush at once (50)

ASSUME LogConstants == MaxHandlers \in Nat \ {0} /\ MaxEntries \in Nat /\ FlushAt \in Nat \ {0}

Handlers == 1..MaxHandlers
Entries == 1..MaxEntries
Root == 1

VARIABLES
    heap,       \* backing arrays; 0 is an element never written
    buf,        \* per handler, the slice h.buf: its array and length
    made,       \* number of handlers
    logged,     \* number of entries
    spawned,    \* per handler, flush goroutines that have not run yet
    batches,    \* slices taken by flushes, with who flushes and of which handler
    posted,     \* per handler and entry: how often it was sent
    loop,       \* flushLoop
    closer      \* Close

vars == <<heap, buf, made, logged, spawned, batches, posted, loop, closer>>

Nil == [arr |-> 0, len |-> 0]
Slice == [arr : 0..Len(heap), len : 0..MaxEntries]

TypeOK ==
    /\ \A i \in DOMAIN heap : heap[i] \in Seq(0..MaxEntries)
    /\ buf \in [Handlers -> Slice]
    /\ made \in Handlers /\ logged \in 0..MaxEntries
    /\ spawned \in [Handlers -> 0..MaxEntries]
    /\ batches \subseteq [who : {"loop", "spawned", "closer"}, of : Handlers,
                    slice : {s \in Slice : s.len > 0}]
    /\ posted \in [Handlers -> [Entries -> Nat]]
    /\ loop \in {"select", "post", "done"} /\ closer \in {"open", "flush", "post", "closed"}

Init ==
    /\ heap = <<>> /\ batches = {}
    /\ buf = [h \in Handlers |-> Nil]
    /\ made = 1 /\ logged = 0
    /\ spawned = [h \in Handlers |-> 0]
    /\ posted = [h \in Handlers |-> [e \in Entries |-> 0]]
    /\ loop = "select" /\ closer = "open"

Content(s) == [i \in 1..s.len |-> heap[s.arr][i]]

-----------------------------------------------------------------------------
\* h.buf = append(h.buf, e): in place while the array has room, even if another
\* handler's slice reaches further; in an array of twice the size otherwise.
AppendTo(h, e) ==
    LET s == buf[h] IN
    IF s.arr # 0 /\ s.len < Len(heap[s.arr])
    THEN /\ heap' = [heap EXCEPT ![s.arr][s.len + 1] = e]
         /\ buf' = [buf EXCEPT ![h].len = s.len + 1]
    ELSE LET cap == IF s.len = 0 THEN 1 ELSE 2 * s.len IN
         /\ heap' = Append(heap, [i \in 1..cap |->
                      IF i <= s.len THEN heap[s.arr][i] ELSE IF i = s.len + 1 THEN e ELSE 0])
         /\ buf' = [buf EXCEPT ![h] = [arr |-> Len(heap) + 1, len |-> s.len + 1]]

Handle(h) ==
    /\ h <= made /\ logged < MaxEntries
    /\ logged' = logged + 1
    /\ AppendTo(h, logged')
    /\ spawned' = IF buf'[h].len >= FlushAt THEN [spawned EXCEPT ![h] = @ + 1] ELSE spawned
    /\ UNCHANGED <<made, batches, posted, loop, closer>>

\* WithAttrs and WithGroup.
With(h) ==
    /\ h <= made /\ made < MaxHandlers
    /\ made' = made + 1
    /\ buf' = [buf EXCEPT ![made'] = buf[h]]
    /\ UNCHANGED <<heap, logged, spawned, batches, posted, loop, closer>>

-----------------------------------------------------------------------------
(* flush: takes the slice under the lock; encodes and sends it without.    *)

\* flush returns at once if there is nothing to send.  Variants: an empty batch
\* is sent; only full batches are.
Always(s) == TRUE
IsFull(s) == s.len >= FlushAt
HasEntries(s) == s.len # 0

\* The slice left behind.  Variant: it is emptied in place.
InPlace(h) == [buf[h] EXCEPT !.len = 0]
LeftBy(h) == Nil

Take(h, who) ==
    /\ batches' = batches \cup {[who |-> who, of |-> h, slice |-> buf[h]]}
    /\ buf' = [buf EXCEPT ![h] = LeftBy(h)]
    /\ UNCHANGED <<heap, made, logged, posted>>

Post(who) ==
    \E b \in batches :
        LET sent == Content(b.slice) IN
        /\ b.who = who
        /\ batches' = batches \ {b}
        /\ posted' = [posted EXCEPT ![b.of] = [e \in Entries |->
                        IF \E i \in DOMAIN sent : sent[i] = e THEN @[e] + 1 ELSE @[e]]]
        /\ UNCHANGED <<heap, buf, made, logged, spawned>>

\* A goroutine started by Handle.
SpawnedFlush(h) ==
    /\ spawned[h] > 0
    /\ spawned' = [spawned EXCEPT ![h] = @ - 1]
    /\ IF HasEntries(buf[h]) THEN Take(h, "spawned")
                             ELSE UNCHANGED <<heap, buf, made, logged, batches, posted>>
    /\ UNCHANGED <<loop, closer>>

SpawnedPost == Post("spawned") /\ UNCHANGED <<loop, closer>>

LoopFlush ==
    /\ loop = "select" /\ HasEntries(buf[Root])
    /\ Take(Root, "loop")
    /\ loop' = "post"
    /\ UNCHANGED <<spawned, closer>>

LoopPost == loop = "post" /\ Post("loop") /\ loop' = "select" /\ UNCHANGED closer

LoopEnds ==
    /\ loop = "select" /\ closer # "open"
    /\ loop' = "done"
    /\ UNCHANGED <<heap, buf, made, logged, spawned, batches, posted, closer>>

CloseBegins ==
    /\ closer = "open" /\ closer' = "flush"
    /\ UNCHANGED <<heap, buf, made, logged, spawned, batches, posted, loop>>

CloseFlush ==
    /\ closer = "flush"
    /\ IF HasEntries(buf[Root])
       THEN closer' = "post" /\ Take(Root, "closer")
       ELSE closer' = "closed" /\ UNCHANGED <<heap, buf, made, logged, batches, posted>>
    /\ UNCHANGED <<spawned, loop>>

ClosePost == closer = "post" /\ Post("closer") /\ closer' = "closed" /\ UNCHANGED loop

-----------------------------------------------------------------------------
Next ==
    \/ \E h \in Handlers : Handle(h) \/ With(h) \/ SpawnedFlush(h)
    \/ SpawnedPost \/ LoopFlush \/ LoopPost \/ LoopEnds
    \/ CloseBegins \/ CloseFlush \/ ClosePost

\* The ticker fires again and again, spawned goroutines run and every request
\* ends by its timeout.  The agent may never log and never be closed.
Spec ==
    /\ Init /\ [][Next]_vars
    /\ WF_vars(LoopFlush) /\ WF_vars(LoopPost) /\ WF_vars(SpawnedPost)
    /\ WF_vars(CloseFlush) /\ WF_vars(ClosePost)
    /\ \A h \in Handlers : WF_vars(SpawnedFlush(h))

-----------------------------------------------------------------------------
(* Properties.                                                             *)

Sent(e) == \E h \in Handlers : posted[h][e] > 0

\* A handler sends an entry once, although flushLoop, Close and the goroutines
\* of full buffers flush it at the same time, and other handlers write to its
\* array while it is being encoded.
SentOncePerHandler == \A h \in Handlers : \A e \in Entries : posted[h][e] <= 1

\* "so all agent logs stream to control plane" (start.go): what is logged before
\* Close is sent, or what Close finds.
AllStreamed == \A e \in Entries : (logged >= e /\ closer = "open") ~> Sent(e)

\* The same of a logger that has no child: only the first handler has a
\* flushLoop and a Close, and its entries do not wait for a full buffer.
Streamed ==
    \A e \in Entries : (logged >= e /\ closer = "open") ~> (Sent(e) \/ made > 1)
=============================================================================
