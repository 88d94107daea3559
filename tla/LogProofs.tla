----------------------------- MODULE LogProofs ------------------------------
(***************************************************************************)
(* An entry is sent once by each handler that has it, for any number of    *)
(* handlers derived from one another and any number of entries.            *)
(***************************************************************************)
EXTENDS LogForwarding, LogFiles, SequenceTheorems, FiniteSetTheorems, TLAPS

\* The slice s of the arrays h holds the entry e.
Holds(h, s, e) == \E i \in 1..s.len : h[s.arr][i] = e

LogTypeOK ==
    /\ heap \in Seq(Seq(0..MaxEntries)) /\ made \in Handlers /\ logged \in 0..MaxEntries
    /\ buf \in [Handlers -> [arr : 0..Len(heap), len : 0..logged]]
    /\ batches \subseteq [who : {"loop", "spawned", "closer"}, of : Handlers,
                          slice : [arr : 1..Len(heap), len : 1..logged]]
    /\ spawned \in [Handlers -> 0..logged]
    /\ posted \in [Handlers -> [Entries -> Nat]]

\* A slice lies inside its array, and a handler that is not made has nothing.
InsideArray ==
    /\ \A h \in Handlers : buf[h].len > 0 => buf[h].arr # 0
    /\ \A h \in Handlers : buf[h].arr # 0 => buf[h].len <= Len(heap[buf[h].arr])
    /\ \A b \in batches : b.slice.len <= Len(heap[b.slice.arr])
OnlyMade ==
    \A h \in Handlers : h > made =>
        /\ buf[h] = Nil /\ \A b \in batches : b.of # h
        /\ \A e \in Entries : posted[h][e] = 0

\* Entries are numbered as they are logged: the next one is nowhere.
OnlyLogged ==
    /\ \A a \in 1..Len(heap) : \A i \in 1..Len(heap[a]) : heap[a][i] <= logged
    /\ \A h \in Handlers, e \in Entries : e > logged => posted[h][e] = 0

\* The slices of one handler are in different arrays and share no entry, and
\* hold none that the handler sent.
Apart ==
    /\ \A b, c \in batches : b.of = c.of /\ b.slice.arr = c.slice.arr => b = c
    /\ \A b \in batches : b.slice.arr # buf[b.of].arr
OneSlice ==
    \A e \in Entries :
        /\ \A b, c \in batches :
              b.of = c.of /\ Holds(heap, b.slice, e) /\ Holds(heap, c.slice, e) => b = c
        /\ \A b \in batches : ~(Holds(heap, b.slice, e) /\ Holds(heap, buf[b.of], e))
NotSent ==
    \A e \in Entries :
        /\ \A b \in batches : Holds(heap, b.slice, e) => posted[b.of][e] = 0
        /\ \A h \in Handlers : Holds(heap, buf[h], e) => posted[h][e] = 0

LogInv ==
    /\ LogTypeOK /\ InsideArray /\ OnlyMade /\ OnlyLogged
    /\ Apart /\ OneSlice /\ NotSent /\ SentOncePerHandler

-----------------------------------------------------------------------------
\* Nothing is logged.
LEMMA InitLog == Init => LogInv
<1> SUFFICES ASSUME Init PROVE LogInv OBVIOUS
<1>1. heap = <<>> /\ Len(heap) = 0 /\ batches = {} /\ logged = 0 BY DEF Init
<1>2. LogTypeOK BY <1>1, LogConstants DEF Init, LogTypeOK, Nil, Handlers
<1>3. \A h \in Handlers : buf[h] = [arr |-> 0, len |-> 0] BY DEF Init, Nil
<1>4. \A h \in Handlers, e \in Entries : posted[h][e] = 0 BY DEF Init
<1>5. InsideArray /\ OnlyMade /\ OnlyLogged
    BY <1>1, <1>3, <1>4 DEF InsideArray, OnlyMade, OnlyLogged, Nil
<1>6. Apart /\ OneSlice /\ NotSent /\ SentOncePerHandler
    BY <1>1, <1>3, <1>4 DEF Apart, OneSlice, NotSent, SentOncePerHandler, Holds
<1> QED BY <1>2, <1>5, <1>6 DEF LogInv

\* append: the slice has one more entry; what else changes is the element that
\* follows it in the same array, and only to that entry.
Appended(h, e, a) ==
    LET n == buf[h].len IN
    /\ buf' = [buf EXCEPT ![h] = [arr |-> a, len |-> n + 1]]
    /\ heap' \in Seq(Seq(0..MaxEntries))
    /\ Len(heap) <= Len(heap') /\ a \in 1..Len(heap')
    /\ \A x \in 1..Len(heap') : x <= Len(heap) \/ x = a
    /\ a = buf[h].arr \/ a = Len(heap) + 1
    /\ n + 1 <= Len(heap'[a]) /\ heap'[a][n + 1] = e
    /\ \A i \in 1..n : heap'[a][i] = heap[buf[h].arr][i]
    /\ a > Len(heap) => \A i \in 1..Len(heap'[a]) : i > n => heap'[a][i] \in {0, e}
    /\ \A x \in 1..Len(heap) :
          /\ Len(heap'[x]) = Len(heap[x])
          /\ \A i \in 1..Len(heap[x]) :
                heap'[x][i] = heap[x][i] \/ (x = a /\ heap'[x][i] = e)

\* append finds room in the array, or moves the slice to a new one.
LEMMA AppendEffect ==
    ASSUME LogTypeOK, InsideArray, NEW h \in Handlers, NEW e \in Entries, AppendTo(h, e)
    PROVE  \E a \in Nat : Appended(h, e, a)
<1> DEFINE s == buf[h]
<1>1. s \in [arr : 0..Len(heap), len : 0..logged] /\ Len(heap) \in Nat /\ logged \in Nat
    BY LogConstants DEF LogTypeOK
<1>2. s.arr # 0 => /\ heap[s.arr] \in Seq(0..MaxEntries) /\ s.len <= Len(heap[s.arr])
                   /\ Len(heap[s.arr]) \in Nat
  <2> SUFFICES ASSUME s.arr # 0 PROVE /\ heap[s.arr] \in Seq(0..MaxEntries)
                                      /\ s.len <= Len(heap[s.arr])
      OBVIOUS
  <2>1. s.arr \in 1..Len(heap) BY <1>1
  <2>2. heap[s.arr] \in Seq(0..MaxEntries) BY <2>1, ElementOfSeq DEF LogTypeOK
  <2> QED BY <2>2 DEF InsideArray
<1>3. e \in 0..MaxEntries BY LogConstants DEF Entries
<1>4. CASE s.arr # 0 /\ s.len < Len(heap[s.arr])
  <2> DEFINE a == s.arr
             n == s.len
  <2>1. heap' = [heap EXCEPT ![a][n + 1] = e] /\ buf' = [buf EXCEPT ![h].len = n + 1]
      BY <1>4 DEF AppendTo
  <2>2. a \in 1..Len(heap) /\ n + 1 \in 1..Len(heap[a]) BY <1>1, <1>2, <1>4
  <2>3. buf' = [buf EXCEPT ![h] = [arr |-> a, len |-> n + 1]]
    <3>1. [buf[h] EXCEPT !.len = n + 1] = [arr |-> a, len |-> n + 1] BY <1>1
    <3> QED BY <2>1, <3>1
  <2> DEFINE new == [heap[a] EXCEPT ![n + 1] = e]
  <2>4. new \in Seq(0..MaxEntries) /\ Len(new) = Len(heap[a]) BY <1>2, <1>3, <2>2
  <2>5. heap' = [heap EXCEPT ![a] = new] BY <2>1
  <2> HIDE DEF new, a
  <2>6. /\ heap' \in Seq(Seq(0..MaxEntries)) /\ Len(heap') = Len(heap)
        /\ heap'[a] = new /\ \A x \in 1..Len(heap) : x # a => heap'[x] = heap[x]
      BY <1>1, <2>2, <2>4, <2>5 DEF LogTypeOK
  <2> USE DEF new, a
  <2>7. heap'[a][n + 1] = e /\ \A i \in 1..Len(heap[a]) : i # n + 1 => heap'[a][i] = heap[a][i]
      BY <1>2, <2>2, <2>6
  <2>8. \A i \in 1..n : heap'[a][i] = heap[a][i] BY SMTT(30), <1>1, <1>4, <2>2, <2>7
  <2> HIDE DEF a, n, new
  <2>9. Appended(h, e, a)
    <3> SUFFICES \A x \in 1..Len(heap) :
            /\ Len(heap'[x]) = Len(heap[x])
            /\ \A i \in 1..Len(heap[x]) :
                  heap'[x][i] = heap[x][i] \/ (x = a /\ heap'[x][i] = e)
        BY <1>1, <2>2, <2>3, <2>4, <2>6, <2>7, <2>8 DEF Appended, a, n
    <3> QED BY <2>4, <2>6, <2>7
  <2> QED BY <1>1, <2>9 DEF a
<1>5. CASE ~(s.arr # 0 /\ s.len < Len(heap[s.arr]))
  <2> DEFINE cap == IF s.len = 0 THEN 1 ELSE 2 * s.len
             n == s.len
             a == Len(heap) + 1
             new == [i \in 1..cap |-> IF i <= n THEN heap[s.arr][i]
                                      ELSE IF i = n + 1 THEN e ELSE 0]
  <2>1. heap' = Append(heap, new) /\ buf' = [buf EXCEPT ![h] = [arr |-> a, len |-> n + 1]]
      BY <1>5 DEF AppendTo
  <2>2. cap \in Nat /\ n \in Nat /\ n + 1 <= cap BY <1>1
  <2>3. \A i \in 1..n : heap[s.arr][i] \in 0..MaxEntries
    <3> SUFFICES ASSUME NEW i \in 1..n PROVE heap[s.arr][i] \in 0..MaxEntries OBVIOUS
    <3>1. s.len \in Nat /\ s.len > 0 /\ i \in 1..s.len BY <1>1
    <3>2. s.arr # 0 BY <3>1 DEF InsideArray
    <3>3. heap[s.arr] \in Seq(0..MaxEntries) /\ i \in 1..Len(heap[s.arr])
        BY <1>2, <3>1, <3>2
    <3> QED BY <3>3, ElementOfSeq
  <2> HIDE DEF cap, n
  <2>4. \A i \in 1..cap : new[i] \in 0..MaxEntries BY <1>3, <2>2, <2>3, LogConstants
  <2>5. new \in Seq(0..MaxEntries) /\ Len(new) = cap
    <3>1. new \in [1..cap -> 0..MaxEntries] BY <2>4
    <3> QED BY <2>2, <3>1, SeqDef
  <2>6. /\ new[n + 1] = e /\ \A i \in 1..n : new[i] = heap[s.arr][i]
        /\ \A i \in 1..cap : i > n => new[i] \in {0, e}
      BY <2>2
  <2> HIDE DEF new
  <2>7. heap' \in Seq(Seq(0..MaxEntries)) /\ Len(heap') = a
        /\ heap'[a] = new /\ \A x \in 1..Len(heap) : heap'[x] = heap[x]
      BY <1>1, <2>1, <2>5 DEF LogTypeOK
  <2>8. Appended(h, e, a)
    <3> HIDE DEF a
    <3>1. a \in Nat /\ a = Len(heap) + 1 BY <1>1 DEF a
    <3> QED BY <1>1, <2>1, <2>2, <2>5, <2>6, <2>7, <3>1 DEF Appended, n
  <2> QED BY <1>1, <2>8
<1> QED BY <1>4, <1>5

\* An entry is appended to the slice of one handler.
LEMMA HandlePreserves == ASSUME LogInv, NEW h \in Handlers, Handle(h) PROVE LogInv'
<1> DEFINE e == logged + 1
           n == buf[h].len
<1> USE DEF LogInv
<1>1. /\ logged' = e /\ e \in Entries /\ h <= made /\ AppendTo(h, e)
      /\ UNCHANGED <<made, batches, posted>>
      /\ spawned' \in {spawned, [spawned EXCEPT ![h] = spawned[h] + 1]}
      /\ logged \in Nat
  <2>1. logged \in Nat /\ (logged < MaxEntries => e \in Entries)
      BY LogConstants DEF LogTypeOK, Entries
  <2>2. logged' = e /\ logged < MaxEntries BY DEF Handle
  <2>3. AppendTo(h, e) /\ h <= made BY <2>2 DEF Handle
  <2>4. UNCHANGED <<made, batches, posted>> BY DEF Handle
  <2>5. spawned' \in {spawned, [spawned EXCEPT ![h] = spawned[h] + 1]} BY DEF Handle
  <2> QED BY <2>1, <2>2, <2>3, <2>4, <2>5
<1>2. PICK a \in Nat : Appended(h, e, a) BY <1>1, AppendEffect
<1>3. /\ buf[h].arr \in 0..Len(heap) /\ n \in Nat /\ n <= logged /\ Len(heap) \in Nat
      /\ \A x \in 1..Len(heap) : Len(heap[x]) \in Nat
  <2>1. \A x \in 1..Len(heap) : heap[x] \in Seq(0..MaxEntries) BY ElementOfSeq DEF LogTypeOK
  <2> QED BY SMTT(30), <1>1, <2>1 DEF LogTypeOK
<1> HIDE DEF e, n
<1>4. e \in Nat /\ e = logged + 1 BY <1>1 DEF e
<1>5. buf'[h] = [arr |-> a, len |-> n + 1] /\ \A g \in Handlers \ {h} : buf'[g] = buf[g]
    BY <1>2 DEF Appended, LogTypeOK, n
<1>6. LogTypeOK'
  <2>0. /\ Len(heap') \in Nat /\ Len(heap) <= Len(heap') /\ a \in 1..Len(heap')
        /\ heap' \in Seq(Seq(0..MaxEntries))
      BY <1>2 DEF Appended
  <2>1. buf' \in [Handlers -> [arr : 0..Len(heap'), len : 0..logged']]
    <3>1. \A g \in Handlers : buf'[g] \in [arr : 0..Len(heap'), len : 0..logged']
      <4>1. buf'[h] \in [arr : 0..Len(heap'), len : 0..logged']
          BY <1>1, <1>3, <1>4, <1>5, <2>0
      <4>2. \A g \in Handlers \ {h} : buf[g] \in [arr : 0..Len(heap), len : 0..logged]
          BY DEF LogTypeOK
      <4>3. 0..Len(heap) \subseteq 0..Len(heap') /\ 0..logged \subseteq 0..logged'
          BY <1>1, <1>3, <1>4, <2>0
      <4>4. \A g \in Handlers \ {h} : buf'[g] \in [arr : 0..Len(heap'), len : 0..logged']
          BY <1>5, <4>2, <4>3
      <4> QED BY <4>1, <4>4
    <3>2. \E f : buf' = [buf EXCEPT ![h] = f] BY <1>2 DEF Appended
    <3> QED BY <3>1, <3>2 DEF LogTypeOK
  <2>2. batches \subseteq [who : {"loop", "spawned", "closer"}, of : Handlers,
                          slice : [arr : 1..Len(heap'), len : 1..logged']]
    <3>1. 1..Len(heap) \subseteq 1..Len(heap') /\ 1..logged \subseteq 1..logged'
        BY <1>1, <1>3, <1>4, <2>0
    <3> QED BY <3>1 DEF LogTypeOK
  <2>3. spawned' \in [Handlers -> 0..logged']
    <3>1. 0..logged \subseteq 0..logged' /\ \A m \in 0..logged : m + 1 \in 0..logged'
        BY <1>1, <1>4
    <3>2. spawned \in [Handlers -> 0..logged] BY DEF LogTypeOK
    <3> QED BY <1>1, <3>1, <3>2
  <2>4. logged' \in 0..MaxEntries BY <1>1, LogConstants DEF Entries
  <2> QED BY <1>1, <2>0, <2>1, <2>2, <2>3, <2>4 DEF LogTypeOK
<1>7. \A b \in batches : /\ b.slice.arr \in 1..Len(heap) /\ b.slice.len \in Nat
                         /\ b.slice.len <= Len(heap[b.slice.arr]) /\ b.of \in Handlers
  <2> SUFFICES ASSUME NEW b \in batches
               PROVE  /\ b.slice.arr \in 1..Len(heap) /\ b.slice.len \in Nat
                      /\ b.slice.len <= Len(heap[b.slice.arr]) /\ b.of \in Handlers
      OBVIOUS
  <2>1. b \in [who : {"loop", "spawned", "closer"}, of : Handlers,
               slice : [arr : 1..Len(heap), len : 1..logged]]
      BY DEF LogTypeOK
  <2>2. b.slice.arr \in 1..Len(heap) /\ b.slice.len \in 1..logged /\ b.of \in Handlers BY <2>1
  <2>3. b.slice.len <= Len(heap[b.slice.arr]) BY DEF InsideArray
  <2> QED BY <1>1, <2>2, <2>3
<1>8. InsideArray'
  <2>1. \A g \in Handlers \ {h} :
           /\ buf'[g].len > 0 => buf'[g].arr # 0
           /\ buf'[g].arr # 0 => buf'[g].len <= Len(heap'[buf'[g].arr])
    <3> SUFFICES ASSUME NEW g \in Handlers \ {h}
                 PROVE  /\ buf[g].len > 0 => buf[g].arr # 0
                        /\ buf[g].arr # 0 => buf[g].len <= Len(heap'[buf[g].arr])
        BY <1>5
    <3>1. buf[g].arr # 0 => buf[g].arr \in 1..Len(heap) BY <1>3 DEF LogTypeOK
    <3>2. \A x \in 1..Len(heap) : Len(heap'[x]) = Len(heap[x]) BY <1>2 DEF Appended
    <3> QED BY <3>1, <3>2 DEF InsideArray
  <2>2. buf'[h].arr # 0 /\ buf'[h].len <= Len(heap'[buf'[h].arr])
      BY <1>2, <1>5 DEF Appended, n
  <2>3. \A b \in batches : b.slice.len <= Len(heap'[b.slice.arr])
    <3>1. \A x \in 1..Len(heap) : Len(heap'[x]) = Len(heap[x]) BY <1>2 DEF Appended
    <3> QED BY <1>7, <3>1
  <2>4. \A g \in Handlers :
           /\ buf'[g].len > 0 => buf'[g].arr # 0
           /\ buf'[g].arr # 0 => buf'[g].len <= Len(heap'[buf'[g].arr])
      BY <2>1, <2>2
  <2>5. batches' = batches BY <1>1
  <2> QED BY <2>3, <2>4, <2>5 DEF InsideArray
<1>9. OnlyMade'
  <2>1. \A g \in Handlers : g > made => g # h
      BY <1>1, LogConstants DEF LogTypeOK, Handlers
  <2> QED BY <1>1, <1>5, <2>1 DEF OnlyMade
<1>10. OnlyLogged'
  <2>1. ASSUME NEW x \in 1..Len(heap'), NEW i \in 1..Len(heap'[x]) PROVE heap'[x][i] <= logged'
    <3>1. heap'[x][i] \in Nat
      <4>1. heap'[x] \in Seq(0..MaxEntries) BY <1>2, ElementOfSeq DEF Appended
      <4>2. heap'[x][i] \in 0..MaxEntries BY <4>1, ElementOfSeq
      <4> QED BY <4>2, LogConstants
    <3>2. CASE x \in 1..Len(heap)
      <4>1. Len(heap'[x]) = Len(heap[x]) /\ (heap'[x][i] = heap[x][i] \/ heap'[x][i] = e)
          BY <1>2, <2>1, <3>2 DEF Appended
      <4>2. heap[x][i] <= logged BY <2>1, <3>2, <4>1 DEF OnlyLogged
      <4>3. heap[x][i] = heap'[x][i] => heap'[x][i] <= e BY <1>1, <1>4, <3>1, <4>2
      <4> QED BY <1>1, <1>4, <4>1, <4>3
    <3>3. CASE x \notin 1..Len(heap)
      <4>1. x = a /\ a > Len(heap) /\ i \in Nat /\ i >= 1 BY <1>2, <1>3, <3>3 DEF Appended
      <4>2. CASE i <= n
        <5>1. heap'[x][i] = heap[buf[h].arr][i] BY <1>2, <1>3, <4>1, <4>2 DEF Appended, n
        <5>2. buf[h].arr \in 1..Len(heap) /\ i \in 1..Len(heap[buf[h].arr])
            BY <1>3, <4>1, <4>2 DEF InsideArray, n
        <5>3. heap[buf[h].arr][i] <= logged BY <5>2 DEF OnlyLogged
        <5> QED BY <1>1, <1>4, <3>1, <5>1, <5>3
      <4>3. CASE i > n
        <5>1. heap'[x][i] \in {0, e} BY <1>2, <2>1, <4>1, <4>3 DEF Appended, n
        <5> QED BY <1>1, <1>4, <5>1
      <4> QED BY <1>3, <4>1, <4>2, <4>3
    <3> QED BY <3>2, <3>3
  <2>2. \A g \in Handlers, d \in Entries : d > logged' => posted[g][d] = 0
      BY <1>1, <1>4 DEF OnlyLogged, Entries
  <2> QED BY <1>1, <2>1, <2>2 DEF OnlyLogged
\* No slice held the entry before; a slice that holds it now is in the array.
<1>11. ASSUME NEW s \in [arr : 0..Len(heap), len : Nat], NEW d \in Entries,
              s.len > 0 => s.arr # 0, s.arr # 0 => s.len <= Len(heap[s.arr])
       PROVE  /\ Holds(heap', s, d) => Holds(heap, s, d) \/ (d = e /\ s.arr = a)
              /\ ~Holds(heap, s, e)
  <2>1. ASSUME NEW i \in 1..s.len
        PROVE  /\ s.arr \in 1..Len(heap) /\ i \in 1..Len(heap[s.arr]) /\ heap[s.arr][i] # e
    <3>1. s.arr \in 1..Len(heap) /\ i \in 1..Len(heap[s.arr]) BY <1>3, <1>11, <2>1
    <3>2. heap[s.arr][i] <= logged BY <3>1 DEF OnlyLogged
    <3> QED BY <1>1, <1>4, <3>1, <3>2
  <2>2. ~Holds(heap, s, e) BY <2>1 DEF Holds
  <2>3. ASSUME Holds(heap', s, d) PROVE Holds(heap, s, d) \/ (d = e /\ s.arr = a)
    <3>1. PICK i \in 1..s.len : heap'[s.arr][i] = d BY <2>3 DEF Holds
    <3>2. heap'[s.arr][i] = heap[s.arr][i] \/ (s.arr = a /\ heap'[s.arr][i] = e)
        BY <1>2, <2>1 DEF Appended
    <3> QED BY <3>1, <3>2 DEF Holds
  <2> QED BY <2>2, <2>3
<1>12. ASSUME NEW d \in Entries PROVE Holds(heap', buf'[h], d) => Holds(heap, buf[h], d) \/ d = e
  <2> SUFFICES ASSUME NEW i \in 1..(n + 1), heap'[a][i] = d, d # e PROVE Holds(heap, buf[h], d)
      BY <1>5 DEF Holds
  <2>1. i \in 1..n BY SMTT(30), <1>2, <1>3 DEF Appended, n
  <2> QED BY <1>2, <2>1 DEF Appended, Holds, n
<1>13. \A g \in Handlers : posted[g][e] = 0 BY <1>1, <1>4 DEF OnlyLogged
<1>14. Apart'
  <2>1. ASSUME NEW b \in batches PROVE b.slice.arr # buf'[b.of].arr
    <3>1. CASE b.of = h
      <4>1. b.slice.arr # buf[h].arr /\ b.slice.arr <= Len(heap) BY <1>3, <1>7, <3>1 DEF Apart
      <4>2. buf'[h].arr = a /\ (a = buf[h].arr \/ a = Len(heap) + 1)
          BY <1>2, <1>5 DEF Appended
      <4> QED BY <1>3, <1>7, <3>1, <4>1, <4>2
    <3>2. CASE b.of # h BY <1>5, <1>7, <3>2 DEF Apart
    <3> QED BY <3>1, <3>2
  <2> QED BY <1>1, <2>1 DEF Apart
<1>15. \A b \in batches, d \in Entries :
          /\ Holds(heap', b.slice, d) => Holds(heap, b.slice, d) \/ (d = e /\ b.slice.arr = a)
          /\ ~Holds(heap, b.slice, e)
  <2> TAKE b \in batches, d \in Entries
  <2>1. b.slice \in [arr : 1..Len(heap), len : 1..logged] BY DEF LogTypeOK
  <2>2. b.slice \in [arr : 0..Len(heap), len : Nat] /\ b.slice.arr # 0 BY <1>1, <1>3, <2>1
  <2> QED BY <1>7, <1>11, <2>2
<1>16. \A g \in Handlers \ {h}, d \in Entries :
          /\ Holds(heap', buf'[g], d) => Holds(heap, buf[g], d) \/ (d = e /\ buf[g].arr = a)
          /\ ~Holds(heap, buf[g], e)
  <2> TAKE g \in Handlers \ {h}, d \in Entries
  <2>1. buf[g] \in [arr : 0..Len(heap), len : Nat] BY <1>1 DEF LogTypeOK
  <2>2. /\ buf[g].len > 0 => buf[g].arr # 0
        /\ buf[g].arr # 0 => buf[g].len <= Len(heap[buf[g].arr])
      BY DEF InsideArray
  <2> QED BY <1>5, <1>11, <2>1, <2>2
<1>17. OneSlice'
  <2> SUFFICES ASSUME NEW d \in Entries
               PROVE  /\ \A b, c \in batches : b.of = c.of /\ Holds(heap', b.slice, d)
                                               /\ Holds(heap', c.slice, d) => b = c
                      /\ \A b \in batches :
                            ~(Holds(heap', b.slice, d) /\ Holds(heap', buf'[b.of], d))
      BY <1>1 DEF OneSlice
  <2>1. CASE d = e
    <3>1. \A b \in batches : Holds(heap', b.slice, d) => b.slice.arr = a BY <1>15, <2>1
    <3>2. \A b \in batches : Holds(heap', b.slice, d) /\ Holds(heap', buf'[b.of], d) =>
                               buf'[b.of].arr = a
        BY <1>5, <1>7, <1>16, <2>1
    <3> QED BY <1>1, <1>14, <3>1, <3>2 DEF Apart
  <2>2. CASE d # e
    <3>1. \A b \in batches : /\ Holds(heap', b.slice, d) => Holds(heap, b.slice, d)
                             /\ Holds(heap', buf'[b.of], d) => Holds(heap, buf[b.of], d)
        BY <1>7, <1>12, <1>15, <1>16, <2>2
    <3> QED BY <3>1 DEF OneSlice
  <2> QED BY <2>1, <2>2
<1>18. NotSent'
  <2>1. ASSUME NEW d \in Entries, NEW b \in batches, Holds(heap', b.slice, d)
        PROVE  posted[b.of][d] = 0
      BY <1>7, <1>13, <1>15, <2>1 DEF NotSent
  <2>2. ASSUME NEW d \in Entries, NEW g \in Handlers, Holds(heap', buf'[g], d)
        PROVE  posted[g][d] = 0
      BY <1>12, <1>13, <1>16, <2>2 DEF NotSent
  <2> QED BY <1>1, <2>1, <2>2 DEF NotSent
<1> QED BY <1>1, <1>6, <1>8, <1>9, <1>10, <1>14, <1>17, <1>18 DEF SentOncePerHandler

\* The new handler has the slice of its parent, and nothing else.
LEMMA WithPreserves == ASSUME LogInv, NEW h \in Handlers, With(h) PROVE LogInv'
<1> DEFINE g == made + 1
<1> USE DEF LogInv
<1>1. /\ h <= made /\ made' = g /\ g \in Handlers /\ g > made
      /\ buf' = [buf EXCEPT ![g] = buf[h]]
      /\ UNCHANGED <<heap, logged, spawned, batches, posted>>
    BY LogConstants DEF With, LogTypeOK, Handlers
<1>2. \A x \in Handlers : x > g => x > made BY <1>1, LogConstants DEF Handlers, LogTypeOK
<1> HIDE DEF g
<1>3. buf'[g] = buf[h] /\ \A x \in Handlers \ {g} : buf'[x] = buf[x]
    BY <1>1 DEF LogTypeOK
<1>4. buf' \in [Handlers -> [arr : 0..Len(heap), len : 0..logged]] BY <1>1 DEF LogTypeOK
<1>5. LogTypeOK' BY <1>1, <1>4 DEF LogTypeOK
<1>6. /\ \A b \in batches : b.of # g /\ b.of \in Handlers
      /\ \A e \in Entries : posted[g][e] = 0
    BY <1>1 DEF OnlyMade, LogTypeOK
<1>7. \A b \in batches : buf'[b.of] = buf[b.of] BY <1>3, <1>6
<1>8. InsideArray' /\ OnlyLogged' BY <1>1, <1>3 DEF InsideArray, OnlyLogged
<1>9. OnlyMade'
  <2> SUFFICES ASSUME NEW x \in Handlers, x > g
               PROVE  /\ buf'[x] = Nil /\ \A b \in batches : b.of # x
                      /\ \A e \in Entries : posted[x][e] = 0
      BY <1>1 DEF OnlyMade
  <2>1. x # g /\ x > made BY <1>1, <1>2 DEF Handlers
  <2> QED BY <1>3, <2>1 DEF OnlyMade
<1>10. Apart' /\ OneSlice' BY <1>1, <1>7 DEF Apart, OneSlice
<1>11. NotSent'
  <2>1. \A e \in Entries, x \in Handlers : Holds(heap, buf'[x], e) => posted[x][e] = 0
      BY <1>3, <1>6 DEF NotSent
  <2> QED BY <1>1, <2>1 DEF NotSent
<1> QED BY <1>1, <1>5, <1>8, <1>9, <1>10, <1>11 DEF SentOncePerHandler

\* A flush moves the slice of the handler into a batch.
LEMMA TakePreserves ==
    ASSUME LogInv, NEW h \in Handlers, NEW who \in {"loop", "spawned", "closer"},
           HasEntries(buf[h]), Take(h, who), spawned' \in [Handlers -> 0..logged]
    PROVE  LogInv'
<1> DEFINE new == [who |-> who, of |-> h, slice |-> buf[h]]
<1> USE DEF LogInv
<1>1. /\ batches' = batches \cup {new} /\ buf' = [buf EXCEPT ![h] = Nil]
      /\ UNCHANGED <<heap, made, logged, posted>>
    BY DEF Take, LeftBy
<1>2. new.of = h /\ new.slice = buf[h] /\ new.who = who OBVIOUS
<1>3. buf[h] \in [arr : 0..Len(heap), len : 0..logged] /\ buf[h].len # 0
      /\ logged \in Nat /\ Len(heap) \in Nat
    BY LogConstants DEF LogTypeOK, HasEntries
<1>4. buf[h].len > 0 /\ buf[h].arr # 0 /\ buf[h].len <= Len(heap[buf[h].arr])
    BY <1>3 DEF InsideArray
<1>5. buf[h] \in [arr : 1..Len(heap), len : 1..logged] BY <1>3, <1>4
<1>6. new \in [who : {"loop", "spawned", "closer"}, of : Handlers,
               slice : [arr : 1..Len(heap), len : 1..logged]]
    BY <1>5
<1> HIDE DEF new
<1>7. buf'[h] = Nil /\ \A g \in Handlers \ {h} : buf'[g] = buf[g] BY <1>1 DEF LogTypeOK
<1>8. LogTypeOK'
  <2>1. Nil \in [arr : 0..Len(heap), len : 0..logged] BY <1>3 DEF Nil
  <2> QED BY <1>1, <1>6, <2>1 DEF LogTypeOK
<1>9. Nil.len = 0 /\ Nil.arr = 0 /\ \A e : ~Holds(heap, Nil, e) BY DEF Nil, Holds
<1>10. InsideArray' BY <1>1, <1>2, <1>4, <1>7, <1>9 DEF InsideArray
<1>11. OnlyMade'
  <2>1. h > made => buf[h] = Nil BY DEF OnlyMade
  <2>2. ~(h > made) BY <1>3, <1>9, <2>1
  <2> QED BY <1>1, <1>2, <1>7, <2>2 DEF OnlyMade
<1>12. OnlyLogged' BY <1>1 DEF OnlyLogged
<1>13. ASSUME NEW b \in batches PROVE b.of \in Handlers /\ b.slice.arr # 0
  <2>1. b \in [who : {"loop", "spawned", "closer"}, of : Handlers,
               slice : [arr : 1..Len(heap), len : 1..logged]]
      BY DEF LogTypeOK
  <2>2. b.of \in Handlers /\ b.slice \in [arr : 1..Len(heap), len : 1..logged] BY <2>1
  <2>3. b.slice.arr \in 1..Len(heap) BY <2>2
  <2> QED BY <2>2, <2>3
<1>14. Apart'
  <2>1. \A b \in batches : b.of = h => b.slice.arr # new.slice.arr BY <1>2 DEF Apart
  <2>2. \A b \in batches' : b.slice.arr # buf'[b.of].arr
      BY <1>1, <1>2, <1>4, <1>7, <1>9, <1>13 DEF Apart
  <2> QED BY <1>1, <1>2, <2>1, <2>2 DEF Apart
<1>15. OneSlice'
  <2> SUFFICES ASSUME NEW e \in Entries
               PROVE  /\ \A b, c \in batches' : b.of = c.of /\ Holds(heap, b.slice, e)
                                                /\ Holds(heap, c.slice, e) => b = c
                      /\ \A b \in batches' :
                            ~(Holds(heap, b.slice, e) /\ Holds(heap, buf'[b.of], e))
      BY <1>1 DEF OneSlice
  <2>1. \A b \in batches : b.of = h => ~(Holds(heap, b.slice, e) /\ Holds(heap, new.slice, e))
      BY <1>2 DEF OneSlice
  <2>2. \A b, c \in batches : b.of = c.of /\ Holds(heap, b.slice, e) /\ Holds(heap, c.slice, e)
                               => b = c
      BY DEF OneSlice
  <2>3. \A b \in batches' : ~(Holds(heap, b.slice, e) /\ Holds(heap, buf'[b.of], e))
      BY <1>1, <1>2, <1>7, <1>9, <1>13 DEF OneSlice
  <2> QED BY <1>1, <1>2, <2>1, <2>2, <2>3
<1>16. NotSent'
  <2> SUFFICES ASSUME NEW e \in Entries
               PROVE  /\ \A b \in batches' : Holds(heap, b.slice, e) => posted[b.of][e] = 0
                      /\ \A g \in Handlers : Holds(heap, buf'[g], e) => posted[g][e] = 0
      BY <1>1 DEF NotSent
  <2> QED BY <1>1, <1>2, <1>7, <1>9 DEF NotSent
<1> QED BY <1>1, <1>8, <1>10, <1>11, <1>12, <1>14, <1>15, <1>16 DEF SentOncePerHandler

\* A request sends what its batch holds: none of it was sent before, and no
\* other slice of the handler holds it.
LEMMA PostPreserves == ASSUME LogInv, NEW who, Post(who) PROVE LogInv'
<1> USE DEF LogInv
<1>1. PICK b \in batches :
         /\ batches' = batches \ {b}
         /\ posted' = [posted EXCEPT ![b.of] = [e \in Entries |->
                IF \E i \in DOMAIN Content(b.slice) : Content(b.slice)[i] = e
                THEN posted[b.of][e] + 1 ELSE posted[b.of][e]]]
         /\ UNCHANGED <<heap, buf, made, logged, spawned>>
    BY DEF Post
<1>2. b.of \in Handlers /\ b.slice.len \in Nat BY LogConstants DEF LogTypeOK
<1>3. \A e \in Entries : (\E i \in DOMAIN Content(b.slice) : Content(b.slice)[i] = e)
                          <=> Holds(heap, b.slice, e)
    BY DEF Content, Holds
<1>4. /\ \A g \in Handlers \ {b.of} : posted'[g] = posted[g]
      /\ \A e \in Entries : posted'[b.of][e] = IF Holds(heap, b.slice, e)
                                               THEN posted[b.of][e] + 1 ELSE posted[b.of][e]
    BY <1>1, <1>2, <1>3 DEF LogTypeOK
<1>5. \A g \in Handlers, e \in Entries : posted[g][e] \in Nat BY DEF LogTypeOK
<1>6. posted' \in [Handlers -> [Entries -> Nat]]
  <2>1. [e \in Entries |->
                IF \E i \in DOMAIN Content(b.slice) : Content(b.slice)[i] = e
                THEN posted[b.of][e] + 1 ELSE posted[b.of][e]] \in [Entries -> Nat]
      BY <1>2, <1>5
  <2> QED BY <1>1, <2>1 DEF LogTypeOK
<1>7. LogTypeOK' BY <1>1, <1>6 DEF LogTypeOK
<1>8. InsideArray' /\ Apart' /\ OneSlice' BY <1>1 DEF InsideArray, Apart, OneSlice
<1>9. \A e \in Entries : Holds(heap, b.slice, e) => e <= logged /\ posted[b.of][e] = 0
  <2> SUFFICES ASSUME NEW e \in Entries, NEW i \in 1..b.slice.len, heap[b.slice.arr][i] = e
               PROVE  e <= logged
      BY DEF Holds, NotSent
  <2>1. b.slice.arr \in 1..Len(heap) /\ b.slice.len <= Len(heap[b.slice.arr])
      BY DEF LogTypeOK, InsideArray
  <2>2. Len(heap[b.slice.arr]) \in Nat BY SMTT(30), <2>1, ElementOfSeq DEF LogTypeOK
  <2>3. i \in 1..Len(heap[b.slice.arr]) BY <1>2, <2>1, <2>2
  <2> QED BY <2>1, <2>3 DEF OnlyLogged
<1>10. OnlyMade'
  <2>1. \A g \in Handlers : g > made => g # b.of BY DEF OnlyMade
  <2> QED BY <1>1, <1>4, <2>1 DEF OnlyMade
<1>11. OnlyLogged'
  <2>1. ASSUME NEW g \in Handlers, NEW e \in Entries, e > logged PROVE posted'[g][e] = 0
    <3>1. posted[g][e] = 0 BY <2>1 DEF OnlyLogged
    <3>2. ~Holds(heap, b.slice, e) BY <1>9, <2>1, LogConstants DEF LogTypeOK, Entries
    <3> QED BY <1>4, <3>1, <3>2
  <2> QED BY <1>1, <2>1 DEF OnlyLogged
<1>12. NotSent'
  <2>1. ASSUME NEW e \in Entries, NEW c \in batches \ {b}, Holds(heap, c.slice, e)
        PROVE  posted'[c.of][e] = 0
    <3>1. posted[c.of][e] = 0 /\ c.of \in Handlers BY <2>1 DEF NotSent, LogTypeOK
    <3>2. c.of = b.of => ~Holds(heap, b.slice, e) BY <2>1 DEF OneSlice
    <3> QED BY <1>4, <3>1, <3>2
  <2>2. ASSUME NEW e \in Entries, NEW g \in Handlers, Holds(heap, buf[g], e)
        PROVE  posted'[g][e] = 0
    <3>1. posted[g][e] = 0 BY <2>2 DEF NotSent
    <3>2. g = b.of => ~Holds(heap, b.slice, e) BY <2>2 DEF OneSlice
    <3> QED BY <1>4, <3>1, <3>2
  <2> QED BY <1>1, <2>1, <2>2 DEF NotSent
<1>13. SentOncePerHandler'
  <2> SUFFICES ASSUME NEW g \in Handlers, NEW e \in Entries PROVE posted'[g][e] <= 1
      BY DEF SentOncePerHandler
  <2>1. posted[g][e] <= 1 BY DEF SentOncePerHandler
  <2> QED BY <1>4, <1>9, <2>1
<1> QED BY <1>7, <1>8, <1>10, <1>11, <1>12, <1>13

\* Every step keeps the slices of a handler apart.
LEMMA LogStep == LogInv /\ [Next]_vars => LogInv'
<1> SUFFICES ASSUME LogInv, [Next]_vars PROVE LogInv' OBVIOUS
<1>1. CASE UNCHANGED <<heap, buf, made, logged, spawned, batches, posted>>
    BY <1>1 DEF LogInv, LogTypeOK, InsideArray, OnlyMade, OnlyLogged, Apart, OneSlice, NotSent,
                SentOncePerHandler
<1>2. CASE UNCHANGED vars BY <1>1, <1>2 DEF vars
<1>3. ASSUME NEW h \in Handlers, SpawnedFlush(h) PROVE LogInv'
  <2>1. spawned' \in [Handlers -> 0..logged]
    <3>1. spawned \in [Handlers -> 0..logged] /\ logged \in Nat
        BY LogConstants DEF LogInv, LogTypeOK
    <3>2. spawned' = [spawned EXCEPT ![h] = spawned[h] - 1] /\ spawned[h] > 0
        BY <1>3 DEF SpawnedFlush
    <3>3. spawned[h] - 1 \in 0..logged BY <3>1, <3>2
    <3> QED BY <3>1, <3>2, <3>3
  <2>2. CASE HasEntries(buf[h])
      BY <1>3, <2>1, <2>2, TakePreserves DEF SpawnedFlush
  <2>3. CASE ~HasEntries(buf[h])
    <3>1. UNCHANGED <<heap, buf, made, logged, batches, posted>> BY <1>3, <2>3 DEF SpawnedFlush
    <3> QED BY <2>1, <3>1
        DEF LogInv, LogTypeOK, InsideArray, OnlyMade, OnlyLogged, Apart, OneSlice, NotSent,
            SentOncePerHandler
  <2> QED BY <2>2, <2>3
<1>4. CASE SpawnedPost \/ LoopPost \/ ClosePost
    BY <1>4, PostPreserves DEF SpawnedPost, LoopPost, ClosePost
<1>5. Root \in Handlers BY LogConstants DEF Root, Handlers
<1>6. CASE LoopFlush
    BY <1>5, <1>6, TakePreserves DEF LoopFlush, LogInv, LogTypeOK
<1>7. CASE LoopEnds \/ CloseBegins BY <1>1, <1>7 DEF LoopEnds, CloseBegins
<1>8. CASE CloseFlush
  <2>1. CASE HasEntries(buf[Root])
      BY <1>5, <1>8, <2>1, TakePreserves DEF CloseFlush, LogInv, LogTypeOK
  <2>2. CASE ~HasEntries(buf[Root]) BY <1>1, <1>8, <2>2 DEF CloseFlush
  <2> QED BY <2>1, <2>2
<1> QED BY <1>2, <1>3, <1>4, <1>6, <1>7, <1>8, HandlePreserves, WithPreserves DEF Next

\* No handler sends an entry twice, however its slices are flushed, for any
\* number of derived handlers, entries and entries that make a batch.
THEOREM EntriesAreSentOnce == Spec => []SentOncePerHandler
<1>1. LogInv => SentOncePerHandler BY DEF LogInv
<1> QED BY <1>1, InitLog, LogStep, PTL DEF Spec

-----------------------------------------------------------------------------
(* Log files.                                                              *)

FileNames == [number : Nat, gz : BOOLEAN]

LogFilesTypeOK ==
    /\ DOMAIN disk \subseteq FileNames /\ IsFiniteSet(DOMAIN disk)
    /\ \A n \in DOMAIN disk : disk[n] \in Int
    /\ started \in Nat /\ latest \in Int
    /\ rotator \in [at : {"idle", "remove", "shift", "move", "compress", "unlink"},
                    remove : SUBSET FileNames, shift : SUBSET FileNames]
    /\ \A n \in rotator.shift : n.number > 0

\* n has the last log, and no file of its suffix has a lower number: no shift
\* puts another file in its place.
Holder(n) ==
    /\ n \in RotatedFiles /\ disk[n] = latest
    /\ \A m \in RotatedFiles \ {n} : m.gz = n.gz => m.number > n.number

\* n comes last in the list, so that MaxFiles > 1 spares it, or the list is so
\* short that nothing is removed.
Newest(n) == \A m \in RotatedFiles \ {n} : Precedes(m, n)
Few == Cardinality(RotatedFiles) < MaxFiles

\* A rotation does not shift before it has removed the surplus.
Spared(n) ==
    /\ Newest(n) \/ Few
    /\ rotator.at = "remove" =>
           /\ n \notin rotator.remove
           /\ RotatedFiles \subseteq rotator.remove \cup rotator.shift
           /\ IsFiniteSet(rotator.shift) /\ Cardinality(rotator.shift) < MaxFiles
    /\ rotator.at \in {"shift", "move"} => Few

\* compressFile removes the original after the archive is complete.
Compressing ==
    /\ rotator.at \in {"compress", "unlink"} =>
           First \in DOMAIN disk /\ disk[First] = latest
    /\ rotator.at = "unlink" =>
           Gzip(First) \in DOMAIN disk /\ disk[Gzip(First)] = latest

Kept == latest > 0 /\ latest \notin cleaned /\ ~archived

LastLogFound == Compressing /\ \E n \in RotatedFiles : Holder(n) /\ Spared(n)

LogFilesInv == LogFilesTypeOK /\ (Kept => LastLogFound)

LEMMA PrecedesOrders ==
    /\ \A a \in FileNames, b \in FileNames : a # b => Precedes(a, b) \/ Precedes(b, a)
    /\ \A a \in FileNames : ~Precedes(a, a)
    /\ \A a \in FileNames, b \in FileNames, c \in FileNames :
           Precedes(a, b) /\ Precedes(b, c) => Precedes(a, c)
<1>1. ASSUME NEW a \in FileNames, NEW b \in FileNames, a # b
      PROVE  Precedes(a, b) \/ Precedes(b, a)
  <2>1. a.number \in Nat /\ b.number \in Nat /\ a.gz \in BOOLEAN /\ b.gz \in BOOLEAN
      BY DEF FileNames
  <2>2. a.number # b.number \/ a.gz # b.gz BY <1>1 DEF FileNames
  <2>3. CASE a.number # b.number BY <2>1, <2>3 DEF Precedes
  <2>4. CASE a.number = b.number /\ a.gz # b.gz BY <2>1, <2>4 DEF Precedes
  <2> QED BY <2>2, <2>3, <2>4
<1>2. ASSUME NEW a \in FileNames PROVE ~Precedes(a, a) BY DEF Precedes, FileNames
<1>3. ASSUME NEW a \in FileNames, NEW b \in FileNames, NEW c \in FileNames,
             Precedes(a, b), Precedes(b, c)
      PROVE  Precedes(a, c)
    BY <1>3 DEF Precedes, FileNames
<1> QED BY <1>1, <1>2, <1>3

\* Whatever the list, fewer than MaxFiles files are left: their ranks differ and
\* are the last MaxFiles - 1 ones.
LEMMA SurplusLeavesFew ==
    ASSUME NEW S, S \subseteq FileNames, IsFiniteSet(S)
    PROVE  IsFiniteSet(S \ Surplus(S)) /\ Cardinality(S \ Surplus(S)) < MaxFiles
<1> DEFINE Before(a) == {b \in S : Precedes(b, a)}
           rank(a) == Cardinality(Before(a))
           size == Cardinality(S)
           Left == S \ Surplus(S)
           Ranks == (size + 1 - MaxFiles)..(size - 1)
           f == [a \in Left |-> rank(a)]
<1>0. MaxFiles \in Nat \ {0} BY LogFilesConstants DEF LogFilesConstants
<1>1. size \in Nat BY FS_CardinalityType
<1>2. ASSUME NEW a \in S PROVE /\ IsFiniteSet(Before(a)) /\ rank(a) \in Nat
                               /\ rank(a) <= size - 1
  <2>1. Before(a) \in SUBSET (S \ {a}) BY PrecedesOrders
  <2>2. IsFiniteSet(S \ {a}) /\ Cardinality(S \ {a}) = size - 1 BY FS_RemoveElement
  <2>3. IsFiniteSet(Before(a)) /\ rank(a) <= size - 1 BY <2>1, <2>2, FS_Subset
  <2> QED BY <2>3, FS_CardinalityType
<1>3. ASSUME NEW a \in S, NEW b \in S, Precedes(a, b) PROVE rank(a) < rank(b)
  <2>1. Before(a) \in SUBSET Before(b) BY <1>3, PrecedesOrders
  <2>2. a \in Before(b) /\ a \notin Before(a) BY <1>3, PrecedesOrders
  <2> HIDE DEF Before
  <2>3. rank(a) <= rank(b) /\ (rank(b) = rank(a) => Before(b) = Before(a))
      BY <1>2, <2>1, FS_Subset
  <2>4. rank(b) # rank(a) BY <2>2, <2>3
  <2> QED BY <1>2, <2>3, <2>4
<1>4. f \in [Left -> Ranks]
  <2> SUFFICES ASSUME NEW a \in Left PROVE rank(a) \in Ranks OBVIOUS
  <2>1. ~(rank(a) + MaxFiles < size + 1) BY DEF Surplus
  <2>2. rank(a) \in Nat /\ rank(a) <= size - 1 BY <1>2
  <2> HIDE DEF rank, size
  <2>3. rank(a) >= size + 1 - MaxFiles BY <1>0, <1>1, <2>1, <2>2
  <2> QED BY <1>0, <1>1, <2>2, <2>3
<1>5. ASSUME NEW a \in Left, NEW b \in Left, f[a] = f[b] PROVE a = b
  <2>1. rank(a) = rank(b) BY <1>5
  <2>2. ~Precedes(a, b) /\ ~Precedes(b, a)
    <3>1. a \in S /\ b \in S OBVIOUS
    <3>2. rank(a) \in Nat /\ rank(b) \in Nat BY <1>2, <3>1
    <3>3. Precedes(a, b) => rank(a) < rank(b) BY <1>3, <3>1
    <3>4. Precedes(b, a) => rank(b) < rank(a) BY <1>3, <3>1
    <3> HIDE DEF rank
    <3> QED BY <2>1, <3>2, <3>3, <3>4
  <2> QED BY <2>2, PrecedesOrders
<1>6. f \in Injection(Left, Ranks)
  <2> HIDE DEF f, Left, Ranks
  <2> QED BY <1>4, <1>5 DEF Injection, IsInjective
<1>7. IsFiniteSet(Ranks) /\ Cardinality(Ranks) = MaxFiles - 1
  <2> HIDE DEF size
  <2>1. size + 1 - MaxFiles \in Int /\ size - 1 \in Int BY <1>0, <1>1
  <2>2. /\ IsFiniteSet(Ranks)
        /\ Cardinality(Ranks) = IF size + 1 - MaxFiles > size - 1 THEN 0
                                ELSE (size - 1) - (size + 1 - MaxFiles) + 1
      BY <2>1, FS_Interval
  <2> QED BY <1>0, <1>1, <2>2
<1>8. IsFiniteSet(Left) /\ Cardinality(Left) <= Cardinality(Ranks)
  <2> HIDE DEF f, Left, Ranks
  <2> QED BY <1>6, <1>7, FS_Injection
<1>9. Cardinality(Left) \in Nat BY <1>8, FS_CardinalityType
<1> HIDE DEF Left, Ranks
<1>10. IsFiniteSet(Left) /\ Cardinality(Left) < MaxFiles BY <1>0, <1>7, <1>8, <1>9
<1> QED BY <1>10 DEF Left

\* The last of a list is spared, and all of a short list are.
LEMMA LastIsSpared ==
    ASSUME NEW S, S \subseteq FileNames, IsFiniteSet(S), NEW n \in S,
           \/ MaxFiles > 1 /\ \A m \in S \ {n} : Precedes(m, n)
           \/ Cardinality(S) < MaxFiles
    PROVE  n \notin Surplus(S)
<1> DEFINE Before == {b \in S : Precedes(b, n)}
<1>0. MaxFiles \in Nat \ {0} BY LogFilesConstants DEF LogFilesConstants
<1>1. Cardinality(S) \in Nat BY FS_CardinalityType
<1>2. IsFiniteSet(Before) BY FS_Subset, Before \in SUBSET S
<1>3. Cardinality(Before) \in Nat BY <1>2, FS_CardinalityType
<1>4. CASE MaxFiles > 1 /\ \A m \in S \ {n} : Precedes(m, n)
  <2>1. Before = S \ {n} BY <1>4, PrecedesOrders
  <2>2. Cardinality(S \ {n}) = Cardinality(S) - 1 BY FS_RemoveElement
  <2>3. Cardinality(Before) = Cardinality(S) - 1 BY <2>1, <2>2
  <2> HIDE DEF Before
  <2>4. ~(Cardinality(Before) + MaxFiles < Cardinality(S) + 1) BY <1>0, <1>1, <1>4, <2>3
  <2> QED BY <2>4 DEF Before, Surplus
<1>5. CASE Cardinality(S) < MaxFiles
  <2>1. ~(Cardinality(Before) + MaxFiles < Cardinality(S) + 1)
    <3> HIDE DEF Before
    <3> QED BY <1>0, <1>1, <1>3, <1>5
  <2> QED BY <2>1 DEF Surplus
<1> QED BY <1>4, <1>5

\* agent.1.log comes last in the list, and agent.1.log.gz does without it.
LEMMA LowestIsNewest ==
    ASSUME LogFilesTypeOK', NEW n \in {First, Gzip(First)}, n \in DOMAIN disk',
           n = Gzip(First) => First \notin DOMAIN disk', disk'[n] = latest'
    PROVE  n \in RotatedFiles' /\ Newest(n)' /\ Holder(n)'
<1>1. First = [number |-> 1, gz |-> FALSE] /\ Gzip(First) = [number |-> 1, gz |-> TRUE]
  <2>1. First = [number |-> 1, gz |-> FALSE] BY DEF First, Name
  <2>2. First \in FileNames BY <2>1 DEF FileNames
  <2>3. Gzip(First) \in FileNames BY <2>2 DEF Gzip, FileNames
  <2>4. Gzip(First).number = 1 /\ Gzip(First).gz = TRUE BY <2>1, <2>2 DEF Gzip, FileNames
  <2>5. Gzip(First) = [number |-> Gzip(First).number, gz |-> Gzip(First).gz]
      BY <2>3 DEF FileNames
  <2> QED BY <2>1, <2>4, <2>5
<1>2. n.number = 1 /\ n.gz \in BOOLEAN
  <2>1. CASE n = First BY <1>1, <2>1
  <2>2. CASE n = Gzip(First) BY <1>1, <2>2
  <2> QED BY <2>1, <2>2
<1>3. n \in RotatedFiles' BY <1>2 DEF RotatedFiles
<1>4. ASSUME NEW m \in RotatedFiles', m # n
      PROVE  Precedes(m, n) /\ (m.gz = n.gz => m.number > n.number)
  <2>1. m \in FileNames /\ m \in DOMAIN disk' /\ m.number > 0
      BY DEF RotatedFiles, LogFilesTypeOK
  <2>2. m.number \in Nat /\ m.gz \in BOOLEAN /\ m = [number |-> m.number, gz |-> m.gz]
      BY <2>1 DEF FileNames
  <2>3. CASE m.number = 1
    <3>1. m = First \/ m = Gzip(First) BY <1>1, <2>2, <2>3
    <3>2. m = Gzip(First) /\ n = First BY <1>4, <2>1, <3>1
    <3> QED BY <1>1, <3>2 DEF Precedes
  <2>4. CASE m.number # 1 BY <1>2, <2>1, <2>2, <2>4 DEF Precedes
  <2> QED BY <2>3, <2>4
<1>5. Newest(n)' BY <1>4 DEF Newest
<1>6. Holder(n)' BY <1>3, <1>4 DEF Holder
<1> QED BY <1>3, <1>5, <1>6

\* Files that go leave the one that holds the last log where it was.
LEMMA FewerFiles ==
    ASSUME LogFilesTypeOK, NEW n \in RotatedFiles, Holder(n), latest' = latest,
           RotatedFiles' \subseteq RotatedFiles, n \in RotatedFiles', disk'[n] = disk[n]
    PROVE  /\ Holder(n)'
           /\ Newest(n) => Newest(n)'
           /\ Few => Few'
<1>1. Holder(n)' BY DEF Holder
<1>2. Newest(n) => Newest(n)' BY DEF Newest
<1>3. Few => Few'
  <2>1. IsFiniteSet(RotatedFiles)
      BY FS_Subset, RotatedFiles \in SUBSET (DOMAIN disk) DEF RotatedFiles, LogFilesTypeOK
  <2>2. IsFiniteSet(RotatedFiles') /\ Cardinality(RotatedFiles') <= Cardinality(RotatedFiles)
      BY <2>1, FS_Subset
  <2>3. Cardinality(RotatedFiles') \in Nat /\ Cardinality(RotatedFiles) \in Nat
      BY <2>1, <2>2, FS_CardinalityType
  <2>4. MaxFiles \in Nat BY LogFilesConstants DEF LogFilesConstants
  <2> QED BY <2>2, <2>3, <2>4 DEF Few
<1> QED BY <1>1, <1>2, <1>3

\* The steps keep the types.
LEMMA LogFilesTyped == LogFilesTypeOK /\ [LogFilesNext]_logVars => LogFilesTypeOK'
<1> SUFFICES ASSUME LogFilesTypeOK, [LogFilesNext]_logVars PROVE LogFilesTypeOK'
    OBVIOUS
<1> DEFINE Ats == {"idle", "remove", "shift", "move", "compress", "unlink"}
<1>0. /\ rotator = [at |-> rotator.at, remove |-> rotator.remove, shift |-> rotator.shift]
      /\ rotator.at \in Ats
      /\ rotator.remove \subseteq FileNames /\ rotator.shift \subseteq FileNames
      /\ DOMAIN disk \subseteq FileNames /\ IsFiniteSet(DOMAIN disk)
    BY DEF LogFilesTypeOK
<1>a. /\ First \in FileNames /\ Gzip(First) \in FileNames /\ LiveLog \in FileNames
      /\ \A name \in FileNames : Gzip(name) \in FileNames
      /\ \A name \in FileNames : [name EXCEPT !.number = @ + 1] \in FileNames
  <2>1. First \in FileNames /\ LiveLog \in FileNames BY DEF First, LiveLog, Name, FileNames
  <2>2. \A name \in FileNames : Gzip(name) \in FileNames BY DEF Gzip, FileNames
  <2>3. ASSUME NEW name \in FileNames PROVE [name EXCEPT !.number = @ + 1] \in FileNames
    <3>1. name.number + 1 \in Nat BY DEF FileNames
    <3> QED BY <3>1 DEF FileNames
  <2> QED BY <2>1, <2>2, <2>3
<1> DEFINE DiskOK == /\ DOMAIN disk' \subseteq FileNames /\ IsFiniteSet(DOMAIN disk')
                     /\ \A n \in DOMAIN disk' : disk'[n] \in Int
           RotatorOK == /\ rotator' \in [at : Ats, remove : SUBSET FileNames,
                                         shift : SUBSET FileNames]
                        /\ \A n \in rotator'.shift : n.number > 0
<1>b. ASSUME NEW name \in FileNames, NEW c \in Int, disk' = Write(name, c) PROVE DiskOK
  <2>1. DOMAIN disk' = DOMAIN disk \cup {name} BY <1>b DEF Write
  <2>2. \A n \in DOMAIN disk' : disk'[n] = IF n = name THEN c ELSE disk[n]
      BY <1>b, <2>1 DEF Write
  <2>3. IsFiniteSet(DOMAIN disk') BY <1>0, <2>1, FS_AddElement
  <2>4. ASSUME NEW n \in DOMAIN disk' PROVE disk'[n] \in Int
      BY <2>1, <2>2 DEF LogFilesTypeOK
  <2> QED BY <1>0, <2>1, <2>3, <2>4
<1>c. ASSUME NEW gone_, disk' = Restrict(disk, DOMAIN disk \ gone_) PROVE DiskOK
  <2>1. DOMAIN disk' = DOMAIN disk \ gone_ BY <1>c DEF Restrict
  <2>2. \A n \in DOMAIN disk' : disk'[n] = disk[n] BY <1>c, <2>1 DEF Restrict
  <2>3. DOMAIN disk' \in SUBSET (DOMAIN disk) BY <2>1
  <2>4. IsFiniteSet(DOMAIN disk') BY <1>0, <2>3, FS_Subset
  <2> QED BY <1>0, <2>1, <2>2, <2>4 DEF LogFilesTypeOK
<1>d. ASSUME NEW from \in DOMAIN disk, NEW to \in FileNames, disk' = Rename(from, to)
      PROVE  DiskOK
  <2>1. DOMAIN disk' = (DOMAIN disk \ {from}) \cup {to} BY <1>d DEF Rename
  <2>2. \A n \in DOMAIN disk' : disk'[n] = IF n = to THEN disk[from] ELSE disk[n]
      BY <1>d, <2>1 DEF Rename
  <2>3. IsFiniteSet(DOMAIN disk')
    <3>1. IsFiniteSet(DOMAIN disk \ {from}) BY <1>0, FS_RemoveElement
    <3> QED BY <2>1, <3>1, FS_AddElement
  <2>4. ASSUME NEW n \in DOMAIN disk' PROVE disk'[n] \in Int
      BY <2>1, <2>2 DEF LogFilesTypeOK
  <2> QED BY <1>0, <1>d, <2>1, <2>3, <2>4
<1>e. UNCHANGED disk => DiskOK BY DEF LogFilesTypeOK
<1>f. UNCHANGED rotator => RotatorOK BY DEF LogFilesTypeOK
<1>g. rotator' = NotRotating => RotatorOK BY DEF NotRotating
<1>h. \A at \in Ats : rotator' = [rotator EXCEPT !.at = at] => RotatorOK
    BY DEF LogFilesTypeOK
<1> HIDE DEF DiskOK, RotatorOK
<1>i. ASSUME DiskOK, RotatorOK, started' \in Nat, latest' \in Int PROVE LogFilesTypeOK'
    BY <1>i DEF DiskOK, RotatorOK, LogFilesTypeOK
<1>j. started \in Nat /\ latest \in Int BY DEF LogFilesTypeOK
<1>1. CASE StartProcess
  <2>1. DiskOK /\ started' \in Nat
    <3>1. CASE UNCHANGED <<disk, started>> BY <1>e, <1>j, <3>1
    <3>2. CASE started' = started + 1 /\ disk' = Write(LiveLog, started + 1)
      <4>1. started + 1 \in Nat BY <1>j
      <4> QED BY <1>a, <1>b, <3>2, <4>1
    <3> QED BY <1>1, <3>1, <3>2 DEF StartProcess
  <2> QED BY <1>1, <1>f, <1>i, <1>j, <2>1 DEF StartProcess
<1>2. CASE EndProcess BY <1>2, <1>e, <1>g, <1>i, <1>j DEF EndProcess
<1>3. CASE CheckAndRotate
  <2>1. RotatorOK
    <3>1. RotatedFiles \subseteq FileNames /\ \A n \in RotatedFiles : n.number > 0
        BY <1>0 DEF RotatedFiles
    <3>2. Surplus(RotatedFiles) \subseteq RotatedFiles BY DEF Surplus
    <3>3. rotator' = [at |-> "remove", remove |-> Surplus(RotatedFiles),
                      shift |-> RotatedFiles \ Surplus(RotatedFiles)]
        BY <1>3 DEF CheckAndRotate
    <3> QED BY <3>1, <3>2, <3>3 DEF RotatorOK
  <2> QED BY <1>3, <1>e, <1>i, <1>j, <2>1 DEF CheckAndRotate
<1>4. CASE RotationFails BY <1>4, <1>e, <1>g, <1>i, <1>j DEF RotationFails
<1>5. CASE RemoveSurplus
  <2>1. CASE rotator' = [rotator EXCEPT !.at = "shift"] /\ UNCHANGED disk
      BY <1>5, <2>1, <1>e, <1>h, <1>i, <1>j DEF RemoveSurplus
  <2>2. CASE \E file \in Foremost(rotator.remove) :
                /\ disk' = WithoutFile(file)
                /\ rotator' = [rotator EXCEPT !.remove = @ \ {file}]
    <3>1. PICK file : /\ disk' = WithoutFile(file)
                      /\ rotator' = [rotator EXCEPT !.remove = @ \ {file}]
        BY <2>2
    <3>2. DiskOK BY <1>c, <3>1 DEF WithoutFile
    <3>3. RotatorOK BY <1>0, <3>1 DEF RotatorOK, LogFilesTypeOK
    <3> QED BY <1>5, <1>i, <1>j, <3>2, <3>3 DEF RemoveSurplus
  <2> QED BY <1>5, <2>1, <2>2 DEF RemoveSurplus
<1>6. CASE ShiftRotatedFile
  <2>1. CASE rotator' = [rotator EXCEPT !.at = "move"] /\ UNCHANGED disk
      BY <1>6, <2>1, <1>e, <1>h, <1>i, <1>j DEF ShiftRotatedFile
  <2>2. CASE \E file \in Hindmost(rotator.shift) :
                /\ file \in DOMAIN disk
                /\ disk' = Rename(file, [file EXCEPT !.number = @ + 1])
                /\ rotator' = [rotator EXCEPT !.shift = @ \ {file}]
    <3>1. PICK file \in DOMAIN disk :
                /\ disk' = Rename(file, [file EXCEPT !.number = @ + 1])
                /\ rotator' = [rotator EXCEPT !.shift = @ \ {file}]
        BY <2>2
    <3>2. DiskOK BY <1>0, <1>a, <1>d, <3>1
    <3>3. RotatorOK BY <1>0, <3>1 DEF RotatorOK, LogFilesTypeOK
    <3> QED BY <1>6, <1>i, <1>j, <3>2, <3>3 DEF ShiftRotatedFile
  <2> QED BY <1>6, <2>1, <2>2 DEF ShiftRotatedFile
<1>7. CASE MoveLive
  <2>1. disk[LiveLog] \in Int BY <1>7 DEF MoveLive, LogFilesTypeOK
  <2>2. DiskOK
    <3>1. CASE disk' = Rename(LiveLog, First) BY <1>7, <1>a, <1>d, <3>1 DEF MoveLive
    <3>2. CASE disk' = Write(First, disk[LiveLog]) BY <1>a, <1>b, <2>1, <3>2
    <3> QED BY <1>7, <3>1, <3>2 DEF MoveLive
  <2>3. RotatorOK
    <3>1. rotator' = [rotator EXCEPT !.at = "compress"] \/ rotator' = NotRotating
        BY <1>7 DEF MoveLive
    <3> QED BY <1>g, <1>h, <3>1
  <2> QED BY <1>7, <1>i, <1>j, <2>1, <2>2, <2>3 DEF MoveLive
<1>8. CASE Compress
  <2>1. disk[First] \in Int /\ PartOf(disk[First]) \in Int
      BY <1>8 DEF Compress, LogFilesTypeOK, PartOf
  <2>2. DiskOK
    <3>1. disk' = WithoutFile(Gzip(First)) => DiskOK BY <1>c DEF WithoutFile
    <3>2. \A c \in Int : disk' = Write(Gzip(First), c) => DiskOK BY <1>a, <1>b
    <3> QED BY <1>8, <2>1, <3>1, <3>2 DEF Compress, Partial
  <2>3. RotatorOK BY <1>8, <1>g, <1>h DEF Compress
  <2> QED BY <1>8, <1>i, <1>j, <2>2, <2>3 DEF Compress
<1>9. CASE RemoveOriginal
  <2>1. DiskOK BY <1>9, <1>c DEF RemoveOriginal, WithoutFile
  <2> QED BY <1>9, <1>g, <1>i, <1>j, <2>1 DEF RemoveOriginal
<1>10. CASE ListLogFiles BY <1>10, <1>e, <1>f, <1>i, <1>j DEF ListLogFiles
<1>11. CASE CleanupByDiskSpace \/ CleanupByAge
  <2>1. UNCHANGED <<started, latest, rotator>>
      BY <1>11 DEF CleanupByDiskSpace, CleanupByAge
  <2>2. DiskOK
    <3>1. UNCHANGED disk \/ \E name : disk' = Restrict(disk, DOMAIN disk \ Removed(name))
        BY <1>11 DEF CleanupByDiskSpace, CleanupByAge, RemoveLogFile
    <3> QED BY <1>c, <1>e, <3>1
  <2> QED BY <1>f, <1>i, <1>j, <2>1, <2>2
<1>12. CASE CleanupFails
  <2>1. DiskOK
    <3>1. CASE UNCHANGED disk BY <1>e, <3>1
    <3>2. CASE \E name \in DOMAIN disk : LeavesArchive(name)
      <4>1. PICK name \in DOMAIN disk : LeavesArchive(name) BY <3>2
      <4>2. /\ disk[name] \in Int /\ PartOf(disk[name]) \in Int
            /\ Gzip(name) \in FileNames
          BY <1>0, <1>a DEF LogFilesTypeOK, PartOf
      <4>3. \A c \in Int : disk' = Write(Gzip(name), c) => DiskOK BY <1>b, <4>2
      <4>4. disk' = WithoutFile(Gzip(name)) => DiskOK BY <1>c DEF WithoutFile
      <4>5. disk' = Rename(name, Gzip(name)) => DiskOK BY <1>d, <4>2
      <4> QED BY <4>1, <4>2, <4>3, <4>4, <4>5 DEF LeavesArchive
    <3> QED BY <1>12, <3>1, <3>2 DEF CleanupFails
  <2> QED BY <1>12, <1>f, <1>i, <1>j, <2>1 DEF CleanupFails
<1>13. CASE UNCHANGED logVars BY <1>13, <1>e, <1>f, <1>i, <1>j DEF logVars
<1> QED BY <1>1, <1>2, <1>3, <1>4, <1>5, <1>6, <1>7, <1>8, <1>9, <1>10, <1>11, <1>12, <1>13
        DEF LogFilesNext

\* A file that holds the last log before a step that stays out of its way holds
\* it after the step, and is spared when the rotation goes on or is over.
LEMMA StillSpared ==
    ASSUME LogFilesTypeOK, NEW n \in RotatedFiles, Holder(n), Spared(n), latest' = latest,
           RotatedFiles' \subseteq RotatedFiles, n \in RotatedFiles', disk'[n] = disk[n],
           rotator' = rotator \/ rotator' = NotRotating
    PROVE  n \in RotatedFiles' /\ Holder(n)' /\ Spared(n)'
<1>1. Holder(n)' /\ (Newest(n) => Newest(n)') /\ (Few => Few') BY FewerFiles
<1>2. CASE rotator' = rotator BY <1>1, <1>2 DEF Spared
<1>3. CASE rotator' = NotRotating BY <1>1, <1>3 DEF Spared, NotRotating
<1> QED BY <1>1, <1>2, <1>3

\* A shift moves the file that holds the last log, or another past it, and the
\* files do not become more.
LEMMA ShiftKeepsLast ==
    ASSUME LogFilesTypeOK, NEW n \in RotatedFiles, Holder(n), Few, latest' = latest,
           NEW file \in RotatedFiles, disk' = Rename(file, [file EXCEPT !.number = @ + 1])
    PROVE  /\ \E k \in RotatedFiles' : Holder(k)'
           /\ Few'
<1> DEFINE to == [number |-> file.number + 1, gz |-> file.gz]
<1>0. /\ RotatedFiles \subseteq FileNames /\ IsFiniteSet(RotatedFiles)
    BY FS_Subset, RotatedFiles \in SUBSET (DOMAIN disk) DEF RotatedFiles, LogFilesTypeOK
<1>1. file.number \in Nat /\ file.number > 0 /\ file = [number |-> file.number, gz |-> file.gz]
    BY <1>0 DEF RotatedFiles, FileNames
<1>2. disk' = Rename(file, to) BY <1>1
<1>3. to.number = file.number + 1 /\ to.gz = file.gz /\ to # file BY <1>1
<1> HIDE DEF to
<1>4. DOMAIN disk' = (DOMAIN disk \ {file}) \cup {to} BY <1>2 DEF Rename
<1>5. disk'[to] = disk[file] /\ \A m \in DOMAIN disk \ {file} : m # to => disk'[m] = disk[m]
    BY <1>2, <1>4 DEF Rename
<1>6. RotatedFiles' = (RotatedFiles \ {file}) \cup {to}
    BY <1>1, <1>3, <1>4 DEF RotatedFiles
<1>7. Few'
  <2>1. /\ IsFiniteSet(RotatedFiles \ {file})
        /\ Cardinality(RotatedFiles \ {file}) = Cardinality(RotatedFiles) - 1
      BY <1>0, FS_RemoveElement
  <2>2. Cardinality(RotatedFiles) \in Nat /\ Cardinality(RotatedFiles \ {file}) \in Nat
      BY <1>0, <2>1, FS_CardinalityType
  <2>3. Cardinality(RotatedFiles') <= Cardinality(RotatedFiles)
    <3>1. CASE to \in RotatedFiles \ {file}
      <4>1. RotatedFiles' = RotatedFiles \ {file} BY <1>6, <3>1
      <4> QED BY <2>1, <2>2, <4>1
    <3>2. CASE to \notin RotatedFiles \ {file}
      <4>1. Cardinality(RotatedFiles') = Cardinality(RotatedFiles \ {file}) + 1
          BY <1>6, <2>1, <3>2, FS_AddElement
      <4> QED BY <2>1, <2>2, <4>1
    <3> QED BY <3>1, <3>2
  <2>4. Cardinality(RotatedFiles') \in Nat
    <3>1. IsFiniteSet(RotatedFiles') BY <1>6, <2>1, FS_AddElement
    <3> QED BY <3>1, FS_CardinalityType
  <2>5. MaxFiles \in Nat BY LogFilesConstants DEF LogFilesConstants
  <2> QED BY <2>2, <2>3, <2>4, <2>5 DEF Few
<1>8. ASSUME NEW m \in RotatedFiles PROVE m.number \in Nat BY <1>0 DEF FileNames
<1>9. CASE file = n
  <2>1. to \in RotatedFiles' /\ disk'[to] = latest' BY <1>5, <1>6, <1>9 DEF Holder
  <2>2. ASSUME NEW m \in RotatedFiles', m # to, m.gz = to.gz PROVE m.number > to.number
    <3>1. m \in RotatedFiles \ {n} BY <1>6, <1>9, <2>2
    <3>2. m.number > n.number BY <1>3, <1>9, <2>2, <3>1 DEF Holder
    <3>3. m.number # to.number
      <4>1. m = [number |-> m.number, gz |-> m.gz] BY <1>0, <3>1 DEF FileNames
      <4> QED BY <1>3, <2>2, <4>1 DEF to
    <3> QED BY <1>1, <1>3, <1>8, <1>9, <3>1, <3>2, <3>3
  <2>3. Holder(to)' BY <2>1, <2>2 DEF Holder
  <2> QED BY <1>7, <2>1, <2>3
<1>10. CASE file # n
  <2>1. file.gz = n.gz => file.number > n.number BY <1>10 DEF Holder
  <2>2. to # n BY <1>1, <1>3, <1>8, <2>1
  <2>3. n \in DOMAIN disk \ {file} BY <1>10 DEF RotatedFiles
  <2>4. n \in RotatedFiles' /\ disk'[n] = latest' BY <1>5, <1>6, <1>10, <2>2, <2>3 DEF Holder
  <2>5. ASSUME NEW m \in RotatedFiles', m # n, m.gz = n.gz PROVE m.number > n.number
    <3>1. CASE m = to BY <1>1, <1>3, <1>8, <2>1, <2>5, <3>1
    <3>2. CASE m # to
      <4>1. m \in RotatedFiles \ {n} BY <1>6, <2>5, <3>2
      <4> QED BY <2>5, <4>1 DEF Holder
    <3> QED BY <3>1, <3>2
  <2>6. Holder(n)' BY <2>4, <2>5 DEF Holder
  <2> QED BY <1>7, <2>4, <2>6
<1> QED BY <1>9, <1>10

\* Where the process dies, a call fails or another file goes, the last log stays.
LEMMA LogFilesKeepInv ==
    ASSUME MaxFiles > 1
    PROVE  LogFilesInv /\ [LogFilesNext]_logVars => LogFilesInv'
<1> SUFFICES ASSUME LogFilesInv, [LogFilesNext]_logVars, Kept' PROVE LastLogFound'
    BY LogFilesTyped DEF LogFilesInv
<1>a. LogFilesTypeOK /\ LogFilesTypeOK' BY LogFilesTyped DEF LogFilesInv
<1>b. ASSUME ~MoveLive
      PROVE  /\ UNCHANGED <<latest>> /\ Kept /\ Compressing
             /\ \E n \in RotatedFiles : Holder(n) /\ Spared(n)
  <2>1. UNCHANGED <<latest>> /\ (archived' = archived \/ archived' = TRUE)
      BY <1>b DEF LogFilesNext, StartProcess, EndProcess, CheckAndRotate, RotationFails,
                  RemoveSurplus, ShiftRotatedFile, Compress, RemoveOriginal, ListLogFiles,
                  CleanupByDiskSpace, CleanupByAge, CleanupFails, LeavesArchive, logVars
  <2>2. cleaned \subseteq cleaned'
      BY <1>b DEF LogFilesNext, StartProcess, EndProcess, CheckAndRotate, RotationFails,
                  RemoveSurplus, ShiftRotatedFile, Compress, RemoveOriginal, ListLogFiles,
                  CleanupByDiskSpace, CleanupByAge, CleanupFails, LeavesArchive, RemoveLogFile, Lose,
                  logVars
  <2>3. Kept BY <2>1, <2>2 DEF Kept
  <2> QED BY <2>1, <2>3 DEF LogFilesInv, LastLogFound
<1> DEFINE Stays(n) == RotatedFiles' \subseteq RotatedFiles /\ n \in RotatedFiles'
                       /\ disk'[n] = disk[n]
<1>c. ASSUME UNCHANGED disk PROVE \A n \in RotatedFiles : Stays(n)
    BY <1>c DEF RotatedFiles
<1>d. rotator' = NotRotating => Compressing' BY DEF NotRotating, Compressing
<1>e. ASSUME rotator' = rotator, UNCHANGED disk, ~MoveLive PROVE Compressing'
    BY <1>b, <1>e DEF Compressing
<1>f. ASSUME NEW n \in RotatedFiles, Holder(n), Spared(n), Stays(n), ~MoveLive,
             rotator' = rotator \/ rotator' = NotRotating, Compressing'
      PROVE  LastLogFound'
  <2>1. n \in RotatedFiles' /\ Holder(n)' /\ Spared(n)' BY <1>a, <1>b, <1>f, StillSpared
  <2> QED BY <1>f, <2>1 DEF LastLogFound
<1> HIDE DEF Stays
<1>1. CASE ~MoveLive /\ UNCHANGED disk /\ (rotator' = rotator \/ rotator' = NotRotating)
    BY <1>1, <1>b, <1>c, <1>d, <1>e, <1>f
<1>2. CASE StartProcess /\ ~MoveLive
  <2>1. CASE UNCHANGED disk BY <1>1, <1>2, <2>1 DEF StartProcess
  <2>2. CASE disk' = Write(LiveLog, started + 1)
    <3>1. LiveLog.number = 0 /\ First.number = 1 /\ Gzip(First).number = 1
        BY DEF LiveLog, First, Name, Gzip
    <3>2. DOMAIN disk' = DOMAIN disk \cup {LiveLog} BY <2>2 DEF Write
    <3>3. \A m \in DOMAIN disk : m # LiveLog => disk'[m] = disk[m] BY <2>2, <3>2 DEF Write
    <3>4. RotatedFiles' = RotatedFiles BY <3>1, <3>2 DEF RotatedFiles
    <3>5. \A m \in RotatedFiles : Stays(m) BY <3>1, <3>3, <3>4 DEF RotatedFiles, Stays
    <3>6. Compressing' BY <1>2, <1>b, <3>1, <3>2, <3>3 DEF StartProcess, Compressing
    <3> QED BY <1>2, <1>b, <1>f, <3>5, <3>6 DEF StartProcess
  <2> QED BY <1>2, <2>1, <2>2 DEF StartProcess
<1>3. CASE CheckAndRotate /\ ~MoveLive
  <2>1. PICK n \in RotatedFiles : Holder(n) /\ Spared(n) BY <1>3, <1>b
  <2>2. UNCHANGED disk /\ rotator' = [at |-> "remove", remove |-> Surplus(RotatedFiles),
                                      shift |-> RotatedFiles \ Surplus(RotatedFiles)]
      BY <1>3 DEF CheckAndRotate
  <2>3. RotatedFiles \subseteq FileNames /\ IsFiniteSet(RotatedFiles)
      BY <1>a, FS_Subset, RotatedFiles \in SUBSET (DOMAIN disk)
      DEF RotatedFiles, LogFilesTypeOK
  <2>4. n \in RotatedFiles' /\ Holder(n)' /\ (Newest(n)' \/ Few')
      BY <1>3, <1>a, <1>b, <1>c, <2>1, <2>2, FewerFiles DEF Stays, Spared
  <2>5. n \notin Surplus(RotatedFiles) BY <2>1, <2>3, LastIsSpared DEF Spared, Newest, Few
  <2>6. /\ IsFiniteSet(RotatedFiles \ Surplus(RotatedFiles))
        /\ Cardinality(RotatedFiles \ Surplus(RotatedFiles)) < MaxFiles
      BY <2>3, SurplusLeavesFew
  <2>7. RotatedFiles' = RotatedFiles BY <2>2 DEF RotatedFiles
  <2>8. Spared(n)' BY <2>2, <2>4, <2>5, <2>6, <2>7 DEF Spared
  <2>9. Compressing' BY <2>2 DEF Compressing
  <2> QED BY <2>4, <2>8, <2>9 DEF LastLogFound
<1>4. CASE RemoveSurplus /\ ~MoveLive
  <2>1. PICK n \in RotatedFiles : Holder(n) /\ Spared(n) BY <1>4, <1>b
  <2>2. rotator.at = "remove" BY <1>4 DEF RemoveSurplus
  <2>3. /\ n \notin rotator.remove
        /\ RotatedFiles \subseteq rotator.remove \cup rotator.shift
        /\ IsFiniteSet(rotator.shift) /\ Cardinality(rotator.shift) < MaxFiles
      BY <2>1, <2>2 DEF Spared
  <2>4. CASE rotator.remove = {} /\ rotator' = [rotator EXCEPT !.at = "shift"] /\ UNCHANGED disk
    <3>1. rotator'.at = "shift" BY <1>a, <2>4 DEF LogFilesTypeOK
    <3>2. IsFiniteSet(RotatedFiles) /\ Cardinality(RotatedFiles) <= Cardinality(rotator.shift)
        BY <2>3, <2>4, FS_Subset
    <3>3. Cardinality(RotatedFiles) \in Nat /\ Cardinality(rotator.shift) \in Nat
        BY <2>3, <3>2, FS_CardinalityType
    <3>4. Few BY <2>3, <3>2, <3>3, LogFilesConstants DEF Few, LogFilesConstants
    <3>5. n \in RotatedFiles' /\ Holder(n)' /\ Few'
        BY <1>4, <1>a, <1>b, <1>c, <2>1, <2>4, <3>4, FewerFiles DEF Stays
    <3>6. Spared(n)' /\ Compressing' BY <3>1, <3>5 DEF Spared, Compressing
    <3> QED BY <3>5, <3>6 DEF LastLogFound
  <2>5. CASE \E file \in Foremost(rotator.remove) :
                /\ disk' = WithoutFile(file)
                /\ rotator' = [rotator EXCEPT !.remove = @ \ {file}]
    <3>1. PICK file \in rotator.remove :
                /\ disk' = WithoutFile(file)
                /\ rotator' = [rotator EXCEPT !.remove = @ \ {file}]
        BY <2>5 DEF Foremost
    <3>2. /\ DOMAIN disk' = DOMAIN disk \ {file}
          /\ \A m \in DOMAIN disk' : disk'[m] = disk[m]
        BY <3>1 DEF WithoutFile, Restrict
    <3>3. RotatedFiles' = RotatedFiles \ {file} BY <3>2 DEF RotatedFiles
    <3>4. n \in RotatedFiles' /\ disk'[n] = disk[n]
        BY <2>3, <3>1, <3>2, <3>3 DEF RotatedFiles
    <3>5. Holder(n)' /\ (Newest(n)' \/ Few')
        BY <1>4, <1>a, <1>b, <2>1, <3>3, <3>4, FewerFiles DEF Spared
    <3>6. /\ rotator'.at = "remove" /\ rotator'.remove = rotator.remove \ {file}
          /\ rotator'.shift = rotator.shift
        BY <1>a, <2>2, <3>1 DEF LogFilesTypeOK
    <3>7. Spared(n)' BY <2>3, <3>3, <3>5, <3>6 DEF Spared
    <3>8. Compressing' BY <3>6 DEF Compressing
    <3> QED BY <3>4, <3>5, <3>7, <3>8 DEF LastLogFound
  <2> QED BY <1>4, <2>4, <2>5 DEF RemoveSurplus
<1>5. CASE ShiftRotatedFile /\ ~MoveLive
  <2>1. PICK n \in RotatedFiles : Holder(n) /\ Spared(n) BY <1>5, <1>b
  <2>2. Few BY <1>5, <2>1 DEF Spared, ShiftRotatedFile
  <2>3. CASE rotator' = [rotator EXCEPT !.at = "move"] /\ UNCHANGED disk
    <3>1. rotator'.at = "move" BY <1>a, <2>3 DEF LogFilesTypeOK
    <3>2. n \in RotatedFiles' /\ Holder(n)' /\ Few'
        BY <1>5, <1>a, <1>b, <1>c, <2>1, <2>2, <2>3, FewerFiles DEF Stays
    <3>3. Spared(n)' /\ Compressing' BY <3>1, <3>2 DEF Spared, Compressing
    <3> QED BY <3>2, <3>3 DEF LastLogFound
  <2>4. CASE \E file \in Hindmost(rotator.shift) :
                /\ file \in DOMAIN disk
                /\ disk' = Rename(file, [file EXCEPT !.number = @ + 1])
                /\ rotator' = [rotator EXCEPT !.shift = @ \ {file}]
    <3>1. PICK file \in rotator.shift :
                /\ file \in DOMAIN disk
                /\ disk' = Rename(file, [file EXCEPT !.number = @ + 1])
                /\ rotator' = [rotator EXCEPT !.shift = @ \ {file}]
        BY <2>4 DEF Hindmost
    <3>2. file \in RotatedFiles BY <1>a, <3>1 DEF RotatedFiles, LogFilesTypeOK
    <3>3. (\E k \in RotatedFiles' : Holder(k)') /\ Few'
        BY <1>5, <1>a, <1>b, <2>1, <2>2, <3>1, <3>2, ShiftKeepsLast
    <3>4. rotator'.at = "shift" BY <1>5, <1>a, <3>1 DEF LogFilesTypeOK, ShiftRotatedFile
    <3>5. Compressing' /\ \A k : Spared(k)' BY <3>3, <3>4 DEF Compressing, Spared
    <3> QED BY <3>3, <3>5 DEF LastLogFound
  <2> QED BY <1>5, <2>3, <2>4 DEF ShiftRotatedFile
<1>6. CASE MoveLive
  <2>1. First \in DOMAIN disk' /\ disk'[First] = latest'
    <3>1. CASE disk' = Rename(LiveLog, First)
      <4>1. DOMAIN disk' = (DOMAIN disk \ {LiveLog}) \cup {First} BY <3>1 DEF Rename
      <4> QED BY <1>6, <3>1, <4>1 DEF Rename, MoveLive
    <3>2. CASE disk' = Write(First, disk[LiveLog])
      <4>1. DOMAIN disk' = DOMAIN disk \cup {First} BY <3>2 DEF Write
      <4> QED BY <1>6, <3>2, <4>1 DEF Write, MoveLive
    <3> QED BY <1>6, <3>1, <3>2 DEF MoveLive
  <2>2. First # Gzip(First) BY DEF First, Name, Gzip
  <2>3. First \in RotatedFiles' /\ Newest(First)' /\ Holder(First)'
      BY <1>a, <2>1, <2>2, LowestIsNewest
  <2>4. rotator'.at \in {"idle", "compress"}
      BY <1>6, <1>a DEF MoveLive, NotRotating, LogFilesTypeOK
  <2>5. Spared(First)' /\ Compressing' BY <2>1, <2>3, <2>4 DEF Spared, Compressing
  <2> QED BY <2>3, <2>5 DEF LastLogFound
<1>7. CASE Compress /\ ~MoveLive
  <2>1. First \in DOMAIN disk /\ disk[First] = latest
      BY <1>7, <1>b DEF Compress, Compressing
  <2>2. First # Gzip(First) BY DEF First, Name, Gzip
  <2>3. \A c : disk' = Write(Gzip(First), c) =>
            /\ First \in DOMAIN disk' /\ disk'[First] = disk[First]
            /\ Gzip(First) \in DOMAIN disk' /\ disk'[Gzip(First)] = c
      BY <2>1, <2>2 DEF Write
  <2>4. disk' = WithoutFile(Gzip(First)) =>
            First \in DOMAIN disk' /\ disk'[First] = disk[First]
      BY <2>1, <2>2 DEF WithoutFile, Restrict
  <2>5. First \in DOMAIN disk' /\ disk'[First] = latest'
      BY <1>7, <1>b, <2>1, <2>3, <2>4 DEF Compress, Partial
  <2>6. First \in RotatedFiles' /\ Newest(First)' /\ Holder(First)'
      BY <1>a, <2>2, <2>5, LowestIsNewest
  <2>7. CASE disk' = Write(Gzip(First), disk[First]) /\ rotator' = [rotator EXCEPT !.at = "unlink"]
    <3>1. rotator'.at = "unlink" BY <1>a, <2>7 DEF LogFilesTypeOK
    <3>2. Gzip(First) \in DOMAIN disk' /\ disk'[Gzip(First)] = latest'
        BY <1>7, <1>b, <2>1, <2>3, <2>7
    <3>3. Spared(First)' /\ Compressing' BY <2>5, <2>6, <3>1, <3>2 DEF Spared, Compressing
    <3> QED BY <2>6, <3>3 DEF LastLogFound
  <2>8. CASE rotator' = NotRotating
    <3>1. Spared(First)' BY <2>6, <2>8 DEF Spared, NotRotating
    <3> QED BY <1>d, <2>6, <2>8, <3>1 DEF LastLogFound
  <2> QED BY <1>7, <2>7, <2>8 DEF Compress
<1>8. CASE RemoveOriginal /\ ~MoveLive
  <2>1. Gzip(First) \in DOMAIN disk /\ disk[Gzip(First)] = latest
      BY <1>8, <1>b DEF RemoveOriginal, Compressing
  <2>2. First # Gzip(First) BY DEF First, Name, Gzip
  <2>3. /\ DOMAIN disk' = DOMAIN disk \ {First}
        /\ \A m \in DOMAIN disk' : disk'[m] = disk[m]
      BY <1>8 DEF RemoveOriginal, WithoutFile, Restrict
  <2>4. Gzip(First) \in DOMAIN disk' /\ disk'[Gzip(First)] = latest'
      BY <1>8, <1>b, <2>1, <2>2, <2>3
  <2>5. Gzip(First) \in RotatedFiles' /\ Newest(Gzip(First))' /\ Holder(Gzip(First))'
      BY <1>a, <2>3, <2>4, LowestIsNewest
  <2>6. rotator' = NotRotating BY <1>8 DEF RemoveOriginal
  <2>7. Spared(Gzip(First))' BY <2>5, <2>6 DEF Spared, NotRotating
  <2> QED BY <1>d, <2>5, <2>6, <2>7 DEF LastLogFound
<1>g. ASSUME NEW gone, disk' = Restrict(disk, DOMAIN disk \ gone), Lose(gone),
             rotator' = rotator, ~MoveLive
      PROVE  LastLogFound'
  <2>1. /\ DOMAIN disk' = DOMAIN disk \ gone
        /\ \A m \in DOMAIN disk' : disk'[m] = disk[m]
      BY <1>g DEF Restrict
  <2>2. latest \in Int /\ latest' = latest BY <1>a, <1>b, <1>g DEF LogFilesTypeOK
  <2>3. ASSUME NEW m \in DOMAIN disk, disk[m] = latest PROVE m \in DOMAIN disk'
    <3>1. latest \notin cleaned' BY <2>2 DEF Kept
    <3>2. m \notin gone BY <1>g, <2>2, <2>3, <3>1 DEF Lose
    <3> QED BY <2>1, <3>2
  <2>4. RotatedFiles' \subseteq RotatedFiles BY <2>1 DEF RotatedFiles
  <2>5. PICK n \in RotatedFiles : Holder(n) /\ Spared(n) BY <1>b, <1>g
  <2>6. n \in DOMAIN disk /\ disk[n] = latest /\ n.number > 0 BY <2>5 DEF Holder, RotatedFiles
  <2>7. Stays(n) BY <2>1, <2>3, <2>4, <2>6 DEF Stays, RotatedFiles
  <2>8. Compressing' BY <1>b, <1>g, <2>1, <2>2, <2>3 DEF Compressing
  <2> QED BY <1>f, <1>g, <2>5, <2>7, <2>8
<1>9. CASE (CleanupByDiskSpace \/ CleanupByAge) /\ ~MoveLive
  <2>1. rotator' = rotator BY <1>9 DEF CleanupByDiskSpace, CleanupByAge
  <2>2. CASE UNCHANGED disk BY <1>1, <1>9, <2>1, <2>2
  <2>3. CASE \E name : RemoveLogFile(name) BY <1>9, <1>g, <2>1, <2>3 DEF RemoveLogFile
  <2> QED BY <1>9, <2>2, <2>3 DEF CleanupByDiskSpace, CleanupByAge
<1>10. CASE CleanupFails /\ ~MoveLive
  <2>1. rotator' = rotator /\ ~archived' BY <1>10 DEF CleanupFails, Kept
  <2>2. CASE UNCHANGED disk BY <1>1, <1>10, <2>1, <2>2
  <2>3. CASE \E name : LeavesArchive(name)
    <3>1. PICK name : disk' = WithoutFile(Gzip(name)) /\ Lose({Gzip(name)})
        BY <2>1, <2>3 DEF LeavesArchive
    <3> QED BY <1>10, <1>g, <2>1, <3>1 DEF WithoutFile
  <2> QED BY <1>10, <2>2, <2>3 DEF CleanupFails
<1>11. CASE (EndProcess \/ RotationFails \/ ListLogFiles \/ UNCHANGED logVars) /\ ~MoveLive
  <2>1. UNCHANGED disk /\ (rotator' = rotator \/ rotator' = NotRotating)
      BY <1>11 DEF EndProcess, RotationFails, ListLogFiles, logVars
  <2> QED BY <1>1, <1>11, <2>1
<1> QED BY <1>2, <1>3, <1>4, <1>5, <1>6, <1>7, <1>8, <1>9, <1>10, <1>11 DEF LogFilesNext

\* The log that was rotated last is on the disk whichever call fails and wherever
\* the process dies, unless the cleanup removed it or left an archive behind
\* (rotation.go:156, :258, :324).  With MaxFiles = 1 the retention removes the last
\* log before the next one is in its place.
THEOREM LastLogIsKept ==
    ASSUME MaxFiles > 1
    PROVE  LogFilesSpec => []LastLogKept
<1>1. LogFilesInit => LogFilesInv
  <2> SUFFICES ASSUME LogFilesInit PROVE LogFilesInv OBVIOUS
  <2>1. DOMAIN disk = {} BY DEF LogFilesInit
  <2>2. IsFiniteSet(DOMAIN disk) BY <2>1, FS_EmptySet
  <2>3. LogFilesTypeOK BY <2>1, <2>2 DEF LogFilesInit, LogFilesTypeOK, NotRotating
  <2> QED BY <2>3 DEF LogFilesInit, LogFilesInv, Kept
<1>2. LogFilesInv => LastLogKept
  <2> SUFFICES ASSUME LogFilesInv, latest > 0, ~archived, latest \notin cleaned
               PROVE  latest \in Range(disk)
      BY DEF LastLogKept
  <2>1. PICK n \in RotatedFiles : Holder(n) BY DEF LogFilesInv, Kept, LastLogFound
  <2> QED BY <2>1 DEF Holder, RotatedFiles, Range
<1> QED BY <1>1, <1>2, LogFilesKeepInv, PTL DEF LogFilesSpec

=============================================================================
