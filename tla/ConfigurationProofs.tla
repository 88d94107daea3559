------------------------ MODULE ConfigurationProofs -------------------------
(***************************************************************************)
(* What remote configuration guarantees for any number of administrators,  *)
(* settings, documents and edits; and that what the program runs with is of*)
(* one version of its file, for all fields, loaders and subscribers.       *)
(***************************************************************************)
EXTENDS ConfigSync, HotReload, TLAPS

-----------------------------------------------------------------------------
(* Remote configuration.                                                   *)

\* The parts of a sequence that grew by one.
LEMMA AppendParts ==
    ASSUME NEW S, NEW s \in Seq(S), NEW e \in S
    PROVE  /\ Append(s, e) \in Seq(S)
           /\ DOMAIN s = 1..Len(s) /\ Len(s) \in Nat
           /\ DOMAIN Append(s, e) = 1..(Len(s) + 1)
           /\ \A i \in 1..Len(s) : Append(s, e)[i] = s[i]
           /\ Append(s, e)[Len(s) + 1] = e
  OBVIOUS

-----------------------------------------------------------------------------
(* Types.                                                                  *)

\* Merging and completing documents gives documents, and applying one to a
\* running configuration gives every setting a value.
LEMMA MergeTypes ==
    /\ \A t, o \in Document : Merged(t, o) \in Document
    /\ \A doc \in Document : Completed(doc) \in Document
    /\ \A c \in [Fields -> Values], doc \in Document : MergeRemoteConfig(c, doc) \in [Fields -> Values]
    /\ Empty \in Document /\ Local \in [Fields -> Values]
  BY ConfigConstants DEF Document, Merged, Completed, MergeRemoteConfig, Empty, Local

\* The response of the handler is a document with an ETag.
LEMMA ResponseTypes ==
    ASSUME TypeOK, NEW known \in BOOLEAN
    PROVE  Response(known).doc \in Document /\ Response(known).etag \in Nat
<1> DEFINE o == IF known THEN row["agent"] ELSE [doc |-> Empty, ver |-> 0]
<1>1. row["type"] \in [doc : Document, ver : Nat] /\ row["agent"] \in [doc : Document, ver : Nat]
  BY DEF TypeOK, Targets
<1>2. o.doc \in Document /\ o.ver \in Nat
  BY <1>1, MergeTypes
<1>3. Merged(row["type"].doc, o.doc) \in Document
  BY <1>1, <1>2, MergeTypes
<1>4. Completed(Merged(row["type"].doc, o.doc)) \in Document
  BY <1>3, MergeTypes
<1>5. Greatest(row["type"].ver, o.ver) \in Nat
  BY <1>1, <1>2 DEF Greatest
<1> QED
  BY <1>4, <1>5 DEF Response

\* A step of a transaction of an administrator, by its parts.
Tx == [pc : {"none", "read", "locked"}, target : Targets, doc : Document, prev : Document, ver : Nat]

LEMMA NoTxType == NoTx \in Tx
  BY MergeTypes DEF NoTx, Tx, Targets

LEMMA NoAnswerType == NoAnswer \in [status : {0, 200, 304}, doc : Document, etag : Nat]
  BY MergeTypes DEF NoAnswer

\* Every step keeps the variables within their types.
LEMMA TypeStep == TypeOK /\ [Next]_vars => TypeOK'
<1> SUFFICES ASSUME TypeOK, [Next]_vars PROVE TypeOK'
  OBVIOUS
<1> USE ConfigConstants
<1>0. tx \in [Admins -> Tx]
  BY DEF TypeOK, Tx
<1>1. CASE UNCHANGED vars
  BY <1>1 DEF TypeOK, vars
<1>2. ASSUME NEW a \in Admins, TxRead(a)
      PROVE  TypeOK'
  <2>1. PICK target \in Targets : \E doc \in Docs[target] :
         tx' = [tx EXCEPT ![a] = [pc |-> "read", target |-> target, doc |-> doc,
                                  prev |-> row[target].doc, ver |-> row[target].ver]]
    BY <1>2 DEF TxRead
  <2>2. row[target] \in [doc : Document, ver : Nat]
    BY DEF TypeOK
  <2>3. tx' \in [Admins -> Tx]
    BY <1>0, <2>1, <2>2 DEF Tx
  <2>4. edits' \in 0..MaxEdits
    BY <1>2 DEF TxRead, TypeOK
  <2> QED
    BY <1>2, <2>3, <2>4 DEF TxRead, TypeOK, Tx, agent
<1>3. ASSUME NEW a \in Admins, TxUpsert(a)
      PROVE  TypeOK'
  <2>1. NextVersion(a) \in Nat
    BY <1>0 DEF NextVersion, TypeOK, Tx
  <2>2. tx' \in [Admins -> Tx]
    BY <1>0, <1>3, <2>1 DEF TxUpsert, Tx
  <2> QED
    BY <1>3, <2>2 DEF TxUpsert, TypeOK, Tx, agent
<1>4. ASSUME NEW a \in Admins, TxCommit(a)
      PROVE  TypeOK'
  <2> DEFINE t == tx[a]
             e == [target |-> t.target, prev |-> t.prev, new |-> t.doc, ver |-> t.ver]
  <2>1. t \in Tx
    BY <1>0
  <2>2. e \in [target : Targets, prev : Document, new : Document, ver : Nat]
    BY <2>1 DEF Tx
  <2>3. audit' \in Seq([target : Targets, prev : Document, new : Document, ver : Nat])
    BY <1>4, <2>2, AppendParts DEF TxCommit, TypeOK
  <2>4. row' \in [Targets -> [doc : Document, ver : Nat]]
    BY <1>4, <2>1 DEF TxCommit, TypeOK, Tx
  <2>5. tx' \in [Admins -> Tx]
    BY <1>0, <1>4, NoTxType DEF TxCommit
  <2> QED
    BY <1>4, <2>3, <2>4, <2>5 DEF TxCommit, TypeOK, Tx, agent
<1>5. ASSUME NEW a \in Admins, TxFail(a)
      PROVE  TypeOK'
  <2>1. tx' \in [Admins -> Tx]
    BY <1>0, <1>5, NoTxType DEF TxFail
  <2> QED
    BY <1>5, <2>1 DEF TxFail, RolledBack, TypeOK, Tx, agent
<1>6. CASE DeleteAgentOverride
  <2>1. row' \in [Targets -> [doc : Document, ver : Nat]]
    BY <1>6, MergeTypes DEF DeleteAgentOverride, TypeOK
  <2>2. edits' \in 0..MaxEdits
    BY <1>6 DEF DeleteAgentOverride, TypeOK
  <2> QED
    BY <1>6, <2>1, <2>2 DEF DeleteAgentOverride, TypeOK, agent
<1>7. ASSUME NEW known \in BOOLEAN, Ingest(known)
      PROVE  TypeOK'
  <2>1. answer' \in [status : {0, 200, 304}, doc : Document, etag : Nat]
    BY <1>7, ResponseTypes, MergeTypes DEF Ingest
  <2> QED
    BY <1>7, <2>1 DEF Ingest, TypeOK, server
<1>8. CASE Receive
  <2>1. answer.doc \in Document /\ answer.etag \in Nat /\ cfg \in [Fields -> Values]
    BY DEF TypeOK
  <2>2. MergeRemoteConfig(cfg, answer.doc) \in [Fields -> Values]
    BY <2>1, MergeTypes
  <2> QED
    BY <1>8, <2>1, <2>2, NoAnswerType DEF Receive, TypeOK, server
<1>9. CASE LoseAnswer
  BY <1>9, NoAnswerType DEF LoseAnswer, TypeOK, server
<1>10. ASSUME NEW known \in BOOLEAN, Restart(known)
       PROVE  TypeOK'
  <2>1. MergeRemoteConfig(Local, Response(known).doc) \in [Fields -> Values]
    BY ResponseTypes, MergeTypes
  <2> QED
    BY <1>10, <2>1, NoAnswerType DEF Restart, TypeOK, server
<1> QED
  BY <1>1, <1>2, <1>3, <1>4, <1>5, <1>6, <1>7, <1>8, <1>9, <1>10
     DEF Next, Edit, HandleIngestConfig, AgentRestarts

\* The initial configuration has its types.
LEMMA TypeInit == Init => TypeOK
<1> SUFFICES ASSUME Init PROVE TypeOK
  OBVIOUS
<1> USE ConfigConstants
<1>1. MergeRemoteConfig(Local, Completed(Empty)) \in [Fields -> Values]
  BY MergeTypes
<1>2. <<>> \in Seq([target : Targets, prev : Document, new : Document, ver : Nat]) /\ 0 \in 0..MaxEdits
  OBVIOUS
<1> QED
  BY <1>1, <1>2, MergeTypes, NoTxType, NoAnswerType DEF Init, TypeOK, Tx

\* Documents, transactions, the audit log and the agent keep their types: in
\* particular the running configuration always has a value for every setting.
THEOREM ConfigTypeCorrect == Spec => []TypeOK
  BY TypeInit, TypeStep, PTL DEF Spec

-----------------------------------------------------------------------------
(* Versions and the audit log, for any number of administrators.           *)

\* A transaction that holds its row will commit the next version of it, and no
\* other transaction holds that row.
LockInv ==
    \A a \in Admins : tx[a].pc = "locked" =>
        /\ tx[a].ver = row[tx[a].target].ver + 1
        /\ \A b \in Admins :
             (tx[b].pc = "locked" /\ tx[b].target = tx[a].target) => b = a

StoreInv == TypeOK /\ LockInv /\ AuditComplete

\* The actions of the agent and the handler leave the store alone.
LEMMA ServerUntouched ==
    ASSUME HandleIngestConfig \/ Receive \/ LoseAnswer \/ AgentRestarts \/ UNCHANGED vars
    PROVE  UNCHANGED server
  BY DEF HandleIngestConfig, Ingest, Receive, LoseAnswer, AgentRestarts, Restart, server, vars

\* Transactions lock before they write, and deleting waits for the lock.
LEMMA LockStep == StoreInv /\ [Next]_vars => LockInv'
<1> SUFFICES ASSUME StoreInv, [Next]_vars PROVE LockInv'
  OBVIOUS
<1>0. tx \in [Admins -> Tx] /\ row \in [Targets -> [doc : Document, ver : Nat]]
  BY DEF StoreInv, TypeOK, Tx
<1>1. CASE UNCHANGED server
  BY <1>1 DEF StoreInv, LockInv, server
<1>2. ASSUME NEW a \in Admins, TxRead(a)
      PROVE  LockInv'
  <2>1. tx'[a].pc = "read" /\ \A b \in Admins \ {a} : tx'[b] = tx[b]
    BY <1>0, <1>2 DEF TxRead
  <2> QED
    BY <1>2, <2>1 DEF TxRead, StoreInv, LockInv
<1>3. ASSUME NEW a \in Admins, TxUpsert(a)
      PROVE  LockInv'
  <2>1. \A b \in Admins \ {a} : tx'[b] = tx[b]
    BY <1>0, <1>3 DEF TxUpsert
  <2>2. /\ tx'[a].pc = "locked" /\ tx'[a].target = tx[a].target
        /\ tx'[a].ver = row[tx[a].target].ver + 1
    BY <1>0, <1>3 DEF TxUpsert, NextVersion, Tx
  <2>3. \A b \in Admins : ~(tx[b].pc = "locked" /\ tx[b].target = tx[a].target)
    BY <1>3 DEF TxUpsert, Unlocked
  <2>4. row' = row
    BY <1>3 DEF TxUpsert
  <2> QED
    BY ONLY <2>1, <2>2, <2>3, <2>4, StoreInv DEF StoreInv, LockInv
<1>4. ASSUME NEW a \in Admins, TxCommit(a)
      PROVE  LockInv'
  <2>1. tx'[a].pc = "none" /\ \A b \in Admins \ {a} : tx'[b] = tx[b]
    BY <1>0, <1>4 DEF TxCommit, NoTx
  <2>2. tx[a].pc = "locked" /\ \A t \in Targets : t # tx[a].target => row'[t] = row[t]
    BY <1>0, <1>4 DEF TxCommit
  <2>3. \A b \in Admins : tx[b].target \in Targets
    BY <1>0 DEF Tx
  <2> QED
    BY ONLY <2>1, <2>2, <2>3, StoreInv DEF StoreInv, LockInv
<1>5. ASSUME NEW a \in Admins, TxFail(a)
      PROVE  LockInv'
  <2>1. tx'[a].pc = "none" /\ \A b \in Admins \ {a} : tx'[b] = tx[b]
    BY <1>0, <1>5 DEF TxFail, NoTx
  <2> QED
    BY <1>5, <2>1 DEF TxFail, RolledBack, StoreInv, LockInv
<1>6. CASE DeleteAgentOverride
  <2>1. \A b \in Admins : tx[b].target \in Targets
    BY <1>0 DEF Tx
  <2>2. \A t \in Targets : t # "agent" => row'[t] = row[t]
    BY <1>0, <1>6 DEF DeleteAgentOverride
  <2> QED
    BY <1>6, <2>1, <2>2 DEF DeleteAgentOverride, Unlocked, StoreInv, LockInv
<1> QED
  BY <1>1, <1>2, <1>3, <1>4, <1>5, <1>6, ServerUntouched DEF Next, Edit

\* What a step does to the rows: only a commit and a deletion change one.
LEMMA RowStep ==
    ASSUME StoreInv, [Next]_vars
    PROVE  \/ UNCHANGED <<row, audit>>
           \/ \E a \in Admins : tx[a].pc = "locked" /\ TxCommit(a)
           \/ row' = [row EXCEPT !["agent"] = [doc |-> Empty, ver |-> 0]] /\ audit' = audit
<1>1. ASSUME NEW a \in Admins, Edit(a)
      PROVE  UNCHANGED <<row, audit>> \/ (tx[a].pc = "locked" /\ TxCommit(a))
  BY <1>1 DEF Edit, TxRead, TxUpsert, TxCommit, TxFail, RolledBack
<1>2. CASE DeleteAgentOverride
  BY <1>2 DEF DeleteAgentOverride
<1> QED
  BY <1>1, <1>2, ServerUntouched DEF Next, server

\* The entry a commit appends is about the row it writes and is the last one of
\* its target; the entries of the other target stay last.
LEMMA AuditStep == StoreInv /\ [Next]_vars => AuditComplete'
<1> SUFFICES ASSUME StoreInv, [Next]_vars PROVE AuditComplete'
  OBVIOUS
<1>0. tx \in [Admins -> Tx] /\ row \in [Targets -> [doc : Document, ver : Nat]]
  BY DEF StoreInv, TypeOK, Tx
<1>1. CASE UNCHANGED <<row, audit>>
  BY <1>1 DEF StoreInv, AuditComplete, LastEntry
<1>2. CASE row' = [row EXCEPT !["agent"] = [doc |-> Empty, ver |-> 0]] /\ audit' = audit
  <2> SUFFICES ASSUME NEW t \in Targets, row'[t].ver # 0
               PROVE  \E i \in DOMAIN audit : /\ LastEntry(t, i)' /\ audit[i].new = row'[t].doc
                                              /\ audit[i].ver = row'[t].ver
    BY <1>2 DEF AuditComplete
  <2>1. row'[t] = row[t]
    BY <1>0, <1>2
  <2> QED
    BY <1>2, <2>1 DEF StoreInv, AuditComplete, LastEntry
<1>3. ASSUME NEW a \in Admins, TxCommit(a)
      PROVE  AuditComplete'
  <2> DEFINE x == tx[a]
             e == [target |-> x.target, prev |-> x.prev, new |-> x.doc, ver |-> x.ver]
             Entry == [target : Targets, prev : Document, new : Document, ver : Nat]
  <2>1. x \in Tx /\ e \in Entry /\ audit \in Seq(Entry) /\ audit' = Append(audit, e)
    BY <1>0, <1>3 DEF Tx, StoreInv, TypeOK, TxCommit
  <2>2. /\ DOMAIN audit = 1..Len(audit) /\ Len(audit) \in Nat
        /\ DOMAIN audit' = 1..(Len(audit) + 1)
        /\ \A i \in 1..Len(audit) : audit'[i] = audit[i]
        /\ audit'[Len(audit) + 1] = e
    <3> HIDE DEF Entry, e
    <3> QED
      BY <2>1, AppendParts
  <2> SUFFICES ASSUME NEW t \in Targets, row'[t].ver # 0
               PROVE  \E i \in DOMAIN audit' :
                        /\ audit'[i].target = t
                        /\ \A j \in DOMAIN audit' : j > i => audit'[j].target # t
                        /\ audit'[i].new = row'[t].doc /\ audit'[i].ver = row'[t].ver
    BY DEF AuditComplete, LastEntry
  <2>3. CASE t = x.target
    <3> DEFINE n == Len(audit) + 1
    <3>1. row'[t] = [doc |-> x.doc, ver |-> x.ver]
      BY <1>0, <1>3, <2>3 DEF TxCommit
    <3>2. audit'[n].target = t /\ audit'[n].new = x.doc /\ audit'[n].ver = x.ver
      BY <2>2, <2>3
    <3>3. \A j \in DOMAIN audit' : ~(j > n)
      BY <2>2
    <3>4. n \in DOMAIN audit'
      BY <2>2
    <3> QED
      BY <3>1, <3>2, <3>3, <3>4
  <2>4. CASE t # x.target
    <3>1. row'[t] = row[t]
      BY <1>0, <1>3, <2>4 DEF TxCommit
    <3>2. PICK i \in DOMAIN audit :
             LastEntry(t, i) /\ audit[i].new = row[t].doc /\ audit[i].ver = row[t].ver
      BY <3>1 DEF StoreInv, AuditComplete
    <3>3. \A j \in DOMAIN audit' : j > i => audit'[j].target # t
      <4> SUFFICES ASSUME NEW j \in DOMAIN audit', j > i PROVE audit'[j].target # t
        OBVIOUS
      <4>1. CASE j = Len(audit) + 1
        BY <2>2, <2>4, <4>1
      <4>2. CASE j \in DOMAIN audit
        BY <2>2, <3>2, <4>2 DEF LastEntry
      <4> QED
        BY <2>2, <4>1, <4>2
    <3>4. audit'[i] = audit[i] /\ i \in DOMAIN audit'
      BY <2>2, <3>2
    <3> QED
      BY <3>1, <3>2, <3>3, <3>4 DEF LastEntry
  <2> QED
    BY <2>3, <2>4
<1> QED
  BY <1>1, <1>2, <1>3, RowStep

\* The store's invariant is inductive.
LEMMA StoreAlways == Spec => []StoreInv
<1>1. Init => StoreInv
  <2>1. Init => LockInv
    BY DEF Init, LockInv, NoTx
  <2>2. Init => AuditComplete
    BY DEF Init, AuditComplete
  <2> QED
    BY <2>1, <2>2, TypeInit DEF StoreInv
<1>2. StoreInv /\ [Next]_vars => StoreInv'
  BY TypeStep, LockStep, AuditStep DEF StoreInv
<1> QED
  BY <1>1, <1>2, PTL DEF Spec

\* The audit log ends with what is stored, whoever saves, fails and deletes.
THEOREM AuditFollowsStore == Spec => []AuditComplete
<1>1. StoreInv => AuditComplete
  BY DEF StoreInv
<1> QED
  BY <1>1, StoreAlways, PTL

\* One step changes a row's version by one, or deletes an override.
RowsAdvance ==
    \A t \in Targets : row'[t] # row[t] =>
        \/ row'[t].ver = row[t].ver + 1
        \/ t = "agent" /\ row'[t].ver = 0

\* Two administrators never give the same version to two documents.
THEOREM VersionsAreConsecutive == Spec => VersionsAdvance
<1>1. StoreInv /\ [Next]_vars => RowsAdvance
  <2> SUFFICES ASSUME StoreInv, [Next]_vars, NEW t \in Targets, row'[t] # row[t]
               PROVE  row'[t].ver = row[t].ver + 1 \/ (t = "agent" /\ row'[t].ver = 0)
    BY DEF RowsAdvance
  <2>0. tx \in [Admins -> Tx] /\ row \in [Targets -> [doc : Document, ver : Nat]]
    BY DEF StoreInv, TypeOK, Tx
  <2>1. ASSUME NEW a \in Admins, tx[a].pc = "locked", TxCommit(a)
        PROVE  row'[t].ver = row[t].ver + 1
    <3>1. row' = [row EXCEPT ![tx[a].target] = [doc |-> tx[a].doc, ver |-> tx[a].ver]]
      BY <2>1 DEF TxCommit
    <3>2. t = tx[a].target /\ row'[t].ver = tx[a].ver
      BY <2>0, <3>1
    <3> QED
      BY <2>1, <3>2 DEF StoreInv, LockInv
  <2>2. CASE row' = [row EXCEPT !["agent"] = [doc |-> Empty, ver |-> 0]]
    BY <2>0, <2>2
  <2> QED
    BY <2>1, <2>2, RowStep
<1>2. RowsAdvance <=> (\A t \in Targets : row'[t] # row[t] =>
         \/ row'[t].ver = row[t].ver + 1
         \/ t = "agent" /\ row'[t].ver = 0)
  BY DEF RowsAdvance
<1> QED
  BY <1>1, <1>2, StoreAlways, PTL DEF Spec, VersionsAdvance

-----------------------------------------------------------------------------
(* An agent without override, of a type whose documents are complete: the  *)
(* ETag is then the version of the type's document.                        *)

Complete(doc) == \A f \in Fields : doc[f] # Unset
CompleteTypeDocs == \A doc \in Docs["type"] : Complete(doc)

\* Only the type has a document, and it is complete once there is one.
OnlyType ==
    /\ row["agent"] = [doc |-> Empty, ver |-> 0]
    /\ \A a \in Admins : (tx[a].pc # "none" /\ tx[a].target = "type") => Complete(tx[a].doc)
    /\ IF row["type"].ver = 0 THEN row["type"].doc = Empty ELSE Complete(row["type"].doc)

\* An answer on its way is not newer than the store, and is the current
\* document if it has the current version.
AnswerInv ==
    answer.status = 200 =>
        /\ answer.etag <= row["type"].ver
        /\ answer.etag = row["type"].ver => answer.doc = Completed(row["type"].doc)

\* The agent is not newer than the store, and runs the current document if it
\* has the current version, or if there never was a document.
AgentInv ==
    /\ etag <= row["type"].ver
    /\ (etag = row["type"].ver \/ row["type"].ver = 0)
          => cfg = MergeRemoteConfig(Local, Completed(row["type"].doc))

InSync == OnlyType /\ AnswerInv /\ AgentInv
SyncInv == StoreInv /\ (NeverOverridden => InSync)

\* The audit log only grows, by entries about the row a commit writes.
LEMMA StillNotOverridden ==
    ASSUME StoreInv, [Next]_vars, NeverOverridden'
    PROVE  NeverOverridden /\ \A a \in Admins : TxCommit(a) => tx[a].target # "agent"
<1>0. tx \in [Admins -> Tx]
  BY DEF StoreInv, TypeOK, Tx
<1>1. ASSUME NEW a \in Admins, TxCommit(a)
      PROVE  NeverOverridden /\ tx[a].target # "agent"
  <2> DEFINE x == tx[a]
             e == [target |-> x.target, prev |-> x.prev, new |-> x.doc, ver |-> x.ver]
             Entry == [target : Targets, prev : Document, new : Document, ver : Nat]
  <2>1. x \in Tx /\ e \in Entry /\ audit \in Seq(Entry) /\ audit' = Append(audit, e)
    BY <1>0, <1>1 DEF Tx, StoreInv, TypeOK, TxCommit
  <2>2. /\ DOMAIN audit = 1..Len(audit) /\ Len(audit) \in Nat
        /\ DOMAIN audit' = 1..(Len(audit) + 1)
        /\ \A i \in 1..Len(audit) : audit'[i] = audit[i]
        /\ audit'[Len(audit) + 1] = e
    <3> HIDE DEF Entry, e
    <3> QED
      BY <2>1, AppendParts
  <2>3. \A i \in 1..(Len(audit) + 1) : audit'[i].target # "agent"
    BY <2>2 DEF NeverOverridden
  <2>4. NeverOverridden
    BY <2>2, <2>3 DEF NeverOverridden
  <2>5. e.target # "agent"
    BY <2>2, <2>3
  <2> QED
    BY <2>4, <2>5
<1>2. ASSUME audit' = audit
      PROVE  NeverOverridden
  BY <1>2 DEF NeverOverridden
<1> QED
  BY <1>1, <1>2, RowStep

\* Without an override the handler answers the type's document under its
\* version, whether it finds the agent or not.
LEMMA TypeResponse ==
    ASSUME TypeOK, OnlyType, NEW known \in BOOLEAN
    PROVE  Response(known).doc = Completed(row["type"].doc) /\ Response(known).etag = row["type"].ver
<1> DEFINE o == IF known THEN row["agent"] ELSE [doc |-> Empty, ver |-> 0]
<1>1. o = [doc |-> Empty, ver |-> 0] /\ row["type"] \in [doc : Document, ver : Nat]
  BY DEF OnlyType, TypeOK, Targets
<1>2. Merged(row["type"].doc, Empty) = row["type"].doc
  <2>1. \A f \in Fields : Empty[f] = Unset
    BY DEF Empty
  <2>2. Merged(row["type"].doc, Empty) = [f \in Fields |-> row["type"].doc[f]]
    BY <2>1 DEF Merged
  <2> QED
    BY <1>1, <2>2 DEF Document
<1>3. Greatest(row["type"].ver, 0) = row["type"].ver
  BY <1>1 DEF Greatest
<1> QED
  BY <1>1, <1>2, <1>3 DEF Response

\* A complete document replaces the whole configuration.
LEMMA CompleteReplaces ==
    ASSUME NEW c, NEW d, NEW doc, Complete(doc)
    PROVE  MergeRemoteConfig(c, Completed(doc)) = MergeRemoteConfig(d, Completed(doc))
<1>1. \A f \in Fields : Completed(doc)[f] # Unset
  BY DEF Complete, Completed
<1> QED
  BY <1>1 DEF MergeRemoteConfig

\* Applying a document twice is the same as applying it once.
LEMMA MergeTwice ==
    ASSUME NEW c, NEW doc
    PROVE  MergeRemoteConfig(MergeRemoteConfig(c, doc), doc) = MergeRemoteConfig(c, doc)
  BY DEF MergeRemoteConfig

\* The steps of transactions: a commit makes every answer and ETag old.
LEMMA SyncEdits ==
    ASSUME CompleteTypeDocs, StoreInv, InSync, NEW a \in Admins, Edit(a),
           TxCommit(a) => tx[a].target # "agent"
    PROVE  OnlyType' /\ AnswerInv' /\ AgentInv'
<1>0. /\ tx \in [Admins -> Tx] /\ row \in [Targets -> [doc : Document, ver : Nat]]
      /\ etag \in Nat \cup {NoETag} /\ answer.etag \in Nat
      /\ "type" \in Targets /\ "agent" \in Targets
  BY DEF StoreInv, TypeOK, Tx, Targets
<1>1. CASE TxRead(a)
  <2>1. PICK target \in Targets : \E doc \in Docs[target] :
         tx' = [tx EXCEPT ![a] = [pc |-> "read", target |-> target, doc |-> doc,
                                  prev |-> row[target].doc, ver |-> row[target].ver]]
    BY <1>1 DEF TxRead
  <2>2. /\ tx'[a].target = "type" => Complete(tx'[a].doc)
        /\ \A b \in Admins \ {a} : tx'[b] = tx[b]
    BY <1>0, <2>1 DEF CompleteTypeDocs
  <2> QED
    BY <1>1, <2>2 DEF TxRead, agent, InSync, OnlyType, AnswerInv, AgentInv
<1>2. CASE TxUpsert(a)
  <2>1. /\ tx[a].pc = "read" /\ tx'[a].target = tx[a].target /\ tx'[a].doc = tx[a].doc
        /\ \A b \in Admins \ {a} : tx'[b] = tx[b]
    BY <1>0, <1>2 DEF TxUpsert, Tx
  <2> QED
    BY <1>2, <2>1 DEF TxUpsert, agent, InSync, OnlyType, AnswerInv, AgentInv
<1>3. CASE TxCommit(a)
  <2>1. tx[a].pc = "locked" /\ tx[a].target = "type" /\ Complete(tx[a].doc)
    BY <1>0, <1>3 DEF TxCommit, InSync, OnlyType, Tx, Targets
  <2>2. row'["type"] = [doc |-> tx[a].doc, ver |-> row["type"].ver + 1] /\ row'["agent"] = row["agent"]
    BY <1>0, <1>3, <2>1 DEF TxCommit, StoreInv, LockInv
  <2>3. tx'[a].pc = "none" /\ \A b \in Admins \ {a} : tx'[b] = tx[b]
    BY <1>0, <1>3 DEF TxCommit, NoTx
  <2>4. row["type"].ver \in Nat /\ UNCHANGED agent
    BY <1>0, <1>3 DEF TxCommit
  <2>5. OnlyType'
    BY <2>1, <2>2, <2>3, <2>4 DEF InSync, OnlyType
  <2>6. AnswerInv'
    BY <1>0, <2>2, <2>4 DEF InSync, AnswerInv, agent
  <2>7. AgentInv'
    BY <1>0, <2>2, <2>4 DEF InSync, AgentInv, agent, NoETag
  <2> QED
    BY <2>5, <2>6, <2>7
<1>4. CASE TxFail(a)
  <2>1. tx'[a].pc = "none" /\ \A b \in Admins \ {a} : tx'[b] = tx[b]
    BY <1>0, <1>4 DEF TxFail, NoTx
  <2> QED
    BY <1>4, <2>1 DEF TxFail, RolledBack, agent, InSync, OnlyType, AnswerInv, AgentInv
<1> QED
  BY <1>1, <1>2, <1>3, <1>4 DEF Edit

\* The steps of the handler and the agent.
LEMMA SyncPolls ==
    ASSUME StoreInv, InSync, HandleIngestConfig \/ Receive \/ LoseAnswer \/ AgentRestarts
    PROVE  OnlyType' /\ AnswerInv' /\ AgentInv'
<1> DEFINE doc == Completed(row["type"].doc)
           ver == row["type"].ver
<1>0. /\ row["type"] \in [doc : Document, ver : Nat]
      /\ ver \in Nat /\ etag \in Nat \cup {NoETag} /\ answer.etag \in Nat
      /\ cfg \in [Fields -> Values]
  BY DEF StoreInv, TypeOK, Targets
<1>1. OnlyType' /\ row' = row
  BY ServerUntouched DEF InSync, OnlyType, server
<1>2. \A known \in BOOLEAN : Response(known).doc = doc /\ Response(known).etag = ver
  BY TypeResponse DEF StoreInv, InSync
<1>3. ASSUME NEW known \in BOOLEAN, Ingest(known)
      PROVE  AnswerInv' /\ AgentInv'
  BY <1>0, <1>1, <1>2, <1>3 DEF Ingest, InSync, AnswerInv, AgentInv
<1>4. CASE Receive
  <2>1. CASE answer.status # 200
    BY <1>1, <1>4, <2>1 DEF Receive, NoAnswer, InSync, AnswerInv, AgentInv
  <2>2. CASE answer.status = 200
    <3>1. etag' = answer.etag /\ cfg' = MergeRemoteConfig(cfg, answer.doc) /\ answer'.status = 0
      BY <1>4, <2>2 DEF Receive, NoAnswer
    <3>2. answer.etag <= ver /\ (answer.etag = ver => answer.doc = doc)
      BY <2>2 DEF InSync, AnswerInv
    <3>3. ver = 0 => answer.etag = ver
      BY <1>0, <3>2
    <3>4. ASSUME answer.etag = ver
          PROVE  MergeRemoteConfig(cfg, doc) = MergeRemoteConfig(Local, doc)
      <4>1. CASE ver = 0
        BY <4>1, MergeTwice DEF InSync, AgentInv
      <4>2. CASE ver # 0
        BY <4>2, CompleteReplaces DEF InSync, OnlyType
      <4> QED
        BY <4>1, <4>2
    <3> QED
      BY <1>1, <3>1, <3>2, <3>3, <3>4 DEF AnswerInv, AgentInv
  <2> QED
    BY <2>1, <2>2
<1>5. CASE LoseAnswer
  BY <1>1, <1>5 DEF LoseAnswer, NoAnswer, InSync, AnswerInv, AgentInv
<1>6. ASSUME NEW known \in BOOLEAN, Restart(known)
      PROVE  AnswerInv' /\ AgentInv'
  <2>1. cfg' = MergeRemoteConfig(Local, doc) /\ etag' = NoETag /\ answer'.status = 0
    BY <1>2, <1>6 DEF Restart, NoAnswer
  <2> QED
    BY <1>0, <1>1, <2>1 DEF AnswerInv, AgentInv, NoETag
<1> QED
  BY <1>1, <1>3, <1>4, <1>5, <1>6 DEF HandleIngestConfig, AgentRestarts

\* 304 is only answered to an agent that runs the current document: whatever is
\* edited, lost or restarted, an agent whose type has complete documents and
\* that never had an override never misses an edit.
THEOREM NotModifiedMeansCurrent ==
    ASSUME CompleteTypeDocs
    PROVE  Spec => []AgentCurrent
<1>1. Init => SyncInv
  <2> SUFFICES ASSUME Init PROVE SyncInv
    OBVIOUS
  <2>1. StoreInv
    <3>1. LockInv /\ AuditComplete
      BY DEF Init, LockInv, NoTx, AuditComplete
    <3> QED
      BY <3>1, TypeInit DEF StoreInv
  <2>2. row["type"] = [doc |-> Empty, ver |-> 0] /\ row["agent"] = [doc |-> Empty, ver |-> 0]
    BY DEF Init, Targets
  <2> QED
    BY <2>1, <2>2 DEF Init, NoTx, NoAnswer, NoETag, SyncInv, InSync, OnlyType, AnswerInv, AgentInv
<1>2. SyncInv /\ [Next]_vars => SyncInv'
  <2> SUFFICES ASSUME SyncInv, [Next]_vars PROVE SyncInv'
    OBVIOUS
  <2>1. StoreInv /\ StoreInv'
    BY TypeStep, LockStep, AuditStep DEF SyncInv, StoreInv
  <2> SUFFICES ASSUME NeverOverridden' PROVE InSync'
    BY <2>1 DEF SyncInv
  <2>2. InSync /\ \A a \in Admins : TxCommit(a) => tx[a].target # "agent"
    BY <2>1, StillNotOverridden DEF SyncInv
  <2>3. ~DeleteAgentOverride
    BY <2>2 DEF DeleteAgentOverride, InSync, OnlyType
  <2>4. CASE UNCHANGED vars
    BY <2>2, <2>4 DEF vars, InSync, OnlyType, AnswerInv, AgentInv
  <2> QED
    BY <2>1, <2>2, <2>3, <2>4, SyncEdits, SyncPolls DEF Next, InSync
<1>3. SyncInv => AgentCurrent
  <2> SUFFICES ASSUME SyncInv, NeverOverridden PROVE NotModifiedIsCurrent
    BY DEF AgentCurrent
  <2>1. TypeOK /\ OnlyType /\ TRUE \in BOOLEAN
    BY DEF SyncInv, StoreInv, InSync
  <2>2. Response(TRUE).doc = Completed(row["type"].doc) /\ Response(TRUE).etag = row["type"].ver
    BY ONLY <2>1, TypeResponse
  <2>3. etag = row["type"].ver => cfg = MergeRemoteConfig(Local, Completed(row["type"].doc))
    BY DEF SyncInv, InSync, AgentInv
  <2> QED
    BY ONLY <2>2, <2>3 DEF NotModifiedIsCurrent, Fresh
<1> QED
  BY <1>1, <1>2, <1>3, PTL DEF Spec

-----------------------------------------------------------------------------
(* The configuration file.                                                 *)

Configs == [FieldKinds -> Nat]

HotTypeOK ==
    /\ file \in [content : Configs, loads : BOOLEAN, edits : Nat]
    /\ versions \in SUBSET Configs
    /\ current \in Configs
    /\ told \in [Subscribers -> Configs]
    /\ loader \in [Loaders -> [at : {"idle", "load", "apply"}, loaded : Configs]]

\* The file, and what was loaded of it to be applied, were written.
Written ==
    /\ file.content \in versions
    /\ \A l \in Loaders : loader[l].at = "apply" => loader[l].loaded \in versions

OfOneVersion(config, history) ==
    \E version \in history :
        \A f \in FieldKinds :
            config[f] = IF f \in HotReloadable \ {"interval"} THEN version[f] ELSE 0

InUse ==
    /\ OfOneVersion(current, versions)
    /\ \A s \in Subscribers : OfOneVersion(told[s], versions)

HotInv == HotTypeOK /\ Written /\ InUse

-----------------------------------------------------------------------------
\* What may be reloaded and is compared is all that may be reloaded but the
\* interval: a configuration that is applied is of the version that was loaded.
LEMMA AppliedIsOfOneVersion ==
    ASSUME NEW old \in Configs, NEW new \in Configs, NEW history,
           new \in history, OfOneVersion(old, history),
           NEW updated, updated = ApplyChanges(old, new, DetectChanges(old, new) \cap HotReloadable)
    PROVE  updated \in Configs /\ OfOneVersion(updated, history)
<1>1. updated \in Configs BY DEF ApplyChanges, Configs
<1>2. ASSUME NEW f \in FieldKinds
      PROVE  updated[f] = IF f \in HotReloadable \ {"interval"} THEN new[f] ELSE 0
  <2>1. updated[f] = IF f \in DetectChanges(old, new) \cap HotReloadable
                     THEN new[f] ELSE old[f]
      BY DEF ApplyChanges
  <2>2. f \in HotReloadable \ {"interval"} <=> f \in Compared \cap HotReloadable
      BY DEF HotReloadable, Compared
  <2>3. CASE f \in HotReloadable \ {"interval"} BY <2>1, <2>2, <2>3 DEF DetectChanges
  <2>4. CASE f \notin HotReloadable \ {"interval"}
    <3>1. updated[f] = old[f] BY <2>1, <2>2, <2>4 DEF DetectChanges
    <3>2. old[f] = 0 BY <2>4 DEF OfOneVersion
    <3> QED BY <2>4, <3>1, <3>2
  <2> QED BY <2>3, <2>4
<1> QED BY <1>1, <1>2 DEF OfOneVersion

LEMMA InitHot == HotInit => HotInv
<1> SUFFICES ASSUME HotInit PROVE HotInv OBVIOUS
<1> DEFINE first == [f \in FieldKinds |-> 0]
<1>1. first \in Configs /\ NotLoading = [at |-> "idle", loaded |-> first]
    BY DEF Configs, NotLoading
<1>2. /\ file = [content |-> first, loads |-> TRUE, edits |-> 0]
      /\ versions = {first} /\ current = first
      /\ told = [s \in Subscribers |-> first]
      /\ loader = [l \in Loaders |-> NotLoading]
    BY DEF HotInit
<1>3. OfOneVersion(first, versions) BY <1>2 DEF OfOneVersion
<1> HIDE DEF first
<1> QED BY <1>1, <1>2, <1>3 DEF HotInv, HotTypeOK, Written, InUse

LEMMA EditPreserves == ASSUME HotInv, SaveFile PROVE HotInv'
<1> DEFINE After(changed) == [f \in FieldKinds |-> IF f \in changed THEN file.edits + 1
                                                        ELSE file.content[f]]
<1>0. PICK changed \in SUBSET FieldKinds, loads \in BOOLEAN :
         /\ file' = [content |-> After(changed), loads |-> loads, edits |-> file.edits + 1]
         /\ versions' = versions \cup {After(changed)}
    BY DEF SaveFile
<1> DEFINE content == After(changed)
<1>1. /\ file' = [content |-> content, loads |-> loads, edits |-> file.edits + 1]
      /\ versions' = versions \cup {content}
    BY <1>0
<1>2. content \in Configs BY DEF HotInv, HotTypeOK, Configs
<1> HIDE DEF content
<1>3. file'.content = content /\ file' \in [content : Configs, loads : BOOLEAN, edits : Nat]
    BY <1>1, <1>2 DEF HotInv, HotTypeOK
<1>4. UNCHANGED <<current, told, loader>> BY DEF SaveFile
<1>5. \A config : OfOneVersion(config, versions) => OfOneVersion(config, versions')
    BY <1>1 DEF OfOneVersion
<1> QED BY <1>1, <1>2, <1>3, <1>4, <1>5 DEF HotInv, HotTypeOK, Written, InUse

\* A loader that does not come to apply, or comes there with what the file holds.
LEMMA LoaderPreserves ==
    ASSUME HotInv, NEW l \in Loaders, NEW at \in {"idle", "load", "apply"},
           NEW loaded \in Configs, at = "apply" => loaded \in versions,
           loader' = [loader EXCEPT ![l] = [at |-> at, loaded |-> loaded]],
           UNCHANGED <<file, versions, current, told>>
    PROVE  HotInv'
<1>1. loader' \in [Loaders -> [at : {"idle", "load", "apply"}, loaded : Configs]]
    BY DEF HotInv, HotTypeOK
<1>2. \A k \in Loaders : loader'[k].at = "apply" => loader'[k].loaded \in versions
    BY DEF HotInv, HotTypeOK, Written
<1> QED BY <1>1, <1>2 DEF HotInv, HotTypeOK, Written, InUse

LEMMA BeginPreserves ==
    ASSUME HotInv, NEW l \in Loaders, loader' = [loader EXCEPT ![l].at = "load"],
           UNCHANGED <<file, versions, current, told>>
    PROVE  HotInv'
<1>1. loader[l] \in [at : {"idle", "load", "apply"}, loaded : Configs]
    BY DEF HotInv, HotTypeOK
<1>2. [loader[l] EXCEPT !.at = "load"] = [at |-> "load", loaded |-> loader[l].loaded]
    BY <1>1
<1>3. loader' = [loader EXCEPT ![l] = [loader[l] EXCEPT !.at = "load"]] OBVIOUS
<1>4. loader' = [loader EXCEPT ![l] = [at |-> "load", loaded |-> loader[l].loaded]]
    BY <1>2, <1>3
<1> QED BY <1>1, <1>4, LoaderPreserves

LEMMA NoneLoaded == NotLoading = [at |-> "idle", loaded |-> NotLoading.loaded]
                    /\ NotLoading.loaded \in Configs
BY DEF NotLoading, Configs

LEMMA LoadPreserves == ASSUME HotInv, NEW l \in Loaders, LoadFile(l) PROVE HotInv'
<1>1. UNCHANGED <<file, versions, current, told>> BY DEF LoadFile
<1>2. CASE file.loads
  <2>1. loader' = [loader EXCEPT ![l] = [at |-> "apply", loaded |-> file.content]]
      BY <1>2 DEF LoadFile
  <2>2. file.content \in Configs /\ file.content \in versions
      BY DEF HotInv, HotTypeOK, Written
  <2> QED BY <1>1, <2>1, <2>2, LoaderPreserves
<1>3. CASE ~file.loads
  <2>1. loader' = [loader EXCEPT ![l] = NotLoading] BY <1>3 DEF LoadFile
  <2> QED BY <1>1, <2>1, NoneLoaded, LoaderPreserves
<1> QED BY <1>2, <1>3

LEMMA ApplyPreserves == ASSUME HotInv, NEW l \in Loaders, Apply(l) PROVE HotInv'
<1> DEFINE loaded  == loader[l].loaded
           updated == ApplyChanges(current, loaded,
                                   DetectChanges(current, loaded) \cap HotReloadable)
<1>1. current \in Configs /\ loaded \in Configs /\ loaded \in versions
    BY DEF Apply, HotInv, HotTypeOK, Written
<1>2. OfOneVersion(current, versions) /\ \A s \in Subscribers : OfOneVersion(told[s], versions)
    BY DEF HotInv, InUse
<1>3. updated \in Configs /\ OfOneVersion(updated, versions)
    BY <1>1, <1>2, AppliedIsOfOneVersion
<1>4. /\ current' \in {current, updated}
      /\ \/ told' = told
         \/ told' = [s \in Subscribers |-> updated]
         \/ \E before \in Subscribers :
               told' = [s \in Subscribers |-> IF s < before THEN updated ELSE told[s]]
    BY DEF Apply
<1> HIDE DEF loaded, updated
<1>5. told' \in [Subscribers -> Configs]
    BY <1>3, <1>4, HotReloadConstants DEF HotInv, HotTypeOK
<1>6. ASSUME NEW s \in Subscribers PROVE told'[s] \in {told[s], updated}
    BY <1>4, HotReloadConstants DEF HotInv, HotTypeOK
<1>7. UNCHANGED <<file, versions>> /\ loader' = [loader EXCEPT ![l] = NotLoading]
    BY DEF Apply
<1>8. loader' \in [Loaders -> [at : {"idle", "load", "apply"}, loaded : Configs]]
    BY <1>7, NoneLoaded DEF HotInv, HotTypeOK
<1>9. \A k \in Loaders : loader'[k].at = "apply" => loader'[k].loaded \in versions
    BY <1>7, NoneLoaded DEF HotInv, HotTypeOK, Written
<1>10. \A s \in Subscribers : OfOneVersion(told'[s], versions) BY <1>2, <1>3, <1>6
<1>11. current' \in Configs /\ OfOneVersion(current', versions) BY <1>1, <1>2, <1>3, <1>4
<1> QED BY <1>5, <1>7, <1>8, <1>9, <1>10, <1>11 DEF HotInv, HotTypeOK, Written, InUse

LEMMA NextHot == HotInv /\ [HotNext]_hotVars => HotInv'
<1> SUFFICES ASSUME HotInv, [HotNext]_hotVars PROVE HotInv' OBVIOUS
<1>1. CASE NoticeEdit BY <1>1, BeginPreserves, HotReloadConstants DEF NoticeEdit
<1>2. CASE \E l \in Loaders : ReloadConfig(l) BY <1>2, BeginPreserves DEF ReloadConfig
<1>3. CASE StartWatching \/ StopWatching \/ FirstStat \/ UNCHANGED hotVars
    BY <1>3 DEF StartWatching, StopWatching, FirstStat, hotVars, HotInv, HotTypeOK, Written, InUse
<1> QED BY <1>1, <1>2, <1>3, EditPreserves, LoadPreserves, ApplyPreserves DEF HotNext

\* What the program runs with, and what any subscriber was told, is of one
\* version of the file, for every number of edits, loaders and subscribers
\* (manager.go:186-263).
THEOREM NeverMixed == HotSpec => []OneVersion
<1>1. HotInv => OneVersion BY DEF HotInv, InUse, OneVersion, OfOneVersion
<1> QED BY <1>1, InitHot, NextHot, PTL DEF HotSpec

=============================================================================
