------------------------------ MODULE ConfigSync ------------------------------
(***************************************************************************)
(* Remote configuration: administrators edit the document of an agent type *)
(* and the override of one agent in the control plane (web/store/          *)
(* config_store.go, each edit a PostgreSQL transaction); the agent polls   *)
(* the merged document under an ETag (pkg/reporter/config_fetcher.go,      *)
(* web/handler/config_handler.go) and merges it into its running           *)
(* configuration (internal/config/remote.go).                              *)
(***************************************************************************)
EXTENDS Integers, Sequences, FiniteSets

CONSTANTS
    Fields, SectionOf,       \* settings, and the section each belongs to
    Values, Unset,           \* what a setting may hold, and its absence
    Defaulted, Default,      \* settings the server completes, and with what
    Docs,                    \* documents administrators may save, per target
    Admins,
    LookupFails,             \* the handler's agent lookup may fail
    MaxEdits                 \* bound: edits begun

Targets == {"type", "agent"}
Document == [Fields -> Values \cup {Unset}]

ASSUME ConfigConstants ==
    /\ Unset \notin Values /\ Default \in Values /\ Defaulted \subseteq Fields
    /\ \A t \in Targets : Docs[t] \subseteq Document
    /\ LookupFails \in BOOLEAN /\ MaxEdits \in Nat

Empty == [f \in Fields |-> Unset]
Local == [f \in Fields |-> Default]     \* the agent's local file and defaults

VARIABLES
    row,      \* committed row of a target: doc and version, 0 without a row
    audit,    \* config_audit_log, in commit order
    tx,       \* per administrator: the transaction of an upsert
    edits,    \* edits begun
    cfg,      \* the agent's running configuration
    etag,     \* ConfigFetcher.lastETag
    answer    \* the response on its way to the agent

server == <<row, audit, tx, edits>>
agent == <<cfg, etag, answer>>
vars == <<row, audit, tx, edits, cfg, etag, answer>>

NoETag == -1     \* lastETag before the first answer; "0" is an ETag
NoTx == [pc |-> "none", target |-> "type", doc |-> Empty, prev |-> Empty, ver |-> 0]
NoAnswer == [status |-> 0, doc |-> Empty, etag |-> 0]

TypeOK ==
    /\ row \in [Targets -> [doc : Document, ver : Nat]]
    /\ audit \in Seq([target : Targets, prev : Document, new : Document, ver : Nat])
    /\ tx \in [Admins -> [pc : {"none", "read", "locked"}, target : Targets, doc : Document,
                          prev : Document, ver : Nat]]
    /\ edits \in 0..MaxEdits
    /\ cfg \in [Fields -> Values] /\ etag \in Nat \cup {NoETag}
    /\ answer \in [status : {0, 200, 304}, doc : Document, etag : Nat]

-----------------------------------------------------------------------------
(* Merging.                                                                *)

\* COALESCE(type) || COALESCE(override): jsonb concatenation replaces whole
\* sections, the top-level keys.
Merged(t, o) ==
    [f \in Fields |->
        IF \E g \in Fields : SectionOf[g] = SectionOf[f] /\ o[g] # Unset THEN o[f] ELSE t[f]]

\* ApplyServerDefaults.
Completed(doc) ==
    [f \in Fields |-> IF doc[f] = Unset /\ f \in Defaulted THEN Default ELSE doc[f]]

\* MergeRemoteConfig: fields that are absent keep their running value.
\* Variants: a field that was set once is never replaced; absent fields are
\* copied too.
Copied(c, doc) == doc
FirstWins(c, doc) == [f \in Fields |-> IF c[f] = Default /\ doc[f] # Unset THEN doc[f] ELSE c[f]]
MergeRemoteConfig(c, doc) == [f \in Fields |-> IF doc[f] # Unset THEN doc[f] ELSE c[f]]

Greatest(a, b) == IF a >= b THEN a ELSE b

\* GetMergedConfig and the ETag of HandleIngestConfig; without the agent's id
\* no override is found.
Response(known) ==
    LET o == IF known THEN row["agent"] ELSE [doc |-> Empty, ver |-> 0]
    IN  [doc |-> Completed(Merged(row["type"].doc, o.doc)), etag |-> Greatest(row["type"].ver, o.ver)]

Init ==
    /\ row = [t \in Targets |-> [doc |-> Empty, ver |-> 0]]
    /\ audit = <<>> /\ edits = 0
    /\ tx = [a \in Admins |-> NoTx]
    /\ cfg = MergeRemoteConfig(Local, Completed(Empty)) /\ etag = NoETag
    /\ answer = NoAnswer

-----------------------------------------------------------------------------
(* UpsertAgentTypeConfig and UpsertAgentOverride, one transaction each,    *)
(* under read committed isolation.                                         *)

Unlocked(target) == \A a \in Admins : ~(tx[a].pc = "locked" /\ tx[a].target = target)

\* Begin, and the SELECT of the previous document for the audit entry.
TxRead(a) ==
    /\ tx[a].pc = "none" /\ edits < MaxEdits
    /\ edits' = edits + 1
    /\ \E target \in Targets : \E doc \in Docs[target] :
         tx' = [tx EXCEPT ![a] = [pc |-> "read", target |-> target, doc |-> doc,
                                  prev |-> row[target].doc, ver |-> row[target].ver]]
    /\ UNCHANGED <<row, audit, agent>>

\* The version the upsert computes from the row it locks.  Variant: from the
\* row the transaction read before.
FromRead(a) == tx[a].ver + 1
NextVersion(a) == row[tx[a].target].ver + 1

\* INSERT ... ON CONFLICT DO UPDATE waits for the row and keeps it locked.
TxUpsert(a) ==
    /\ tx[a].pc = "read" /\ Unlocked(tx[a].target)
    /\ tx' = [tx EXCEPT ![a].pc = "locked", ![a].ver = NextVersion(a)]
    /\ UNCHANGED <<row, audit, edits, agent>>

\* The audit entry is written and the transaction commits.
TxCommit(a) ==
    LET t == tx[a] IN
    /\ t.pc = "locked"
    /\ row' = [row EXCEPT ![t.target] = [doc |-> t.doc, ver |-> t.ver]]
    /\ audit' = Append(audit, [target |-> t.target, prev |-> t.prev, new |-> t.doc, ver |-> t.ver])
    /\ tx' = [tx EXCEPT ![a] = NoTx]
    /\ UNCHANGED <<edits, agent>>

\* What a failed transaction leaves behind: nothing.  Variant: the audit entry
\* was not part of it.
KeepRow(a) ==
    row' = IF tx[a].pc = "locked"
           THEN [row EXCEPT ![tx[a].target] = [doc |-> tx[a].doc, ver |-> tx[a].ver]] ELSE row
RolledBack(a) == UNCHANGED row

TxFail(a) ==
    /\ tx[a].pc # "none"
    /\ RolledBack(a)
    /\ tx' = [tx EXCEPT ![a] = NoTx]
    /\ UNCHANGED <<audit, edits, agent>>

DeleteAgentOverride ==
    /\ row["agent"].ver # 0 /\ Unlocked("agent") /\ edits < MaxEdits
    /\ row' = [row EXCEPT !["agent"] = [doc |-> Empty, ver |-> 0]]
    /\ edits' = edits + 1
    /\ UNCHANGED <<audit, tx, agent>>

-----------------------------------------------------------------------------
(* PollLoop, FetchConfig and HandleIngestConfig.                           *)

\* If-None-Match names the ETag of the merged document.  Variant: any ETag the
\* agent sends.
AnyETag(r) == etag # NoETag
Matches(r) == etag = r.etag

\* The handler answers the request of a poll.
Ingest(known) ==
    LET r == Response(known) IN
    /\ answer.status = 0
    /\ answer' = IF Matches(r) THEN [status |-> 304, doc |-> Empty, etag |-> r.etag]
                 ELSE [status |-> 200, doc |-> r.doc, etag |-> r.etag]
    /\ UNCHANGED <<server, cfg, etag>>

HandleIngestConfig == Ingest(TRUE) \/ (LookupFails /\ Ingest(FALSE))

\* The agent receives it, keeps the ETag and applies the document.
Receive ==
    /\ answer.status # 0
    /\ IF answer.status = 200
       THEN etag' = answer.etag /\ cfg' = MergeRemoteConfig(cfg, answer.doc)
       ELSE UNCHANGED <<etag, cfg>>
    /\ answer' = NoAnswer
    /\ UNCHANGED server

\* The request fails; the next tick polls again.
LoseAnswer ==
    /\ answer.status # 0
    /\ answer' = NoAnswer
    /\ UNCHANGED <<server, cfg, etag>>

\* The agent starts again: runStart fetches the document with a fetcher of its
\* own, and the poll loop's fetcher has no ETag yet.
Restart(known) ==
    /\ cfg' = MergeRemoteConfig(Local, Response(known).doc)
    /\ etag' = NoETag /\ answer' = NoAnswer
    /\ UNCHANGED server

AgentRestarts == Restart(TRUE) \/ (LookupFails /\ Restart(FALSE))

-----------------------------------------------------------------------------
Edit(a) == TxRead(a) \/ TxUpsert(a) \/ TxCommit(a) \/ TxFail(a)

Next ==
    \/ \E a \in Admins : Edit(a)
    \/ DeleteAgentOverride
    \/ HandleIngestConfig \/ Receive \/ LoseAnswer \/ AgentRestarts

\* The agent keeps polling, and of the answers sent again and again some
\* arrive; a transaction ends.
Spec ==
    /\ Init /\ [][Next]_vars
    /\ WF_vars(Ingest(TRUE)) /\ SF_vars(Receive)
    /\ \A a \in Admins : WF_vars(TxUpsert(a) \/ TxCommit(a))

-----------------------------------------------------------------------------
(* Properties.                                                             *)

\* What an agent that starts now runs.
Fresh == MergeRemoteConfig(Local, Response(TRUE).doc)

\* No override was ever saved: each leaves an audit entry, even when deleted.
NeverOverridden == \A i \in DOMAIN audit : audit[i].target # "agent"

\* "if the config hasn't changed (304 Not Modified), no processing occurs"
\* (docs/configuration/remote-configuration.md): an agent whose ETag the
\* handler would answer with 304 runs the current document.
NotModifiedIsCurrent == etag = Response(TRUE).etag => cfg = Fresh

\* The same of an agent that never had an override: whatever answers are lost,
\* delayed or fetched without the agent's id, it never misses an edit.
AgentCurrent == NeverOverridden => NotModifiedIsCurrent

\* "Live updates": once the administrators stop, an agent that polls and never
\* had an override ends up with what a restarted agent runs.
AgentConverges == <>[](NeverOverridden => cfg = Fresh)

\* Two administrators who save the same target get consecutive versions; a
\* version is never given twice, except that a deleted override starts anew.
VersionsAdvance ==
    [][\A t \in Targets : row'[t] # row[t] =>
         \/ row'[t].ver = row[t].ver + 1
         \/ t = "agent" /\ row'[t].ver = 0]_vars

\* "Audit trail - track who changed what and when": the last audit entry of a
\* target that has a document is about that document and its version.
LastEntry(t, i) == audit[i].target = t /\ \A j \in DOMAIN audit : j > i => audit[j].target # t
AuditComplete ==
    \A t \in Targets : row[t].ver # 0 =>
        \E i \in DOMAIN audit :
            LastEntry(t, i) /\ audit[i].new = row[t].doc /\ audit[i].ver = row[t].ver
=============================================================================
