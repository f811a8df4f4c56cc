----------------------------- MODULE ModelStore -----------------------------
(***************************************************************************)
(* Model records, their status transitions and the anchors that record     *)
(* them (crates/atlas-registry: record.rs, store.rs, anchor.rs).  The      *)
(* definitions work on a value of RegistryDb, the content of the registry  *)
(* file: a sequence of records and the sequence of anchors.  Hashes are    *)
(* collision free, so an anchor leaf is the anchor itself.                 *)
(***************************************************************************)
EXTENDS Integers, Sequences, FiniteSetsExt

CONSTANTS Models, Keys,   \* model ids; trainer and auditor public keys
          NoAnchor

Status   == {"Draft", "Audited", "Approved", "DriftFlagged", "Deprecated", "Slashed"}
Verdicts == {"Pass", "Fail"}   \* nothing tells NeedsRevision from Fail
Terminal == {"Deprecated", "Slashed"}

AuditEntry == [auditor: Keys, verdict: Verdicts]
Anchor     == [id: Models, prev: Status, new: Status]
Record     == [id: Models, trainer: Keys, status: Status, audits: Seq(AuditEntry),
               summary: BOOLEAN, anchor: Anchor \cup {NoAnchor}]

LegalEdge == {<<"Draft", "Audited">>, <<"Audited", "Approved">>, <<"Audited", "Slashed">>}
  \cup ({"Approved", "DriftFlagged"} \X Terminal)
  \cup {<<"Approved", "DriftFlagged">>, <<"DriftFlagged", "Approved">>}
LegalUnslashed(from, to) == <<from, to>> \in LegalEdge \cup {<<"Slashed", "Approved">>}
LegalDirect(from, to)    == <<from, to>> \in LegalEdge \cup {<<"Draft", "Slashed">>}
Legal(from, to)          == <<from, to>> \in LegalEdge

EmptyDb == [records |-> <<>>, anchors |-> <<>>]

\* The record a command finds: the first of its id, in the file as in the map
\* that rehydrate builds, where a second record of an id is not inserted.
Has(d, id)   == \E i \in DOMAIN d.records : d.records[i].id = id
IndexOf(d, id) == Min({i \in DOMAIN d.records : d.records[i].id = id})
Find(d, id)  == d.records[IndexOf(d, id)]

Replace(d, r) == [d EXCEPT !.records[IndexOf(d, r.id)] = r]

\* Registered models start as drafts.  The new record is pushed whether or not
\* its id is there already.
Registered(d, id, trainer) ==
  [d EXCEPT !.records = Append(@,
     [id |-> id, trainer |-> trainer, status |-> "Draft", audits |-> <<>>,
      summary |-> FALSE, anchor |-> NoAnchor])]

\* InMemoryRegistry::transition, the anchor pushed, the record put back.
TransitedUnanchored(d, r, to) == Replace(d, [r EXCEPT !.status = to])
Transited(d, r, to) ==
  LET a == [id |-> r.id, prev |-> r.status, new |-> to]
  IN  [Replace(d, [r EXCEPT !.status = to, !.anchor = a])
         EXCEPT !.anchors = Append(@, a)]
=============================================================================
