---------------------------- MODULE RegistryCtl -----------------------------
(***************************************************************************)
(* The operator command line of the model registry (crates/atlas-registry: *)
(* bin/registryctl.rs).  Every command loads the whole registry file, works*)
(* on its copy and writes the whole file back, with no lock: operators that*)
(* run commands at the same time overwrite each other.  A command that     *)
(* fails writes nothing.  `lineage` only reads and is left out.            *)
(***************************************************************************)
EXTENDS ModelStore, SequencesExt

CONSTANTS
  Operators,
  MaxEntries   \* bound: records, anchors and audit entries in the file

ASSUME CtlAssumption ==
  /\ MaxEntries \in Nat
  /\ NoAnchor \notin Anchor

VARIABLES
  db,    \* the registry file
  copy   \* operator -> <<>>, or <<d>>: what its running command has loaded

vars == <<db, copy>>

Load(o) ==
  /\ copy[o] = <<>>
  /\ copy' = [copy EXCEPT ![o] = <<db>>]
  /\ UNCHANGED db

Entries(d) == Len(d.records) + Len(d.anchors)
  + MapThenSumSet(LAMBDA i : Len(d.records[i].audits), DOMAIN d.records)

Save(o, d) ==
  /\ Entries(d) <= MaxEntries
  /\ db' = d
  /\ copy' = [copy EXCEPT ![o] = <<>>]

Running(o) == copy[o] # <<>>
Copy(o)    == copy[o][1]

-----------------------------------------------------------------------------
(* Commands, from what they have loaded to what they save *)

Register(o, id, trainer) ==
  /\ Running(o)
  /\ Save(o, Registered(Copy(o), id, trainer))

\* The corpus gate: only a Pass verdict needs a corpus report that passes.
CorpusAllows(allPass, verdict) == allPass \/ verdict # "Pass"
SelfAuditAllowed(r, auditor) == TRUE
IndependentAuditor(r, auditor) == r.trainer # auditor

\* The audit of a draft: the updated record is put in the file, inserting it
\* in the rehydrated map fails as it is there already, and the record the map
\* holds, without the entry, is transited and put in the file over it.
AuditDraft(o, r, auditor, verdict) ==
  /\ r.status = "Draft"
  /\ Save(o, Transited(Copy(o), r, "Audited"))

\* Any later audit only adds the entry.
AuditLater(o, r, auditor, verdict) ==
  /\ r.status # "Draft"
  /\ Save(o, Replace(Copy(o),
       [r EXCEPT !.audits = Append(@, [auditor |-> auditor, verdict |-> verdict])]))

Audit(o, id, auditor, verdict, allPass) ==
  /\ Running(o)
  /\ CorpusAllows(allPass, verdict)
  /\ Has(Copy(o), id)
  /\ LET r == Find(Copy(o), id)
     IN  /\ IndependentAuditor(r, auditor)
         /\ AuditDraft(o, r, auditor, verdict) \/ AuditLater(o, r, auditor, verdict)

\* approve attaches the performance summary, flag-drift and slash nothing.
SummariseLater(r, to) == r
Summarise(r, to) == IF to = "Approved" THEN [r EXCEPT !.summary = TRUE] ELSE r

Decide(o, id, to) ==
  /\ Running(o)
  /\ Has(Copy(o), id)
  /\ LET r == Find(Copy(o), id)
     IN  /\ Legal(r.status, to)
         /\ Save(o, Transited(Copy(o), Summarise(r, to), to))

\* A command that cannot do its work (unknown model, illegal transition, ...)
\* or is interrupted before it writes.
Fail(o) ==
  /\ Running(o)
  /\ copy' = [copy EXCEPT ![o] = <<>>]
  /\ UNCHANGED db

Init == db = EmptyDb /\ copy = [o \in Operators |-> <<>>]

Next ==
  \E o \in Operators :
    \/ Load(o)
    \/ \E id \in Models, k \in Keys : Register(o, id, k)
    \/ \E id \in Models, k \in Keys, v \in Verdicts, allPass \in BOOLEAN :
         Audit(o, id, k, v, allPass)
    \/ \E id \in Models, to \in {"Approved", "DriftFlagged", "Slashed"} : Decide(o, id, to)
    \/ Fail(o)

Spec == Init /\ [][Next]_vars

-----------------------------------------------------------------------------
(* Properties *)

\* The file, and every copy of it, holds records and anchors.
Dbs == [records: Seq(Record), anchors: Seq(Anchor)]
TypeOK == db \in Dbs /\ \A o \in Operators : Running(o) => Copy(o) \in Dbs

\* The places at which a file holds the anchors of a model.
AnchoredAt(d, id) == {i \in DOMAIN d.anchors : d.anchors[i].id = id}
LastIn(i, places) == \A j \in places : j <= i

\* anchor.rs:4: the registry's state can be reconstructed by replaying the
\* anchors.  For every model the last anchor gives its status, and is the one
\* its record carries, whichever operators overwrote each other.
Replays(d) ==
  \A id \in Models :
    LET places == AnchoredAt(d, id)
    IN  /\ places = {} /\ Has(d, id) =>
             Find(d, id).status = "Draft" /\ Find(d, id).anchor = NoAnchor
        /\ \A i \in places : LastIn(i, places) =>
             /\ Has(d, id)
             /\ Find(d, id).status = d.anchors[i].new
             /\ Find(d, id).anchor = d.anchors[i]
StatusReplays == Replays(db)

\* The anchors of a model form one unbroken path from Draft: each starts where
\* the one before it ended, a model passes through Audited before anything
\* else, and nothing follows a terminal status.
FormPath(d) ==
  \A id \in Models :
    LET places == AnchoredAt(d, id)
    IN  \A i \in places :
          LET a == d.anchors[i]
              earlier == {j \in places : j < i}
          IN  /\ earlier = {} => a.prev = "Draft"
              /\ \A j \in earlier : LastIn(j, earlier) => a.prev = d.anchors[j].new
              /\ earlier = {} <=> a.new = "Audited"
              /\ a.new \in Terminal => LastIn(i, places)
AnchorsFormPath == FormPath(db)

\* record.rs:106-110, the parts the commands keep: an approved model, also one
\* that has drifted since, has its performance summary, and no record was
\* audited by its trainer.
ApprovedIsComplete ==
  \A i \in DOMAIN db.records :
    LET r == db.records[i]
    IN  /\ r.status \in {"Approved", "DriftFlagged"} => r.summary
        /\ \A j \in DOMAIN r.audits : r.audits[j].auditor # r.trainer

\* What a command found terminal when it loaded the file is so in the file that
\* it writes, with every audit it found, whatever the others have done to the
\* file in the meantime: the command as such undoes no decision.  A command that
\* loaded the file before the decision does, although model-approval.md:126 (in
\* ops/runbooks) calls the transition final.
Stands(r, d) ==
  /\ Has(d, r.id)
  /\ Find(d, r.id).status = r.status
  /\ IsPrefix(r.audits, Find(d, r.id).audits)
TerminalStands ==
  [][\A o \in Operators :
       Running(o) /\ copy'[o] = <<>> /\ db' # db =>
         \A id \in Models : Has(Copy(o), id) /\ Find(Copy(o), id).status \in Terminal =>
           Stands(Find(Copy(o), id), db')]_vars
=============================================================================
