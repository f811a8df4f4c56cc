--------------------------- MODULE RegistryProofs ---------------------------
(***************************************************************************)
(* What the registry file holds, whichever operators overwrite each other: *)
(* the file and every loaded copy of it are well typed, each record is     *)
(* complete on its own, and the anchors of a file replay to the statuses in*)
(* the same file.  All of this is said of one file, whoever holds it, so   *)
(* writing an older copy back cannot break it.                             *)
(***************************************************************************)
EXTENDS RegistryCtl, WellFoundedInduction, TLAPS

\* A record on its own: what ApprovedIsComplete says of each.
Complete(r) ==
  /\ r.status \in {"Approved", "DriftFlagged"} => r.summary
  /\ \A j \in DOMAIN r.audits : r.audits[j].auditor # r.trainer

Filed(d) == d \in Dbs /\ \A i \in DOMAIN d.records : Complete(d.records[i])

\* A model with an anchor is there and has left Draft: with it, the last anchor
\* need not be looked for when the next one is added.
Moved(d) ==
  \A id \in Models :
    AnchoredAt(d, id) # {} => Has(d, id) /\ Find(d, id).status # "Draft"

Sound(d) == Replays(d) /\ FormPath(d) /\ Moved(d)
Good(d)  == Filed(d) /\ Sound(d)

Inv ==
  /\ Good(db)
  /\ copy \in [Operators -> Seq(Dbs)]
  /\ \A o \in Operators : Running(o) => Good(Copy(o))

\* The record a command finds is the first of the file's under the id asked for.
LEMMA FindFinds ==
  ASSUME NEW d \in Dbs, NEW id, Has(d, id)
  PROVE  /\ IndexOf(d, id) \in DOMAIN d.records
         /\ Find(d, id) \in Record /\ Find(d, id).id = id
         /\ d.records[IndexOf(d, id)].id = id
         /\ \A i \in DOMAIN d.records : d.records[i].id = id => IndexOf(d, id) <= i
<1> DEFINE S == {i \in DOMAIN d.records : d.records[i].id = id}
<1>1. S # {} /\ S \in SUBSET Nat
  BY DEF Has, Dbs
<1>2. \E m \in S : \A n \in S : m <= n
  <2>1. \E m \in S : \A n \in S : <<n, m>> \notin OpToRel(<, Nat)
    BY <1>1, WFMin, NatLessThanWellFounded
  <2>2. PICK m \in S : \A n \in S : <<n, m>> \notin OpToRel(<, Nat)
    BY <2>1
  <2>3. \A n \in S : ~(n < m)
    BY <1>1, <2>2 DEF OpToRel
  <2>4. QED
    BY <1>1, <2>3
<1>3. IndexOf(d, id) \in S /\ \A n \in S : IndexOf(d, id) <= n
  BY <1>1, <1>2 DEF IndexOf, Min
<1>4. QED
  BY <1>3 DEF Find, Dbs

\* Any record that is the first of its id is the one found.
LEMMA FirstIsFound ==
  ASSUME NEW d \in Dbs, NEW id, NEW m \in DOMAIN d.records, d.records[m].id = id,
         \A i \in DOMAIN d.records : d.records[i].id = id => m <= i
  PROVE  Has(d, id) /\ Find(d, id) = d.records[m]
<1>1. Has(d, id)
  BY DEF Has
<1>2. IndexOf(d, id) \in DOMAIN d.records /\ IndexOf(d, id) <= m /\ m <= IndexOf(d, id)
  BY <1>1, FindFinds
<1>3. DOMAIN d.records \subseteq Nat
  BY DEF Dbs
<1>4. IndexOf(d, id) = m
  BY <1>2, <1>3
<1>5. QED
  BY <1>1, <1>4 DEF Find

-----------------------------------------------------------------------------
(* What each way of writing a file does to the records found in it *)

\* Putting a record back keeps the file's anchors and what is found under every
\* other id.
LEMMA Replacing ==
  ASSUME NEW d \in Dbs, NEW r \in Record, Has(d, r.id)
  PROVE  /\ Replace(d, r) \in Dbs /\ Replace(d, r).anchors = d.anchors
         /\ DOMAIN Replace(d, r).records = DOMAIN d.records
         /\ \A i \in DOMAIN d.records :
              Replace(d, r).records[i] = IF i = IndexOf(d, r.id) THEN r ELSE d.records[i]
         /\ Has(Replace(d, r), r.id) /\ Find(Replace(d, r), r.id) = r
         /\ \A id : id # r.id => /\ Has(Replace(d, r), id) <=> Has(d, id)
                                 /\ Has(d, id) => Find(Replace(d, r), id) = Find(d, id)
<1> DEFINE k == IndexOf(d, r.id)
           e == [d EXCEPT !.records = [d.records EXCEPT ![k] = r]]
<1>1. /\ k \in DOMAIN d.records /\ d.records[k].id = r.id
      /\ \A i \in DOMAIN d.records : d.records[i].id = r.id => k <= i
  BY FindFinds
<1>2. d.records \in Seq(Record) /\ d.anchors \in Seq(Anchor)
  BY DEF Dbs
<1> HIDE DEF k
<1>3. [d.records EXCEPT ![k] = r] \in Seq(Record)
  BY <1>1, <1>2
<1>4. e \in Dbs /\ e.records = [d.records EXCEPT ![k] = r] /\ e.anchors = d.anchors
  BY <1>2, <1>3 DEF Dbs
<1>5. Replace(d, r) = e
  BY DEF Replace, k
<1> HIDE DEF e
<1>6. /\ DOMAIN e.records = DOMAIN d.records
      /\ \A i \in DOMAIN d.records : e.records[i] = IF i = k THEN r ELSE d.records[i]
  BY <1>1, <1>2, <1>4
<1>7. \A i \in DOMAIN d.records : e.records[i].id = d.records[i].id
  BY <1>1, <1>6
<1>8. Has(e, r.id) /\ Find(e, r.id) = r
  <2>1. k \in DOMAIN e.records /\ e.records[k] = r
        /\ \A i \in DOMAIN e.records : e.records[i].id = r.id => k <= i
    BY <1>1, <1>6, <1>7
  <2>2. QED
    BY <1>4, <2>1, FirstIsFound
<1>9. ASSUME NEW id, id # r.id
      PROVE  (Has(e, id) <=> Has(d, id)) /\ (Has(d, id) => Find(e, id) = Find(d, id))
  <2>1. Has(e, id) <=> Has(d, id)
    BY <1>6, <1>7 DEF Has
  <2>2. ASSUME Has(d, id) PROVE Find(e, id) = Find(d, id)
    <3> DEFINE m == IndexOf(d, id)
    <3>1. /\ m \in DOMAIN d.records /\ d.records[m].id = id
          /\ \A i \in DOMAIN d.records : d.records[i].id = id => m <= i
      BY <2>2, FindFinds
    <3>2. Find(d, id) = d.records[m]
      BY DEF Find
    <3> HIDE DEF m
    <3>3. m # k
      BY <1>1, <1>9, <3>1
    <3>4. m \in DOMAIN e.records /\ e.records[m] = d.records[m] /\ e.records[m].id = id
          /\ \A i \in DOMAIN e.records : e.records[i].id = id => m <= i
      BY <1>6, <1>7, <3>1, <3>3
    <3>5. QED
      BY <1>4, <3>2, <3>4, FirstIsFound
  <2>3. QED
    BY <2>1, <2>2
<1>10. QED
  BY <1>4, <1>5, <1>6, <1>8, <1>9 DEF k

\* A registration adds a draft, which is found only if its id was new.
LEMMA Registering ==
  ASSUME NEW d \in Dbs, NEW id \in Models, NEW k \in Keys
  PROVE  LET e == Registered(d, id, k)
             r == [id |-> id, trainer |-> k, status |-> "Draft", audits |-> <<>>,
                   summary |-> FALSE, anchor |-> NoAnchor]
         IN  /\ e \in Dbs /\ e.anchors = d.anchors
             /\ e.records = Append(d.records, r)
             /\ r \in Record
             /\ \A x : Has(e, x) <=> Has(d, x) \/ x = id
             /\ \A x : Has(d, x) => Find(e, x) = Find(d, x)
             /\ ~Has(d, id) => Find(e, id) = r
<1> DEFINE r == [id |-> id, trainer |-> k, status |-> "Draft", audits |-> <<>>,
                 summary |-> FALSE, anchor |-> NoAnchor]
           e == [d EXCEPT !.records = Append(d.records, r)]
<1>1. r \in Record /\ r.id = id
  BY DEF Record, Status
<1>2. d.records \in Seq(Record) /\ d.anchors \in Seq(Anchor)
  BY DEF Dbs
<1>3. Registered(d, id, k) = e
  BY DEF Registered
<1> HIDE DEF r
<1>4. Append(d.records, r) \in Seq(Record)
  BY <1>1, <1>2
<1>5. e \in Dbs /\ e.records = Append(d.records, r) /\ e.anchors = d.anchors
  BY <1>2, <1>4 DEF Dbs
<1> HIDE DEF e
<1> DEFINE n == Len(d.records)
<1>6. /\ n \in Nat /\ DOMAIN d.records = 1 .. n /\ DOMAIN e.records = 1 .. n + 1
      /\ \A i \in 1 .. n : e.records[i] = d.records[i]
      /\ e.records[n + 1] = r
  BY <1>1, <1>2, <1>5
<1> HIDE DEF n
<1>7. \A x : Has(e, x) <=> Has(d, x) \/ x = id
  BY <1>1, <1>6 DEF Has
<1>8. ASSUME NEW x, Has(d, x) PROVE Find(e, x) = Find(d, x)
  <2> DEFINE m == IndexOf(d, x)
  <2>1. /\ m \in DOMAIN d.records /\ d.records[m].id = x
        /\ \A i \in DOMAIN d.records : d.records[i].id = x => m <= i
    BY <1>8, FindFinds
  <2>2. Find(d, x) = d.records[m]
    BY DEF Find
  <2> HIDE DEF m
  <2>3. m \in DOMAIN e.records /\ e.records[m] = d.records[m] /\ e.records[m].id = x
        /\ \A i \in DOMAIN e.records : e.records[i].id = x => m <= i
    BY <1>6, <2>1
  <2>4. QED
    BY <1>5, <2>2, <2>3, FirstIsFound
<1>9. ASSUME ~Has(d, id) PROVE Find(e, id) = r
  <2>1. n + 1 \in DOMAIN e.records /\ e.records[n + 1].id = id
        /\ \A i \in DOMAIN e.records : e.records[i].id = id => n + 1 <= i
    BY <1>1, <1>6, <1>9 DEF Has
  <2>2. QED
    BY <1>5, <1>6, <2>1, FirstIsFound
<1>10. QED
  BY <1>1, <1>3, <1>5, <1>7, <1>8, <1>9 DEF r

\* What is said of the anchors is kept when every model keeps its anchors, its
\* status and its last anchor.
LEMMA SoundCarriesOver ==
  ASSUME NEW d, NEW e, Sound(d), e.anchors = d.anchors,
         \A id \in Models : AnchoredAt(d, id) # {} /\ Has(d, id) => Has(e, id),
         \A id \in Models : Has(e, id) =>
           \/ ~Has(d, id) /\ Find(e, id).status = "Draft" /\ Find(e, id).anchor = NoAnchor
           \/ /\ Has(d, id)
              /\ Find(e, id).status = Find(d, id).status
              /\ Find(e, id).anchor = Find(d, id).anchor
  PROVE  Sound(e)
<1>1. \A id : AnchoredAt(e, id) = AnchoredAt(d, id)
  BY DEF AnchoredAt
<1>2. FormPath(e)
  BY <1>1 DEF Sound, FormPath
<1>3. Moved(e)
  BY <1>1 DEF Sound, Moved
<1>4. ASSUME NEW id \in Models
      PROVE  /\ AnchoredAt(d, id) = {} /\ Has(e, id) =>
                  Find(e, id).status = "Draft" /\ Find(e, id).anchor = NoAnchor
             /\ \A i \in AnchoredAt(d, id) : LastIn(i, AnchoredAt(d, id)) =>
                  /\ Has(e, id) /\ Find(e, id).status = d.anchors[i].new
                  /\ Find(e, id).anchor = d.anchors[i]
  BY <1>4 DEF Sound, Replays
<1>5. Replays(e)
  BY <1>1, <1>4 DEF Replays
<1>6. QED
  BY <1>2, <1>3, <1>5 DEF Sound

\* Putting a complete record in the place of one found keeps every record
\* complete.
LEMMA PutKeepsFiled ==
  ASSUME NEW d, Filed(d), NEW r \in Record, Has(d, r.id), Complete(r)
  PROVE  Filed(Replace(d, r))
BY Replacing DEF Filed

\* A registration pushes a draft.
LEMMA RegisteredKeeps ==
  ASSUME NEW d, Good(d), NEW id \in Models, NEW k \in Keys
  PROVE  Good(Registered(d, id, k))
<1> DEFINE r == [id |-> id, trainer |-> k, status |-> "Draft", audits |-> <<>>,
                 summary |-> FALSE, anchor |-> NoAnchor]
           e == Registered(d, id, k)
<1>1. /\ d \in Dbs /\ d.records \in Seq(Record)
      /\ \A i \in DOMAIN d.records : Complete(d.records[i])
  BY DEF Good, Filed, Dbs
<1>2. /\ e \in Dbs /\ e.anchors = d.anchors /\ e.records = Append(d.records, r)
      /\ r \in Record
      /\ \A x : Has(e, x) <=> Has(d, x) \/ x = id
      /\ \A x : Has(d, x) => Find(e, x) = Find(d, x)
      /\ ~Has(d, id) => Find(e, id) = r
  BY <1>1, Registering
<1>3. Complete(r) /\ r.status = "Draft" /\ r.anchor = NoAnchor
  BY DEF Complete
<1> HIDE DEF r, e
<1>4. \A i \in DOMAIN e.records : Complete(e.records[i])
  BY <1>1, <1>2, <1>3
<1>5. Sound(e)
  BY <1>2, <1>3, SoundCarriesOver DEF Good
<1>6. QED
  BY <1>2, <1>4, <1>5 DEF Good, Filed, e

\* A later audit puts the record back with an entry more.
LEMMA AuditedKeeps ==
  ASSUME NEW d, Good(d), NEW r \in Record, Has(d, r.id), Complete(r),
         r.status = Find(d, r.id).status, r.anchor = Find(d, r.id).anchor
  PROVE  Good(Replace(d, r))
<1> DEFINE e == Replace(d, r)
<1>1. /\ d \in Dbs /\ e.anchors = d.anchors
      /\ Has(e, r.id) /\ Find(e, r.id) = r
      /\ \A id : id # r.id => /\ Has(e, id) <=> Has(d, id)
                              /\ Has(d, id) => Find(e, id) = Find(d, id)
  BY Replacing DEF Good, Filed
<1>2. Filed(e)
  BY PutKeepsFiled DEF Good
<1> HIDE DEF e
<1>3. \A id : Has(e, id) <=> Has(d, id)
  BY <1>1
<1>4. \A id : Has(e, id) => /\ Find(e, id).status = Find(d, id).status
                            /\ Find(e, id).anchor = Find(d, id).anchor
  BY <1>1
<1>5. Sound(e)
  BY <1>1, <1>3, <1>4, SoundCarriesOver DEF Good
<1>6. QED
  BY <1>2, <1>5 DEF Good, e

\* Nothing leaves a terminal status, only drafts become audited, and nothing
\* becomes a draft again.
LEMMA LegalMoves ==
  ASSUME NEW from, NEW to, Legal(from, to)
  PROVE  /\ from \notin Terminal /\ to \in Status /\ to # "Draft"
         /\ from = "Draft" <=> to = "Audited"
         /\ to = "DriftFlagged" => from = "Approved"
BY DEF Legal, LegalEdge, Terminal, Status

\* A legal transition of a record with the status the file gives it, whether or
\* not its summary was attached before, adds one anchor to the model's path.
LEMMA TransitedKeeps ==
  ASSUME NEW d, Good(d), NEW r \in Record, Has(d, r.id), Complete(r),
         r.status = Find(d, r.id).status, NEW to, Legal(r.status, to),
         to \in {"Approved", "DriftFlagged"} => r.summary
  PROVE  Good(Transited(d, r, to))
<1> DEFINE a == [id |-> r.id, prev |-> r.status, new |-> to]
           q == [r EXCEPT !.status = to, !.anchor = a]
           c == Replace(d, q)
           e == [c EXCEPT !.anchors = Append(c.anchors, a)]
           n == Len(d.anchors)
<1>1. r.status \notin Terminal /\ to \in Status /\ to # "Draft"
      /\ (r.status = "Draft" <=> to = "Audited")
  BY LegalMoves
<1>2. r.id \in Models /\ a \in Anchor /\ a.id = r.id /\ a.prev = r.status /\ a.new = to
  BY <1>1 DEF Anchor, Record
<1>3. q \in Record /\ q.id = r.id /\ q.status = to /\ q.anchor = a /\ Complete(q)
  BY <1>1, <1>2 DEF Record, Complete
<1>4. Transited(d, r, to) = e
  BY DEF Transited
<1>5. d \in Dbs /\ d.anchors \in Seq(Anchor) /\ Sound(d) /\ Filed(d)
  BY DEF Good, Filed, Dbs
<1> HIDE DEF a, q
<1>6. /\ c \in Dbs /\ c.anchors = d.anchors
      /\ Has(c, r.id) /\ Find(c, r.id) = q
      /\ \A id : id # r.id => /\ Has(c, id) <=> Has(d, id)
                              /\ Has(d, id) => Find(c, id) = Find(d, id)
  BY <1>3, <1>5, Replacing
<1>7. Filed(c)
  BY <1>3, <1>5, PutKeepsFiled
<1> HIDE DEF c
<1>8. Append(c.anchors, a) \in Seq(Anchor)
  BY <1>2, <1>5, <1>6
<1>9. e \in Dbs /\ e.records = c.records /\ e.anchors = Append(d.anchors, a)
  BY <1>6, <1>8 DEF Dbs
<1> HIDE DEF e
<1>10. /\ n \in Nat /\ DOMAIN d.anchors = 1 .. n /\ DOMAIN e.anchors = 1 .. n + 1
       /\ \A i \in 1 .. n : e.anchors[i] = d.anchors[i]
       /\ e.anchors[n + 1] = a
  BY <1>2, <1>5, <1>9
<1> HIDE DEF n
<1>11. Filed(e)
  BY <1>7, <1>9 DEF Filed
<1>12. \A id : (Has(e, id) <=> Has(c, id)) /\ Find(e, id) = Find(c, id)
  BY <1>9 DEF Has, Find, IndexOf
<1> DEFINE P == AnchoredAt(d, r.id)
<1>13. AnchoredAt(e, r.id) = P \cup {n + 1} /\ P \subseteq 1 .. n
  BY <1>2, <1>10 DEF AnchoredAt
<1>14. \A id : id # r.id => AnchoredAt(e, id) = AnchoredAt(d, id)
  BY <1>2, <1>10 DEF AnchoredAt
<1>15. \A id : AnchoredAt(d, id) \subseteq 1 .. n
  BY <1>10 DEF AnchoredAt
\* What the file says of the model before.
<1>16. /\ P = {} => r.status = "Draft"
       /\ P # {} => r.status # "Draft"
       /\ \A i \in P : LastIn(i, P) => r.status = d.anchors[i].new
  BY <1>2, <1>5 DEF Sound, Replays, Moved
<1> HIDE DEF P
<1>17. Moved(e)
  <2> SUFFICES ASSUME NEW id \in Models, AnchoredAt(e, id) # {}
               PROVE  Has(e, id) /\ Find(e, id).status # "Draft"
    BY DEF Moved
  <2>1. CASE id = r.id
    BY <1>1, <1>3, <1>6, <1>12, <2>1
  <2>2. CASE id # r.id
    BY <1>5, <1>6, <1>12, <1>14, <2>2 DEF Sound, Moved
  <2>3. QED
    BY <2>1, <2>2
<1>18. Replays(e)
  <2>1. ASSUME NEW id \in Models, AnchoredAt(e, id) = {}, Has(e, id)
        PROVE  Find(e, id).status = "Draft" /\ Find(e, id).anchor = NoAnchor
    <3>1. id # r.id
      BY <1>13, <2>1
    <3>2. AnchoredAt(d, id) = {} /\ Has(d, id) /\ Find(e, id) = Find(d, id)
      BY <1>6, <1>12, <1>14, <2>1, <3>1
    <3>3. QED
      BY <1>5, <3>2 DEF Sound, Replays
  <2>2. ASSUME NEW id \in Models, NEW i \in AnchoredAt(e, id), LastIn(i, AnchoredAt(e, id))
        PROVE  Has(e, id) /\ Find(e, id).status = e.anchors[i].new
               /\ Find(e, id).anchor = e.anchors[i]
    <3>1. CASE id = r.id
      <4>1. n \in Nat /\ i \in P \cup {n + 1} /\ P \subseteq 1 .. n
        BY <1>10, <1>13, <2>2, <3>1
      <4>2. n + 1 <= i
        BY <1>13, <2>2, <3>1 DEF LastIn
      <4>3. i = n + 1
        BY ONLY <4>1, <4>2
      <4>4. QED
        BY <1>2, <1>3, <1>6, <1>10, <1>12, <3>1, <4>3
    <3>2. CASE id # r.id
      <4>1. i \in AnchoredAt(d, id) /\ LastIn(i, AnchoredAt(d, id)) /\ i \in 1 .. n
        BY <1>14, <1>15, <2>2, <3>2
      <4>2. Has(d, id) /\ Find(d, id).status = d.anchors[i].new
            /\ Find(d, id).anchor = d.anchors[i]
        BY <1>5, <4>1 DEF Sound, Replays
      <4>3. QED
        BY <1>6, <1>10, <1>12, <3>2, <4>1, <4>2
    <3>3. QED
      BY <3>1, <3>2
  <2>3. QED
    BY <2>1, <2>2 DEF Replays
<1>19. FormPath(e)
  <2> SUFFICES
        ASSUME NEW id \in Models, NEW i \in AnchoredAt(e, id)
        PROVE  LET b == e.anchors[i]
                   earlier == {j \in AnchoredAt(e, id) : j < i}
               IN  /\ earlier = {} => b.prev = "Draft"
                   /\ \A j \in earlier : LastIn(j, earlier) => b.prev = e.anchors[j].new
                   /\ earlier = {} <=> b.new = "Audited"
                   /\ b.new \in Terminal => LastIn(i, AnchoredAt(e, id))
    BY DEF FormPath
  <2> DEFINE b == e.anchors[i]
             earlier == {j \in AnchoredAt(e, id) : j < i}
             before == {j \in AnchoredAt(d, id) : j < i}
  \* What the file says of an anchor it had before.
  <2>1. ASSUME i \in AnchoredAt(d, id)
        PROVE  /\ before = {} => d.anchors[i].prev = "Draft"
               /\ \A j \in before : LastIn(j, before) => d.anchors[i].prev = d.anchors[j].new
               /\ before = {} <=> d.anchors[i].new = "Audited"
               /\ d.anchors[i].new \in Terminal => LastIn(i, AnchoredAt(d, id))
    BY <1>5, <2>1 DEF Sound, FormPath
  <2>2. ASSUME i \in AnchoredAt(d, id)
        PROVE  /\ earlier = before /\ b = d.anchors[i] /\ i \in 1 .. n
               /\ \A j \in before : e.anchors[j] = d.anchors[j]
    <3>1. i \in 1 .. n
      BY <1>15, <2>2
    <3>2. earlier = before
      BY <1>10, <1>13, <1>14, <3>1 DEF P
    <3>3. QED
      BY <1>10, <1>15, <3>1, <3>2
  <2>3. CASE id # r.id
    <3>1. i \in AnchoredAt(d, id)
      BY <1>14, <2>3
    <3>2. LastIn(i, AnchoredAt(d, id)) => LastIn(i, AnchoredAt(e, id))
      BY <1>14, <2>3
    <3> HIDE DEF before, earlier, b
    <3>3. QED
      BY <2>1, <2>2, <3>1, <3>2 DEF before, earlier, b
  <2>4. CASE id = r.id /\ i \in AnchoredAt(d, id)
    \* Nothing followed a terminal status, so it would be the model's status now.
    <3>1. d.anchors[i].new \notin Terminal
      BY <1>1, <1>16, <2>1, <2>4 DEF P
    <3>2. b.new \notin Terminal
      BY <2>2, <2>4, <3>1
    <3> HIDE DEF before, earlier, b
    <3>3. QED
      BY <2>1, <2>2, <2>4, <3>2 DEF before, earlier, b
  <2>5. CASE id = r.id /\ i \notin AnchoredAt(d, id)
    <3>1. i = n + 1 /\ b = a
      BY <1>10, <1>13, <2>5 DEF P
    <3>2. earlier = P
      <4>1. n \in Nat /\ P \subseteq 1 .. n /\ AnchoredAt(e, id) = P \cup {n + 1}
        BY <1>10, <1>13, <2>5
      <4>2. \A j \in P : j < n + 1
        BY ONLY <4>1
      <4>3. ~(n + 1 < n + 1)
        BY ONLY <4>1
      <4>4. QED
        BY <3>1, <4>1, <4>2, <4>3
    <3>3. \A j \in P : e.anchors[j] = d.anchors[j]
      BY <1>10, <1>13
    <3>4. LastIn(i, AnchoredAt(e, id))
      BY <1>10, <1>13, <2>5, <3>1 DEF LastIn
    <3> HIDE DEF earlier, b
    <3>5. QED
      BY <1>1, <1>2, <1>16, <3>1, <3>2, <3>3, <3>4 DEF earlier, b
  <2>6. QED
    BY <2>3, <2>4, <2>5
<1>20. QED
  BY <1>4, <1>11, <1>17, <1>18, <1>19 DEF Good, Sound

-----------------------------------------------------------------------------
(* The steps of the operators *)

\* Saving a good file keeps the invariant: the file is that one, and the other
\* operators' copies stay as they were.
LEMMA SaveKeeps ==
  ASSUME Inv, NEW o \in Operators, NEW d, Good(d), Save(o, d)
  PROVE  Inv'
<1>1. db' = d /\ copy' = [copy EXCEPT ![o] = <<>>]
  BY DEF Save
<1>2. copy' \in [Operators -> Seq(Dbs)]
  BY <1>1 DEF Inv
<1>3. ASSUME NEW p \in Operators, Running(p)' PROVE Good(Copy(p))'
  <2>1. p # o /\ copy'[p] = copy[p]
    BY <1>1, <1>3 DEF Running, Inv
  <2>2. QED
    BY <1>3, <2>1 DEF Inv, Running, Copy, Good
<1>4. QED
  BY <1>1, <1>2, <1>3 DEF Inv, Good

\* What a running command finds in its copy.
LEMMA CopyHolds ==
  ASSUME Inv, NEW o \in Operators, Running(o), NEW id, Has(Copy(o), id)
  PROVE  /\ Good(Copy(o)) /\ Find(Copy(o), id) \in Record
         /\ Find(Copy(o), id).id = id /\ Complete(Find(Copy(o), id))
<1>1. Good(Copy(o)) /\ Copy(o) \in Dbs
  BY DEF Inv, Good, Filed
<1>2. IndexOf(Copy(o), id) \in DOMAIN Copy(o).records /\ Find(Copy(o), id) \in Record
      /\ Find(Copy(o), id).id = id
  BY <1>1, FindFinds
<1>3. QED
  BY <1>1, <1>2 DEF Good, Filed, Find

\* The record a later audit puts back.
LEMMA AuditedRecord ==
  ASSUME NEW r \in Record, Complete(r), NEW k \in Keys, NEW v \in Verdicts, r.trainer # k
  PROVE  LET q == [r EXCEPT !.audits = Append(@, [auditor |-> k, verdict |-> v])]
         IN  /\ q \in Record /\ Complete(q) /\ q.id = r.id
             /\ q.status = r.status /\ q.anchor = r.anchor
<1> DEFINE e == [auditor |-> k, verdict |-> v]
           q == [r EXCEPT !.audits = Append(@, e)]
<1>1. r.audits \in Seq(AuditEntry) /\ e \in AuditEntry
  BY DEF Record, AuditEntry
<1>2. Append(r.audits, e) \in Seq(AuditEntry)
  BY <1>1
<1>3. q \in Record /\ q.id = r.id /\ q.audits = Append(r.audits, e)
      /\ q.trainer = r.trainer /\ q.status = r.status /\ q.summary = r.summary
      /\ q.anchor = r.anchor
  BY <1>2 DEF Record
<1>4. \A j \in DOMAIN q.audits : q.audits[j].auditor # q.trainer
  BY <1>1, <1>3 DEF Complete
<1> HIDE DEF q
<1>5. Complete(q)
  BY <1>3, <1>4 DEF Complete
<1>6. QED
  BY <1>3, <1>5 DEF q

LEMMA AuditKeeps ==
  ASSUME Inv, NEW o \in Operators, NEW id \in Models, NEW k \in Keys, NEW v \in Verdicts,
         NEW allPass \in BOOLEAN, Audit(o, id, k, v, allPass)
  PROVE  Inv'
<1> DEFINE r == Find(Copy(o), id)
<1>1. Running(o) /\ Has(Copy(o), id) /\ r.trainer # k
      /\ (AuditDraft(o, r, k, v) \/ AuditLater(o, r, k, v))
  BY DEF Audit, IndependentAuditor
<1>2. Good(Copy(o)) /\ r \in Record /\ r.id = id /\ Complete(r)
  BY <1>1, CopyHolds
<1>3. r = Find(Copy(o), r.id) /\ Has(Copy(o), r.id)
  BY <1>1, <1>2
<1> HIDE DEF r
<1>4. CASE AuditDraft(o, r, k, v)
  <2>1. Legal(r.status, "Audited")
    BY <1>4 DEF AuditDraft, Legal, LegalEdge
  <2>2. Good(Transited(Copy(o), r, "Audited"))
    BY <1>2, <1>3, <2>1, TransitedKeeps
  <2>3. QED
    BY <1>4, <2>2, SaveKeeps DEF AuditDraft
<1>5. CASE AuditLater(o, r, k, v)
  <2> DEFINE q == [r EXCEPT !.audits = Append(@, [auditor |-> k, verdict |-> v])]
  <2>1. /\ q \in Record /\ Complete(q) /\ q.id = r.id
        /\ q.status = r.status /\ q.anchor = r.anchor
    BY <1>1, <1>2, AuditedRecord
  <2>2. Save(o, Replace(Copy(o), q))
    BY <1>5 DEF AuditLater
  <2> HIDE DEF q
  <2>3. Good(Replace(Copy(o), q))
    BY <1>2, <1>3, <2>1, AuditedKeeps
  <2>4. QED
    BY <2>2, <2>3, SaveKeeps
<1>6. QED
  BY <1>1, <1>4, <1>5

LEMMA DecideKeeps ==
  ASSUME Inv, NEW o \in Operators, NEW id \in Models,
         NEW to \in {"Approved", "DriftFlagged", "Slashed"}, Decide(o, id, to)
  PROVE  Inv'
<1> DEFINE r == Find(Copy(o), id)
           q == Summarise(r, to)
<1>1. Running(o) /\ Has(Copy(o), id) /\ Legal(r.status, to)
      /\ Save(o, Transited(Copy(o), q, to))
  BY DEF Decide
<1>2. Good(Copy(o)) /\ r \in Record /\ r.id = id /\ Complete(r)
  BY <1>1, CopyHolds
<1>3. r = Find(Copy(o), r.id) /\ Has(Copy(o), r.id)
  BY <1>1, <1>2
<1> HIDE DEF r
<1>4. to = "DriftFlagged" => r.status = "Approved"
  BY <1>1, LegalMoves
<1>5. q \in Record /\ q.id = r.id /\ q.status = r.status /\ Complete(q)
  BY <1>2 DEF Summarise, Record, Complete
<1>6. to \in {"Approved", "DriftFlagged"} => q.summary
  BY <1>2, <1>4 DEF Summarise, Record, Complete
<1> HIDE DEF q
<1>7. Good(Transited(Copy(o), q, to))
  BY <1>1, <1>2, <1>3, <1>5, <1>6, TransitedKeeps
<1>8. QED
  BY <1>1, <1>7, SaveKeeps

\* The invariant holds at the start and every step of every operator keeps it.
LEMMA InvHolds == Spec => []Inv
<1>1. Init => Inv
  <2> SUFFICES ASSUME Init PROVE Inv
    OBVIOUS
  <2>1. EmptyDb \in Dbs /\ DOMAIN EmptyDb.records = {} /\ DOMAIN EmptyDb.anchors = {}
    BY DEF EmptyDb, Dbs
  <2>2. \A id : AnchoredAt(EmptyDb, id) = {} /\ ~Has(EmptyDb, id)
    BY <2>1 DEF AnchoredAt, Has
  <2>3. Sound(EmptyDb)
    BY <2>2 DEF Sound, Replays, FormPath, Moved
  <2>4. QED
    BY <2>1, <2>3 DEF Init, Inv, Good, Filed, Running
<1>2. Inv /\ [Next]_vars => Inv'
  <2> SUFFICES ASSUME Inv, [Next]_vars PROVE Inv'
    OBVIOUS
  <2>1. ASSUME NEW o \in Operators, Load(o) PROVE Inv'
    <3>1. db' = db /\ copy' = [copy EXCEPT ![o] = <<db>>] /\ Good(db) /\ db \in Dbs
      BY <2>1 DEF Load, Inv, Good, Filed
    <3>2. copy' \in [Operators -> Seq(Dbs)]
      BY <3>1 DEF Inv
    <3>3. ASSUME NEW p \in Operators, Running(p)' PROVE Good(Copy(p))'
      <4>1. CASE p = o
        BY <3>1, <4>1 DEF Inv, Copy, Good
      <4>2. CASE p # o
        <5>1. copy'[p] = copy[p]
          BY <3>1, <4>2 DEF Inv
        <5>2. QED
          BY <3>3, <5>1 DEF Inv, Running, Copy, Good
      <4>3. QED
        BY <4>1, <4>2
    <3>4. QED
      BY <3>1, <3>2, <3>3 DEF Inv, Good
  <2>2. ASSUME NEW o \in Operators, NEW id \in Models, NEW k \in Keys, Register(o, id, k)
        PROVE  Inv'
    <3>1. Good(Copy(o)) /\ Save(o, Registered(Copy(o), id, k))
      BY <2>2 DEF Register, Inv
    <3>2. QED
      BY <3>1, RegisteredKeeps, SaveKeeps
  <2>3. ASSUME NEW o \in Operators, Fail(o) PROVE Inv'
    <3>1. db' = db /\ copy' = [copy EXCEPT ![o] = <<>>]
      BY <2>3 DEF Fail
    <3>2. ASSUME NEW p \in Operators, Running(p)' PROVE Good(Copy(p))'
      <4>1. p # o /\ copy'[p] = copy[p]
        BY <3>1, <3>2 DEF Running, Inv
      <4>2. QED
        BY <3>2, <4>1 DEF Inv, Running, Copy, Good
    <3>3. QED
      BY <3>1, <3>2 DEF Inv, Good
  <2>4. CASE UNCHANGED vars
    BY <2>4 DEF vars, Inv, Good, Running, Copy
  <2>5. QED
    BY <2>1, <2>2, <2>3, <2>4, AuditKeeps, DecideKeeps DEF Next
<1>3. QED
  BY <1>1, <1>2, PTL DEF Spec

\* The registry file and every loaded copy of it hold records and anchors, for
\* any number of operators that overwrite each other (registryctl.rs).
THEOREM FilesTyped == Spec => []TypeOK
<1>1. Inv => TypeOK
  BY DEF Inv, TypeOK, Good, Filed
<1>2. QED
  BY <1>1, InvHolds, PTL

\* An approved model, or one that drifted since, has its performance summary,
\* and no record carries an audit by its own trainer, whichever operators
\* overwrite each other (record.rs:106-110, registryctl.rs).
THEOREM FileIsComplete == Spec => []ApprovedIsComplete
<1>1. Inv => ApprovedIsComplete
  BY DEF Inv, ApprovedIsComplete, Good, Filed, Complete
<1>2. QED
  BY <1>1, InvHolds, PTL

\* The last anchor of a model gives its status and is the one its record
\* carries (anchor.rs:4), for any number of operators, models and commands.
THEOREM AnchorsReplay == Spec => []StatusReplays
<1>1. Inv => StatusReplays
  BY DEF Inv, StatusReplays, Good, Sound
<1>2. QED
  BY <1>1, InvHolds, PTL

\* The anchors of a model form one legal path from Draft through Audited, with
\* nothing after a terminal status (record.rs:120-150), although a command may
\* write back a copy that misses the anchors of another.
THEOREM AnchorsArePath == Spec => []AnchorsFormPath
<1>1. Inv => AnchorsFormPath
  BY DEF Inv, AnchorsFormPath, Good, Sound
<1>2. QED
  BY <1>1, InvHolds, PTL

-----------------------------------------------------------------------------
(* A terminal status stands *)

\* A step in which a command of o ends is a step of o, and fails or saves.
LEMMA EndingStep ==
  ASSUME Inv, Next, NEW o \in Operators, Running(o), copy'[o] = <<>>
  PROVE  \/ \E id \in Models, k \in Keys : Register(o, id, k)
         \/ \E id \in Models, k \in Keys, v \in Verdicts, allPass \in BOOLEAN :
              Audit(o, id, k, v, allPass)
         \/ \E id \in Models, to \in {"Approved", "DriftFlagged", "Slashed"} :
              Decide(o, id, to)
         \/ Fail(o)
<1>1. copy \in [Operators -> Seq(Dbs)] /\ copy[o] # <<>>
  BY DEF Inv, Running
<1>2. ASSUME NEW p \in Operators, NEW c, copy' = [copy EXCEPT ![p] = c], p # o
      PROVE  FALSE
  BY <1>1, <1>2
<1>3. ~Load(o)
  BY <1>1 DEF Load
<1>4. \A p \in Operators : Load(p) => p = o
  BY <1>2 DEF Load
<1>5. \A p \in Operators : Fail(p) => p = o
  BY <1>2 DEF Fail
<1>6. \A p \in Operators : \A d : Save(p, d) => p = o
  BY <1>2 DEF Save
<1>7. \A p \in Operators, id \in Models, k \in Keys : Register(p, id, k) => p = o
  BY <1>6 DEF Register
<1>8. \A p \in Operators, id \in Models, k \in Keys, v \in Verdicts, allPass \in BOOLEAN :
        Audit(p, id, k, v, allPass) => p = o
  BY <1>6 DEF Audit, AuditDraft, AuditLater
<1>9. \A p \in Operators, id \in Models, to \in {"Approved", "DriftFlagged", "Slashed"} :
        Decide(p, id, to) => p = o
  BY <1>6 DEF Decide
<1>10. QED
  BY <1>3, <1>4, <1>5, <1>7, <1>8, <1>9 DEF Next

\* An entry is only ever added to the audits.
LEMMA AuditsGrow ==
  ASSUME NEW s \in Seq(AuditEntry), NEW e \in AuditEntry
  PROVE  IsPrefix(s, s) /\ IsPrefix(s, Append(s, e))
<1>1. Len(s) \in Nat /\ Append(s, e) \in Seq(AuditEntry) /\ Len(Append(s, e)) = Len(s) + 1
  OBVIOUS
<1>2. SubSeq(Append(s, e), 1, Len(s)) = SubSeq(s, 1, Len(s))
  BY <1>1
<1>3. QED
  BY <1>1, <1>2 DEF IsPrefix

\* A record that is found as it was stands.
LEMMA FoundStands ==
  ASSUME NEW r \in Record, NEW d, Has(d, r.id), Find(d, r.id) = r
  PROVE  Stands(r, d)
<1>1. r.audits \in Seq(AuditEntry)
  BY DEF Record
<1>2. IsPrefix(r.audits, r.audits)
  BY <1>1 DEF IsPrefix
<1>3. QED
  BY <1>2 DEF Stands

\* Writing back another record of the file, and an anchor, leaves this one.
LEMMA OthersStand ==
  ASSUME NEW c \in Dbs, NEW id, Has(c, id), Find(c, id) \in Record, Find(c, id).id = id,
         NEW w \in Record, Has(c, w.id), w.id # id, NEW a \in Anchor,
         NEW d, d = [Replace(c, w) EXCEPT !.anchors = Append(@, a)]
  PROVE  Stands(Find(c, id), d)
<1>1. Replace(c, w) \in Dbs /\ Has(Replace(c, w), id) /\ Find(Replace(c, w), id) = Find(c, id)
  BY Replacing
<1>2. d.records = Replace(c, w).records
  BY <1>1 DEF Dbs
<1>3. Has(d, id) /\ Find(d, id) = Find(c, id)
  BY <1>1, <1>2 DEF Has, Find, IndexOf
<1>4. QED
  BY <1>3, FoundStands

LEMMA SavedStands ==
  ASSUME Inv, NEW o \in Operators, Running(o), db' # db, Next, copy'[o] = <<>>,
         NEW id \in Models, Has(Copy(o), id), Find(Copy(o), id).status \in Terminal
  PROVE  Stands(Find(Copy(o), id), db')
<1> DEFINE c == Copy(o)
           s == Find(c, id)
<1>1. c \in Dbs
  BY DEF Inv, Good, Filed
<1>2. s \in Record /\ s.id = id
  BY CopyHolds
<1>3. Has(c, id) /\ s.status \in Terminal
  OBVIOUS
<1> HIDE DEF c
<1>4. ASSUME NEW x \in Models, NEW k \in Keys, Register(o, x, k)
      PROVE  Stands(s, db')
  <2> DEFINE r == [id |-> x, trainer |-> k, status |-> "Draft", audits |-> <<>>,
                   summary |-> FALSE, anchor |-> NoAnchor]
             e == Registered(c, x, k)
  <2>1. db' = e
    BY <1>4 DEF Register, Save, c
  <2>2. /\ e \in Dbs /\ e.anchors = c.anchors /\ e.records = Append(c.records, r)
        /\ r \in Record
        /\ \A y : Has(e, y) <=> Has(c, y) \/ y = x
        /\ \A y : Has(c, y) => Find(e, y) = Find(c, y)
        /\ ~Has(c, x) => Find(e, x) = r
    BY <1>1, Registering
  <2> HIDE DEF e
  <2>3. Has(e, id) /\ Find(e, id) = s
    BY <1>3, <2>2
  <2>4. QED
    BY <1>2, <2>1, <2>3, FoundStands
<1>5. ASSUME NEW x \in Models, NEW k \in Keys, NEW v \in Verdicts, NEW allPass \in BOOLEAN,
             Audit(o, x, k, v, allPass)
      PROVE  Stands(s, db')
  <2> DEFINE r == Find(c, x)
             q == [r EXCEPT !.audits = Append(@, [auditor |-> k, verdict |-> v])]
  <2>1. Has(c, x) /\ r.trainer # k /\ (AuditDraft(o, r, k, v) \/ AuditLater(o, r, k, v))
    BY <1>5 DEF Audit, IndependentAuditor, c
  <2>2. r \in Record /\ r.id = x /\ Complete(r)
    BY <2>1, CopyHolds DEF c
  <2>3. CASE AuditDraft(o, r, k, v)
    <3> DEFINE a == [id |-> r.id, prev |-> r.status, new |-> "Audited"]
               w == [r EXCEPT !.status = "Audited", !.anchor = a]
    <3>1. r.status = "Draft" /\ id # x
      BY <1>3, <2>3 DEF AuditDraft, Terminal
    <3>2. a \in Anchor /\ w \in Record /\ w.id = x
      BY <2>2, <3>1 DEF Record, Anchor, Status
    <3>3. db' = [Replace(c, w) EXCEPT !.anchors = Append(@, a)]
      BY <2>3 DEF AuditDraft, Save, Transited, c
    <3> HIDE DEF w, a, r
    <3>4. QED
      BY <1>1, <1>2, <1>3, <2>1, <3>1, <3>2, <3>3, OthersStand
  <2>4. CASE AuditLater(o, r, k, v)
    <3>1. q \in Record /\ q.id = x /\ q.status = r.status
      BY <2>1, <2>2, AuditedRecord
    <3>2. r.audits \in Seq(AuditEntry) /\ [auditor |-> k, verdict |-> v] \in AuditEntry
          /\ q.audits = Append(r.audits, [auditor |-> k, verdict |-> v])
      BY <2>2 DEF Record, AuditEntry
    <3>3. IsPrefix(r.audits, q.audits)
      BY <3>2, AuditsGrow
    <3>4. db' = Replace(c, q)
      BY <2>4 DEF AuditLater, Save, c
    <3> HIDE DEF q
    <3>5. CASE id = x
      <4>1. Has(db', id) /\ Find(db', id) = q
        BY <1>1, <2>1, <3>1, <3>4, <3>5, Replacing
      <4>2. QED
        BY <1>2, <3>1, <3>3, <3>5, <4>1 DEF Stands
    <3>6. CASE id # x
      <4>1. Has(db', id) /\ Find(db', id) = s
        BY <1>1, <1>3, <2>1, <3>1, <3>4, <3>6, Replacing
      <4>2. QED
        BY <1>2, <4>1, FoundStands
    <3>7. QED
      BY <3>5, <3>6
  <2>5. QED
    BY <2>1, <2>3, <2>4
<1>6. ASSUME NEW x \in Models, NEW to \in {"Approved", "DriftFlagged", "Slashed"},
             Decide(o, x, to)
      PROVE  Stands(s, db')
  <2> DEFINE r == Find(c, x)
             q == Summarise(r, to)
             a == [id |-> q.id, prev |-> q.status, new |-> to]
             w == [q EXCEPT !.status = to, !.anchor = a]
  <2>1. Has(c, x) /\ Legal(r.status, to) /\ Save(o, Transited(c, q, to))
    BY <1>6 DEF Decide, c
  <2>2. r \in Record /\ r.id = x
    BY <2>1, CopyHolds DEF c
  <2>3. id # x
    BY <1>3, <2>1, LegalMoves
  <2>4. q \in Record /\ q.id = x
    BY <2>2 DEF Summarise, Record
  <2>5. db' = [Replace(c, w) EXCEPT !.anchors = Append(@, a)]
    BY <2>1 DEF Save, Transited
  <2> HIDE DEF q, r
  <2>6. a \in Anchor /\ w \in Record /\ w.id = x
    BY <2>4 DEF Record, Anchor, Status
  <2> HIDE DEF w, a
  <2>7. QED
    BY <1>1, <1>2, <1>3, <2>1, <2>3, <2>5, <2>6, OthersStand
<1>7. ~Fail(o)
  BY DEF Fail
<1>8. QED
  BY <1>4, <1>5, <1>6, <1>7, EndingStep DEF c

\* A command that found a deprecated or slashed model when it loaded the file
\* never takes it out of that status, and never drops an audit it found
\* (store.rs:94-114, registryctl.rs), for any number of operators and however old
\* its copy is: only a copy from before the decision can undo it.
THEOREM TerminalStatusStands == Spec => TerminalStands
<1> DEFINE A == \A o \in Operators :
                  Running(o) /\ copy'[o] = <<>> /\ db' # db =>
                    \A id \in Models :
                      Has(Copy(o), id) /\ Find(Copy(o), id).status \in Terminal =>
                        Stands(Find(Copy(o), id), db')
<1>1. Inv /\ [Next]_vars => [A]_vars
  BY SavedStands
<1>2. QED
  BY <1>1, InvHolds, PTL DEF Spec, TerminalStands
=============================================================================
