------------------------ MODULE KeeperRegistryProofs ------------------------
(***************************************************************************)
(* Proofs about KeeperRegistry, for every value of its constants.          *)
(***************************************************************************)
EXTENDS KeeperRegistry, SequenceTheorems, TLAPS

\* Transaction ids already spent, and nothing used under one not yet spent.
IdsSpent ==
  /\ \A k \in DOMAIN active : active[k].issuedBy < nextTx
  /\ \A i \in DOMAIN revoked : revoked[i].mandate.issuedBy < nextTx
  /\ \A x \in Txs : x >= nextTx => ledger[x] = [count |-> 0, sum |-> 0, uses |-> {}]

\* An active mandate is in scope and its counters are true.
ActiveSound ==
  \A k \in DOMAIN active : ScopeAllowed(active[k].terms) /\ CountersTrue(active[k])

\* Nothing is dated in the future.
NoFuture ==
  /\ \A x \in Txs : \A u \in ledger[x].uses : u[2] <= now
  /\ \A i \in DOMAIN revoked : revoked[i].at <= now

\* LimitsRespected is not inductive: a use stays within its limits because the
\* mandate's counters are the truth, and those because a mandate has one home.
IInv ==
  /\ TypeOK
  /\ OneHome
  /\ IdsSpent
  /\ ActiveSound
  /\ NoFuture
  /\ LimitsRespected
  /\ RevocationIsFinal
-----------------------------------------------------------------------------
(* Lemmas about the operators *)

\* The log after one more entry: the old entries, then the new one.
LEMMA LogGrows ==
  ASSUME NEW S, NEW s \in Seq(S), NEW e \in S
  PROVE  /\ Append(s, e) \in Seq(S)
         /\ Append(s, e) # <<>>
         /\ Len(Append(s, e)) = Len(s) + 1
         /\ DOMAIN Append(s, e) = DOMAIN s \cup {Len(s) + 1}
         /\ Len(s) + 1 \notin DOMAIN s
         /\ \A i \in DOMAIN s : Append(s, e)[i] = s[i]
         /\ Append(s, e)[Len(s) + 1] = e
<1>1. DOMAIN s = 1 .. Len(s) /\ Len(s) \in Nat
  BY LenProperties
<1>2. /\ Append(s, e) \in Seq(S)
      /\ Append(s, e) # <<>>
      /\ Len(Append(s, e)) = Len(s) + 1
      /\ \A i \in 1 .. Len(s) : Append(s, e)[i] = s[i]
      /\ Append(s, e)[Len(s) + 1] = e
  BY AppendProperties
<1>3. DOMAIN Append(s, e) = 1 .. Len(s) + 1
  BY <1>2, LenProperties
<1>4. QED
  BY <1>1, <1>2, <1>3

\* The saturating sum is the sum cut off at the largest value, however the
\* terms are grouped.
LEMMA SatAddFacts ==
  ASSUME NEW a \in Nat, NEW b \in Nat
  PROVE  /\ SatAdd(a, b) \in 0 .. NotionalMax
         /\ SatAdd(SatAdd(a, 0), b) = SatAdd(a + b, 0)
         /\ a \in 0 .. NotionalMax => SatAdd(a, b) >= a
         /\ SatAdd(a, 0) < NotionalMax => SatAdd(a, 0) = a
BY BoundsAssumption DEF SatAdd

\* A new mandate has the type the registry stores.
LEMMA NewMandateType ==
  ASSUME nextTx \in Txs, NEW k \in Keepers, NEW t \in Terms
  PROVE  NewMandate(k, t) \in Mandate
BY TermsAssumption, BoundsAssumption DEF NewMandate, Mandate

-----------------------------------------------------------------------------
(* The inductive invariant *)

LEMMA InitIInv == Init => IInv
<1> SUFFICES ASSUME Init PROVE IInv
  OBVIOUS
<1> USE DEF Init
<1>1. TypeOK
  BY BoundsAssumption DEF TypeOK, Slots, Txs, Usage, Mandate
<1>2. OneHome /\ IdsSpent /\ ActiveSound
  BY DEF OneHome, IdsSpent, ActiveSound
<1>3. NoFuture /\ LimitsRespected /\ RevocationIsFinal
  BY DEF NoFuture, LimitsRespected, RevocationIsFinal
<1>4. QED
  BY <1>1, <1>2, <1>3 DEF IInv

\* Facts every preservation lemma starts from.
LEMMA Shape ==
  ASSUME IInv
  PROVE  /\ DOMAIN active \subseteq Keepers
         /\ \A k \in DOMAIN active : active[k] \in Mandate
         /\ \A i \in DOMAIN revoked : revoked[i] \in RevokedMandate
         /\ now \in Nat
         /\ nextTx \in Nat
BY BoundsAssumption, ElementOfSeq, LenProperties DEF IInv, TypeOK, Slots, Txs

LEMMA IssueKeepsIInv ==
  ASSUME IInv, NEW k \in Keepers, NEW t \in Terms, Issue(k, t)
  PROVE  IInv'
<1> DEFINE m == NewMandate(k, t)
<1> USE DEF Issue
<1>0. nextTx \in Txs
  BY Shape DEF IInv, TypeOK, Txs
<1>1. m \in Mandate /\ m.issuedBy = nextTx /\ m.keeper = k /\ m.terms = t
      /\ m.used = 0 /\ m.notional = 0
  BY <1>0, NewMandateType DEF NewMandate
<1>2. /\ DOMAIN active' = DOMAIN active \cup {k}
      /\ active'[k] = m
      /\ \A x \in DOMAIN active : active'[x] = active[x]
      /\ active' \in [DOMAIN active' -> Mandate]
  <2>1. active' = Put(active, k, m) /\ k \notin DOMAIN active
    OBVIOUS
  <2>2. /\ DOMAIN Put(active, k, m) = DOMAIN active \cup {k}
        /\ Put(active, k, m)[k] = m
        /\ \A x \in DOMAIN active \ {k} : Put(active, k, m)[x] = active[x]
        /\ Put(active, k, m) = [x \in DOMAIN Put(active, k, m) |-> Put(active, k, m)[x]]
    BY DEF Put
  <2>3. \A x \in DOMAIN active' : active'[x] \in Mandate
    BY <1>1, <2>1, <2>2, Shape
  <2>4. QED
    BY <2>1, <2>2, <2>3
<1>3. ledger[nextTx] = [count |-> 0, sum |-> 0, uses |-> {}]
  BY <1>0, Shape DEF IInv, IdsSpent
<1> HIDE DEF m
<1>4. TypeOK'
  BY <1>2, Shape, BoundsAssumption DEF IInv, TypeOK, Txs, Slots
<1>5. OneHome'
  BY <1>1, <1>2, Shape DEF IInv, OneHome, IdsSpent
<1>6. IdsSpent'
  BY <1>1, <1>2, Shape DEF IInv, IdsSpent, Mandate, RevokedMandate, Txs
<1>7. ActiveSound'
  <2>1. CountersTrue(m)
    BY <1>1, <1>3, BoundsAssumption DEF CountersTrue, SatAdd
  <2>2. QED
    BY <1>1, <1>2, <2>1 DEF IInv, ActiveSound, CountersTrue
<1>8. NoFuture'
  BY DEF IInv, NoFuture
<1>9. LimitsRespected'
  <2>1. WithinLimits(m)
    BY <1>1, <1>3, TermsAssumption DEF WithinLimits, Term
  <2>2. QED
    BY <1>2, <2>1 DEF IInv, LimitsRespected, WithinLimits
<1>10. RevocationIsFinal'
  BY DEF IInv, RevocationIsFinal, CountersTrue
<1>11. QED
  BY <1>4, <1>5, <1>6, <1>7, <1>8, <1>9, <1>10 DEF IInv

\* What revoke leaves is common to Revoke and Rotate: the mandates of keepers
\* other than prior, and the log with prior's mandate at its end.
LEMMA RevokedEntryFacts ==
  ASSUME IInv, NEW prior \in DOMAIN active, NEW reason \in Reasons, nextTx \in Txs
  PROVE  /\ RevokedEntry(prior, reason) \in RevokedMandate
         /\ RevokedEntry(prior, reason).mandate = active[prior]
         /\ RevokedEntry(prior, reason).at = now
         /\ RevokedEntry(prior, reason).by = nextTx
BY Shape DEF IInv, TypeOK, RevokedEntry, RevokedMandate

\* A mandate issued in this step: in scope, unused, under the new transaction.
LEMMA FreshMandate ==
  ASSUME IInv, nextTx \in Txs, NEW k \in Keepers, NEW t \in Terms, ScopeAllowed(t)
  PROVE  /\ NewMandate(k, t) \in Mandate
         /\ NewMandate(k, t).issuedBy = nextTx
         /\ NewMandate(k, t).keeper = k
         /\ ScopeAllowed(NewMandate(k, t).terms)
         /\ CountersTrue(NewMandate(k, t))
         /\ WithinLimits(NewMandate(k, t))
<1> DEFINE m == NewMandate(k, t)
<1>1. /\ m \in Mandate /\ m.issuedBy = nextTx /\ m.keeper = k /\ m.terms = t
      /\ m.used = 0 /\ m.notional = 0
  BY NewMandateType DEF NewMandate
<1>2. ledger[nextTx] = [count |-> 0, sum |-> 0, uses |-> {}]
  BY Shape DEF IInv, IdsSpent
<1> HIDE DEF m
<1>3. CountersTrue(m)
  BY <1>1, <1>2, BoundsAssumption DEF CountersTrue, SatAdd
<1>4. WithinLimits(m)
  BY <1>1, <1>2, TermsAssumption DEF WithinLimits, Term
<1>5. QED
  BY <1>1, <1>3, <1>4 DEF m

\* The common part of Revoke and Rotate: prior's mandate goes to the end of
\* the log, and whatever is active afterwards was active before or is fresh.
LEMMA RevokingKeepsIInv ==
  ASSUME IInv, NEW prior \in DOMAIN active, NEW reason \in Reasons,
         nextTx \in Txs, NEW k \in Keepers,
         revoked' = Append(revoked, RevokedEntry(prior, reason)),
         nextTx' = nextTx + 1, UNCHANGED <<now, ledger>>,
         DOMAIN active' \subseteq Keepers,
         active' = [x \in DOMAIN active' |-> active'[x]],
         \A x \in DOMAIN active' :
           \/ x \in DOMAIN active \ {prior} /\ active'[x] = active[x]
           \/ x = k /\ \E t \in Terms : ScopeAllowed(t) /\ active'[x] = NewMandate(k, t)
  PROVE  IInv'
<1> DEFINE e == RevokedEntry(prior, reason)
           n == Len(revoked) + 1
           Old(x) == x \in DOMAIN active \ {prior} /\ active'[x] = active[x]
           New(x) == /\ x = k
                     /\ active'[x] \in Mandate
                     /\ active'[x].issuedBy = nextTx
                     /\ active'[x].keeper = k
                     /\ ScopeAllowed(active'[x].terms)
                     /\ CountersTrue(active'[x])
                     /\ WithinLimits(active'[x])
<1>1. e \in RevokedMandate /\ e.mandate = active[prior] /\ e.at = now
  BY RevokedEntryFacts
<1>2. /\ revoked' \in Seq(RevokedMandate)
      /\ DOMAIN revoked' = DOMAIN revoked \cup {n}
      /\ n \notin DOMAIN revoked
      /\ \A i \in DOMAIN revoked : revoked'[i] = revoked[i]
      /\ revoked'[n] = e
  BY <1>1, LogGrows DEF IInv, TypeOK
<1>3. \A x \in DOMAIN active' : Old(x) \/ New(x)
  BY FreshMandate
<1>4. nextTx \in Nat /\ nextTx' > nextTx
  BY Shape
<1> HIDE DEF e, n
<1>5. TypeOK'
  <2>1. \A x \in DOMAIN active' : active'[x] \in Mandate
    BY <1>3, Shape
  <2>2. active' \in [DOMAIN active' -> Mandate]
    BY <2>1
  <2>3. nextTx' \in 1 .. MaxTx + 1 /\ now' \in Slots /\ ledger' \in [Txs -> Usage]
    BY BoundsAssumption DEF IInv, TypeOK, Txs
  <2>4. QED
    BY <1>2, <2>2, <2>3 DEF TypeOK
<1>6. OneHome'
  <2>1. \A x \in DOMAIN active' : active'[x].keeper = x
    BY <1>3 DEF IInv, OneHome
  <2>2. \A x, y \in DOMAIN active' : active'[x].issuedBy = active'[y].issuedBy => x = y
    <3>1. \A x \in DOMAIN active : active[x].issuedBy < nextTx /\ active[x].issuedBy \in Nat
      BY Shape DEF IInv, IdsSpent, Mandate, Txs
    <3>2. QED
      BY <1>3, <1>4, <3>1 DEF IInv, OneHome
  <2>3. \A x \in DOMAIN active', i \in DOMAIN revoked' :
          active'[x].issuedBy # revoked'[i].mandate.issuedBy
    <3>1. \A i \in DOMAIN revoked' : /\ revoked'[i].mandate.issuedBy < nextTx
                                    /\ revoked'[i].mandate.issuedBy \in Nat
      <4>1. \A i \in DOMAIN revoked : /\ revoked[i].mandate.issuedBy < nextTx
                                     /\ revoked[i].mandate.issuedBy \in Nat
        BY Shape DEF IInv, IdsSpent, RevokedMandate, Mandate, Txs
      <4>2. active[prior].issuedBy < nextTx /\ active[prior].issuedBy \in Nat
        BY Shape DEF IInv, IdsSpent, Mandate, Txs
      <4>3. QED
        BY <1>1, <1>2, <4>1, <4>2
    <3>2. \A x \in DOMAIN active \ {prior}, i \in DOMAIN revoked' :
            active[x].issuedBy # revoked'[i].mandate.issuedBy
      BY <1>1, <1>2 DEF IInv, OneHome
    <3>3. QED
      BY <1>3, <1>4, <3>1, <3>2
  <2>4. \A i, j \in DOMAIN revoked' :
          revoked'[i].mandate.issuedBy = revoked'[j].mandate.issuedBy => i = j
    BY <1>1, <1>2 DEF IInv, OneHome
  <2>5. QED
    BY <2>1, <2>2, <2>3, <2>4 DEF OneHome
<1>7. IdsSpent'
  <2>1. \A x \in DOMAIN active : active[x].issuedBy < nextTx /\ active[x].issuedBy \in Nat
    BY Shape DEF IInv, IdsSpent, Mandate, Txs
  <2>2. \A x \in DOMAIN active' : active'[x].issuedBy < nextTx'
    BY <1>3, <1>4, <2>1
  <2>3. \A i \in DOMAIN revoked : /\ revoked[i].mandate.issuedBy < nextTx
                                 /\ revoked[i].mandate.issuedBy \in Nat
    BY Shape DEF IInv, IdsSpent, RevokedMandate, Mandate, Txs
  <2>4. \A i \in DOMAIN revoked' : revoked'[i].mandate.issuedBy < nextTx'
    BY <1>1, <1>2, <1>4, <2>1, <2>3
  <2>5. \A x \in Txs : x >= nextTx' => ledger'[x] = [count |-> 0, sum |-> 0, uses |-> {}]
    BY <1>4 DEF IInv, IdsSpent, Txs
  <2>6. QED
    BY <2>2, <2>4, <2>5 DEF IdsSpent
<1>8. ActiveSound'
  BY <1>3 DEF IInv, ActiveSound, CountersTrue
<1>9. NoFuture'
  BY <1>1, <1>2, Shape DEF IInv, NoFuture
<1>10. LimitsRespected'
  <2>1. \A x \in DOMAIN active' : WithinLimits(active'[x])
    BY <1>3 DEF IInv, LimitsRespected
  <2>2. \A i \in DOMAIN revoked' : WithinLimits(revoked'[i].mandate)
    BY <1>1, <1>2 DEF IInv, LimitsRespected
  <2>3. ledger' = ledger
    OBVIOUS
  <2>4. QED
    BY ONLY <2>1, <2>2, <2>3 DEF LimitsRespected, WithinLimits
<1>11. RevocationIsFinal'
  <2>1. /\ CountersTrue(e.mandate)
        /\ \A u \in ledger[e.mandate.issuedBy].uses : u[2] <= e.at
    BY <1>1, Shape DEF IInv, ActiveSound, NoFuture, Mandate
  <2>2. QED
    BY <1>2, <2>1 DEF IInv, RevocationIsFinal, CountersTrue
<1>12. QED
  BY <1>5, <1>6, <1>7, <1>8, <1>9, <1>10, <1>11 DEF IInv

LEMMA RevokeKeepsIInv ==
  ASSUME IInv, NEW k \in Keepers, NEW reason \in Reasons, Revoke(k, reason)
  PROVE  IInv'
<1>1. nextTx \in Txs /\ DOMAIN active \subseteq Keepers
  BY Shape DEF Revoke, IInv, TypeOK, Txs
<1>2. /\ DOMAIN active' = DOMAIN active \ {k}
      /\ active' = [x \in DOMAIN active' |-> active'[x]]
      /\ \A x \in DOMAIN active' : active'[x] = active[x]
  BY DEF Revoke, Drop
<1>3. QED
  BY <1>1, <1>2, RevokingKeepsIInv DEF Revoke

LEMMA RotateKeepsIInv ==
  ASSUME IInv, NEW prior \in Keepers, NEW k \in Keepers, NEW t \in Terms,
         Rotate(prior, k, t)
  PROVE  IInv'
<1>1. nextTx \in Txs /\ DOMAIN active \subseteq Keepers /\ "Rotation" \in Reasons
  BY Shape DEF Rotate, IInv, TypeOK, Txs, Reasons
<1>2. /\ DOMAIN active' \subseteq Keepers
      /\ active' = [x \in DOMAIN active' |-> active'[x]]
      /\ \A x \in DOMAIN active' :
           \/ x \in DOMAIN active \ {prior} /\ active'[x] = active[x]
           \/ x = k /\ ScopeAllowed(t) /\ active'[x] = NewMandate(k, t)
  <2>1. CASE k \in DOMAIN Drop(active, prior)
    BY <1>1, <2>1 DEF Rotate, Rotated, Drop
  <2>2. CASE k \notin DOMAIN Drop(active, prior)
    BY <1>1, <2>2 DEF Rotate, Rotated, Drop, Put
  <2>3. QED
    BY <2>1, <2>2
<1>3. QED
  BY <1>1, <1>2, RevokingKeepsIInv DEF Rotate

LEMMA AdmitKeepsIInv ==
  ASSUME IInv, NEW k \in Keepers, NEW role \in Roles, NEW a \in Actions,
         NEW d \in Notionals, Admit(k, role, a, d)
  PROVE  IInv'
<1> DEFINE m == active[k]
           r == Ratchet(m, d)
           l == ledger[m.issuedBy]
           u0 == <<a, now, d>>
           l2 == [count |-> l.count + 1, sum |-> l.sum + d, uses |-> l.uses \cup {u0}]
<1>1. /\ k \in DOMAIN active /\ Admissible(m, a, d)
      /\ m \in Mandate /\ m.issuedBy \in Txs
      /\ l \in Usage /\ now \in Slots /\ d \in 0 .. NotionalMax
  BY Shape, DeltaAssumption DEF Admit, IInv, TypeOK, Mandate
<1>2. /\ active' = [active EXCEPT ![k] = r]
      /\ ledger' = [ledger EXCEPT ![m.issuedBy] = l2]
      /\ UNCHANGED <<revoked, now, nextTx>>
  BY DEF Admit
<1>3. /\ DOMAIN active' = DOMAIN active
      /\ active'[k] = r
      /\ \A x \in DOMAIN active \ {k} : active'[x] = active[x]
  BY <1>1, <1>2
<1>4. /\ DOMAIN ledger' = Txs
      /\ ledger'[m.issuedBy] = l2
      /\ \A x \in Txs \ {m.issuedBy} : ledger'[x] = ledger[x]
  BY <1>1, <1>2 DEF IInv, TypeOK
<1>5. /\ r \in Mandate
      /\ r.keeper = m.keeper /\ r.terms = m.terms /\ r.issuedBy = m.issuedBy
      /\ r.used = m.used + 1 /\ r.notional = SatAdd(m.notional, d)
  <2>1. m.used \in Nat /\ m.notional \in Nat /\ d \in Nat
    BY <1>1, BoundsAssumption DEF Mandate
  <2>2. SatAdd(m.notional, d) \in 0 .. NotionalMax
    BY <2>1, SatAddFacts
  <2>3. r = [m EXCEPT !.used = m.used + 1, !.notional = SatAdd(m.notional, d)]
    BY DEF Ratchet
  <2>4. m.keeper \in Keepers /\ m.terms \in Term /\ m.issuedBy \in Txs
    BY <1>1 DEF Mandate
  <2>5. r = [keeper |-> m.keeper, terms |-> m.terms, used |-> m.used + 1,
             notional |-> SatAdd(m.notional, d), issuedBy |-> m.issuedBy]
    <3>1. m = [keeper |-> m.keeper, terms |-> m.terms, used |-> m.used,
               notional |-> m.notional, issuedBy |-> m.issuedBy]
      BY <1>1 DEF Mandate
    <3>2. QED
      BY <2>3, <3>1
  <2>6. QED
    BY <2>1, <2>2, <2>4, <2>5 DEF Mandate
<1>6. l2 \in Usage
  BY <1>1, BoundsAssumption DEF Usage, Slots
\* The ledger of every other mandate, active or revoked, is untouched.
<1>7. /\ \A x \in DOMAIN active \ {k} : ledger'[active[x].issuedBy] = ledger[active[x].issuedBy]
      /\ \A i \in DOMAIN revoked :
           ledger'[revoked[i].mandate.issuedBy] = ledger[revoked[i].mandate.issuedBy]
  <2>1. \A x \in DOMAIN active \ {k} : active[x].issuedBy \in Txs \ {m.issuedBy}
    BY <1>1, Shape DEF IInv, OneHome, Mandate
  <2>2. \A i \in DOMAIN revoked : revoked[i].mandate.issuedBy \in Txs \ {m.issuedBy}
    BY <1>1, Shape DEF IInv, OneHome, Mandate, RevokedMandate
  <2>3. QED
    BY <1>4, <2>1, <2>2
<1>8. l2.uses = l.uses \cup {u0} /\ l2.count = l.count + 1 /\ l2.sum = l.sum + d
  OBVIOUS
<1>9. u0[1] = a /\ u0[2] = now /\ u0[3] = d
  OBVIOUS
<1>10. /\ m.used = l.count /\ m.notional = SatAdd(l.sum, 0)
       /\ ScopeAllowed(m.terms) /\ WithinLimits(m)
  BY <1>1 DEF IInv, ActiveSound, CountersTrue, LimitsRespected
<1> HIDE DEF m, r, l, u0, l2
<1>11. TypeOK'
  <2>1. \A x \in DOMAIN active' : active'[x] \in Mandate
    BY <1>3, <1>5, Shape
  <2>2. active' \in [DOMAIN active' -> Mandate]
    BY <1>2, <2>1
  <2>3. ledger' \in [Txs -> Usage]
    BY <1>2, <1>6 DEF IInv, TypeOK
  <2>4. QED
    BY <1>2, <1>3, <2>2, <2>3, Shape DEF IInv, TypeOK
<1>12. OneHome'
  <2>1. \A x \in DOMAIN active : /\ active'[x].issuedBy = active[x].issuedBy
                                /\ active'[x].keeper = active[x].keeper
    BY <1>3, <1>5 DEF m
  <2>2. QED
    BY <1>2, <1>3, <2>1 DEF IInv, OneHome
<1>13. IdsSpent'
  <2>1. \A x \in DOMAIN active : active'[x].issuedBy = active[x].issuedBy
    BY <1>3, <1>5 DEF m
  <2>2. m.issuedBy < nextTx /\ nextTx \in Nat /\ m.issuedBy \in Nat
    BY <1>1, Shape DEF IInv, IdsSpent, Txs, m
  <2>3. \A x \in Txs : x >= nextTx => ledger'[x] = [count |-> 0, sum |-> 0, uses |-> {}]
    BY <1>4, <2>2 DEF IInv, IdsSpent, Txs
  <2>4. QED
    BY <1>2, <1>3, <2>1, <2>3 DEF IInv, IdsSpent
<1>14. CountersTrue(active[k])'
  <2>1. l.count \in Nat /\ l.sum \in Nat /\ d \in Nat
    BY <1>1, BoundsAssumption DEF Usage
  <2>2. SatAdd(m.notional, d) = SatAdd(l.sum + d, 0)
    BY <1>10, <2>1, SatAddFacts
  <2>3. QED
    BY <1>3, <1>4, <1>5, <1>8, <1>10, <2>2 DEF CountersTrue, SatAdd
<1>15. ActiveSound'
  BY <1>3, <1>5, <1>7, <1>10, <1>14 DEF IInv, ActiveSound, CountersTrue, ScopeAllowed
<1>16. NoFuture'
  <2>1. \A u \in l2.uses : u[2] <= now
    BY <1>1, <1>8, <1>9, Shape DEF IInv, NoFuture, l
  <2>2. QED
    BY <1>2, <1>4, <2>1 DEF IInv, NoFuture
<1>17. WithinLimits(active[k])'
  <2>1. /\ m.used < m.terms.maxActions /\ m.terms.maxActions \in Nat /\ l.count \in Nat
        /\ m.terms.total \in 0 .. NotionalMax /\ l.sum \in Nat /\ d \in Nat
        /\ SatAdd(m.notional, d) <= m.terms.total
    BY <1>1, BoundsAssumption DEF Admissible, Mandate, Term, Usage
  <2>2. l2.count <= m.terms.maxActions
    BY <1>8, <1>10, <2>1
  <2>3. m.terms.total < NotionalMax => l2.sum <= m.terms.total
    <3>1. SatAdd(m.notional, d) = SatAdd(l.sum + d, 0)
      BY <1>10, <2>1, SatAddFacts
    <3>2. QED
      BY <1>8, <2>1, <3>1, BoundsAssumption DEF SatAdd
  <2>4. \A u \in l2.uses :
          /\ u[1] \in CanonicalScope[m.terms.role]
          /\ m.terms.from <= u[2] /\ u[2] < m.terms.until
          /\ m.terms.perAction # Unlimited => u[3] <= m.terms.perAction
    <3>1. /\ u0[1] \in CanonicalScope[m.terms.role]
          /\ m.terms.from <= u0[2] /\ u0[2] < m.terms.until
          /\ m.terms.perAction # Unlimited => u0[3] <= m.terms.perAction
      BY <1>1, <1>9, <1>10 DEF Admissible, ScopeAllowed
    <3>2. QED
      BY <1>8, <1>10, <3>1 DEF WithinLimits, l
  <2>5. QED
    BY <1>3, <1>4, <1>5, <2>2, <2>3, <2>4 DEF WithinLimits
<1>18. LimitsRespected'
  BY <1>2, <1>3, <1>7, <1>17 DEF IInv, LimitsRespected, WithinLimits
<1>19. RevocationIsFinal'
  BY <1>2, <1>7 DEF IInv, RevocationIsFinal, CountersTrue, SatAdd
<1>20. QED
  BY <1>11, <1>12, <1>13, <1>15, <1>16, <1>18, <1>19 DEF IInv

LEMMA TickKeepsIInv == IInv /\ Tick => IInv'
<1> SUFFICES ASSUME IInv, Tick PROVE IInv'
  OBVIOUS
<1> USE DEF Tick
<1>1. TypeOK'
  BY BoundsAssumption DEF IInv, TypeOK, Slots
<1>2. OneHome' /\ IdsSpent' /\ ActiveSound'
  BY DEF IInv, OneHome, IdsSpent, ActiveSound, CountersTrue
<1>3. NoFuture'
  <2>1. \A x \in Txs : \A u \in ledger[x].uses : u[2] \in Nat
    BY BoundsAssumption DEF IInv, TypeOK, Usage, Slots
  <2>2. \A i \in DOMAIN revoked : revoked[i].at \in Nat
    BY Shape, BoundsAssumption DEF RevokedMandate, Slots
  <2>3. QED
    BY <2>1, <2>2, Shape DEF IInv, NoFuture
<1>4. LimitsRespected' /\ RevocationIsFinal'
  BY DEF IInv, LimitsRespected, WithinLimits, RevocationIsFinal, CountersTrue
<1>5. QED
  BY <1>1, <1>2, <1>3, <1>4 DEF IInv

LEMMA NextKeepsIInv == IInv /\ [Next]_vars => IInv'
<1> SUFFICES ASSUME IInv, [Next]_vars PROVE IInv'
  OBVIOUS
<1>1. ASSUME NEW k \in Keepers, NEW t \in Terms, Issue(k, t) PROVE IInv'
  BY <1>1, IssueKeepsIInv
<1>2. ASSUME NEW k \in Keepers, NEW reason \in Reasons \ {"Rotation"}, Revoke(k, reason)
      PROVE IInv'
  BY <1>2, RevokeKeepsIInv
<1>3. ASSUME NEW prior \in Keepers, NEW k \in Keepers, NEW t \in Terms, Rotate(prior, k, t)
      PROVE IInv'
  BY <1>3, RotateKeepsIInv
<1>4. ASSUME NEW k \in Keepers, NEW role \in Roles, NEW a \in Actions, NEW d \in Notionals,
             Admit(k, role, a, d)
      PROVE IInv'
  BY <1>4, AdmitKeepsIInv
<1>5. CASE Tick
  BY <1>5, TickKeepsIInv
<1>6. CASE UNCHANGED vars
  BY <1>6 DEF vars, IInv, TypeOK, OneHome, IdsSpent, ActiveSound, NoFuture,
    LimitsRespected, RevocationIsFinal, WithinLimits, CountersTrue
<1>7. QED
  BY <1>1, <1>2, <1>3, <1>4, <1>5, <1>6 DEF Next

-----------------------------------------------------------------------------
(* Theorems *)

\* The inductive invariant holds in every reachable state.
THEOREM Inductive == Spec => []IInv
<1>1. QED
  BY InitIInv, NextKeepsIInv, PTL DEF Spec

\* The registry's variables keep their types.
THEOREM TypeCorrect == Spec => []TypeOK
<1>1. IInv => TypeOK
  BY DEF IInv
<1>2. QED
  BY Inductive, <1>1, PTL

\* KeeperMandate's caps, window and scope bound what a mandate is ever used
\* for, whatever the keepers, roles, terms and caps.
THEOREM MandateLimits == Spec => []LimitsRespected
<1>1. IInv => LimitsRespected
  BY DEF IInv
<1>2. QED
  BY Inductive, <1>1, PTL

\* A revoked mandate is never used again and its audit entry is exact.
THEOREM RevocationFinal == Spec => []RevocationIsFinal
<1>1. IInv => RevocationIsFinal
  BY DEF IInv
<1>2. QED
  BY Inductive, <1>1, PTL

\* Every mandate is in one place, under its own keeper or in the log once.
THEOREM MandateHome == Spec => []OneHome
<1>1. IInv => OneHome
  BY DEF IInv
<1>2. QED
  BY Inductive, <1>1, PTL

\* What one step may do to the active mandates and the log.
StepEdits ==
  /\ \A k \in DOMAIN active :
       \/ /\ k \in DOMAIN active'
          /\ active'[k].issuedBy = active[k].issuedBy
          /\ active'[k].terms = active[k].terms
          /\ active'[k].used >= active[k].used
          /\ active'[k].notional >= active[k].notional
       \/ /\ revoked' # <<>>
          /\ revoked'[Len(revoked')].mandate = active[k]
  /\ Len(revoked') >= Len(revoked)
  /\ \A i \in DOMAIN revoked : revoked'[i] = revoked[i]

\* Appending prior's entry, with every other active mandate kept.
LEMMA RevokingStep ==
  ASSUME IInv, NEW prior \in DOMAIN active, NEW reason \in Reasons, nextTx \in Txs,
         revoked' = Append(revoked, RevokedEntry(prior, reason)),
         \A x \in DOMAIN active \ {prior} :
           x \in DOMAIN active' /\ active'[x] = active[x]
  PROVE  StepEdits
<1> DEFINE e == RevokedEntry(prior, reason)
<1>1. e \in RevokedMandate /\ e.mandate = active[prior]
  BY RevokedEntryFacts
<1>2. /\ revoked' # <<>>
      /\ Len(revoked') = Len(revoked) + 1
      /\ revoked'[Len(revoked) + 1] = e
      /\ \A i \in DOMAIN revoked : revoked'[i] = revoked[i]
      /\ Len(revoked) \in Nat
  BY <1>1, LogGrows, LenProperties DEF IInv, TypeOK
<1>3. \A x \in DOMAIN active : active[x].used \in Nat /\ active[x].notional \in Nat
  BY Shape, BoundsAssumption DEF Mandate
<1> HIDE DEF e
<1>4. QED
  BY <1>1, <1>2, <1>3 DEF StepEdits

LEMMA NextEdits == IInv /\ [Next]_vars => [StepEdits]_vars
<1> SUFFICES ASSUME IInv, Next PROVE StepEdits
  BY DEF vars
<1>1. /\ \A x \in DOMAIN active : active[x].used \in Nat /\ active[x].notional \in Nat
      /\ Len(revoked) \in Nat
  BY Shape, LenProperties, BoundsAssumption DEF Mandate, IInv, TypeOK
<1>2. ASSUME NEW k \in Keepers, NEW t \in Terms, Issue(k, t) PROVE StepEdits
  <2>1. \A x \in DOMAIN active : x \in DOMAIN active' /\ active'[x] = active[x]
    BY <1>2 DEF Issue, Put
  <2>2. QED
    BY <1>1, <1>2, <2>1 DEF StepEdits, Issue
<1>3. ASSUME NEW k \in Keepers, NEW reason \in Reasons, Revoke(k, reason)
      PROVE StepEdits
  <2>1. \A x \in DOMAIN active \ {k} : x \in DOMAIN active' /\ active'[x] = active[x]
    BY <1>3 DEF Revoke, Drop
  <2>2. nextTx \in Txs
    BY <1>3 DEF Revoke, IInv, TypeOK, Txs
  <2>3. QED
    BY <1>3, <2>1, <2>2, RevokingStep DEF Revoke
<1>4. ASSUME NEW prior \in Keepers, NEW k \in Keepers, NEW t \in Terms, Rotate(prior, k, t)
      PROVE StepEdits
  <2>1. \A x \in DOMAIN active \ {prior} : x \in DOMAIN active' /\ active'[x] = active[x]
    BY <1>4 DEF Rotate, Rotated, Drop, Put
  <2>2. nextTx \in Txs /\ "Rotation" \in Reasons
    BY <1>4 DEF Rotate, IInv, TypeOK, Txs, Reasons
  <2>3. QED
    BY <1>4, <2>1, <2>2, RevokingStep DEF Rotate
<1>5. ASSUME NEW k \in Keepers, NEW role \in Roles, NEW a \in Actions, NEW d \in Notionals,
             Admit(k, role, a, d)
      PROVE StepEdits
  <2> DEFINE m == active[k]
  <2>1. /\ k \in DOMAIN active /\ m \in Mandate /\ d \in Nat
        /\ m.notional \in 0 .. NotionalMax
    BY <1>5, Shape, DeltaAssumption, BoundsAssumption DEF Admit, Mandate
  <2>2. /\ DOMAIN active' = DOMAIN active
        /\ active'[k] = Ratchet(m, d)
        /\ \A x \in DOMAIN active \ {k} : active'[x] = active[x]
        /\ revoked' = revoked
    BY <1>5, <2>1 DEF Admit
  <2>3. /\ Ratchet(m, d).issuedBy = m.issuedBy
        /\ Ratchet(m, d).terms = m.terms
        /\ Ratchet(m, d).used = m.used + 1
        /\ Ratchet(m, d).notional = SatAdd(m.notional, d)
    BY <2>1 DEF Ratchet, Mandate
  <2>4. m.notional \in Nat /\ SatAdd(m.notional, d) >= m.notional
    <3>1. m.notional \in Nat
      BY <2>1, BoundsAssumption
    <3>2. QED
      BY <2>1, <3>1, SatAddFacts
  <2>5. m.used \in Nat /\ m.used + 1 >= m.used
    BY <1>1, <2>1
  <2> HIDE DEF m
  <2>6. \A x \in DOMAIN active :
          /\ active'[x].issuedBy = active[x].issuedBy
          /\ active'[x].terms = active[x].terms
          /\ active'[x].used >= active[x].used
          /\ active'[x].notional >= active[x].notional
    BY <1>1, <2>2, <2>3, <2>4, <2>5 DEF m
  <2>7. QED
    BY <1>1, <2>2, <2>6 DEF StepEdits
<1>6. CASE Tick
  BY <1>1, <1>6 DEF Tick, StepEdits
<1>7. QED
  BY <1>2, <1>3, <1>4, <1>5, <1>6 DEF Next

\* I-21, for every registry: mandates are ratcheted or revoked, never edited.
THEOREM NoInPlaceEdit == Spec => NeverEdited
<1>1. IInv /\ [Next]_vars => [StepEdits]_vars
  BY NextEdits
<1>2. QED
  BY <1>1, Inductive, PTL DEF Spec, NeverEdited, StepEdits
=============================================================================
