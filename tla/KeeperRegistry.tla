--------------------------- MODULE KeeperRegistry ---------------------------
(***************************************************************************)
(* Keeper mandates and the registry that holds them                        *)
(* (crates/atlas-operator-agent: role.rs, mandate.rs, registry.rs).        *)
(*                                                                         *)
(* A Squads multisig issues a mandate to a keeper: a role, a set of        *)
(* actions, a slot window and three caps.  The registry keeps one active   *)
(* mandate per keeper and a log of the revoked ones.  A keeper's action    *)
(* is admitted when its active mandate allows it, and admission ratchets   *)
(* the mandate's usage counters.                                           *)
(*                                                                         *)
(* The variable ledger is a history variable: what each mandate, named by  *)
(* the multisig transaction that issued it, was really used for.           *)
(***************************************************************************)
EXTENDS Integers, Sequences

CONSTANTS
  Keepers,         \* keeper public keys
  Roles,           \* KeeperRole
  Actions,         \* ActionClass
  CanonicalScope,  \* KeeperRole::canonical_bitset, as a set of actions
  Terms,           \* the mandates the multisig may propose
  Notionals,       \* the notional deltas a keeper may present
  NotionalMax,     \* u128::MAX
  MaxTx,           \* bound: multisig transactions
  MaxSlot          \* bound: slots

Txs   == 1 .. MaxTx
Slots == 0 .. MaxSlot

\* MAX_NOTIONAL_UNLIMITED: a per-action cap of zero is no cap.
Unlimited == 0

Term == [role: Roles, scope: SUBSET Actions, from: Nat, until: Nat,
         maxActions: Nat, perAction: Nat, total: 0 .. NotionalMax]

ASSUME BoundsAssumption == /\ NotionalMax \in Nat
                           /\ MaxTx \in Nat
                           /\ MaxSlot \in Nat
ASSUME ScopeAssumption  == CanonicalScope \in [Roles -> SUBSET Actions]
ASSUME TermsAssumption  == Terms \subseteq Term
ASSUME DeltaAssumption  == Notionals \subseteq 0 .. NotionalMax

VARIABLES
  active,   \* keeper -> its active mandate
  revoked,  \* log of revoked mandates
  now,      \* current slot
  nextTx,   \* the next multisig transaction id
  ledger    \* history: mandate -> what it was used for

vars == <<active, revoked, now, nextTx, ledger>>

Mandate == [keeper: Keepers, terms: Term, used: Nat, notional: 0 .. NotionalMax,
            issuedBy: Txs]

Reasons == {"Rotation", "Compromise", "ScopeTighten", "Manual"}

RevokedMandate == [mandate: Mandate, at: Slots, by: Txs, reason: Reasons]

Usage == [count: Nat, sum: Nat, uses: SUBSET (Actions \X Slots \X Nat)]

-----------------------------------------------------------------------------
(* Mandates *)

\* u128::saturating_add
SatAdd(a, b) == IF a + b > NotionalMax THEN NotionalMax ELSE a + b

\* KeeperMandate::new refuses a scope wider than the role's.
ScopeUnchecked(t) == TRUE
ScopeAllowed(t) == t.scope \subseteq CanonicalScope[t.role]

NewMandate(k, t) ==
  [keeper |-> k, terms |-> t, used |-> 0, notional |-> 0, issuedBy |-> nextTx]

\* KeeperMandate::check, in the order of its early returns.
Admissible(m, a, d) ==
  /\ m.terms.from <= now
  /\ now < m.terms.until
  /\ a \in m.terms.scope
  /\ m.used < m.terms.maxActions
  /\ m.terms.perAction # Unlimited => d <= m.terms.perAction
  /\ SatAdd(m.notional, d) <= m.terms.total

Ratchet(m, d) == [m EXCEPT !.used = @ + 1, !.notional = SatAdd(@, d)]

-----------------------------------------------------------------------------
(* The registry *)

Put(f, k, v) == [x \in DOMAIN f \cup {k} |-> IF x = k THEN v ELSE f[x]]
DropNothing(f, k) == f
Drop(f, k)   == [x \in DOMAIN f \ {k} |-> f[x]]

RevokedEntryReset(k, reason) ==
  [mandate |-> [active[k] EXCEPT !.used = 0], at |-> now, by |-> nextTx,
   reason |-> reason]
RevokedEntry(k, reason) ==
  [mandate |-> active[k], at |-> now, by |-> nextTx, reason |-> reason]

\* KeeperRegistry::issue of a mandate built by KeeperMandate::new.
Issue(k, t) ==
  /\ nextTx <= MaxTx
  /\ ScopeAllowed(t)
  /\ k \notin DOMAIN active
  /\ active' = Put(active, k, NewMandate(k, t))
  /\ nextTx' = nextTx + 1
  /\ UNCHANGED <<revoked, now, ledger>>

\* KeeperRegistry::revoke.  Reason Rotation is what rotate() passes.
Revoke(k, reason) ==
  /\ nextTx <= MaxTx
  /\ k \in DOMAIN active
  /\ active'  = Drop(active, k)
  /\ revoked' = Append(revoked, RevokedEntry(k, reason))
  /\ nextTx'  = nextTx + 1
  /\ UNCHANGED <<now, ledger>>

\* The map left after rotate's revoke(prior) and then issue(replacement) for
\* keeper k: issue refuses a keeper that still has a mandate of its own.
RotatedOver(prior, k, t) == Put(Drop(active, prior), k, NewMandate(k, t))
Rotated(prior, k, t) ==
  LET rest == Drop(active, prior)
  IN  IF k \in DOMAIN rest THEN rest ELSE Put(rest, k, NewMandate(k, t))

\* KeeperRegistry::rotate, one multisig transaction.  The call returns
\* DuplicateActive when its second half fails; the first half stays done.
Rotate(prior, k, t) ==
  /\ nextTx <= MaxTx
  /\ ScopeAllowed(t)
  /\ prior \in DOMAIN active
  /\ active'  = Rotated(prior, k, t)
  /\ revoked' = Append(revoked, RevokedEntry(prior, "Rotation"))
  /\ nextTx'  = nextTx + 1
  /\ UNCHANGED <<now, ledger>>

\* KeeperRegistry::admit: the signer's mandate is looked up, the presented
\* role compared, the action checked, and the counters ratcheted.
Admit(k, role, a, d) ==
  /\ k \in DOMAIN active
  /\ active[k].terms.role = role
  /\ Admissible(active[k], a, d)
  /\ active' = [active EXCEPT ![k] = Ratchet(@, d)]
  /\ ledger' = [ledger EXCEPT ![active[k].issuedBy] =
                  [count |-> @.count + 1,
                   sum   |-> @.sum + d,
                   uses  |-> @.uses \cup {<<a, now, d>>}]]
  /\ UNCHANGED <<revoked, now, nextTx>>

\* The chain moves on.
Tick ==
  /\ now < MaxSlot
  /\ now' = now + 1
  /\ UNCHANGED <<active, revoked, nextTx, ledger>>

Init ==
  /\ active = [k \in {} |-> {}]
  /\ revoked = <<>>
  /\ now = 0
  /\ nextTx = 1
  /\ ledger = [x \in Txs |-> [count |-> 0, sum |-> 0, uses |-> {}]]

Next ==
  \/ \E k \in Keepers, t \in Terms : Issue(k, t)
  \/ \E k \in Keepers, reason \in Reasons \ {"Rotation"} : Revoke(k, reason)
  \/ \E prior, k \in Keepers, t \in Terms : Rotate(prior, k, t)
  \/ \E k \in Keepers, role \in Roles, a \in Actions, d \in Notionals :
       Admit(k, role, a, d)
  \/ Tick

Spec == Init /\ [][Next]_vars

-----------------------------------------------------------------------------
(* Properties *)

\* Every variable has the type the code declares for it.
TypeOK ==
  /\ DOMAIN active \subseteq Keepers
  /\ active \in [DOMAIN active -> Mandate]
  /\ revoked \in Seq(RevokedMandate)
  /\ now \in Slots
  /\ nextTx \in 1 .. MaxTx + 1
  /\ ledger \in [Txs -> Usage]

\* What mandate m was really used for stays inside all its limits: the action
\* count, the total and the per-action notional, the canonical scope of its
\* role and its slot window.  A total cap of u128::MAX bounds nothing, since
\* the running total saturates there.
WithinLimits(m) ==
  LET l == ledger[m.issuedBy]
  IN  /\ l.count <= m.terms.maxActions
      /\ m.terms.total < NotionalMax => l.sum <= m.terms.total
      /\ \A u \in l.uses :
           /\ u[1] \in CanonicalScope[m.terms.role]
           /\ m.terms.from <= u[2] /\ u[2] < m.terms.until
           /\ m.terms.perAction # Unlimited => u[3] <= m.terms.perAction

\* I-18, I-19: no mandate, active or revoked, is ever used past its limits,
\* over any sequence of issues, rotations, revocations and admissions.
LimitsRespected ==
  /\ \A k \in DOMAIN active : WithinLimits(active[k])
  /\ \A i \in DOMAIN revoked : WithinLimits(revoked[i].mandate)

\* The counters a mandate carries are the truth about its use.
CountersTrue(m) ==
  /\ m.used = ledger[m.issuedBy].count
  /\ m.notional = SatAdd(ledger[m.issuedBy].sum, 0)

\* Revocation is final and its audit entry exact: the usage frozen in the log
\* is the mandate's whole use, and no use is later than the revocation.
RevocationIsFinal ==
  \A i \in DOMAIN revoked :
    /\ CountersTrue(revoked[i].mandate)
    /\ \A u \in ledger[revoked[i].mandate.issuedBy].uses : u[2] <= revoked[i].at

\* A mandate is in one place: filed under its own keeper, and never both
\* active and revoked, nor revoked twice.
OneHome ==
  /\ \A k \in DOMAIN active : active[k].keeper = k
  /\ \A k, j \in DOMAIN active : active[k].issuedBy = active[j].issuedBy => k = j
  /\ \A k \in DOMAIN active, i \in DOMAIN revoked :
       active[k].issuedBy # revoked[i].mandate.issuedBy
  /\ \A i, j \in DOMAIN revoked :
       revoked[i].mandate.issuedBy = revoked[j].mandate.issuedBy => i = j

\* I-21: a mandate is never edited in place.  In one step an active mandate
\* keeps its keeper and terms and only ratchets its counters, or leaves for
\* the end of the revoked log exactly as it was.
NeverEdited ==
  [][/\ \A k \in DOMAIN active :
          \/ /\ k \in DOMAIN active'
             /\ active'[k].issuedBy = active[k].issuedBy
             /\ active'[k].terms = active[k].terms
             /\ active'[k].used >= active[k].used
             /\ active'[k].notional >= active[k].notional
          \/ /\ revoked' # <<>>
             /\ revoked'[Len(revoked')].mandate = active[k]
     /\ Len(revoked') >= Len(revoked)
     /\ \A i \in DOMAIN revoked : revoked'[i] = revoked[i]]_vars
=============================================================================
