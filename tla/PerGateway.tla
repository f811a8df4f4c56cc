----------------------------- MODULE PerGateway -----------------------------
(***************************************************************************)
(* Private-execution sessions (crates/atlas-per: session.rs, settlement.rs,*)
(* gateway.rs, execution_privacy.rs).                                      *)
(*                                                                         *)
(* A keeper opens a session, which delegates a vault to a rollup program.  *)
(* The rollup, or anyone, submits settlement payloads, each naming a slot  *)
(* of its own choice; the network may delay, repeat and reorder them.  The *)
(* gateway settles, disputes or expires the session, and a sweep expires   *)
(* the sessions that stalled.  A disputed session is never touched again.  *)
(* A session id is the hash of vault and nonce, modelled as the pair.      *)
(***************************************************************************)
EXTENDS Integers, Sequences, FiniteSets

CONSTANTS
  Vaults, Programs, Nonces,
  Commitments,         \* post-state commitments a payload may claim
  PublicInputs,        \* post-state commitments a proof may carry
  NullProgram,         \* the zero pubkey
  MaxPerSessionSlots,  \* MAX_PER_SESSION_SLOTS
  FreshNonces,         \* environment: the keeper never opens with a used nonce
  MaxSlot,             \* bound: slots
  MaxEvents,           \* bound: gateway events
  MaxSent              \* bound: settlement payloads

ASSUME GatewayAssumption ==
  /\ NullProgram \notin Programs
  /\ FreshNonces \in BOOLEAN
  /\ MaxPerSessionSlots \in Nat \ {0}
  /\ MaxSlot \in Nat /\ MaxEvents \in Nat /\ MaxSent \in Nat

VARIABLES
  sessions,  \* session id -> ErSession
  events,    \* GatewayEvent log
  sent,      \* settlement payloads submitted so far
  now        \* current slot

vars == <<sessions, events, sent, now>>

SessionIds == Vaults \X Nonces
Slots      == 0 .. MaxSlot
Unsettled  == -1

Session == [vault: Vaults, program: Programs, opened: Slots,
            slots: 1 .. MaxPerSessionSlots,
            status: {"Open", "Settled", "Expired", "Disputed"},
            settledAt: Slots \cup {Unsettled}]

Payload == [vault: Vaults, session: SessionIds, post: Commitments,
            submitter: Programs, at: Slots]

Event == [kind: {"SessionOpened", "SessionSettled", "SessionExpired", "SessionDisputed"},
          vault: Vaults, session: SessionIds, at: Slots]

-----------------------------------------------------------------------------
(* Sessions *)

Ids(v)      == {id \in DOMAIN sessions : sessions[id].vault = v}
IsOpen(id)  == sessions[id].status = "Open"
Deadline(s) == s.opened + s.slots

\* ErSession::is_expired_at counts the deadline slot itself as expired.
IsExpiredWrongStatus(id) ==
  sessions[id].status = "Disputed" /\ now >= Deadline(sessions[id])
IsExpired(id) == IsOpen(id) /\ now >= Deadline(sessions[id])

Note(kind, v, id, at) == [kind |-> kind, vault |-> v, session |-> id, at |-> at]

VaultFreeUnchecked(v) == TRUE
VaultFree(v) == \A id \in Ids(v) : ~IsOpen(id)

SlotsAllowed(slots) == slots # 0 /\ slots <= MaxPerSessionSlots

\* PerGateway::open_session and the checks of ErSession::open.
OpenSession(v, program, slots, nonce) ==
  LET id == <<v, nonce>>
  IN  /\ Len(events) < MaxEvents
      /\ now + slots <= MaxSlot   \* bound: the deadline is within the run
      /\ FreshNonces => id \notin DOMAIN sessions
      /\ VaultFree(v)
      /\ program # NullProgram
      /\ SlotsAllowed(slots)
      /\ sessions' = [x \in DOMAIN sessions \cup {id} |->
           IF x = id
           THEN [vault |-> v, program |-> program, opened |-> now, slots |-> slots,
                 status |-> "Open", settledAt |-> Unsettled]
           ELSE sessions[x]]
      /\ events' = Append(events, Note("SessionOpened", v, id, now))
      /\ UNCHANGED <<sent, now>>

-----------------------------------------------------------------------------
(* Settlement *)

\* Anyone submits a payload.  All of it is the submitter's: submitted_at_slot is
\* a field like the others, and no check ever compares it with the current slot
\* or with the opening.  One sent before the session exists is an error and
\* changes nothing until it is delivered again: it can as well be sent later.
Submit(id, v, program, post, at) ==
  /\ Cardinality(sent) < MaxSent
  /\ id \in DOMAIN sessions
  /\ sent' = sent \cup {[vault |-> v, session |-> id, post |-> post,
                         submitter |-> program, at |-> at]}
  /\ UNCHANGED <<sessions, events, now>>

\* The first checks of verify_settlement: open, and for the right vault.
\* Failing them is an error and changes nothing.
CurrentAny(p) == p.session \in DOMAIN sessions
Current(p) ==
  /\ p.session \in DOMAIN sessions
  /\ IsOpen(p.session)
  /\ p.vault = sessions[p.session].vault

Authorised(p) == p.submitter = sessions[p.session].program
OnTime(p)     == p.at <= Deadline(sessions[p.session])

\* The outcome of verify_settlement on a current payload, in check order.
VerdictUnauthorised(p, publicInput) ==
  IF ~OnTime(p) THEN "Expired"
  ELSE IF p.post # publicInput THEN "PostStateMismatch"
  ELSE "Settled"
Verdict(p, publicInput) ==
  IF ~Authorised(p) THEN "Disputed"
  ELSE IF ~OnTime(p) THEN "Expired"
  ELSE IF p.post # publicInput THEN "PostStateMismatch"
  ELSE "Settled"

EventOf == [Settled |-> "SessionSettled", Expired |-> "SessionExpired",
            Disputed |-> "SessionDisputed"]

\* PerGateway::settle: the verdict is stored in the session and logged.  A
\* post-state mismatch leaves the session open.
Conclude(p, verdict) ==
  /\ sessions' = [sessions EXCEPT ![p.session].status = verdict,
                    ![p.session].settledAt = IF verdict = "Settled" THEN p.at ELSE @]
  /\ events' = Append(events, Note(EventOf[verdict], p.vault, p.session, p.at))

Settle(p, publicInput) ==
  /\ Current(p)
  /\ Verdict(p, publicInput) # "PostStateMismatch"
  /\ Conclude(p, Verdict(p, publicInput))
  /\ UNCHANGED <<sent, now>>

\* PerGateway::sweep_stalled: every expired session, in the map's order.
SweepStalled ==
  LET stalled == {id \in DOMAIN sessions : IsExpired(id)}
  IN  /\ stalled # {}
      /\ \E order \in [1 .. Cardinality(stalled) -> stalled] :
           /\ \A i, j \in DOMAIN order : order[i] = order[j] => i = j
           /\ events' = events \o
                [i \in DOMAIN order |->
                   Note("SessionExpired", sessions[order[i]].vault, order[i], now)]
      /\ sessions' = [id \in DOMAIN sessions |->
           IF id \in stalled THEN [sessions[id] EXCEPT !.status = "Expired"]
           ELSE sessions[id]]
      /\ UNCHANGED <<sent, now>>

Tick ==
  /\ now < MaxSlot
  /\ now' = now + 1
  /\ UNCHANGED <<sessions, events, sent>>

Init ==
  /\ sessions = [id \in {} |-> {}]
  /\ events = <<>>
  /\ sent = {}
  /\ now = 0

Next ==
  \/ \E v \in Vaults, program \in Programs \cup {NullProgram},
        slots \in 0 .. MaxPerSessionSlots + 1, nonce \in Nonces :
       OpenSession(v, program, slots, nonce)
  \/ \E id \in SessionIds, v \in Vaults, program \in Programs, post \in Commitments,
        at \in Slots :
       Submit(id, v, program, post, at)
  \/ \E p \in sent, publicInput \in PublicInputs : Settle(p, publicInput)
  \/ SweepStalled
  \/ Tick

\* Slots pass, and the operator's keeper keeps sweeping (session.rs:4).
Fairness == WF_vars(Tick) /\ WF_vars(SweepStalled)

Spec == Init /\ [][Next]_vars /\ Fairness

-----------------------------------------------------------------------------
(* Properties *)

\* Every variable has the type the code declares for it.
TypeOK ==
  /\ DOMAIN sessions \subseteq SessionIds
  /\ sessions \in [DOMAIN sessions -> Session]
  /\ events \in Seq(Event)
  /\ sent \subseteq Payload
  /\ now \in Slots

\* A settled session was settled by a payload of its own rollup, for this
\* session and vault, that names a slot no later than the deadline.  How late
\* the payload came is another matter: settlement.rs:9 has the verifier look at
\* the current slot, and the code looks at the payload's only.
SettledByItsRollup ==
  \A id \in DOMAIN sessions :
    LET s == sessions[id]
    IN  IF s.status = "Settled"
        THEN \E p \in sent : /\ p.session = id /\ p.vault = s.vault
                             /\ p.submitter = s.program
                             /\ p.at = s.settledAt
                             /\ p.at <= Deadline(s)
        ELSE s.settledAt = Unsettled

\* The gateway implements the delegation log: at most one open session per
\* vault, one matching event for each opening and each ending, and a disputed
\* session keeps its hold on the vault while the gateway opens others.
Log == INSTANCE DelegationLog WITH
         running  <- {v \in Vaults : \E id \in Ids(v) : IsOpen(id)},
         disputed <- {v \in Vaults : \E id \in Ids(v) : sessions[id].status = "Disputed"},
         log <- [i \in DOMAIN events |-> <<events[i].vault, events[i].kind>>]
ImplementsLog == Log!Spec

\* gateway.rs:61: sessions stay in the map for the audit trail.  A session
\* that has ended is never changed or replaced.
AuditTrailKept ==
  [][\A id \in DOMAIN sessions :
       /\ id \in DOMAIN sessions'
       /\ ~IsOpen(id) => sessions'[id] = sessions[id]]_vars

\* A silent rollup does not keep the vault: a running session is settled or
\* expired in the end.  The exception is one that some other program has
\* disputed by submitting a payload for it: that one is left to the operators.
Running(id)   == id \in DOMAIN sessions /\ IsOpen(id)
Returned(id)  == id \in DOMAIN sessions /\ sessions[id].status \in {"Settled", "Expired"}
LeftToOps(id) ==
  /\ id \in DOMAIN sessions /\ sessions[id].status = "Disputed"
  /\ \E p \in sent : p.session = id /\ p.submitter # sessions[id].program
StalledAreReleased ==
  \A id \in SessionIds : Running(id) ~> Returned(id) \/ LeftToOps(id)
=============================================================================
