-------------------------- MODULE PerGatewayProofs --------------------------
(***************************************************************************)
(* Proofs about PerGateway, for every value of its constants.              *)
(***************************************************************************)
EXTENDS PerGateway, SequenceTheorems, FiniteSetTheorems, TLAPS

-----------------------------------------------------------------------------
(* Type correctness.  It does not depend on fresh nonces. *)

Typed == TypeOK /\ IsFiniteSet(DOMAIN sessions)

LEMMA InitTyped == Init => Typed
<1> SUFFICES ASSUME Init PROVE Typed
  OBVIOUS
<1>1. DOMAIN sessions = {} /\ IsFiniteSet({})
  BY FS_EmptySet DEF Init
<1>2. QED
  BY <1>1, GatewayAssumption DEF Init, Typed, TypeOK, Slots

\* A well-formed event keeps the log well formed.
LEMMA LogOne ==
  ASSUME TypeOK, NEW e \in Event, events' = Append(events, e)
  PROVE  events' \in Seq(Event)
BY AppendProperties DEF TypeOK

LEMMA OpenKeepsTyped ==
  ASSUME Typed, NEW v \in Vaults, NEW program \in Programs \cup {NullProgram},
         NEW slots \in 0 .. MaxPerSessionSlots + 1, NEW nonce \in Nonces,
         OpenSession(v, program, slots, nonce)
  PROVE  Typed'
<1> DEFINE id == <<v, nonce>>
           fresh == [vault |-> v, program |-> program, opened |-> now, slots |-> slots,
                     status |-> "Open", settledAt |-> Unsettled]
<1>1. /\ id \in SessionIds /\ now \in Slots
      /\ program \in Programs /\ slots \in 1 .. MaxPerSessionSlots
  BY GatewayAssumption DEF OpenSession, SlotsAllowed, SessionIds, Typed, TypeOK
<1>2. fresh \in Session
  BY <1>1 DEF Session, Unsettled
<1>3. /\ DOMAIN sessions' = DOMAIN sessions \cup {id}
      /\ \A x \in DOMAIN sessions' : sessions'[x] = IF x = id THEN fresh ELSE sessions[x]
      /\ sessions' = [x \in DOMAIN sessions' |-> sessions'[x]]
  BY DEF OpenSession
<1>4. sessions' \in [DOMAIN sessions' -> Session] /\ DOMAIN sessions' \subseteq SessionIds
  BY <1>1, <1>2, <1>3 DEF Typed, TypeOK
<1>5. IsFiniteSet(DOMAIN sessions')
  <2>1. IsFiniteSet(DOMAIN sessions)
    BY DEF Typed
  <2>2. IsFiniteSet(DOMAIN sessions \cup {id})
    BY ONLY <2>1, FS_AddElement
  <2>3. QED
    BY <1>3, <2>2
<1>6. events' \in Seq(Event)
  <2>1. Note("SessionOpened", v, id, now) \in Event
    BY <1>1 DEF Note, Event
  <2>2. QED
    BY <2>1, LogOne DEF OpenSession, Typed
<1>7. QED
  BY <1>4, <1>5, <1>6 DEF OpenSession, Typed, TypeOK

LEMMA SubmitKeepsTyped ==
  ASSUME Typed, NEW id \in SessionIds, NEW v \in Vaults, NEW program \in Programs,
         NEW post \in Commitments, NEW at \in Slots, Submit(id, v, program, post, at)
  PROVE  Typed'
BY DEF Submit, Typed, TypeOK, Payload

\* The three ways a payload can end a session.
LEMMA VerdictKinds ==
  ASSUME NEW p, NEW publicInput, Verdict(p, publicInput) # "PostStateMismatch"
  PROVE  Verdict(p, publicInput) \in {"Disputed", "Expired", "Settled"}
BY DEF Verdict

LEMMA SettleKeepsTyped ==
  ASSUME Typed, NEW p \in sent, NEW publicInput \in PublicInputs, Settle(p, publicInput)
  PROVE  Typed'
<1> DEFINE verdict == Verdict(p, publicInput)
<1>1. verdict \in {"Disputed", "Expired", "Settled"}
  BY VerdictKinds DEF Settle
<1>2. p \in Payload /\ p.session \in DOMAIN sessions /\ p.session \in SessionIds
  BY DEF Settle, Current, Typed, TypeOK
<1>3. Conclude(p, verdict) /\ UNCHANGED <<sent, now>>
  BY DEF Settle
<1> HIDE DEF verdict
<1>4. sessions' \in [DOMAIN sessions -> Session]
  <2> DEFINE s == sessions[p.session]
             at == IF verdict = "Settled" THEN p.at ELSE s.settledAt
             ended == [s EXCEPT !.status = verdict, !.settledAt = at]
  <2>1. s \in Session /\ p.at \in Slots
    BY <1>2 DEF Typed, TypeOK, Payload
  <2>2. at \in Slots \cup {Unsettled}
    BY <2>1 DEF Session
  <2> HIDE DEF at
  <2>3. ended \in Session
    BY <1>1, <2>1, <2>2 DEF Session
  <2>4. sessions' = [sessions EXCEPT ![p.session] = ended]
    BY <1>2, <1>3 DEF Conclude, at
  <2>5. QED
    BY <1>2, <2>3, <2>4 DEF Typed, TypeOK
<1>5. events' \in Seq(Event)
  <2>1. Note(EventOf[verdict], p.vault, p.session, p.at) \in Event
    BY <1>1, <1>2 DEF Note, Event, EventOf, Payload
  <2>2. QED
    BY <1>3, <2>1, LogOne DEF Conclude, Typed
<1>6. QED
  BY <1>3, <1>4, <1>5 DEF Typed, TypeOK

LEMMA SweepKeepsTyped ==
  ASSUME Typed, SweepStalled
  PROVE  Typed'
<1> DEFINE stalled == {id \in DOMAIN sessions : IsExpired(id)}
           Swept(order) == [i \in DOMAIN order |->
              Note("SessionExpired", sessions[order[i]].vault, order[i], now)]
<1>1. stalled \subseteq DOMAIN sessions /\ Cardinality(stalled) \in Nat
  BY FS_Subset, FS_CardinalityType DEF Typed
<1>2. PICK order \in [1 .. Cardinality(stalled) -> stalled] : events' = events \o Swept(order)
  BY DEF SweepStalled
<1>3. \A i \in 1 .. Cardinality(stalled) :
        Note("SessionExpired", sessions[order[i]].vault, order[i], now) \in Event
  BY <1>1 DEF Note, Event, Typed, TypeOK, Session
<1>4. Swept(order) \in Seq(Event)
  BY <1>1, <1>2, <1>3
<1>5. events' \in Seq(Event)
  BY <1>2, <1>4, ConcatProperties DEF Typed, TypeOK
<1>6. sessions' \in [DOMAIN sessions -> Session]
  <2>1. ASSUME NEW id \in DOMAIN sessions
        PROVE  /\ sessions[id] \in Session
               /\ [sessions[id] EXCEPT !.status = "Expired"] \in Session
    <3>1. sessions[id] \in Session
      BY DEF Typed, TypeOK
    <3>2. QED
      BY <3>1 DEF Session
  <2>2. sessions' = [id \in DOMAIN sessions |->
           IF id \in stalled THEN [sessions[id] EXCEPT !.status = "Expired"]
           ELSE sessions[id]]
    BY DEF SweepStalled
  <2>3. QED
    BY ONLY <2>1, <2>2
<1>7. QED
  BY <1>5, <1>6 DEF SweepStalled, Typed, TypeOK

LEMMA NextKeepsTyped == Typed /\ [Next]_vars => Typed'
<1> SUFFICES ASSUME Typed, [Next]_vars PROVE Typed'
  OBVIOUS
<1>1. CASE \E v \in Vaults, program \in Programs \cup {NullProgram},
              slots \in 0 .. MaxPerSessionSlots + 1, nonce \in Nonces :
             OpenSession(v, program, slots, nonce)
  BY <1>1, OpenKeepsTyped
<1>2. CASE \E id \in SessionIds, v \in Vaults, program \in Programs, post \in Commitments,
              at \in Slots :
             Submit(id, v, program, post, at)
  BY <1>2, SubmitKeepsTyped
<1>3. CASE \E p \in sent, publicInput \in PublicInputs : Settle(p, publicInput)
  BY <1>3, SettleKeepsTyped
<1>4. CASE SweepStalled
  BY <1>4, SweepKeepsTyped
<1>5. CASE Tick
  BY <1>5, GatewayAssumption DEF Tick, Typed, TypeOK, Slots
<1>6. CASE UNCHANGED vars
  BY <1>6 DEF vars, Typed, TypeOK
<1>7. QED
  BY <1>1, <1>2, <1>3, <1>4, <1>5, <1>6 DEF Next

\* Sessions, events and payloads keep the types the code declares.
THEOREM TypeCorrect == Spec => []TypeOK
<1>1. Spec => []Typed
  BY InitTyped, NextKeepsTyped, PTL DEF Spec
<1>2. Typed => TypeOK
  BY DEF Typed
<1>3. QED
  BY <1>1, <1>2, PTL

-----------------------------------------------------------------------------
(* Settlement.  A settled session keeps the payload that settled it: sent  *)
(* only grows, and whatever overwrites a session leaves it open.           *)

IInv == Typed /\ SettledByItsRollup

\* What a session's own part of SettledByItsRollup reads of the state.
SettledSoundly(id, s, payloads) ==
  IF s.status = "Settled"
  THEN \E p \in payloads : /\ p.session = id /\ p.vault = s.vault
                           /\ p.submitter = s.program
                           /\ p.at = s.settledAt
                           /\ p.at <= Deadline(s)
  ELSE s.settledAt = Unsettled

LEMMA EachSound ==
  ASSUME SettledByItsRollup, NEW id \in DOMAIN sessions
  PROVE  SettledSoundly(id, sessions[id], sent)
BY DEF SettledByItsRollup, SettledSoundly

LEMMA AllSoundNext ==
  ASSUME \A id \in DOMAIN sessions' : SettledSoundly(id, sessions'[id], sent')
  PROVE  SettledByItsRollup'
BY DEF SettledByItsRollup, SettledSoundly, Deadline

LEMMA InitIInv == Init => IInv
BY InitTyped DEF Init, IInv, SettledByItsRollup

LEMMA OpenKeepsIInv ==
  ASSUME IInv, NEW v \in Vaults, NEW program \in Programs \cup {NullProgram},
         NEW slots \in 0 .. MaxPerSessionSlots + 1, NEW nonce \in Nonces,
         OpenSession(v, program, slots, nonce)
  PROVE  SettledByItsRollup'
<1> DEFINE id == <<v, nonce>>
<1>1. /\ DOMAIN sessions' = DOMAIN sessions \cup {id}
      /\ \A x \in DOMAIN sessions : x # id => sessions'[x] = sessions[x]
      /\ UNCHANGED sent
  BY DEF OpenSession
<1>2. sessions'[id].status = "Open" /\ sessions'[id].settledAt = Unsettled
  BY DEF OpenSession
<1> HIDE DEF id
<1>3. SettledSoundly(id, sessions'[id], sent')
  BY <1>2 DEF SettledSoundly
<1>4. \A x \in DOMAIN sessions' : SettledSoundly(x, sessions'[x], sent')
  BY <1>1, <1>3, EachSound DEF IInv
<1>5. QED
  BY <1>4, AllSoundNext

\* A payload that settles passed every check of verify_settlement.
LEMMA SettleKeepsIInv ==
  ASSUME IInv, NEW p \in sent, NEW publicInput \in PublicInputs, Settle(p, publicInput)
  PROVE  SettledByItsRollup'
<1> DEFINE verdict == Verdict(p, publicInput)
           s == sessions[p.session]
<1>1. /\ p.session \in DOMAIN sessions /\ s.status = "Open"
      /\ p.vault = s.vault /\ s \in Session
  BY DEF Settle, Current, IsOpen, IInv, Typed, TypeOK
<1>2. verdict = "Settled" => p.submitter = s.program /\ p.at <= Deadline(s)
  BY DEF Verdict, Authorised, OnTime
<1>3. s.settledAt = Unsettled
  BY <1>1 DEF IInv, SettledByItsRollup
<1>4. Conclude(p, verdict) /\ UNCHANGED sent
  BY DEF Settle
<1> HIDE DEF verdict
<1>5. /\ DOMAIN sessions' = DOMAIN sessions
      /\ \A x \in DOMAIN sessions : x # p.session => sessions'[x] = sessions[x]
      /\ sessions'[p.session] =
           [s EXCEPT !.status = verdict,
                     !.settledAt = IF verdict = "Settled" THEN p.at ELSE s.settledAt]
  BY <1>1, <1>4 DEF Conclude
<1>6. /\ sessions'[p.session].status = verdict
      /\ sessions'[p.session].settledAt =
           IF verdict = "Settled" THEN p.at ELSE Unsettled
      /\ sessions'[p.session].opened = s.opened /\ sessions'[p.session].slots = s.slots
      /\ sessions'[p.session].vault = s.vault /\ sessions'[p.session].program = s.program
  BY <1>1, <1>3, <1>5 DEF Session
<1>7. SettledSoundly(p.session, sessions'[p.session], sent')
  BY <1>1, <1>2, <1>4, <1>6 DEF SettledSoundly, Deadline
<1>8. \A x \in DOMAIN sessions' : SettledSoundly(x, sessions'[x], sent')
  BY <1>4, <1>5, <1>7, EachSound DEF IInv
<1>9. QED
  BY <1>8, AllSoundNext

LEMMA SweepKeepsIInv ==
  ASSUME IInv, SweepStalled
  PROVE  SettledByItsRollup'
<1>1. ASSUME NEW id \in DOMAIN sessions
      PROVE  \/ sessions'[id] = sessions[id]
             \/ /\ sessions[id].status = "Open" /\ sessions'[id].status = "Expired"
                /\ sessions'[id].settledAt = sessions[id].settledAt
  <2>1. sessions[id] \in Session
    BY DEF IInv, Typed, TypeOK
  <2>2. QED
    BY <2>1 DEF SweepStalled, IsExpired, IsOpen, Session
<1>2. DOMAIN sessions' = DOMAIN sessions /\ UNCHANGED sent
  BY DEF SweepStalled
<1>3. ASSUME NEW id \in DOMAIN sessions
      PROVE  SettledSoundly(id, sessions'[id], sent)
  <2>1. SettledSoundly(id, sessions[id], sent)
    BY EachSound DEF IInv
  <2>2. CASE sessions'[id] = sessions[id]
    BY <2>1, <2>2
  <2>3. CASE /\ sessions[id].status = "Open" /\ sessions'[id].status = "Expired"
             /\ sessions'[id].settledAt = sessions[id].settledAt
    BY <2>1, <2>3 DEF SettledSoundly
  <2>4. QED
    BY <1>1, <2>2, <2>3
<1>4. QED
  BY <1>2, <1>3, AllSoundNext

LEMMA NextKeepsIInv == IInv /\ [Next]_vars => IInv'
<1> SUFFICES ASSUME IInv, [Next]_vars PROVE IInv'
  OBVIOUS
<1>1. Typed'
  BY NextKeepsTyped DEF IInv
<1>2. SettledByItsRollup'
  <2>1. CASE \E v \in Vaults, program \in Programs \cup {NullProgram},
                slots \in 0 .. MaxPerSessionSlots + 1, nonce \in Nonces :
               OpenSession(v, program, slots, nonce)
    BY <2>1, OpenKeepsIInv
  <2>2. CASE \E id \in SessionIds, v \in Vaults, program \in Programs, post \in Commitments,
                at \in Slots :
               Submit(id, v, program, post, at)
    <3>1. sent \subseteq sent' /\ UNCHANGED sessions
      BY <2>2 DEF Submit
    <3>2. QED
      BY <3>1 DEF IInv, SettledByItsRollup, Deadline
  <2>3. CASE \E p \in sent, publicInput \in PublicInputs : Settle(p, publicInput)
    BY <2>3, SettleKeepsIInv
  <2>4. CASE SweepStalled
    BY <2>4, SweepKeepsIInv
  <2>5. CASE Tick
    BY <2>5 DEF Tick, IInv, SettledByItsRollup, Deadline
  <2>6. CASE UNCHANGED vars
    BY <2>6 DEF vars, IInv, SettledByItsRollup, Deadline
  <2>7. QED
    BY <2>1, <2>2, <2>3, <2>4, <2>5, <2>6 DEF Next
<1>3. QED
  BY <1>1, <1>2 DEF IInv

\* A settled session was settled by a payload of its own rollup, for this session
\* and this vault, that names a slot no later than the deadline.  The payload's
\* slot is any slot the submitter likes, and nonces may be used again.
THEOREM OwnRollupSettles == Spec => []SettledByItsRollup
<1>1. Spec => []IInv
  BY InitIInv, NextKeepsIInv, PTL DEF Spec
<1>2. IInv => SettledByItsRollup
  BY DEF IInv
<1>3. QED
  BY <1>1, <1>2, PTL

\* With fresh nonces, a session that has ended is never changed or replaced.
THEOREM EndedSessionsStay ==
  ASSUME FreshNonces
  PROVE  Spec => AuditTrailKept
<1> DEFINE Kept(id) == id \in DOMAIN sessions' /\ (~IsOpen(id) => sessions'[id] = sessions[id])
<1>1. ASSUME TypeOK, [Next]_vars, NEW id \in DOMAIN sessions
      PROVE  Kept(id)
  <2>1. CASE \E v \in Vaults, program \in Programs \cup {NullProgram},
                slots \in 0 .. MaxPerSessionSlots + 1, nonce \in Nonces :
               OpenSession(v, program, slots, nonce)
    BY <2>1 DEF OpenSession
  <2>2. CASE \E x \in SessionIds, v \in Vaults, program \in Programs, post \in Commitments,
                at \in Slots :
               Submit(x, v, program, post, at)
    BY <2>2 DEF Submit
  <2>3. CASE \E p \in sent, publicInput \in PublicInputs : Settle(p, publicInput)
    BY <2>3 DEF Settle, Current, Conclude, TypeOK
  <2>4. CASE SweepStalled
    BY <2>4 DEF SweepStalled, IsExpired
  <2>5. CASE Tick
    BY <2>5 DEF Tick
  <2>6. CASE UNCHANGED vars
    BY <2>6 DEF vars
  <2>7. QED
    BY <1>1, <2>1, <2>2, <2>3, <2>4, <2>5, <2>6 DEF Next
<1>2. TypeOK /\ [Next]_vars =>
        [\A id \in DOMAIN sessions :
           /\ id \in DOMAIN sessions'
           /\ ~IsOpen(id) => sessions'[id] = sessions[id]]_vars
  BY <1>1
<1>3. QED
  BY <1>2, TypeCorrect, PTL DEF Spec, AuditTrailKept
-----------------------------------------------------------------------------
(* Refinement of DelegationLog.  A step that ends a session stops its      *)
(* vault's running in the abstract state only if no other session of the   *)
(* vault is open: that is OneOpen.  Fresh nonces are needed for the        *)
(* disputed vaults alone: a nonce used again would overwrite the disputed  *)
(* session, and the gateway would forget the vault it holds.               *)

Held == {v \in Vaults : \E id \in Ids(v) : IsOpen(id)}
InDispute == {v \in Vaults : \E id \in Ids(v) : sessions[id].status = "Disputed"}
Diary == [i \in DOMAIN events |-> <<events[i].vault, events[i].kind>>]

DiaryEntry ==
  Vaults \X {"SessionOpened", "SessionSettled", "SessionExpired", "SessionDisputed"}

OneOpen ==
  \A a, b \in DOMAIN sessions :
    IsOpen(a) /\ IsOpen(b) /\ sessions[a].vault = sessions[b].vault => a = b

OwnVault == \A id \in DOMAIN sessions : sessions[id].vault = id[1]

RInv == Typed /\ OneOpen /\ OwnVault

LEMMA InitRInv == Init => RInv
BY InitTyped DEF Init, RInv, OneOpen, OwnVault

LEMMA NextKeepsRInv == RInv /\ [Next]_vars => RInv'
<1> SUFFICES ASSUME RInv, [Next]_vars PROVE OneOpen' /\ OwnVault'
  BY NextKeepsTyped DEF RInv
<1>1. CASE \E v \in Vaults, program \in Programs \cup {NullProgram},
              slots \in 0 .. MaxPerSessionSlots + 1, nonce \in Nonces :
             OpenSession(v, program, slots, nonce)
  BY <1>1 DEF OpenSession, VaultFree, Ids, IsOpen, RInv, OneOpen, OwnVault
<1>2. CASE \E id \in SessionIds, v \in Vaults, program \in Programs, post \in Commitments,
              at \in Slots :
             Submit(id, v, program, post, at)
  BY <1>2 DEF Submit, IsOpen, RInv, OneOpen, OwnVault
<1>3. CASE \E p \in sent, publicInput \in PublicInputs : Settle(p, publicInput)
  <2>1. PICK p \in sent, publicInput \in PublicInputs : Settle(p, publicInput)
    BY <1>3
  <2>2. /\ DOMAIN sessions' = DOMAIN sessions
        /\ \A id \in DOMAIN sessions : id # p.session => sessions'[id] = sessions[id]
        /\ ~IsOpen(p.session)'
        /\ sessions'[p.session].vault = sessions[p.session].vault
    BY <2>1, VerdictKinds DEF Settle, Current, Conclude, IsOpen, RInv, Typed, TypeOK, Session
  <2>3. QED
    BY <2>2 DEF IsOpen, RInv, OneOpen, OwnVault
<1>4. CASE SweepStalled
  <2>1. /\ DOMAIN sessions' = DOMAIN sessions
        /\ \A id \in DOMAIN sessions : IsOpen(id)' => sessions'[id] = sessions[id]
        /\ \A id \in DOMAIN sessions : sessions'[id].vault = sessions[id].vault
    BY <1>4 DEF SweepStalled, IsOpen, IsExpired, RInv, Typed, TypeOK, Session
  <2>2. QED
    BY <2>1 DEF IsOpen, RInv, OneOpen, OwnVault
<1>5. CASE Tick
  BY <1>5 DEF Tick, IsOpen, RInv, OneOpen, OwnVault
<1>6. CASE UNCHANGED vars
  BY <1>6 DEF vars, IsOpen, RInv, OneOpen, OwnVault
<1>7. QED
  BY <1>1, <1>2, <1>3, <1>4, <1>5, <1>6 DEF Next

\* The diary keeps pace with the log, entry by entry.
LEMMA DiaryTyped ==
  ASSUME NEW log \in Seq(Event)
  PROVE  LET d == [i \in DOMAIN log |-> <<log[i].vault, log[i].kind>>]
         IN  /\ d \in Seq(DiaryEntry) /\ Len(d) = Len(log)
             /\ \A i \in 1 .. Len(log) : d[i] = <<log[i].vault, log[i].kind>>
<1> DEFINE n == Len(log)
<1>1. n \in Nat /\ DOMAIN log = 1 .. n
  OBVIOUS
<1>2. \A i \in 1 .. n : <<log[i].vault, log[i].kind>> \in DiaryEntry
  <2> SUFFICES ASSUME NEW i \in 1 .. n PROVE <<log[i].vault, log[i].kind>> \in DiaryEntry
    OBVIOUS
  <2>1. log[i] \in Event
    BY <1>1
  <2>2. QED
    BY <2>1 DEF DiaryEntry, Event
<1> HIDE DEF n
<1>3. [i \in 1 .. n |-> <<log[i].vault, log[i].kind>>] \in Seq(DiaryEntry)
  BY <1>1, <1>2
<1>4. QED
  BY <1>1, <1>3 DEF n

LEMMA DiaryOne ==
  ASSUME TypeOK, NEW e \in Event, events' = Append(events, e)
  PROVE  Diary' = Append(Diary, <<e.vault, e.kind>>)
<1>1. events \in Seq(Event) /\ events' \in Seq(Event)
  BY LogOne DEF TypeOK
<1>2. /\ Len(events) \in Nat /\ Len(events') = Len(events) + 1
      /\ \A i \in 1 .. Len(events) : events'[i] = events[i]
      /\ events'[Len(events) + 1] = e
  BY <1>1, AppendProperties
<1>3. /\ Diary \in Seq(DiaryEntry) /\ Len(Diary) = Len(events)
      /\ \A i \in 1 .. Len(events) : Diary[i] = <<events[i].vault, events[i].kind>>
  BY <1>1, DiaryTyped DEF Diary
<1>4. /\ Diary' \in Seq(DiaryEntry) /\ Len(Diary') = Len(events')
      /\ \A i \in 1 .. Len(events') : Diary'[i] = <<events'[i].vault, events'[i].kind>>
  BY <1>1, DiaryTyped DEF Diary
<1>5. <<e.vault, e.kind>> \in DiaryEntry
  BY DEF Event, DiaryEntry
<1> DEFINE longer == Append(Diary, <<e.vault, e.kind>>)
<1>6. /\ longer \in Seq(DiaryEntry) /\ Len(longer) = Len(Diary) + 1
      /\ \A i \in 1 .. Len(Diary) : longer[i] = Diary[i]
      /\ longer[Len(Diary) + 1] = <<e.vault, e.kind>>
  BY <1>3, <1>5, AppendProperties
<1> HIDE DEF longer
<1>7. ASSUME NEW i \in 1 .. Len(Diary') PROVE Diary'[i] = longer[i]
  <2>1. i \in 1 .. Len(events) \/ i = Len(events) + 1
    BY <1>2, <1>4
  <2>2. Diary'[i] = <<events'[i].vault, events'[i].kind>>
    BY <1>4
  <2>3. CASE i \in 1 .. Len(events)
    <3>1. events'[i] = events[i] /\ Diary[i] = <<events[i].vault, events[i].kind>>
      BY <1>2, <1>3, <2>3
    <3>2. longer[i] = Diary[i]
      BY <1>3, <1>6, <2>3
    <3>3. QED
      BY ONLY <2>2, <3>1, <3>2
  <2>4. CASE i = Len(events) + 1
    <3>1. events'[i] = e
      BY <1>2, <2>4
    <3>2. longer[i] = <<e.vault, e.kind>>
      BY <1>3, <1>6, <2>4
    <3>3. QED
      BY ONLY <2>2, <3>1, <3>2
  <2>5. QED
    BY <2>1, <2>3, <2>4
<1>8. Diary' = longer
  BY <1>2, <1>3, <1>4, <1>6, <1>7, SeqEqual
<1>9. QED
  BY <1>8 DEF longer

LEMMA InitRefines == Init => Log!Init
BY DEF Init, Log!Init, Ids

LEMMA OpenRefines ==
  ASSUME FreshNonces, RInv, NEW v \in Vaults, NEW program \in Programs \cup {NullProgram},
         NEW slots \in 0 .. MaxPerSessionSlots + 1, NEW nonce \in Nonces,
         OpenSession(v, program, slots, nonce)
  PROVE  Log!Delegate(v)
<1>1. v \notin Held
  BY DEF Held, OpenSession, VaultFree
<1>2. Held' = Held \cup {v}
  <2>1. /\ DOMAIN sessions' = DOMAIN sessions \cup {<<v, nonce>>}
        /\ \A x \in DOMAIN sessions : x # <<v, nonce>> => sessions'[x] = sessions[x]
        /\ sessions'[<<v, nonce>>].vault = v /\ sessions'[<<v, nonce>>].status = "Open"
    BY DEF OpenSession
  <2>2. \A x \in DOMAIN sessions : IsOpen(x) => x # <<v, nonce>>
    BY DEF OpenSession, VaultFree, Ids, IsOpen, RInv, OwnVault
  <2>3. QED
    BY <2>1, <2>2 DEF Held, Ids, IsOpen
<1>3. Diary' = Append(Diary, <<v, "SessionOpened">>)
  <2>1. Note("SessionOpened", v, <<v, nonce>>, now) \in Event
    BY DEF Note, Event, SessionIds, RInv, Typed, TypeOK
  <2>2. QED
    BY <2>1, DiaryOne DEF OpenSession, RInv, Typed, Note
<1>4. InDispute' = InDispute
  <2>1. /\ <<v, nonce>> \notin DOMAIN sessions
        /\ DOMAIN sessions' = DOMAIN sessions \cup {<<v, nonce>>}
        /\ \A x \in DOMAIN sessions : sessions'[x] = sessions[x]
        /\ sessions'[<<v, nonce>>].status = "Open"
    BY DEF OpenSession
  <2>2. QED
    BY <2>1 DEF InDispute, Ids
<1>5. QED
  BY <1>1, <1>2, <1>3, <1>4 DEF Log!Delegate, Held, InDispute, Diary

LEMMA SettleRefines ==
  ASSUME RInv, NEW p \in sent, NEW publicInput \in PublicInputs, Settle(p, publicInput)
  PROVE  Log!Next
<1> DEFINE verdict == Verdict(p, publicInput)
<1>1. verdict \in {"Disputed", "Expired", "Settled"}
  BY VerdictKinds DEF Settle
<1>2. /\ p \in Payload /\ p.session \in DOMAIN sessions /\ IsOpen(p.session)
      /\ p.vault = sessions[p.session].vault
  BY DEF Settle, Current, RInv, Typed, TypeOK
<1>3. Conclude(p, verdict)
  BY DEF Settle
<1> HIDE DEF verdict
<1>4. p.vault \in Held
  BY <1>2 DEF Held, Ids, Payload
<1>5. Held' = Held \ {p.vault}
  <2>1. /\ DOMAIN sessions' = DOMAIN sessions
        /\ \A id \in DOMAIN sessions : id # p.session => sessions'[id] = sessions[id]
        /\ ~IsOpen(p.session)'
    BY <1>1, <1>2, <1>3 DEF Conclude, IsOpen, RInv, Typed, TypeOK, Session
  <2>2. QED
    BY <1>2, <2>1 DEF Held, Ids, IsOpen, RInv, OneOpen
<1>6. Diary' = Append(Diary, <<p.vault, EventOf[verdict]>>)
  <2>1. Note(EventOf[verdict], p.vault, p.session, p.at) \in Event
    BY <1>1, <1>2 DEF Note, Event, EventOf, Payload
  <2>2. QED
    BY <1>3, <2>1, DiaryOne DEF Conclude, RInv, Typed, Note
<1>7. p.vault \in Vaults
  BY <1>2 DEF Payload
<1>8. /\ DOMAIN sessions' = DOMAIN sessions
      /\ \A id \in DOMAIN sessions : id # p.session => sessions'[id] = sessions[id]
      /\ sessions'[p.session].status = verdict
      /\ sessions'[p.session].vault = p.vault
      /\ sessions[p.session].status = "Open"
  BY <1>1, <1>2, <1>3 DEF Conclude, IsOpen, RInv, Typed, TypeOK, Session
<1>9. CASE verdict = "Disputed"
  <2>1. InDispute' = InDispute \cup {p.vault}
    BY <1>2, <1>7, <1>8, <1>9 DEF InDispute, Ids
  <2>2. EventOf[verdict] = "SessionDisputed"
    BY <1>9 DEF EventOf
  <2>3. Log!Dispute(p.vault)
    BY <1>4, <1>5, <1>6, <2>1, <2>2 DEF Log!Dispute, Held, InDispute, Diary
  <2>4. QED
    BY <1>7, <2>3 DEF Log!Next
<1>10. CASE verdict # "Disputed"
  <2>1. InDispute' = InDispute
    BY <1>2, <1>8, <1>10 DEF InDispute, Ids
  <2>2. PICK how \in {"SessionSettled", "SessionExpired"} : how = EventOf[verdict]
    BY <1>1, <1>10 DEF EventOf
  <2>3. Log!Return(p.vault, how)
    BY <1>4, <1>5, <1>6, <2>1, <2>2 DEF Log!Return, Held, InDispute, Diary
  <2>4. QED
    BY <1>7, <2>2, <2>3 DEF Log!Next
<1>11. QED
  BY <1>9, <1>10

\* The sweep ends sessions of as many vaults, each of them once.
LEMMA SweepRefines ==
  ASSUME IsFiniteSet(Vaults), RInv, SweepStalled
  PROVE  Log!Next
<1> DEFINE stalled == {id \in DOMAIN sessions : IsExpired(id)}
           n == Cardinality(stalled)
           Swept(order) == [i \in DOMAIN order |->
              Note("SessionExpired", sessions[order[i]].vault, order[i], now)]
<1>1. IsFiniteSet(stalled) /\ n \in Nat /\ n # 0
  BY FS_Subset, FS_CardinalityType, FS_EmptySet DEF RInv, Typed, SweepStalled
<1>2. PICK order \in [1 .. n -> stalled] :
        /\ \A i, j \in DOMAIN order : order[i] = order[j] => i = j
        /\ events' = events \o Swept(order)
  BY DEF SweepStalled
<1> DEFINE vaults == [i \in 1 .. n |-> sessions[order[i]].vault]
<1>3. /\ \A id \in stalled : id \in DOMAIN sessions /\ IsOpen(id) /\ sessions[id].vault \in Vaults
      /\ DOMAIN sessions' = DOMAIN sessions
      /\ \A id \in DOMAIN sessions \ stalled : sessions'[id] = sessions[id]
      /\ \A id \in stalled : sessions'[id].status = "Expired"
      /\ \A id \in stalled : sessions[id].status = "Open"
  BY DEF SweepStalled, IsExpired, IsOpen, RInv, Typed, TypeOK, Session
<1>4. InDispute' = InDispute
  BY <1>3 DEF InDispute, Ids
<1> HIDE DEF stalled, n
<1>5. order \in Surjection(1 .. n, stalled)
  <2>1. order \in Injection(1 .. n, stalled)
    BY <1>2 DEF Injection, IsInjective
  <2>2. Cardinality(1 .. n) = n /\ n = Cardinality(stalled)
    BY <1>1, FS_Interval DEF n
  <2>3. QED
    BY <1>1, <2>1, <2>2, FS_Injection
<1>6. vaults \in [1 .. n -> Vaults]
  BY <1>2, <1>3
<1>7. \A i, j \in 1 .. n : vaults[i] = vaults[j] => i = j
  BY <1>2, <1>3 DEF RInv, OneOpen
<1>8. n \in 1 .. Cardinality(Vaults)
  <2>1. vaults \in Injection(1 .. n, Vaults)
    BY <1>6, <1>7 DEF Injection, IsInjective
  <2>2. Cardinality(1 .. n) <= Cardinality(Vaults) /\ Cardinality(1 .. n) = n
    BY <1>1, <2>1, FS_Injection, FS_Interval
  <2>3. QED
    BY <1>1, <2>2, FS_CardinalityType
<1>9. \A i \in 1 .. n : vaults[i] \in Held
  BY <1>2, <1>3 DEF Held, Ids
<1>10. Held' = Held \ {vaults[i] : i \in 1 .. n}
  <2>1. \A id \in stalled : \E i \in 1 .. n : order[i] = id
    BY <1>5 DEF Surjection
  <2>2. ASSUME NEW v \in Held, v \notin {vaults[i] : i \in 1 .. n} PROVE v \in Held'
    <3>1. PICK id \in DOMAIN sessions : v = sessions[id].vault /\ IsOpen(id) /\ v \in Vaults
      BY <2>2 DEF Held, Ids
    <3>2. id \notin stalled
      BY <2>1, <2>2, <3>1
    <3>3. QED
      BY <1>3, <3>1, <3>2 DEF Held, Ids, IsOpen
  <2>3. ASSUME NEW v \in Held' PROVE v \in Held \ {vaults[i] : i \in 1 .. n}
    <3>1. PICK id \in DOMAIN sessions : v = sessions'[id].vault /\ IsOpen(id)' /\ v \in Vaults
      BY <1>3, <2>3 DEF Held, Ids
    <3>2. id \notin stalled /\ sessions'[id] = sessions[id]
      BY <1>3, <3>1 DEF IsOpen
    <3>3. v \in Held
      BY <3>1, <3>2 DEF Held, Ids, IsOpen
    <3>4. \A i \in 1 .. n : vaults[i] # v
      BY <1>2, <1>3, <3>1, <3>2 DEF RInv, OneOpen, IsOpen
    <3>5. QED
      BY <3>3, <3>4
  <2>4. QED
    BY <2>2, <2>3
<1>11. Diary' = Diary \o [i \in 1 .. n |-> <<vaults[i], "SessionExpired">>]
  <2> DEFINE swept == Swept(order)
             entries == [i \in 1 .. n |-> <<vaults[i], "SessionExpired">>]
             S == DiaryEntry
  <2>1. \A i \in 1 .. n : Note("SessionExpired", sessions[order[i]].vault, order[i], now) \in Event
    BY <1>2, <1>3 DEF Note, Event, RInv, Typed, TypeOK
  <2>2. DOMAIN order = 1 .. n
    BY <1>2
  <2>3. /\ swept \in Seq(Event) /\ Len(swept) = n
        /\ \A i \in 1 .. n : swept[i].vault = vaults[i] /\ swept[i].kind = "SessionExpired"
    BY <1>1, <2>1, <2>2 DEF Note
  <2>4. entries \in Seq(S) /\ Len(entries) = n
        /\ \A i \in 1 .. n : entries[i] = <<vaults[i], "SessionExpired">>
    <3>1. \A i \in 1 .. n : <<vaults[i], "SessionExpired">> \in S
      BY <1>6 DEF DiaryEntry
    <3>2. QED
      BY <1>1, <3>1
  <2>5. events \in Seq(Event) /\ events' = events \o swept
    BY <1>2 DEF RInv, Typed, TypeOK
  <2> HIDE DEF swept, entries, vaults, S
  <2>6. /\ events' \in Seq(Event) /\ Len(events') = Len(events) + n
        /\ \A i \in 1 .. Len(events) + n : events'[i] =
             IF i <= Len(events) THEN events[i] ELSE swept[i - Len(events)]
    BY <2>3, <2>5, ConcatProperties
  <2>7. /\ Diary \in Seq(S) /\ Len(Diary) = Len(events)
        /\ Diary' \in Seq(S) /\ Len(Diary') = Len(events')
        /\ \A i \in 1 .. Len(events) : Diary[i] = <<events[i].vault, events[i].kind>>
        /\ \A i \in 1 .. Len(events') : Diary'[i] = <<events'[i].vault, events'[i].kind>>
    BY <2>5, <2>6, DiaryTyped DEF Diary, S
  <2> DEFINE longer == Diary \o entries
  <2>8. /\ longer \in Seq(S) /\ Len(longer) = Len(Diary) + n
        /\ \A i \in 1 .. Len(Diary) + n : longer[i] =
             IF i <= Len(Diary) THEN Diary[i] ELSE entries[i - Len(Diary)]
    <3>1. /\ longer \in Seq(S) /\ Len(longer) = Len(Diary) + Len(entries)
          /\ \A i \in 1 .. Len(Diary) + Len(entries) : longer[i] =
               IF i <= Len(Diary) THEN Diary[i] ELSE entries[i - Len(Diary)]
      <4>1. Diary \in Seq(S) /\ entries \in Seq(S)
        BY <2>4, <2>7
      <4>2. QED
        BY ONLY <4>1, ConcatProperties
    <3> HIDE DEF longer
    <3>2. QED
      BY <2>4, <3>1
  <2> HIDE DEF longer
  <2>9. ASSUME NEW i \in 1 .. Len(Diary') PROVE Diary'[i] = longer[i]
    <3>1. Len(events) \in Nat /\ i \in 1 .. Len(events) + n
      BY <2>5, <2>6, <2>7
    <3>2. CASE i <= Len(events)
      <4>1. i \in 1 .. Len(events) /\ i \in 1 .. Len(Diary) + n
        BY <2>7, <3>1, <3>2
      <4>2. events'[i] = events[i] /\ longer[i] = Diary[i]
        BY <2>6, <2>7, <2>8, <3>1, <3>2, <4>1
      <4>3. QED
        BY <2>7, <4>1, <4>2
    <3>3. CASE i > Len(events)
      <4>1. i - Len(events) \in 1 .. n
        BY <1>1, <3>1, <3>3
      <4>2. events'[i] = swept[i - Len(events)]
        BY <2>6, <3>1, <3>3
      <4>3. Diary'[i] = <<vaults[i - Len(events)], "SessionExpired">>
        BY <2>3, <2>7, <4>1, <4>2
      <4>4. longer[i] = entries[i - Len(events)]
        BY <2>7, <2>8, <3>1, <3>3
      <4>5. QED
        BY <2>4, <4>1, <4>3, <4>4
    <3>4. QED
      BY <3>1, <3>2, <3>3
  <2>10. Diary' = longer
    BY <2>6, <2>7, <2>8, <2>9, SeqEqual
  <2>11. QED
    BY <2>10 DEF longer, entries
<1> HIDE DEF vaults
<1>12. DOMAIN vaults = 1 .. n
  BY <1>6
<1>13. PICK m \in 1 .. Cardinality(Vaults) : m = n
  BY <1>8
<1>14. PICK o \in [1 .. m -> Vaults] : o = vaults
  BY <1>6, <1>13
<1>15. Log!Reclaim(o)
  <2>1. DOMAIN o = 1 .. n
    BY <1>12, <1>14
  <2>2. /\ \A i, j \in DOMAIN o : o[i] = o[j] => i = j
        /\ \A i \in DOMAIN o : o[i] \in Held
    BY <1>7, <1>9, <1>14, <2>1
  <2>3. Held' = Held \ {o[i] : i \in DOMAIN o}
    BY <1>10, <1>14, <2>1
  <2>4. Diary' = Diary \o [i \in DOMAIN o |-> <<o[i], "SessionExpired">>]
    BY <1>11, <1>14, <2>1
  <2>5. QED
    BY <1>4, <2>2, <2>3, <2>4 DEF Log!Reclaim, Held, InDispute, Diary
<1>16. Log!Cardinality(Vaults) = Cardinality(Vaults)
  BY DEF Log!Cardinality, Cardinality
<1>17. QED
  BY <1>15, <1>16 DEF Log!Next

\* Over finitely many vaults, with fresh nonces, the gateway implements the
\* delegation log, in which a disputed session keeps its hold on the vault.
THEOREM GatewayImplementsLog ==
  ASSUME FreshNonces, IsFiniteSet(Vaults)
  PROVE  Spec => ImplementsLog
<1>1. RInv /\ [Next]_vars => [Log!Next]_(Log!vars)
  <2> SUFFICES ASSUME RInv, [Next]_vars PROVE Log!Next \/ UNCHANGED Log!vars
    OBVIOUS
  <2>1. CASE \E v \in Vaults, program \in Programs \cup {NullProgram},
                slots \in 0 .. MaxPerSessionSlots + 1, nonce \in Nonces :
               OpenSession(v, program, slots, nonce)
    BY <2>1, OpenRefines DEF Log!Next
  <2>2. CASE \E id \in SessionIds, v \in Vaults, program \in Programs, post \in Commitments,
                at \in Slots :
               Submit(id, v, program, post, at)
    BY <2>2 DEF Submit, Log!vars, Ids, IsOpen
  <2>3. CASE \E p \in sent, publicInput \in PublicInputs : Settle(p, publicInput)
    BY <2>3, SettleRefines
  <2>4. CASE SweepStalled
    BY <2>4, SweepRefines
  <2>5. CASE Tick
    BY <2>5 DEF Tick, Log!vars, Ids, IsOpen
  <2>6. CASE UNCHANGED vars
    BY <2>6 DEF vars, Log!vars, Ids, IsOpen
  <2>7. QED
    BY <2>1, <2>2, <2>3, <2>4, <2>5, <2>6 DEF Next
<1>2. QED
  BY InitRInv, NextKeepsRInv, InitRefines, <1>1, PTL DEF Spec, ImplementsLog, Log!Spec
=============================================================================
