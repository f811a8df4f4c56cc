# Atlas protocol: a TLA+ verification project

Atlas rebalances USDC vaults on Solana. An off-chain pipeline (Rust crates under
`crates/`) ingests market events, decides on an allocation, proves the decision in a
zkVM, archives it and submits a bundle. Small on-chain programs (`programs/`) hold the
vaults. Keepers act under mandates that a multisig issues, rollups execute private
sessions, and a registry tracks the models that are allowed to decide. A web application
(`web/`) shows what happens as it happens and keeps viewing keys, and a browser extension
(`sdk/extension/`) holds a page's wallet request until its user has decided.

This directory holds TLA+ modules for the stateful, concurrent and failure-prone parts of
that system, TLC configurations that check them on small instances, and TLAPS proofs about
them for every value of their constants. Run, from this directory,

    tlc -workers 2 -config MCIngest.cfg MCIngest      # a run
    tlapm BalanceProofs.tla                           # a proof

Paths below are relative to `src/`. `PROJECT.json` names, for every definition that models
code, the source lines it stands for.


## 1. Inventory

The parts of the system that keep state, what they do with it, and what is hard about them.

| Component | State | Operations | Interacts with |
|---|---|---|---|
| Keeper registry, `crates/atlas-operator-agent` (`mandate.rs`, `registry.rs`, `role.rs`) | one active mandate per keeper with usage counters, the log of revoked ones | issue, revoke, rotate, check, admit | the multisig calls it; keepers' actions are admitted by it |
| Pending-approval queue, same crate (`pending.rs`) | bundles and their state | enqueue, decide, mark_executed, sweep_stale | multisig decisions; the keeper registry for execution |
| Private-execution gateway, `crates/atlas-per` | sessions by id, event log | open_session, settle, sweep_stalled | rollups submit settlement payloads; the keeper opens and sweeps |
| Vault program, `programs/atlas-vault` | idle and deployed totals, shares, last rebalance slot | deposit, withdraw, record_rebalance | SPL token accounts; the rebalancer |
| Ingestion bus, `crates/atlas-bus` (`bus.rs`) | dedup ring, latest slot, two bounded channels, counters | inject by many tasks at once | sources inject; the pipeline receives |
| Reorder buffer, same crate (`reorder.rs`) | heap, next expected seq | insert | meant for the commitment channel's consumer |
| Source supervision, same crate (`quorum.rs`, `tier.rs`, `backpressure.rs`, `replay_buffer.rs`) | votes, source tiers, pressure level, retained events | vote, evaluate, observe, retain/rewind | not connected to the bus in this code |
| Archive gate, `crates/atlas-warehouse` (`write_path.rs`, `mock.rs`) | the rebalances table | archive_then_submit | pipeline writers; the bundle submitter |
| Bubblegum flusher, same crate (`flusher.rs`, `bubblegum.rs`) | two channels, pending leaves, batches, last flush slot | enqueue, process, publish, final flush | writers enqueue; an on-chain keeper receives |
| Model registry, `crates/atlas-registry` | a file of records and anchors | registryctl register, audit, approve, flag-drift, slash | operators run it, at the same time or not |
| Governance proposals, `crates/atlas-governance` | signatures of a proposal | sign, threshold, authorise | authorises registry transitions |
| Alert engine, `crates/atlas-alert` | maintenance windows, dedup table, open alerts | emit, resolve, auto-resolve | sinks that can fail |
| TWAP and bundle keeper, `crates/atlas-execution-routes`, `crates/atlas-bundle` | slices and landed bundle ids | tick, land, register | the bundle relays |
| Realtime transport, `web/lib/realtime` (`transport.ts`, part of `store.ts`) | one WebSocket, reference counts of topics, attempts, a reconnect timer | connect, close, subscribe, unsubscribe, socket callbacks | page components hold subscriptions; the stream server |
| Realtime store, same directory (`store.ts`, `background-tab.ts`, `lru.ts`) | dedup map, per-topic buffer and snapshot, parked events, counters | push an event, flush a frame, hide, resume | the transport pushes; the browser's frames and visibility |
| Viewing-key vault, `web/lib/viewing-keys/vault.ts` | the derived key, plaintexts in memory, rows in IndexedDB, the autolock timer | unlock, lock, add, remove, read a key | WebCrypto, IndexedDB, the tab's visibility |
| Browser extension, `sdk/extension` | allowlist in storage, overlay in a page, pending request in a side panel | intercept, forward, decide, edit the allowlist | content scripts, service worker and side panels exchange messages |
| Wallet sign-in, `web/lib/auth` | a mirror of the session's claims | sign in, sign out, boot | the wallet, the session routes |

The remaining parts (pipeline stages, public inputs, oracle and liquidity arithmetic, treasury
and payment policy, forensics, receipt trees, test harnesses, the pages and widgets of the two
front ends, the API clients) are pure functions, record types, stubs or rendering.
`PROJECT.json` lists each with the reason it is not modelled.

What makes each part correct, and what is hard about it:

* **Keeper registry.** A mandate is never used past its caps, its slot window or its scope,
  in any sequence of calls; revocation is final. Hard: rotation has two halves and the
  second can fail; the notional counter saturates.
* **Gateway.** A vault has at most one running session at a time; only the session's own rollup
  settles it; finished sessions stay as they were; a silent rollup does not keep
  the vault, unless somebody disputes its session. Hard: payloads that are late, repeated, meant
  for another session or dated at will race the sweep; a disputed session is left as it is.
* **Vault.** The counters are backed by the token accounts; nobody's shares are diluted; the last
  holder leaves nothing behind. Hard: integer division in both directions, a `u128` cast to
  `u64`, totals that anybody may report, tokens that move without the vault.
* **Bus and reorder buffer.** No event is lost without a counter, duplicates are kept apart,
  what is released is in sequence, and no source waits on the consumer. Hard: `inject`
  takes and drops two locks and then sends, so concurrent calls interleave at each step;
  redelivery meets both a ring that forgets and a heap that does not deduplicate.
* **Archive path.** Nothing reaches the chain that is not in the archive; each receipt is in
  one batch; writers and flusher do not wait on each other; shutdown flushes. Hard: rival writers and retries, two full channels, a
  receiver that goes away, receipts out of slot order.
* **Model registry.** The anchors replay to the statuses; an approved record has its summary,
  and no record an audit by its own trainer. Hard: load, change and save of a whole file without
  a lock.
* **Realtime transport.** The server sends what some component holds, there is one connection, and it
  comes back. Hard: closures of an object that was disposed of, a close event that comes late,
  subscriptions made while the socket is down, a server that goes away unnoticed.
* **Realtime store.** Every event is shown or counted, critical ones are never dropped, what is
  shown does not go back far. Hard: a hidden tab, a frame that is asked for and not given,
  replay past the checks, two dedup entries for one event.
* **Viewing-key vault.** No plaintext without a running timer; what is unlocked is what is stored.
  Hard: a lock while a call awaits, a decrypt that reads the key anew, overlapping calls.
* **Extension.** A page behind the overlay gets it removed; the list shown is the list used.
  Hard: messages reach only the contexts that exist, the same request comes twice, a
  decision goes to the tab that is active when it is made, a list is shown before it is stored.


## 2. Modules and how they compose

| Module | Models | Composed with |
|---|---|---|
| `KeeperRegistry` | `KeeperRegistry`, `KeeperMandate` | – |
| `PerGateway` | `PerGateway`, `ErSession`, `verify_settlement` | implements `DelegationLog` |
| `DelegationLog` | abstract: what the gateway promises | – |
| `AtlasVault` | the vault program | – |
| `AtlasBus` | `AtlasBus::inject`, its channels | `Ingest` |
| `ReorderBuffer` | `ReorderBuffer::insert` | `Ingest` |
| `Ingest` | tasks, bus, consumer, reorder buffer | – |
| `ModelStore` | records, transitions, anchors, as operators on a file's content | `RegistryCtl` |
| `RegistryCtl` | the `registryctl` commands of concurrent operators | – |
| `ArchiveGate` | `archive_then_submit`, `insert_rebalance` | `ArchivePath` |
| `BubblegumFlusher` | the flusher task and its anchor keeper | `ArchivePath` |
| `ArchivePath` | writers that archive, submit and hand receipts to the flusher | – |
| `RealtimeTransport` | `RealtimeTransport`, `initRealtime`, `disposeRealtime`, `subscribeTopic` | – |
| `RealtimeStore` | `pushEvent`, the frame flush, the background-tab gate, the dedup map | – |
| `ViewingKeyVault` | `vault.ts`, cut at its awaits | – |
| `AllowlistEditor` | the stored allowlist and the editors of several side panels | `Extension` |
| `Extension` | content script, service worker and side panel | – |
| `KeeperRegistryProofs`, `PerGatewayProofs`, `IngestProofs`, `ArchiveProofs`, `RegistryProofs`, `RealtimeTransportProofs` | proofs | extend the module they are about |
| `BalanceProofs` | proofs about the vault and the realtime store, which share the lemmas on sums | extends `AtlasVault` and `RealtimeStore` |
| `BrowserProofs` | proofs about the viewing-key vault and the extension | extends `ViewingKeyVault` and `Extension` |
| `MCKeeperRegistry`, `MCIngest`, `MCRegistryCtl`, `MCArchivePath`, `MCRealtimeStore`, `MCExtension` | small instances for TLC | – |

Definitions whose name extends another's (`OpenWithoutSubscriptions` before `Open`) are
plausible wrong versions of it. No specification uses them; each shows, put in the place of the right
one, that a property notices.

### KeeperRegistry

`active` is `KeeperRegistry::active` (keeper to mandate), `revoked` the log, `now` the slot,
`nextTx` the multisig transaction id. `ledger` is a history variable: what the mandate
issued by each transaction was really used for, kept apart from the counters the mandate
carries so that the counters can be checked against it. `Issue`, `Revoke` and `Rotate` are
the methods of those names; `Admit` is the keeper path, which looks the mandate up, compares
the role, runs `KeeperMandate::check` in its order and ratchets. `Rotate` keeps the revoked
half when `issue` fails, as the code does. The action bitset is a set.

`SatAdd` is `saturating_add`. `mandate.rs:156-157` says that the checks prevent saturation in
practice; they do unless the total cap is `u128::MAX`, in which case the counter stops at the
maximum while actions go on. `LimitsRespected` therefore says nothing of the sum under such
a cap, and one of the instance's mandates has it.

### PerGateway and DelegationLog

`sessions` is the map, `events` the log, `sent` the payloads submitted so far. A payload
stays in `sent` for ever and `Settle` may take any of them at any time, so delivery is
delayed, reordered and repeated at will. `Submit` lets any program name any vault, session and
slot: `submitted_at_slot` is a field of the payload, and no check compares it with the current
slot or with the opening of the session (`settlement.rs:97`). The
verdicts keep the code's order: not current (an error, no change), unauthorised (Disputed),
late (Expired), mismatch (an error, no change), settled. `sweep_stalled` expires every
stalled session at once and logs them in any order, as the order of hashed ids is.

Two things a reader of the code may trip over. `settlement.rs:68` says a rejected session is
left untouched, while an unauthorised or late payload sets Disputed or Expired. And at the
deadline slot both outcomes are possible: `settle` accepts a payload that names that slot,
the sweep already expires the session (`session.rs:96`). Neither breaks a property here.

A dispute ends nothing. `settlement.rs:90` leaves the session for the operators, `session.rs:17-26`
calls only settled and expired sessions undelegated, the sweep passes disputed ones by
(`gateway.rs:152`), and no code touches one again. Since `open_session` looks for an open session
only (`gateway.rs:83`), the vault can be delegated again beside it.

`open_session` inserts without looking for an old session of the same id (`gateway.rs:99`).
The id hashes vault and nonce, so a keeper that reuses a nonce overwrites a finished session.
The constant `FreshNonces` says that it does not; the run and two of the theorems assume it.

`DelegationLog` has no sessions: the vaults that have one running, the vaults that a disputed one
has not given back, and a log. A vault may be in both sets. The refinement reads them off the
statuses of the vault's sessions.

### AtlasVault

One action per instruction, over integers of width `U64Max`. `Cast` keeps the low bits, which
is what `as u64` does, and `Assets` saturates. Aborting instructions have no step.

`RecordRebalance` takes any two totals from any signer, as `lib.rs:162-178` and the accounts at
`lib.rs:282-288` do, and moves no token. So gains, losses and totals that were never there are all
included. The one assumption is on the environment (`Truthful`): a report that the rebalancer
itself signs claims no more idle tokens than the idle account holds. `attested` records that nobody
else has reported, and only the second half of `BooksBalance` is conditional on it.

The token program is external and works without the vault as well: `SendTokens` puts tokens in the
idle account, which the vault never counts, and `SendShares` and `BurnShares` move and destroy
shares behind its back. `burned` is what was destroyed so: those shares stay outstanding, and the part of the
assets they stand for stays in the vault.
No instruction sets `paused`. The names of the specification carry a prefix (`VaultSpec`,
`vaultVars`, as those of `Extension` do) because a proof module extends it beside another one. The
holders are a finite set: the sum of their shares has no meaning otherwise.

### AtlasBus, ReorderBuffer, Ingest

`call` holds where each task is inside `inject`: `Dedup` and `Reorder` are the two critical
sections, `TrySend` the non-blocking send, `Count` the increment after it. Between any two of
them every other task can run. `fresh` (what passed dedup) and `received` are history.

`ReorderBuffer` keeps the heap as a bag of sequence numbers; `Buffered` counts its `Entries`, a
number and which copy of it. Tasks and sequence numbers are finite sets, as the threads of a process
and the values of a `u64` are, and a commitment-bound event has one of those numbers
(`IngestAssumption`). The code has no loop that feeds the
buffer, so `Ingest` supplies the obvious one, receive then insert, and marks it external.
An event refused by a full channel stays in the dedup ring, so injecting it again is dropped
as a duplicate; `NothingLostSilently` counts the refusal.

### ModelStore and RegistryCtl

`db` is the file, `copy[o]` what operator `o`'s running command has loaded. Each command is a
load and a save with anything of the other operators between; the one that saves last wins, and
its file replaces the other's. `Fail` is a command that returns an error or is interrupted
before it writes; a half-written file is not modelled, since no command can load it.
Registering a model twice pushes a second record, which every lookup ignores. `StatusReplays` and
`AnchorsFormPath` speak of the places at which a model's anchors stand (`AnchoredAt`): the last of
them gives the status, and each starts from where the one before it ended.

`TerminalStands` is what a command by itself guarantees: a model that is deprecated or slashed in
the copy it loaded is so, with the audits it had, in the file it writes, whatever the file was in
between. The file itself gives no such guarantee: a command with a copy from before the decision
writes it back without it.

### ArchiveGate, BubblegumFlusher, ArchivePath

A writer inserts its row under the table lock, then submits, then enqueues its receipt; any
of the three can fail or be delayed while the rivals go on. `InsertFails` is every warehouse
error besides a collision. `Submit` may report an error though the bundle has landed, and is
therefore counted as submitted in both outcomes. The follow-up write that is meant to mark an
aborted row is a hit in `mock.rs:44-58` and changes nothing, so it has no action. Retention and the other tables' inserts are left out.

The flusher task alternates between waiting for a receipt and waiting for room in the anchor
channel. `StopListening` drops the anchor receiver at any time. The receipt of a rebalance is the row that
was archived for it (`ArchiveAssumption`).

### RealtimeTransport

`store.ts` creates a new `RealtimeTransport` whenever it has none, and the closures and callbacks of an
old one live on, so all variables of the class are functions on objects numbered as they are created.
`socket` is the object's field, `closing` a socket that `close()` has shut and whose `onclose` is
still to come: `HandleLateClose` may run at any later time. `server` is the other end: what
it sends, and whether it is there at all. `ServerGone` takes it away without the client noticing;
what the client sends in between is lost. `HandleClose` covers a failed attempt as well as a lost
connection.

Left out: the delay before a reconnect (its timer may fire at any time), acks, which no code
reads, and errors, since `onerror` does nothing that `onclose` does not.

### RealtimeStore

`PushEvent` is `pushEvent` as a whole, with its branches as disjuncts in the order of the code:
duplicate, parked, too late, buffered. Its dedup map is a sequence of keys, oldest first; a map
holds a key once, so `ToEnd` takes out the one place at which a key stands. `Reenter` is the loop that
gives each replayed event its second key. `docHidden`
is the document's state and `hidden` what the gate believes: the gate starts with `hidden = false`
whatever the document's state is, and learns only of changes (`ShowUnnoticed`). `Resume` is
the visibility handler with its replays. A replay uses its own dedup key and goes past the
reorder check and the backpressure. A frame comes only to a visible document. Stream callbacks run
inside the push and keep no state of the store; they are left out with the lag sample. `taken` counts
what a frame takes out of a buffer, of which only the latest is shown (`store.ts:79-82`). `passed`,
`taken`, `tooOld`, `replayed` and `recency` are history.

### ViewingKeyVault

Each call is cut at its awaits. The end of an IndexedDB transaction and the code after its await
are one step, because the browser runs the continuation before its next task. `Decrypt` is one row
and reads the module's `cryptoKey` anew, as `decryptBlob` does; a wrong key skips the row. `Fail` is a rejected
promise. A secret stands for what `deriveKey` makes of a signature and a passphrase, and
decrypting succeeds with the secret that encrypted. One tab: a second one shares the
database and not the memory, and is left out.

`disturbed` records that an unlock has overlapped another call, or failed after it had derived its
key. `unlockVault` replaces the whole map by what it loaded, so a key added meanwhile is missing
and a key removed meanwhile is back; `QuietIsComplete` speaks of all other behaviours, those with
a lock in the middle of an addition or removal included.

### AllowlistEditor and Extension

`chrome.runtime.sendMessage` reaches the contexts that exist when it is sent: `mail` counts what is
on its way to a panel, and `Broadcast` sends to open panels only. The content script's message
goes to the worker and to the panels, and the worker sends it on, so an open panel hears
of an intercept twice. `Answer` is the part of `decide` after `tabs.query`: the decision goes to the
window's active tab, whichever tab had asked, and whatever is pending by then is cleared. A second
click before the query answers is not modelled.

An editor loads the list once and writes its own copy back as a whole. `overlapped` records an edit
that was made before the list had loaded or while another window had an editor or a write under way
(`Alone`), and an editor that opened during a write: such edits lose updates.
An edit shows before its write has ended, and nothing catches the write or takes the edit back.
`WriteLost` is a write that fails, and `lost` records it until the editor writes or loads again.
`setAllowlist` also returns in silence where there is no store (`lib/storage.ts:44`): a page
where that is so for good has no list either, and is never held. A `getAllowlist` that
fails leaves its editor loading, and an `isAllowed` that fails lets the request pass (`CheckFails`).
The pre-sign box of an entry is written and never read (`content-overlay/index.ts:4` says that the
overlay is for origins with pre-sign enabled): the model keeps only that toggling it writes the
list.


## 3. Runs

The passing runs finish without error; the violation runs each find the one statement of the
repository they check violated.

| Run | Module, configuration | Distinct states | Shows |
|---|---|---|---|
| `keeper_registry` | `MCKeeperRegistry` | 837,163 | `LimitsRespected`, `RevocationIsFinal`, `OneHome`, `NeverEdited` |
| `per_gateway` | `PerGateway`, `MCPerGateway.cfg` | 495,307 | `SettledByItsRollup`, `ImplementsLog`, `AuditTrailKept`, `StalledAreReleased` |
| `vault` | `AtlasVault`, `MCAtlasVault.cfg` | 123,690 | `BooksBalance`, `NoDilution`, `NothingStranded` |
| `ingest` | `MCIngest` | 57,533 | `TypeOK`, `DedupSpacing`, `NothingLostSilently`, `ReleasedInOrder`, `HoldsOnlyBehindGap`, `InjectReturns` |
| `registryctl` | `MCRegistryCtl` | 63,885 | `StatusReplays`, `AnchorsFormPath`, `ApprovedIsComplete`, `TerminalStands` |
| `archive_path` | `MCArchivePath` | 34,568 | `TypeOK`, `SubmittedIsArchived`, `EachLeafOnce`, `BatchesCoverLeaves`, `SlotThresholdKept`, `FullChannelDrains`, `AllAnchoredAtEnd` |
| `realtime_transport` | `RealtimeTransport`, `MCRealtimeTransport.cfg` | 15,452 | `ServerAgrees`, `OneConnection`, `Reconnects` |
| `realtime_store` | `MCRealtimeStore` | 302,189 | `DedupWindow`, `EventsAccounted`, `CriticalKept`, `BackByTolerance`, `BufferedIsShown` |
| `viewing_keys` | `ViewingKeyVault`, `MCViewingKeyVault.cfg` | 219,510 | `PlaintextIsTimed`, `QuietIsComplete` |
| `extension` | `MCExtension` | 445,694 | `ListShownIsStored`, `AttendedIsReleased` |
| `commitment_order` | `MCIngest`, `MCCommitmentOrder.cfg` | violation | `ChannelWithinWindow` |
| `holding_overlay` | `MCExtension`, `MCHoldingOverlay.cfg` | violation | `OverlayIsReleased` |

Some type invariants are left to the proof, which establishes them for every instance.

### Where code and text disagree

Shown by a run:

* **Out of the window.** `bus.rs:22` bounds how far out of order the commitment channel
  may be; it speaks of events, `bus.rs:182-183` and the check count slots, and so does the
  property. The lock is dropped before the send (`bus.rs:195`), so a task that has passed
  the check can be overtaken.
* **An overlay nobody can answer.** `content-overlay/index.ts:76` tells the user to open the side
  panel to approve. A panel that opens after the intercept has not heard of it and nothing
  tells it (`sidepanel/main.tsx:15`), so the page stays behind the overlay until it is reloaded, or
  until it asks again and that is decided. With the panel
  open from the start `AttendedIsReleased` holds.

Seen while modelling, and part of the models; no run is kept for them:

* **A list that is not the list.** `AllowlistEditor.tsx:50` says that Atlas inspects only on the
  origins listed. When the write of a removal fails, the editor has dropped the origin already
  (`:33`), and its pages are still held.
* **A late settlement.** `settlement.rs:9` has the verifier compare the current slot with the session's
  deadline. The code compares the slot that the payload names (`settlement.rs:97`), so a payload that comes
  after the deadline settles the session unless a sweep has been there first.
* **A direct report.** `lib.rs:160-161` says that `record_rebalance` cannot be called directly. The
  account is any signer (`lib.rs:287`), so the idle counter can be set to what is not there.
* **A slashing undone.** `ops/runbooks/model-approval.md:126` calls the transition final. A
  command that loaded the file before writes it back afterwards (`registryctl.rs:161`), without the slashing and
  without its anchor.
* **A failed rotation revokes.** `registry.rs:94` calls `rotate` atomic. When the
  replacement's keeper already holds a mandate, the prior one is revoked and nothing is
  installed (`registry.rs:104`).
* **A truncated mint.** `lib.rs:54` promises shares in proportion to net asset value. After
  losses large enough that the quotient exceeds 64 bits, the cast at `lib.rs:84` drops the
  high bits and the depositor gets too few.
* **A wedged reorder buffer.** `reorder.rs:4-5` promises release once the gap is filled. A
  second copy of a held seq stops the drain for good (`reorder.rs:109`). It takes an event
  that left the dedup window while still held. Without a second copy, `HoldsOnlyBehindGap`
  holds.
* **A lost audit entry.** The audit of a draft moves the record to Audited without the entry
  (`registryctl.rs:276`), against `record.rs:108`.
* **An idle flusher.** `flusher.rs:3-5` flushes after a number of slots or leaves. Slots are
  looked at only when a receipt arrives (`flusher.rs:92`).
* **A late plaintext.** `vault.ts:10-11` says that the plaintexts are dropped on lock. A call that was under
  way puts its own in after the lock (`vault.ts:72-84`, `:129-131`). The timer it starts clears it;
  `PlaintextIsTimed` says that there is one. It runs for ten minutes from the last access, as each
  access starts it again.

Smaller ones, seen while reading and not checked: the 3D scene supervisor asks for long frames over a
sustained time (`supervisor.ts:96-97`), and the time it measures from survives an unmount; `webhook.rs:85` gives an order of
checks in which the rate limit is last, and the code applies it before dedup; a warm source
that `tier.rs` promotes keeps its old `last_event_slot` and may be demoted at the next
evaluation; the alert engine records an alert as sent before the sink has taken it
(`engine.rs:163`).

### Bounds and why they are enough

* *keeper_registry*: two keepers, two roles, four mandate terms (narrower than the role, one
  that starts later, one with the saturating total, one wider than its role), three multisig
  transactions, slots 0 to 2, `u128::MAX` = 3. Three transactions cover issue, rotate onto
  the other keeper, and a third that meets the result. Usage caps of two or three are reached
  and exceeded by attempts within the slots.
* *per_gateway*: two vaults with two nonces each and three logged events, so a vault can be
  opened, ended and opened again while the first payload is still under way; two payloads;
  two programs; a payload names any of the slots. Deadlines are one slot away, and slots stop at 2,
  so a settlement can come after the deadline. `MaxEvents` bounds openings
  only: a session that is open can always end.
* *vault*: two users, two signers, three-bit integers, at most five units deposited, any totals
  reported twice, a cooldown of one slot. It is
  small enough for full enumeration and large enough for every rounding case, a total loss, a
  gain, totals that saturate, and an overflow of the quotient.
* *ingest*: two tasks, three commitment-bound events, one of them far ahead, a monitoring
  event, four calls, a dedup window of two, channels of two and one. Ring eviction, a full channel,
  a refused old event and a gap all happen.
* *registryctl*: two operators, one model, two keys, five entries in the file (a record and
  four anchors or audits). One model suffices as no command reads another's record. Symmetry
  over operators and keys is sound: they are compared only for equality, and the properties
  name none of them.
* *archive_path*: two writers, two rival rows of one vault and slot and a row three slots on,
  five calls, one-place channels, thresholds of three leaves or three slots. Both
  thresholds fire, both channels fill, and the receiver may leave at any point.
* *realtime_transport*: two objects, so that the closures and callbacks of the first meet the second;
  two topics and three holders, so that a count reaches two and another holder waits on the other topic;
  a pill after two failed attempts, with the count stopping there.
* *realtime_store*: one default topic with slots that are one and two apart at a tolerance of one, one
  critical topic, buffers of one and a dedup map of two, so that backpressure and
  eviction happen at the second and third event; four events that pass dedup.
* *viewing_keys*: two keys, two secrets, two calls under way together, any content of the database at
  the start. Nothing counts, so nothing is cut off.
* *extension*: one window with two tabs of one origin, two requests and two edits: a request of each tab, or two of one, and
  an edit while the first is under way. The editors of two windows meet only over the
  list, which `overlapped` sets aside. `holding_overlay` needs one request and no edit.

Deadlock checking is off wherever bounds on calls, slots, requests and transactions stop the
instance; it is on for `viewing_keys`. The liveness properties say what must not stop.

### Fairness

* `per_gateway`: slots pass (`WF(Tick)`) and the keeper keeps sweeping (`WF(SweepStalled)`),
  as `session.rs:4` describes. Nothing is assumed of rollups or of who else submits. A session
  that was disputed by another program's payload is the exception that `StalledAreReleased` names:
  nothing in the code gives its vault back.
* `ingest`: a task inside `inject` is polled again when it can go on. Nothing is assumed
  of the consumer: that is what `InjectReturns` is about.
* `archive_path`: the runtime polls the flusher and the writers, and the on-chain keeper takes
  its anchors while it listens. A receiver that is kept and never read again is excluded: it would
  block the flusher and, once the receipt channel is full, the writers. Shutdown is not assumed to happen; the property starts from it.
* `realtime_transport`: the timer fires, the browser reports a failed attempt or a connection whose
  server has gone, and the network does not fail every attempt for ever: `SF(Open)`, strong because
  an attempt may fail any number of times before one opens.
* `realtime_store`: a visible document gets its frames. No property there needs it.
* `extension`: the browser delivers messages and answers queries, and the user opens the panel, returns to the
  view that asks and decides. `SF(Decide)` is strong because the user may look at the
  allowlist in between, again and again.


## 4. Proofs

Eight modules, 7,792 obligations, no step left without proof. The theorems hold for every value of
the constants that satisfies the named assumptions (`BoundsAssumption`, `GatewayAssumption`, ...),
which TLC evaluates on the instances. Every invariant and every action property that a passing run
checks is the statement of a theorem; those of `AuditTrailKept` and `ImplementsLog` assume, as their run
does, that nonces are fresh.

**KeeperRegistryProofs.** `LimitsRespected` compares the ledger with the terms, but the code
only looks at the counters; it is inductive only with the facts that the counters of an
active mandate are the truth (`ActiveSound`), that a mandate is in one place (`OneHome`), that a
transaction id is never used again (`IdsSpent`), and that nothing is dated in the future
(`NoFuture`). `IInv` is their conjunction with `TypeOK`, `LimitsRespected` and
`RevocationIsFinal`; one lemma per action shows that it is preserved. From it follow
`MandateLimits`, `RevocationFinal`, `MandateHome`, `TypeCorrect` and the action property
`NoInPlaceEdit`.

**PerGatewayProofs.** `TypeCorrect` needs the session map to stay finite, as the sweep's log
entries are counted. `OwnRollupSettles` (`SettledByItsRollup`) needs that a settled session names
one of the payloads that were submitted; it assumes nothing of the slots that payloads name, and no fresh nonces.
`EndedSessionsStay` proves `AuditTrailKept` for fresh nonces.
`GatewayImplementsLog` is the refinement: every step of the gateway is a `Delegate`, a `Return`, a
`Dispute`, a `Reclaim` or a stutter of `DelegationLog`. Ending one session stops the vault's running only because a
vault has no second open session (`OneOpen`), which holds since an id names its vault
(`OwnVault`); the sweep's order of sessions is an injection, hence an order of vaults that covers
all of them. A disputed session keeps its hold because nothing replaces it, which takes fresh
nonces. It assumes finitely many vaults.

**IngestProofs.** A step of `inject` ends the call or moves it on, with what it takes along (`Ends`,
`Accepts`, `Advances`, `Commits`, `Monitors`); the proofs argue about these shapes instead of the
actions.

* `WindowKeepsRepeatsApart`: `DedupSpacing` compares places in the history of what passed, the code
  looks at its ring. `RingIsRecent` says that the ring is the end of that history.
* `NoEventVanishes`: `Accounted` adds, over the tasks, how many are at which step of the call;
  a step moves one task from one count to the next, or out of the call into a counter.
* `StreamIsContiguous`: the drain of the heap releases consecutive numbers (`Draining`), and `Traced`
  says that whatever is with a task, in the channel, in the heap or released has passed the bus.
* `NothingWaitsForNothing`: if no number passed twice, each is in one place (`OneEach`): with one
  task, once in the channel, in the heap, or released. Hence no late copy can stop the drain, which
  is how a buffer gets wedged (section 3).
* `NothingOverflows` (`TypeOK`) is the type invariant with the bounds of the ring, both channels and the
  heap.

**BalanceProofs, the vault.** `BooksFit` says that every counter fits its word and that the idle
account covers the idle counter until a stranger reports. The cap on deposits keeps a total that
grows from saturating (`DepositFits`), a mint is at most the quotient, whatever the cast cuts off, and
floor division gives `DilutionFree`. Burning all shares pays exactly the assets as the program reads them,
which gives `LastShareTakesAll` where they do not saturate. The cast errs only against the depositor, so
`NoDilution` is provable although a mint can be less than the proportional share.
`SharesAreHeld` (`BooksBalance`) adds that the shares are the sum of what their holders have and of
what was burned (`Held`). That the library's fold over any finite set is a
sum, whatever order it takes the elements in, comes first: there is a table of the
sums over all subsets (`TableExists`, by the smallest subset without one), any two agree
(`TablesAgree`), and adding to one entry adds to the sum (`SumWithOneMore`).
`VaultTypes` is the type invariant.

**BalanceProofs, the store.** `CriticalReachesAFrame` needs that no critical event is ever parked
(`CriticalNotParked`). `FramesGoBackByTolerance` needs `BufferedInTime`: what waits in a buffer,
replays aside, passed the check against the snapshot that is still shown, since only a flush changes
both. `FramesShowWhatWaited` uses that a frame takes an entry of the highest slot, which exists
because the slots of a buffer are natural numbers (`FirstLargest`). `TotalsAddUp`
(`EventsAccounted`) uses the sums again, over the topics: a push changes one term on each side,
a flush moves all buffers into what was taken (`SumOfSums`), and a return to the tab adds
one entry for each parked topic (`SumCounts`). `RepeatsAreCaught` (`DedupWindow`): the map
is the end of the line of all keys as last seen, which has no repetition (`Windowed`). Seeing a
key keeps this so, in three cases: the map holds the key, the key had left the map and makes room
by its own going, or it is new (`SeenAgain`). `Reenter` is a recursion of
any length, for which a table exists (`ReenterExists`) that carries `Windowed` along (`ReenterKeeps`).
`StoreTypes` is the type invariant.

**ArchiveProofs.** `ArchivedBeforeSubmit`: what has been submitted is in the archive. The
invariant adds that a writer that has passed the insert has its row in the archive already,
which holds because an insert never changes or removes a row. For the flusher:

* `BuffersStayBounded` (`TypeOK`): the pending batch stays below the leaf threshold and the hard
  limit.
* `SlotsStayBelowThreshold`: `SlotThresholdKept` speaks of the flusher at its receive; inductive
  is that with nothing pending while it publishes (`InTime`).
* `BatchesAreSentInOrder` (`BatchesCoverLeaves`): what was taken, what is in the channel and
  the batch about to be sent are all batches in order (`InLine`); that a batch has a smallest and a
  largest slot to cover with is `SomeIsExtreme`.
* `EveryReceiptInOneBatch` (`EachLeafOnce`): the leaves of all batches, then the pending ones, then
  the inbox are what was enqueued (`OnTheWay`). It needs what flattening does to one more batch
  (`FlattenAppends`), by tables of prefixes.

**RegistryProofs.** A command saves what it loaded at some earlier time, so the invariant says the
same of the file and of every copy in memory (`Good`); one lemma per transition shows that it keeps a
good file good. `FileIsComplete` (`ApprovedIsComplete`), `AnchorsReplay` (`StatusReplays`) and
`AnchorsArePath` (`AnchorsFormPath`) are parts of it, for any number of operators, models and keys. The
two about anchors are proved together, with the fact that a model with an anchor has left Draft
(`Moved`): a new anchor starts at the record's status, which is where the last one ended.
`TerminalStatusStands` (`TerminalStands`): a save puts back what was loaded before, or what one
transition made of it; no transition leaves a terminal status, and audits are only added to. `FilesTyped` is the type invariant.

**RealtimeTransportProofs.** `SingleConnection` needs to know of every object but the current one that
its status is "closed" already, so that its late close event tells nobody anything, and that a
socket whose close event is due belongs to no current object (`Retired`). `CountsAreExact` shows
that a reference count is the number of closures held, by adding or removing one element of a
finite set at each step; with `Counted`, which says what the server sends by those counts, it gives
`ServerSendsWhatIsHeld`.

**BrowserProofs, the viewing-key vault.** `AutolockCovers`: plaintext is in memory only while the timer runs.
`UnlockedIsComplete` needs to say, for a vault not yet disturbed, what each call under way holds:
an unlock is the only call there is (`UnlocksAlone`), a key being put was encrypted with the secret the
vault has unless it was locked since (`PutsForSecret`), and what an unlock has decrypted is what
its secret opens of the rows it has tried, which are still the stored ones (`DecryptsRows`). Then the
map is complete whenever no unlock is replacing it (`MapComplete`). `VaultTypes` is the type invariant.

**BrowserProofs, the extension.** `EditorsShowTheList` (`ListShownIsStored`): a list on its way to
storage is that of the only editor there is, and of one that has loaded (`WritesAlone`). So the write
of one window cannot change the list under another's editor, and an answer that comes late does not
replace what was edited. When the last of the writes has ended, either it has reached storage or `lost` says
that it has not. The messages, overlays and decisions touch neither (`OthersKeep`).

Most inductions are over data: subsets, prefixes, positions. The library's induction theorems cannot be
used (they take an operator), so each looks at the smallest counterexample, a number
(`SmallestNumber`) or a subset (`SmallestSubset`), which the library's theorems on well-founded
relations provide.

Only model-checked:

* the liveness properties, `StalledAreReleased`, `InjectReturns`, `FullChannelDrains`, `AllAnchoredAtEnd`, `Reconnects`
  and `AttendedIsReleased`: they rest on fairness and ENABLED, which the prover does not reason about.


## 5. What is left

In order of importance.

1. Abstract specifications of the bus (a lossy bag of events with counters) and of the archive path
   (a set that only grows), with the refinements proved as the gateway's is.
2. The pending-approval queue with `KeeperRegistry`: an approved bundle is executed under a
   mandate that is valid at that time, and once; `mark_executed` does not look at the window
   again (`pending.rs:189`).
3. Governance proposals with `ModelStore`: a proposal that reaches its threshold after the
   record has moved on (`proposal.rs:120`).
4. Source supervision: quorum votes, tier failover, backpressure and the replay buffer with
   failing and recovering sources.
5. The alert engine with a sink that fails between the dedup entry and the dispatch
   (`engine.rs:163`), and TWAP slices with the idempotency guard, which registers a bundle after it
   has landed (`twap.rs:124`).

Hazards seen in modelled code that no property covers: a settlement at the deadline slot races
the sweep (`session.rs:96`); an event refused by a full channel cannot be injected again
(`bus.rs:172`); a vault with shares and no assets cannot be deposited into (`lib.rs:83`); a crash
while `registryctl` rewrites its file (`registryctl.rs:161`); the follow-up write for an aborted
submission changes nothing (`write_path.rs:41`); a crash forgets the pending leaves
(`bubblegum.rs:184`). For each of them the code makes no promise that a property could state.


## 6. Not modelled

`PROJECT.json` lists every component with its status. In short: pipeline stages, hashing and
fixed-point arithmetic are pure functions better served by unit tests; the rebalancer and
registry programs are stubs in this version; adapters return at once; SQL, row types
and metrics hold no control; most of the TypeScript is pages, widgets, shaders and constant data,
which render what the modelled clients hold; sign-in is a mirror of a session that the server keeps
in a cookie; the SDKs and the API are typed wrappers over HTTP. The proof system and the SPL token
program, the browser, IndexedDB and WebCrypto are external, modelled by what this code sees of
them. Hashes are taken as collision free, so ids are the values they are computed from. Crash and
restart appear only where something outlives them (an interrupted `registryctl`, a reloaded page); the
flusher's pending leaves, the bus and the gateway live in memory and the repository has no path that
restores them.
