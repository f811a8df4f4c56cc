-------------------------- MODULE ViewingKeyVault --------------------------
(***************************************************************************)
(* The web client's viewing-key vault (viewing-keys/vault.ts): one tab,    *)
(* its calls cut at their awaits, the IndexedDB store and the autolock     *)
(* timer.  A continuation runs before the next browser task, so the end of *)
(* a transaction and the code after its await are one step.                *)
(***************************************************************************)
EXTENDS Naturals, FiniteSets

CONSTANTS
  Keys,     \* viewing-key ids
  Secrets,  \* what deriveKey makes of a signature and a passphrase
  Calls,    \* calls of the vault that may be under way together
  None

ASSUME VaultKeysAssumption == None \notin Secrets /\ None \notin Keys

VARIABLES
  cryptoKey,  \* None when locked
  unlocked,   \* ids whose plaintext the in-memory map holds
  timer,      \* autolockTimer is pending
  attached,   \* a visibility handler has been attached
  stored,     \* IndexedDB: the secret an entry is encrypted with, None: absent
  call,       \* where each call is, and its locals
  disturbed   \* history: an unlock has overlapped another call, or failed

memory == <<cryptoKey, unlocked, timer, attached>>
vars == <<memory, stored, call, disturbed>>

Idle == [at |-> "idle"]
Unlocking(c) == call[c].at \in {"derive", "load", "decrypt"}
Quiet == \A c \in Calls : call[c] = Idle

\* A call enters; only an unlock replaces the map, so only it can be disturbed.
Enter(c, frame) ==
  /\ call[c] = Idle
  /\ call' = [call EXCEPT ![c] = frame]
  /\ disturbed' = \/ disturbed
                  \/ \E d \in Calls : Unlocking(d)
                  \/ frame.at = "derive" /\ ~Quiet
Leave(c) == call' = [call EXCEPT ![c] = Idle]

-----------------------------------------------------------------------------
(* unlockVault *)

Unlock(c, s) ==
  /\ Enter(c, [at |-> "derive", secret |-> s])
  /\ UNCHANGED <<memory, stored>>

\* deriveKey has answered: isUnlocked() is true from here on.
Derived(c) ==
  /\ call[c].at = "derive"
  /\ cryptoKey' = call[c].secret
  /\ call' = [call EXCEPT ![c] = [at |-> "load"]]
  /\ UNCHANGED <<unlocked, timer, attached, stored, disturbed>>

\* loadAll: nothing when the vault was locked meanwhile, else all the rows.
Load(c) ==
  /\ call[c].at = "load"
  /\ call' = [call EXCEPT ![c] = [at |-> "decrypt", rows |-> stored, out |-> {},
       left |-> IF cryptoKey = None THEN {} ELSE {k \in Keys : stored[k] # None}]]
  /\ UNCHANGED <<memory, stored, disturbed>>

\* Each decrypt reads the module's cryptoKey anew; a failure skips the row.
Decrypt(c, k) ==
  /\ call[c].at = "decrypt" /\ k \in call[c].left
  /\ call' = [call EXCEPT ![c].left = @ \ {k},
                          ![c].out = IF cryptoKey = call[c].rows[k] THEN @ \cup {k} ELSE @]
  /\ UNCHANGED <<memory, stored, disturbed>>

\* Loaded arming the timer only for a vault it finds unlocked.
LoadedTimingUnlocked(c) ==
  /\ call[c].at = "decrypt" /\ call[c].left = {}
  /\ unlocked' = call[c].out
  /\ timer' = (timer \/ cryptoKey # None)
  /\ attached' = TRUE
  /\ Leave(c)
  /\ UNCHANGED <<cryptoKey, stored, disturbed>>

\* The loaded map replaces whatever is there, and the timer starts.
Loaded(c) ==
  /\ call[c].at = "decrypt" /\ call[c].left = {}
  /\ unlocked' = call[c].out
  /\ timer' = TRUE
  /\ attached' = TRUE
  /\ Leave(c)
  /\ UNCHANGED <<cryptoKey, stored, disturbed>>

-----------------------------------------------------------------------------
(* addKey, removeKey, getPlaintext, lockVault *)

\* addKey checks the lock and hands the key to encrypt before its first await.
AddKey(c, k) ==
  /\ cryptoKey # None
  /\ Enter(c, [at |-> "put", key |-> k, secret |-> cryptoKey])
  /\ UNCHANGED <<memory, stored>>

\* The put has completed; nothing asks again whether the vault is locked.
Put(c) ==
  /\ call[c].at = "put"
  /\ stored' = [stored EXCEPT ![call[c].key] = call[c].secret]
  /\ unlocked' = unlocked \cup {call[c].key}
  /\ timer' = TRUE
  /\ Leave(c)
  /\ UNCHANGED <<cryptoKey, attached, disturbed>>

\* removeKey asks for no unlocked vault.
RemoveKey(c, k) ==
  /\ Enter(c, [at |-> "delete", key |-> k])
  /\ UNCHANGED <<memory, stored>>

\* Delete leaving the plaintext.
DeleteStoredOnly(c) ==
  /\ call[c].at = "delete"
  /\ stored' = [stored EXCEPT ![call[c].key] = None]
  /\ Leave(c)
  /\ UNCHANGED <<memory, disturbed>>

Delete(c) ==
  /\ call[c].at = "delete"
  /\ stored' = [stored EXCEPT ![call[c].key] = None]
  /\ unlocked' = unlocked \ {call[c].key}
  /\ Leave(c)
  /\ UNCHANGED <<cryptoKey, timer, attached, disturbed>>

\* WebCrypto or IndexedDB rejects: the rest of the call does not run, and an
\* unlock that has derived its key leaves it in place.
Fail(c) ==
  /\ call[c].at \in {"derive", "load", "put", "delete"}
  /\ disturbed' = (disturbed \/ call[c].at = "load")
  /\ Leave(c)
  /\ UNCHANGED <<memory, stored>>

GetPlaintext(k) ==
  /\ k \in unlocked
  /\ timer' = TRUE
  /\ UNCHANGED <<cryptoKey, unlocked, attached, stored, call, disturbed>>

LockVault ==
  /\ unlocked' = {} /\ cryptoKey' = None /\ timer' = FALSE
  /\ UNCHANGED <<attached, stored, call, disturbed>>

\* Ten minutes without a reset.
Autolock == timer /\ LockVault

\* The tab goes to the background: the handler restarts the timer, locked or not.
Hide ==
  /\ attached
  /\ timer' = TRUE
  /\ UNCHANGED <<cryptoKey, unlocked, attached, stored, call, disturbed>>

-----------------------------------------------------------------------------
Init ==
  /\ cryptoKey = None /\ unlocked = {} /\ timer = FALSE /\ attached = FALSE
  /\ stored \in [Keys -> Secrets \cup {None}]
  /\ call = [c \in Calls |-> Idle]
  /\ disturbed = FALSE

Step(c) ==
  \/ Derived(c) \/ Load(c) \/ Loaded(c) \/ Put(c) \/ Delete(c)
  \/ \E k \in Keys : Decrypt(c, k)

Next ==
  \/ \E c \in Calls, s \in Secrets : Unlock(c, s)
  \/ \E c \in Calls, k \in Keys : AddKey(c, k) \/ RemoveKey(c, k)
  \/ \E c \in Calls : Step(c) \/ Fail(c)
  \/ \E k \in Keys : GetPlaintext(k)
  \/ LockVault \/ Autolock \/ Hide

Spec == Init /\ [][Next]_vars

-----------------------------------------------------------------------------
(* Properties *)

Frames ==
  {Idle, [at |-> "load"]}
    \cup [at : {"derive"}, secret : Secrets]
    \cup [at : {"decrypt"}, rows : [Keys -> Secrets \cup {None}],
          out : SUBSET Keys, left : SUBSET Keys]
    \cup [at : {"put"}, key : Keys, secret : Secrets]
    \cup [at : {"delete"}, key : Keys]

\* Every variable has its type.
TypeOK ==
  /\ cryptoKey \in Secrets \cup {None}
  /\ unlocked \in SUBSET Keys
  /\ timer \in BOOLEAN /\ attached \in BOOLEAN /\ disturbed \in BOOLEAN
  /\ stored \in [Keys -> Secrets \cup {None}]
  /\ call \in [Calls -> Frames]

\* Wherever plaintext is in memory the autolock timer runs, also when a call
\* that was under way puts it there after a lock: what outlives a lock is
\* cleared by the next one (vault.ts:96-103, :129-131, :258-261).
PlaintextIsTimed == unlocked # {} => timer

\* With no call under way an unlocked vault offers the stored keys that its
\* secret opens, no fewer and none that was removed, whatever locks, wrong
\* passphrases, additions and removals went before.  Unlocks that overlap
\* other calls, or fail after deriving, break this (vault.ts:76-84, :105-138).
QuietIsComplete ==
  Quiet /\ cryptoKey # None /\ ~disturbed =>
    unlocked = {k \in Keys : stored[k] = cryptoKey}
=============================================================================
