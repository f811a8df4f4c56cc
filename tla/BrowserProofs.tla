--------------------------- MODULE BrowserProofs ----------------------------
(***************************************************************************)
(* Proofs about what runs in the user's browser: the web client's          *)
(* viewing-key vault, for every set of keys, secrets and calls under way   *)
(* together, and the extension's allowlist, for any windows, tabs and      *)
(* origins.  The two share no state.                                       *)
(***************************************************************************)
EXTENDS ViewingKeyVault, Extension, SequenceTheorems, TLAPS

-----------------------------------------------------------------------------
(* The viewing-key vault *)

\* The keys that a secret opens.
Opened(s) == {k \in Keys : stored[k] = s}

\* A call past deriveKey: the map is behind the secret until it ends.
Replacing(c) == call[c].at \in {"load", "decrypt"}

\* An unlock that is not disturbed is the only call there is.
UnlocksAlone ==
  \A c, d \in Calls : Unlocking(c) /\ call[d].at # "idle" => d = c

\* A key is encrypted with the secret the vault had, and still has unless it
\* was locked: a new secret takes an unlock, which would not be alone.
PutsForSecret ==
  \A c \in Calls : call[c].at = "put" => cryptoKey \in {None, call[c].secret}

\* What an unlock has decrypted so far is what its secret opens of the rows it
\* has tried, and the rows are what is stored.
DecryptsRows ==
  \A c \in Calls : call[c].at = "decrypt" /\ cryptoKey # None =>
    /\ call[c].rows = stored
    /\ call[c].out = Opened(cryptoKey) \ call[c].left

\* Unless an unlock is replacing it, the map holds what the secret opens.
MapComplete ==
  cryptoKey # None /\ (\A c \in Calls : ~Replacing(c)) => unlocked = Opened(cryptoKey)

\* QuietIsComplete speaks of no call under way; what makes it inductive is what
\* each call holds in its locals meanwhile.
Sound == UnlocksAlone /\ PutsForSecret /\ DecryptsRows /\ MapComplete
IInv == TypeOK /\ (~disturbed => Sound)

-----------------------------------------------------------------------------
(* Type correctness *)

LEMMA FrameShapes ==
  ASSUME TypeOK, NEW c \in Calls
  PROVE  /\ call[c].at \in {"idle", "derive", "load", "decrypt", "put", "delete"}
         /\ call[c].at = "idle" <=> call[c] = Idle
         /\ call[c].at = "derive" => call[c].secret \in Secrets
         /\ call[c].at = "decrypt" =>
              call[c] \in [at : {"decrypt"}, rows : [Keys -> Secrets \cup {None}],
                           out : SUBSET Keys, left : SUBSET Keys]
         /\ call[c].at = "put" => call[c].key \in Keys /\ call[c].secret \in Secrets
         /\ call[c].at = "delete" => call[c].key \in Keys
<1>1. call[c] \in Frames
  BY DEF TypeOK
<1>2. QED
  BY <1>1 DEF Frames, Idle

LEMMA NewFrame ==
  ASSUME TypeOK, NEW c \in Calls, NEW f \in Frames, call' = [call EXCEPT ![c] = f]
  PROVE  /\ call' \in [Calls -> Frames]
         /\ call'[c] = f
         /\ \A d \in Calls : d # c => call'[d] = call[d]
BY DEF TypeOK

LEMMA InitTypeOK == Init => TypeOK
BY DEF Init, TypeOK, Frames, Idle

LEMMA StepTypeOK == TypeOK /\ [Next]_vars => TypeOK'
<1> SUFFICES ASSUME TypeOK, [Next]_vars PROVE TypeOK'
  OBVIOUS
<1>1. ASSUME NEW c \in Calls, NEW s \in Secrets, Unlock(c, s) PROVE TypeOK'
  <2>1. [at |-> "derive", secret |-> s] \in Frames
    BY DEF Frames
  <2>2. QED
    BY <1>1, <2>1, NewFrame DEF Unlock, Enter, memory, TypeOK
<1>2. ASSUME NEW c \in Calls, NEW k \in Keys, AddKey(c, k) PROVE TypeOK'
  <2>1. [at |-> "put", key |-> k, secret |-> cryptoKey] \in Frames
    BY <1>2 DEF AddKey, TypeOK, Frames
  <2>2. QED
    BY <1>2, <2>1, NewFrame DEF AddKey, Enter, memory, TypeOK
<1>3. ASSUME NEW c \in Calls, NEW k \in Keys, RemoveKey(c, k) PROVE TypeOK'
  <2>1. [at |-> "delete", key |-> k] \in Frames
    BY DEF Frames
  <2>2. QED
    BY <1>3, <2>1, NewFrame DEF RemoveKey, Enter, memory, TypeOK
<1>4. ASSUME NEW c \in Calls, Derived(c) PROVE TypeOK'
  <2>1. [at |-> "load"] \in Frames /\ call[c].secret \in Secrets
    BY <1>4, FrameShapes DEF Frames, Derived
  <2>2. QED
    BY <1>4, <2>1, NewFrame DEF Derived, TypeOK
<1>5. ASSUME NEW c \in Calls, Load(c) PROVE TypeOK'
  <2> DEFINE f == [at |-> "decrypt", rows |-> stored, out |-> {},
       left |-> IF cryptoKey = None THEN {} ELSE {k \in Keys : stored[k] # None}]
  <2>1. f \in Frames
    BY DEF TypeOK, Frames
  <2>2. call' = [call EXCEPT ![c] = f]
    BY <1>5 DEF Load
  <2>3. QED
    BY <1>5, <2>1, <2>2, NewFrame DEF Load, memory, TypeOK
<1>6. ASSUME NEW c \in Calls, NEW k \in Keys, Decrypt(c, k) PROVE TypeOK'
  <2> DEFINE f == [call[c] EXCEPT !.left = @ \ {k},
                     !.out = IF cryptoKey = call[c].rows[k] THEN @ \cup {k} ELSE @]
  <2>1. f \in Frames
    BY <1>6, FrameShapes DEF Decrypt, Frames
  <2>2. call' = [call EXCEPT ![c] = f]
    BY <1>6 DEF Decrypt, TypeOK
  <2>3. QED
    BY <1>6, <2>1, <2>2, NewFrame DEF Decrypt, memory, TypeOK
<1>7. ASSUME NEW c \in Calls, Loaded(c) \/ Put(c) \/ Delete(c) \/ Fail(c) PROVE TypeOK'
  <2>1. Idle \in Frames
    BY DEF Frames
  <2>2. call' \in [Calls -> Frames]
    BY <1>7, <2>1, NewFrame DEF Loaded, Put, Delete, Fail, Leave
  <2>3. CASE Loaded(c)
    BY <2>2, <2>3, FrameShapes DEF Loaded, TypeOK
  <2>4. CASE Put(c)
    BY <2>2, <2>4, FrameShapes DEF Put, TypeOK
  <2>5. CASE Delete(c)
    BY <2>2, <2>5, FrameShapes DEF Delete, TypeOK
  <2>6. CASE Fail(c)
    BY <2>2, <2>6 DEF Fail, memory, TypeOK
  <2>7. QED
    BY <1>7, <2>3, <2>4, <2>5, <2>6
<1>8. ASSUME (\E k \in Keys : GetPlaintext(k)) \/ LockVault \/ Autolock \/ Hide PROVE TypeOK'
  BY <1>8 DEF GetPlaintext, LockVault, Autolock, Hide, TypeOK
<1>9. CASE UNCHANGED vars
  BY <1>9 DEF vars, memory, TypeOK
<1>10. QED
  BY <1>1, <1>2, <1>3, <1>4, <1>5, <1>6, <1>7, <1>8, <1>9 DEF Next, Step

\* Every variable of the vault keeps its type, whatever calls overlap.
THEOREM VaultTypes == Spec => []TypeOK
BY InitTypeOK, StepTypeOK, PTL DEF Spec

-----------------------------------------------------------------------------
(* The autolock timer *)

LEMMA StepTimed == PlaintextIsTimed /\ [Next]_vars => PlaintextIsTimed'
<1> SUFFICES ASSUME PlaintextIsTimed, [Next]_vars PROVE PlaintextIsTimed'
  OBVIOUS
<1>1. ASSUME NEW c \in Calls,
             \/ \E s \in Secrets : Unlock(c, s)
             \/ \E k \in Keys : AddKey(c, k) \/ RemoveKey(c, k) \/ Decrypt(c, k)
             \/ Derived(c) \/ Load(c) \/ Fail(c)
      PROVE  PlaintextIsTimed'
  BY <1>1 DEF Unlock, AddKey, RemoveKey, Decrypt, Derived, Load, Fail, memory, PlaintextIsTimed
<1>2. ASSUME NEW c \in Calls, Loaded(c) \/ Put(c) \/ Delete(c) PROVE PlaintextIsTimed'
  BY <1>2 DEF Loaded, Put, Delete, PlaintextIsTimed
<1>3. ASSUME (\E k \in Keys : GetPlaintext(k)) \/ LockVault \/ Autolock \/ Hide
      PROVE  PlaintextIsTimed'
  BY <1>3 DEF GetPlaintext, LockVault, Autolock, Hide, PlaintextIsTimed
<1>4. CASE UNCHANGED vars
  BY <1>4 DEF vars, memory, PlaintextIsTimed
<1>5. QED
  BY <1>1, <1>2, <1>3, <1>4 DEF Next, Step

\* Plaintext is never in memory without the autolock timer, for any calls and
\* any overlap of them (vault.ts:96-103, :129-131, :258-261).
THEOREM AutolockCovers == Spec => []PlaintextIsTimed
<1>1. Init => PlaintextIsTimed
  BY DEF Init, PlaintextIsTimed
<1>2. QED
  BY <1>1, StepTimed, PTL DEF Spec

-----------------------------------------------------------------------------
(* What an unlocked vault offers *)

LEMMA InitSound == Init => IInv
<1> SUFFICES ASSUME Init PROVE IInv
  OBVIOUS
<1>1. TypeOK /\ \A c \in Calls : call[c] = Idle
  BY InitTypeOK DEF Init
<1>2. QED
  BY <1>1 DEF IInv, Sound, UnlocksAlone, PutsForSecret, DecryptsRows, MapComplete,
     Unlocking, Idle, Init

LEMMA QuietSuffices == IInv => QuietIsComplete
<1> SUFFICES ASSUME IInv, Quiet, cryptoKey # None, ~disturbed
             PROVE  unlocked = Opened(cryptoKey)
  BY DEF QuietIsComplete, Opened
<1>1. \A c \in Calls : ~Replacing(c)
  BY DEF Quiet, Replacing, Idle
<1>2. QED
  BY <1>1 DEF IInv, Sound, MapComplete

\* Entering a call that is not an unlock: no unlock is under way.
LEMMA EnterKeeps ==
  ASSUME IInv, NEW c \in Calls, NEW f \in Frames, Enter(c, f), ~disturbed',
         UNCHANGED <<memory, stored>>,
         f.at \in {"derive", "put", "delete"},
         f.at = "put" => cryptoKey = f.secret
  PROVE  Sound'
<1>1. ~disturbed /\ Sound /\ TypeOK
  BY DEF Enter, IInv
<1>2. /\ call'[c] = f /\ \A d \in Calls : d # c => call'[d] = call[d]
      /\ \A d \in Calls : ~Unlocking(d)
      /\ f.at = "derive" => Quiet
  BY <1>1, NewFrame DEF Enter
<1>3. \A d \in Calls : call[d].at \notin {"derive", "load", "decrypt"}
  BY <1>2 DEF Unlocking
<1>4. UnlocksAlone'
  <2>1. CASE f.at = "derive"
    BY <1>2, <1>3, <2>1 DEF UnlocksAlone, Unlocking, Quiet, Idle
  <2>2. CASE f.at # "derive"
    BY <1>2, <1>3, <2>2 DEF UnlocksAlone, Unlocking
  <2>3. QED
    BY <2>1, <2>2
<1>5. PutsForSecret'
  BY <1>1, <1>2 DEF Sound, PutsForSecret, memory
<1>6. DecryptsRows'
  BY <1>2, <1>3 DEF DecryptsRows
<1>7. MapComplete'
  BY <1>1, <1>2, <1>3 DEF Sound, MapComplete, Replacing, Opened, memory
<1>8. QED
  BY <1>4, <1>5, <1>6, <1>7 DEF Sound

\* A call enters, with the secret that the vault has.
LEMMA EnterCalls ==
  ASSUME IInv, NEW c \in Calls, ~disturbed',
         \/ \E s \in Secrets : Unlock(c, s)
         \/ \E k \in Keys : AddKey(c, k) \/ RemoveKey(c, k)
  PROVE  Sound'
<1>0. TypeOK
  BY DEF IInv
<1>1. ASSUME NEW s \in Secrets, Unlock(c, s) PROVE Sound'
  <2>1. [at |-> "derive", secret |-> s] \in Frames
    BY DEF Frames
  <2>2. QED
    BY <1>1, <2>1, EnterKeeps DEF Unlock
<1>2. ASSUME NEW k \in Keys, AddKey(c, k) PROVE Sound'
  <2>1. [at |-> "put", key |-> k, secret |-> cryptoKey] \in Frames
    BY <1>0, <1>2 DEF AddKey, TypeOK, Frames
  <2>2. QED
    BY <1>2, <2>1, EnterKeeps DEF AddKey
<1>3. ASSUME NEW k \in Keys, RemoveKey(c, k) PROVE Sound'
  <2>1. [at |-> "delete", key |-> k] \in Frames
    BY DEF Frames
  <2>2. QED
    BY <1>3, <2>1, EnterKeeps DEF RemoveKey
<1>4. QED
  BY <1>1, <1>2, <1>3

\* The steps of an unlock, which is the only call.
LEMMA UnlockSteps ==
  ASSUME IInv, Sound, NEW c \in Calls,
         Derived(c) \/ Load(c) \/ (\E k \in Keys : Decrypt(c, k)) \/ Loaded(c)
  PROVE  Sound'
<1>0. TypeOK /\ Unlocking(c)
  BY DEF IInv, Derived, Load, Decrypt, Loaded, Unlocking
<1>1. \A d \in Calls : d # c => call[d].at = "idle"
  BY <1>0 DEF Sound, UnlocksAlone
<1>2. CASE Derived(c)
  <2>1. call'[c] = [at |-> "load"] /\ \A d \in Calls : d # c => call'[d] = call[d]
    BY <1>0, <1>2 DEF Derived, TypeOK
  <2>2. \A d \in Calls : d # c => call'[d].at = "idle"
    BY <1>1, <2>1
  <2>3. QED
    BY <2>1, <2>2 DEF Sound, UnlocksAlone, PutsForSecret, DecryptsRows, MapComplete,
       Replacing, Unlocking
<1>3. CASE Load(c)
  <2> DEFINE left == IF cryptoKey = None THEN {} ELSE {k \in Keys : stored[k] # None}
  <2>1. /\ call'[c] = [at |-> "decrypt", rows |-> stored, out |-> {}, left |-> left]
        /\ \A d \in Calls : d # c => call'[d] = call[d]
    BY <1>0, <1>3 DEF Load, TypeOK
  <2>2. \A d \in Calls : d # c => call'[d].at = "idle"
    BY <1>1, <2>1
  <2>3. UNCHANGED <<cryptoKey, stored, unlocked>>
    BY <1>3 DEF Load, memory
  <2>4. cryptoKey # None => {} = Opened(cryptoKey) \ left
    BY DEF Opened
  <2>5. DecryptsRows'
    BY <2>1, <2>2, <2>3, <2>4 DEF DecryptsRows, Opened
  <2>6. QED
    BY <2>1, <2>2, <2>5 DEF Sound, UnlocksAlone, PutsForSecret, MapComplete,
       Replacing, Unlocking
<1>4. ASSUME NEW k \in Keys, Decrypt(c, k) PROVE Sound'
  <2>1. /\ call[c].at = "decrypt" /\ k \in call[c].left
        /\ call[c] \in [at : {"decrypt"}, rows : [Keys -> Secrets \cup {None}],
                          out : SUBSET Keys, left : SUBSET Keys]
    BY <1>0, <1>4, FrameShapes DEF Decrypt
  <2>2. /\ call'[c] = [call[c] EXCEPT !.left = @ \ {k},
                         !.out = IF cryptoKey = call[c].rows[k] THEN @ \cup {k} ELSE @]
        /\ \A d \in Calls : d # c => call'[d] = call[d]
    BY <1>0, <1>4 DEF Decrypt, TypeOK
  <2>3. /\ call'[c].at = "decrypt" /\ call'[c].rows = call[c].rows
        /\ call'[c].left = call[c].left \ {k}
        /\ call'[c].out = IF cryptoKey = call[c].rows[k] THEN call[c].out \cup {k}
                          ELSE call[c].out
    BY <2>1, <2>2
  <2>4. \A d \in Calls : d # c => call'[d].at = "idle"
    BY <1>1, <2>2
  <2>5. UNCHANGED <<cryptoKey, stored, unlocked>>
    BY <1>4 DEF Decrypt, memory
  <2>6. ASSUME cryptoKey # None
        PROVE  call[c].rows = stored /\ call'[c].out = Opened(cryptoKey) \ call'[c].left
    <3>1. call[c].rows = stored /\ call[c].out = Opened(cryptoKey) \ call[c].left
      BY <2>1, <2>6 DEF Sound, DecryptsRows
    <3>2. QED
      BY <2>1, <2>3, <3>1 DEF Opened
  <2>7. DecryptsRows'
    BY <2>3, <2>4, <2>5, <2>6 DEF DecryptsRows, Opened
  <2>8. QED
    BY <2>3, <2>4, <2>7 DEF Sound, UnlocksAlone, PutsForSecret, MapComplete,
       Replacing, Unlocking
<1>5. CASE Loaded(c)
  <2>1. \A d \in Calls : call'[d].at = "idle"
    BY <1>0, <1>1, <1>5 DEF Loaded, Leave, TypeOK, Idle
  <2>2. UNCHANGED <<cryptoKey, stored>> /\ unlocked' = call[c].out
    BY <1>5 DEF Loaded
  <2>3. cryptoKey # None => call[c].out = Opened(cryptoKey)
    BY <1>5 DEF Loaded, Sound, DecryptsRows
  <2>4. QED
    BY <2>1, <2>2, <2>3 DEF Sound, UnlocksAlone, PutsForSecret, DecryptsRows, MapComplete,
       Unlocking, Opened
<1>6. QED
  BY <1>2, <1>3, <1>4, <1>5

\* An addition or a removal ends, or a call fails.
LEMMA EndSteps ==
  ASSUME IInv, Sound, ~disturbed', NEW c \in Calls, Put(c) \/ Delete(c) \/ Fail(c)
  PROVE  Sound'
<1>0. TypeOK /\ call[c].at # "idle"
  BY DEF IInv, Put, Delete, Fail
<1>1. /\ call'[c].at = "idle" /\ \A d \in Calls : d # c => call'[d] = call[d]
      /\ cryptoKey' = cryptoKey
  BY <1>0 DEF Put, Delete, Fail, Leave, memory, TypeOK, Idle
<1>2. UnlocksAlone'
  BY <1>1 DEF Sound, UnlocksAlone, Unlocking
<1>3. PutsForSecret'
  BY <1>1 DEF Sound, PutsForSecret
<1>4. CASE Fail(c)
  <2>1. UNCHANGED <<stored, unlocked>> /\ call[c].at \in {"derive", "put", "delete"}
    BY <1>4 DEF Fail, memory
  <2>2. DecryptsRows'
    BY <1>1, <2>1 DEF Sound, DecryptsRows, Opened
  <2>3. MapComplete'
    BY <1>1, <2>1 DEF Sound, MapComplete, Replacing, Opened
  <2>4. QED
    BY <1>2, <1>3, <2>2, <2>3 DEF Sound
<1>5. CASE Put(c) \/ Delete(c)
  <2>1. \A d \in Calls : ~Unlocking(d)
    BY <1>0, <1>5 DEF Sound, UnlocksAlone, Put, Delete, Unlocking
  <2>2. \A d \in Calls : call'[d].at \notin {"load", "decrypt"} /\ ~Replacing(d)
    BY <1>1, <2>1 DEF Unlocking, Replacing
  <2>3. DecryptsRows'
    BY <2>2 DEF DecryptsRows
  <2>4. cryptoKey # None => unlocked = Opened(cryptoKey)
    BY <2>2 DEF Sound, MapComplete
  <2>5. CASE Put(c)
    <3>1. call[c].key \in Keys /\ cryptoKey \in {None, call[c].secret}
      BY <1>0, <2>5, FrameShapes DEF Put, Sound, PutsForSecret
    <3>2. cryptoKey' # None => unlocked' = Opened(cryptoKey)'
      BY <1>0, <1>1, <2>4, <2>5, <3>1 DEF Put, Opened, TypeOK
    <3>3. QED
      BY <1>2, <1>3, <2>3, <3>2 DEF Sound, MapComplete
  <2>6. CASE Delete(c)
    <3>1. call[c].key \in Keys
      BY <1>0, <2>6, FrameShapes DEF Delete
    <3>2. cryptoKey' # None => unlocked' = Opened(cryptoKey)'
      BY <1>0, <1>1, <2>4, <2>6, <3>1 DEF Delete, Opened, TypeOK
    <3>3. QED
      BY <1>2, <1>3, <2>3, <3>2 DEF Sound, MapComplete
  <2>7. QED
    BY <1>5, <2>5, <2>6
<1>6. QED
  BY <1>4, <1>5

\* Steps between the calls: a lock, or a touch of the timer.
LEMMA MemorySteps ==
  ASSUME IInv, Sound, UNCHANGED <<stored, call>>,
         UNCHANGED <<cryptoKey, unlocked>> \/ LockVault
  PROVE  Sound'
<1>1. CASE UNCHANGED <<cryptoKey, unlocked>>
  BY <1>1 DEF Sound, UnlocksAlone, PutsForSecret, DecryptsRows, MapComplete, Unlocking,
     Replacing, Opened
<1>2. CASE LockVault
  BY <1>2 DEF LockVault, Sound, UnlocksAlone, PutsForSecret, DecryptsRows, MapComplete,
     Unlocking
<1>3. QED
  BY <1>1, <1>2

LEMMA StepSound == IInv /\ [Next]_vars => IInv'
<1> SUFFICES ASSUME IInv, [Next]_vars, ~disturbed' PROVE Sound'
  BY StepTypeOK DEF IInv
<1>1. ~disturbed /\ Sound
  <2>1. disturbed => disturbed'
    BY DEF IInv, TypeOK, Next, Step, Unlock, AddKey, RemoveKey, Enter, Derived, Load,
       Decrypt, Loaded, Put, Delete, Fail, GetPlaintext, LockVault, Autolock, Hide, vars
  <2>2. QED
    BY <2>1 DEF IInv
<1>2. ASSUME NEW c \in Calls,
             (\E s \in Secrets : Unlock(c, s)) \/ (\E k \in Keys : AddKey(c, k) \/ RemoveKey(c, k))
      PROVE  Sound'
  BY <1>2, EnterCalls
<1>3. ASSUME NEW c \in Calls, Step(c) \/ Fail(c) PROVE Sound'
  BY <1>1, <1>3, UnlockSteps, EndSteps DEF Step
<1>4. CASE (\E k \in Keys : GetPlaintext(k)) \/ LockVault \/ Autolock \/ Hide
  <2>1. UNCHANGED <<stored, call>> /\ (UNCHANGED <<cryptoKey, unlocked>> \/ LockVault)
    BY <1>4 DEF GetPlaintext, LockVault, Autolock, Hide
  <2>2. QED
    BY <1>1, <2>1, MemorySteps
<1>5. CASE UNCHANGED vars
  BY <1>1, <1>5, MemorySteps DEF vars, memory
<1>6. QED
  BY <1>2, <1>3, <1>4, <1>5 DEF Next

\* With no call under way an unlocked vault offers exactly the stored keys its
\* secret opens, for any number of keys, secrets and calls (vault.ts:61-130).
THEOREM UnlockedIsComplete == Spec => []QuietIsComplete
<1>1. Spec => []IInv
  BY InitSound, StepSound, PTL DEF Spec
<1>2. QED
  BY <1>1, QuietSuffices, PTL
-----------------------------------------------------------------------------
(* The allowlist and its editors *)

EditorTyped ==
  /\ allowlist \in SUBSET Origins
  /\ editor \in [Windows -> {"none", "loading", "ready"}]
  /\ list \in [Windows -> SUBSET Origins]
  /\ writes \in [Windows -> Seq(SUBSET Origins)]
  /\ lost \in [Windows -> BOOLEAN]
  /\ overlapped \in BOOLEAN

\* What an editor shows is the last list it sent, or the one in storage unless
\* its last write failed.
Latest(w) == writes[w][Len(writes[w])]
Shows(w) ==
  editor[w] = "ready" =>
    /\ writes[w] # <<>> => list[w] = Latest(w)
    /\ writes[w] = <<>> /\ ~lost[w] => list[w] = allowlist

\* A list on its way is that of the only editor, and of one that has loaded.
WritesAlone(w) ==
  writes[w] # <<>> => editor[w] # "loading" /\ Alone(w)

\* ListShownIsStored is not inductive alone: the write of one window would
\* change what another shows.
EditorInv ==
  EditorTyped /\ (~overlapped => \A w \in Windows : Shows(w) /\ WritesAlone(w))

LEMMA MountKeeps ==
  ASSUME EditorInv, NEW w \in Windows, Mount(w)
  PROVE  EditorInv'
<1>1. EditorTyped'
  BY DEF EditorInv, EditorTyped, Mount, Writing
<1>2. ASSUME ~overlapped', NEW v \in Windows PROVE Shows(v)' /\ WritesAlone(v)'
  <2>1. ~overlapped /\ writes[v] = <<>> /\ Shows(v)
    BY <1>2 DEF Mount, Writing, EditorInv, EditorTyped
  <2>2. editor'[v] = "ready" => v # w /\ editor[v] = "ready" /\ list'[v] = list[v]
    BY DEF Mount, EditorInv, EditorTyped
  <2>3. writes' = writes /\ allowlist' = allowlist /\ lost' = lost
    BY DEF Mount
  <2>4. QED
    BY <2>1, <2>2, <2>3 DEF Shows, WritesAlone, Alone, Latest
<1>3. QED
  BY <1>1, <1>2 DEF EditorInv

LEMMA ListLoadedKeeps ==
  ASSUME EditorInv, NEW w \in Windows, ListLoaded(w)
  PROVE  EditorInv'
<1>1. EditorTyped'
  BY DEF EditorInv, EditorTyped, ListLoaded
<1>2. ASSUME ~overlapped', NEW v \in Windows PROVE Shows(v)' /\ WritesAlone(v)'
  <2>1. ~overlapped /\ Shows(v) /\ \A u \in Windows : WritesAlone(u)
    BY <1>2 DEF ListLoaded, EditorInv
  <2>2. writes' = writes /\ allowlist' = allowlist /\ editor[w] = "loading"
    BY DEF ListLoaded
  <2>3. \A u \in Windows : writes[u] = <<>>
    BY <2>1, <2>2 DEF WritesAlone, Alone
  <2>4. /\ v = w => list'[v] = allowlist
        /\ v # w => list'[v] = list[v] /\ editor'[v] = editor[v] /\ lost'[v] = lost[v]
    BY DEF ListLoaded, EditorInv, EditorTyped
  <2>5. QED
    BY <2>1, <2>2, <2>3, <2>4 DEF Shows, WritesAlone, Alone, Latest
<1>3. QED
  BY <1>1, <1>2 DEF EditorInv

LEMMA UnmountKeeps ==
  ASSUME EditorInv, NEW w \in Windows, Unmount(w),
         UNCHANGED <<allowlist, list, writes, edits, overlapped>>
  PROVE  EditorInv'
<1>1. EditorTyped'
  BY DEF EditorInv, EditorTyped, Unmount
<1>2. /\ \A v \in Windows : editor'[v] = IF v = w THEN "none" ELSE editor[v]
      /\ \A v \in Windows : v # w => lost'[v] = lost[v]
  BY DEF EditorInv, EditorTyped, Unmount
<1>3. ASSUME ~overlapped, NEW v \in Windows PROVE Shows(v)' /\ WritesAlone(v)'
  BY <1>2, <1>3 DEF EditorInv, Shows, WritesAlone, Alone, Latest
<1>4. QED
  BY <1>1, <1>3 DEF EditorInv

LEMMA EditKeeps ==
  ASSUME EditorInv, NEW w \in Windows, NEW o \in Origins, Edit(w, o)
  PROVE  EditorInv'
<1>0. overlapped' = (overlapped \/ editor[w] = "loading" \/ ~Alone(w))
  BY DEF Edit
<1>1. PICK next \in Edited(list[w], o) :
        /\ list' = [list EXCEPT ![w] = next]
        /\ writes' = [writes EXCEPT ![w] = Append(@, next)]
  BY DEF Edit
<1>2. list[w] \in SUBSET Origins /\ writes[w] \in Seq(SUBSET Origins)
  BY DEF EditorInv, EditorTyped
<1>3. next \in SUBSET Origins
  BY <1>2 DEF Edited
<1>4. /\ Append(writes[w], next) \in Seq(SUBSET Origins)
      /\ Len(Append(writes[w], next)) = Len(writes[w]) + 1
      /\ Append(writes[w], next)[Len(writes[w]) + 1] = next
      /\ Append(writes[w], next) # <<>>
  BY <1>2, <1>3, AppendProperties
<1>5. EditorTyped'
  <2>1. overlapped' \in BOOLEAN
    BY <1>0
  <2>2. UNCHANGED <<editor, allowlist, lost>>
    BY DEF Edit
  <2>3. QED
    BY <1>1, <1>3, <1>4, <2>1, <2>2 DEF EditorInv, EditorTyped
<1>6. ASSUME ~overlapped', NEW v \in Windows PROVE Shows(v)' /\ WritesAlone(v)'
  <2>1. /\ ~overlapped /\ editor[w] = "ready" /\ UNCHANGED <<editor, allowlist>>
        /\ \A u \in Windows \ {w} : editor[u] = "none" /\ writes[u] = <<>>
    <3>1. ~(overlapped \/ editor[w] = "loading" \/ ~Alone(w))
      BY <1>0, <1>6
    <3>2. editor[w] # "none" /\ UNCHANGED <<editor, allowlist>>
      BY DEF Edit
    <3>3. QED
      BY <3>1, <3>2 DEF EditorInv, EditorTyped, Alone
  <2>2. /\ list'[w] = next /\ writes'[w] = Append(writes[w], next)
        /\ \A u \in Windows \ {w} : writes'[u] = writes[u]
    BY <1>1 DEF EditorInv, EditorTyped
  <2>3. CASE v = w
    BY <1>4, <2>1, <2>2, <2>3 DEF Shows, WritesAlone, Alone, Latest
  <2>4. CASE v # w
    BY <2>1, <2>2, <2>4 DEF Shows, WritesAlone, Alone
  <2>5. QED
    BY <2>3, <2>4
<1>7. QED
  BY <1>5, <1>6 DEF EditorInv

\* The end of a line stays when its head goes, unless it was the head.
LEMMA LastStays ==
  ASSUME NEW S, NEW q \in Seq(S), q # <<>>
  PROVE  q[Len(q)] = IF Tail(q) = <<>> THEN Head(q) ELSE Tail(q)[Len(Tail(q))]
<1>1. /\ Head(q) = q[1] /\ Tail(q) \in Seq(S) /\ Len(q) \in Nat \ {0}
      /\ Len(Tail(q)) = Len(q) - 1
      /\ \A i \in 1 .. Len(Tail(q)) : Tail(q)[i] = q[i + 1]
  BY HeadTailProperties, LenProperties, EmptySeq
<1>2. PICK n \in Nat : n = Len(Tail(q)) /\ n + 1 = Len(q) /\ (n # 0 => n \in 1 .. n)
  <2>1. PICK m \in Nat \ {0} : m = Len(q)
    BY <1>1
  <2>2. PICK n \in Nat : n = m - 1 /\ n + 1 = m /\ (n # 0 => n \in 1 .. n)
    OBVIOUS
  <2>3. Len(Tail(q)) = n
    BY <1>1, <2>1, <2>2
  <2>4. QED
    BY <2>1, <2>2, <2>3
<1>3. CASE Tail(q) = <<>>
  <2>1. n = 0
    BY <1>2, <1>3, EmptySeq
  <2>2. QED
    BY <1>1, <1>2, <1>3, <2>1
<1>4. CASE Tail(q) # <<>>
  <2>1. n # 0
    BY <1>1, <1>2, <1>4, EmptySeq
  <2>2. Tail(q)[n] = q[n + 1]
    BY <1>1, <1>2, <2>1
  <2>3. QED
    BY <1>2, <1>4, <2>2
<1>5. QED
  BY <1>3, <1>4

\* A write ends, stored or lost.
LEMMA WrittenKeeps ==
  ASSUME EditorInv, NEW w \in Windows, Written(w) \/ WriteLost(w)
  PROVE  EditorInv'
<1>1. writes[w] \in Seq(SUBSET Origins) /\ writes[w] # <<>>
  BY DEF EditorInv, EditorTyped, Written, WriteLost
<1>2. Head(writes[w]) \in SUBSET Origins /\ Tail(writes[w]) \in Seq(SUBSET Origins)
  BY <1>1, HeadTailProperties
<1>3. EditorTyped'
  BY <1>2 DEF EditorInv, EditorTyped, Written, WriteLost
<1>4. ASSUME ~overlapped', NEW v \in Windows PROVE Shows(v)' /\ WritesAlone(v)'
  <2>1. ~overlapped /\ UNCHANGED <<editor, list>> /\ \A u \in Windows : Shows(u) /\ WritesAlone(u)
    BY <1>4 DEF Written, WriteLost, EditorInv
  <2>2. writes'[w] = Tail(writes[w]) /\ \A u \in Windows \ {w} : writes'[u] = writes[u]
    BY DEF Written, WriteLost, EditorInv, EditorTyped
  <2>3. editor[w] # "loading" /\ \A u \in Windows \ {w} : editor[u] = "none" /\ writes[u] = <<>>
    BY <1>1, <2>1 DEF WritesAlone, Alone
  <2>4. CASE v = w
    <3>1. writes'[w] # <<>> => Latest(w)' = Latest(w)
      BY <1>1, <1>2, <2>2, LastStays DEF Latest
    <3>2. ASSUME writes'[w] = <<>>, ~lost'[w], editor[w] = "ready" PROVE allowlist' = Latest(w)
      <4>1. Written(w)
        BY <3>2 DEF WriteLost, EditorInv, EditorTyped
      <4>2. allowlist' = Head(writes[w])
        BY <4>1 DEF Written
      <4>3. QED
        BY <1>1, <2>2, <3>2, <4>2, LastStays DEF Latest
    <3>3. Shows(w)'
      BY <1>1, <2>1, <3>1, <3>2 DEF Shows
    <3>4. QED
      BY <2>1, <2>2, <2>3, <2>4, <3>3 DEF WritesAlone, Alone
  <2>5. CASE v # w
    BY <2>1, <2>2, <2>3, <2>5 DEF Shows, WritesAlone, Alone
  <2>6. QED
    BY <2>4, <2>5
<1>5. QED
  BY <1>3, <1>4 DEF EditorInv

\* Steps that leave the list and its editors alone.
LEMMA OthersKeep ==
  ASSUME EditorInv, UNCHANGED editorVars
  PROVE  EditorInv'
BY DEF editorVars, EditorInv, EditorTyped, Shows, WritesAlone, Alone, Latest

LEMMA ExtensionKeeps == EditorInv /\ [ExtensionNext]_extensionVars => EditorInv'
<1> SUFFICES ASSUME EditorInv, [ExtensionNext]_extensionVars PROVE EditorInv'
  OBVIOUS
<1>1. CASE UNCHANGED extensionVars
  BY <1>1, OthersKeep DEF extensionVars
<1>2. ASSUME NEW t \in Tabs, \/ Intercept(t) \/ Check(t) \/ CheckFails(t)
                              \/ Receive(t) \/ Reload(t) \/ Activate(t)
      PROVE  EditorInv'
  BY <1>2, OthersKeep DEF Intercept, Check, CheckFails, Receive, Reload, Activate
<1>3. ASSUME NEW o \in Origins, Forward(o) PROVE EditorInv'
  BY <1>3, OthersKeep DEF Forward
<1>4. ASSUME NEW w \in Windows, Open(w) \/ Decide(w) \/ Answer(w) \/ \E o \in Origins : Deliver(w, o)
      PROVE  EditorInv'
  BY <1>4, OthersKeep DEF Open, Decide, Answer, Deliver
<1>5. ASSUME NEW w \in Windows, ShowAllowlist(w) PROVE EditorInv'
  BY <1>5, MountKeeps DEF ShowAllowlist
<1>6. ASSUME NEW w \in Windows, Close(w) \/ ShowInspect(w) PROVE EditorInv'
  BY <1>6, UnmountKeeps DEF Close, ShowInspect
<1>7. ASSUME NEW w \in Windows, Editing(w) PROVE EditorInv'
  BY <1>7, ListLoadedKeeps, WrittenKeeps, EditKeeps DEF Editing
<1>8. QED
  BY <1>1, <1>2, <1>3, <1>4, <1>5, <1>6, <1>7 DEF ExtensionNext

\* Unless edits overlapped, an editor shows what the content scripts read, but
\* for the writes under way and for its last write having failed, for any
\* windows, tabs, origins and edits (AllowlistEditor.tsx:16-41,
\* lib/storage.ts:42-46).
THEOREM EditorsShowTheList == ExtensionSpec => []ListShownIsStored
<1>1. ExtensionInit => EditorInv
  <2>1. <<>> \in Seq(SUBSET Origins)
    BY EmptySeq
  <2>2. ASSUME EditorInit PROVE EditorTyped
    <3>1. writes \in [Windows -> Seq(SUBSET Origins)]
      BY <2>1, <2>2 DEF EditorInit
    <3>2. QED
      BY <2>2, <3>1 DEF EditorInit, EditorTyped
  <2>3. ASSUME EditorInit, NEW w \in Windows PROVE Shows(w) /\ WritesAlone(w)
    BY <2>3 DEF EditorInit, Shows, WritesAlone, Alone
  <2>4. QED
    BY <2>2, <2>3 DEF ExtensionInit, EditorInv
<1>2. EditorInv => ListShownIsStored
  BY DEF EditorInv, Shows, Latest, ListShownIsStored
<1>3. QED
  BY <1>1, <1>2, ExtensionKeeps, PTL DEF ExtensionSpec
=============================================================================
