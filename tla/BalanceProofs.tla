--------------------------- MODULE BalanceProofs ----------------------------
(***************************************************************************)
(* Two components whose books are sums, for every value of their constants:*)
(* the vault's shares over its holders (AtlasVault) and the store's event  *)
(* counts over its topics, with the frames and the dedup map behind them   *)
(* (RealtimeStore).                                                        *)
(***************************************************************************)
EXTENDS AtlasVault, RealtimeStore, FiniteSetTheorems, SequenceTheorems, WellFoundedInduction,
        TLAPS

-----------------------------------------------------------------------------
(* Sums over a finite set *)

\* The element the fold takes out of a set first, one step of the fold, a table
\* of the sums of b over every subset of S, and the sum it gives for S itself.
Pick(s) == CHOOSE x \in s : TRUE
SumStep(g, b, s) == IF s = {} THEN 0 ELSE b[Pick(s)] + g[s \ {Pick(s)}]
IsTable(g, b, S) == g = [s \in SUBSET S |-> SumStep(g, b, s)]
SumOver(b, S)    == (CHOOSE g : IsTable(g, b, S))[S]

\* That is what the library's fold computes.
LEMMA FoldIsSum ==
  ASSUME NEW S, NEW b
  PROVE  MapThenSumSet(LAMBDA u : b[u], S) = SumOver(b, S)
BY DEF MapThenSumSet, MapThenFoldSet, SumOver, IsTable, SumStep, Pick

\* Any property some subset of a finite set has, a smallest subset has.
LEMMA SmallestSubset ==
  ASSUME NEW S, IsFiniteSet(S), NEW Q \in SUBSET (SUBSET S), Q # {}
  PROVE  \E T \in Q : \A U \in Q : U \subseteq T => U = T
<1>1. IsWellFoundedOn(StrictSubsetOrdering(S), SUBSET S)
  BY FS_StrictSubsetOrderingWellFounded, FS_FiniteSubsetsOfFinite
<1>2. \E T \in Q : \A U \in Q : <<U, T>> \notin StrictSubsetOrdering(S)
  BY <1>1, WFMin
<1>3. QED
  BY <1>2 DEF StrictSubsetOrdering

LEMMA PickIsIn == ASSUME NEW s, s # {} PROVE Pick(s) \in s
BY DEF Pick

\* Two tables of one function agree where both are defined.
LEMMA TablesAgree ==
  ASSUME NEW S, IsFiniteSet(S), NEW T \in SUBSET S, NEW b, NEW g, NEW h,
         IsTable(g, b, S), IsTable(h, b, T)
  PROVE  \A s \in SUBSET T : g[s] = h[s]
<1> DEFINE Q == {s \in SUBSET T : g[s] # h[s]}
<1>1. SUFFICES ASSUME Q # {} PROVE FALSE
  OBVIOUS
<1>2. PICK s \in Q : \A U \in Q : U \subseteq s => U = s
  <2>1. Q \in SUBSET (SUBSET S)
    OBVIOUS
  <2> HIDE DEF Q
  <2>2. QED
    BY <1>1, <2>1, SmallestSubset
<1>3. g[s] = SumStep(g, b, s) /\ h[s] = SumStep(h, b, s)
  BY DEF IsTable
<1>4. s # {}
  BY <1>3 DEF SumStep
<1>5. s \ {Pick(s)} \in SUBSET T /\ s \ {Pick(s)} # s
  BY <1>4, PickIsIn
<1>6. g[s \ {Pick(s)}] = h[s \ {Pick(s)}]
  BY <1>2, <1>5
<1>7. QED
  BY <1>3, <1>4, <1>6 DEF SumStep

\* A part of a table is a table.
LEMMA TableRestricts ==
  ASSUME NEW S, NEW T \in SUBSET S, NEW b, NEW g, IsTable(g, b, S)
  PROVE  IsTable([s \in SUBSET T |-> g[s]], b, T)
<1> DEFINE h == [s \in SUBSET T |-> g[s]]
<1>1. ASSUME NEW s \in SUBSET T PROVE g[s] = SumStep(h, b, s)
  <2>1. g[s] = SumStep(g, b, s)
    BY DEF IsTable
  <2>2. s \ {Pick(s)} \in SUBSET T
    OBVIOUS
  <2>3. h[s \ {Pick(s)}] = g[s \ {Pick(s)}]
    BY <2>2
  <2>4. QED
    BY <2>1, <2>3 DEF SumStep
<1>2. QED
  BY <1>1 DEF IsTable

\* A finite set has a table: one of a smallest set without is put together from
\* those of its proper subsets.
LEMMA TableExists ==
  ASSUME NEW S, IsFiniteSet(S), NEW b
  PROVE  \E g : IsTable(g, b, S)
<1> DEFINE Q == {T \in SUBSET S : ~ \E g : IsTable(g, b, T)}
<1>1. SUFFICES ASSUME Q # {} PROVE FALSE
  OBVIOUS
<1>2. PICK T \in Q : \A U \in Q : U \subseteq T => U = T
  <2>1. Q \in SUBSET (SUBSET S)
    OBVIOUS
  <2> HIDE DEF Q
  <2>2. QED
    BY <1>1, <2>1, SmallestSubset
<1> DEFINE Tab(s) == CHOOSE g : IsTable(g, b, s)
           V(s)   == Tab(s)[s]
           Sub(s) == s \ {Pick(s)}
           g      == [s \in SUBSET T |-> IF s = {} THEN 0 ELSE b[Pick(s)] + V(Sub(s))]
<1>3. \A s \in SUBSET T : s # T => IsTable(Tab(s), b, s)
  BY <1>2
<1>4. ASSUME NEW s \in SUBSET T, s # T PROVE g[s] = V(s)
  <2>1. IsTable(Tab(s), b, s) /\ s \in SUBSET s
    BY <1>3, <1>4
  <2>2. V(s) = SumStep(Tab(s), b, s)
    BY <2>1 DEF IsTable
  <2>3. CASE s = {}
    BY <2>2, <2>3 DEF SumStep
  <2>4. CASE s # {}
    <3>1. Sub(s) \in SUBSET s /\ Sub(s) \in SUBSET T /\ Sub(s) # T
      BY <1>4, <2>4, PickIsIn
    <3>2. IsTable(Tab(Sub(s)), b, Sub(s))
      BY <1>3, <3>1
    <3>3. IsFiniteSet(s)
      BY FS_Subset
    <3>4. Sub(s) \in SUBSET Sub(s)
      OBVIOUS
    <3> HIDE DEF Tab, Sub
    <3>5. \A x \in SUBSET Sub(s) : Tab(s)[x] = Tab(Sub(s))[x]
      BY <2>1, <3>1, <3>2, <3>3, TablesAgree
    <3>6. Tab(s)[Sub(s)] = V(Sub(s))
      BY <3>4, <3>5
    <3> USE DEF Sub
    <3>7. QED
      BY <2>2, <2>4, <3>6 DEF SumStep
  <2>5. QED
    BY <2>3, <2>4
<1>5. ASSUME NEW s \in SUBSET T PROVE g[s] = SumStep(g, b, s)
  <2>1. CASE s = {}
    BY <2>1 DEF SumStep
  <2>2. CASE s # {}
    <3>1. Sub(s) \in SUBSET T /\ Sub(s) # T
      BY <2>2, PickIsIn
    <3>2. g[Sub(s)] = V(Sub(s))
      BY <1>4, <3>1
    <3>3. g[s] = b[Pick(s)] + V(Sub(s))
      BY <2>2
    <3> HIDE DEF g, V
    <3>4. QED
      BY <2>2, <3>2, <3>3 DEF SumStep
  <2>3. QED
    BY <2>1, <2>2
<1>6. g = [s \in SUBSET T |-> g[s]]
  OBVIOUS
<1> HIDE DEF g
<1>7. IsTable(g, b, T)
  BY <1>5, <1>6 DEF IsTable
<1>8. QED
  BY <1>2, <1>7

\* The sum over a set is that of one element and the sum over the rest.
LEMMA SumUnfolds ==
  ASSUME NEW S, IsFiniteSet(S), NEW b
  PROVE  SumOver(b, S) = IF S = {} THEN 0 ELSE b[Pick(S)] + SumOver(b, S \ {Pick(S)})
<1> DEFINE Tab(s) == CHOOSE g : IsTable(g, b, s)
           R == S \ {Pick(S)}
<1>1. IsTable(Tab(S), b, S)
  BY TableExists
<1>2. IsFiniteSet(R) /\ R \in SUBSET S /\ R \in SUBSET R
  BY FS_Subset
<1>3. IsTable(Tab(R), b, R)
  BY <1>2, TableExists
<1>4. SumOver(b, S) = Tab(S)[S] /\ SumOver(b, R) = Tab(R)[R]
  BY DEF SumOver
<1> HIDE DEF Tab
<1>5. Tab(S)[S] = SumStep(Tab(S), b, S)
  BY <1>1 DEF IsTable
<1>6. Tab(S)[R] = Tab(R)[R]
  BY <1>1, <1>2, <1>3, TablesAgree
<1>7. QED
  BY <1>4, <1>5, <1>6 DEF SumStep

\* Sums of numbers.
LEMMA SumOfNumbers ==
  ASSUME NEW S, IsFiniteSet(S), NEW b, \A x \in S : b[x] \in Int
  PROVE  SumOver(b, S) \in Int
<1> DEFINE Q == {T \in SUBSET S : SumOver(b, T) \notin Int}
<1>1. SUFFICES ASSUME Q # {} PROVE FALSE
  OBVIOUS
<1>2. PICK T \in Q : \A U \in Q : U \subseteq T => U = T
  <2>1. Q \in SUBSET (SUBSET S)
    OBVIOUS
  <2> HIDE DEF Q
  <2>2. QED
    BY <1>1, <2>1, SmallestSubset
<1>3. SumOver(b, T) = IF T = {} THEN 0 ELSE b[Pick(T)] + SumOver(b, T \ {Pick(T)})
  BY FS_Subset, SumUnfolds
<1>4. T # {}
  BY <1>3
<1>5. SumOver(b, T \ {Pick(T)}) \in Int /\ b[Pick(T)] \in Int
  BY <1>2, <1>4, PickIsIn
<1>6. QED
  BY <1>2, <1>3, <1>4, <1>5

\* The sum of the sums is the sum.
LEMMA SumOfSums ==
  ASSUME NEW S, IsFiniteSet(S), NEW a, NEW b, NEW c,
         \A x \in S : a[x] \in Int /\ b[x] \in Int /\ c[x] = a[x] + b[x]
  PROVE  SumOver(c, S) = SumOver(a, S) + SumOver(b, S)
<1> DEFINE Q == {T \in SUBSET S : SumOver(c, T) # SumOver(a, T) + SumOver(b, T)}
<1>1. SUFFICES ASSUME Q # {} PROVE FALSE
  OBVIOUS
<1>2. PICK T \in Q : \A U \in Q : U \subseteq T => U = T
  <2>1. Q \in SUBSET (SUBSET S)
    OBVIOUS
  <2> HIDE DEF Q
  <2>2. QED
    BY <1>1, <2>1, SmallestSubset
<1> DEFINE p == Pick(T)
           R == T \ {p}
<1>3. IsFiniteSet(T) /\ IsFiniteSet(R)
  BY FS_Subset
<1>4. /\ SumOver(a, T) = IF T = {} THEN 0 ELSE a[p] + SumOver(a, R)
      /\ SumOver(b, T) = IF T = {} THEN 0 ELSE b[p] + SumOver(b, R)
      /\ SumOver(c, T) = IF T = {} THEN 0 ELSE c[p] + SumOver(c, R)
  BY <1>3, SumUnfolds
<1>5. T # {}
  BY <1>2, <1>4
<1>6. p \in T /\ p \in S /\ R # T
  BY <1>5, PickIsIn
<1>7. SumOver(c, R) = SumOver(a, R) + SumOver(b, R)
  BY <1>2, <1>6
<1>8. SumOver(a, R) \in Int /\ SumOver(b, R) \in Int
  BY <1>3, SumOfNumbers
<1> HIDE DEF p, R
<1>9. QED
  BY <1>2, <1>4, <1>5, <1>6, <1>7, <1>8

\* A sum in which only one element counts is what that element gives.
LEMMA SumOfOne ==
  ASSUME NEW S, IsFiniteSet(S), NEW b, NEW u \in S, b[u] \in Int,
         \A x \in S : x # u => b[x] = 0
  PROVE  SumOver(b, S) = b[u]
<1> DEFINE Q == {T \in SUBSET S : SumOver(b, T) # IF u \in T THEN b[u] ELSE 0}
<1>1. SUFFICES ASSUME Q # {} PROVE FALSE
  OBVIOUS
<1>2. PICK T \in Q : \A U \in Q : U \subseteq T => U = T
  <2>1. Q \in SUBSET (SUBSET S)
    OBVIOUS
  <2> HIDE DEF Q
  <2>2. QED
    BY <1>1, <2>1, SmallestSubset
<1> DEFINE p == Pick(T)
           R == T \ {p}
<1>3. SumOver(b, T) = IF T = {} THEN 0 ELSE b[p] + SumOver(b, R)
  BY FS_Subset, SumUnfolds
<1>4. T # {}
  BY <1>2, <1>3
<1>5. p \in T /\ p \in S /\ R # T
  BY <1>4, PickIsIn
<1>6. SumOver(b, R) = IF u \in R THEN b[u] ELSE 0
  BY <1>2, <1>5
<1>7. u \in R <=> u \in T /\ u # p
  OBVIOUS
<1> HIDE DEF p, R
<1>8. QED
  BY <1>2, <1>3, <1>4, <1>5, <1>6, <1>7

\* Adding d to one element adds d to the sum.
LEMMA SumWithOneMore ==
  ASSUME NEW S, IsFiniteSet(S), NEW b, NEW c, NEW u \in S, NEW d \in Int,
         \A x \in S : b[x] \in Int, c[u] = b[u] + d,
         \A x \in S : x # u => c[x] = b[x]
  PROVE  SumOver(c, S) = SumOver(b, S) + d
<1> DEFINE e == [x \in S |-> IF x = u THEN d ELSE 0]
<1>1. SumOver(e, S) = d
  <2>1. e[u] = d /\ \A x \in S : x # u => e[x] = 0
    OBVIOUS
  <2> HIDE DEF e
  <2>2. QED
    BY <2>1, SumOfOne
<1>2. \A x \in S : b[x] \in Int /\ e[x] \in Int /\ c[x] = b[x] + e[x]
  OBVIOUS
<1> HIDE DEF e
<1>3. QED
  BY <1>1, <1>2, SumOfSums

LEMMA SumOfZeros ==
  ASSUME NEW S, IsFiniteSet(S), NEW b, \A x \in S : b[x] = 0
  PROVE  SumOver(b, S) = 0
<1>1. CASE S = {}
  BY <1>1, SumUnfolds
<1>2. CASE S # {}
  <2>1. PICK u \in S : TRUE
    BY <1>2
  <2>2. QED
    BY <2>1, SumOfOne
<1>3. QED
  BY <1>1, <1>2

\* A sum of ones and zeros counts the ones.
LEMMA SumCounts ==
  ASSUME NEW S, IsFiniteSet(S), NEW C \in SUBSET S, NEW b,
         \A x \in S : b[x] = IF x \in C THEN 1 ELSE 0
  PROVE  SumOver(b, S) = Cardinality(C)
<1> DEFINE Q == {T \in SUBSET S : SumOver(b, T) # Cardinality(C \cap T)}
<1>1. SUFFICES ASSUME Q # {} PROVE FALSE
  <2>1. C \cap S = C
    OBVIOUS
  <2>2. QED
    BY <2>1
<1>2. PICK T \in Q : \A U \in Q : U \subseteq T => U = T
  <2>1. Q \in SUBSET (SUBSET S)
    OBVIOUS
  <2> HIDE DEF Q
  <2>2. QED
    BY <1>1, <2>1, SmallestSubset
<1> DEFINE p == Pick(T)
           R == T \ {p}
<1>3. SumOver(b, T) = IF T = {} THEN 0 ELSE b[p] + SumOver(b, R)
  BY FS_Subset, SumUnfolds
<1>4. T # {}
  <2>1. T = {} => C \cap T = {}
    OBVIOUS
  <2>2. QED
    BY <1>2, <1>3, <2>1, FS_EmptySet
<1>5. p \in T /\ p \in S /\ R # T
  BY <1>4, PickIsIn
<1>6. SumOver(b, R) = Cardinality(C \cap R)
  BY <1>2, <1>5
<1>7. IsFiniteSet(C \cap T) /\ Cardinality(C \cap R) \in Nat
  BY FS_Subset, FS_CardinalityType
<1>8. CASE p \in C
  <2>1. C \cap R = (C \cap T) \ {p} /\ p \in C \cap T
    BY <1>5, <1>8
  <2> DEFINE D == C \cap T
  <2>2. Cardinality(C \cap R) = Cardinality(D) - 1 /\ Cardinality(D) \in Nat
    <3>1. IsFiniteSet(D) /\ p \in D /\ C \cap R = D \ {p}
      BY <1>7, <2>1
    <3> HIDE DEF D, p, R
    <3>2. Cardinality(D \ {p}) = Cardinality(D) - 1 /\ Cardinality(D) \in Nat
      BY <3>1, FS_RemoveElement, FS_CardinalityType
    <3>3. QED
      BY <3>1, <3>2
  <2>3. b[p] = 1
    BY <1>5, <1>8
  <2> HIDE DEF p, R
  <2>4. QED
    BY <1>2, <1>3, <1>4, <1>6, <1>7, <2>2, <2>3
<1>9. CASE p \notin C
  <2>1. C \cap R = C \cap T
    BY <1>9
  <2>2. b[p] = 0
    BY <1>5, <1>9
  <2> HIDE DEF p, R
  <2>3. SumOver(b, T) = 0 + SumOver(b, R) /\ SumOver(b, R) = Cardinality(C \cap T)
    BY <1>3, <1>4, <1>6, <2>1, <2>2
  <2>4. Cardinality(C \cap T) \in Nat
    BY <1>7, <2>1
  <2>5. QED
    BY <1>2, <2>3, <2>4
<1>10. QED
  BY <1>8, <1>9

\* No part of a sum of natural numbers is larger than the sum.
LEMMA PartOfSum ==
  ASSUME NEW S, IsFiniteSet(S), NEW b, \A x \in S : b[x] \in Nat
  PROVE  SumOver(b, S) \in Nat /\ \A x \in S : b[x] <= SumOver(b, S)
<1> DEFINE Q == {T \in SUBSET S : ~(SumOver(b, T) \in Nat /\ \A x \in T : b[x] <= SumOver(b, T))}
<1>1. SUFFICES ASSUME Q # {} PROVE FALSE
  OBVIOUS
<1>2. PICK T \in Q : \A U \in Q : U \subseteq T => U = T
  <2>1. Q \in SUBSET (SUBSET S)
    OBVIOUS
  <2> HIDE DEF Q
  <2>2. QED
    BY <1>1, <2>1, SmallestSubset
<1> DEFINE p == Pick(T)
           R == T \ {p}
<1>3. SumOver(b, T) = IF T = {} THEN 0 ELSE b[p] + SumOver(b, R)
  BY FS_Subset, SumUnfolds
<1>4. T # {}
  BY <1>2, <1>3
<1>5. p \in T /\ p \in S /\ R # T
  BY <1>4, PickIsIn
<1>6. SumOver(b, R) \in Nat /\ \A x \in R : b[x] <= SumOver(b, R)
  BY <1>2, <1>5
<1>7. \A x \in T : x = p \/ x \in R
  OBVIOUS
<1> HIDE DEF p, R
<1>8. SumOver(b, T) \in Nat /\ b[p] <= SumOver(b, T) /\ SumOver(b, R) <= SumOver(b, T)
  BY <1>3, <1>4, <1>5, <1>6
<1>9. \A x \in T : b[x] <= SumOver(b, T)
  BY <1>5, <1>6, <1>7, <1>8
<1>10. QED
  BY <1>2, <1>8, <1>9

-----------------------------------------------------------------------------
(* Arithmetic of the vault *)

\* Quotients round down.
LEMMA FloorQuotient ==
  ASSUME NEW x \in Nat, NEW y \in Nat, y > 0
  PROVE  /\ x \div y \in Nat
         /\ (x \div y) * y <= x
BY SMT

\* Casting a natural number to u64 never makes it larger.
LEMMA CastShrinks ==
  ASSUME NEW x \in Nat
  PROVE  Cast(x) \in U64 /\ Cast(x) <= x
BY VaultAssumption, SMT DEF Cast, U64

LEMMA ExactQuotient ==
  ASSUME NEW x \in Nat, NEW y \in Nat, y > 0
  PROVE  (y * x) \div y = x
BY SMT

-----------------------------------------------------------------------------
(* The inductive invariant *)

\* Every counter fits its type, and as long as only the rebalancer has reported
\* the idle counter is backed.  Nothing is known of the sum of the counters: a
\* report may make total_assets saturate.
BooksFit ==
  /\ idle \in U64 /\ deployed \in U64 /\ shares \in U64 /\ tokens \in U64
  /\ attested \in BOOLEAN
  /\ attested => idle <= tokens

LEMMA AssetsFit ==
  ASSUME BooksFit
  PROVE  Assets \in U64 /\ Assets <= idle + deployed
BY VaultAssumption DEF BooksFit, Assets, U64

\* What a deposit mints is a number, and no more than the NAV quotient.
LEMMA MintFacts ==
  ASSUME BooksFit, NEW amount \in Nat, shares # 0 => Assets # 0
  PROVE  /\ Minted(amount) \in Nat
         /\ shares # 0 => Minted(amount) * Assets <= amount * shares
<1> DEFINE q == Quotient(amount)
<1>1. shares \in Nat /\ Assets \in Nat
  BY AssetsFit, VaultAssumption DEF BooksFit, U64
<1>2. CASE shares = 0
  BY <1>2 DEF Minted
<1>3. CASE shares # 0
  <2>1. q \in Nat /\ q * Assets <= amount * shares
    <3>1. amount * shares \in Nat /\ Assets > 0
      BY <1>1, <1>3, SMT
    <3>2. QED
      BY <1>1, <3>1, FloorQuotient DEF Quotient
  <2>2. Minted(amount) = Cast(q)
    BY <1>3 DEF Minted
  <2>3. Cast(q) \in Nat /\ Cast(q) <= q
    BY <2>1, CastShrinks, VaultAssumption DEF U64
  <2>4. Cast(q) * Assets <= q * Assets
    <3> DEFINE c == Cast(q)
    <3>1. \A a, b, n \in Nat : a <= b => a * n <= b * n
      BY SMT
    <3>2. QED
      BY <1>1, <2>1, <2>3, <3>1
  <2>5. QED
    <3> HIDE DEF q
    <3> DEFINE c == Cast(q)
    <3>1. c * Assets \in Nat /\ q * Assets \in Nat /\ amount * shares \in Nat
      BY <1>1, <2>1, <2>3, SMT
    <3>2. QED
      BY <1>3, <2>1, <2>2, <2>3, <2>4, <3>1
<1>4. QED
  BY <1>2, <1>3

\* A withdrawal pays at most its share of the assets.
LEMMA PayoutFacts ==
  ASSUME BooksFit, shares # 0, NEW n \in Nat
  PROVE  /\ Payout(n) \in Nat
         /\ Payout(n) * shares <= n * Assets
         /\ n = shares => Payout(n) = Assets
<1>1. shares \in Nat /\ shares > 0 /\ Assets \in Nat
  BY AssetsFit, VaultAssumption DEF BooksFit, U64
<1>2. n * Assets \in Nat
  BY <1>1, SMT
<1>3. QED
  BY <1>1, <1>2, FloorQuotient, ExactQuotient DEF Payout

LEMMA InitBooksFit == VaultInit => BooksFit
BY VaultAssumption DEF VaultInit, BooksFit, U64

\* A deposit fits under the cap, so the sum of the counters is not saturated.
LEMMA DepositFits ==
  ASSUME BooksFit, NEW u \in Users, NEW amount \in 0 .. MaxTvl, Deposit(u, amount)
  PROVE  /\ Assets = idle + deployed
         /\ idle + amount + deployed <= U64Max
         /\ amount \in Nat /\ amount > 0
BY VaultAssumption DEF Deposit, BooksFit, Assets, U64

LEMMA DepositKeepsBooks ==
  ASSUME BooksFit, NEW u \in Users, NEW amount \in 0 .. MaxTvl, Deposit(u, amount)
  PROVE  BooksFit'
<1>1. Minted(amount) \in Nat
  BY MintFacts, VaultAssumption DEF Deposit
<1>2. shares + Minted(amount) \in U64
  BY <1>1, VaultAssumption DEF Deposit, BooksFit, U64
<1>3. idle + amount \in U64 /\ tokens + amount \in U64
  <2>1. tokens + amount <= U64Max
    BY DEF Deposit
  <2>2. idle + amount + deployed <= U64Max /\ amount \in Nat
    BY DepositFits
  <2>3. QED
    BY <2>1, <2>2, VaultAssumption DEF BooksFit, U64
<1>4. attested => idle + amount <= tokens + amount
  BY VaultAssumption DEF BooksFit, U64
<1>5. QED
  BY <1>2, <1>3, <1>4 DEF Deposit, BooksFit

LEMMA WithdrawKeepsBooks ==
  ASSUME BooksFit, NEW u \in Users, NEW n \in 0 .. shares, Withdraw(u, n)
  PROVE  BooksFit'
<1>1. /\ Payout(n) \in Nat /\ Payout(n) <= idle /\ Payout(n) <= tokens
      /\ shares \in Nat /\ n \in Nat /\ n <= shares
  BY PayoutFacts, VaultAssumption DEF Withdraw, BooksFit, U64
<1>2. idle' = idle - Payout(n) /\ shares' = shares - n /\ tokens' = tokens - Payout(n)
      /\ deployed' = deployed /\ attested' = attested
  BY DEF Withdraw, BookWithdrawal
<1> DEFINE p == Payout(n)
<1> HIDE DEF p
<1>3. idle - p \in U64 /\ tokens - p \in U64 /\ shares - n \in U64
  BY <1>1, VaultAssumption DEF BooksFit, U64, p
<1>4. idle <= tokens => idle - p <= tokens - p
  BY <1>1, VaultAssumption DEF BooksFit, U64, p
<1>5. QED
  BY <1>2, <1>3, <1>4 DEF BooksFit, p

\* A report by the rebalancer is truthful; one by anybody else ends `attested`.
LEMMA RebalanceKeepsBooks ==
  ASSUME BooksFit, NEW by \in Signers, NEW newIdle \in U64, NEW newDeployed \in U64,
         Truthful(by, newIdle), RecordRebalance(by, newIdle, newDeployed)
  PROVE  BooksFit'
<1>1. attested' \in BOOLEAN /\ (attested' => by = Rebalancer)
  BY DEF RecordRebalance, BooksFit
<1>2. QED
  BY <1>1 DEF RecordRebalance, Truthful, BooksFit

\* The three ways the token program works without the vault.
SendOrBurn ==
  \/ \E amount \in U64 : SendTokens(amount)
  \/ \E u \in Users, w \in Users, n \in U64 : SendShares(u, w, n)
  \/ \E u \in Users, n \in U64 : BurnShares(u, n)

LEMMA SendOrBurnKeepsBooks ==
  ASSUME BooksFit, SendOrBurn
  PROVE  BooksFit'
<1>1. CASE \E amount \in U64 : SendTokens(amount)
  <2>1. PICK amount \in U64 : SendTokens(amount)
    BY <1>1
  <2>2. tokens + amount \in U64 /\ tokens <= tokens + amount
    BY <2>1, VaultAssumption DEF SendTokens, BooksFit, U64
  <2>3. idle <= tokens => idle <= tokens + amount
    BY <2>2, VaultAssumption DEF BooksFit, U64
  <2>4. QED
    BY <2>1, <2>2, <2>3 DEF SendTokens, BooksFit
<1>2. CASE \E u \in Users, w \in Users, n \in U64 : SendShares(u, w, n)
  BY <1>2 DEF SendShares, BooksFit
<1>3. CASE \E u \in Users, n \in U64 : BurnShares(u, n)
  BY <1>3 DEF BurnShares, BooksFit
<1>4. QED
  BY <1>1, <1>2, <1>3 DEF SendOrBurn

LEMMA NextKeepsBooks == BooksFit /\ [VaultNext]_vaultVars => BooksFit'
<1> SUFFICES ASSUME BooksFit, [VaultNext]_vaultVars PROVE BooksFit'
  OBVIOUS
<1>1. ASSUME NEW u \in Users, NEW amount \in 0 .. MaxTvl, Deposit(u, amount)
      PROVE  BooksFit'
  BY <1>1, DepositKeepsBooks
<1>2. ASSUME NEW u \in Users, NEW n \in 0 .. shares, Withdraw(u, n)
      PROVE  BooksFit'
  BY <1>2, WithdrawKeepsBooks
<1>3. ASSUME NEW by \in Signers, NEW newIdle \in U64, NEW newDeployed \in U64,
             Truthful(by, newIdle), RecordRebalance(by, newIdle, newDeployed)
      PROVE  BooksFit'
  BY <1>3, RebalanceKeepsBooks
<1>4. CASE SendOrBurn
  BY <1>4, SendOrBurnKeepsBooks
<1>5. CASE Tick
  BY <1>5 DEF Tick, BooksFit
<1>6. CASE UNCHANGED vaultVars
  BY <1>6 DEF vaultVars, BooksFit
<1>7. QED
  BY <1>1, <1>2, <1>3, <1>4, <1>5, <1>6 DEF VaultNext, SendOrBurn

-----------------------------------------------------------------------------
(* What a step does to those who stay *)

\* The two properties, as predicates of one step.
StepKeepsNav ==
  shares' # shares /\ shares # 0 /\ shares' # 0 => Assets' * shares >= Assets * shares'
StepStrandsNothing ==
  shares # 0 /\ shares' = 0 /\ idle + deployed <= U64Max => idle' = 0 /\ deployed' = 0

LEMMA DepositIsFair ==
  ASSUME BooksFit, NEW u \in Users, NEW amount \in 0 .. MaxTvl, Deposit(u, amount)
  PROVE  StepKeepsNav /\ StepStrandsNothing
<1> DEFINE m == Minted(amount)
<1>1. Assets = idle + deployed /\ idle + amount + deployed <= U64Max /\ amount \in Nat
  BY DepositFits
<1>2. /\ amount \in Nat /\ m \in Nat /\ shares \in Nat /\ Assets \in Nat
      /\ m > 0
      /\ shares # 0 => m * Assets <= amount * shares
  BY MintFacts, AssetsFit, VaultAssumption DEF Deposit, BooksFit, U64
<1>3. shares' = shares + m /\ Assets' = Assets + amount
  <2>1. shares' = shares + m /\ idle' = idle + amount /\ deployed' = deployed
    BY DEF Deposit
  <2>2. QED
    BY <1>1, <2>1, VaultAssumption DEF BooksFit, U64, Assets
<1> HIDE DEF m
<1>4. ASSUME shares # 0 PROVE (Assets + amount) * shares >= Assets * (shares + m)
  <2>1. (Assets + amount) * shares = Assets * shares + amount * shares
    BY <1>2, SMT
  <2>2. Assets * (shares + m) = Assets * shares + m * Assets
    BY <1>2, SMT
  <2>3. Assets * shares \in Nat /\ amount * shares \in Nat /\ m * Assets \in Nat
    BY <1>2, SMT
  <2>4. QED
    BY <1>2, <1>4, <2>1, <2>2, <2>3
<1>5. QED
  BY <1>2, <1>3, <1>4 DEF StepKeepsNav, StepStrandsNothing

LEMMA WithdrawIsFair ==
  ASSUME BooksFit, NEW u \in Users, NEW n \in 0 .. shares, Withdraw(u, n)
  PROVE  StepKeepsNav /\ StepStrandsNothing
<1> DEFINE p == Payout(n)
<1>1. idle \in Nat /\ deployed \in Nat /\ U64Max \in Nat
  BY VaultAssumption DEF BooksFit, U64
<1>2. /\ shares \in Nat /\ shares > 0 /\ n \in Nat /\ n <= shares
      /\ Assets \in Nat /\ p \in Nat /\ p <= idle
      /\ p * shares <= n * Assets
      /\ n = shares => p = Assets
  BY PayoutFacts, AssetsFit, VaultAssumption DEF Withdraw, BooksFit, U64
<1>3. /\ shares' = shares - n /\ idle' = idle - p /\ deployed' = deployed
      /\ idle + deployed <= U64Max => Assets = idle + deployed
  BY <1>1 DEF Withdraw, BookWithdrawal, Assets
<1> HIDE DEF p
<1>4. (Assets - p) * shares >= Assets * (shares - n)
  <2>1. (Assets - p) * shares = Assets * shares - p * shares
    BY <1>2, SMT
  <2>2. Assets * (shares - n) = Assets * shares - n * Assets
    BY <1>2, SMT
  <2>3. Assets * shares \in Int /\ p * shares \in Int /\ n * Assets \in Int
    BY <1>2, SMT
  <2>4. QED
    BY <1>2, <2>1, <2>2, <2>3
\* A saturated total loses less than what is paid, or nothing.
<1>5. Assets' >= Assets - p /\ Assets' \in Nat
  <2>1. Assets' = IF idle - p + deployed > U64Max THEN U64Max ELSE idle - p + deployed
    BY <1>3 DEF Assets
  <2>2. Assets = IF idle + deployed > U64Max THEN U64Max ELSE idle + deployed
    BY DEF Assets
  <2>3. QED
    BY <1>1, <1>2, <2>1, <2>2
<1>6. Assets' * shares >= Assets * (shares - n)
  <2>1. \A a, b \in Int, c \in Nat : a >= b => a * c >= b * c
    BY SMT
  <2>2. Assets' * shares >= (Assets - p) * shares
    <3>1. Assets' \in Int /\ Assets - p \in Int /\ shares \in Nat /\ Assets' >= Assets - p
      BY <1>2, <1>5
    <3>2. QED
      BY ONLY <2>1, <3>1
  <2>3. /\ Assets' * shares \in Int /\ (Assets - p) * shares \in Int
        /\ Assets * (shares - n) \in Int
    BY <1>2, <1>5, SMT
  <2>4. QED
    BY <1>4, <2>2, <2>3
\* Redeeming the last share pays out all the assets, and only idle ones can be
\* paid, so none were deployed.
<1>7. ASSUME shares' = 0, idle + deployed <= U64Max PROVE idle' = 0 /\ deployed' = 0
  <2>1. n = shares
    BY <1>2, <1>3, <1>7
  <2>2. p = idle + deployed
    BY <1>2, <1>3, <1>7, <2>1
  <2>3. QED
    BY <1>1, <1>2, <1>3, <2>2
<1>8. QED
  BY <1>3, <1>6, <1>7 DEF StepKeepsNav, StepStrandsNothing

LEMMA NextIsFair == BooksFit /\ [VaultNext]_vaultVars => StepKeepsNav /\ StepStrandsNothing
<1> SUFFICES ASSUME BooksFit, [VaultNext]_vaultVars PROVE StepKeepsNav /\ StepStrandsNothing
  OBVIOUS
<1>1. ASSUME NEW u \in Users, NEW amount \in 0 .. MaxTvl, Deposit(u, amount)
      PROVE  StepKeepsNav /\ StepStrandsNothing
  BY <1>1, DepositIsFair
<1>2. ASSUME NEW u \in Users, NEW n \in 0 .. shares, Withdraw(u, n)
      PROVE  StepKeepsNav /\ StepStrandsNothing
  BY <1>2, WithdrawIsFair
<1>3. ASSUME shares' = shares
      PROVE  StepKeepsNav /\ StepStrandsNothing
  BY <1>3 DEF StepKeepsNav, StepStrandsNothing
<1>4. ASSUME NEW by \in Signers, NEW newIdle \in U64, NEW newDeployed \in U64,
             RecordRebalance(by, newIdle, newDeployed)
      PROVE  shares' = shares
  BY <1>4 DEF RecordRebalance
<1>5. SendOrBurn => shares' = shares
  BY DEF SendOrBurn, SendTokens, SendShares, BurnShares
<1>6. Tick \/ UNCHANGED vaultVars => shares' = shares
  BY DEF Tick, vaultVars
<1>7. QED
  BY <1>1, <1>2, <1>3, <1>4, <1>5, <1>6 DEF VaultNext, SendOrBurn

\* Minting and burning never lower the net asset value of the shares that
\* stay, whatever is rounded down, cut off by the cast or saturated
\* (lib.rs:83-86, 117-120, 202-204), and whatever was reported before.
THEOREM DilutionFree == VaultSpec => NoDilution
<1>1. BooksFit /\ [VaultNext]_vaultVars =>
        [shares' # shares /\ shares # 0 /\ shares' # 0
           => Assets' * shares >= Assets * shares']_vaultVars
  BY NextIsFair DEF StepKeepsNav
<1>2. QED
  BY <1>1, InitBooksFit, NextKeepsBooks, PTL DEF VaultSpec, NoDilution

\* The last share is redeemed only when it takes every asset along, on books
\* whose total does not saturate.
THEOREM LastShareTakesAll == VaultSpec => NothingStranded
<1>1. BooksFit /\ [VaultNext]_vaultVars =>
        [shares # 0 /\ shares' = 0 /\ idle + deployed <= U64Max
           => idle' = 0 /\ deployed' = 0]_vaultVars
  BY NextIsFair DEF StepStrandsNothing
<1>2. QED
  BY <1>1, InitBooksFit, NextKeepsBooks, PTL DEF VaultSpec, NothingStranded

-----------------------------------------------------------------------------
(* Who holds the shares *)

\* Every outstanding share is in somebody's account or was burned there, so no
\* account can hold more than fits.
Held ==
  /\ BooksFit
  /\ balance \in [Users -> Nat] /\ burned \in Nat
  /\ shares = SumOver(balance, Users) + burned
  /\ lastRebalance \in 0 .. now /\ now \in 0 .. MaxSlot

LEMMA InitHeld == VaultInit => Held
<1> SUFFICES ASSUME VaultInit PROVE Held
  OBVIOUS
<1>1. /\ BooksFit /\ balance = [u \in Users |-> 0] /\ shares = 0 /\ burned = 0
      /\ lastRebalance = 0 /\ now = 0
  BY InitBooksFit DEF VaultInit
<1>2. balance \in [Users -> Nat] /\ \A u \in Users : balance[u] = 0
  BY <1>1
<1>3. SumOver(balance, Users) = 0
  BY <1>2, SumOfZeros, VaultAssumption
<1>4. QED
  BY <1>1, <1>2, <1>3, VaultAssumption DEF Held

\* No account holds more than all of them together.
LEMMA HeldSum ==
  ASSUME NEW f \in [Users -> Nat]
  PROVE  SumOver(f, Users) \in Nat /\ \A x \in Users : f[x] <= SumOver(f, Users)
<1>1. IsFiniteSet(Users) /\ \A x \in Users : f[x] \in Nat
  BY VaultAssumption
<1>2. QED
  BY ONLY <1>1, PartOfSum

\* What one account gains or loses is what the sum does.
LEMMA OneAccount ==
  ASSUME NEW f \in [Users -> Nat], NEW u \in Users, NEW d \in Int, f[u] + d \in Nat
  PROVE  /\ [f EXCEPT ![u] = f[u] + d] \in [Users -> Nat]
         /\ SumOver([f EXCEPT ![u] = f[u] + d], Users) = SumOver(f, Users) + d
<1>1. PICK g : g = [f EXCEPT ![u] = f[u] + d]
  OBVIOUS
<1>2. g \in [Users -> Nat]
  BY <1>1
<1>3. /\ \A x \in Users : f[x] \in Int
      /\ g[u] = f[u] + d
      /\ \A x \in Users : x # u => g[x] = f[x]
  BY <1>1
<1>4. IsFiniteSet(Users) /\ u \in Users /\ d \in Int
  BY VaultAssumption
<1>5. SumOver(g, Users) = SumOver(f, Users) + d
  BY ONLY <1>3, <1>4, SumWithOneMore
<1>6. QED
  BY <1>1, <1>2, <1>5

LEMMA DepositKeepsHeld ==
  ASSUME Held, NEW u \in Users, NEW amount \in 0 .. MaxTvl, Deposit(u, amount)
  PROVE  Held'
<1> DEFINE d == Minted(amount)
<1>1. BooksFit'
  BY DepositKeepsBooks DEF Held
<1>2. /\ d \in Nat /\ balance \in [Users -> Nat] /\ burned \in Nat
      /\ SumOver(balance, Users) \in Nat
  BY MintFacts, HeldSum, VaultAssumption DEF Deposit, Held
<1>3. /\ balance' = [balance EXCEPT ![u] = balance[u] + d] /\ shares' = shares + d
      /\ lastRebalance' = lastRebalance /\ now' = now /\ burned' = burned
  BY DEF Deposit
<1> HIDE DEF d
<1>4. d \in Int /\ balance[u] + d \in Nat
  BY <1>2
<1>5. balance' \in [Users -> Nat] /\ SumOver(balance', Users) = SumOver(balance, Users) + d
  <2>1. /\ [balance EXCEPT ![u] = balance[u] + d] \in [Users -> Nat]
        /\ SumOver([balance EXCEPT ![u] = balance[u] + d], Users) = SumOver(balance, Users) + d
    BY <1>2, <1>4, OneAccount
  <2>2. QED
    BY <1>3, <2>1
<1>6. shares' = SumOver(balance', Users) + burned'
  BY <1>2, <1>3, <1>4, <1>5 DEF Held
<1>7. QED
  BY <1>1, <1>2, <1>3, <1>5, <1>6 DEF Held

\* An account that gives up n of its shares.
LEMMA LessHeld ==
  ASSUME Held, NEW u \in Users, NEW n \in Nat, n <= balance[u]
  PROVE  /\ [balance EXCEPT ![u] = balance[u] - n] \in [Users -> Nat]
         /\ SumOver([balance EXCEPT ![u] = balance[u] - n], Users)
              = SumOver(balance, Users) - n
         /\ SumOver(balance, Users) \in Nat
<1>1. balance \in [Users -> Nat] /\ SumOver(balance, Users) \in Nat
  BY HeldSum DEF Held
<1> DEFINE d == 0 - n
<1>2. d \in Int /\ balance[u] + d \in Nat /\ balance[u] - n = balance[u] + d
  BY <1>1
<1> HIDE DEF d
<1>3. /\ [balance EXCEPT ![u] = balance[u] + d] \in [Users -> Nat]
      /\ SumOver([balance EXCEPT ![u] = balance[u] + d], Users) = SumOver(balance, Users) + d
  BY <1>1, <1>2, OneAccount
<1>4. SumOver(balance, Users) + d = SumOver(balance, Users) - n
  BY <1>1 DEF d
<1>5. QED
  BY <1>1, <1>2, <1>3, <1>4

LEMMA WithdrawKeepsHeld ==
  ASSUME Held, NEW u \in Users, NEW n \in 0 .. shares, Withdraw(u, n)
  PROVE  Held'
<1>1. BooksFit'
  BY WithdrawKeepsBooks DEF Held
<1>2. n \in Nat /\ n <= balance[u] /\ burned \in Nat
  BY VaultAssumption DEF Withdraw, Held, BooksFit, U64
<1>3. /\ balance' = [balance EXCEPT ![u] = balance[u] - n] /\ shares' = shares - n
      /\ lastRebalance' = lastRebalance /\ now' = now /\ burned' = burned
  BY DEF Withdraw, BookWithdrawal
<1>4. /\ balance' \in [Users -> Nat]
      /\ SumOver(balance', Users) = SumOver(balance, Users) - n
      /\ SumOver(balance, Users) \in Nat
  BY <1>2, <1>3, LessHeld
<1>5. shares' = SumOver(balance', Users) + burned'
  BY <1>2, <1>3, <1>4 DEF Held
<1>6. QED
  BY <1>1, <1>2, <1>3, <1>4, <1>5 DEF Held

LEMMA BurnKeepsHeld ==
  ASSUME Held, NEW u \in Users, NEW n \in U64, BurnShares(u, n)
  PROVE  Held'
<1>1. BooksFit' /\ n \in Nat /\ n <= balance[u] /\ burned \in Nat
  BY VaultAssumption DEF BurnShares, Held, BooksFit, U64
<1>2. /\ balance' = [balance EXCEPT ![u] = balance[u] - n] /\ shares' = shares
      /\ lastRebalance' = lastRebalance /\ now' = now /\ burned' = burned + n
  BY DEF BurnShares
<1>3. /\ balance' \in [Users -> Nat]
      /\ SumOver(balance', Users) = SumOver(balance, Users) - n
      /\ SumOver(balance, Users) \in Nat
  BY <1>1, <1>2, LessHeld
<1>4. shares' = SumOver(balance', Users) + burned' /\ burned' \in Nat
  BY <1>1, <1>2, <1>3 DEF Held
<1>5. QED
  BY <1>1, <1>2, <1>3, <1>4 DEF Held

\* Shares sent leave one account and reach another: the sum stays.
LEMMA SendKeepsHeld ==
  ASSUME Held, NEW u \in Users, NEW w \in Users, NEW n \in U64, SendShares(u, w, n)
  PROVE  Held'
<1> DEFINE f == [balance EXCEPT ![u] = balance[u] - n]
<1>1. BooksFit' /\ n \in Nat /\ n \in Int /\ n <= balance[u] /\ u # w
  BY VaultAssumption DEF SendShares, Held, BooksFit, U64
<1>2. balance \in [Users -> Nat]
  BY DEF Held
<1>3. /\ f \in [Users -> Nat] /\ SumOver(f, Users) = SumOver(balance, Users) - n
      /\ SumOver(balance, Users) \in Nat
  BY <1>1, LessHeld
<1>4. f[w] + n \in Nat /\ f[w] = balance[w]
  BY <1>1, <1>2
<1>5. balance' = [f EXCEPT ![w] = f[w] + n]
  BY <1>1, <1>2, <1>4 DEF SendShares
<1> HIDE DEF f
<1>6. balance' \in [Users -> Nat] /\ SumOver(balance', Users) = SumOver(f, Users) + n
  <2>1. /\ [f EXCEPT ![w] = f[w] + n] \in [Users -> Nat]
        /\ SumOver([f EXCEPT ![w] = f[w] + n], Users) = SumOver(f, Users) + n
    <3>1. f \in [Users -> Nat] /\ n \in Int /\ f[w] + n \in Nat
      BY <1>1, <1>3, <1>4
    <3>2. QED
      BY <3>1, OneAccount
  <2>2. QED
    BY <1>5, <2>1
<1>7. SumOver(balance', Users) = SumOver(balance, Users)
  BY <1>1, <1>3, <1>6
<1>8. QED
  BY <1>1, <1>6, <1>7 DEF SendShares, Held

LEMMA NextKeepsHeld == Held /\ [VaultNext]_vaultVars => Held'
<1> SUFFICES ASSUME Held, [VaultNext]_vaultVars PROVE Held'
  OBVIOUS
<1>1. BooksFit /\ BooksFit'
  BY NextKeepsBooks DEF Held
<1>2. ASSUME NEW u \in Users, NEW amount \in 0 .. MaxTvl, Deposit(u, amount)
      PROVE  Held'
  BY <1>2, DepositKeepsHeld
<1>3. ASSUME NEW u \in Users, NEW n \in 0 .. shares, Withdraw(u, n)
      PROVE  Held'
  BY <1>3, WithdrawKeepsHeld
<1>4. ASSUME NEW by \in Signers, NEW newIdle \in U64, NEW newDeployed \in U64,
             RecordRebalance(by, newIdle, newDeployed)
      PROVE  Held'
  <2>1. /\ balance' = balance /\ shares' = shares /\ burned' = burned
        /\ lastRebalance' = now /\ now' = now
    BY <1>4 DEF RecordRebalance
  <2>2. QED
    BY <1>1, <2>1 DEF Held
<1>5. ASSUME NEW amount \in U64, SendTokens(amount)
      PROVE  Held'
  BY <1>1, <1>5 DEF SendTokens, Held
<1>6. ASSUME NEW u \in Users, NEW w \in Users, NEW n \in U64, SendShares(u, w, n)
      PROVE  Held'
  BY <1>6, SendKeepsHeld
<1>7. ASSUME NEW u \in Users, NEW n \in U64, BurnShares(u, n)
      PROVE  Held'
  BY <1>7, BurnKeepsHeld
<1>8. CASE Tick
  <2>1. /\ balance' = balance /\ shares' = shares /\ burned' = burned
        /\ lastRebalance' = lastRebalance /\ now' = now + 1 /\ now < MaxSlot
    BY <1>8 DEF Tick
  <2>2. QED
    BY <1>1, <2>1, VaultAssumption DEF Held
<1>9. CASE UNCHANGED vaultVars
  BY <1>1, <1>9 DEF vaultVars, Held
<1>10. QED
  BY <1>2, <1>3, <1>4, <1>5, <1>6, <1>7, <1>8, <1>9 DEF VaultNext

LEMMA HeldAlways == VaultSpec => []Held
BY InitHeld, NextKeepsHeld, PTL DEF VaultSpec

\* For any number of users and any word size, the outstanding shares are what
\* the users hold and what they burned behind the vault's back; and until
\* somebody other than the rebalancer reports (lib.rs:162-178), the idle account
\* holds what the idle counter says, tokens sent to it apart.
THEOREM SharesAreHeld == VaultSpec => []BooksBalance
<1>1. Held => BooksBalance
  BY FoldIsSum DEF Held, BooksFit, BooksBalance
<1>2. QED
  BY <1>1, HeldAlways, PTL

\* Every number of the vault fits the type it has in the program, also every
\* share account: none holds more than all of them together.
THEOREM VaultTypes == VaultSpec => []VaultTypeOK
<1>1. Held => VaultTypeOK
  <2> SUFFICES ASSUME Held PROVE VaultTypeOK
    OBVIOUS
  <2>1. /\ balance \in [Users -> Nat] /\ burned \in Nat
        /\ shares \in Nat /\ shares <= U64Max /\ U64Max \in Nat
        /\ shares = SumOver(balance, Users) + burned
    BY VaultAssumption DEF Held, BooksFit, U64
  <2>2. /\ SumOver(balance, Users) \in Nat
        /\ \A u \in Users : balance[u] \in Nat /\ balance[u] <= SumOver(balance, Users)
    BY <2>1, HeldSum
  <2>3. balance \in [Users -> U64] /\ burned \in U64
    BY <2>1, <2>2 DEF U64
  <2>4. QED
    BY <2>3 DEF Held, BooksFit, VaultTypeOK
<1>2. QED
  BY <1>1, HeldAlways, PTL
-----------------------------------------------------------------------------
(* The store *)

\* The gate parks no critical event.
CriticalNotParked == \A t \in Critical : parked[t] = None

\* Until the next frame the snapshot stands, so what the reorder check let in
\* is still no further behind it than the tolerance.
InTime(x, shown) ==
  x.replay \/ shown = None \/ x.event.slot + Tolerance >= shown.slot
BufferedInTime ==
  \A t \in Topics : \A i \in DOMAIN buffer[t] : InTime(buffer[t][i], snapshot[t])

Inv == TypeOK /\ CriticalNotParked /\ BufferedInTime /\ CriticalKept

-----------------------------------------------------------------------------
(* The entry a frame takes *)

\* A sequence of numbers has a first largest one.
LEMMA FirstLargest ==
  ASSUME NEW N \in Nat \ {0}, NEW f \in [1 .. N -> Nat]
  PROVE  \E i \in 1 .. N : \A j \in 1 .. N : f[j] < f[i] \/ (f[j] = f[i] /\ i <= j)
<1> DEFINE Best(n) == {i \in 1 .. n : \A j \in 1 .. n : f[j] < f[i] \/ (f[j] = f[i] /\ i <= j)}
           T == {n \in 1 .. N : Best(n) = {}}
<1>1. SUFFICES ASSUME T # {} PROVE FALSE
  <2>1. N \in 1 .. N
    OBVIOUS
  <2>2. QED
    BY <2>1
<1>2. T \subseteq 1 .. N /\ (\A n \in 1 .. N : n \notin T => Best(n) # {})
      /\ (\A n \in T : Best(n) = {})
  OBVIOUS
<1> HIDE DEF T
<1>3. PICK n \in T : \A k \in T : <<k, n>> \notin OpToRel(<, Nat)
  <2>1. T \subseteq Nat
    BY <1>2
  <2>2. \E n \in T : \A k \in T : <<k, n>> \notin OpToRel(<, Nat)
    BY <1>1, <2>1, WFMin, NatLessThanWellFounded
  <2>3. QED
    BY <2>2
<1>4. n \in 1 .. N /\ \A k \in T : ~(k < n)
  <2>1. n \in Nat /\ \A k \in T : k \in Nat
    BY <1>2
  <2>2. QED
    BY <1>2, <1>3, <2>1 DEF OpToRel
<1>5. CASE n = 1
  <2>1. 1 \in Best(1)
    OBVIOUS
  <2>2. QED
    BY <1>2, <1>5, <2>1
<1>6. CASE n # 1
  <2>1. n - 1 \in 1 .. N /\ n - 1 \notin T
    BY <1>4, <1>6
  <2>2. PICK i \in 1 .. n - 1 :
          \A j \in 1 .. n - 1 : f[j] < f[i] \/ (f[j] = f[i] /\ i <= j)
    BY <1>2, <2>1
  <2> f[n] \in Nat /\ n \in Nat /\ \A j \in 1 .. n : j \in 1 .. N /\ f[j] \in Nat
    BY <1>4
  <2>3. CASE f[n] > f[i]
    <3>1. \A j \in 1 .. n : f[j] < f[n] \/ (f[j] = f[n] /\ n <= j)
      BY <2>2, <2>3
    <3>2. n \in Best(n)
      BY <3>1
    <3>3. QED
      BY <1>2, <3>2
  <2>4. CASE ~(f[n] > f[i])
    <3>1. \A j \in 1 .. n : f[j] < f[i] \/ (f[j] = f[i] /\ i <= j)
      BY <2>2, <2>4
    <3>2. i \in Best(n)
      BY <3>1
    <3>3. QED
      BY <1>2, <3>2
  <2>5. QED
    BY <2>3, <2>4
<1>7. QED
  BY <1>5, <1>6

\* The latest entry is one of those waiting, and none of them is later.
LEMMA LatestIsLatest ==
  ASSUME NEW s \in Seq(Entries), s # <<>>
  PROVE  /\ \E i \in DOMAIN s : Latest(s) = s[i]
         /\ Latest(s).event \in Events
         /\ \A j \in DOMAIN s : s[j].event.slot <= Latest(s).event.slot
<1> DEFINE f == [i \in 1 .. Len(s) |-> s[i].event.slot]
           Is(i) == \A j \in DOMAIN s : \/ s[j].event.slot < s[i].event.slot
                                        \/ s[j].event.slot = s[i].event.slot /\ i <= j
<1>1. Len(s) \in Nat \ {0} /\ DOMAIN s = 1 .. Len(s)
  OBVIOUS
<1>2. \A i \in DOMAIN s : s[i].event \in Events /\ s[i].event.slot \in Nat
  <2>1. \A i \in DOMAIN s : s[i] \in Entries
    OBVIOUS
  <2>2. \A x \in Entries : x.event \in Events
    BY DEF Entries
  <2>3. QED
    BY <2>1, <2>2, StoreAssumption
<1>3. f \in [1 .. Len(s) -> Nat]
  BY <1>1, <1>2
<1>4. \E i \in DOMAIN s : Is(i)
  <2>1. PICK i \in 1 .. Len(s) :
          \A j \in 1 .. Len(s) : f[j] < f[i] \/ (f[j] = f[i] /\ i <= j)
    BY <1>1, <1>3, FirstLargest
  <2>2. Is(i)
    BY <1>1, <2>1
  <2>3. QED
    BY <1>1, <2>1, <2>2
<1> DEFINE k == CHOOSE i \in DOMAIN s : Is(i)
<1>5. k \in DOMAIN s /\ Is(k)
  BY <1>4
<1>6. Latest(s) = s[k]
  BY DEF Latest
<1> HIDE DEF k
<1>7. QED
  BY <1>2, <1>5, <1>6

-----------------------------------------------------------------------------
(* Steps *)

\* The buffer a push leaves: the old entries and the new one, but for the
\* oldest of a default topic that are too many, which are counted.
LEMMA BufferLeaves ==
  ASSUME TypeOK, NEW e \in Events, Buffer(e)
  PROVE  LET t == e.topic
             pushed == Append(buffer[t], Plain(e))
             x == Excess(pushed, t) IN
         /\ t \in Topics /\ pushed \in Seq(Entries) /\ Len(pushed) = Len(buffer[t]) + 1
         /\ x \in 0 .. Len(pushed) /\ (t \in Critical => x = 0)
         /\ dropped' = dropped + x
         /\ buffer'[t] \in Seq(Entries) /\ Len(buffer'[t]) = Len(pushed) - x
         /\ \A i \in 1 .. Len(pushed) - x : buffer'[t][i] = pushed[i + x]
         /\ \A i \in 1 .. Len(buffer[t]) : pushed[i] = buffer[t][i]
         /\ pushed[Len(pushed)] = Plain(e)
         /\ \A u \in Topics \ {t} : buffer'[u] = buffer[u]
         /\ buffer' \in [Topics -> Seq(Entries)]
<1> DEFINE t == e.topic
           pushed == Append(buffer[t], Plain(e))
           x == Excess(pushed, t)
<1>1. t \in Topics /\ buffer[t] \in Seq(Entries) /\ Plain(e) \in Entries
  BY StoreAssumption DEF TypeOK, Plain, Entries
<1>2. /\ pushed \in Seq(Entries) /\ Len(pushed) = Len(buffer[t]) + 1
      /\ \A i \in 1 .. Len(buffer[t]) : pushed[i] = buffer[t][i]
      /\ pushed[Len(pushed)] = Plain(e)
  BY <1>1
<1> HIDE DEF pushed
<1>3. x \in 0 .. Len(pushed) /\ (t \in Critical => x = 0)
  BY <1>2, StoreAssumption DEF Excess
<1>4. /\ buffer' = [buffer EXCEPT ![t] = SubSeq(pushed, 1 + x, Len(pushed))]
      /\ dropped' = dropped + x
  BY DEF Buffer, pushed
<1> HIDE DEF x, t
<1>5. /\ SubSeq(pushed, 1 + x, Len(pushed)) \in Seq(Entries)
      /\ Len(SubSeq(pushed, 1 + x, Len(pushed))) = Len(pushed) - x
      /\ \A i \in 1 .. Len(pushed) - x : SubSeq(pushed, 1 + x, Len(pushed))[i] = pushed[i + x]
  BY <1>2, <1>3
<1>6. buffer'[t] = SubSeq(pushed, 1 + x, Len(pushed))
      /\ (\A u \in Topics \ {t} : buffer'[u] = buffer[u]) /\ buffer' \in [Topics -> Seq(Entries)]
  BY <1>1, <1>4, <1>5 DEF TypeOK
<1>7. QED
  BY <1>1, <1>2, <1>3, <1>4, <1>5, <1>6 DEF pushed, x, t

LEMMA BufferKeeps ==
  ASSUME Inv, NEW e \in Events, Fresh(e), Buffer(e)
  PROVE  Inv'
<1> DEFINE t == e.topic
           pushed == Append(buffer[t], Plain(e))
           x == Excess(pushed, t)
<1>1. /\ t \in Topics /\ pushed \in Seq(Entries) /\ Len(pushed) = Len(buffer[t]) + 1
      /\ x \in 0 .. Len(pushed) /\ (t \in Critical => x = 0)
      /\ dropped' = dropped + x
      /\ buffer'[t] \in Seq(Entries) /\ Len(buffer'[t]) = Len(pushed) - x
      /\ \A i \in 1 .. Len(pushed) - x : buffer'[t][i] = pushed[i + x]
      /\ \A i \in 1 .. Len(buffer[t]) : pushed[i] = buffer[t][i]
      /\ pushed[Len(pushed)] = Plain(e)
      /\ \A u \in Topics \ {t} : buffer'[u] = buffer[u]
      /\ buffer' \in [Topics -> Seq(Entries)]
  BY BufferLeaves DEF Inv
<1>2. /\ passed' = [passed EXCEPT ![t] = passed[t] + 1] /\ rafQueued' = TRUE
      /\ UNCHANGED <<docHidden, hidden, parked, skipped, snapshot, reordered, taken,
                     tooOld, replayed>>
      /\ ~Late(e)
  BY DEF Fresh, Buffer, gateVars
<1> HIDE DEF x, pushed, t
<1>3. TypeOK'
  <2>1. passed' \in [Topics -> Nat] /\ dropped' \in Nat
    <3>1. TypeOK /\ x \in Nat /\ t \in Topics
      BY <1>1, LenProperties DEF Inv
    <3>2. dropped \in Nat /\ passed \in [Topics -> Nat]
      BY <3>1 DEF TypeOK
    <3>3. passed' \in [Topics -> Nat]
      BY <1>2, <3>1, <3>2
    <3>4. dropped' \in Nat
      <4>1. dropped + x \in Nat
        BY <3>1, <3>2
      <4>2. QED
        BY <1>1, <4>1
    <3>5. QED
      BY <3>3, <3>4
  <2>2. buffer' \in [Topics -> Seq(Entries)] /\ rafQueued' \in BOOLEAN
    BY <1>1, <1>2
  <2>3. /\ docHidden' \in BOOLEAN /\ hidden' \in BOOLEAN
        /\ parked' \in [Topics -> Events \cup {None}]
        /\ snapshot' \in [Topics -> Events \cup {None}]
        /\ taken' \in [Topics -> Nat] /\ tooOld' \in [Topics -> Nat]
        /\ {skipped', reordered', replayed'} \subseteq Nat
    <3>1. TypeOK
      BY DEF Inv
    <3>2. QED
      BY <1>2, <3>1 DEF TypeOK
  <2>4. QED
    BY <2>1, <2>2, <2>3 DEF TypeOK
<1>4. CriticalNotParked'
  BY <1>2 DEF Inv, CriticalNotParked
<1>5. BufferedInTime'
  <2>2. InTime(Plain(e), snapshot[t])
    <3>1. snapshot[t] = None \/ ~(snapshot[t].slot > e.slot + Tolerance)
      BY <1>2 DEF Late, t
    <3>2. snapshot[t] # None => snapshot[t].slot \in Nat
      BY <1>1, StoreAssumption DEF Inv, TypeOK
    <3>3. QED
      BY <3>1, <3>2, StoreAssumption DEF InTime, Plain
  <2>3. \A i \in 1 .. Len(pushed) : InTime(pushed[i], snapshot[t])
    <3> SUFFICES ASSUME NEW i \in 1 .. Len(pushed) PROVE InTime(pushed[i], snapshot[t])
      OBVIOUS
    <3>1. CASE i = Len(pushed)
      BY <1>1, <2>2, <3>1
    <3>2. CASE i # Len(pushed)
      <4>1. buffer[t] \in Seq(Entries)
        BY <1>1 DEF Inv, TypeOK
      <4>2. i \in DOMAIN buffer[t] /\ pushed[i] = buffer[t][i]
        BY <1>1, <3>2, <4>1
      <4>3. QED
        BY <1>1, <4>2 DEF Inv, BufferedInTime
    <3>3. QED
      BY <3>1, <3>2
  <2>4. ASSUME NEW u \in Topics, NEW i \in DOMAIN buffer'[u] PROVE InTime(buffer'[u][i], snapshot'[u])
    <3>1. CASE u = t
      <4>1. i \in 1 .. Len(pushed) - x /\ i + x \in 1 .. Len(pushed)
        BY <1>1, <2>4, <3>1
      <4>2. QED
        BY <1>1, <1>2, <2>3, <3>1, <4>1
    <3>2. CASE u # t
      BY <1>1, <1>2, <2>4, <3>2 DEF Inv, BufferedInTime
    <3>3. QED
      BY <3>1, <3>2
  <2>5. QED
    BY <2>4 DEF BufferedInTime
<1>6. CriticalKept'
  <2> SUFFICES ASSUME NEW u \in Critical
               PROVE  passed'[u] = Len(buffer'[u]) + taken'[u] + tooOld'[u]
    BY DEF CriticalKept
  <2>1. /\ u \in Topics /\ passed[u] = Len(buffer[u]) + taken[u] + tooOld[u]
        /\ buffer[u] \in Seq(Entries) /\ taken[u] \in Nat /\ tooOld[u] \in Nat
        /\ passed[u] \in Nat
    BY StoreAssumption DEF Inv, CriticalKept, TypeOK
  <2>2. CASE u = t
    <3>1. Len(buffer'[u]) = Len(buffer[u]) + 1 /\ passed'[u] = passed[u] + 1
      BY <1>1, <1>2, <2>1, <2>2 DEF Inv, TypeOK
    <3>2. QED
      BY <1>2, <2>1, <3>1
  <2>3. CASE u # t
    BY <1>1, <1>2, <2>1, <2>3 DEF Inv, TypeOK
  <2>4. QED
    BY <2>2, <2>3
<1>7. QED
  BY <1>3, <1>4, <1>5, <1>6 DEF Inv

LEMMA FlushKeeps ==
  ASSUME Inv, Flush
  PROVE  Inv'
<1>1. /\ rafQueued' = FALSE /\ buffer' = [t \in Topics |-> <<>>]
      /\ snapshot' = [t \in Topics |-> IF buffer[t] = <<>> THEN snapshot[t]
                                       ELSE Latest(buffer[t]).event]
      /\ taken' = [t \in Topics |-> taken[t] + Len(buffer[t])]
      /\ UNCHANGED <<docHidden, hidden, parked, skipped, dropped, reordered, tooOld,
                     passed, replayed>>
  BY DEF Flush, gateVars
<1>2. \A t \in Topics : buffer[t] \in Seq(Entries)
  BY DEF Inv, TypeOK
<1>3. snapshot' \in [Topics -> Events \cup {None}]
  BY <1>1, <1>2, LatestIsLatest DEF Inv, TypeOK
<1>4. taken' \in [Topics -> Nat] /\ buffer' \in [Topics -> Seq(Entries)]
  BY <1>1, <1>2 DEF Inv, TypeOK
<1>5. TypeOK'
  BY <1>1, <1>3, <1>4 DEF Inv, TypeOK
<1>6. BufferedInTime'
  BY <1>1 DEF BufferedInTime
<1>7. CriticalKept'
  <2> SUFFICES ASSUME NEW u \in Critical
               PROVE  passed'[u] = Len(buffer'[u]) + taken'[u] + tooOld'[u]
    BY DEF CriticalKept
  <2>1. /\ u \in Topics /\ passed[u] = Len(buffer[u]) + taken[u] + tooOld[u]
        /\ buffer[u] \in Seq(Entries) /\ taken[u] \in Nat /\ tooOld[u] \in Nat
    BY StoreAssumption DEF Inv, CriticalKept, TypeOK
  <2>2. buffer'[u] = <<>> /\ taken'[u] = taken[u] + Len(buffer[u])
    BY <1>1, <2>1
  <2>3. QED
    BY <1>1, <2>1, <2>2
<1>8. CriticalNotParked'
  BY <1>1 DEF Inv, CriticalNotParked
<1>9. QED
  BY <1>5, <1>6, <1>7, <1>8 DEF Inv

LEMMA ResumeKeeps ==
  ASSUME Inv, Resume
  PROVE  Inv'
<1>1. /\ docHidden' = FALSE /\ hidden' = FALSE
      /\ buffer' = [t \in Topics |-> IF parked[t] = None THEN buffer[t]
                                     ELSE Append(buffer[t], Replay(parked[t]))]
      /\ replayed' = replayed + Cardinality(ParkedTopics)
      /\ parked' = [t \in Topics |-> None]
      /\ UNCHANGED <<skipped, snapshot, dropped, reordered, taken, tooOld, passed>>
      /\ \E order : rafQueued' = (rafQueued \/ order # <<>>)
  BY DEF Resume
<1>2. \A t \in Topics : /\ buffer[t] \in Seq(Entries)
                        /\ parked[t] # None => Replay(parked[t]) \in Entries
  BY DEF Inv, TypeOK, Replay, Entries
<1>3. \A t \in Topics : buffer'[t] \in Seq(Entries)
  BY <1>1, <1>2
<1>4. TypeOK'
  <2>1. buffer' \in [Topics -> Seq(Entries)] /\ parked' \in [Topics -> Events \cup {None}]
    BY <1>1, <1>3
  <2>2. Cardinality(ParkedTopics) \in Nat
    BY StoreAssumption, FS_Subset, FS_CardinalityType DEF ParkedTopics
  <2>3. rafQueued' \in BOOLEAN
    BY <1>1 DEF Inv, TypeOK
  <2>4. replayed' \in Nat
    BY <1>1, <2>2 DEF Inv, TypeOK
  <2>5. QED
    BY <1>1, <2>1, <2>3, <2>4 DEF Inv, TypeOK
<1>5. CriticalNotParked'
  BY <1>1, StoreAssumption DEF CriticalNotParked
<1>6. BufferedInTime'
  <2> SUFFICES ASSUME NEW t \in Topics, NEW i \in DOMAIN buffer'[t]
               PROVE  InTime(buffer'[t][i], snapshot'[t])
    BY DEF BufferedInTime
  <2>1. \A j \in DOMAIN buffer[t] : InTime(buffer[t][j], snapshot'[t])
    BY <1>1 DEF Inv, BufferedInTime
  <2>2. CASE parked[t] = None
    BY <1>1, <2>1, <2>2
  <2>3. CASE parked[t] # None
    <3>1. buffer'[t] = Append(buffer[t], Replay(parked[t]))
      BY <1>1, <2>3
    <3>2. CASE i \in 1 .. Len(buffer[t])
      BY <1>2, <2>1, <3>1, <3>2
    <3>3. CASE i = Len(buffer[t]) + 1
      <4>1. buffer'[t][i] = Replay(parked[t])
        BY <1>2, <3>1, <3>3
      <4>2. QED
        BY <4>1 DEF InTime, Replay
    <3>4. QED
      BY <1>2, <3>1, <3>2, <3>3
  <2>4. QED
    BY <2>2, <2>3
<1>7. CriticalKept'
  BY <1>1, StoreAssumption DEF Inv, CriticalKept, CriticalNotParked
<1>8. QED
  BY <1>4, <1>5, <1>6, <1>7 DEF Inv

\* The steps that leave the buffers and the snapshots alone.
LEMMA ParkKeeps ==
  ASSUME Inv, NEW e \in Events, Fresh(e), Park(e)
  PROVE  Inv'
<1>1. /\ e.topic \in Topics \ Critical
      /\ parked' = IF parked[e.topic] = None \/ e.slot > parked[e.topic].slot
                   THEN [parked EXCEPT ![e.topic] = e] ELSE parked
      /\ skipped' = skipped + 1
      /\ passed' = [passed EXCEPT ![e.topic] = passed[e.topic] + 1]
      /\ UNCHANGED <<docHidden, hidden, snapshot, buffer, rafQueued, dropped, reordered,
                     taken, tooOld, replayed>>
  BY StoreAssumption DEF Park, Parks, Fresh, topicVars
<1>2. parked' \in [Topics -> Events \cup {None}] /\ passed' \in [Topics -> Nat]
      /\ skipped' \in Nat
  BY SMTT(30), <1>1 DEF Inv, TypeOK
<1>3. TypeOK'
  BY <1>1, <1>2 DEF Inv, TypeOK
<1>4. \A t \in Critical : t \in Topics /\ parked'[t] = parked[t] /\ passed'[t] = passed[t]
  BY <1>1, StoreAssumption DEF Inv, TypeOK
<1>5. CriticalNotParked' /\ CriticalKept'
  BY <1>1, <1>4 DEF Inv, CriticalNotParked, CriticalKept
<1>6. BufferedInTime'
  BY <1>1 DEF Inv, BufferedInTime, InTime
<1>7. QED
  BY <1>3, <1>5, <1>6 DEF Inv

LEMMA RefuseKeeps ==
  ASSUME Inv, NEW e \in Events, Fresh(e), RefuseLate(e)
  PROVE  Inv'
<1>1. /\ e.topic \in Topics
      /\ reordered' = reordered + 1
      /\ tooOld' = [tooOld EXCEPT ![e.topic] = tooOld[e.topic] + 1]
      /\ passed' = [passed EXCEPT ![e.topic] = passed[e.topic] + 1]
      /\ UNCHANGED <<docHidden, hidden, parked, skipped, snapshot, buffer, rafQueued, dropped,
                     taken, replayed>>
  BY StoreAssumption DEF RefuseLate, Fresh, gateVars
<1>2. TypeOK'
  <2>1. tooOld' \in [Topics -> Nat] /\ passed' \in [Topics -> Nat] /\ reordered' \in Nat
    BY SMTT(30), <1>1 DEF Inv, TypeOK
  <2>2. QED
    BY <1>1, <2>1 DEF Inv, TypeOK
<1>3. CriticalKept'
  <2> SUFFICES ASSUME NEW u \in Critical
               PROVE  passed'[u] = Len(buffer'[u]) + taken'[u] + tooOld'[u]
    BY DEF CriticalKept
  <2>1. /\ u \in Topics /\ passed[u] = Len(buffer[u]) + taken[u] + tooOld[u]
        /\ buffer[u] \in Seq(Entries) /\ taken[u] \in Nat /\ tooOld[u] \in Nat
        /\ passed[u] \in Nat
    BY StoreAssumption DEF Inv, CriticalKept, TypeOK
  <2>2. IF u = e.topic THEN passed'[u] = passed[u] + 1 /\ tooOld'[u] = tooOld[u] + 1
                       ELSE passed'[u] = passed[u] /\ tooOld'[u] = tooOld[u]
    BY <1>1, <2>1 DEF Inv, TypeOK
  <2>3. Len(buffer'[u]) = Len(buffer[u]) /\ taken'[u] = taken[u] /\ Len(buffer[u]) \in Nat
    BY <1>1, <2>1
  <2>4. CASE u = e.topic
    BY ONLY <2>1, <2>2, <2>3, <2>4
  <2>5. CASE u # e.topic
    BY ONLY <2>1, <2>2, <2>3, <2>5
  <2>6. QED
    BY <2>4, <2>5
<1>4. CriticalNotParked' /\ BufferedInTime'
  BY <1>1 DEF Inv, CriticalNotParked, BufferedInTime, InTime
<1>5. QED
  BY <1>2, <1>3, <1>4 DEF Inv

LEMMA InvHolds == Spec => []Inv
<1>1. Init => Inv
  <2> SUFFICES ASSUME Init PROVE Inv
    OBVIOUS
  <2>1. \A t \in Critical : t \in Topics
    BY StoreAssumption
  <2>2. \A t \in Topics : buffer[t] = <<>> /\ DOMAIN buffer[t] = {} /\ Len(buffer[t]) = 0
    BY DEF Init
  <2>3. TypeOK
    <3>1. docHidden \in BOOLEAN /\ hidden \in BOOLEAN /\ rafQueued \in BOOLEAN
      BY DEF Init
    <3>2. buffer \in [Topics -> Seq(Entries)]
      BY DEF Init
    <3>3. {skipped, dropped, reordered, replayed} \subseteq Nat
      BY DEF Init
    <3>4. /\ parked \in [Topics -> Events \cup {None}]
          /\ snapshot \in [Topics -> Events \cup {None}]
          /\ passed \in [Topics -> Nat] /\ taken \in [Topics -> Nat]
          /\ tooOld \in [Topics -> Nat]
      BY DEF Init
    <3>5. QED
      BY <3>1, <3>2, <3>3, <3>4 DEF TypeOK
  <2>4. CriticalNotParked /\ BufferedInTime
    BY <2>1, <2>2 DEF Init, CriticalNotParked, BufferedInTime
  <2>5. CriticalKept
    BY <2>1, <2>2 DEF Init, CriticalKept
  <2>6. QED
    BY <2>3, <2>4, <2>5 DEF Inv
<1>2. Inv /\ [Next]_vars => Inv'
  <2> SUFFICES ASSUME Inv, [Next]_vars PROVE Inv'
    OBVIOUS
  <2>1. ASSUME NEW e \in Events, PushDuplicate(e) PROVE Inv'
    BY <2>1 DEF PushDuplicate, gateVars, topicVars, Inv, TypeOK, CriticalNotParked,
       BufferedInTime, InTime, CriticalKept
  <2>2. CASE Hide \/ ShowUnnoticed \/ UNCHANGED vars
    BY <2>2 DEF Hide, ShowUnnoticed, vars, gateVars, topicVars, Inv, TypeOK,
       CriticalNotParked, BufferedInTime, InTime, CriticalKept
  <2>3. QED
    BY <2>1, <2>2, ParkKeeps, RefuseKeeps, BufferKeeps, FlushKeeps, ResumeKeeps
       DEF Next, PushEvent
<1>3. QED
  BY <1>1, <1>2, PTL DEF Spec

-----------------------------------------------------------------------------
(* Theorems *)

\* Every variable of the store but its dedup map has its type.
THEOREM StoreTypes == Spec => []TypeOK
<1>1. Inv => TypeOK
  BY DEF Inv
<1>2. QED
  BY <1>1, InvHolds, PTL

\* An event of a critical topic is never lost to a hidden tab or to a burst,
\* only to the reorder check (store.ts:8-11, background-tab.ts:69-77).
THEOREM CriticalReachesAFrame == Spec => []CriticalKept
<1>1. Inv => CriticalKept
  BY DEF Inv
<1>2. QED
  BY <1>1, InvHolds, PTL

\* A frame moves what is shown back by at most the tolerance, unless all it
\* takes was replayed (store.ts:101-112): the reorder check is made against a
\* snapshot that stands until that frame.
THEOREM FramesGoBackByTolerance == Spec => BackByTolerance
<1> DEFINE Step ==
      \A t \in Topics :
        snapshot[t] # None /\ snapshot'[t] # snapshot[t] =>
          \/ snapshot'[t].slot + Tolerance >= snapshot[t].slot
          \/ \A i \in DOMAIN buffer[t] : buffer[t][i].replay
<1>1. Inv /\ [Next]_vars => [Step]_vars
  <2> SUFFICES ASSUME Inv, Next, NEW t \in Topics, snapshot[t] # None,
                      snapshot'[t] # snapshot[t], NEW i \in DOMAIN buffer[t],
                      ~buffer[t][i].replay
               PROVE  snapshot'[t].slot + Tolerance >= snapshot[t].slot
    BY DEF Inv, TypeOK, Entries
  <2>1. Flush
    BY DEF Next, PushEvent, PushDuplicate, Park, RefuseLate, Buffer, Hide, Resume,
       ShowUnnoticed, topicVars
  <2>2. buffer[t] \in Seq(Entries) /\ buffer[t] # <<>>
    BY DEF Inv, TypeOK
  <2>3. snapshot'[t] = Latest(buffer[t]).event
    BY <2>1, <2>2 DEF Flush
  <2>4. buffer[t][i].event.slot <= snapshot'[t].slot /\ snapshot'[t] \in Events
    BY <2>2, <2>3, LatestIsLatest
  <2>5. buffer[t][i].event.slot + Tolerance >= snapshot[t].slot
    BY DEF Inv, BufferedInTime, InTime
  <2>6. buffer[t][i].event.slot \in Nat /\ snapshot'[t].slot \in Nat /\ snapshot[t].slot \in Nat
    <3>1. buffer[t][i] \in Entries /\ snapshot[t] \in Events
      BY <2>2 DEF Inv, TypeOK
    <3>2. buffer[t][i].event \in Events
      BY <3>1 DEF Entries
    <3>3. QED
      BY <2>4, <3>1, <3>2, StoreAssumption
  <2>7. QED
    BY <2>4, <2>5, <2>6, StoreAssumption
<1>2. QED
  BY <1>1, InvHolds, PTL DEF Spec, BackByTolerance

\* What leaves a buffer was shown, or something later of its topic was, or it
\* is counted among the dropped (store.ts:67-89, background-tab.ts:12-16).
THEOREM FramesShowWhatWaited == Spec => BufferedIsShown
<1> DEFINE Step ==
      \A e \in Events : Waiting(e) /\ ~Waiting(e)' => Shown(e)' \/ dropped' > dropped
<1>1. Inv /\ [Next]_vars => [Step]_vars
  <2> SUFFICES ASSUME Inv, Next, NEW e \in Events, Waiting(e), ~Waiting(e)'
               PROVE  Shown(e)' \/ dropped' > dropped
    OBVIOUS
  <2>1. PICK i \in DOMAIN buffer[e.topic] : buffer[e.topic][i].event = e
    BY DEF Waiting
  <2>2. buffer[e.topic] \in Seq(Entries) /\ e.topic \in Topics /\ buffer[e.topic] # <<>>
    BY <2>1, StoreAssumption DEF Inv, TypeOK
  <2>3. buffer'[e.topic] # buffer[e.topic]
    BY <2>1 DEF Waiting
  <2>4. CASE Flush
    <3>1. snapshot'[e.topic] = Latest(buffer[e.topic]).event
      BY <2>2, <2>4 DEF Flush
    <3>2. e.slot <= snapshot'[e.topic].slot /\ snapshot'[e.topic] \in Events
      BY <2>1, <2>2, <3>1, LatestIsLatest
    <3>3. QED
      BY <3>2, StoreAssumption DEF Shown
  <2>5. ASSUME NEW d \in Events, Buffer(d) PROVE dropped' > dropped
    <3> DEFINE t == d.topic
               pushed == Append(buffer[t], Plain(d))
               x == Excess(pushed, t)
    <3>1. /\ pushed \in Seq(Entries) /\ Len(pushed) = Len(buffer[t]) + 1
          /\ x \in 0 .. Len(pushed) /\ dropped' = dropped + x
          /\ buffer'[t] \in Seq(Entries) /\ Len(buffer'[t]) = Len(pushed) - x
          /\ \A j \in 1 .. Len(pushed) - x : buffer'[t][j] = pushed[j + x]
          /\ \A j \in 1 .. Len(buffer[t]) : pushed[j] = buffer[t][j]
          /\ \A u \in Topics \ {t} : buffer'[u] = buffer[u]
      BY <2>5, BufferLeaves DEF Inv
    <3>2. t = e.topic
      BY <2>2, <2>3, <3>1
    <3> HIDE DEF x, pushed, t
    <3>3. SUFFICES ASSUME x = 0 PROVE FALSE
      BY <3>1 DEF Inv, TypeOK
    <3>4. i \in 1 .. Len(buffer[t]) /\ i \in 1 .. Len(buffer'[t])
      BY <2>1, <2>2, <3>1, <3>2, <3>3
    <3>5. buffer'[t][i] = buffer[t][i]
      BY <3>1, <3>3, <3>4
    <3>6. i \in DOMAIN buffer'[e.topic] /\ buffer'[e.topic][i].event = e
      BY <2>1, <3>1, <3>2, <3>4, <3>5
    <3>7. QED
      BY <3>6 DEF Waiting
  <2>6. CASE Resume
    <3>1. buffer'[e.topic] = Append(buffer[e.topic], Replay(parked[e.topic]))
      BY <2>2, <2>3, <2>6 DEF Resume
    <3>2. i \in DOMAIN buffer'[e.topic] /\ buffer'[e.topic][i] = buffer[e.topic][i]
      BY <2>1, <2>2, <3>1
    <3>3. QED
      BY <2>1, <3>2 DEF Waiting
  <2>7. QED
    BY <2>3, <2>4, <2>5, <2>6 DEF Next, PushEvent, PushDuplicate, Park, RefuseLate, Hide,
       ShowUnnoticed, topicVars
<1>2. QED
  BY <1>1, InvHolds, PTL DEF Spec, BufferedIsShown
-----------------------------------------------------------------------------
(* The store's counters *)

LEMMA SumIsOver ==
  ASSUME NEW f
  PROVE  Sum(f) = SumOver(f, DOMAIN f)
BY DEF Sum, FoldFunction, FoldFunctionOnSet, MapThenFoldSet, SumOver, IsTable, SumStep, Pick

\* How many events wait in each buffer.
Lengths == [t \in Topics |-> Len(buffer[t])]

\* EventsAccounted, over sums that can be reasoned about.
Accounted ==
  /\ SumOver(passed, Topics) + replayed =
       SumOver(Lengths, Topics) + SumOver(taken, Topics) + skipped + reordered + dropped
  /\ (\E t \in Topics : buffer[t] # <<>>) => rafQueued

LEMMA SumsAreNumbers ==
  ASSUME TypeOK
  PROVE  /\ SumOver(passed, Topics) \in Int /\ SumOver(taken, Topics) \in Int
         /\ SumOver(Lengths, Topics) \in Int
         /\ \A t \in Topics : Lengths[t] \in Nat /\ passed[t] \in Nat /\ taken[t] \in Nat
<1>1. \A t \in Topics : Lengths[t] \in Nat /\ passed[t] \in Nat /\ taken[t] \in Nat
  <2>1. \A t \in Topics : buffer[t] \in Seq(Entries)
    BY DEF TypeOK
  <2>2. QED
    BY <2>1 DEF TypeOK, Lengths
<1>2. QED
  BY <1>1, SumOfNumbers, StoreAssumption

\* A fresh event is one more in the sum of those that passed.
LEMMA OneMorePasses ==
  ASSUME TypeOK, NEW e \in Events, Fresh(e)
  PROVE  SumOver(passed', Topics) = SumOver(passed, Topics) + 1
<1> DEFINE t == e.topic
<1>1. t \in Topics /\ passed' = [passed EXCEPT ![t] = passed[t] + 1]
  BY StoreAssumption DEF Fresh
<1>2. \A u \in Topics : passed[u] \in Int
  BY SumsAreNumbers
<1>3. passed'[t] = passed[t] + 1 /\ \A u \in Topics : u # t => passed'[u] = passed[u]
  BY <1>1 DEF TypeOK
<1> HIDE DEF t
<1>4. IsFiniteSet(Topics) /\ t \in Topics /\ 1 \in Int
  BY <1>1, StoreAssumption
<1>5. QED
  BY ONLY <1>2, <1>3, <1>4, SumWithOneMore

LEMMA PushAccounts ==
  ASSUME Inv, Accounted, NEW e \in Events, Fresh(e), Park(e) \/ RefuseLate(e)
  PROVE  Accounted'
<1>1. SumOver(passed', Topics) = SumOver(passed, Topics) + 1
  BY OneMorePasses DEF Inv
<1>2. /\ UNCHANGED <<buffer, taken, rafQueued, dropped, replayed>>
      /\ \/ skipped' = skipped + 1 /\ reordered' = reordered
         \/ reordered' = reordered + 1 /\ skipped' = skipped
  BY DEF Fresh, Park, RefuseLate, topicVars, gateVars
<1>3. Lengths' = Lengths
  BY <1>2 DEF Lengths
<1>4. {skipped, reordered, dropped, replayed} \subseteq Nat
  BY DEF Inv, TypeOK
<1>5. SumOver(passed', Topics) + replayed' =
        SumOver(Lengths', Topics) + SumOver(taken', Topics) + skipped' + reordered' + dropped'
  <2>1. /\ SumOver(passed, Topics) \in Int /\ SumOver(taken, Topics) \in Int
        /\ SumOver(Lengths, Topics) \in Int
        /\ SumOver(passed, Topics) + replayed =
             SumOver(Lengths, Topics) + SumOver(taken, Topics) + skipped + reordered + dropped
    BY SumsAreNumbers DEF Inv, Accounted
  <2>2. QED
    BY <1>1, <1>2, <1>3, <1>4, <2>1
<1>6. QED
  BY <1>2, <1>5 DEF Accounted

LEMMA BufferAccounts ==
  ASSUME Inv, Accounted, NEW e \in Events, Fresh(e), Buffer(e)
  PROVE  Accounted'
<1> DEFINE t == e.topic
           pushed == Append(buffer[t], Plain(e))
           x == Excess(pushed, t)
<1>1. SumOver(passed', Topics) = SumOver(passed, Topics) + 1
  BY OneMorePasses DEF Inv
<1>2. /\ t \in Topics /\ Len(pushed) = Len(buffer[t]) + 1
      /\ x \in 0 .. Len(pushed) /\ dropped' = dropped + x
      /\ buffer'[t] \in Seq(Entries) /\ Len(buffer'[t]) = Len(pushed) - x
      /\ \A u \in Topics \ {t} : buffer'[u] = buffer[u]
  BY BufferLeaves DEF Inv
<1>3. rafQueued' = TRUE /\ UNCHANGED <<taken, skipped, reordered, replayed>>
  BY DEF Buffer, Fresh, gateVars
<1> HIDE DEF t, x, pushed
<1>4. SumOver(Lengths', Topics) = SumOver(Lengths, Topics) + (1 - x)
  <2>1. \A u \in Topics : Lengths[u] \in Int
    BY SumsAreNumbers DEF Inv
  <2>2. Lengths'[t] = Lengths[t] + (1 - x)
    BY <1>2, <2>1 DEF Lengths
  <2>3. \A u \in Topics : u # t => Lengths'[u] = Lengths[u]
    BY <1>2 DEF Lengths
  <2> DEFINE d == 1 - x
  <2>4. d \in Int /\ IsFiniteSet(Topics) /\ t \in Topics /\ Lengths'[t] = Lengths[t] + d
    BY <1>2, <2>2, StoreAssumption
  <2> HIDE DEF d
  <2>5. SumOver(Lengths', Topics) = SumOver(Lengths, Topics) + d
    BY ONLY <2>1, <2>3, <2>4, SumWithOneMore
  <2>6. QED
    BY <2>5 DEF d
<1>5. {skipped, reordered, dropped, replayed} \subseteq Nat /\ x \in Int
  BY <1>2 DEF Inv, TypeOK
<1>6. SumOver(passed', Topics) + replayed' =
        SumOver(Lengths', Topics) + SumOver(taken', Topics) + skipped' + reordered' + dropped'
  <2>1. /\ SumOver(passed, Topics) \in Int /\ SumOver(taken, Topics) \in Int
        /\ SumOver(Lengths, Topics) \in Int
        /\ SumOver(passed, Topics) + replayed =
             SumOver(Lengths, Topics) + SumOver(taken, Topics) + skipped + reordered + dropped
    BY SumsAreNumbers DEF Inv, Accounted
  <2>2. /\ SumOver(taken', Topics) = SumOver(taken, Topics)
        /\ dropped' = dropped + x /\ replayed' = replayed
        /\ skipped' = skipped /\ reordered' = reordered
    BY <1>2, <1>3
  <2>3. QED
    BY ONLY <1>1, <1>4, <1>5, <2>1, <2>2
<1>7. QED
  BY <1>3, <1>6 DEF Accounted

\* A frame moves what waits to what was taken.
LEMMA FlushAccounts ==
  ASSUME Inv, Accounted, Flush
  PROVE  Accounted'
<1>1. /\ buffer' = [t \in Topics |-> <<>>]
      /\ taken' = [t \in Topics |-> taken[t] + Len(buffer[t])]
      /\ UNCHANGED <<skipped, dropped, reordered, passed, replayed>>
  BY DEF Flush, gateVars
<1>2. SumOver(taken', Topics) = SumOver(taken, Topics) + SumOver(Lengths, Topics)
  <2>1. \A t \in Topics : /\ taken[t] \in Int /\ Lengths[t] \in Int
                          /\ taken'[t] = taken[t] + Lengths[t]
    BY <1>1, SumsAreNumbers DEF Inv, Lengths
  <2>2. QED
    BY <2>1, SumOfSums, StoreAssumption
<1>3. SumOver(Lengths', Topics) = 0
  <2>1. \A t \in Topics : Lengths'[t] = 0
    BY <1>1 DEF Lengths
  <2>2. QED
    BY <2>1, SumOfZeros, StoreAssumption
<1>4. {skipped, reordered, dropped, replayed} \subseteq Nat
  BY DEF Inv, TypeOK
<1>5. SumOver(passed', Topics) + replayed' =
        SumOver(Lengths', Topics) + SumOver(taken', Topics) + skipped' + reordered' + dropped'
  <2>1. /\ SumOver(passed, Topics) \in Int /\ SumOver(taken, Topics) \in Int
        /\ SumOver(Lengths, Topics) \in Int
        /\ SumOver(passed, Topics) + replayed =
             SumOver(Lengths, Topics) + SumOver(taken, Topics) + skipped + reordered + dropped
    BY SumsAreNumbers DEF Inv, Accounted
  <2>2. QED
    BY <1>1, <1>2, <1>3, <1>4, <2>1
<1>6. QED
  BY <1>1, <1>5 DEF Accounted

\* Each parked event is one more in its topic's buffer; a frame is asked for if
\* there is any.
LEMMA ResumeAccounts ==
  ASSUME Inv, Accounted, Resume
  PROVE  Accounted'
<1> DEFINE one == [t \in Topics |-> IF t \in ParkedTopics THEN 1 ELSE 0]
<1>1. /\ buffer' = [t \in Topics |-> IF parked[t] = None THEN buffer[t]
                                     ELSE Append(buffer[t], Replay(parked[t]))]
      /\ replayed' = replayed + Cardinality(ParkedTopics)
      /\ UNCHANGED <<skipped, dropped, reordered, taken, passed>>
  BY DEF Resume
<1>2. ParkedTopics \in SUBSET Topics /\ IsFiniteSet(Topics) /\ IsFiniteSet(ParkedTopics)
  BY StoreAssumption, FS_Subset DEF ParkedTopics
<1>3. SumOver(Lengths', Topics) = SumOver(Lengths, Topics) + Cardinality(ParkedTopics)
  <2>1. SumOver(one, Topics) = Cardinality(ParkedTopics)
    <3>1. \A t \in Topics : one[t] = IF t \in ParkedTopics THEN 1 ELSE 0
      OBVIOUS
    <3> HIDE DEF one
    <3>2. QED
      BY <1>2, <3>1, SumCounts
  <2>2. \A t \in Topics : Lengths[t] \in Int /\ one[t] \in Int /\ Lengths'[t] = Lengths[t] + one[t]
    <3> SUFFICES ASSUME NEW t \in Topics
                 PROVE  Lengths[t] \in Int /\ one[t] \in Int /\ Lengths'[t] = Lengths[t] + one[t]
      OBVIOUS
    <3>1. buffer[t] \in Seq(Entries) /\ (parked[t] # None => Replay(parked[t]) \in Entries)
      BY DEF Inv, TypeOK, Replay, Entries
    <3>2. Lengths[t] = Len(buffer[t]) /\ Lengths'[t] = Len(buffer'[t]) /\ Len(buffer[t]) \in Int
      BY <3>1 DEF Lengths
    <3>3. CASE parked[t] = None
      <4>1. buffer'[t] = buffer[t] /\ one[t] = 0
        BY <1>1, <3>3 DEF ParkedTopics
      <4> HIDE DEF one
      <4>2. QED
        BY <3>2, <4>1
    <3>4. CASE parked[t] # None
      <4>1. buffer'[t] = Append(buffer[t], Replay(parked[t]))
        BY <1>1, <3>4
      <4>2. Len(buffer'[t]) = Len(buffer[t]) + 1
        BY <3>1, <3>4, <4>1
      <4>3. one[t] = 1
        BY <3>4 DEF ParkedTopics
      <4> HIDE DEF one
      <4>4. QED
        BY <3>2, <4>2, <4>3
    <3>5. QED
      BY <3>3, <3>4
  <2> HIDE DEF one
  <2>3. SumOver(Lengths', Topics) = SumOver(Lengths, Topics) + SumOver(one, Topics)
    BY <1>2, <2>2, SumOfSums
  <2>4. QED
    BY <2>1, <2>3
<1>4. {skipped, reordered, dropped, replayed} \subseteq Nat /\ Cardinality(ParkedTopics) \in Nat
  BY <1>2, FS_CardinalityType DEF Inv, TypeOK
<1>5. SumOver(passed', Topics) + replayed' =
        SumOver(Lengths', Topics) + SumOver(taken', Topics) + skipped' + reordered' + dropped'
  <2>1. /\ SumOver(passed, Topics) \in Int /\ SumOver(taken, Topics) \in Int
        /\ SumOver(Lengths, Topics) \in Int
        /\ SumOver(passed, Topics) + replayed =
             SumOver(Lengths, Topics) + SumOver(taken, Topics) + skipped + reordered + dropped
    BY SumsAreNumbers DEF Inv, Accounted
  <2>2. /\ SumOver(passed', Topics) = SumOver(passed, Topics)
        /\ SumOver(taken', Topics) = SumOver(taken, Topics)
        /\ replayed' = replayed + Cardinality(ParkedTopics)
        /\ skipped' = skipped /\ reordered' = reordered /\ dropped' = dropped
    BY <1>1
  <2>3. QED
    BY ONLY <1>3, <1>4, <2>1, <2>2
<1>6. (\E t \in Topics : buffer'[t] # <<>>) => rafQueued'
  <2> SUFFICES ASSUME NEW t \in Topics, buffer'[t] # <<>> PROVE rafQueued'
    OBVIOUS
  <2>1. PICK order \in SetToSeqs(ParkedTopics) : rafQueued' = (rafQueued \/ order # <<>>)
    BY DEF Resume
  <2>2. CASE buffer[t] # <<>>
    BY <2>1, <2>2 DEF Accounted
  <2>3. CASE buffer[t] = <<>>
    <3>1. t \in ParkedTopics
      BY <1>1, <2>3 DEF ParkedTopics
    <3>2. Cardinality(ParkedTopics) # 0
      BY <1>2, <3>1, FS_EmptySet
    <3>3. DOMAIN order = 1 .. Cardinality(ParkedTopics)
      BY <2>1 DEF SetToSeqs
    <3>4. order # <<>>
      BY <1>4, <3>2, <3>3
    <3>5. QED
      BY <2>1, <3>4
  <2>4. QED
    BY <2>2, <2>3
<1>7. QED
  BY <1>5, <1>6 DEF Accounted

LEMMA AccountedHolds == Spec => []Accounted
<1>1. Init => Accounted
  <2> SUFFICES ASSUME Init PROVE Accounted
    OBVIOUS
  <2>1. \A t \in Topics : passed[t] = 0 /\ taken[t] = 0 /\ Lengths[t] = 0
    BY DEF Init, Lengths
  <2>2. SumOver(passed, Topics) = 0 /\ SumOver(taken, Topics) = 0
        /\ SumOver(Lengths, Topics) = 0
    BY <2>1, SumOfZeros, StoreAssumption
  <2>3. QED
    BY <2>2 DEF Init, Accounted
<1>2. Inv /\ Accounted /\ [Next]_vars => Accounted'
  <2> SUFFICES ASSUME Inv, Accounted, [Next]_vars PROVE Accounted'
    OBVIOUS
  <2>1. ASSUME UNCHANGED topicVars, UNCHANGED <<skipped, passed, replayed>> PROVE Accounted'
    BY <2>1 DEF Accounted, Lengths, topicVars
  <2>2. ASSUME NEW e \in Events, PushDuplicate(e) PROVE Accounted'
    BY <2>1, <2>2 DEF PushDuplicate, gateVars
  <2>3. CASE Hide \/ ShowUnnoticed \/ UNCHANGED vars
    BY <2>1, <2>3 DEF Hide, ShowUnnoticed, vars, gateVars
  <2>4. QED
    BY <2>2, <2>3, PushAccounts, BufferAccounts, FlushAccounts, ResumeAccounts
       DEF Next, PushEvent
<1>3. QED
  BY <1>1, <1>2, InvHolds, PTL DEF Spec

\* Every event that passed dedup and every one replayed is waiting for a frame
\* that was asked for, was taken by one, or is in one of the three totals, for
\* any set of topics and events (store.ts:67-89, :91-139).
THEOREM TotalsAddUp == Spec => []EventsAccounted
<1>1. Inv /\ Accounted => EventsAccounted
  <2> SUFFICES ASSUME Inv, Accounted PROVE EventsAccounted
    OBVIOUS
  <2>1. DOMAIN passed = Topics /\ DOMAIN taken = Topics /\ DOMAIN Lengths = Topics
    BY DEF Inv, TypeOK, Lengths
  <2>2. Sum(passed) = SumOver(passed, Topics) /\ Sum(taken) = SumOver(taken, Topics)
        /\ Sum(Lengths) = SumOver(Lengths, Topics)
    BY <2>1, SumIsOver
  <2>3. QED
    BY <2>2 DEF Accounted, EventsAccounted, Lengths
<1>2. QED
  BY <1>1, InvHolds, AccountedHolds, PTL

-----------------------------------------------------------------------------
(* The dedup map *)

Keys == Events \X {"id", "resume"}
NoRepeats(r) == \A i, j \in 1 .. Len(r) : r[i] = r[j] => i = j

\* The map l holds the last keys of the line r, all of them but d.
EndOf(l, r, d) ==
  /\ Len(r) = d + Len(l)
  /\ Len(l) <= DedupEntries
  /\ d # 0 => Len(l) = DedupEntries
  /\ \A i \in 1 .. Len(l) : l[i] = r[d + i]
Windowed(l, r) ==
  l \in Seq(Keys) /\ r \in Seq(Keys) /\ NoRepeats(r) /\ \E d \in Nat : EndOf(l, r, d)

\* Of keys without repetition, ToEnd takes out the one place and adds another.
Closed(s, t, p, k) ==
  \A i \in 1 .. Len(s) :
    t[i] = IF i < p THEN s[i] ELSE IF i < Len(s) THEN s[i + 1] ELSE k

LEMMA MovedToEnd ==
  ASSUME NEW S, NEW s \in Seq(S), NEW p \in 1 .. Len(s),
         \A i \in 1 .. Len(s) : s[i] = s[p] => i = p
  PROVE  /\ ToEnd(s, s[p]) \in Seq(S) /\ Len(ToEnd(s, s[p])) = Len(s)
         /\ Closed(s, ToEnd(s, s[p]), p, s[p])
<1> DEFINE k == s[p]
<1>1. PICK n \in Nat \ {0} : n = Len(s) /\ p \in 1 .. n
  BY LenProperties
<1>2. SelectInSeq(s, LAMBDA v : v = k) = p
  <2>1. {i \in 1 .. Len(s) : s[i] = k} = {p}
    OBVIOUS
  <2>2. Min({p}) = p
    BY <1>1 DEF Min
  <2>3. QED
    BY <2>1, <2>2 DEF SelectInSeq
<1>3. RemoveFirst(s, k) = SubSeq(s, 1, p - 1) \o SubSeq(s, p + 1, Len(s))
  BY <1>2 DEF RemoveFirst, RemoveAt
<1> DEFINE a == SubSeq(s, 1, p - 1)
           b == SubSeq(s, p + 1, n)
<1>4. \A i \in 1 .. n : s[i] \in S
  BY <1>1, ElementOfSeq
<1>5. /\ a \in Seq(S) /\ Len(a) = p - 1
      /\ \A i \in 1 .. p - 1 : a[i] = s[i]
  <2>1. \A i \in 1 .. p - 1 : s[i] \in S
    BY <1>1, <1>4
  <2>2. PICK m \in Nat : m = p - 1 /\ m - 1 + 1 = m /\ (\A i \in 1 .. m : 1 + i - 1 = i)
                         /\ (~(1 <= m) => m = 0)
    BY <1>1
  <2>3. /\ SubSeq(s, 1, m) \in Seq(S) /\ Len(SubSeq(s, 1, m)) = IF 1 <= m THEN m - 1 + 1 ELSE 0
        /\ \A i \in 1 .. m - 1 + 1 : SubSeq(s, 1, m)[i] = s[1 + i - 1]
    BY <2>1, <2>2, SubSeqProperties
  <2>4. QED
    BY <2>2, <2>3
<1>6. /\ b \in Seq(S) /\ Len(b) = n - p
      /\ \A i \in 1 .. n - p : b[i] = s[p + i]
  <2>1. PICK m \in Nat : m = p + 1 /\ n - m + 1 = n - p /\ (\A i \in Nat : m + i - 1 = p + i)
                         /\ (~(m <= n) => n - p = 0)
    BY <1>1
  <2>2. \A i \in m .. n : s[i] \in S
    BY <1>1, <1>4, <2>1
  <2>3. /\ SubSeq(s, m, n) \in Seq(S)
        /\ Len(SubSeq(s, m, n)) = IF m <= n THEN n - m + 1 ELSE 0
        /\ \A i \in 1 .. n - m + 1 : SubSeq(s, m, n)[i] = s[m + i - 1]
    BY <2>2, SubSeqProperties
  <2>4. QED
    BY <2>1, <2>3
<1> HIDE DEF a, b
<1> DEFINE q == a \o b
<1>7. /\ q \in Seq(S) /\ Len(q) = Len(a) + Len(b)
      /\ \A i \in 1 .. Len(a) + Len(b) : q[i] = IF i <= Len(a) THEN a[i] ELSE b[i - Len(a)]
  BY <1>5, <1>6, ConcatProperties
<1>8. Len(q) = n - 1
  BY <1>1, <1>5, <1>6, <1>7
<1>9. ASSUME NEW i \in 1 .. n - 1 PROVE q[i] = IF i < p THEN s[i] ELSE s[i + 1]
  <2>1. i \in 1 .. Len(a) + Len(b) /\ (i <= Len(a) <=> i < p)
    BY <1>1, <1>5, <1>6
  <2>2. CASE i < p
    <3>1. i \in 1 .. p - 1
      BY <1>1, <2>2
    <3>2. QED
      BY <1>5, <1>7, <2>1, <2>2, <3>1
  <2>3. CASE ~(i < p)
    <3>1. i - (p - 1) \in 1 .. n - p /\ p + (i - (p - 1)) = i + 1
      BY <1>1, <2>3
    <3>2. b[i - (p - 1)] = s[i + 1]
      BY <1>6, <3>1
    <3>3. QED
      BY <1>5, <1>7, <2>1, <2>3, <3>2
  <2>4. QED
    BY <2>2, <2>3
<1>10. ToEnd(s, k) = Append(q, k) /\ k \in S
  BY <1>1, <1>3, <1>4 DEF ToEnd, a, b
<1> HIDE DEF q, k
<1>11. /\ Append(q, k) \in Seq(S) /\ Len(Append(q, k)) = Len(q) + 1
       /\ Append(q, k)[Len(q) + 1] = k
       /\ \A i \in 1 .. Len(q) : Append(q, k)[i] = q[i]
  BY <1>7, <1>10, AppendProperties
<1>12. Len(Append(q, k)) = n /\ Append(q, k)[n] = k
  <2>1. n - 1 + 1 = n
    BY <1>1
  <2>2. QED
    BY <1>8, <1>11, <2>1
<1>13. Closed(s, Append(q, k), p, k)
  <2> SUFFICES ASSUME NEW i \in 1 .. n
               PROVE  Append(q, k)[i] = IF i < p THEN s[i] ELSE IF i < n THEN s[i + 1] ELSE k
    BY <1>1 DEF Closed
  <2>1. CASE i = n
    BY <1>1, <1>12, <2>1
  <2>2. CASE i # n
    <3>1. i \in 1 .. n - 1 /\ i < n
      BY <2>2
    <3>2. QED
      BY <1>8, <1>9, <1>11, <3>1
  <2>3. QED
    BY <2>1, <2>2
<1>14. QED
  BY <1>1, <1>10, <1>11, <1>12, <1>13 DEF k

Rotates(s, k, p) == ToEnd(s, k) \in Seq(Keys) /\ Len(ToEnd(s, k)) = Len(s)
                    /\ Closed(s, ToEnd(s, k), p, k)

LEMMA KeyMoves ==
  ASSUME NEW s \in Seq(Keys), NEW p \in 1 .. Len(s), NEW k, s[p] = k,
         \A i \in 1 .. Len(s) : s[i] = s[p] => i = p
  PROVE  Rotates(s, k, p)
BY MovedToEnd DEF Rotates

LEMMA AddedAtEnd ==
  ASSUME NEW S, NEW s \in Seq(S), NEW k \in S, \A i \in 1 .. Len(s) : s[i] # k
  PROVE  ToEnd(s, k) = Append(s, k)
BY DEF ToEnd, RemoveFirst

\* The line goes on without repetition.
LEMMA LineGoesOn ==
  ASSUME NEW S, NEW r \in Seq(S), NoRepeats(r), NEW k \in S
  PROVE  ToEnd(r, k) \in Seq(S) /\ NoRepeats(ToEnd(r, k))
<1> DEFINE t == ToEnd(r, k)
<1>1. PICK n \in Nat : n = Len(r)
  BY LenProperties
<1>2. CASE \E p \in 1 .. n : r[p] = k
  <2>1. PICK p \in 1 .. n : r[p] = k
    BY <1>2
  <2>2. \A i \in 1 .. n : r[i] = k => i = p
    BY <1>1, <2>1 DEF NoRepeats
  <2>3. t \in Seq(S) /\ Len(t) = n /\ Closed(r, t, p, k)
    BY <1>1, <2>1, <2>2, MovedToEnd
  <2> HIDE DEF t
  <2>4. ASSUME NEW i \in 1 .. n, NEW j \in 1 .. n, t[i] = t[j] PROVE i = j
    <3> DEFINE At(x) == IF x < p THEN x ELSE IF x < n THEN x + 1 ELSE p
    <3>1. \A x \in 1 .. n : At(x) \in 1 .. n
      OBVIOUS
    <3>2. \A x \in 1 .. n : t[x] = r[At(x)]
      BY <1>1, <2>1, <2>3 DEF Closed
    <3>3. At(i) = At(j) => i = j
      OBVIOUS
    <3> HIDE DEF At
    <3>4. PICK u \in 1 .. n, v \in 1 .. n : u = At(i) /\ v = At(j)
      BY <3>1
    <3>5. r[u] = r[v]
      BY <2>4, <3>2, <3>4
    <3>6. u = v
      BY <1>1, <3>5 DEF NoRepeats
    <3>7. QED
      BY <3>3, <3>4, <3>6
  <2>5. QED
    BY <2>3, <2>4 DEF NoRepeats, t
<1>3. CASE \A p \in 1 .. n : r[p] # k
  <2>1. t = Append(r, k)
    BY <1>1, <1>3, AddedAtEnd
  <2>2. /\ t \in Seq(S) /\ Len(t) = n + 1 /\ t[n + 1] = k
        /\ \A i \in 1 .. n : t[i] = r[i]
    BY <1>1, <2>1, AppendProperties
  <2> HIDE DEF t
  <2>3. ASSUME NEW i \in 1 .. n + 1, NEW j \in 1 .. n + 1, t[i] = t[j] PROVE i = j
    <3>1. (i \in 1 .. n \/ i = n + 1) /\ (j \in 1 .. n \/ j = n + 1)
      OBVIOUS
    <3>2. QED
      BY <1>1, <1>3, <2>2, <2>3, <3>1 DEF NoRepeats
  <2>4. QED
    BY <2>2, <2>3 DEF NoRepeats, t
<1>4. QED
  BY <1>2, <1>3

\* Seeing a key once more keeps the map at the end of the line: it moves a key
\* it holds, makes room for one that had left it, or for a new one.
LEMMA SeenAgain ==
  ASSUME NEW l, NEW r, Windowed(l, r), NEW k \in Keys
  PROVE  Windowed(Add(l, k), ToEnd(r, k))
<1> DEFINE t == ToEnd(r, k)
           m == Add(l, k)
<1>1. l \in Seq(Keys) /\ r \in Seq(Keys) /\ NoRepeats(r)
  BY DEF Windowed
<1>2. PICK d \in Nat : EndOf(l, r, d)
  BY DEF Windowed
<1>3. t \in Seq(Keys) /\ NoRepeats(t)
  BY <1>1, LineGoesOn
<1>4. PICK w \in Nat : w = Len(l)
  BY <1>1, LenProperties
<1>5. PICK n \in Nat : n = Len(r) /\ n = d + w
  BY <1>1, <1>2, <1>4, LenProperties DEF EndOf
<1>6. /\ w <= DedupEntries /\ (d # 0 => w = DedupEntries)
      /\ \A i \in 1 .. w : l[i] = r[d + i]
  BY <1>2, <1>4 DEF EndOf
<1> SUFFICES m \in Seq(Keys) /\ \E e \in Nat : EndOf(m, t, e)
  BY <1>3 DEF Windowed
<1>7. ASSUME NEW j \in 1 .. w, l[j] = k
      PROVE  m \in Seq(Keys) /\ \E e \in Nat : EndOf(m, t, e)
  <2>1. PICK p \in 1 .. n : p = d + j
    BY <1>5
  <2>2. r[p] = k /\ \A i \in 1 .. n : r[i] = r[p] => i = p
    BY <1>1, <1>5, <1>6, <1>7, <2>1 DEF NoRepeats
  <2>3. ASSUME NEW i \in 1 .. w, l[i] = l[j] PROVE i = j
    <3>1. PICK u \in 1 .. n : u = d + i
      BY <1>5
    <3>2. r[u] = r[p]
      BY <1>6, <2>1, <2>3, <3>1
    <3>3. QED
      BY <2>1, <2>2, <3>1, <3>2
  <2>4. m = ToEnd(l, k)
    BY <1>4, <1>7 DEF Add, Contains, Touch
  <2>5. m \in Seq(Keys) /\ Len(m) = w /\ Closed(l, m, j, k)
    <3>1. /\ l \in Seq(Keys) /\ j \in 1 .. Len(l) /\ l[j] = k
          /\ \A i \in 1 .. Len(l) : l[i] = l[j] => i = j
      BY <1>1, <1>4, <1>7, <2>3
    <3>2. Rotates(l, k, j)
      BY ONLY <3>1, KeyMoves
    <3>3. QED
      BY <1>4, <2>4, <3>2 DEF Rotates
  <2>6. Len(t) = n /\ Closed(r, t, p, k)
    <3>1. /\ r \in Seq(Keys) /\ p \in 1 .. Len(r) /\ r[p] = k
          /\ \A i \in 1 .. Len(r) : r[i] = r[p] => i = p
      BY <1>1, <1>5, <2>2
    <3>2. Rotates(r, k, p)
      BY ONLY <3>1, KeyMoves
    <3>3. QED
      BY <1>5, <3>2 DEF Rotates
  <2> HIDE DEF m, t
  <2>7. ASSUME NEW i \in 1 .. w PROVE m[i] = t[d + i]
    <3>1. PICK u \in 1 .. n : u = d + i
      BY <1>5
    <3>2. /\ m[i] = IF i < j THEN l[i] ELSE IF i < w THEN l[i + 1] ELSE k
          /\ t[u] = IF u < p THEN r[u] ELSE IF u < n THEN r[u + 1] ELSE k
      BY <1>4, <1>5, <2>5, <2>6 DEF Closed
    <3>3. (i < j <=> u < p) /\ (i < w <=> u < n)
      BY <1>5, <2>1, <3>1
    <3>4. l[i] = r[u]
      BY <1>6, <3>1
    <3>5. i < w => l[i + 1] = r[u + 1]
      <4>1. i < w => i + 1 \in 1 .. w /\ d + (i + 1) = u + 1
        BY <3>1
      <4>2. QED
        BY <1>6, <4>1
    <3>6. QED
      BY <3>1, <3>2, <3>3, <3>4, <3>5
  <2>8. EndOf(m, t, d)
    BY <1>5, <1>6, <2>5, <2>6, <2>7 DEF EndOf
  <2>9. QED
    BY <2>5, <2>8
<1>8. ASSUME \A j \in 1 .. w : l[j] # k
      PROVE  m \in Seq(Keys) /\ \E e \in Nat : EndOf(m, t, e)
  <2> DEFINE s == IF w >= DedupEntries THEN Tail(l) ELSE l
             x == IF w >= DedupEntries THEN 1 ELSE 0
  <2>1. m = Append(s, k)
    BY <1>4, <1>8 DEF Add, Contains
  <2>2. DedupEntries \in Nat \ {0}
    BY StoreAssumption
  <2>3. PICK v \in Nat : v + x = w
    BY <2>2
  <2>4. s \in Seq(Keys) /\ Len(s) = v /\ \A i \in 1 .. v : s[i] = l[i + x]
    <3>1. CASE w >= DedupEntries
      <4>1. l # <<>>
        BY <1>4, <2>2, <3>1, EmptySeq
      <4>2. /\ Tail(l) \in Seq(Keys) /\ Len(Tail(l)) = Len(l) - 1
            /\ \A i \in 1 .. Len(Tail(l)) : Tail(l)[i] = l[i + 1]
        BY <1>1, <4>1, HeadTailProperties
      <4>3. Len(l) - 1 = v
        BY <1>4, <2>3, <3>1
      <4>4. QED
        BY <3>1, <4>2, <4>3
    <3>2. CASE ~(w >= DedupEntries)
      <4>1. v = w /\ \A i \in 1 .. v : i + x = i
        BY <2>3, <3>2
      <4>2. s = l
        BY <3>2
      <4>3. QED
        BY <1>1, <1>4, <4>1, <4>2
    <3>3. QED
      BY <3>1, <3>2
  <2> HIDE DEF s, m, t
  <2>5. /\ m \in Seq(Keys) /\ Len(m) = v + 1 /\ m[v + 1] = k
        /\ \A i \in 1 .. v : m[i] = s[i]
    BY <2>1, <2>4, AppendProperties
  <2>6. \A i \in 1 .. v : m[i] = r[(d + x) + i]
    <3> SUFFICES ASSUME NEW i \in 1 .. v PROVE m[i] = r[(d + x) + i]
      OBVIOUS
    <3>1. i + x \in 1 .. w /\ d + (i + x) = (d + x) + i
      BY <2>3
    <3>2. l[i + x] = r[(d + x) + i]
      BY <1>6, <3>1
    <3>3. QED
      BY <2>4, <2>5, <3>2
  <2>7. CASE \A i \in 1 .. n : r[i] # k
    <3>1. t = Append(r, k)
      BY <1>1, <1>5, <2>7, AddedAtEnd DEF t
    <3>2. /\ Len(t) = n + 1 /\ t[n + 1] = k
          /\ \A i \in 1 .. n : t[i] = r[i]
      <4>1. /\ Len(Append(r, k)) = Len(r) + 1 /\ Append(r, k)[Len(r) + 1] = k
            /\ \A i \in 1 .. Len(r) : Append(r, k)[i] = r[i]
        BY <1>1, AppendProperties
      <4>2. QED
        BY <1>5, <3>1, <4>1
    <3>3. PICK e \in Nat : e = d + x
      OBVIOUS
    <3>4. n + 1 = e + (v + 1) /\ v + 1 <= DedupEntries /\ (e # 0 => v + 1 = DedupEntries)
      BY <1>5, <1>6, <2>2, <2>3, <3>3
    <3>5. ASSUME NEW i \in 1 .. v + 1 PROVE m[i] = t[e + i]
      <4>1. CASE i = v + 1
        <5>1. e + i = n + 1
          BY <3>4, <4>1
        <5>2. QED
          BY <2>5, <3>2, <4>1, <5>1
      <4>2. CASE i # v + 1
        <5>1. i \in 1 .. v /\ e + i \in 1 .. n
          BY <3>4, <4>2
        <5>2. QED
          BY <2>6, <3>2, <3>3, <5>1
      <4>3. QED
        BY <4>1, <4>2
    <3>6. EndOf(m, t, e)
      BY <2>5, <3>2, <3>4, <3>5 DEF EndOf
    <3>7. QED
      BY <2>5, <3>6
  <2>8. ASSUME NEW p \in 1 .. n, r[p] = k
        PROVE  m \in Seq(Keys) /\ \E e \in Nat : EndOf(m, t, e)
    <3>1. \A i \in 1 .. n : r[i] = r[p] => i = p
      BY <1>1, <1>5 DEF NoRepeats
    <3>2. Len(t) = n /\ Closed(r, t, p, k)
      <4>1. /\ r \in Seq(Keys) /\ p \in 1 .. Len(r) /\ r[p] = k
            /\ \A i \in 1 .. Len(r) : r[i] = r[p] => i = p
        BY <1>1, <1>5, <2>8, <3>1
      <4>2. Rotates(r, k, p)
        BY ONLY <4>1, KeyMoves
      <4>3. QED
        BY <1>5, <4>2 DEF Rotates, t
    <3>3. p <= d
      <4>1. SUFFICES ASSUME ~(p <= d) PROVE FALSE
        OBVIOUS
      <4>2. PICK j \in 1 .. w : d + j = p
        <5>1. p - d \in 1 .. w /\ d + (p - d) = p
          BY <1>5, <4>1
        <5>2. QED
          BY <5>1
      <4>3. QED
        BY <1>6, <1>8, <2>8, <4>2
    <3>4. x = 1 /\ w = DedupEntries /\ n = d + (v + 1) /\ v + 1 = DedupEntries
      BY <1>5, <1>6, <2>2, <2>3, <3>3
    <3>5. ASSUME NEW i \in 1 .. v + 1 PROVE m[i] = t[d + i]
      <4>1. PICK u \in 1 .. n : u = d + i /\ ~(u < p)
        BY <3>3, <3>4
      <4>2. t[u] = IF u < n THEN r[u + 1] ELSE k
        BY <1>5, <3>2, <4>1 DEF Closed
      <4>3. CASE i = v + 1
        <5>1. u = n
          BY <3>4, <4>1, <4>3
        <5>2. QED
          BY <2>5, <4>1, <4>2, <4>3, <5>1
      <4>4. CASE i # v + 1
        <5>1. i \in 1 .. v /\ u < n /\ (d + x) + i = u + 1
          BY <3>4, <4>1, <4>4
        <5>2. QED
          BY <2>6, <4>1, <4>2, <5>1
      <4>5. QED
        BY <4>3, <4>4
    <3>6. EndOf(m, t, d)
      BY <2>5, <3>2, <3>4, <3>5 DEF EndOf
    <3>7. QED
      BY <2>5, <3>6
  <2>9. QED
    BY <2>7, <2>8
<1>9. QED
  BY <1>7, <1>8

\* The tables that Reenter's recursion can mean: there is one for any length,
\* and each carries the window from one parked event to the next.
Reentered(g, ks, l, r, n) ==
  g = [i \in 0 .. n |-> IF i = 0 THEN <<l, r>>
                        ELSE <<Add(g[i - 1][1], ks[i]), ToEnd(g[i - 1][2], ks[i])>>]

LEMMA SmallestNumber ==
  ASSUME NEW D \in SUBSET Nat, D # {}
  PROVE  \E m \in D : \A n \in D : m <= n
<1>1. PICK m \in D : \A n \in D : <<n, m>> \notin OpToRel(<, Nat)
  BY NatLessThanWellFounded, WFMin
<1>2. \A n \in D : ~(n < m)
  BY <1>1 DEF OpToRel
<1>3. QED
  BY <1>2

LEMMA ReenterStep ==
  ASSUME NEW g, NEW ks, NEW l, NEW r, NEW n \in Nat, Reentered(g, ks, l, r, n),
         NEW i \in 0 .. n
  PROVE  g[i] = IF i = 0 THEN <<l, r>>
                ELSE <<Add(g[i - 1][1], ks[i]), ToEnd(g[i - 1][2], ks[i])>>
BY DEF Reentered

LEMMA ReenterExists ==
  ASSUME NEW ks, NEW l, NEW r, NEW n \in Nat
  PROVE  \E g : Reentered(g, ks, l, r, n)
<1> DEFINE D == {k \in Nat : ~ \E g : Reentered(g, ks, l, r, k)}
<1>1. SUFFICES ASSUME D # {} PROVE FALSE
  OBVIOUS
<1>2. PICK k \in D : \A m \in D : k <= m
  <2>1. D \in SUBSET Nat
    OBVIOUS
  <2> HIDE DEF D
  <2>2. QED
    BY <1>1, <2>1, SmallestNumber
<1>3. k # 0
  <2> DEFINE g == [i \in 0 .. 0 |-> <<l, r>>]
  <2>1. \A i \in 0 .. 0 : i = 0
    OBVIOUS
  <2>2. g = [i \in 0 .. 0 |-> IF i = 0 THEN <<l, r>>
                ELSE <<Add(g[i - 1][1], ks[i]), ToEnd(g[i - 1][2], ks[i])>>]
    BY <2>1
  <2> HIDE DEF g
  <2>3. Reentered(g, ks, l, r, 0)
    BY <2>2 DEF Reentered
  <2>4. QED
    BY <1>2, <2>3
<1>4. k - 1 \in Nat /\ k - 1 \notin D
  <2>1. k - 1 \in Nat /\ ~(k <= k - 1)
    BY <1>2, <1>3
  <2> HIDE DEF D
  <2>2. QED
    BY <1>2, <2>1
<1>5. PICK f : Reentered(f, ks, l, r, k - 1)
  BY <1>4
<1> DEFINE h == [i \in 0 .. k |->
                   IF i = k THEN <<Add(f[k - 1][1], ks[k]), ToEnd(f[k - 1][2], ks[k])>>
                   ELSE f[i]]
<1>6. ASSUME NEW i \in 0 .. k
      PROVE  h[i] = IF i = 0 THEN <<l, r>>
                    ELSE <<Add(h[i - 1][1], ks[i]), ToEnd(h[i - 1][2], ks[i])>>
  <2>1. CASE i = k
    <3>1. k - 1 \in 0 .. k /\ k - 1 # k
      BY <1>3
    <3>2. QED
      BY <1>3, <2>1, <3>1
  <2>2. CASE i # k
    <3>1. i \in 0 .. k - 1
      BY <2>2
    <3>2. f[i] = IF i = 0 THEN <<l, r>>
                 ELSE <<Add(f[i - 1][1], ks[i]), ToEnd(f[i - 1][2], ks[i])>>
      BY <1>4, <1>5, <3>1, ReenterStep
    <3>3. i # 0 => i - 1 \in 0 .. k /\ i - 1 # k
      BY <2>2
    <3>4. QED
      BY <2>2, <3>2, <3>3
  <2>3. QED
    BY <2>1, <2>2
<1>7. Reentered(h, ks, l, r, k)
  <2>1. h = [i \in 0 .. k |-> h[i]]
    OBVIOUS
  <2> HIDE DEF h
  <2>2. QED
    BY <1>6, <2>1 DEF Reentered
<1>8. QED
  BY <1>2, <1>7

LEMMA ReenterKeeps ==
  ASSUME NEW ks, NEW l, NEW r, NEW n \in Nat, NEW g, Reentered(g, ks, l, r, n),
         Windowed(l, r), \A i \in 1 .. n : ks[i] \in Keys
  PROVE  Windowed(g[n][1], g[n][2])
<1> DEFINE D == {k \in 0 .. n : ~Windowed(g[k][1], g[k][2])}
<1>1. SUFFICES ASSUME D # {} PROVE FALSE
  OBVIOUS
<1>2. PICK k \in D : \A m \in D : k <= m
  <2>1. D \in SUBSET Nat
    OBVIOUS
  <2> HIDE DEF D
  <2>2. QED
    BY <1>1, <2>1, SmallestNumber
<1>3. k \in 0 .. n /\ ~Windowed(g[k][1], g[k][2])
  OBVIOUS
<1>4. g[k] = IF k = 0 THEN <<l, r>>
             ELSE <<Add(g[k - 1][1], ks[k]), ToEnd(g[k - 1][2], ks[k])>>
  BY <1>3, ReenterStep
<1>5. k # 0
  BY <1>3, <1>4
<1>6. k - 1 \in 0 .. n /\ k - 1 \notin D /\ k \in 1 .. n
  <2>1. k - 1 \in 0 .. n /\ ~(k <= k - 1) /\ k \in 1 .. n
    BY <1>3, <1>5
  <2> HIDE DEF D
  <2>2. QED
    BY <1>2, <2>1
<1>7. Windowed(g[k - 1][1], g[k - 1][2])
  BY <1>6
<1>8. Windowed(Add(g[k - 1][1], ks[k]), ToEnd(g[k - 1][2], ks[k]))
  BY <1>6, <1>7, SeenAgain
<1>9. QED
  BY <1>3, <1>4, <1>5, <1>8

\* The store has events of its own type where it has one parked.
LEMMA ReenterTyped ==
  ASSUME TypeOK, NEW order \in SetToSeqs(ParkedTopics)
  PROVE  /\ Len(order) \in Nat
         /\ \A i \in 1 .. Len(order) : ResumeKey(parked[order[i]]) \in Keys
<1>1. Cardinality(ParkedTopics) \in Nat
  BY StoreAssumption, FS_Subset, FS_CardinalityType DEF ParkedTopics
<1>2. order \in [1 .. Cardinality(ParkedTopics) -> ParkedTopics]
  BY DEF SetToSeqs
<1>3. order \in Seq(ParkedTopics) /\ Len(order) = Cardinality(ParkedTopics)
  BY <1>1, <1>2
<1>4. \A t \in ParkedTopics : ResumeKey(parked[t]) \in Keys
  BY DEF ParkedTopics, TypeOK, ResumeKey, Keys
<1>5. QED
  BY <1>1, <1>2, <1>3, <1>4

LEMMA ReenterWindowed ==
  ASSUME TypeOK, Windowed(lru, recency), NEW order \in SetToSeqs(ParkedTopics), Reenter(order)
  PROVE  Windowed(lru', recency')
<1> DEFINE n  == Len(order)
           ks == [i \in 1 .. n |-> ResumeKey(parked[order[i]])]
           G(g) == g = [i \in 0 .. n |->
                     IF i = 0 THEN <<lru, recency>>
                     ELSE <<Add(g[i - 1][1], ResumeKey(parked[order[i]])),
                            ToEnd(g[i - 1][2], ResumeKey(parked[order[i]]))>>]
<1>1. n \in Nat /\ \A i \in 1 .. n : ks[i] \in Keys
  BY ReenterTyped
<1>2. \A g : G(g) <=> Reentered(g, ks, lru, recency, n)
  <2> SUFFICES ASSUME NEW g PROVE G(g) <=> Reentered(g, ks, lru, recency, n)
    OBVIOUS
  <2>1. \A i \in 0 .. n : i # 0 => i \in 1 .. n
    BY <1>1
  <2>2. \A i \in 0 .. n : i # 0 => ks[i] = ResumeKey(parked[order[i]])
    BY <2>1
  <2> HIDE DEF ks, n
  <2>3. QED
    BY <2>2 DEF Reentered
<1> DEFINE after == CHOOSE g : G(g)
<1>3. lru' = after[n][1] /\ recency' = after[n][2]
  BY DEF Reenter
<1> HIDE DEF G, ks, n
<1>4. G(after)
  <2>1. \E g : Reentered(g, ks, lru, recency, n)
    BY <1>1, ReenterExists
  <2>2. \E g : G(g)
    BY <1>2, <2>1
  <2>3. QED
    BY <2>2
<1>5. Reentered(after, ks, lru, recency, n)
  BY <1>2, <1>4
<1> HIDE DEF after
<1>6. Windowed(after[n][1], after[n][2])
  BY <1>1, <1>5, ReenterKeeps
<1>7. QED
  BY <1>3, <1>6

LEMMA WindowHolds == Spec => []Windowed(lru, recency)
<1>1. Init => Windowed(lru, recency)
  <2> SUFFICES ASSUME Init PROVE Windowed(lru, recency)
    OBVIOUS
  <2>1. lru = <<>> /\ recency = <<>> /\ Len(<<>>) = 0 /\ <<>> \in Seq(Keys)
    BY EmptySeq DEF Init
  <2>2. EndOf(<<>>, <<>>, 0)
    BY <2>1, StoreAssumption DEF EndOf
  <2>3. QED
    BY <2>1, <2>2 DEF Windowed, NoRepeats
<1>2. TypeOK /\ Windowed(lru, recency) /\ [Next]_vars => Windowed(lru, recency)'
  <2> SUFFICES ASSUME TypeOK, Windowed(lru, recency), [Next]_vars
               PROVE  Windowed(lru', recency')
    OBVIOUS
  <2>1. ASSUME NEW e \in Events, PushEvent(e) PROVE Windowed(lru', recency')
    <3>1. IdOf(e) \in Keys
      BY DEF IdOf, Keys
    <3>2. lru' = Add(lru, IdOf(e)) /\ recency' = ToEnd(recency, IdOf(e))
      BY <2>1 DEF PushEvent, PushDuplicate, Fresh, Add
    <3>3. QED
      BY <3>1, <3>2, SeenAgain
  <2>2. CASE Resume
    BY <2>2, ReenterWindowed DEF Resume
  <2>3. CASE Flush \/ Hide \/ ShowUnnoticed \/ UNCHANGED vars
    BY <2>3 DEF Flush, Hide, ShowUnnoticed, vars
  <2>4. QED
    BY <2>1, <2>2, <2>3 DEF Next
<1>3. Spec => []TypeOK
  BY StoreTypes
<1>4. QED
  BY <1>1, <1>2, <1>3, PTL DEF Spec

\* The dedup map holds the keys seen last, as many as it may, for any events,
\* capacity and order of pushes and replays (lru.ts:1-41, store.ts:157).
THEOREM RepeatsAreCaught == Spec => []DedupWindow
<1>1. Windowed(lru, recency) => DedupWindow
  <2> SUFFICES ASSUME Windowed(lru, recency) PROVE DedupWindow
    OBVIOUS
  <2>1. PICK d \in Nat : EndOf(lru, recency, d)
    BY DEF Windowed
  <2>2. lru \in Seq(Keys) /\ recency \in Seq(Keys)
    BY DEF Windowed
  <2>3. PICK w \in Nat : w = Len(lru)
    BY <2>2, LenProperties
  <2>4. PICK n \in Nat : n = Len(recency) /\ n = d + w
    BY <2>1, <2>2, <2>3, LenProperties DEF EndOf
  <2>5. /\ w <= DedupEntries /\ (d # 0 => w = DedupEntries)
        /\ \A i \in 1 .. w : lru[i] = recency[d + i]
    BY <2>1, <2>3 DEF EndOf
  <2>6. w = IF n < DedupEntries THEN n ELSE DedupEntries
    BY <2>4, <2>5, StoreAssumption
  <2>7. PICK m \in Nat : m = n - w + 1 /\ m = d + 1 /\ n - m + 1 = w
                         /\ (~(m <= n) => w = 0) /\ \A i \in Nat : m + i - 1 = d + i
    BY <2>4
  <2>8. \A i \in m .. n : recency[i] \in Keys
    <3>1. \A i \in m .. n : i \in 1 .. n
      BY <2>7
    <3>2. QED
      BY <2>2, <2>4, <3>1, ElementOfSeq
  <2> DEFINE q == SubSeq(recency, m, n)
  <2>9. /\ q \in Seq(Keys) /\ Len(q) = IF m <= n THEN n - m + 1 ELSE 0
        /\ \A i \in 1 .. n - m + 1 : q[i] = recency[m + i - 1]
    BY <2>8, SubSeqProperties
  <2> HIDE DEF q
  <2>10. Len(q) = w /\ \A i \in 1 .. w : q[i] = lru[i]
    <3>1. Len(q) = w
      BY <2>7, <2>9
    <3>2. ASSUME NEW i \in 1 .. w PROVE q[i] = lru[i]
      <4>1. q[i] = recency[m + i - 1]
        BY <2>7, <2>9
      <4>2. m + i - 1 = d + i
        BY <2>7
      <4>3. QED
        BY <2>5, <4>1, <4>2
    <3>3. QED
      BY <3>1, <3>2
  <2>11. lru = q
    BY <2>2, <2>3, <2>9, <2>10, SeqEqual
  <2>12. q = SubSeq(recency, n - w + 1, n)
    BY <2>7 DEF q
  <2>13. QED
    BY <2>4, <2>6, <2>11, <2>12 DEF DedupWindow
<1>2. QED
  BY <1>1, WindowHolds, PTL
=============================================================================
