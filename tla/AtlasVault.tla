----------------------------- MODULE AtlasVault -----------------------------
(****************************************************************************)
(* Share accounting of the vault program (programs/atlas-vault).            *)
(*                                                                          *)
(* Users deposit a token and receive shares at the net asset value per      *)
(* share, withdraw idle funds by burning shares, and a report sets how much *)
(* is idle and how much is deployed.  Whoever signs may report, and no      *)
(* token moves.  The token accounts belong to the SPL token program         *)
(* (external): anyone can send tokens to the idle account, and a holder can *)
(* send or burn shares, without the vault hearing of it.                    *)
(* Integers are machine integers: the share quotient is computed in u128    *)
(* and cast to u64, which keeps its low 64 bits.  No instruction ever sets  *)
(* `paused`, so it is left out.                                             *)
(****************************************************************************)
EXTENDS Integers, FiniteSetsExt

CONSTANTS
  Users,
  Signers,     \* whoever can sign a transaction
  Rebalancer,  \* the signer that is the rebalancer program's PDA
  U64Max,      \* u64::MAX
  MaxTvl,      \* vault.max_tvl
  Cooldown,    \* vault.rebalance_cooldown_slots
  MaxSlot      \* bound: slots

ASSUME VaultAssumption ==
  /\ IsFiniteSet(Users)
  /\ Rebalancer \in Signers
  /\ U64Max \in Nat /\ MaxTvl \in 0 .. U64Max /\ Cooldown \in Nat /\ MaxSlot \in Nat

VARIABLES
  idle, deployed,  \* vault.total_idle, vault.total_deployed
  shares,          \* vault.shares_outstanding
  lastRebalance,   \* vault.last_rebalance_slot
  balance,         \* external: share tokens held by each user
  tokens,          \* external: token balance of idle_account
  now,             \* Clock slot
  burned,          \* history: share tokens burned without a withdrawal
  attested         \* history: every report so far was the rebalancer's

vaultVars == <<idle, deployed, shares, lastRebalance, balance, tokens, now, burned, attested>>

U64 == 0 .. U64Max

\* Vault::total_assets saturates.
Assets == IF idle + deployed > U64Max THEN U64Max ELSE idle + deployed

\* `as u64` keeps the low bits of a u128.
Cast(x) == x % (U64Max + 1)

\* Shares for a deposit: one for one into an empty vault, else by NAV.  A vault
\* with shares and no assets divides by zero: the instruction aborts.
Quotient(amount) == (amount * shares) \div Assets
QuotientUp(amount) == Cast((amount * shares + Assets - 1) \div Assets)
MintedRoundedUp(amount) == IF shares = 0 THEN amount ELSE QuotientUp(amount)
Minted(amount) == IF shares = 0 THEN amount ELSE Cast(Quotient(amount))

\* Assets paid for burning n shares.
PayoutOfIdle(n) == (n * idle) \div shares
Payout(n) == (n * Assets) \div shares

\* The vault's own books after a withdrawal.
BookWithdrawalAtPar(amount, n) == idle' = idle - n /\ shares' = shares - n
BookWithdrawal(amount, n) == idle' = idle - amount /\ shares' = shares - n

Deposit(u, amount) ==
  /\ amount > 0
  /\ Assets + amount <= MaxTvl
  /\ shares # 0 => Assets # 0
  /\ Minted(amount) > 0
  /\ shares + Minted(amount) <= U64Max   \* checked_add
  /\ tokens + amount <= U64Max           \* the token program's limit
  /\ tokens'  = tokens + amount
  /\ balance' = [balance EXCEPT ![u] = @ + Minted(amount)]
  /\ idle'    = idle + amount
  /\ shares'  = shares + Minted(amount)
  /\ UNCHANGED <<deployed, lastRebalance, now, burned, attested>>

\* The burn fails if the user holds fewer shares, the transfer if the idle
\* account holds fewer tokens; either undoes the whole instruction.
Withdraw(u, n) ==
  /\ n > 0
  /\ shares # 0
  /\ Payout(n) <= idle                   \* else InsufficientIdleLiquidity
  /\ n <= balance[u]
  /\ Payout(n) <= tokens
  /\ balance' = [balance EXCEPT ![u] = @ - n]
  /\ tokens'  = tokens - Payout(n)
  /\ BookWithdrawal(Payout(n), n)
  /\ UNCHANGED <<deployed, lastRebalance, now, burned, attested>>

\* record_rebalance: the account `rebalancer` is any signer, and the two totals
\* are whatever it says.
RecordRebalance(by, newIdle, newDeployed) ==
  /\ now - lastRebalance >= Cooldown
  /\ idle' = newIdle
  /\ deployed' = newDeployed
  /\ lastRebalance' = now
  /\ attested' = (attested /\ by = Rebalancer)
  /\ UNCHANGED <<shares, balance, tokens, now, burned>>

\* The token program at work without the vault: tokens sent to the idle account,
\* shares sent by one holder to another, shares burned by their holder.
SendTokens(amount) ==
  /\ tokens + amount <= U64Max
  /\ tokens' = tokens + amount
  /\ UNCHANGED <<idle, deployed, shares, lastRebalance, balance, now, burned, attested>>

SendShares(u, w, n) ==
  /\ u # w
  /\ n <= balance[u]
  /\ balance' = [balance EXCEPT ![u] = @ - n, ![w] = @ + n]
  /\ UNCHANGED <<idle, deployed, shares, lastRebalance, tokens, now, burned, attested>>

BurnShares(u, n) ==
  /\ n <= balance[u]
  /\ balance' = [balance EXCEPT ![u] = @ - n]
  /\ burned' = burned + n
  /\ UNCHANGED <<idle, deployed, shares, lastRebalance, tokens, now, attested>>

Tick ==
  /\ now < MaxSlot
  /\ now' = now + 1
  /\ UNCHANGED <<idle, deployed, shares, lastRebalance, balance, tokens, burned, attested>>

\* init_vault
VaultInit ==
  /\ idle = 0 /\ deployed = 0 /\ shares = 0 /\ lastRebalance = 0
  /\ balance = [u \in Users |-> 0]
  /\ tokens = 0 /\ now = 0
  /\ burned = 0 /\ attested = TRUE

\* The rebalancer is assumed to report no more idle tokens than the idle account
\* holds.  Nothing is assumed of the other signers.
Truthful(by, newIdle) == by = Rebalancer => newIdle <= tokens

VaultNext ==
  \/ \E u \in Users, amount \in 0 .. MaxTvl : Deposit(u, amount)
  \/ \E u \in Users, n \in 0 .. shares : Withdraw(u, n)
  \/ \E by \in Signers, newIdle \in U64, newDeployed \in U64 :
       Truthful(by, newIdle) /\ RecordRebalance(by, newIdle, newDeployed)
  \/ \E amount \in U64 : SendTokens(amount)
  \/ \E u \in Users, w \in Users, n \in U64 : SendShares(u, w, n)
  \/ \E u \in Users, n \in U64 : BurnShares(u, n)
  \/ Tick

VaultSpec == VaultInit /\ [][VaultNext]_vaultVars

-----------------------------------------------------------------------------
(* Properties *)

\* Every variable fits the integer type the program declares.
VaultTypeOK ==
  /\ idle \in U64 /\ deployed \in U64 /\ shares \in U64 /\ tokens \in U64
  /\ balance \in [Users -> U64] /\ burned \in U64
  /\ lastRebalance \in 0 .. now /\ now \in 0 .. MaxSlot
  /\ attested \in BOOLEAN

\* The vault's counters are backed.  Every outstanding share is in somebody's
\* account or was burned there; and as long as only the rebalancer has reported,
\* every idle unit is in the idle account, so an exit the books cover is paid.
\* lib.rs:161 says that nobody else can report; the code lets any signer.
BooksBalance ==
  /\ shares = MapThenSumSet(LAMBDA u : balance[u], Users) + burned
  /\ attested => idle <= tokens

\* Deposits and withdrawals never dilute the shares that stay: the net asset
\* value per share, as a fraction, does not fall in a step that mints or burns,
\* whatever was rounded, truncated or saturated, and whatever was reported.
NoDilution ==
  [][shares' # shares /\ shares # 0 /\ shares' # 0
       => Assets' * shares >= Assets * shares']_vaultVars

\* When the last share is redeemed, nothing is left behind: the last holder
\* takes all the assets on the books, or cannot leave while some are deployed.
\* That takes books whose total fits: of a saturated one the rest would stay.
NothingStranded ==
  [][shares # 0 /\ shares' = 0 /\ idle + deployed <= U64Max
       => idle' = 0 /\ deployed' = 0]_vaultVars
=============================================================================
