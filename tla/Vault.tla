-------------------------------- MODULE Vault --------------------------------
(***************************************************************************)
(* A flash loan vault (contracts/liquidity_hub/vault-network/vault): users  *)
(* deposit one asset for shares of the vault, borrowers take it for the     *)
(* length of one transaction, and the fees of loans go to the holders of    *)
(* shares, to the protocol and out of circulation.                          *)
(*                                                                          *)
(* A loan is a call of the borrower's contract, which may call the vault    *)
(* again.  loans is the stack of these calls; while it is not empty, only   *)
(* the innermost borrower acts.  A call that fails is undone with all that  *)
(* happened in it, and the caller may go on: every entry keeps the state to *)
(* return to.  Any other failing call is no step.                           *)
(***************************************************************************)
EXTENDS Integers, Sequences, FiniteSets, Sums

CONSTANTS
  Users,        \* depositors and borrowers
  Admins,       \* addresses that may become the owner
  Switches,     \* settings of the enabled flags the owner uses
  Fees,         \* fees the owner uses, in units of 1/FeeUnit
  FeeUnit,      \* the atomics of Decimal::one()
  Funds,        \* the asset each user holds at first
  MaxDepth,     \* bound on loans within loans
  MaxAllTime    \* bound on the protocol fees ever collected

ASSUME VaultAssumption ==
  /\ IsFiniteSet(Users)
  /\ Switches \subseteq [flash_loan : BOOLEAN, deposit : BOOLEAN, withdraw : BOOLEAN]
  /\ Fees \subseteq [protocol : Nat, flash_loan : Nat, burn : Nat]
  /\ FeeUnit \in Nat \ {0}
  /\ Funds \in [Users -> Nat]
  /\ MaxDepth \in Nat
  /\ MaxAllTime \in Nat

VARIABLES
  vault_config,   \* CONFIG: owner, enabled flags, fees
  loan_counter,   \* LOAN_COUNTER
  collected,      \* COLLECTED_PROTOCOL_FEES
  all_time,       \* ALL_TIME_COLLECTED_PROTOCOL_FEES
  burned,         \* ALL_TIME_BURNED_FEES
  vault_balance,  \* the vault's balance of its asset
  lp,             \* the balances of the liquidity token
  wallet,         \* the users' balances of the asset
  fee_collector,  \* what the fee collector has been sent
  loans           \* the loans in progress, the innermost last

vault_vars == <<loan_counter, collected, all_time, burned, vault_balance, lp,
                wallet, fee_collector>>
vars == <<vault_config, vault_vars, loans>>

-----------------------------------------------------------------------------
TotalSupply == Sum(lp, Users)

(* The part of the balance that belongs to the holders of shares. *)
Pool == vault_balance - collected

(* Fee::compute *)
Compute(share, amount) == (amount * share) \div FeeUnit

(* VaultFee::is_valid: each fee and all fees together stay below the whole. *)
ValidFeesEach(f) ==                                              \* mutant
  f.protocol < FeeUnit /\ f.flash_loan < FeeUnit /\ f.burn < FeeUnit
ValidFees(f) == f.protocol + f.flash_loan + f.burn < FeeUnit

Innermost == loans[Len(loans)]

(* Between transactions anyone may act, inside one its innermost borrower.  *)
MayAct(u) == loans # <<>> => Innermost.borrower = u

(* What undoing a call restores. *)
Snapshot ==
  [loan_counter |-> loan_counter, collected |-> collected, all_time |-> all_time,
   burned |-> burned, vault_balance |-> vault_balance, lp |-> lp,
   wallet |-> wallet, fee_collector |-> fee_collector]

Init ==
  /\ vault_config \in [owner : Admins, fees : {f \in Fees : ValidFees(f)},
                       enabled : {[flash_loan |-> TRUE, deposit |-> TRUE,
                                   withdraw |-> TRUE]}]
  /\ loan_counter = 0 /\ collected = 0 /\ all_time = 0 /\ burned = 0
  /\ vault_balance = 0 /\ fee_collector = 0
  /\ lp = [u \in Users |-> 0]
  /\ wallet = Funds
  /\ loans = <<>>

-----------------------------------------------------------------------------
(* Shares *)

(* The shares a deposit is worth: 1:1 for the first, afterwards in          *)
(* proportion to the pool before the deposit.                               *)
SharesFor(amount) ==
  IF TotalSupply = 0 THEN amount ELSE (amount * TotalSupply) \div Pool

(* Deposits are refused while a loan is being performed. *)
DepositAllowedInLoan ==                                          \* mutant
  vault_config.enabled.deposit
DepositAllowed == vault_config.enabled.deposit /\ loan_counter = 0

(* Deposit: minting nothing fails, and so does a share of an empty pool.    *)
Deposit(u, amount) ==
  /\ MayAct(u)
  /\ amount \in 1..wallet[u]
  /\ DepositAllowed
  /\ TotalSupply # 0 => Pool > 0
  /\ SharesFor(amount) > 0
  /\ lp' = [lp EXCEPT ![u] = @ + SharesFor(amount)]
  /\ wallet' = [wallet EXCEPT ![u] = @ - amount]
  /\ vault_balance' = vault_balance + amount
  /\ UNCHANGED <<vault_config, loan_counter, collected, all_time, burned,
                 fee_collector, loans>>

(* The part of the pool that shares are worth: a Decimal times the pool,    *)
(* rounded down twice.                                                      *)
AssetShare(amount) == (((amount * FeeUnit) \div TotalSupply) * Pool) \div FeeUnit

(* Withdraw, sent with the shares, which are burned; sending nothing fails. *)
(* It is not refused during a loan.                                         *)
Withdraw(u, amount) ==
  /\ MayAct(u)
  /\ amount \in 1..lp[u]
  /\ vault_config.enabled.withdraw
  /\ Pool >= 0
  /\ AssetShare(amount) > 0
  /\ lp' = [lp EXCEPT ![u] = @ - amount]
  /\ wallet' = [wallet EXCEPT ![u] = @ + AssetShare(amount)]
  /\ vault_balance' = vault_balance - AssetShare(amount)
  /\ UNCHANGED <<vault_config, loan_counter, collected, all_time, burned,
                 fee_collector, loans>>

-----------------------------------------------------------------------------
(* Loans *)

(* The vault's part of a loan: the asset goes to the borrower. *)
Lend(u, amount) ==
  /\ Len(loans) < MaxDepth /\ all_time < MaxAllTime           \* bounds
  /\ vault_config.enabled.flash_loan
  /\ amount \in 1..vault_balance
  /\ loan_counter' = loan_counter + 1
  /\ vault_balance' = vault_balance - amount
  /\ wallet' = [wallet EXCEPT ![u] = @ + amount]
  /\ loans' = Append(loans, [borrower |-> u, old_balance |-> vault_balance,
                             loan_amount |-> amount, nested |-> FALSE,
                             before |-> Snapshot])
  /\ UNCHANGED <<vault_config, collected, all_time, burned, lp, fee_collector>>

(* FlashLoan: the borrower's contract is called with the asset. *)
FlashLoan(u, amount) == MayAct(u) /\ Lend(u, amount)

(* A plain transfer to the vault: a repayment, or a gift. *)
Transfer(u, amount) ==
  /\ MayAct(u)
  /\ amount \in 1..wallet[u]
  /\ wallet' = [wallet EXCEPT ![u] = @ - amount]
  /\ vault_balance' = vault_balance + amount
  /\ UNCHANGED <<vault_config, loan_counter, collected, all_time, burned, lp,
                 fee_collector, loans>>

ProtocolFee == Compute(vault_config.fees.protocol, Innermost.loan_amount)
FlashLoanFee == Compute(vault_config.fees.flash_loan, Innermost.loan_amount)
BurnFee == Compute(vault_config.fees.burn, Innermost.loan_amount)

(* The balance after_trade asks for. *)
Required == Innermost.old_balance + ProtocolFee + FlashLoanFee + BurnFee

(* LOAN_COUNTER once the loan is paid back: saturating_sub. *)
CounterReset == 0                                                \* mutant
CounterAfter == IF loan_counter = 0 THEN 0 ELSE loan_counter - 1

(* The loans still in progress when the innermost is over; the one around   *)
(* it has then had a loan inside.                                           *)
LoansAfter ==
  LET n == Len(loans) - 1 IN
  [i \in 1..n |-> IF i = n THEN [loans[i] EXCEPT !.nested = TRUE] ELSE loans[i]]

(* after_trade, called by the vault itself when the borrower's call is over *)
AfterTrade ==
  /\ loans # <<>>
  /\ Required <= vault_balance
  /\ collected' = collected + ProtocolFee
  /\ all_time' = all_time + ProtocolFee
  /\ loan_counter' = CounterAfter
  /\ burned' = burned + BurnFee
  /\ vault_balance' = vault_balance - BurnFee
  /\ loans' = LoansAfter
  /\ UNCHANGED <<vault_config, lp, wallet, fee_collector>>

(* The innermost loan fails, because its borrower does or because it is not *)
(* paid back; what happened since is undone.                                *)
Fail ==
  /\ loans # <<>>
  /\ LET before == Innermost.before IN
     /\ loan_counter' = before.loan_counter
     /\ collected' = before.collected
     /\ all_time' = before.all_time
     /\ burned' = before.burned
     /\ vault_balance' = before.vault_balance
     /\ lp' = before.lp
     /\ wallet' = before.wallet
     /\ fee_collector' = before.fee_collector
  /\ loans' = SubSeq(loans, 1, Len(loans) - 1)
  /\ UNCHANGED vault_config

-----------------------------------------------------------------------------
(* COLLECTED_PROTOCOL_FEES once they have been sent. *)
CollectedKept == collected                                       \* mutant
CollectedAfter == 0

(* CollectProtocolFees: by anyone, at any time. *)
CollectProtocolFees ==
  /\ collected <= vault_balance
  /\ collected' = CollectedAfter
  /\ vault_balance' = vault_balance - collected
  /\ fee_collector' = fee_collector + collected
  /\ UNCHANGED <<vault_config, loan_counter, all_time, burned, lp, wallet, loans>>

(* UpdateConfig: by the owner. *)
UpdateConfig(sender, owner, enabled, fees) ==
  /\ loans = <<>>
  /\ sender = vault_config.owner
  /\ ValidFees(fees)
  /\ vault_config' = [owner |-> owner, enabled |-> enabled, fees |-> fees]
  /\ UNCHANGED <<vault_vars, loans>>

Next ==
  \/ \E u \in Users :
       \/ \E amount \in 1..wallet[u] : Deposit(u, amount) \/ Transfer(u, amount)
       \/ \E amount \in 1..lp[u] : Withdraw(u, amount)
       \/ \E amount \in 1..vault_balance : FlashLoan(u, amount)
  \/ AfterTrade
  \/ Fail
  \/ CollectProtocolFees
  \/ \E sender, owner \in Admins, enabled \in Switches, fees \in Fees :
       UpdateConfig(sender, owner, enabled, fees)

Spec == Init /\ [][Next]_vars

-----------------------------------------------------------------------------
(* Properties *)

(* What undoing a call restores is a state like any other. *)
Snapshots ==
  [loan_counter : Nat, collected : Nat, all_time : Nat, burned : Nat,
   vault_balance : Nat, lp : [Users -> Nat], wallet : [Users -> Nat],
   fee_collector : Nat]
Frames ==
  [borrower : Users, old_balance : Nat, loan_amount : Nat, nested : BOOLEAN,
   before : Snapshots]

(* The shape of the state: no balance is ever driven below zero, and the    *)
(* fees of a loan never reach what it lends.                                *)
TypeOK ==
  /\ vault_config \in [owner : Admins, fees : Fees,
                       enabled : [flash_loan : BOOLEAN, deposit : BOOLEAN,
                                  withdraw : BOOLEAN]]
  /\ vault_config.fees.protocol + vault_config.fees.flash_loan
       + vault_config.fees.burn < FeeUnit
  /\ Snapshot \in Snapshots
  /\ loans \in Seq(Frames)

(* LOAN_COUNTER counts the loans in progress, whatever is paid back, fails  *)
(* or is nested: deposits are blocked in every loan and in nothing else.    *)
CounterCountsLoans == loan_counter = Len(loans)

(* Every protocol fee ever recorded is still in the vault's books or has    *)
(* been sent to the fee collector, once, also when loans are undone after   *)
(* fees were collected inside them.                                         *)
FeesForwardedOnce == all_time = collected + fee_collector

(* What the vault was like when the transaction going on began. *)
PoolBefore ==
  IF loans = <<>> THEN Pool
  ELSE loans[1].before.vault_balance - loans[1].before.collected
SupplyBefore == IF loans = <<>> THEN TotalSupply ELSE Sum(loans[1].before.lp, Users)

(* A transaction ends: nothing is going on, or the outermost loan is over   *)
(* and no other was paid back inside it.                                    *)
Ends ==
  /\ loans' = <<>>
  /\ loans # <<>> => ~Innermost.nested

(* No transaction makes a share worth less: not a deposit, a withdrawal or  *)
(* a collection of fees, and not a loan, whatever its borrower does with    *)
(* the vault meanwhile, except to pay back another loan inside it.  Such    *)
(* loans can take the pool below zero, where shares are worth nothing.      *)
ShareValueKept ==
  [][Ends /\ SupplyBefore > 0 /\ PoolBefore >= 0
       => Pool' * SupplyBefore >= PoolBefore * TotalSupply']_vars
=============================================================================
