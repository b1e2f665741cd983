------------------------------ MODULE VaultRouter ------------------------------
(***************************************************************************)
(* The vault router (contracts/liquidity_hub/vault-network/vault_router)    *)
(* over one vault: it takes a loan in its own name, performs the messages   *)
(* the initiator handed over, pays the loan back out of what it then holds  *)
(* and gives the rest to the initiator.                                     *)
(*                                                                          *)
(* The router is a borrower of the vault like others, but it only does what *)
(* its messages say: tasks are those still to be performed, in the order of *)
(* the chain, which completes a message with all the messages it causes     *)
(* before the next.  No message of the router catches an error, so that a   *)
(* failure undoes everything since the router was called from outside.      *)
(***************************************************************************)
EXTENDS Vault

CONSTANTS
  Router,      \* the address of the router
  Factories,   \* addresses that may become the vault factory
  Listing,     \* those of them that map the asset to this vault
  Messages,    \* messages that initiators hand over: see below
  Payloads,    \* lists of them
  MaxCoins     \* bound on the coins there ever are, with what trades bring in

(* Messages: a trade of the borrowed coins elsewhere that gains or loses,   *)
(* and a loan taken through the router by the router itself.                *)
Trade(gain) == [op |-> "trade", gain |-> gain]
Loan(amount, msgs) == [op |-> "flash_loan", amount |-> amount, msgs |-> msgs]
Complete(initiator, amount) ==
  [op |-> "complete_loan", initiator |-> initiator, amount |-> amount]
Callback(loan) == [op |-> "after_trade", loan |-> loan]

ASSUME RouterAssumption ==
  /\ Router \in Users
  /\ Funds[Router] = 0
  /\ Listing \subseteq Factories
  /\ Payloads \subseteq Seq(Messages)
  /\ \A m \in Messages :
       \/ m.op = "trade" /\ m.gain \in Int
       \/ m.op = "flash_loan" /\ m.msgs \in Seq(Messages)

VARIABLES
  router_config,  \* CONFIG: owner, vault_factory
  tasks,          \* the messages still to be performed, the next one first
  ledger          \* what the loans of this call gained and what they cost

router_vars == <<router_config, tasks, ledger>>

NothingYet == [profit |-> 0, interest |-> 0]

RouterInit ==
  /\ Init
  /\ router_config \in [owner : Admins, vault_factory : Factories]
  /\ tasks = <<>>
  /\ ledger = NothingYet

-----------------------------------------------------------------------------
Costs(amount) ==
  Compute(vault_config.fees.protocol, amount)
    + Compute(vault_config.fees.flash_loan, amount)
    + Compute(vault_config.fees.burn, amount)

(* get_payback_amount *)
PaybackAmount(amount) == amount + Costs(amount)

(* flash_loan with one asset, up to the callback next_loan, which runs the  *)
(* payload and then completes the loan; the vault's own callback follows.   *)
(* More than one asset is refused, none does nothing.                       *)
Borrow(sender, amount, msgs, rest) ==
  /\ router_config.vault_factory \in Listing
  /\ Lend(Router, amount)
  /\ tasks' = msgs \o <<Complete(sender, amount), Callback(Len(loans'))>> \o rest
  /\ ledger' = [profit |-> ledger.profit - Costs(amount),
                interest |-> ledger.interest
                               + Compute(vault_config.fees.flash_loan, amount)]
  /\ UNCHANGED router_config

(* FlashLoan, by anyone, within a loan of one's own, too. *)
RouterFlashLoan(u, amount, msgs) == MayAct(u) /\ Borrow(u, amount, msgs, <<>>)

(* FlashLoan as a message of a payload: the sender is the router. *)
NestedFlashLoan ==
  /\ tasks # <<>> /\ Head(tasks).op = "flash_loan"
  /\ Borrow(Router, Head(tasks).amount, Head(tasks).msgs, Tail(tasks))

(* The borrowed coins are traded elsewhere. *)
TradeElsewhere ==
  /\ tasks # <<>> /\ Head(tasks).op = "trade"
  /\ wallet[Router] + Head(tasks).gain >= 0
  /\ Sum(wallet, Users) + vault_balance + fee_collector + burned + Head(tasks).gain
       <= MaxCoins                                            \* bound
  /\ wallet' = [wallet EXCEPT ![Router] = @ + Head(tasks).gain]
  /\ tasks' = Tail(tasks)
  /\ ledger' = [ledger EXCEPT !.profit = @ + Head(tasks).gain]
  /\ UNCHANGED <<vault_config, loan_counter, collected, all_time, burned,
                 vault_balance, lp, fee_collector, loans, router_config>>

(* What complete_loan takes the router to have made: all it holds. *)
FinalAmountLent == Head(tasks).amount                            \* mutant
FinalAmount == wallet[Router]

(* complete_loan: the payback to the vault, the rest to the initiator. *)
CompleteLoan ==
  /\ tasks # <<>> /\ Head(tasks).op = "complete_loan"
  /\ LET payback == PaybackAmount(Head(tasks).amount)
         profit_amount == FinalAmount - payback IN
     /\ profit_amount >= 0                                \* NegativeProfit
     /\ wallet' = [[wallet EXCEPT ![Router] = @ - payback - profit_amount]
                     EXCEPT ![Head(tasks).initiator] = @ + profit_amount]
     /\ vault_balance' = vault_balance + payback
  /\ tasks' = Tail(tasks)
  /\ UNCHANGED <<vault_config, loan_counter, collected, all_time, burned, lp,
                 fee_collector, loans, router_config, ledger>>

(* The callback of the vault when a loan of the router is over. *)
RouterLoanOver ==
  /\ tasks # <<>> /\ Head(tasks).op = "after_trade"
  /\ AfterTrade
  /\ tasks' = Tail(tasks)
  /\ ledger' = IF Tail(tasks) = <<>> THEN NothingYet ELSE ledger
  /\ UNCHANGED router_config

(* The outermost of the router's loans: the callback for it comes last. *)
FirstRouterLoan == tasks[Len(tasks)].loan

(* A message of the router fails. *)
RouterFail ==
  /\ tasks # <<>>
  /\ LET before == loans[FirstRouterLoan].before IN
     /\ loan_counter' = before.loan_counter
     /\ collected' = before.collected
     /\ all_time' = before.all_time
     /\ burned' = before.burned
     /\ vault_balance' = before.vault_balance
     /\ lp' = before.lp
     /\ wallet' = before.wallet
     /\ fee_collector' = before.fee_collector
  /\ loans' = SubSeq(loans, 1, FirstRouterLoan - 1)
  /\ tasks' = <<>>
  /\ ledger' = NothingYet
  /\ UNCHANGED <<vault_config, router_config>>

(* UpdateConfig of the router: by its owner. *)
UpdateRouterConfig(sender, owner, vault_factory) ==
  /\ loans = <<>>
  /\ sender = router_config.owner
  /\ router_config' = [owner |-> owner, vault_factory |-> vault_factory]
  /\ UNCHANGED <<vars, tasks, ledger>>

-----------------------------------------------------------------------------
(* The steps of the vault, with users other than the router.  Fees may be   *)
(* collected by a message of a payload, but not between the payback and the *)
(* callback of the vault.                                                   *)
VaultStep ==
  /\ \/ \E u \in Users \ {Router} :
          \/ \E amount \in 1..wallet[u] : Deposit(u, amount) \/ Transfer(u, amount)
          \/ \E amount \in 1..lp[u] : Withdraw(u, amount)
          \/ \E amount \in 1..vault_balance : FlashLoan(u, amount)
     \/ tasks = <<>> /\ (AfterTrade \/ Fail)
     \/ /\ tasks # <<>> => Head(tasks).op # "after_trade"
        /\ CollectProtocolFees
     \/ \E sender, owner \in Admins, enabled \in Switches, fees \in Fees :
          UpdateConfig(sender, owner, enabled, fees)
  /\ UNCHANGED router_vars

RouterNext ==
  \/ VaultStep
  \/ \E u \in Users \ {Router}, amount \in 1..vault_balance, msgs \in Payloads :
       RouterFlashLoan(u, amount, msgs)
  \/ NestedFlashLoan
  \/ TradeElsewhere
  \/ CompleteLoan
  \/ RouterLoanOver
  \/ RouterFail
  \/ \E sender, owner \in Admins, vault_factory \in Factories :
       UpdateRouterConfig(sender, owner, vault_factory)

RouterSpec == RouterInit /\ [][RouterNext]_<<vars, router_vars>>

-----------------------------------------------------------------------------
(* Properties *)

(* Between its loans the router holds nothing: whatever was borrowed,       *)
(* gained or lost, by loans within loans too, is with the vault or with the *)
(* initiator, so that the next one, who is given the whole balance, finds   *)
(* nothing of others.                                                       *)
RouterKeepsNothing == tasks = <<>> => wallet[Router] = 0

(* The loans of a call are over with its last message. *)
CallOver == RouterLoanOver /\ tasks' = <<>>

(* A call that succeeds changes no wallet but the initiator's, which gets   *)
(* exactly what the trades gained less the fees of all loans, and none of   *)
(* the initiator's own coins are touched.                                   *)
ProfitToInitiator ==
  [][CompleteLoan /\ Len(tasks') = 1
       => LET before == Innermost.before.wallet IN
          wallet' = [before EXCEPT ![Head(tasks).initiator] = @ + ledger.profit]
    ]_<<vars, router_vars>>

(* Through the router, every loan is paid for: the pool has grown by the    *)
(* flash loan fees of all loans of the call, also of a loan within a loan,  *)
(* and whoever collects the protocol's fees meanwhile.                      *)
RouterPaysInFull ==
  [][CallOver => Pool' = Innermost.before.vault_balance - Innermost.before.collected
                           + ledger.interest]_<<vars, router_vars>>
=============================================================================
