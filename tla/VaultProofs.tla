----------------------------- MODULE VaultProofs -----------------------------
(***************************************************************************)
(* For every set of users, every fee and every depth of loans: the balances *)
(* of a vault stay natural numbers, the loan counter counts the loans in    *)
(* progress, and protocol fees are forwarded once; with a router that       *)
(* borrows for others, and lends inside its own loans, too, for every       *)
(* payload; and the router keeps nothing.                                   *)
(***************************************************************************)
EXTENDS VaultRouter, Arithmetic, SequenceTheorems

(* What a part of the shares is worth is a part of the pool. *)
LEMMA AssetShareBound ==
  ASSUME NEW amount \in Nat, TotalSupply \in Nat \ {0}, amount <= TotalSupply,
         Pool \in Nat
  PROVE  AssetShare(amount) \in Nat /\ AssetShare(amount) <= Pool
<1> DEFINE U == FeeUnit
           S == TotalSupply
           P == Pool
           part == (amount * U) \div S
<1>1. U \in Nat \ {0} /\ S \in Nat \ {0} /\ P \in Nat /\ amount <= S
  BY VaultAssumption
<1>2. AssetShare(amount) = (part * P) \div U
  BY DEF AssetShare
<1> HIDE DEF U, S, P
<1>3. amount * U <= S * U /\ amount * U \in Nat
  BY <1>1, ProductMono, ProductNat
<1>4. part \in Nat /\ part <= U
  BY <1>1, <1>3, Quotient, QuotientBound
<1> HIDE DEF part
<1>5. part * P <= U * P /\ part * P \in Nat
  BY <1>1, <1>4, ProductMono, ProductNat
<1>6. (part * P) \div U \in Nat /\ (part * P) \div U <= P
  BY <1>1, <1>5, Quotient, QuotientBound
<1> QED
  BY <1>2, <1>6 DEF P

(* The total supply is the sum of what users hold, and no less than each.   *)
LEMMA SupplyNat ==
  ASSUME TypeOK
  PROVE  /\ TotalSupply \in Nat
         /\ \A u \in Users : lp[u] <= TotalSupply
<1>1. IsFiniteSet(Users) /\ \A u \in Users : lp[u] \in Nat
  BY VaultAssumption DEF TypeOK, Snapshot, Snapshots
<1>2. Sum(lp, Users) \in Nat
  BY <1>1, SumNat
<1>3. ASSUME NEW u \in Users
      PROVE  lp[u] <= Sum(lp, Users)
  <2>1. Sum(lp, Users) = Sum(lp, Users \ {u}) + lp[u] /\ Sum(lp, Users \ {u}) \in Nat
    BY <1>1, SumSplit
  <2> QED
    BY <1>1, <2>1
<1> QED
  BY <1>2, <1>3 DEF TotalSupply

(* The books a failed call goes back to: those of the loan it was called in.*)
BooksBefore ==
  \A i \in 1..Len(loans) :
    /\ loans[i].before.loan_counter = i - 1
    /\ loans[i].before.all_time
         = loans[i].before.collected + loans[i].before.fee_collector

IInv == TypeOK /\ CounterCountsLoans /\ FeesForwardedOnce /\ BooksBefore

LEMMA InitInv == Init => IInv
<1> SUFFICES ASSUME Init PROVE IInv
  OBVIOUS
<1>1. loans = <<>> /\ Len(loans) = 0 /\ loans \in Seq(Frames)
  BY DEF Init
<1>2. Snapshot \in Snapshots
  BY VaultAssumption DEF Init, Snapshot, Snapshots
<1>3. /\ vault_config \in [owner : Admins, fees : {f \in Fees : ValidFees(f)},
                            enabled : {[flash_loan |-> TRUE, deposit |-> TRUE,
                                        withdraw |-> TRUE]}]
  BY DEF Init
<1>4. /\ vault_config \in [owner : Admins, fees : Fees,
                            enabled : [flash_loan : BOOLEAN, deposit : BOOLEAN,
                                       withdraw : BOOLEAN]]
      /\ ValidFees(vault_config.fees)
  <2>1. vault_config.fees \in Fees /\ ValidFees(vault_config.fees)
    BY <1>3
  <2>2. vault_config.enabled = [flash_loan |-> TRUE, deposit |-> TRUE, withdraw |-> TRUE]
    BY <1>3
  <2>3. vault_config.enabled \in [flash_loan : BOOLEAN, deposit : BOOLEAN,
                                  withdraw : BOOLEAN]
    BY <2>2
  <2>4. /\ vault_config = [owner |-> vault_config.owner, fees |-> vault_config.fees,
                           enabled |-> vault_config.enabled]
        /\ vault_config.owner \in Admins
    BY <1>3
  <2> QED
    BY <2>1, <2>3, <2>4
<1>5. TypeOK
  BY <1>1, <1>2, <1>4 DEF TypeOK, ValidFees
<1> QED
  BY <1>1, <1>5 DEF Init, IInv, CounterCountsLoans, FeesForwardedOnce, BooksBefore

(* What TypeOK says of each variable. *)
LEMMA Types ==
  ASSUME TypeOK
  PROVE  /\ loan_counter \in Nat /\ collected \in Nat /\ all_time \in Nat
         /\ burned \in Nat /\ vault_balance \in Nat /\ fee_collector \in Nat
         /\ lp \in [Users -> Nat] /\ wallet \in [Users -> Nat]
         /\ loans \in Seq(Frames)
BY DEF TypeOK, Snapshot, Snapshots

(* A step that only moves shares and coins. *)
LEMMA BalancesStep ==
  ASSUME IInv, vault_balance' \in Nat, lp' \in [Users -> Nat],
         wallet' \in [Users -> Nat],
         UNCHANGED <<vault_config, loan_counter, collected, all_time, burned,
                     fee_collector, loans>>
  PROVE  IInv'
<1>1. Snapshot' \in Snapshots
  BY Types DEF IInv, Snapshot, Snapshots
<1>2. TypeOK'
  BY <1>1 DEF IInv, TypeOK
<1> QED
  BY <1>2 DEF IInv, CounterCountsLoans, FeesForwardedOnce, BooksBefore

(* The innermost of the loans in progress, and those around it.             *)
LEMMA InnermostType ==
  ASSUME TypeOK, loans # <<>>
  PROVE  /\ Len(loans) \in Nat \ {0}
         /\ Innermost \in Frames
         /\ \A i \in 1..Len(loans) : loans[i] \in Frames
BY Types DEF Innermost

(* The loans in progress and what they keep. *)
LEMMA FrameTypes ==
  ASSUME TypeOK, NEW i \in 1..Len(loans)
  PROVE  /\ loans[i] \in Frames /\ loans[i].before \in Snapshots
         /\ loans[i].old_balance \in Nat /\ loans[i].loan_amount \in Nat
         /\ loans[i].before.vault_balance \in Nat /\ loans[i].before.collected \in Nat
         /\ loans[i].before.lp \in [Users -> Nat]
         /\ loans[i].before.wallet \in [Users -> Nat]
<1>1. loans[i] \in Frames
  BY Types
<1>2. /\ loans[i].before \in Snapshots
      /\ loans[i].old_balance \in Nat /\ loans[i].loan_amount \in Nat
  BY <1>1 DEF Frames
<1>3. /\ loans[i].before.vault_balance \in Nat /\ loans[i].before.collected \in Nat
      /\ loans[i].before.lp \in [Users -> Nat]
      /\ loans[i].before.wallet \in [Users -> Nat]
  BY <1>2 DEF Snapshots
<1> QED
  BY <1>1, <1>2, <1>3

LEMMA DepositStep ==
  ASSUME IInv, NEW u \in Users, NEW amount, Deposit(u, amount)
  PROVE  IInv'
<1>1. TotalSupply \in Nat
  BY SupplyNat DEF IInv
<1>2. amount \in Nat /\ wallet[u] - amount \in Nat
  BY Types DEF IInv, Deposit
<1>3. Pool \in Int /\ (TotalSupply # 0 => Pool \in Nat \ {0})
  BY Types DEF IInv, Pool, Deposit
<1>4. SharesFor(amount) \in Nat
  <2>1. CASE TotalSupply = 0
    BY <1>2, <2>1 DEF SharesFor
  <2>2. CASE TotalSupply # 0
    <3>1. amount * TotalSupply \in Nat
      BY <1>1, <1>2, ProductNat
    <3> QED
      BY <1>3, <2>2, <3>1, Quotient DEF SharesFor
  <2> QED
    BY <2>1, <2>2
<1>5. lp' \in [Users -> Nat]
  BY <1>4, Types DEF IInv, Deposit
<1>6. wallet' \in [Users -> Nat]
  BY <1>2, Types DEF IInv, Deposit
<1>7. vault_balance' \in Nat
  BY <1>2, Types DEF IInv, Deposit
<1> QED
  BY <1>5, <1>6, <1>7, BalancesStep DEF Deposit

LEMMA WithdrawStep ==
  ASSUME IInv, NEW u \in Users, NEW amount, Withdraw(u, amount)
  PROVE  IInv'
<1>1. TotalSupply \in Nat /\ lp[u] <= TotalSupply
  BY SupplyNat DEF IInv
<1>2. amount \in Nat \ {0} /\ amount <= lp[u] /\ lp[u] \in Nat
  BY Types DEF IInv, Withdraw
<1>3. Pool \in Nat /\ Pool <= vault_balance
  BY Types DEF IInv, Withdraw, Pool
<1>4. AssetShare(amount) \in Nat /\ AssetShare(amount) <= Pool
  BY <1>1, <1>2, <1>3, AssetShareBound
<1>5. lp' \in [Users -> Nat]
  BY <1>2, Types DEF IInv, Withdraw
<1>6. wallet' \in [Users -> Nat]
  BY <1>4, Types DEF IInv, Withdraw
<1>7. vault_balance' \in Nat
  BY <1>3, <1>4, Types, SMTT(30) DEF IInv, Withdraw
<1> QED
  BY <1>5, <1>6, <1>7, BalancesStep DEF Withdraw

LEMMA TransferStep ==
  ASSUME IInv, NEW u \in Users, NEW amount, Transfer(u, amount)
  PROVE  IInv'
<1>1. amount \in Nat /\ wallet[u] - amount \in Nat
  BY Types DEF IInv, Transfer
<1>2. wallet' \in [Users -> Nat] /\ vault_balance' \in Nat /\ lp' \in [Users -> Nat]
  BY <1>1, Types DEF IInv, Transfer
<1> QED
  BY <1>2, BalancesStep DEF Transfer

(* What lending leaves: one loan more, whoever asked for it. *)
LEMMA LendStep ==
  ASSUME IInv, NEW u \in Users, NEW amount, Lend(u, amount)
  PROVE  /\ IInv'
         /\ amount \in Nat
         /\ Len(loans') = Len(loans) + 1 /\ Len(loans) \in Nat
         /\ \A i \in 1..Len(loans) : loans'[i] = loans[i]
         /\ loans'[Len(loans) + 1].borrower = u
         /\ loans'[Len(loans) + 1].before.wallet = wallet
         /\ wallet' = [wallet EXCEPT ![u] = @ + amount]
<1> DEFINE frame == [borrower |-> u, old_balance |-> vault_balance,
                     loan_amount |-> amount, nested |-> FALSE, before |-> Snapshot]
<1>1. amount \in Nat /\ vault_balance - amount \in Nat
  BY Types, SMTT(30) DEF IInv, Lend
<1>2. frame \in Frames
  BY <1>1, Types DEF IInv, TypeOK, Frames
<1>3. loans' = Append(loans, frame) /\ loans \in Seq(Frames)
  BY Types DEF IInv, Lend
<1>4. /\ frame.before.loan_counter = Len(loans)
      /\ frame.before.all_time = frame.before.collected + frame.before.fee_collector
      /\ frame.borrower = u /\ frame.before.wallet = wallet
  BY DEF IInv, CounterCountsLoans, FeesForwardedOnce, Snapshot
<1> HIDE DEF frame
<1>5. /\ loans' \in Seq(Frames)
      /\ Len(loans') = Len(loans) + 1 /\ Len(loans) \in Nat
      /\ \A i \in 1..Len(loans) : loans'[i] = loans[i]
      /\ loans'[Len(loans) + 1] = frame
  BY <1>2, <1>3
<1>6. wallet' \in [Users -> Nat]
  BY <1>1, Types, SMTT(30) DEF IInv, Lend
<1>7. Snapshot' \in Snapshots
  <2>1. /\ loan_counter' \in Nat /\ collected' \in Nat /\ all_time' \in Nat
        /\ burned' \in Nat /\ vault_balance' \in Nat /\ fee_collector' \in Nat
        /\ lp' \in [Users -> Nat]
    BY <1>1, Types, SMTT(30) DEF IInv, Lend
  <2> QED
    BY <1>6, <2>1 DEF Snapshot, Snapshots
<1>8. TypeOK'
  BY <1>5, <1>7 DEF IInv, Lend, TypeOK
<1>9. BooksBefore'
  BY <1>4, <1>5 DEF IInv, BooksBefore
<1>10. IInv'
  BY <1>5, <1>8, <1>9 DEF IInv, Lend, CounterCountsLoans, FeesForwardedOnce
<1> QED
  BY <1>1, <1>4, <1>5, <1>10 DEF Lend

LEMMA FlashLoanStep ==
  ASSUME IInv, NEW u \in Users, NEW amount, FlashLoan(u, amount)
  PROVE  IInv'
BY LendStep DEF FlashLoan

(* The fees of a loan are natural numbers. *)
LEMMA FeesNat ==
  ASSUME TypeOK, loans # <<>>
  PROVE  ProtocolFee \in Nat /\ FlashLoanFee \in Nat /\ BurnFee \in Nat
<1>1. Innermost.loan_amount \in Nat
  BY InnermostType DEF Frames
<1>2. vault_config.fees \in [protocol : Nat, flash_loan : Nat, burn : Nat]
  BY VaultAssumption DEF TypeOK
<1>3. ASSUME NEW share \in Nat
      PROVE  Compute(share, Innermost.loan_amount) \in Nat
  BY <1>1, <1>3, ProductNat, Quotient, VaultAssumption DEF Compute
<1> QED
  BY <1>2, <1>3 DEF ProtocolFee, FlashLoanFee, BurnFee

(* The loans after one is over, without what is noted of loans inside.      *)
LEMMA LoansAfterOver ==
  ASSUME TypeOK, loans # <<>>
  PROVE  /\ Len(LoansAfter) = Len(loans) - 1
         /\ \A i \in 1..(Len(loans) - 1) :
              /\ LoansAfter[i].before = loans[i].before
              /\ LoansAfter[i].borrower = loans[i].borrower
              /\ LoansAfter[i].loan_amount = loans[i].loan_amount
<1> DEFINE n == Len(loans) - 1
<1>1. n \in Nat /\ \A i \in 1..n : loans[i] \in Frames
  BY InnermostType
<1>2. LoansAfter
        = [i \in 1..n |-> IF i = n THEN [loans[i] EXCEPT !.nested = TRUE] ELSE loans[i]]
  BY DEF LoansAfter
<1> HIDE DEF n
<1>3. \A i \in 1..n : /\ [loans[i] EXCEPT !.nested = TRUE] \in Frames
                      /\ [loans[i] EXCEPT !.nested = TRUE].before = loans[i].before
                      /\ [loans[i] EXCEPT !.nested = TRUE].borrower = loans[i].borrower
                      /\ [loans[i] EXCEPT !.nested = TRUE].loan_amount
                           = loans[i].loan_amount
  BY <1>1 DEF Frames
<1>4. LoansAfter \in [1..n -> Frames]
  BY <1>1, <1>2, <1>3
<1>5. Len(LoansAfter) = n
  BY <1>1, <1>4
<1>6. \A i \in 1..n : /\ LoansAfter[i].before = loans[i].before
                      /\ LoansAfter[i].borrower = loans[i].borrower
                      /\ LoansAfter[i].loan_amount = loans[i].loan_amount
  BY <1>2, <1>3
<1> QED
  BY <1>5, <1>6 DEF n

(* Loans that are undone leave those before them. *)
LEMMA LoansBefore ==
  ASSUME TypeOK, NEW k \in 1..Len(loans)
  PROVE  /\ SubSeq(loans, 1, k - 1) \in Seq(Frames)
         /\ Len(SubSeq(loans, 1, k - 1)) = k - 1
         /\ \A i \in 1..(k - 1) : SubSeq(loans, 1, k - 1)[i] = loans[i]
<1>1. loans \in Seq(Frames) /\ Len(loans) \in Nat
  BY Types
<1>2. \A i \in 1..(k - 1) : loans[i] \in Frames
  BY <1>1
<1>3. /\ SubSeq(loans, 1, k - 1) \in Seq(Frames)
      /\ Len(SubSeq(loans, 1, k - 1)) = IF 1 <= k - 1 THEN (k - 1) - 1 + 1 ELSE 0
      /\ \A i \in 1..((k - 1) - 1 + 1) : SubSeq(loans, 1, k - 1)[i] = loans[1 + i - 1]
  BY <1>1, <1>2, SubSeqProperties
<1> QED
  BY <1>1, <1>3

LEMMA AfterTradeStep ==
  ASSUME IInv, AfterTrade
  PROVE  IInv'
<1>1. TypeOK /\ loans # <<>>
  BY DEF IInv, AfterTrade
<1>2. ProtocolFee \in Nat /\ FlashLoanFee \in Nat /\ BurnFee \in Nat
  BY <1>1, FeesNat
<1>3. Innermost.old_balance \in Nat
  BY <1>1, InnermostType DEF Frames
<1>4. vault_balance - BurnFee \in Nat
  <2>1. Innermost.old_balance + ProtocolFee + FlashLoanFee + BurnFee <= vault_balance
    BY DEF AfterTrade, Required
  <2>2. vault_balance \in Nat
    BY <1>1, Types
  <2> QED
    BY <1>2, <1>3, <2>1, <2>2
<1>5. CounterAfter \in Nat /\ CounterAfter = Len(loans) - 1
  BY <1>1, Types, InnermostType DEF IInv, CounterCountsLoans, CounterAfter
<1>6. Snapshot' \in Snapshots
  <2>1. /\ loan_counter' \in Nat /\ collected' \in Nat /\ all_time' \in Nat
        /\ burned' \in Nat /\ vault_balance' \in Nat
    <3>1. /\ loan_counter' = CounterAfter /\ collected' = collected + ProtocolFee
          /\ all_time' = all_time + ProtocolFee /\ burned' = burned + BurnFee
          /\ vault_balance' = vault_balance - BurnFee
      BY DEF AfterTrade
    <3>2. collected \in Nat /\ all_time \in Nat /\ burned \in Nat
      BY <1>1, Types
    <3> QED
      BY <1>2, <1>4, <1>5, <3>1, <3>2
  <2>2. lp' \in [Users -> Nat] /\ wallet' \in [Users -> Nat] /\ fee_collector' \in Nat
    BY <1>1, Types DEF AfterTrade
  <2> QED
    BY <2>1, <2>2 DEF Snapshot, Snapshots
<1>7. /\ LoansAfter \in Seq(Frames)
      /\ Len(LoansAfter) = Len(loans) - 1
      /\ \A i \in 1..(Len(loans) - 1) : LoansAfter[i].before = loans[i].before
  <2> DEFINE n == Len(loans) - 1
  <2>1. n \in Nat /\ \A i \in 1..n : loans[i] \in Frames
    BY <1>1, InnermostType
  <2>2. LoansAfter
          = [i \in 1..n |-> IF i = n THEN [loans[i] EXCEPT !.nested = TRUE] ELSE loans[i]]
    BY DEF LoansAfter
  <2> HIDE DEF n
  <2>3. \A i \in 1..n : [loans[i] EXCEPT !.nested = TRUE] \in Frames
                        /\ [loans[i] EXCEPT !.nested = TRUE].before = loans[i].before
    BY <2>1 DEF Frames
  <2>4. LoansAfter \in [1..n -> Frames] /\ \A i \in 1..n : LoansAfter[i].before = loans[i].before
    BY <2>1, <2>2, <2>3
  <2>5. LoansAfter \in Seq(Frames) /\ Len(LoansAfter) = n
    BY <2>1, <2>4
  <2> QED
    BY <2>4, <2>5 DEF n
<1>8. loans' = LoansAfter
  BY DEF AfterTrade
<1>9. TypeOK'
  BY <1>1, <1>6, <1>7, <1>8 DEF AfterTrade, TypeOK
<1>10. CounterCountsLoans'
  BY <1>5, <1>7, <1>8 DEF AfterTrade, CounterCountsLoans
<1>11. FeesForwardedOnce'
  <2>1. /\ all_time' = all_time + ProtocolFee /\ collected' = collected + ProtocolFee
        /\ fee_collector' = fee_collector
    BY DEF AfterTrade
  <2>2. /\ all_time = collected + fee_collector
        /\ collected \in Nat /\ fee_collector \in Nat
    BY <1>1, Types DEF IInv, FeesForwardedOnce
  <2> QED
    BY <1>2, <2>1, <2>2 DEF FeesForwardedOnce
<1>12. BooksBefore'
  BY <1>1, <1>7, <1>8, InnermostType, SMTT(30) DEF IInv, BooksBefore
<1> QED
  BY <1>9, <1>10, <1>11, <1>12 DEF IInv

LEMMA FailStep ==
  ASSUME IInv, Fail
  PROVE  IInv'
<1> DEFINE n == Len(loans)
           before == Innermost.before
<1>1. TypeOK /\ loans # <<>> /\ loans \in Seq(Frames)
  BY Types DEF IInv, Fail
<1>2. n \in Nat \ {0} /\ before \in Snapshots
  BY <1>1, InnermostType DEF Frames
<1>3. before.loan_counter = n - 1 /\ before.all_time = before.collected + before.fee_collector
  BY <1>2 DEF IInv, BooksBefore, Innermost
<1>4. loans' = SubSeq(loans, 1, n - 1)
  BY DEF Fail
<1>5. /\ loans' \in Seq(Frames) /\ Len(loans') = n - 1
      /\ \A i \in 1..(n - 1) : loans'[i] = loans[i]
  <2>1. \A i \in 1..(n - 1) : loans[i] \in Frames
    BY <1>1, <1>2
  <2>2. /\ SubSeq(loans, 1, n - 1) \in Seq(Frames)
        /\ Len(SubSeq(loans, 1, n - 1))
             = IF 1 <= n - 1 THEN (n - 1) - 1 + 1 ELSE 0
        /\ \A i \in 1..((n - 1) - 1 + 1) :
             SubSeq(loans, 1, n - 1)[i] = loans[1 + i - 1]
    BY <1>2, <2>1, SubSeqProperties
  <2> HIDE DEF n
  <2> QED
    BY <1>2, <1>4, <2>2
<1>6. Snapshot' \in Snapshots
  BY <1>2 DEF Fail, Snapshot, Snapshots
<1>7. TypeOK'
  BY <1>1, <1>5, <1>6 DEF Fail, TypeOK
<1>8. CounterCountsLoans' /\ FeesForwardedOnce'
  BY <1>3, <1>5 DEF Fail, CounterCountsLoans, FeesForwardedOnce
<1>9. BooksBefore'
  BY <1>2, <1>5 DEF IInv, BooksBefore
<1> QED
  BY <1>7, <1>8, <1>9 DEF IInv

LEMMA CollectStep ==
  ASSUME IInv, CollectProtocolFees
  PROVE  IInv'
<1>1. CollectedAfter \in Nat /\ vault_balance - collected \in Nat
      /\ fee_collector + collected \in Nat
  BY Types DEF IInv, CollectProtocolFees, CollectedAfter
<1>2. Snapshot' \in Snapshots
  BY <1>1, Types DEF IInv, CollectProtocolFees, Snapshot, Snapshots
<1>3. TypeOK'
  BY <1>2 DEF IInv, CollectProtocolFees, TypeOK
<1>4. FeesForwardedOnce'
  BY Types DEF IInv, CollectProtocolFees, CollectedAfter, FeesForwardedOnce
<1> QED
  BY <1>3, <1>4 DEF IInv, CollectProtocolFees, CounterCountsLoans, BooksBefore

LEMMA UpdateConfigStep ==
  ASSUME IInv, NEW sender, NEW owner \in Admins, NEW enabled \in Switches,
         NEW fees \in Fees, UpdateConfig(sender, owner, enabled, fees)
  PROVE  IInv'
<1>1. Snapshot' = Snapshot
  BY DEF UpdateConfig, vault_vars, Snapshot
<1>2. enabled \in [flash_loan : BOOLEAN, deposit : BOOLEAN, withdraw : BOOLEAN]
  BY VaultAssumption
<1>3. TypeOK'
  BY <1>1, <1>2 DEF IInv, UpdateConfig, TypeOK, ValidFees
<1> QED
  BY <1>3 DEF IInv, UpdateConfig, vault_vars, CounterCountsLoans,
              FeesForwardedOnce, BooksBefore

LEMMA Step == IInv /\ [Next]_vars => IInv'
<1> SUFFICES ASSUME IInv, [Next]_vars PROVE IInv'
  OBVIOUS
<1>1. CASE UNCHANGED vars
  BY <1>1, BalancesStep, Types DEF IInv, vars, vault_vars
<1>2. CASE \E u \in Users, amount \in Nat :
             \/ Deposit(u, amount) \/ Transfer(u, amount)
             \/ Withdraw(u, amount) \/ FlashLoan(u, amount)
  BY <1>2, DepositStep, TransferStep, WithdrawStep, FlashLoanStep
<1>3. CASE AfterTrade \/ Fail \/ CollectProtocolFees
  BY <1>3, AfterTradeStep, FailStep, CollectStep
<1>4. CASE \E sender, owner \in Admins, enabled \in Switches, fees \in Fees :
             UpdateConfig(sender, owner, enabled, fees)
  BY <1>4, UpdateConfigStep
<1> QED
  BY <1>1, <1>2, <1>3, <1>4, Types DEF IInv, Next

(* What is proved of every reachable state. *)
LEMMA Invariance == Spec => []IInv
BY InitInv, Step, PTL DEF Spec

(* Type correctness: no balance of users, vault or fee collector, and no    *)
(* record of fees, ever falls below zero, and fees stay below the whole.    *)
THEOREM TypeCorrect == Spec => []TypeOK
<1>1. IInv => TypeOK
  BY DEF IInv
<1> QED
  BY Invariance, <1>1, PTL

(* LOAN_COUNTER is the number of loans in progress after any nesting,       *)
(* repayment and failure.                                                   *)
THEOREM CounterExact == Spec => []CounterCountsLoans
<1>1. IInv => CounterCountsLoans
  BY DEF IInv
<1> QED
  BY Invariance, <1>1, PTL

(* Protocol fees are forwarded to the fee collector once. *)
THEOREM FeesForwarded == Spec => []FeesForwardedOnce
<1>1. IInv => FeesForwardedOnce
  BY DEF IInv
<1> QED
  BY Invariance, <1>1, PTL

-----------------------------------------------------------------------------
(* What shares are worth *)

(* The books when the i-th loan began, and those of now after the last.     *)
Book(i) == IF i > Len(loans) THEN Snapshot ELSE loans[i].before

(* Since a loan began nobody has more shares, and if no other was paid back *)
(* inside it, the protocol has no more of the balance.                      *)
BooksSince ==
  \A i \in 1..Len(loans) :
    /\ loans[i].old_balance = loans[i].before.vault_balance
    /\ \A u \in Users : Book(i + 1).lp[u] <= loans[i].before.lp[u]
    /\ ~loans[i].nested => Book(i + 1).collected <= loans[i].before.collected

SharesInv == IInv /\ BooksSince

(* Within the loans in progress coins move, shares are burned and fees are  *)
(* collected.                                                               *)
LEMMA SinceStep ==
  ASSUME SharesInv, UNCHANGED loans, collected' \in Nat, collected' <= collected,
         lp' \in [Users -> Nat], \A u \in Users : lp'[u] <= lp[u]
  PROVE  BooksSince'
<1>1. loans \in Seq(Frames) /\ Len(loans) \in Nat /\ lp \in [Users -> Nat] /\ collected \in Nat
  BY Types DEF SharesInv, IInv
<1>2. ASSUME NEW i \in 1..Len(loans)
      PROVE  /\ loans[i].old_balance = loans[i].before.vault_balance
             /\ \A u \in Users : Book(i + 1)'.lp[u] <= loans[i].before.lp[u]
             /\ ~loans[i].nested => Book(i + 1)'.collected <= loans[i].before.collected
  <2>1. /\ loans[i].old_balance = loans[i].before.vault_balance
        /\ \A u \in Users : Book(i + 1).lp[u] <= loans[i].before.lp[u]
        /\ ~loans[i].nested => Book(i + 1).collected <= loans[i].before.collected
    BY <1>2 DEF SharesInv, BooksSince
  <2>2. loans[i].before.lp \in [Users -> Nat] /\ loans[i].before.collected \in Nat
    BY FrameTypes DEF SharesInv, IInv
  <2>3. CASE i < Len(loans)
    <3>1. Book(i + 1)' = Book(i + 1)
      BY <1>1, <2>3 DEF Book
    <3> QED
      BY <2>1, <3>1
  <2>4. CASE i = Len(loans)
    <3>1. /\ Book(i + 1)'.lp = lp' /\ Book(i + 1)'.collected = collected'
          /\ Book(i + 1).lp = lp /\ Book(i + 1).collected = collected
      BY <1>1, <2>4 DEF Book, Snapshot
    <3>2. \A u \in Users : lp'[u] <= loans[i].before.lp[u]
      <4> TAKE u \in Users
      <4>1. lp[u] <= loans[i].before.lp[u] /\ lp'[u] <= lp[u]
        BY <2>1, <3>1
      <4>2. lp[u] \in Nat /\ lp'[u] \in Nat /\ loans[i].before.lp[u] \in Nat
        BY <1>1, <2>2
      <4> QED
        BY <4>1, <4>2
    <3>3. ~loans[i].nested => collected' <= loans[i].before.collected
      BY <1>1, <2>1, <2>2, <3>1
    <3> QED
      BY <2>1, <3>1, <3>2, <3>3
  <2> QED
    BY <1>1, <2>3, <2>4
<1> QED
  BY <1>2 DEF BooksSince

(* Lending, whoever borrows. *)
LEMMA SinceLend ==
  ASSUME SharesInv, NEW u \in Users, NEW amount, Lend(u, amount)
  PROVE  BooksSince'
<1>0. PICK L \in Nat : L = Len(loans)
  BY Types DEF SharesInv, IInv
<1> DEFINE frame == [borrower |-> u, old_balance |-> vault_balance,
                     loan_amount |-> amount, nested |-> FALSE, before |-> Snapshot]
<1>1. loans \in Seq(Frames) /\ L = Len(loans) /\ lp \in [Users -> Nat] /\ collected \in Nat
  BY <1>0, Types DEF SharesInv, IInv
<1>2. IInv' /\ Len(loans') = L + 1 /\ \A i \in 1..L : loans'[i] = loans[i]
  BY <1>0, LendStep DEF SharesInv
<1>3. loans' = Append(loans, frame) /\ lp' = lp /\ collected' = collected
  BY DEF Lend
<1>4. loans'[L + 1] = frame
  BY <1>1, <1>3
<1>5. /\ frame.old_balance = frame.before.vault_balance
      /\ frame.before.lp = lp /\ frame.before.collected = collected
      /\ frame.before = Snapshot
  BY DEF Snapshot
<1> HIDE DEF frame
<1>6. \A i \in 1..L : Book(i + 1)' = Book(i + 1)
  <2> TAKE i \in 1..L
  <2>1. CASE i < L
    BY <1>1, <1>2, <2>1 DEF Book
  <2>2. CASE i = L
    BY <1>1, <1>2, <1>4, <1>5, <2>2 DEF Book
  <2> QED
    BY <1>1, <2>1, <2>2
<1>7. Book(L + 2)'.lp = lp /\ Book(L + 2)'.collected = collected
  BY <1>1, <1>2, <1>3 DEF Book, Snapshot
<1>8. ASSUME NEW i \in 1..Len(loans')
      PROVE  /\ loans'[i].old_balance = loans'[i].before.vault_balance
             /\ \A x \in Users : Book(i + 1)'.lp[x] <= loans'[i].before.lp[x]
             /\ ~loans'[i].nested => Book(i + 1)'.collected <= loans'[i].before.collected
  <2>1. CASE i \in 1..L
    BY <1>1, <1>2, <1>6, <2>1 DEF SharesInv, BooksSince
  <2>2. CASE i = L + 1
    <3>1. i + 1 = L + 2
      BY <1>1, <2>2
    <3>2. \A x \in Users : lp[x] <= lp[x]
      BY <1>1
    <3> QED
      BY <1>1, <1>4, <1>5, <1>7, <2>2, <3>1, <3>2
  <2> QED
    BY <1>1, <1>2, <2>1, <2>2
<1> QED
  BY <1>8 DEF BooksSince

(* A loan is paid back: what the one around it began with came before, and  *)
(* the protocol's fees of it are noted there.                               *)
LEMMA SinceAfterTrade ==
  ASSUME SharesInv, AfterTrade
  PROVE  BooksSince'
<1> DEFINE n == Len(loans) - 1
<1>1. /\ loans \in Seq(Frames) /\ Len(loans) \in Nat \ {0} /\ n \in Nat
      /\ lp \in [Users -> Nat]
  BY Types, InnermostType DEF SharesInv, IInv, AfterTrade
<1>2. lp' = lp /\ loans' = LoansAfter
  BY DEF AfterTrade
<1>3. loans' = [i \in 1..n |-> IF i = n THEN [loans[i] EXCEPT !.nested = TRUE] ELSE loans[i]]
  BY <1>2 DEF LoansAfter
<1>4. Len(loans') = n
  BY <1>1, <1>2, LoansAfterOver DEF SharesInv, IInv, AfterTrade
<1>5. \A i \in 1..n : i \in 1..Len(loans) /\ i + 1 \in 1..Len(loans) /\ loans[i] \in Frames
  BY <1>1
<1> HIDE DEF n
<1>6. \A i \in 1..n : /\ loans'[i].before = loans[i].before
                      /\ loans'[i].old_balance = loans[i].old_balance
                      /\ i < n => loans'[i] = loans[i]
                      /\ i = n => loans'[i].nested
  BY <1>1, <1>3, <1>5 DEF Frames
<1>7. ASSUME NEW i \in 1..n
      PROVE  /\ loans'[i].old_balance = loans'[i].before.vault_balance
             /\ \A u \in Users : Book(i + 1)'.lp[u] <= loans'[i].before.lp[u]
             /\ ~loans'[i].nested => Book(i + 1)'.collected <= loans'[i].before.collected
  <2>1. /\ loans[i].old_balance = loans[i].before.vault_balance
        /\ \A u \in Users : Book(i + 1).lp[u] <= loans[i].before.lp[u]
        /\ ~loans[i].nested => Book(i + 1).collected <= loans[i].before.collected
    BY <1>5, <1>7 DEF SharesInv, BooksSince
  <2>2. CASE i < n
    <3>1. Book(i + 1)' = loans'[i + 1].before /\ Book(i + 1) = loans[i + 1].before
      BY <1>1, <1>4, <1>5, <2>2 DEF Book, n
    <3>2. loans'[i + 1].before = loans[i + 1].before
      BY <1>1, <1>6, <2>2
    <3> QED
      BY <1>6, <2>1, <2>2, <3>1, <3>2
  <2>3. CASE i = n
    <3>1. Book(i + 1)'.lp = lp /\ Book(i + 1) = loans[n + 1].before
      BY <1>1, <1>2, <1>4, <1>5, <2>3 DEF Book, Snapshot, n
    <3>2. Book(n + 2).lp = lp /\ n + 1 \in 1..Len(loans) /\ n + 1 + 1 = n + 2
      BY <1>1 DEF Book, Snapshot, n
    <3>3. \A u \in Users : lp[u] <= loans[n + 1].before.lp[u]
      BY <3>2 DEF SharesInv, BooksSince
    <3>4. \A u \in Users : lp[u] <= loans[i].before.lp[u]
      <4> TAKE u \in Users
      <4>1. lp[u] <= loans[n + 1].before.lp[u] /\ loans[n + 1].before.lp[u] <= loans[i].before.lp[u]
        BY <2>1, <3>1, <3>3
      <4>2. /\ lp[u] \in Nat /\ loans[n + 1].before.lp[u] \in Nat
            /\ loans[i].before.lp[u] \in Nat
        BY <1>1, <1>5, <3>2, FrameTypes DEF SharesInv, IInv
      <4> QED
        BY <4>1, <4>2
    <3> QED
      BY <1>6, <2>1, <2>3, <3>1, <3>4
  <2> QED
    BY <1>1, <2>2, <2>3
<1> QED
  BY <1>4, <1>7 DEF BooksSince

(* The k-th loan fails, and with it those inside it. *)
LEMMA SinceUndone ==
  ASSUME SharesInv, NEW k \in 1..Len(loans), loans' = SubSeq(loans, 1, k - 1),
         lp' = loans[k].before.lp, collected' = loans[k].before.collected
  PROVE  BooksSince'
<1>1. /\ loans \in Seq(Frames) /\ Len(loans) \in Nat /\ k \in Nat
      /\ Len(loans') = k - 1 /\ \A i \in 1..(k - 1) : loans'[i] = loans[i]
  BY Types, LoansBefore DEF SharesInv, IInv
<1>2. ASSUME NEW i \in 1..(k - 1)
      PROVE  /\ Book(i + 1)'.lp = Book(i + 1).lp
             /\ Book(i + 1)'.collected = Book(i + 1).collected
             /\ i \in 1..Len(loans)
  <2>1. CASE i + 1 < k
    BY <1>1, <2>1 DEF Book
  <2>2. CASE i + 1 = k
    BY <1>1, <2>2 DEF Book, Snapshot
  <2> QED
    BY <1>1, <2>1, <2>2
<1> QED
  BY <1>1, <1>2, SMTT(30) DEF SharesInv, BooksSince

LEMMA SharesStep == SharesInv /\ [Next]_vars => SharesInv'
<1> SUFFICES ASSUME SharesInv, [Next]_vars PROVE SharesInv'
  OBVIOUS
<1>0. IInv' /\ IInv /\ TypeOK /\ CounterCountsLoans
  BY Step DEF SharesInv, IInv
<1> SUFFICES BooksSince'
  BY <1>0 DEF SharesInv
<1>1. /\ lp' \in [Users -> Nat] /\ collected' \in Nat /\ lp \in [Users -> Nat]
      /\ collected \in Nat /\ wallet \in [Users -> Nat] /\ vault_balance \in Nat
      /\ Len(loans) \in Nat
  <2>1. lp' \in [Users -> Nat] /\ collected' \in Nat
    BY <1>0 DEF IInv, TypeOK, Snapshot, Snapshots
  <2> QED
    BY <1>0, <2>1, Types
<1>2. (\A u \in Users : lp[u] <= lp[u]) /\ collected <= collected
  BY <1>1
<1>3. CASE UNCHANGED vars
  BY <1>1, <1>2, <1>3, SinceStep, <1>0 DEF vars, vault_vars, SharesInv
<1>4. ASSUME NEW u \in Users, NEW amount, Deposit(u, amount) PROVE BooksSince'
  <2>1. Len(loans) = 0 /\ loans' = loans
    BY <1>0, <1>4 DEF Deposit, DepositAllowed, CounterCountsLoans
  <2> QED
    BY <2>1 DEF BooksSince
<1>5. ASSUME NEW u \in Users, NEW amount, Transfer(u, amount) PROVE BooksSince'
  BY <1>1, <1>2, <1>5, SinceStep DEF Transfer
<1>6. ASSUME NEW u \in Users, NEW amount, Withdraw(u, amount) PROVE BooksSince'
  <2>1. \A x \in Users : lp'[x] <= lp[x]
    BY <1>1, <1>6 DEF Withdraw
  <2> QED
    BY <1>1, <1>2, <1>6, <2>1, SinceStep DEF Withdraw
<1>7. ASSUME NEW u \in Users, NEW amount, FlashLoan(u, amount) PROVE BooksSince'
  BY <1>7, SinceLend DEF FlashLoan
<1>8. CASE AfterTrade
  BY <1>8, SinceAfterTrade
<1>9. CASE Fail
  BY <1>0, <1>9, SinceUndone, InnermostType DEF Fail, Innermost
<1>10. CASE CollectProtocolFees
  <2>1. collected' <= collected
    BY <1>1, <1>10 DEF CollectProtocolFees, CollectedAfter
  <2> QED
    BY <1>1, <1>2, <1>10, <2>1, SinceStep DEF CollectProtocolFees
<1>11. ASSUME NEW sender, NEW owner, NEW enabled, NEW fees,
              UpdateConfig(sender, owner, enabled, fees)
       PROVE  BooksSince'
  BY <1>1, <1>2, <1>11, SinceStep DEF UpdateConfig, vault_vars
<1> QED
  BY <1>3, <1>4, <1>5, <1>6, <1>7, <1>8, <1>9, <1>10, <1>11 DEF Next

(* The total supply once one balance of shares has changed. *)
LEMMA SupplyChange ==
  ASSUME TypeOK, NEW u \in Users, lp' \in [Users -> Nat],
         NEW m \in Int, lp' = [lp EXCEPT ![u] = @ + m]
  PROVE  TotalSupply' = TotalSupply + m
<1>1. IsFiniteSet(Users) /\ lp \in [Users -> Nat]
  BY VaultAssumption, Types
<1> DEFINE f == lp
           g == lp'
<1>2. /\ \A x \in Users : f[x] \in Nat /\ g[x] \in Nat
      /\ \A x \in Users \ {u} : g[x] = f[x]
  BY <1>1
<1>3. g[u] = f[u] + m /\ f[u] \in Nat
  BY <1>1
<1>4. TotalSupply = Sum(f, Users) /\ TotalSupply' = Sum(g, Users)
  BY DEF TotalSupply
<1> HIDE DEF f, g
<1>5. Sum(g, Users) = Sum(f, Users) + g[u] - f[u]
  BY <1>1, <1>2, SumChange
<1>6. Sum(f, Users) \in Nat
  BY <1>1, <1>2, SumNat
<1> QED
  BY <1>3, <1>4, <1>5, <1>6

(* Shares are minted in proportion at most. *)
LEMMA DepositKeeps ==
  ASSUME IInv, NEW u \in Users, NEW amount, Deposit(u, amount), TotalSupply > 0
  PROVE  Pool' * TotalSupply >= Pool * TotalSupply'
<1> DEFINE P == Pool
           S == TotalSupply
           m == SharesFor(amount)
<1>0. TypeOK /\ TypeOK'
  BY DepositStep DEF IInv
<1>10. /\ vault_balance \in Nat /\ collected \in Nat /\ wallet \in [Users -> Nat]
       /\ TotalSupply \in Nat
  BY <1>0, SupplyNat, Types
<1>11. amount \in Nat
  BY <1>10 DEF Deposit
<1>1. /\ P \in Nat \ {0} /\ S \in Nat \ {0} /\ amount \in Nat
      /\ lp' = [lp EXCEPT ![u] = @ + m]
      /\ Pool' = P + amount
  BY <1>10, <1>11 DEF Deposit, Pool
<1>2. m = (amount * S) \div P
  BY <1>1 DEF SharesFor
<1>3. lp' \in [Users -> Nat]
  BY <1>0 DEF TypeOK, Snapshot, Snapshots
<1> HIDE DEF P, S, m
<1>4. amount * S \in Nat
  BY <1>1, ProductNat
<1>5. m \in Nat /\ P * m <= amount * S
  BY <1>1, <1>2, <1>4, Quotient
<1>6. TotalSupply' = S + m
  <2>1. PICK k \in Int : k = m
    BY <1>5
  <2>2. lp' = [lp EXCEPT ![u] = @ + k]
    BY <1>1, <2>1
  <2>3. TotalSupply' = TotalSupply + k
    BY <1>0, <1>3, <2>2, SupplyChange
  <2> QED
    BY <2>1, <2>3 DEF S
<1>7. /\ (P + amount) * S = P * S + amount * S
      /\ P * (S + m) = P * S + P * m
  BY <1>1, <1>5
<1>8. P * S \in Nat /\ P * m \in Nat
  BY <1>1, <1>5, ProductNat
<1>9. (P + amount) * S >= P * (S + m)
  BY <1>4, <1>5, <1>7, <1>8
<1> QED
  BY <1>1, <1>6, <1>9 DEF P, S

(* What burned shares are given is in proportion at most. *)
LEMMA WithdrawKeeps ==
  ASSUME IInv, NEW u \in Users, NEW amount, Withdraw(u, amount)
  PROVE  Pool' * TotalSupply >= Pool * TotalSupply'
<1> DEFINE P == Pool
           S == TotalSupply
           U == FeeUnit
           part == (amount * U) \div S
           w == AssetShare(amount)
<1>0. TypeOK /\ TypeOK'
  BY WithdrawStep DEF IInv
<1>14. /\ vault_balance \in Nat /\ collected \in Nat /\ lp \in [Users -> Nat]
       /\ TotalSupply \in Nat /\ lp[u] <= TotalSupply /\ U \in Nat \ {0}
  BY <1>0, SupplyNat, Types, VaultAssumption
<1>15. amount \in Nat \ {0} /\ amount <= lp[u] /\ lp[u] \in Nat
  BY <1>14 DEF Withdraw
<1>1. /\ P \in Nat /\ S \in Nat \ {0} /\ amount \in Nat /\ U \in Nat \ {0}
      /\ lp' = [lp EXCEPT ![u] = @ - amount]
      /\ Pool' = vault_balance - w - collected /\ P = vault_balance - collected
      /\ vault_balance \in Nat /\ collected \in Nat
  BY <1>14, <1>15 DEF Withdraw, Pool
<1>2. w = (part * P) \div U
  BY DEF AssetShare
<1>3. lp' \in [Users -> Nat] /\ lp \in [Users -> Nat]
  BY <1>0, <1>14 DEF TypeOK, Snapshot, Snapshots
<1> HIDE DEF P, S, U, w
<1>4. amount * U \in Nat
  BY <1>1, ProductNat
<1>5. part \in Nat /\ S * part <= amount * U
  BY <1>1, <1>4, Quotient
<1> HIDE DEF part
<1>6. part * P \in Nat
  BY <1>1, <1>5, ProductNat
<1>7. w \in Nat /\ U * w <= part * P
  BY <1>1, <1>2, <1>6, Quotient
<1>8. w * S <= P * amount
  <2>1. (U * w) * S <= (part * P) * S
    BY <1>1, <1>6, <1>7, ProductNat, ProductMono
  <2>2. (S * part) * P <= (amount * U) * P
    BY <1>1, <1>4, <1>5, ProductNat, ProductMono
  <2>3. /\ (U * w) * S = (w * S) * U /\ (part * P) * S = (S * part) * P
        /\ (amount * U) * P = (P * amount) * U
    BY <1>1, <1>5, <1>7
  <2>4. w * S \in Nat /\ P * amount \in Nat
    BY <1>1, <1>7, ProductNat
  <2>5. /\ (w * S) * U \in Nat /\ (S * part) * P \in Nat /\ (P * amount) * U \in Nat
    BY <1>1, <1>5, <2>4, ProductNat
  <2>6. (w * S) * U <= (P * amount) * U
    BY <2>1, <2>2, <2>3, <2>5
  <2> QED
    BY <1>1, <2>4, <2>6, ProductCancel
<1>9. TotalSupply' = S - amount
  <2>1. -amount \in Int /\ lp[u] - amount = lp[u] + (-amount)
    BY <1>15
  <2>2. lp' = [lp EXCEPT ![u] = @ + (-amount)]
    BY <1>1, <2>1
  <2>3. TotalSupply' = TotalSupply + (-amount)
    BY <1>0, <1>3, <2>1, <2>2, SupplyChange
  <2> QED
    BY <1>1, <2>3 DEF S
<1>10. Pool' = P - w
  BY <1>1, <1>7
<1>11. (P - w) * S = P * S - w * S /\ P * (S - amount) = P * S - P * amount
  BY <1>1, <1>7
<1>12. P * S \in Nat /\ w * S \in Nat /\ P * amount \in Nat
  BY <1>1, <1>7, ProductNat
<1>13. (P - w) * S >= P * (S - amount)
  BY <1>8, <1>11, <1>12
<1> QED
  BY <1>9, <1>10, <1>13 DEF P, S

(* A loan with no other paid back inside it leaves no less than it found    *)
(* and the fee for the holders of shares.                                   *)
LEMMA LoanKeeps ==
  ASSUME SharesInv, AfterTrade, loans' = <<>>, ~Innermost.nested, PoolBefore >= 0
  PROVE  Pool' * SupplyBefore >= PoolBefore * TotalSupply'
<1>1. TypeOK /\ loans # <<>> /\ loans' = LoansAfter
  BY DEF SharesInv, IInv, AfterTrade
<1>2. Len(loans) = 1 /\ 1 \in 1..Len(loans) /\ Innermost = loans[1]
  <2>1. Len(loans) \in Nat \ {0} /\ Len(LoansAfter) = Len(loans) - 1
    BY <1>1, InnermostType, LoansAfterOver
  <2>2. Len(loans') = 0
    OBVIOUS
  <2> QED
    BY <1>1, <2>1, <2>2 DEF Innermost
<1> DEFINE b == loans[1].before
<1>3. /\ b.vault_balance \in Nat /\ b.collected \in Nat /\ b.lp \in [Users -> Nat]
      /\ collected \in Nat /\ vault_balance \in Nat /\ lp \in [Users -> Nat]
      /\ ProtocolFee \in Nat /\ FlashLoanFee \in Nat /\ BurnFee \in Nat
  BY <1>1, <1>2, FrameTypes, Types, FeesNat
<1>4. /\ loans[1].old_balance = b.vault_balance
      /\ \A u \in Users : lp[u] <= b.lp[u]
      /\ collected <= b.collected
  <2>1. Book(1 + 1).lp = lp /\ Book(1 + 1).collected = collected
    BY <1>2 DEF Book, Snapshot
  <2> QED
    BY <1>2, <2>1 DEF SharesInv, BooksSince
<1>5. PoolBefore = b.vault_balance - b.collected /\ SupplyBefore = Sum(b.lp, Users)
  BY <1>1 DEF PoolBefore, SupplyBefore
<1>6. /\ Pool' = vault_balance - BurnFee - (collected + ProtocolFee)
      /\ b.vault_balance + ProtocolFee + FlashLoanFee + BurnFee <= vault_balance
      /\ lp' = lp
  BY <1>2, <1>4 DEF AfterTrade, Required, Pool
<1> HIDE DEF b
<1>7. PoolBefore \in Nat /\ Pool' \in Nat /\ PoolBefore <= Pool'
  <2> DEFINE vb == b.vault_balance
             cb == b.collected
             pool1 == PoolBefore
             pool2 == Pool'
             pf == ProtocolFee
             ff == FlashLoanFee
             bf == BurnFee
  <2>1. /\ vb \in Nat /\ cb \in Nat /\ pf \in Nat /\ ff \in Nat /\ bf \in Nat
        /\ collected \in Nat /\ vault_balance \in Nat
    BY <1>3
  <2>2. collected <= cb /\ pool1 = vb - cb /\ pool1 >= 0
    BY <1>4, <1>5
  <2>3. pool2 = vault_balance - bf - (collected + pf) /\ vb + pf + ff + bf <= vault_balance
    BY <1>6
  <2> HIDE DEF vb, cb, pool1, pool2, pf, ff, bf
  <2>4. pool1 \in Nat /\ pool2 \in Nat /\ pool1 <= pool2
    BY <2>1, <2>2, <2>3
  <2> QED
    BY <2>4 DEF pool1, pool2
<1>8. TotalSupply' = Sum(lp, Users)
  BY <1>6 DEF TotalSupply
<1>9. /\ Sum(lp, Users) <= Sum(b.lp, Users)
      /\ Sum(lp, Users) \in Nat /\ Sum(b.lp, Users) \in Nat
  BY <1>3, <1>4, VaultAssumption, SumMono, SumNat
<1> DEFINE A == PoolBefore
           B == Pool'
           C == Sum(lp, Users)
           D == Sum(b.lp, Users)
<1>10. A \in Nat /\ B \in Nat /\ C \in Nat /\ D \in Nat /\ A <= B /\ C <= D
  BY <1>7, <1>9
<1>11. SupplyBefore = D /\ TotalSupply' = C
  BY <1>5, <1>8
<1> HIDE DEF A, B, C, D
<1>12. A * C <= B * D /\ A * C \in Nat /\ B * D \in Nat
  BY <1>10, ProductMono2, ProductNat
<1>13. B * D >= A * C
  BY <1>12
<1> QED
  BY <1>11, <1>13 DEF A, B

(* A transaction that is undone changes nothing. *)
LEMMA UndoneKeeps ==
  ASSUME TypeOK, loans # <<>>, vault_balance' = loans[1].before.vault_balance,
         collected' = loans[1].before.collected, lp' = loans[1].before.lp,
         PoolBefore >= 0
  PROVE  Pool' * SupplyBefore >= PoolBefore * TotalSupply'
<1>1. /\ 1 \in 1..Len(loans)
      /\ Pool' = PoolBefore /\ TotalSupply' = SupplyBefore
  BY InnermostType DEF Pool, PoolBefore, TotalSupply, SupplyBefore
<1>2. PoolBefore \in Int /\ SupplyBefore \in Nat
  <2>1. loans[1].before.lp \in [Users -> Nat]
    BY <1>1, FrameTypes
  <2>2. Sum(loans[1].before.lp, Users) \in Nat
    BY <2>1, VaultAssumption, SumNat
  <2> QED
    BY <1>1, <2>2, FrameTypes DEF PoolBefore, SupplyBefore
<1>3. PoolBefore * SupplyBefore \in Int
  BY <1>2
<1> QED
  BY <1>1, <1>3

(* Between transactions, coins that come without a message only add to it.  *)
LEMMA MoreKeeps ==
  ASSUME TypeOK, loans = <<>>, lp' = lp, Pool' \in Int, Pool' >= Pool, Pool >= 0
  PROVE  Pool' * SupplyBefore >= PoolBefore * TotalSupply'
<1> DEFINE A == Pool
           B == Pool'
           C == TotalSupply
<1>1. /\ PoolBefore = A /\ SupplyBefore = C /\ TotalSupply' = C
  BY DEF PoolBefore, SupplyBefore, TotalSupply
<1>2. A \in Nat /\ B \in Nat /\ C \in Nat /\ A <= B
  BY SupplyNat, Types DEF Pool
<1> HIDE DEF A, B, C
<1>3. A * C <= B * C /\ A * C \in Nat /\ B * C \in Nat
  BY <1>2, ProductMono, ProductNat
<1>4. B * C >= A * C
  BY <1>3
<1> QED
  BY <1>1, <1>4 DEF B

LEMMA ValueKept ==
  ASSUME SharesInv, [Next]_vars, Ends, SupplyBefore > 0, PoolBefore >= 0
  PROVE  Pool' * SupplyBefore >= PoolBefore * TotalSupply'
<1>1. /\ TypeOK /\ IInv /\ loans' = <<>> /\ Pool \in Int
      /\ collected \in Nat /\ vault_balance \in Nat
      /\ loans \in Seq(Frames)
  BY Types DEF SharesInv, IInv, Ends, Pool
<1>2. CASE loans = <<>>
  <2>1. PoolBefore = Pool /\ SupplyBefore = TotalSupply /\ Pool >= 0
    BY <1>2 DEF PoolBefore, SupplyBefore
  <2>2. CASE UNCHANGED vars
    BY <1>1, <1>2, <2>1, <2>2, MoreKeeps DEF vars, vault_vars, Pool
  <2>3. ASSUME NEW u \in Users, NEW amount, Deposit(u, amount)
        PROVE  Pool' * SupplyBefore >= PoolBefore * TotalSupply'
    BY <1>1, <2>1, <2>3, DepositKeeps
  <2>4. ASSUME NEW u \in Users, NEW amount, Withdraw(u, amount)
        PROVE  Pool' * SupplyBefore >= PoolBefore * TotalSupply'
    BY <1>1, <2>1, <2>4, WithdrawKeeps
  <2>5. ASSUME NEW u \in Users, NEW amount \in Nat, Transfer(u, amount)
        PROVE  Pool' * SupplyBefore >= PoolBefore * TotalSupply'
    <3>1. Pool' = Pool + amount /\ lp' = lp
      BY <1>1, <2>5 DEF Transfer, Pool
    <3> QED
      BY <1>1, <1>2, <2>1, <3>1, MoreKeeps
  <2>6. ASSUME NEW u \in Users, NEW amount, FlashLoan(u, amount) PROVE FALSE
    <3>1. loans' # <<>>
      BY <1>1, <2>6 DEF FlashLoan, Lend
    <3> QED
      BY <1>1, <3>1
  <2>7. ~AfterTrade /\ ~Fail
    BY <1>2 DEF AfterTrade, Fail
  <2>8. CASE CollectProtocolFees
    <3>1. Pool' = Pool /\ lp' = lp
      BY <1>1, <2>8 DEF CollectProtocolFees, CollectedAfter, Pool
    <3> QED
      BY <1>1, <1>2, <2>1, <3>1, MoreKeeps
  <2>9. ASSUME NEW sender, NEW owner, NEW enabled, NEW fees,
               UpdateConfig(sender, owner, enabled, fees)
        PROVE  Pool' * SupplyBefore >= PoolBefore * TotalSupply'
    BY <1>1, <1>2, <2>1, <2>9, MoreKeeps DEF UpdateConfig, vault_vars, Pool
  <2>10. wallet \in [Users -> Nat]
    BY <1>1, Types
  <2> QED
    BY <2>2, <2>3, <2>4, <2>5, <2>6, <2>7, <2>8, <2>9, <2>10 DEF Next
<1>3. CASE loans # <<>>
  <2>1. ~(UNCHANGED loans)
    BY <1>1, <1>3
  <2>2. ~Innermost.nested
    BY <1>3 DEF Ends
  <2>3. CASE AfterTrade
    BY <1>1, <2>2, <2>3, LoanKeeps
  <2>4. CASE Fail
    <3>1. loans' = SubSeq(loans, 1, Len(loans) - 1) /\ Len(loans) \in 1..Len(loans)
      BY <1>1, <1>3, <2>4, InnermostType DEF Fail
    <3>2. Len(loans) - 1 = 0
      <4>1. Len(SubSeq(loans, 1, Len(loans) - 1)) = Len(loans) - 1
        BY <1>1, <3>1, LoansBefore
      <4>2. Len(loans') = 0
        BY <1>1
      <4> QED
        BY <3>1, <4>1, <4>2
    <3>3. Innermost = loans[1]
      <4>1. Len(loans) = 1
        BY <3>1, <3>2
      <4> QED
        BY <4>1 DEF Innermost
    <3> QED
      BY <1>1, <1>3, <2>4, <3>3, UndoneKeeps DEF Fail
  <2>5. ASSUME NEW u \in Users, NEW amount, FlashLoan(u, amount) PROVE FALSE
    <3>1. loans' # <<>>
      BY <1>1, <2>5 DEF FlashLoan, Lend
    <3> QED
      BY <1>1, <3>1
  <2>6. /\ ~(UNCHANGED vars) /\ ~CollectProtocolFees
        /\ \A u \in Users, amount \in Nat :
             ~Deposit(u, amount) /\ ~Withdraw(u, amount) /\ ~Transfer(u, amount)
        /\ \A sender, owner, enabled, fees : ~UpdateConfig(sender, owner, enabled, fees)
    BY <2>1 DEF vars, CollectProtocolFees, Deposit, Withdraw, Transfer, UpdateConfig
  <2>7. wallet \in [Users -> Nat] /\ lp \in [Users -> Nat]
    BY <1>1, Types
  <2> QED
    BY <1>1, <2>3, <2>4, <2>5, <2>6, <2>7 DEF Next
<1> QED
  BY <1>2, <1>3

(* No transaction with the vault makes a share worth less, in which no loan *)
(* is paid back inside another.                                             *)
THEOREM SharesKeepValue == Spec => ShareValueKept
<1>1. Init => SharesInv
  <2>1. Init => Len(loans) = 0
    BY DEF Init
  <2> QED
    BY <2>1, InitInv DEF SharesInv, BooksSince
<1>2. SharesInv /\ [Next]_vars =>
        [Ends /\ SupplyBefore > 0 /\ PoolBefore >= 0
           => Pool' * SupplyBefore >= PoolBefore * TotalSupply']_vars
  BY ValueKept
<1> QED
  BY <1>1, <1>2, SharesStep, PTL DEF Spec, ShareValueKept

-----------------------------------------------------------------------------
(* The vault with its router *)

Tasks ==
  Messages \cup [op : {"complete_loan"}, initiator : Users, amount : Nat]
           \cup [op : {"after_trade"}, loan : Nat]

(* The first of the router's loans in progress; without one, the place of   *)
(* the next loan.                                                           *)
Own == IF tasks = <<>> THEN Len(loans) + 1 ELSE FirstRouterLoan

(* The messages still to be performed fit the loans in progress: callbacks  *)
(* stand in the order in which the loans will be over, ...                  *)
CallbacksInOrder ==
  /\ \A i \in 1..Len(tasks) :
       tasks[i].op = "after_trade" => tasks[i].loan \in 1..Len(loans)
  /\ \A i, j \in 1..Len(tasks) :
       i < j /\ tasks[i].op = "after_trade" /\ tasks[j].op = "after_trade"
         => tasks[i].loan > tasks[j].loan

(* ... each of the router's loans has one, ...                              *)
CallbackOfEach ==
  \A k \in Own..Len(loans) :
    \E i \in 1..Len(tasks) : tasks[i].op = "after_trade" /\ tasks[i].loan = k

(* ... the last two messages complete the outermost loan, ...               *)
EndsWithCompletion ==
  /\ tasks # <<>> => tasks[Len(tasks)].op = "after_trade"
  /\ Len(tasks) >= 2 => /\ tasks[Len(tasks) - 1].op = "complete_loan"
                        /\ tasks[Len(tasks) - 1].initiator \in Users \ {Router}

(* ... the router's loans are the last, and it began with nothing.          *)
OwnLoans ==
  \A i \in 1..Len(loans) :
    /\ i >= Own => loans[i].borrower = Router
    /\ i <= Own => loans[i].before.wallet[Router] = 0

RInv ==
  /\ tasks \in Seq(Tasks)
  /\ CallbacksInOrder
  /\ CallbackOfEach
  /\ EndsWithCompletion
  /\ OwnLoans
  /\ Len(tasks) <= 1 => wallet[Router] = 0

RouterInv == IInv /\ RInv

(* What messages look like. *)
LEMMA TaskForms ==
  ASSUME NEW t \in Tasks
  PROVE  /\ t.op \in {"trade", "flash_loan", "complete_loan", "after_trade"}
         /\ t.op = "trade" => t.gain \in Int
         /\ t.op = "flash_loan" => t.msgs \in Seq(Messages)
         /\ t.op = "complete_loan" => t.initiator \in Users /\ t.amount \in Nat
         /\ t.op = "after_trade" => t.loan \in Nat
BY RouterAssumption DEF Tasks

(* While the router is at work only it may act. *)
LEMMA RouterActs ==
  ASSUME RouterInv, tasks # <<>>
  PROVE  /\ Len(tasks) \in Nat \ {0} /\ Len(loans) \in Nat \ {0}
         /\ FirstRouterLoan \in 1..Len(loans) /\ Own = FirstRouterLoan
         /\ Innermost.borrower = Router
         /\ \A u \in Users \ {Router} : ~MayAct(u)
<1>1. Len(tasks) \in Nat \ {0} /\ loans \in Seq(Frames) /\ Len(loans) \in Nat
  BY Types DEF RouterInv, RInv, IInv
<1>2. FirstRouterLoan \in 1..Len(loans)
  BY <1>1 DEF RouterInv, RInv, CallbacksInOrder, EndsWithCompletion, FirstRouterLoan
<1>3. Own = FirstRouterLoan
  BY DEF Own
<1>4. Len(loans) \in 1..Len(loans) /\ Len(loans) >= Own
  BY <1>1, <1>2, <1>3
<1>5. Innermost.borrower = Router
  BY <1>4 DEF RouterInv, RInv, OwnLoans, Innermost
<1>6. loans # <<>>
  BY <1>1, <1>2
<1> QED
  BY <1>1, <1>2, <1>3, <1>4, <1>5, <1>6 DEF MayAct

-----------------------------------------------------------------------------
LEMMA RouterInitInv == RouterInit => RouterInv
<1> SUFFICES ASSUME RouterInit PROVE RouterInv
  OBVIOUS
<1>1. IInv /\ loans = <<>> /\ tasks = <<>> /\ wallet = Funds
  BY InitInv DEF RouterInit, Init
<1>2. wallet[Router] = 0
  BY <1>1, RouterAssumption
<1>3. tasks \in Seq(Tasks) /\ Len(tasks) = 0 /\ Len(loans) = 0
  BY <1>1
<1> QED
  BY <1>1, <1>2, <1>3
  DEF RouterInv, RInv, CallbacksInOrder, CallbackOfEach, EndsWithCompletion, OwnLoans, Own

(* A step of the vault between the calls of the router. *)
LEMMA IdleStep ==
  ASSUME RouterInv, tasks = <<>>, UNCHANGED tasks,
         wallet'[Router] = 0,
         Len(loans') \in Nat,
         \A i \in 1..Len(loans') : loans'[i].before.wallet[Router] = 0
  PROVE  RInv'
<1>1. tasks' = <<>> /\ Len(tasks') = 0 /\ tasks' \in Seq(Tasks)
  OBVIOUS
<1>2. Own' = Len(loans') + 1
  BY <1>1 DEF Own
<1> QED
  BY <1>1, <1>2 DEF RInv, CallbacksInOrder, CallbackOfEach, EndsWithCompletion, OwnLoans

LEMMA IdleWallet ==
  ASSUME RouterInv, tasks = <<>>
  PROVE  /\ wallet[Router] = 0 /\ wallet \in [Users -> Nat] /\ Router \in Users
         /\ loans \in Seq(Frames) /\ Len(loans) \in Nat
         /\ \A i \in 1..Len(loans) : loans[i].before.wallet[Router] = 0
<1>1. loans \in Seq(Frames) /\ wallet \in [Users -> Nat] /\ Len(loans) \in Nat
  BY Types DEF RouterInv, IInv
<1>2. Own = Len(loans) + 1
  BY DEF Own
<1>3. Len(tasks) = 0
  OBVIOUS
<1> QED
  BY <1>1, <1>2, <1>3, RouterAssumption DEF RouterInv, RInv, OwnLoans

-----------------------------------------------------------------------------
LEMMA VaultStepInv ==
  ASSUME RouterInv, VaultStep
  PROVE  RouterInv'
<1>1. UNCHANGED router_vars
  BY DEF VaultStep
<1>2. UNCHANGED tasks
  BY <1>1 DEF router_vars
<1>3. ASSUME NEW u \in Users \ {Router}, NEW amount \in Nat,
             Deposit(u, amount) \/ Transfer(u, amount) \/ Withdraw(u, amount)
      PROVE  RouterInv'
  <2>1. IInv'
    BY <1>3, DepositStep, TransferStep, WithdrawStep DEF RouterInv
  <2>2. tasks = <<>>
    BY <1>3, RouterActs DEF Deposit, Transfer, Withdraw
  <2>3. wallet'[Router] = 0 /\ loans' = loans
    BY <1>3, <2>2, IdleWallet DEF Deposit, Transfer, Withdraw
  <2> QED
    BY <1>2, <2>1, <2>2, <2>3, IdleWallet, IdleStep DEF RouterInv
<1>4. ASSUME NEW u \in Users \ {Router}, NEW amount \in Nat, FlashLoan(u, amount)
      PROVE  RouterInv'
  <2>1. IInv'
    BY <1>4, FlashLoanStep DEF RouterInv
  <2>2. tasks = <<>>
    BY <1>4, RouterActs DEF FlashLoan
  <2>3. /\ wallet'[Router] = 0
        /\ Len(loans') = Len(loans) + 1
        /\ \A i \in 1..Len(loans) : loans'[i] = loans[i]
        /\ loans'[Len(loans) + 1].before.wallet = wallet
    BY <1>4, <2>2, IdleWallet, LendStep DEF RouterInv, FlashLoan
  <2>4. Len(loans') \in Nat /\ \A i \in 1..Len(loans') : loans'[i].before.wallet[Router] = 0
    BY <2>2, <2>3, IdleWallet
  <2> QED
    BY <1>2, <2>1, <2>2, <2>3, <2>4, IdleStep DEF RouterInv
<1>5. ASSUME tasks = <<>>, AfterTrade
      PROVE  RouterInv'
  <2>1. IInv' /\ TypeOK /\ loans # <<>>
    BY <1>5, AfterTradeStep DEF RouterInv, IInv, AfterTrade
  <2>2. wallet'[Router] = 0 /\ loans' = LoansAfter
    BY <1>5, IdleWallet DEF AfterTrade
  <2>3. /\ Len(loans') \in Nat
        /\ \A i \in 1..Len(loans') : loans'[i].before.wallet[Router] = 0
    BY <1>5, <2>1, <2>2, IdleWallet, LoansAfterOver, InnermostType
  <2> QED
    BY <1>2, <1>5, <2>1, <2>2, <2>3, IdleStep DEF RouterInv
<1>6. ASSUME tasks = <<>>, Fail
      PROVE  RouterInv'
  <2>1. IInv' /\ TypeOK /\ loans # <<>>
    BY <1>6, FailStep DEF RouterInv, IInv, Fail
  <2>2. Len(loans) \in 1..Len(loans) /\ Innermost = loans[Len(loans)]
    BY <2>1, InnermostType DEF Innermost
  <2>3. wallet'[Router] = 0
    BY <1>6, <2>2, IdleWallet DEF Fail
  <2>4. loans' = SubSeq(loans, 1, Len(loans) - 1)
    BY <1>6 DEF Fail
  <2>5. /\ Len(loans') = Len(loans) - 1
        /\ \A i \in 1..(Len(loans) - 1) : loans'[i] = loans[i]
    BY <2>1, <2>2, <2>4, LoansBefore
  <2>6. Len(loans') \in Nat /\ \A i \in 1..Len(loans') : loans'[i].before.wallet[Router] = 0
    BY <1>6, <2>2, <2>5, IdleWallet
  <2> QED
    BY <1>2, <1>6, <2>1, <2>3, <2>6, IdleStep DEF RouterInv
<1>7. ASSUME CollectProtocolFees
      PROVE  RouterInv'
  <2>1. IInv' /\ loans' = loans /\ wallet' = wallet
    BY <1>7, CollectStep DEF RouterInv, CollectProtocolFees
  <2> QED
    BY <1>2, <2>1 DEF RouterInv, RInv, CallbacksInOrder, CallbackOfEach,
                      EndsWithCompletion, OwnLoans, Own, FirstRouterLoan
<1>8. ASSUME NEW sender \in Admins, NEW owner \in Admins, NEW enabled \in Switches,
             NEW fees \in Fees, UpdateConfig(sender, owner, enabled, fees)
      PROVE  RouterInv'
  <2>1. IInv' /\ loans' = loans /\ wallet' = wallet
    BY <1>8, UpdateConfigStep DEF RouterInv, UpdateConfig, vault_vars
  <2> QED
    BY <1>2, <2>1 DEF RouterInv, RInv, CallbacksInOrder, CallbackOfEach,
                      EndsWithCompletion, OwnLoans, Own, FirstRouterLoan
<1>9. wallet \in [Users -> Nat] /\ lp \in [Users -> Nat] /\ vault_balance \in Nat
  BY Types DEF RouterInv, IInv
<1> QED
  BY <1>3, <1>4, <1>5, <1>6, <1>7, <1>8, <1>9 DEF VaultStep

-----------------------------------------------------------------------------
(* What is still to be performed after the next message. *)
LEMMA RestInOrder ==
  ASSUME RouterInv, tasks # <<>>
  PROVE  LET rest == Tail(tasks) IN
         /\ Head(tasks) = tasks[1] /\ tasks[1] \in Tasks
         /\ Len(tasks) \in Nat \ {0}
         /\ rest \in Seq(Tasks) /\ Len(rest) = Len(tasks) - 1
         /\ \A i \in 1..Len(rest) : rest[i] = tasks[i + 1]
         /\ \A i \in 1..Len(rest) :
              rest[i].op = "after_trade" => rest[i].loan \in 1..Len(loans)
         /\ \A i, j \in 1..Len(rest) :
              i < j /\ rest[i].op = "after_trade" /\ rest[j].op = "after_trade"
                => rest[i].loan > rest[j].loan
<1> DEFINE rest == Tail(tasks)
<1>1. tasks \in Seq(Tasks)
  BY DEF RouterInv, RInv
<1>2. /\ Head(tasks) = tasks[1] /\ tasks[1] \in Tasks
      /\ Len(tasks) \in Nat \ {0}
      /\ rest \in Seq(Tasks) /\ Len(rest) = Len(tasks) - 1
      /\ \A i \in 1..Len(rest) : rest[i] = tasks[i + 1]
  BY <1>1
<1> HIDE DEF rest
<1>3. \A i \in 1..Len(rest) : i + 1 \in 1..Len(tasks)
  BY <1>2
<1>4. \A i \in 1..Len(rest) :
        rest[i].op = "after_trade" => rest[i].loan \in 1..Len(loans)
  BY <1>2, <1>3 DEF RouterInv, RInv, CallbacksInOrder
<1>5. ASSUME NEW i \in 1..Len(rest), NEW j \in 1..Len(rest),
             i < j, rest[i].op = "after_trade", rest[j].op = "after_trade"
      PROVE  rest[i].loan > rest[j].loan
  <2>1. i + 1 \in 1..Len(tasks) /\ j + 1 \in 1..Len(tasks) /\ i + 1 < j + 1
    BY <1>2, <1>5
  <2> QED
    BY <1>2, <1>5, <2>1 DEF RouterInv, RInv, CallbacksInOrder
<1> QED
  BY <1>2, <1>4, <1>5 DEF rest

(* The messages a loan of the router puts first. *)
LEMMA Pushed ==
  ASSUME NEW msgs \in Seq(Messages), NEW c, NEW cb, NEW rest, rest \in Seq(Tasks),
         c \in Tasks, cb \in Tasks
  PROVE  LET new == msgs \o <<c, cb>> \o rest
             n == Len(msgs) IN
         /\ new \in Seq(Tasks)
         /\ Len(new) = n + 2 + Len(rest) /\ n \in Nat /\ Len(rest) \in Nat
         /\ \A i \in 1..n : new[i] = msgs[i] /\ new[i] \in Messages
         /\ new[n + 1] = c /\ new[n + 2] = cb
         /\ \A i \in 1..Len(rest) : new[n + 2 + i] = rest[i]
<1>1. msgs \in Seq(Tasks) /\ \A i \in 1..Len(msgs) : msgs[i] \in Messages
  BY DEF Tasks
<1>2. msgs \o <<c, cb>> \in Seq(Tasks) /\ Len(msgs \o <<c, cb>>) = Len(msgs) + 2
  BY <1>1
<1> QED
  BY <1>1, <1>2

(* The costs of a loan are natural numbers. *)
LEMMA CostsNat ==
  ASSUME TypeOK, NEW amount \in Nat
  PROVE  /\ Costs(amount) \in Nat /\ PaybackAmount(amount) \in Nat
         /\ Compute(vault_config.fees.protocol, amount) \in Nat
         /\ Compute(vault_config.fees.flash_loan, amount) \in Nat
         /\ Compute(vault_config.fees.burn, amount) \in Nat
<1>1. vault_config.fees \in [protocol : Nat, flash_loan : Nat, burn : Nat]
  BY VaultAssumption DEF TypeOK
<1>2. ASSUME NEW share \in Nat
      PROVE  Compute(share, amount) \in Nat
  BY <1>2, ProductNat, Quotient, VaultAssumption DEF Compute
<1>3. /\ Compute(vault_config.fees.protocol, amount) \in Nat
      /\ Compute(vault_config.fees.flash_loan, amount) \in Nat
      /\ Compute(vault_config.fees.burn, amount) \in Nat
  BY <1>1, <1>2
<1>4. Costs(amount) \in Nat
  BY <1>3 DEF Costs
<1> QED
  BY <1>3, <1>4 DEF PaybackAmount

(* A loan of the router: for a caller who finds it at rest, or as a message *)
(* of a payload, with the rest still to be performed.                       *)
LEMMA BorrowStep ==
  ASSUME RouterInv, NEW sender \in Users, NEW amount, NEW msgs \in Seq(Messages),
         NEW rest, rest \in Seq(Tasks), Borrow(sender, amount, msgs, rest),
         \/ tasks = <<>> /\ rest = <<>> /\ sender # Router
         \/ Len(tasks) >= 3 /\ Head(tasks).op # "after_trade" /\ rest = Tail(tasks)
  PROVE  RouterInv'
<1> DEFINE n == Len(msgs)
           L == Len(loans)
           c == Complete(sender, amount)
           cb == Callback(Len(loans'))
<1>1. Lend(Router, amount) /\ tasks' = msgs \o <<c, cb>> \o rest
  BY DEF Borrow
<1>2. /\ IInv' /\ amount \in Nat
      /\ Len(loans') = L + 1 /\ L \in Nat
      /\ \A i \in 1..L : loans'[i] = loans[i]
      /\ loans'[L + 1].borrower = Router
      /\ loans'[L + 1].before.wallet = wallet
  BY <1>1, LendStep, RouterAssumption DEF RouterInv
<1>3. c \in Tasks /\ cb \in Tasks
  BY <1>2 DEF Tasks, Complete, Callback
<1>4. /\ c.op = "complete_loan" /\ c.initiator = sender
      /\ cb.op = "after_trade" /\ cb.loan = L + 1
  BY <1>2 DEF Complete, Callback
<1> HIDE DEF c, cb
<1>5. /\ tasks' \in Seq(Tasks)
      /\ Len(tasks') = n + 2 + Len(rest) /\ n \in Nat /\ Len(rest) \in Nat
      /\ \A i \in 1..n : tasks'[i] \in Messages
      /\ tasks'[n + 1] = c /\ tasks'[n + 2] = cb
      /\ \A i \in 1..Len(rest) : tasks'[n + 2 + i] = rest[i]
  BY <1>1, <1>3, Pushed
<1> HIDE DEF n, L
<1>6. \A i \in 1..(n + 1) : tasks'[i].op # "after_trade"
  <2>1. \A m \in Messages : m.op # "after_trade"
    BY RouterAssumption
  <2>2. \A i \in 1..n : tasks'[i].op # "after_trade"
    BY <1>5, <2>1
  <2>3. tasks'[n + 1].op # "after_trade"
    BY <1>4, <1>5
  <2>4. \A i \in 1..(n + 1) : i \in 1..n \/ i = n + 1
    BY <1>5
  <2> QED
    BY <2>2, <2>3, <2>4
<1>7. /\ \A i \in 1..Len(rest) : rest[i].op = "after_trade" => rest[i].loan \in 1..L
      /\ \A i, j \in 1..Len(rest) :
           i < j /\ rest[i].op = "after_trade" /\ rest[j].op = "after_trade"
             => rest[i].loan > rest[j].loan
  <2>1. CASE rest = <<>>
    BY <2>1
  <2>2. CASE /\ Len(tasks) >= 3 /\ Head(tasks).op # "after_trade"
             /\ rest = Tail(tasks)
    <3>1. tasks # <<>>
      BY <2>2
    <3> QED
      BY <2>2, <3>1, RestInOrder DEF L
  <2> QED
    BY <2>1, <2>2
<1>8. CallbacksInOrder'
  <2>1. ASSUME NEW i \in 1..Len(tasks'), tasks'[i].op = "after_trade"
        PROVE  \/ i = n + 2 /\ tasks'[i].loan = L + 1
               \/ /\ i - (n + 2) \in 1..Len(rest)
                  /\ tasks'[i] = rest[i - (n + 2)]
                  /\ tasks'[i].loan \in 1..L
    <3>1. CASE i <= n + 1
      BY <1>5, <1>6, <2>1, <3>1
    <3>2. CASE i = n + 2
      BY <1>4, <1>5, <3>2
    <3>3. CASE i > n + 2
      <4>1. i - (n + 2) \in 1..Len(rest) /\ i = n + 2 + (i - (n + 2))
        BY <1>5, <3>3
      <4> QED
        BY <1>5, <1>7, <2>1, <4>1
    <3> QED
      BY <1>5, <3>1, <3>2, <3>3
  <2>2. ASSUME NEW i \in 1..Len(tasks'), NEW j \in 1..Len(tasks'), i < j,
               tasks'[i].op = "after_trade", tasks'[j].op = "after_trade"
        PROVE  tasks'[i].loan > tasks'[j].loan
    <3>1. CASE i = n + 2
      BY <1>2, <1>5, <2>1, <2>2, <3>1, SMTT(30) DEF L
    <3>2. CASE i # n + 2
      <4>1. /\ i - (n + 2) \in 1..Len(rest) /\ tasks'[i] = rest[i - (n + 2)]
            /\ j - (n + 2) \in 1..Len(rest) /\ tasks'[j] = rest[j - (n + 2)]
        <5>1. i - (n + 2) \in 1..Len(rest) /\ tasks'[i] = rest[i - (n + 2)]
          BY <2>1, <2>2, <3>2
        <5>2. j # n + 2
          BY <1>5, <2>2, <5>1
        <5> QED
          BY <2>1, <2>2, <5>1, <5>2
      <4>2. i - (n + 2) < j - (n + 2)
        BY <1>5, <2>2
      <4> QED
        BY <1>7, <2>2, <4>1, <4>2
    <3> QED
      BY <3>1, <3>2
  <2>3. \A i \in 1..Len(tasks') :
          tasks'[i].op = "after_trade" => tasks'[i].loan \in 1..Len(loans')
    BY <1>2, <2>1, SMTT(30) DEF L
  <2> QED
    BY <2>2, <2>3 DEF CallbacksInOrder
<1>11. /\ n + 2 \in 1..Len(tasks')
       /\ tasks'[n + 2].op = "after_trade" /\ tasks'[n + 2].loan = L + 1
  BY <1>4, <1>5
<1>9. CASE tasks = <<>> /\ rest = <<>> /\ sender # Router
  <2>1. Len(tasks') = n + 2 /\ tasks' # <<>>
    BY <1>5, <1>9
  <2>2. EndsWithCompletion'
    BY <1>4, <1>5, <1>9, <2>1 DEF EndsWithCompletion
  <2>3. Own' = L + 1
    BY <1>4, <1>5, <2>1 DEF Own, FirstRouterLoan
  <2>4. OwnLoans'
    BY <1>2, <1>9, <2>3, IdleWallet DEF OwnLoans, L
  <2>5. Len(tasks') > 1
    BY <1>5, <2>1
  <2>6. CallbackOfEach'
    <3>1. \A k \in Own'..Len(loans') : k = L + 1
      BY <1>2, <2>3
    <3> QED
      BY <1>11, <3>1 DEF CallbackOfEach
  <2> QED
    BY <1>2, <1>5, <1>8, <2>2, <2>4, <2>5, <2>6 DEF RouterInv, RInv
<1>10. CASE /\ Len(tasks) >= 3 /\ Head(tasks).op # "after_trade"
             /\ rest = Tail(tasks)
  <2>1. /\ Len(rest) = Len(tasks) - 1 /\ Len(tasks) \in Nat
        /\ \A i \in 1..Len(rest) : rest[i] = tasks[i + 1]
    BY <1>10 DEF RouterInv, RInv
  <2>2. /\ tasks'[Len(tasks')] = tasks[Len(tasks)]
        /\ tasks'[Len(tasks') - 1] = tasks[Len(tasks) - 1]
        /\ Len(tasks') > 2 /\ tasks' # <<>> /\ tasks # <<>>
    <3>1. /\ Len(rest) \in 1..Len(rest) /\ Len(rest) - 1 \in 1..Len(rest)
          /\ Len(tasks') = n + 2 + Len(rest)
          /\ Len(tasks') - 1 = n + 2 + (Len(rest) - 1)
      BY <1>5, <1>10, <2>1
    <3>2. /\ tasks'[Len(tasks')] = rest[Len(rest)]
          /\ tasks'[Len(tasks') - 1] = rest[Len(rest) - 1]
      BY <1>5, <3>1
    <3>3. rest[Len(rest)] = tasks[Len(tasks)] /\ rest[Len(rest) - 1] = tasks[Len(tasks) - 1]
      <4>1. Len(rest) + 1 = Len(tasks) /\ (Len(rest) - 1) + 1 = Len(tasks) - 1
        BY <2>1
      <4>2. /\ rest[Len(rest)] = tasks[Len(rest) + 1]
            /\ rest[Len(rest) - 1] = tasks[(Len(rest) - 1) + 1]
        BY <2>1, <3>1
      <4> QED
        BY <4>1, <4>2
    <3>4. Len(tasks') > 2
      BY <1>5, <1>10, <2>1
    <3> QED
      BY <1>10, <3>2, <3>3, <3>4
  <2>3. EndsWithCompletion'
    BY <1>10, <2>1, <2>2 DEF RouterInv, RInv, EndsWithCompletion
  <2>4. Own' = Own /\ Own \in 1..L
    BY <2>2, RouterActs DEF Own, FirstRouterLoan, L
  <2>5. OwnLoans'
    <3>1. ASSUME NEW i \in 1..L
          PROVE  /\ i >= Own' => loans'[i].borrower = Router
                 /\ i <= Own' => loans'[i].before.wallet[Router] = 0
      BY <1>2, <2>4, <3>1 DEF RouterInv, RInv, OwnLoans, L
    <3>2. ~(L + 1 <= Own') /\ loans'[L + 1].borrower = Router
      BY <1>2, <2>4
    <3>3. \A i \in 1..Len(loans') : i \in 1..L \/ i = L + 1
      BY <1>2
    <3> QED
      BY <3>1, <3>2, <3>3 DEF OwnLoans
  <2>6. ~(Len(tasks') <= 1)
    BY <1>5, <2>2
  <2>7. CallbackOfEach'
    <3>1. ASSUME NEW k \in Own..L
          PROVE  \E i \in 1..Len(tasks') :
                   tasks'[i].op = "after_trade" /\ tasks'[i].loan = k
      <4>1. PICK i \in 1..Len(tasks) : tasks[i].op = "after_trade" /\ tasks[i].loan = k
        BY <3>1 DEF RouterInv, RInv, CallbackOfEach, L
      <4>2. i # 1
        BY <1>10, <2>2, <4>1, RestInOrder
      <4>3. i - 1 \in 1..Len(rest) /\ i = (i - 1) + 1
        BY <2>1, <4>2
      <4>4. n + 2 + (i - 1) \in 1..Len(tasks') /\ tasks'[n + 2 + (i - 1)] = tasks[i]
        <5>1. rest[i - 1] = tasks[i]
          BY <2>1, <4>3
        <5>2. n + 2 + (i - 1) \in 1..Len(tasks')
          BY <1>5, <4>3
        <5>3. tasks'[n + 2 + (i - 1)] = rest[i - 1]
          BY <1>5, <4>3
        <5> QED
          BY <5>1, <5>2, <5>3
      <4> QED
        BY <4>1, <4>4
    <3>2. \A k \in Own'..Len(loans') : k \in Own..L \/ k = L + 1
      BY <1>2, <2>4
    <3> QED
      BY <1>11, <3>1, <3>2 DEF CallbackOfEach
  <2> QED
    BY <1>2, <1>5, <1>8, <2>3, <2>5, <2>6, <2>7 DEF RouterInv, RInv
<1> QED
  BY <1>9, <1>10

LEMMA RouterFlashLoanStep ==
  ASSUME RouterInv, NEW u \in Users \ {Router}, NEW amount, NEW msgs \in Payloads,
         RouterFlashLoan(u, amount, msgs)
  PROVE  RouterInv'
<1>1. tasks = <<>>
  BY RouterActs DEF RouterFlashLoan
<1>2. msgs \in Seq(Messages) /\ <<>> \in Seq(Tasks)
  BY RouterAssumption
<1> QED
  BY <1>1, <1>2, BorrowStep DEF RouterFlashLoan

(* A message of a payload is neither of the last two. *)
LEMMA PayloadFirst ==
  ASSUME RouterInv, tasks # <<>>, Head(tasks).op \in {"trade", "flash_loan"}
  PROVE  Len(tasks) >= 3
<1>1. Len(tasks) \in Nat \ {0} /\ Head(tasks) = tasks[1]
  BY RestInOrder
<1>2. Len(tasks) # 1
  BY <1>1 DEF RouterInv, RInv, EndsWithCompletion
<1>3. Len(tasks) # 2
  <2>1. ASSUME Len(tasks) = 2 PROVE FALSE
    <3>1. tasks[Len(tasks) - 1].op = "complete_loan"
      BY <2>1 DEF RouterInv, RInv, EndsWithCompletion
    <3>2. Len(tasks) - 1 = 1
      BY <2>1
    <3> QED
      BY <1>1, <3>1, <3>2
  <2> QED
    BY <2>1
<1>4. \A x \in Nat \ {0} : x # 1 /\ x # 2 => x >= 3
  OBVIOUS
<1> QED
  BY <1>1, <1>2, <1>3, <1>4

LEMMA NestedFlashLoanStep ==
  ASSUME RouterInv, NestedFlashLoan
  PROVE  RouterInv'
<1>1. tasks # <<>> /\ Head(tasks).op = "flash_loan"
  BY DEF NestedFlashLoan
<1>2. Head(tasks).msgs \in Seq(Messages)
  BY <1>1, RestInOrder, TaskForms
<1>3. Len(tasks) >= 3 /\ Tail(tasks) \in Seq(Tasks)
  BY <1>1, PayloadFirst, RestInOrder
<1> QED
  BY <1>2, <1>3, BorrowStep, RouterAssumption DEF NestedFlashLoan

(* What stays true of the messages when the next one has been performed and *)
(* no loan has come or gone.                                                *)
LEMMA NextMessage ==
  ASSUME RouterInv, tasks # <<>>, tasks' = Tail(tasks), loans' = loans,
         Head(tasks).op # "after_trade"
  PROVE  /\ (tasks \in Seq(Tasks))' /\ CallbacksInOrder' /\ CallbackOfEach'
         /\ EndsWithCompletion' /\ OwnLoans'
         /\ Len(tasks) >= 2 /\ Len(tasks') = Len(tasks) - 1 /\ Len(tasks) \in Nat
<1>1. /\ Head(tasks) = tasks[1]
      /\ Len(tasks) \in Nat \ {0}
      /\ tasks' \in Seq(Tasks) /\ Len(tasks') = Len(tasks) - 1
      /\ \A i \in 1..Len(tasks') : tasks'[i] = tasks[i + 1]
      /\ CallbacksInOrder'
  BY RestInOrder DEF CallbacksInOrder
<1>2. Len(tasks) # 1
  BY <1>1 DEF RouterInv, RInv, EndsWithCompletion
<1>3. tasks' # <<>> /\ tasks'[Len(tasks')] = tasks[Len(tasks)]
  <2>1. Len(tasks') \in 1..Len(tasks') /\ Len(tasks') + 1 = Len(tasks)
    BY <1>1, <1>2
  <2>2. tasks'[Len(tasks')] = tasks[Len(tasks') + 1]
    BY <1>1, <2>1
  <2> QED
    BY <2>1, <2>2
<1>4. Len(tasks') >= 2 => tasks'[Len(tasks') - 1] = tasks[Len(tasks) - 1]
  BY <1>1
<1>5. EndsWithCompletion'
  BY <1>1, <1>3, <1>4 DEF RouterInv, RInv, EndsWithCompletion
<1>6. Own' = Own
  BY <1>3 DEF Own, FirstRouterLoan
<1>7. OwnLoans'
  BY <1>6 DEF RouterInv, RInv, OwnLoans
<1>8. CallbackOfEach'
  <2>1. ASSUME NEW k \in Own..Len(loans)
        PROVE  \E i \in 1..Len(tasks') :
                 tasks'[i].op = "after_trade" /\ tasks'[i].loan = k
    <3>1. PICK i \in 1..Len(tasks) : tasks[i].op = "after_trade" /\ tasks[i].loan = k
      BY <2>1 DEF RouterInv, RInv, CallbackOfEach
    <3>2. i # 1
      BY <1>1, <3>1
    <3>3. i - 1 \in 1..Len(tasks') /\ tasks'[i - 1] = tasks[i]
      BY <1>1, <3>2
    <3> QED
      BY <3>1, <3>3
  <2> QED
    BY <1>6, <2>1 DEF CallbackOfEach
<1> QED
  BY <1>1, <1>2, <1>5, <1>7, <1>8

LEMMA TradeStep ==
  ASSUME RouterInv, TradeElsewhere
  PROVE  RouterInv'
<1>1. tasks # <<>> /\ Head(tasks).op = "trade" /\ tasks' = Tail(tasks) /\ loans' = loans
  BY DEF TradeElsewhere
<1>2. Head(tasks).gain \in Int
  BY <1>1, RestInOrder, TaskForms
<1>3. wallet' \in [Users -> Nat]
  BY <1>2, Types, RouterAssumption DEF RouterInv, IInv, TradeElsewhere
<1>4. IInv'
  BY <1>3, BalancesStep, Types DEF RouterInv, IInv, TradeElsewhere
<1>5. /\ (tasks \in Seq(Tasks))' /\ CallbacksInOrder' /\ CallbackOfEach'
         /\ EndsWithCompletion' /\ OwnLoans'
      /\ Len(tasks') = Len(tasks) - 1 /\ Len(tasks) \in Nat
  BY <1>1, NextMessage
<1>6. ~(Len(tasks') <= 1)
  BY <1>1, <1>5, PayloadFirst
<1> QED
  BY <1>4, <1>5, <1>6 DEF RouterInv, RInv

LEMMA CompleteLoanStep ==
  ASSUME RouterInv, CompleteLoan
  PROVE  RouterInv'
<1> DEFINE h == Head(tasks)
           payback == PaybackAmount(h.amount)
           profit == wallet[Router] - payback
<1>1. tasks # <<>> /\ h.op = "complete_loan" /\ tasks' = Tail(tasks) /\ loans' = loans
  BY DEF CompleteLoan
<1>2. h.initiator \in Users /\ h.amount \in Nat
  BY <1>1, RestInOrder, TaskForms
<1>3. payback \in Nat
  BY <1>2, CostsNat DEF RouterInv, IInv
<1>4. /\ profit >= 0
      /\ wallet' = [[wallet EXCEPT ![Router] = @ - payback - profit]
                     EXCEPT ![h.initiator] = @ + profit]
      /\ vault_balance' = vault_balance + payback
  BY DEF CompleteLoan, FinalAmount
<1>5. wallet \in [Users -> Nat] /\ vault_balance \in Nat /\ Router \in Users
  BY Types, RouterAssumption DEF RouterInv, IInv
<1> HIDE DEF h, payback
<1>6. profit \in Nat /\ wallet[Router] - payback - profit = 0
  BY <1>3, <1>4, <1>5
<1> HIDE DEF profit
<1>7. wallet' \in [Users -> Nat] /\ vault_balance' \in Nat
  BY <1>2, <1>3, <1>4, <1>5, <1>6
<1>8. h.initiator # Router => wallet'[Router] = 0
  BY <1>2, <1>4, <1>5, <1>6
<1>9. IInv'
  BY <1>7, BalancesStep, Types DEF RouterInv, IInv, CompleteLoan
<1>10. /\ (tasks \in Seq(Tasks))' /\ CallbacksInOrder' /\ CallbackOfEach'
         /\ EndsWithCompletion' /\ OwnLoans'
       /\ Len(tasks) >= 2 /\ Len(tasks') = Len(tasks) - 1 /\ Len(tasks) \in Nat
  BY <1>1, NextMessage DEF h
<1>11. Len(tasks') <= 1 => wallet'[Router] = 0
  <2>1. ASSUME Len(tasks') <= 1 PROVE h.initiator # Router
    <3>1. Len(tasks) - 1 = 1
      BY <1>10, <2>1
    <3>2. h = tasks[Len(tasks) - 1]
      BY <1>1, <3>1, RestInOrder DEF h
    <3> QED
      BY <1>10, <3>2 DEF RouterInv, RInv, EndsWithCompletion
  <2> QED
    BY <1>8, <2>1
<1> QED
  BY <1>9, <1>10, <1>11 DEF RouterInv, RInv

LEMMA RouterLoanOverStep ==
  ASSUME RouterInv, RouterLoanOver
  PROVE  RouterInv'
<1>1. /\ tasks # <<>> /\ Head(tasks).op = "after_trade" /\ tasks' = Tail(tasks)
      /\ AfterTrade
  BY DEF RouterLoanOver
<1>2. IInv' /\ TypeOK /\ loans # <<>> /\ wallet' = wallet /\ loans' = LoansAfter
  BY <1>1, AfterTradeStep DEF RouterInv, IInv, AfterTrade
<1>3. /\ Len(loans') = Len(loans) - 1 /\ Len(loans) \in Nat
      /\ \A i \in 1..(Len(loans) - 1) : /\ loans'[i].before = loans[i].before
                                        /\ loans'[i].borrower = loans[i].borrower
  BY <1>2, LoansAfterOver, RouterActs, <1>1
<1>4. /\ Head(tasks) = tasks[1]
      /\ Len(tasks) \in Nat \ {0}
      /\ tasks' \in Seq(Tasks) /\ Len(tasks') = Len(tasks) - 1
      /\ \A i \in 1..Len(tasks') : tasks'[i] = tasks[i + 1]
      /\ \A i, j \in 1..Len(tasks') :
           i < j /\ tasks'[i].op = "after_trade" /\ tasks'[j].op = "after_trade"
             => tasks'[i].loan > tasks'[j].loan
  BY <1>1, RestInOrder
<1>5. ASSUME NEW i \in 1..Len(tasks'), tasks'[i].op = "after_trade"
      PROVE  tasks'[i].loan \in 1..Len(loans')
  <2>1. /\ i + 1 \in 1..Len(tasks) /\ 1 \in 1..Len(tasks) /\ 1 < i + 1
        /\ tasks'[i] = tasks[i + 1]
    BY <1>4
  <2>2. /\ tasks[1].loan \in 1..Len(loans) /\ tasks[i + 1].loan \in 1..Len(loans)
        /\ tasks[1].loan > tasks[i + 1].loan
    BY <1>1, <1>4, <1>5, <2>1 DEF RouterInv, RInv, CallbacksInOrder
  <2> QED
    BY <1>3, <2>1, <2>2
<1>6. CallbacksInOrder'
  BY <1>4, <1>5 DEF CallbacksInOrder
<1>10. tasks[1].loan = Len(loans) /\ Own \in 1..Len(loans)
  <2>1. Own \in 1..Len(loans)
    BY <1>1, RouterActs
  <2>2. PICK i \in 1..Len(tasks) : tasks[i].op = "after_trade" /\ tasks[i].loan = Len(loans)
    BY <1>3, <2>1, SMTT(30) DEF RouterInv, RInv, CallbackOfEach
  <2>3. i = 1
    <3>1. ASSUME i # 1 PROVE FALSE
      <4>1. 1 \in 1..Len(tasks) /\ 1 < i
        BY <1>4, <3>1
      <4> QED
        BY <1>1, <1>3, <1>4, <2>2, <4>1 DEF RouterInv, RInv, CallbacksInOrder
    <3> QED
      BY <3>1
  <2> QED
    BY <2>1, <2>2, <2>3
<1>7. Len(tasks) # 2
  <2>1. ASSUME Len(tasks) = 2 PROVE FALSE
    <3>1. tasks[Len(tasks) - 1].op = "complete_loan" /\ Len(tasks) - 1 = 1
      BY <2>1 DEF RouterInv, RInv, EndsWithCompletion
    <3> QED
      BY <1>1, <1>4, <3>1
  <2> QED
    BY <2>1
<1>8. CASE Len(tasks) = 1
  <2>1. tasks' = <<>> /\ Len(tasks') = 0 /\ wallet'[Router] = 0
    BY <1>2, <1>4, <1>8 DEF RouterInv, RInv
  <2>2. Own = Len(loans)
    BY <1>1, <1>8, <1>10 DEF Own, FirstRouterLoan
  <2>3. Own' = Len(loans)
    BY <1>3, <2>1 DEF Own
  <2>4. OwnLoans'
    BY <1>3, <2>2, <2>3 DEF RouterInv, RInv, OwnLoans
  <2>5. CallbackOfEach'
    BY <1>3, <2>3 DEF CallbackOfEach
  <2> QED
    BY <1>2, <1>4, <1>6, <2>1, <2>4, <2>5, SMTT(30) DEF RouterInv, RInv, EndsWithCompletion
<1>9. CASE Len(tasks) > 2
  <2>1. /\ tasks' # <<>> /\ tasks'[Len(tasks')] = tasks[Len(tasks)]
        /\ tasks'[Len(tasks') - 1] = tasks[Len(tasks) - 1]
        /\ Len(tasks') >= 2
    BY <1>4, <1>9
  <2>2. EndsWithCompletion'
    BY <1>1, <1>4, <2>1 DEF RouterInv, RInv, EndsWithCompletion
  <2>3. Own' = Own /\ Own \in 1..Len(loans)
    BY <1>1, <2>1, RouterActs DEF Own, FirstRouterLoan
  <2>4. OwnLoans'
    BY <1>3, <2>3, SMTT(30) DEF RouterInv, RInv, OwnLoans
  <2>5. ASSUME NEW k \in Own..Len(loans')
        PROVE  \E i \in 1..Len(tasks') :
                 tasks'[i].op = "after_trade" /\ tasks'[i].loan = k
    <3>1. k \in Own..Len(loans) /\ k # Len(loans)
      BY <1>3, <2>3
    <3>2. PICK i \in 1..Len(tasks) : tasks[i].op = "after_trade" /\ tasks[i].loan = k
      BY <3>1 DEF RouterInv, RInv, CallbackOfEach
    <3>3. i # 1
      BY <1>10, <3>1, <3>2
    <3>4. i - 1 \in 1..Len(tasks') /\ tasks'[i - 1] = tasks[i]
      BY <1>4, <3>3
    <3> QED
      BY <3>2, <3>4
  <2>6. CallbackOfEach'
    BY <2>3, <2>5 DEF CallbackOfEach
  <2> QED
    BY <1>2, <1>4, <1>6, <2>1, <2>2, <2>4, <2>6 DEF RouterInv, RInv
<1> QED
  BY <1>4, <1>7, <1>8, <1>9

LEMMA RouterFailStep ==
  ASSUME RouterInv, RouterFail
  PROVE  RouterInv'
<1> DEFINE k == FirstRouterLoan
           before == loans[k].before
<1>1. tasks # <<>> /\ tasks' = <<>> /\ loans' = SubSeq(loans, 1, k - 1)
  BY DEF RouterFail
<1>2. TypeOK /\ k \in 1..Len(loans) /\ Own = k /\ Len(loans) \in Nat
      /\ loans \in Seq(Frames)
  BY <1>1, RouterActs, Types DEF RouterInv, IInv
<1>3. before \in Snapshots /\ before.wallet[Router] = 0
  <2>1. loans[k] \in Frames
    BY <1>2
  <2>2. k <= Own
    BY <1>2
  <2>3. loans[k].before.wallet[Router] = 0
    BY <1>2, <2>2 DEF RouterInv, RInv, OwnLoans
  <2> QED
    BY <2>1, <2>3 DEF Frames
<1>4. before.loan_counter = k - 1 /\ before.all_time = before.collected + before.fee_collector
  BY <1>2 DEF RouterInv, IInv, BooksBefore
<1>5. /\ loan_counter' = before.loan_counter /\ collected' = before.collected
      /\ all_time' = before.all_time /\ burned' = before.burned
      /\ vault_balance' = before.vault_balance /\ lp' = before.lp
      /\ wallet' = before.wallet /\ fee_collector' = before.fee_collector
      /\ vault_config' = vault_config
  BY DEF RouterFail
<1> HIDE DEF k, before
<1>6. /\ loans' \in Seq(Frames) /\ Len(loans') = k - 1
      /\ \A i \in 1..(k - 1) : loans'[i] = loans[i]
  BY <1>1, <1>2, LoansBefore
<1>7. Snapshot' \in Snapshots
  BY <1>3, <1>5 DEF Snapshot, Snapshots
<1>8. TypeOK'
  BY <1>2, <1>5, <1>6, <1>7 DEF TypeOK
<1>9. CounterCountsLoans' /\ FeesForwardedOnce'
  BY <1>4, <1>5, <1>6 DEF CounterCountsLoans, FeesForwardedOnce
<1>10. \A i \in 1..(k - 1) : i \in 1..Len(loans) /\ i <= Own
  BY <1>2
<1>11. BooksBefore'
  BY <1>6, <1>10 DEF RouterInv, IInv, BooksBefore
<1>12. IInv'
  BY <1>8, <1>9, <1>11 DEF IInv
<1>13. /\ Len(loans') \in Nat
       /\ \A i \in 1..Len(loans') : loans'[i].before.wallet[Router] = 0
  BY <1>2, <1>6, <1>10 DEF RouterInv, RInv, OwnLoans
<1>14. Own' = Len(loans') + 1 /\ Len(tasks') = 0 /\ tasks' \in Seq(Tasks)
  BY <1>1 DEF Own
<1>15. wallet'[Router] = 0
  BY <1>3, <1>5
<1>16. CallbacksInOrder' /\ EndsWithCompletion'
  BY <1>1, <1>14 DEF CallbacksInOrder, EndsWithCompletion
<1>17. CallbackOfEach'
  BY <1>13, <1>14 DEF CallbackOfEach
<1>18. OwnLoans'
  BY <1>13, <1>14 DEF OwnLoans
<1> QED
  BY <1>12, <1>14, <1>15, <1>16, <1>17, <1>18 DEF RouterInv, RInv

(* A step of the configuration, or none. *)
LEMMA UnchangedStep ==
  ASSUME RouterInv, UNCHANGED <<vars, tasks>>
  PROVE  RouterInv'
<1>1. IInv' /\ loans' = loans /\ wallet' = wallet
  BY BalancesStep, Types DEF RouterInv, IInv, vars, vault_vars
<1> QED
  BY <1>1 DEF RouterInv, RInv, CallbacksInOrder, CallbackOfEach, EndsWithCompletion,
              OwnLoans, Own, FirstRouterLoan

LEMMA RouterStep == RouterInv /\ [RouterNext]_<<vars, router_vars>> => RouterInv'
<1> SUFFICES ASSUME RouterInv, [RouterNext]_<<vars, router_vars>> PROVE RouterInv'
  OBVIOUS
<1>1. CASE UNCHANGED <<vars, router_vars>>
  BY <1>1, UnchangedStep DEF router_vars
<1>2. CASE VaultStep
  BY <1>2, VaultStepInv
<1>3. CASE \E u \in Users \ {Router}, amount \in 1..vault_balance, msgs \in Payloads :
             RouterFlashLoan(u, amount, msgs)
  BY <1>3, RouterFlashLoanStep
<1>4. CASE NestedFlashLoan
  BY <1>4, NestedFlashLoanStep
<1>5. CASE TradeElsewhere
  BY <1>5, TradeStep
<1>6. CASE CompleteLoan
  BY <1>6, CompleteLoanStep
<1>7. CASE RouterLoanOver
  BY <1>7, RouterLoanOverStep
<1>8. CASE RouterFail
  BY <1>8, RouterFailStep
<1>9. CASE \E sender, owner \in Admins, vault_factory \in Factories :
             UpdateRouterConfig(sender, owner, vault_factory)
  BY <1>9, UnchangedStep DEF UpdateRouterConfig
<1> QED
  BY <1>1, <1>2, <1>3, <1>4, <1>5, <1>6, <1>7, <1>8, <1>9 DEF RouterNext

(* What is proved of every reachable state. *)
LEMMA RouterInvariance == RouterSpec => []RouterInv
BY RouterInitInv, RouterStep, PTL DEF RouterSpec

(* Type correctness with a router: it never pays out more than it has.      *)
THEOREM RouterTypeCorrect == RouterSpec => []TypeOK
<1>1. RouterInv => TypeOK
  BY DEF RouterInv, IInv
<1> QED
  BY RouterInvariance, <1>1, PTL

(* LOAN_COUNTER is the number of loans in progress, those of the router     *)
(* included, also when a failure of the router undoes several of them.      *)
THEOREM RouterCounterExact == RouterSpec => []CounterCountsLoans
<1>1. RouterInv => CounterCountsLoans
  BY DEF RouterInv, IInv
<1> QED
  BY RouterInvariance, <1>1, PTL

(* Protocol fees are forwarded once, whatever the router does between.      *)
THEOREM RouterFeesForwarded == RouterSpec => []FeesForwardedOnce
<1>1. RouterInv => FeesForwardedOnce
  BY DEF RouterInv, IInv
<1> QED
  BY RouterInvariance, <1>1, PTL

(* Between its loans the router holds nothing: complete_loan has given the  *)
(* whole of its balance to the vault and to the initiator.                  *)
THEOREM RouterHoldsNothing == RouterSpec => []RouterKeepsNothing
<1>1. RouterInv => RouterKeepsNothing
  BY DEF RouterInv, RInv, RouterKeepsNothing
<1> QED
  BY RouterInvariance, <1>1, PTL

-----------------------------------------------------------------------------
(* What shares are worth, with a router *)

LEMMA RouterSharesStep ==
  ASSUME RouterInv, BooksSince, [RouterNext]_<<vars, router_vars>>
  PROVE  /\ BooksSince'
         /\ Ends /\ SupplyBefore > 0 /\ PoolBefore >= 0
              => Pool' * SupplyBefore >= PoolBefore * TotalSupply'
<1> DEFINE Kept == Ends /\ SupplyBefore > 0 /\ PoolBefore >= 0
                     => Pool' * SupplyBefore >= PoolBefore * TotalSupply'
<1> SUFFICES BooksSince' /\ Kept
  OBVIOUS
<1>1. /\ SharesInv /\ TypeOK /\ RouterInv' /\ loans \in Seq(Frames)
      /\ lp \in [Users -> Nat] /\ collected \in Nat
  BY RouterStep, Types DEF RouterInv, IInv, SharesInv
<1>2. CASE [Next]_vars
  BY <1>1, <1>2, SharesStep, ValueKept DEF SharesInv
<1>3. CASE UNCHANGED <<vars, router_vars>>
  BY <1>2, <1>3
<1>4. CASE VaultStep
  <2>1. Next
    BY <1>4 DEF VaultStep, Next
  <2> QED
    BY <1>2, <2>1
<1>5. ASSUME NEW amount, Lend(Router, amount) PROVE BooksSince' /\ Kept
  <2>1. loans' # <<>>
    BY <1>1, <1>5 DEF Lend
  <2> QED
    BY <1>1, <1>5, <2>1, SinceLend, RouterAssumption DEF Ends
<1>6. CASE TradeElsewhere \/ CompleteLoan
  <2>1. tasks # <<>> /\ UNCHANGED <<loans, lp, collected>>
    BY <1>6 DEF TradeElsewhere, CompleteLoan
  <2>2. loans' # <<>>
    BY <1>1, <2>1, RouterActs
  <2>3. (\A u \in Users : lp[u] <= lp[u]) /\ collected <= collected
    BY <1>1
  <2> QED
    BY <1>1, <2>1, <2>2, <2>3, SinceStep DEF Ends
<1>7. CASE RouterLoanOver
  BY <1>2, <1>7 DEF RouterLoanOver, Next
<1>8. CASE RouterFail
  <2>1. /\ tasks # <<>> /\ loans' = SubSeq(loans, 1, FirstRouterLoan - 1)
        /\ vault_balance' = loans[FirstRouterLoan].before.vault_balance
        /\ collected' = loans[FirstRouterLoan].before.collected
        /\ lp' = loans[FirstRouterLoan].before.lp
    BY <1>8 DEF RouterFail
  <2>2. FirstRouterLoan \in 1..Len(loans) /\ Len(loans) \in Nat \ {0}
    BY <2>1, RouterActs
  <2>3. PICK k \in 1..Len(loans) : k = FirstRouterLoan
    BY <2>2
  <2>4. BooksSince'
    BY <1>1, <2>1, <2>3, SinceUndone
  <2>5. ASSUME loans' = <<>> PROVE k = 1
    <3>1. Len(loans') = k - 1
      BY <1>1, <2>1, <2>3, LoansBefore
    <3> QED
      BY <2>2, <2>5, <3>1
  <2>6. Kept
    BY <1>1, <2>1, <2>2, <2>3, <2>5, UndoneKeeps DEF Ends
  <2> QED
    BY <2>4, <2>6
<1>9. CASE \E sender, owner \in Admins, vault_factory \in Factories :
             UpdateRouterConfig(sender, owner, vault_factory)
  BY <1>2, <1>9 DEF UpdateRouterConfig
<1> QED
  BY <1>3, <1>4, <1>5, <1>6, <1>7, <1>8, <1>9
  DEF RouterNext, RouterFlashLoan, NestedFlashLoan, Borrow

(* No transaction with the vault makes a share worth less, with a router    *)
(* that borrows for others, either.                                         *)
THEOREM RouterSharesKeepValue == RouterSpec => ShareValueKept
<1>1. RouterInit => RouterInv /\ BooksSince
  <2>1. RouterInit => Len(loans) = 0
    BY DEF RouterInit, Init
  <2> QED
    BY <2>1, RouterInitInv DEF BooksSince
<1>2. RouterInv /\ BooksSince /\ [RouterNext]_<<vars, router_vars>> =>
        /\ RouterInv' /\ BooksSince'
        /\ [Ends /\ SupplyBefore > 0 /\ PoolBefore >= 0
              => Pool' * SupplyBefore >= PoolBefore * TotalSupply']_vars
  BY RouterStep, RouterSharesStep
<1> QED
  BY <1>1, <1>2, PTL DEF RouterSpec, ShareValueKept

-----------------------------------------------------------------------------
(* What the loans of a call cost *)

(* Each of the router's loans is completed just before it is over: with     *)
(* what was lent, and for the router itself unless it is the outermost.     *)
CompletedInTurn ==
  /\ \A i \in 2..Len(tasks) :
       tasks[i].op = "after_trade" =>
         /\ tasks[i - 1].op = "complete_loan"
         /\ tasks[i - 1].amount = loans[tasks[i].loan].loan_amount
         /\ tasks[i].loan # Own => tasks[i - 1].initiator = Router
  /\ \A i \in 1..Len(tasks) :
       tasks[i].op = "complete_loan" => i < Len(tasks) /\ tasks[i + 1].op = "after_trade"

(* What is to be paid back for each loan in progress, and what of it the    *)
(* vault then takes from the holders of shares.                             *)
PaybackOf == [k \in 1..Len(loans) |-> PaybackAmount(loans[k].loan_amount)]
DueOf ==
  [k \in 1..Len(loans) |->
     Compute(vault_config.fees.protocol, loans[k].loan_amount)
       + Compute(vault_config.fees.burn, loans[k].loan_amount)]

(* The router's loans: those it has not paid back yet, and all of them.     *)
Unpaid ==
  IF Head(tasks).op = "after_trade" THEN Own..(Len(loans) - 1) ELSE Own..Len(loans)
Owed == Sum(PaybackOf, Unpaid)
FeesDue == Sum(DueOf, Own..Len(loans))

(* The pool has what it had, the flash loan fees of the call, and the fees  *)
(* that are still due, as far as the loans have been paid back.             *)
PoolAccounted ==
  Pool = loans[Own].before.vault_balance - loans[Own].before.collected
           + ledger.interest + FeesDue - Owed

(* Until the last completion the router holds what the call has made and    *)
(* what it owes; and nobody else's coins have moved.                        *)
WalletsAccounted ==
  /\ wallet[Router] = ledger.profit + Owed
  /\ \A u \in Users \ {Router} : wallet[u] = loans[Own].before.wallet[u]

LedgerInv ==
  /\ ledger \in [profit : Int, interest : Nat]
  /\ CompletedInTurn
  /\ tasks = <<>> => ledger = NothingYet
  /\ tasks # <<>> => PoolAccounted
  /\ Len(tasks) >= 2 => WalletsAccounted

(* A total over a range, and over one more. *)
LEMMA RangeSplit ==
  ASSUME NEW a \in Nat, NEW b \in Nat, a <= b, NEW f, \A k \in a..b : f[k] \in Nat
  PROVE  /\ Sum(f, a..b) = Sum(f, a..(b - 1)) + f[b]
         /\ Sum(f, a..(b - 1)) \in Nat
<1>1. IsFiniteSet(a..b) /\ b \in a..b
  BY FS_Interval
<1>2. (a..b) \ {b} = a..(b - 1)
  OBVIOUS
<1>3. /\ Sum(f, a..b) = Sum(f, (a..b) \ {b}) + f[b]
      /\ Sum(f, (a..b) \ {b}) \in Nat
  BY <1>1, SumSplit
<1> QED
  BY <1>2, <1>3

(* Loans that stay in progress cost the same. *)
LEMMA CostsKept ==
  ASSUME NEW S, S \subseteq 1..Len(loans), S \subseteq 1..Len(loans'),
         UNCHANGED vault_config,
         \A k \in S : loans'[k].loan_amount = loans[k].loan_amount
  PROVE  /\ Sum(PaybackOf', S) = Sum(PaybackOf, S)
         /\ Sum(DueOf', S) = Sum(DueOf, S)
<1> DEFINE f == PaybackOf
           g == PaybackOf'
           d == DueOf
           e == DueOf'
<1>1. \A k \in S : g[k] = f[k]
  BY DEF PaybackOf, PaybackAmount, Costs, Compute
<1>2. \A k \in S : e[k] = d[k]
  BY DEF DueOf, Compute
<1> HIDE DEF f, g, d, e
<1>3. Sum(g, S) = Sum(f, S)
  BY <1>1, SumExt
<1>4. Sum(e, S) = Sum(d, S)
  BY <1>2, SumExt
<1> QED
  BY <1>3, <1>4 DEF f, g, d, e

LEMMA CostsTypes ==
  ASSUME TypeOK, NEW k \in 1..Len(loans)
  PROVE  /\ PaybackOf[k] = PaybackAmount(loans[k].loan_amount) /\ PaybackOf[k] \in Nat
         /\ DueOf[k] = Compute(vault_config.fees.protocol, loans[k].loan_amount)
                         + Compute(vault_config.fees.burn, loans[k].loan_amount)
         /\ DueOf[k] \in Nat
         /\ PaybackOf[k] = loans[k].loan_amount + DueOf[k]
                             + Compute(vault_config.fees.flash_loan, loans[k].loan_amount)
<1>1. loans[k].loan_amount \in Nat
  BY FrameTypes
<1> DEFINE x == loans[k].loan_amount
           p == Compute(vault_config.fees.protocol, x)
           f == Compute(vault_config.fees.flash_loan, x)
           b == Compute(vault_config.fees.burn, x)
<1>2. p \in Nat /\ f \in Nat /\ b \in Nat /\ x \in Nat
  BY <1>1, CostsNat
<1>3. PaybackOf[k] = x + (p + f + b) /\ PaybackOf[k] = PaybackAmount(x)
  BY DEF PaybackOf, PaybackAmount, Costs
<1>4. DueOf[k] = p + b
  BY DEF DueOf
<1> HIDE DEF x, p, f, b
<1>5. x + (p + f + b) \in Nat /\ p + b \in Nat /\ x + (p + f + b) = x + (p + b) + f
  BY <1>2
<1> QED
  BY <1>3, <1>4, <1>5 DEF x, p, f, b

(* The costs after a step that changes no fees. *)
LEMMA CostsNext ==
  ASSUME TypeOK, UNCHANGED vault_config, NEW k \in 1..Len(loans'), NEW x \in Nat,
         loans'[k].loan_amount = x
  PROVE  /\ PaybackOf'[k] = PaybackAmount(x) /\ PaybackOf'[k] \in Nat
         /\ DueOf'[k] \in Nat
         /\ PaybackOf'[k] = x + DueOf'[k] + Compute(vault_config.fees.flash_loan, x)
         /\ PaybackAmount(x) = x + Costs(x) /\ Costs(x) \in Nat
<1> DEFINE p == Compute(vault_config.fees.protocol, x)
           f == Compute(vault_config.fees.flash_loan, x)
           b == Compute(vault_config.fees.burn, x)
<1>1. p \in Nat /\ f \in Nat /\ b \in Nat /\ PaybackAmount(x) \in Nat /\ Costs(x) \in Nat
  BY CostsNat
<1>2. PaybackOf'[k] = PaybackAmount(x) /\ PaybackAmount(x) = x + Costs(x)
  BY DEF PaybackOf, PaybackAmount, Costs, Compute
<1>3. DueOf'[k] = p + b
  BY DEF DueOf, Compute
<1>4. Costs(x) = p + f + b
  BY DEF Costs
<1> HIDE DEF p, f, b
<1> QED
  BY <1>1, <1>2, <1>3, <1>4 DEF f

LEMMA LendFrame ==
  ASSUME TypeOK, NEW u \in Users, NEW amount, Lend(u, amount)
  PROVE  /\ loans'[Len(loans) + 1].loan_amount = amount
         /\ loans'[Len(loans) + 1].before = Snapshot
<1> DEFINE frame == [borrower |-> u, old_balance |-> vault_balance,
                     loan_amount |-> amount, nested |-> FALSE, before |-> Snapshot]
<1>1. loans' = Append(loans, frame) /\ loans \in Seq(Frames)
  BY Types DEF Lend
<1>2. loans'[Len(loans) + 1] = frame
  BY <1>1
<1> QED
  BY <1>2

(* The messages a loan of the router puts first complete it in turn.        *)
LEMMA BorrowInTurn ==
  ASSUME RouterInv, CompletedInTurn, NEW sender \in Users, NEW amount,
         NEW msgs \in Seq(Messages),
         NEW rest, rest \in Seq(Tasks), Borrow(sender, amount, msgs, rest),
         \/ tasks = <<>> /\ rest = <<>> /\ sender # Router
         \/ /\ Len(tasks) >= 3 /\ Head(tasks).op = "flash_loan" /\ rest = Tail(tasks)
            /\ sender = Router
  PROVE  CompletedInTurn' /\ Head(tasks').op # "after_trade" /\ Len(tasks') >= 2
<1>0. PICK L \in Nat : L = Len(loans)
  BY Types DEF RouterInv, IInv
<1> DEFINE n == Len(msgs)
           c == Complete(sender, amount)
           cb == Callback(Len(loans'))
<1>1. Lend(Router, amount) /\ tasks' = msgs \o <<c, cb>> \o rest
  BY DEF Borrow
<1>2. /\ amount \in Nat /\ Len(loans') = L + 1 /\ TypeOK
      /\ \A i \in 1..L : loans'[i] = loans[i]
      /\ loans'[L + 1].loan_amount = amount
  BY <1>0, <1>1, LendStep, LendFrame, RouterAssumption DEF RouterInv, IInv
<1>3. c \in Tasks /\ cb \in Tasks
  BY <1>2 DEF Tasks, Complete, Callback
<1>4. /\ c.op = "complete_loan" /\ c.initiator = sender /\ c.amount = amount
      /\ cb.op = "after_trade" /\ cb.loan = L + 1
  BY <1>2 DEF Complete, Callback
<1> HIDE DEF c, cb
<1>5. /\ tasks' \in Seq(Tasks)
      /\ Len(tasks') = n + 2 + Len(rest) /\ n \in Nat /\ Len(rest) \in Nat
      /\ \A i \in 1..n : tasks'[i] \in Messages
      /\ tasks'[n + 1] = c /\ tasks'[n + 2] = cb
      /\ \A i \in 1..Len(rest) : tasks'[n + 2 + i] = rest[i]
  BY <1>1, <1>3, Pushed, SMTT(30)
<1> HIDE DEF n
<1>6. \A i \in 1..n : tasks'[i].op # "after_trade" /\ tasks'[i].op # "complete_loan"
  <2>1. \A m \in Messages : m.op # "after_trade" /\ m.op # "complete_loan"
    BY RouterAssumption
  <2> QED
    BY <1>5, <2>1
<1>7. ASSUME NEW i \in 1..Len(tasks')
      PROVE  \/ i \in 1..n
             \/ i = n + 1
             \/ i = n + 2
             \/ i - (n + 2) \in 1..Len(rest) /\ tasks'[i] = rest[i - (n + 2)]
  <2>1. CASE i > n + 2
    <3>1. i - (n + 2) \in 1..Len(rest) /\ i = n + 2 + (i - (n + 2))
      BY <1>5, <2>1
    <3> QED
      BY <1>5, <3>1
  <2> QED
    BY <1>5, <2>1
<1>8. ASSUME NEW j \in 1..Len(rest)
      PROVE  /\ Len(tasks) >= 3 /\ Head(tasks).op = "flash_loan"
             /\ tasks # <<>> /\ tasks[1] = Head(tasks)
             /\ Len(tasks) \in Nat /\ Len(rest) = Len(tasks) - 1
             /\ j + 1 \in 2..Len(tasks) /\ rest[j] = tasks[j + 1]
             /\ \A k \in 1..Len(rest) : rest[k] = tasks[k + 1]
             /\ Own' = Own /\ sender = Router
             /\ rest[j].op = "after_trade" => rest[j].loan \in 1..L
  <2>1. rest # <<>>
    BY <1>8
  <2>2. /\ Len(tasks) >= 3 /\ Head(tasks).op = "flash_loan" /\ rest = Tail(tasks)
        /\ sender = Router
    BY <2>1
  <2>3. tasks # <<>>
    BY <2>2
  <2>4. /\ Head(tasks) = tasks[1] /\ Len(tasks) \in Nat \ {0}
        /\ Len(rest) = Len(tasks) - 1
        /\ \A k \in 1..Len(rest) : rest[k] = tasks[k + 1]
        /\ rest[j].op = "after_trade" => rest[j].loan \in 1..L
    BY <1>0, <2>2, <2>3, RestInOrder
  <2>5. j + 1 \in 2..Len(tasks)
    BY <2>4
  <2>6. Own' = Own
    <3>1. Len(rest) \in 1..Len(rest) /\ Len(tasks') = n + 2 + Len(rest)
      BY <1>5, <2>2, <2>4
    <3>2. tasks'[Len(tasks')] = rest[Len(rest)] /\ Len(tasks') > 0
      BY <1>5, <3>1
    <3>3. rest[Len(rest)] = tasks[Len(rest) + 1] /\ Len(rest) + 1 = Len(tasks)
      BY <2>4, <3>1
    <3>4. tasks'[Len(tasks')] = tasks[Len(tasks)] /\ tasks' # <<>>
      BY <1>5, <3>2, <3>3
    <3> QED
      BY <2>3, <3>4 DEF Own, FirstRouterLoan
  <2> QED
    BY <2>2, <2>3, <2>4, <2>5, <2>6
<1>9. ASSUME NEW i \in 2..Len(tasks'), tasks'[i].op = "after_trade"
      PROVE  /\ tasks'[i - 1].op = "complete_loan"
             /\ tasks'[i - 1].amount = loans'[tasks'[i].loan].loan_amount
             /\ tasks'[i].loan # Own' => tasks'[i - 1].initiator = Router
  <2>1. i \in 1..Len(tasks')
    BY <1>9
  <2>2. i # n + 1 /\ i \notin 1..n
    BY <1>4, <1>5, <1>6, <1>9
  <2>3. CASE i = n + 2
    <3>1. tasks'[i - 1] = c /\ tasks'[i] = cb
      <4>1. i - 1 = n + 1
        BY <1>5, <2>3
      <4> QED
        BY <1>5, <2>3, <4>1
    <3>2. L + 1 # Own' => sender = Router
      <4>1. CASE rest = <<>>
        <5>1. Len(rest) = 0
          BY <4>1
        <5>2. Len(tasks') = n + 2
          BY <1>5, <5>1
        <5>3. tasks' # <<>>
          BY <1>5, <5>2
        <5>4. Own' = L + 1
          BY <1>4, <1>5, <5>2, <5>3 DEF Own, FirstRouterLoan
        <5> QED
          BY <5>4
      <4>2. CASE rest # <<>>
        BY <4>2
      <4> QED
        BY <4>1, <4>2
    <3> QED
      BY <1>2, <1>4, <3>1, <3>2
  <2>4. CASE i - (n + 2) \in 1..Len(rest) /\ tasks'[i] = rest[i - (n + 2)]
    <3>1. PICK j \in 1..Len(rest) : j = i - (n + 2)
      BY <2>4
    <3>2. tasks[j + 1] = tasks'[i] /\ tasks[j + 1].op = "after_trade" /\ j + 1 \in 2..Len(tasks)
      BY <1>8, <1>9, <2>4, <3>1
    <3>3. /\ tasks[j].op = "complete_loan"
          /\ tasks[j].amount = loans[tasks[j + 1].loan].loan_amount
          /\ tasks[j + 1].loan # Own => tasks[j].initiator = Router
      <4>1. (j + 1) - 1 = j
        BY <3>1
      <4> QED
        BY <3>2, <4>1 DEF CompletedInTurn
    <3>4. j # 1
      BY <1>8, <3>3
    <3>5. j - 1 \in 1..Len(rest) /\ (j - 1) + 1 = j /\ n + 2 + (j - 1) = i - 1
      BY <1>5, <3>1, <3>4
    <3>6. rest[j - 1] = tasks[(j - 1) + 1]
      BY <1>8, <3>5
    <3>7. tasks'[n + 2 + (j - 1)] = rest[j - 1]
      BY <1>5, <3>5
    <3>8. tasks'[i - 1] = tasks[j]
      BY <3>5, <3>6, <3>7
    <3>9. tasks'[i].loan \in 1..L /\ Own' = Own
      BY <1>8, <1>9, <2>4, <3>1
    <3> QED
      BY <1>2, <3>2, <3>3, <3>8, <3>9
  <2> QED
    BY <1>7, <2>1, <2>2, <2>3, <2>4
<1>10. ASSUME NEW i \in 1..Len(tasks'), tasks'[i].op = "complete_loan"
       PROVE  i < Len(tasks') /\ tasks'[i + 1].op = "after_trade"
  <2>1. i # n + 2 /\ i \notin 1..n
    BY <1>4, <1>5, <1>6, <1>10
  <2>2. CASE i = n + 1
    <3>1. i + 1 = n + 2 /\ i < Len(tasks')
      BY <1>5, <2>2
    <3> QED
      BY <1>4, <1>5, <3>1
  <2>3. CASE i - (n + 2) \in 1..Len(rest) /\ tasks'[i] = rest[i - (n + 2)]
    <3>1. PICK j \in 1..Len(rest) : j = i - (n + 2)
      BY <2>3
    <3>2. tasks[j + 1].op = "complete_loan" /\ j + 1 \in 1..Len(tasks) /\ j + 1 \in Nat
      BY <1>8, <1>10, <2>3, <3>1
    <3>3. j + 1 < Len(tasks) /\ tasks[(j + 1) + 1].op = "after_trade"
      BY <3>2 DEF CompletedInTurn
    <3>4. j + 1 \in 1..Len(rest) /\ n + 2 + (j + 1) = i + 1 /\ i < Len(tasks')
      BY <1>5, <1>8, <3>1, <3>3
    <3>5. rest[j + 1] = tasks[(j + 1) + 1] /\ tasks'[n + 2 + (j + 1)] = rest[j + 1]
      BY <1>5, <1>8, <3>4
    <3> QED
      BY <3>3, <3>4, <3>5
  <2> QED
    BY <1>7, <2>1, <2>2, <2>3
<1>11. CompletedInTurn'
  BY <1>9, <1>10 DEF CompletedInTurn
<1>12. Head(tasks').op # "after_trade" /\ Len(tasks') >= 2
  <2>1. Len(tasks') >= 2 /\ Head(tasks') = tasks'[1]
    BY <1>5
  <2>2. n = 0 \/ 1 \in 1..n
    BY <1>5
  <2>3. tasks'[1].op # "after_trade"
    BY <1>4, <1>5, <1>6, <2>2
  <2> QED
    BY <2>1, <2>3
<1> QED
  BY <1>11, <1>12

(* A loan adds its payback to what is owed, and its fees to what is due.    *)
LEMMA BorrowLedger ==
  ASSUME RouterInv, RouterInv', LedgerInv, NEW sender \in Users, NEW amount,
         NEW msgs \in Seq(Messages),
         NEW rest, rest \in Seq(Tasks), Borrow(sender, amount, msgs, rest),
         \/ tasks = <<>> /\ rest = <<>> /\ sender # Router
         \/ /\ Len(tasks) >= 3 /\ Head(tasks).op = "flash_loan" /\ rest = Tail(tasks)
            /\ sender = Router
  PROVE  LedgerInv'
<1>1. PICK L \in Nat : L = Len(loans)
  BY Types DEF RouterInv, IInv
<1>2. /\ Lend(Router, amount) /\ TypeOK /\ UNCHANGED vault_config
      /\ ledger' = [profit |-> ledger.profit - Costs(amount),
                    interest |-> ledger.interest
                                   + Compute(vault_config.fees.flash_loan, amount)]
  BY DEF Borrow, Lend, RouterInv, IInv
<1>3. /\ amount \in Nat /\ Len(loans') = L + 1
      /\ \A i \in 1..L : loans'[i] = loans[i]
      /\ loans'[L + 1].loan_amount = amount
      /\ loans'[L + 1].before = Snapshot
      /\ wallet' = [wallet EXCEPT ![Router] = @ + amount]
      /\ wallet \in [Users -> Nat] /\ Router \in Users
      /\ vault_balance \in Nat /\ collected \in Nat
  BY <1>1, <1>2, LendStep, LendFrame, RouterAssumption, Types DEF RouterInv, IInv
<1>4. CompletedInTurn' /\ Head(tasks').op # "after_trade" /\ Len(tasks') >= 2
  BY BorrowInTurn DEF LedgerInv
<1>5. tasks' # <<>> /\ Own' \in 1..(L + 1)
  <2>1. Len(tasks') \in Nat \ {0} /\ tasks' # <<>>
    BY <1>4 DEF RouterInv, RInv
  <2>2. tasks'[Len(tasks')].op = "after_trade" /\ Len(tasks') \in 1..Len(tasks')
    BY <2>1 DEF RouterInv, RInv, EndsWithCompletion
  <2>3. tasks'[Len(tasks')].loan \in 1..Len(loans')
    BY <2>2 DEF RouterInv, RInv, CallbacksInOrder
  <2> QED
    BY <1>3, <2>1, <2>3 DEF Own, FirstRouterLoan
<1>6. PICK o \in 1..(L + 1) : o = Own'
  BY <1>5
<1>7. Unpaid' = o..(L + 1) /\ Owed' = Sum(PaybackOf', o..(L + 1))
      /\ FeesDue' = Sum(DueOf', o..(L + 1))
  BY <1>3, <1>4, <1>6 DEF Unpaid, Owed, FeesDue
<1> DEFINE p == PaybackOf'
           d == DueOf'
           owed == Sum(p, o..L)
           due == Sum(d, o..L)
           f == Compute(vault_config.fees.flash_loan, amount)
           base == loans'[o].before.vault_balance - loans'[o].before.collected
<1>8. \A k \in o..(L + 1) : p[k] \in Nat /\ d[k] \in Nat
  <2>1. ASSUME NEW k \in o..(L + 1) PROVE p[k] \in Nat /\ d[k] \in Nat
    <3>1. k \in 1..Len(loans')
      BY <1>3
    <3>2. loans'[k].loan_amount \in Nat
      <4>1. CASE k = L + 1
        BY <1>3, <4>1
      <4>2. CASE k \in 1..L
        BY <1>1, <1>2, <1>3, <4>2, FrameTypes
      <4> QED
        BY <4>1, <4>2
    <3>3. PICK x \in Nat : loans'[k].loan_amount = x
      BY <3>2
    <3> QED
      BY <1>2, <3>1, <3>3, CostsNext
  <2> QED
    BY <2>1
<1>9. /\ p[L + 1] = amount + d[L + 1] + f /\ p[L + 1] = amount + Costs(amount)
      /\ d[L + 1] \in Nat /\ f \in Nat /\ Costs(amount) \in Nat
  <2>1. L + 1 \in 1..Len(loans')
    BY <1>3
  <2> QED
    BY <1>2, <1>3, <2>1, CostsNext, CostsNat, ZenonT(40)
<1>10. ledger.profit \in Int /\ ledger.interest \in Nat
  BY DEF LedgerInv
(* What was owed and due before, in terms of the loans now. *)
<1>11. /\ Pool = base + ledger.interest + due - owed
       /\ wallet[Router] = ledger.profit + owed
       /\ \A u \in Users \ {Router} : wallet[u] = loans'[o].before.wallet[u]
       /\ base \in Int
  <2>1. CASE tasks = <<>>
    <3>1. o = L + 1
      <4>1. rest = <<>> /\ Len(rest) = 0
        BY <2>1
      <4>2. \A i \in 1..Len(loans) : loans[i].before.wallet[Router] = 0
        BY <2>1, IdleWallet
      <4>3. tasks' = msgs \o <<Complete(sender, amount), Callback(L + 1)>>
        BY <1>1, <1>3, <4>1 DEF Borrow
      <4>4. tasks'[Len(tasks')] = Callback(L + 1)
        <5> DEFINE e == <<Complete(sender, amount), Callback(L + 1)>>
        <5>1. Len(e) = 2 /\ e[2] = Callback(L + 1) /\ msgs \in Seq(Messages)
          OBVIOUS
        <5>2. Len(msgs) \in Nat /\ Len(tasks') = Len(msgs) + 2
          BY <4>3
        <5> QED
          BY <4>3, <5>2
      <4> QED
        BY <1>5, <1>6, <4>4 DEF Own, FirstRouterLoan, Callback
    <3>2. owed = 0 /\ due = 0
      <4>1. o..L = {}
        BY <3>1
      <4> QED
        BY <4>1, SumEmpty
    <3>3. ledger.interest = 0 /\ ledger.profit = 0
      BY <2>1 DEF LedgerInv, NothingYet
    <3>4. /\ loans'[o].before.vault_balance = vault_balance
          /\ loans'[o].before.collected = collected
          /\ loans'[o].before.wallet = wallet
      BY <1>3, <3>1 DEF Snapshot
    <3>5. wallet[Router] = 0
      BY <2>1, IdleWallet
    <3> HIDE DEF owed, due
    <3> QED
      BY <1>3, <3>2, <3>3, <3>4, <3>5 DEF Pool
  <2>2. CASE tasks # <<>>
    <3>1. Len(tasks) >= 3 /\ Head(tasks).op = "flash_loan" /\ rest = Tail(tasks)
      BY <2>2
    <3>2. PICK q \in 1..L : q = Own
      BY <1>1, <2>2, RouterActs
    <3>3. o = q
      <4>1. /\ Len(rest) = Len(tasks) - 1 /\ Len(tasks) \in Nat
            /\ \A i \in 1..Len(rest) : rest[i] = tasks[i + 1]
        BY <2>2, <3>1, RestInOrder
      <4>2. PICK m \in Nat : m = Len(msgs) + 2
        OBVIOUS
      <4>3. /\ Len(tasks') = m + Len(rest)
            /\ \A i \in 1..Len(rest) : tasks'[m + i] = rest[i]
        <5>1. Complete(sender, amount) \in Tasks /\ Callback(Len(loans')) \in Tasks
          BY <1>1, <1>3 DEF Tasks, Complete, Callback
        <5>2. tasks' = msgs \o <<Complete(sender, amount), Callback(Len(loans'))>> \o rest
          BY DEF Borrow
        <5> HIDE DEF p, d, owed, due, f, base
        <5> QED
          BY <4>2, <5>1, <5>2, Pushed, SMTT(30)
      <4>4. Len(rest) \in 1..Len(rest) /\ Len(rest) + 1 = Len(tasks)
        BY <3>1, <4>1
      <4>5. tasks'[Len(tasks')] = rest[Len(rest)]
        BY <4>3, <4>4
      <4>6. rest[Len(rest)] = tasks[Len(rest) + 1]
        BY <4>1, <4>4
      <4>7. tasks'[Len(tasks')] = tasks[Len(tasks)]
        BY <4>4, <4>5, <4>6
      <4> QED
        BY <1>5, <1>6, <2>2, <3>2, <4>7 DEF Own, FirstRouterLoan
    <3>4. Unpaid = o..L /\ Owed = Sum(PaybackOf, o..L) /\ FeesDue = Sum(DueOf, o..L)
      BY <1>1, <3>1, <3>2, <3>3 DEF Unpaid, Owed, FeesDue
    <3>5. owed = Sum(PaybackOf, o..L) /\ due = Sum(DueOf, o..L)
      <4>1. /\ o..L \subseteq 1..Len(loans) /\ o..L \subseteq 1..Len(loans')
            /\ \A k \in o..L : loans'[k].loan_amount = loans[k].loan_amount
        BY <1>1, <1>3, SMTT(30)
      <4> QED
        BY <1>2, <4>1, CostsKept
    <3>6. loans'[o] = loans[o]
      BY <1>3, <3>2, <3>3
    <3>7. /\ Pool = loans[o].before.vault_balance - loans[o].before.collected
                      + ledger.interest + FeesDue - Owed
          /\ wallet[Router] = ledger.profit + Owed
          /\ \A u \in Users \ {Router} : wallet[u] = loans[o].before.wallet[u]
      BY <2>2, <3>1, <3>2, <3>3 DEF LedgerInv, PoolAccounted, WalletsAccounted
    <3>8. loans[o].before.vault_balance \in Nat /\ loans[o].before.collected \in Nat
      BY <1>1, <1>2, <3>2, <3>3, FrameTypes
    <3>9. owed = Owed /\ due = FeesDue
      BY <3>4, <3>5
    <3>10. base = loans[o].before.vault_balance - loans[o].before.collected
      BY <3>6
    <3> HIDE DEF owed, due, base
    <3> QED
      BY <3>6, <3>7, <3>8, <3>9, <3>10, SMTT(30)
  <2> QED
    BY <2>1, <2>2
<1> HIDE DEF p, d, f, base
<1>12. /\ Sum(p, o..(L + 1)) = owed + p[L + 1] /\ owed \in Nat
       /\ Sum(d, o..(L + 1)) = due + d[L + 1] /\ due \in Nat
  <2>1. o \in Nat /\ L + 1 \in Nat /\ o <= L + 1 /\ (L + 1) - 1 = L
    OBVIOUS
  <2>2. /\ Sum(p, o..(L + 1)) = Sum(p, o..((L + 1) - 1)) + p[L + 1]
        /\ Sum(p, o..((L + 1) - 1)) \in Nat
    BY <1>8, <2>1, RangeSplit
  <2>3. /\ Sum(d, o..(L + 1)) = Sum(d, o..((L + 1) - 1)) + d[L + 1]
        /\ Sum(d, o..((L + 1) - 1)) \in Nat
    BY <1>8, <2>1, RangeSplit
  <2> QED
    BY <2>1, <2>2, <2>3
<1> HIDE DEF owed, due
<1>13. Owed' = owed + amount + d[L + 1] + f /\ FeesDue' = due + d[L + 1]
       /\ Owed' = owed + amount + Costs(amount)
  <2>1. Owed' = Sum(p, o..(L + 1)) /\ FeesDue' = Sum(d, o..(L + 1))
    BY <1>7 DEF p, d
  <2> DEFINE pl == p[L + 1]
             dl == d[L + 1]
             c == Costs(amount)
             owed2 == Owed'
             due2 == FeesDue'
  <2>2. /\ owed2 = owed + pl /\ due2 = due + dl
        /\ pl = amount + dl + f /\ pl = amount + c
    BY <1>9, <1>12, <2>1
  <2>3. /\ owed \in Nat /\ due \in Nat /\ amount \in Nat /\ dl \in Nat /\ f \in Nat
        /\ c \in Nat
    BY <1>3, <1>9, <1>12
  <2> HIDE DEF pl, dl, c, owed2, due2
  <2>4. /\ owed2 = owed + amount + dl + f /\ due2 = due + dl
        /\ owed2 = owed + amount + c
    BY <2>2, <2>3
  <2> QED
    BY <2>4 DEF dl, c, owed2, due2
<1>14. Pool' = Pool - amount /\ Pool \in Int
  BY <1>2, <1>3 DEF Lend, Pool
<1>15. PoolAccounted'
  <2>1. ledger'.interest = ledger.interest + f
    BY <1>2 DEF f
  <2>2. Pool = base + ledger.interest + due - owed /\ base \in Int /\ amount \in Nat
    BY <1>3, <1>11
  <2> DEFINE i == ledger.interest
             i2 == ledger'.interest
             dl == d[L + 1]
             pool == Pool
             pool2 == Pool'
             owed2 == Owed'
             due2 == FeesDue'
  <2>3. /\ i2 = i + f /\ pool = base + i + due - owed /\ pool2 = pool - amount
        /\ owed2 = owed + amount + dl + f /\ due2 = due + dl
    BY <1>13, <1>14, <2>1, <2>2
  <2>4. /\ i \in Nat /\ f \in Nat /\ base \in Int /\ due \in Nat /\ owed \in Nat
        /\ amount \in Nat /\ dl \in Nat
    BY <1>9, <1>10, <1>12, <2>2
  <2> HIDE DEF i, i2, dl, pool, pool2, owed2, due2
  <2>5. pool2 = base + i2 + due2 - owed2
    BY <2>3, <2>4
  <2> QED
    BY <1>6, <2>5 DEF PoolAccounted, base, i2, pool2, owed2, due2
<1>16. WalletsAccounted'
  <2>1. ledger'.profit = ledger.profit - Costs(amount)
    BY <1>2
  <2>2. wallet'[Router] = wallet[Router] + amount
    BY <1>3
  <2>3. wallet'[Router] = ledger'.profit + Owed'
    <3> DEFINE w == wallet[Router]
               w2 == wallet'[Router]
               profit == ledger.profit
               profit2 == ledger'.profit
               c == Costs(amount)
               owed2 == Owed'
    <3>1. w2 = w + amount /\ profit2 = profit - c
      BY <2>1, <2>2
    <3>2. w = profit + owed /\ owed2 = owed + amount + c
      BY <1>11, <1>13
    <3>3. profit \in Int /\ c \in Nat /\ amount \in Nat /\ owed \in Nat
      BY <1>3, <1>9, <1>10, <1>12
    <3> HIDE DEF w, w2, profit, profit2, c, owed2
    <3>4. w2 = profit2 + owed2
      BY <3>1, <3>2, <3>3
    <3> QED
      BY <3>4 DEF w2, profit2, owed2
  <2>4. \A u \in Users \ {Router} : wallet'[u] = loans'[o].before.wallet[u]
    BY <1>3, <1>11
  <2> QED
    BY <1>6, <2>3, <2>4 DEF WalletsAccounted
<1>17. ledger' \in [profit : Int, interest : Nat]
  BY <1>2, <1>9, <1>10 DEF f
<1> QED
  BY <1>4, <1>5, <1>15, <1>16, <1>17 DEF LedgerInv

(* The next message has been performed: the rest complete their loans in    *)
(* turn, and after anything but a completion comes no callback.             *)
LEMMA TailInTurn ==
  ASSUME RouterInv, CompletedInTurn, tasks # <<>>, tasks' = Tail(tasks),
         \A i \in 2..Len(tasks) :
           tasks[i].op = "after_trade" =>
             loans'[tasks[i].loan].loan_amount = loans[tasks[i].loan].loan_amount
  PROVE  /\ CompletedInTurn'
         /\ tasks' # <<>> => /\ Own' = Own /\ Head(tasks') = tasks[2] /\ Len(tasks) >= 2
                             /\ Head(tasks').op = "after_trade"
                                  => Head(tasks).op = "complete_loan"
<1>1. /\ Head(tasks) = tasks[1] /\ Len(tasks) \in Nat \ {0}
      /\ tasks' \in Seq(Tasks) /\ Len(tasks') = Len(tasks) - 1 /\ Len(tasks') \in Nat
      /\ \A i \in 1..Len(tasks') : tasks'[i] = tasks[i + 1]
  BY RestInOrder
<1>2. ASSUME tasks' # <<>>
      PROVE  /\ Own' = Own /\ Head(tasks') = tasks[2] /\ Len(tasks) >= 2
             /\ Head(tasks').op = "after_trade" => Head(tasks).op = "complete_loan"
  <2>1. Len(tasks') # 0 /\ Head(tasks') = tasks'[1]
    BY <1>1, <1>2
  <2>2. Len(tasks') \in 1..Len(tasks') /\ 1 \in 1..Len(tasks') /\ Len(tasks') + 1 = Len(tasks)
    BY <1>1, <2>1
  <2>3. tasks'[Len(tasks')] = tasks[Len(tasks)] /\ tasks'[1] = tasks[1 + 1]
    BY <1>1, <2>2
  <2>4. Own' = Own
    BY <1>2, <2>3 DEF Own, FirstRouterLoan
  <2>5. 2 \in 2..Len(tasks)
    BY <1>1, <2>2
  <2>6. tasks[2].op = "after_trade" => tasks[2 - 1].op = "complete_loan"
    BY <2>5 DEF CompletedInTurn
  <2> QED
    BY <1>1, <2>1, <2>3, <2>4, <2>5, <2>6
<1>3. ASSUME NEW i \in 2..Len(tasks'), tasks'[i].op = "after_trade"
      PROVE  /\ tasks'[i - 1].op = "complete_loan"
             /\ tasks'[i - 1].amount = loans'[tasks'[i].loan].loan_amount
             /\ tasks'[i].loan # Own' => tasks'[i - 1].initiator = Router
  <2>1. /\ i + 1 \in 2..Len(tasks) /\ (i + 1) - 1 = i /\ (i - 1) + 1 = i
        /\ i \in 1..Len(tasks') /\ i - 1 \in 1..Len(tasks')
    BY <1>1
  <2>2. tasks'[i] = tasks[i + 1] /\ tasks'[i - 1] = tasks[(i - 1) + 1]
    BY <1>1, <2>1
  <2>3. tasks'[i - 1] = tasks[i] /\ tasks[i + 1].op = "after_trade"
    BY <1>3, <2>1, <2>2
  <2>4. /\ tasks[(i + 1) - 1].op = "complete_loan"
        /\ tasks[(i + 1) - 1].amount = loans[tasks[i + 1].loan].loan_amount
        /\ tasks[i + 1].loan # Own => tasks[(i + 1) - 1].initiator = Router
    BY <2>1, <2>3 DEF CompletedInTurn
  <2>5. loans'[tasks[i + 1].loan].loan_amount = loans[tasks[i + 1].loan].loan_amount
    BY <2>1, <2>3
  <2>6. Own' = Own
    <3>1. Len(tasks') # 0
      BY <1>1, <1>3
    <3>2. tasks' # <<>>
      BY <3>1
    <3> QED
      BY <1>2, <3>2
  <2> QED
    BY <2>1, <2>2, <2>3, <2>4, <2>5, <2>6
<1>4. ASSUME NEW i \in 1..Len(tasks'), tasks'[i].op = "complete_loan"
      PROVE  i < Len(tasks') /\ tasks'[i + 1].op = "after_trade"
  <2>1. i + 1 \in 1..Len(tasks) /\ tasks[i + 1].op = "complete_loan"
    BY <1>1, <1>4
  <2>2. i + 1 < Len(tasks) /\ tasks[(i + 1) + 1].op = "after_trade"
    BY <2>1 DEF CompletedInTurn
  <2>3. i + 1 \in 1..Len(tasks')
    BY <1>1, <2>2
  <2>4. tasks'[i + 1] = tasks[(i + 1) + 1]
    BY <1>1, <2>3
  <2> QED
    BY <1>1, <2>2, <2>3, <2>4
<1>5. CompletedInTurn'
  BY <1>3, <1>4 DEF CompletedInTurn
<1> QED
  BY <1>2, <1>5

(* The next completion is that of the innermost loan. *)
LEMMA CompletionOfInnermost ==
  ASSUME RouterInv, CompletedInTurn, tasks # <<>>, Head(tasks).op = "complete_loan"
  PROVE  /\ Len(tasks) \in Nat /\ Len(tasks) >= 2 /\ tasks[2].op = "after_trade"
         /\ Len(loans) \in Nat \ {0}
         /\ Head(tasks).amount = loans[Len(loans)].loan_amount
         /\ Own \in 1..Len(loans)
         /\ Len(tasks) = 2 => Own = Len(loans)
         /\ Len(tasks) # 2 => Head(tasks).initiator = Router
<1>1. /\ Head(tasks) = tasks[1] /\ Len(tasks) \in Nat \ {0}
      /\ Len(loans) \in Nat \ {0} /\ Own \in 1..Len(loans)
      /\ Own = tasks[Len(tasks)].loan
  BY RestInOrder, RouterActs DEF FirstRouterLoan
<1>2. 1 < Len(tasks) /\ tasks[1 + 1].op = "after_trade"
  BY <1>1 DEF CompletedInTurn
<1>3. /\ tasks[2].loan = Len(loans)
  <2>1. Len(loans) \in Own..Len(loans)
    BY <1>1
  <2>2. PICK i \in 1..Len(tasks) : tasks[i].op = "after_trade" /\ tasks[i].loan = Len(loans)
    BY <2>1 DEF RouterInv, RInv, CallbackOfEach
  <2>3. i # 1
    BY <1>1, <2>2
  <2>4. ASSUME i > 2 PROVE FALSE
    <3>1. 2 \in 1..Len(tasks) /\ 2 < i
      BY <1>1, <1>2, <2>4
    <3>2. tasks[2].loan > tasks[i].loan /\ tasks[2].loan \in 1..Len(loans)
      BY <1>2, <2>2, <3>1 DEF RouterInv, RInv, CallbacksInOrder
    <3> QED
      BY <1>1, <2>2, <3>2
  <2>5. i = 2
    BY <1>1, <2>3, <2>4
  <2> QED
    BY <2>2, <2>5
<1>4. 2 \in 2..Len(tasks)
  BY <1>1, <1>2
<1>5. /\ tasks[2 - 1].amount = loans[tasks[2].loan].loan_amount
      /\ tasks[2].loan # Own => tasks[2 - 1].initiator = Router
  BY <1>2, <1>4 DEF CompletedInTurn
<1>6. ASSUME Len(tasks) # 2 PROVE tasks[2].loan # Own
  <2>1. /\ 2 \in 1..Len(tasks) /\ Len(tasks) \in 1..Len(tasks) /\ 2 < Len(tasks)
        /\ tasks[Len(tasks)].op = "after_trade"
    <3>1. 2 \in 1..Len(tasks) /\ Len(tasks) \in 1..Len(tasks) /\ 2 < Len(tasks)
      <4>1. PICK n \in Nat : n = Len(tasks)
        BY <1>1
      <4>2. 1 < n /\ n # 2
        BY <1>2, <1>6, <4>1
      <4>3. 2 \in 1..n /\ n \in 1..n /\ 2 < n
        BY <4>2
      <4> QED
        BY <4>1, <4>3
    <3> QED
      BY <3>1 DEF RouterInv, RInv, EndsWithCompletion
  <2>2. tasks[2].loan > tasks[Len(tasks)].loan /\ tasks[Len(tasks)].loan \in 1..Len(loans)
    BY <1>2, <2>1 DEF RouterInv, RInv, CallbacksInOrder
  <2> QED
    BY <1>1, <1>3, <2>2
<1> QED
  BY <1>1, <1>2, <1>3, <1>5, <1>6

(* Steps that leave the loans and the fees as they are. *)
LEMMA SameCosts ==
  ASSUME UNCHANGED <<loans, vault_config>>
  PROVE  PaybackOf' = PaybackOf /\ DueOf' = DueOf
BY DEF PaybackOf, DueOf, PaybackAmount, Costs, Compute

LEMMA TradeLedger ==
  ASSUME RouterInv, LedgerInv, TradeElsewhere
  PROVE  LedgerInv'
<1>1. /\ tasks # <<>> /\ Head(tasks).op = "trade" /\ tasks' = Tail(tasks)
      /\ UNCHANGED <<loans, vault_config, vault_balance, collected>>
      /\ wallet' = [wallet EXCEPT ![Router] = @ + Head(tasks).gain]
      /\ ledger' = [ledger EXCEPT !.profit = @ + Head(tasks).gain]
  BY DEF TradeElsewhere
<1>2. /\ Head(tasks).gain \in Int /\ wallet \in [Users -> Nat] /\ Router \in Users
      /\ Len(tasks) >= 3 /\ Len(tasks) \in Nat
      /\ Len(tasks') = Len(tasks) - 1
  BY <1>1, RestInOrder, TaskForms, PayloadFirst, Types, RouterAssumption
  DEF RouterInv, IInv
<1>3. tasks' # <<>>
  BY <1>2
<1>4. CompletedInTurn' /\ Own' = Own /\ Head(tasks').op # "after_trade"
  BY <1>1, <1>3, TailInTurn DEF LedgerInv
<1>5. Owed' = Owed /\ FeesDue' = FeesDue
  BY <1>1, <1>4, SameCosts DEF Unpaid, Owed, FeesDue
<1>6. ledger \in [profit : Int, interest : Nat] /\ PoolAccounted /\ WalletsAccounted
  BY <1>1, <1>2 DEF LedgerInv
<1>7. Owed \in Int
  <2>1. wallet[Router] = ledger.profit + Owed
    BY <1>6 DEF WalletsAccounted
  <2>2. IsFiniteSet(Unpaid) /\ \A k \in Unpaid : PaybackOf[k] \in Nat
    <3>1. Own \in 1..Len(loans) /\ Len(loans) \in Nat
      BY <1>1, RouterActs
    <3>2. Unpaid \subseteq 1..Len(loans) /\ IsFiniteSet(Unpaid)
      <4>1. PICK L \in Nat : L = Len(loans)
        BY <3>1
      <4>2. PICK o \in 1..L : o = Own
        BY <3>1, <4>1
      <4>3. Unpaid = o..L
        BY <1>1, <4>1, <4>2 DEF Unpaid
      <4>4. o..L \subseteq 1..L /\ IsFiniteSet(o..L)
        BY FS_Interval
      <4> QED
        BY <4>1, <4>3, <4>4
    <3> QED
      BY <3>2, CostsTypes DEF RouterInv, IInv
  <2> QED
    BY <2>2, SumNat DEF Owed
<1>8. PoolAccounted'
  BY <1>1, <1>4, <1>5, <1>6 DEF PoolAccounted, Pool
<1>9. WalletsAccounted'
  <2>1. /\ wallet[Router] = ledger.profit + Owed
        /\ \A u \in Users \ {Router} : wallet[u] = loans[Own].before.wallet[u]
    BY <1>6 DEF WalletsAccounted
  <2>2. /\ wallet'[Router] = wallet[Router] + Head(tasks).gain
        /\ ledger'.profit = ledger.profit + Head(tasks).gain
        /\ \A u \in Users \ {Router} : wallet'[u] = wallet[u]
    BY <1>1, <1>2, <1>6
  <2>3. wallet'[Router] = ledger'.profit + Owed'
    BY <1>2, <1>5, <1>6, <1>7, <2>1, <2>2
  <2> QED
    BY <1>1, <1>4, <2>1, <2>2, <2>3 DEF WalletsAccounted
<1>10. ledger' \in [profit : Int, interest : Nat]
  BY <1>1, <1>2, <1>6
<1> QED
  BY <1>3, <1>4, <1>8, <1>9, <1>10 DEF LedgerInv

(* What the initiator gets with the last completion, and what the pool has  *)
(* then: the step before it is over is the one the properties are about.    *)
LEMMA CompleteLedger ==
  ASSUME RouterInv, LedgerInv, CompleteLoan
  PROVE  /\ LedgerInv'
         /\ Len(tasks') = 1 =>
              LET before == Innermost.before.wallet IN
              wallet' = [before EXCEPT ![Head(tasks).initiator] = @ + ledger.profit]
<1>1. PICK h : h = Head(tasks)
  OBVIOUS
<1>0. PICK L \in Nat \ {0} : L = Len(loans)
  BY RouterActs DEF CompleteLoan
<1>2. PICK o \in 1..L : o = Own /\ L = Len(loans)
  BY <1>0, RouterActs DEF CompleteLoan
<1> DEFINE payback == PaybackAmount(h.amount)
           profit == wallet[Router] - payback
<1>3. /\ tasks # <<>> /\ h.op = "complete_loan" /\ tasks' = Tail(tasks)
      /\ UNCHANGED <<loans, vault_config, collected, ledger>>
      /\ wallet' = [[wallet EXCEPT ![Router] = @ - payback - profit]
                     EXCEPT ![h.initiator] = @ + profit]
      /\ vault_balance' = vault_balance + payback
  BY <1>1 DEF CompleteLoan, FinalAmount
<1>4. /\ h.initiator \in Users /\ TypeOK
      /\ wallet \in [Users -> Nat] /\ Router \in Users
      /\ vault_balance \in Nat /\ collected \in Nat
      /\ Len(tasks) \in Nat /\ Len(tasks') = Len(tasks) - 1 /\ loans # <<>>
  BY <1>1, <1>2, <1>3, RestInOrder, TaskForms, Types, RouterAssumption DEF RouterInv, IInv
<1>5. /\ Len(tasks) >= 2 /\ tasks[2].op = "after_trade"
      /\ h.amount = loans[L].loan_amount
      /\ Len(tasks) = 2 => o = L
      /\ Len(tasks) # 2 => h.initiator = Router
  BY <1>1, <1>2, <1>3, CompletionOfInnermost DEF LedgerInv
<1>6. /\ CompletedInTurn' /\ tasks' # <<>> /\ Own' = Own
      /\ Head(tasks').op = "after_trade"
  <2>1. Len(tasks') # 0
    BY <1>4, <1>5
  <2>2. tasks' # <<>>
    BY <2>1
  <2> QED
    BY <1>3, <1>5, <2>2, TailInTurn DEF LedgerInv
<1>7. ledger \in [profit : Int, interest : Nat] /\ PoolAccounted /\ WalletsAccounted
  BY <1>3, <1>5 DEF LedgerInv
<1> DEFINE f == PaybackOf
<1>8. \A k \in 1..L : f[k] \in Nat
  BY <1>2, <1>4, CostsTypes
<1>9. f[L] = payback
  BY <1>2, <1>4, <1>5, CostsTypes
<1>10. /\ Owed = Sum(f, o..L) /\ Owed' = Sum(f, o..(L - 1)) /\ FeesDue' = FeesDue
  BY <1>1, <1>2, <1>3, <1>6, SameCosts DEF Unpaid, Owed, FeesDue
<1> HIDE DEF payback, f, profit
<1>11. /\ Sum(f, o..L) = Sum(f, o..(L - 1)) + f[L] /\ Sum(f, o..(L - 1)) \in Nat
       /\ f[L] \in Nat
  <2>1. o \in Nat /\ L \in Nat /\ o <= L /\ L \in 1..L /\ \A k \in o..L : f[k] \in Nat
    BY <1>8
  <2> QED
    BY <1>8, <2>1, RangeSplit
<1> DEFINE owed == Sum(f, o..(L - 1))
<1>12. Owed = owed + payback /\ Owed' = owed /\ owed \in Nat /\ payback \in Nat
  BY <1>9, <1>10, <1>11
<1> HIDE DEF owed
<1>13. PoolAccounted'
  <2> DEFINE base == loans[Own].before.vault_balance - loans[Own].before.collected
             due == FeesDue
             i == ledger.interest
             owed1 == Owed
             v == vault_balance - collected
             v2 == vault_balance' - collected'
  <2>1. v = base + i + due - owed1 /\ owed1 = owed + payback
    BY <1>7, <1>12 DEF PoolAccounted, Pool
  <2>2. v2 = v + payback /\ v \in Int
    BY <1>3, <1>4, <1>12
  <2>3. i \in Nat /\ base \in Int /\ due \in Nat
    <3>1. base \in Int
      BY <1>2, <1>4, FrameTypes
    <3>2. IsFiniteSet(o..L) /\ \A k \in o..L : DueOf[k] \in Nat
      <4>1. o \in Int /\ L \in Int /\ o..L \in SUBSET (1..L)
        OBVIOUS
      <4>2. IsFiniteSet(o..L)
        BY <4>1, FS_Interval
      <4>3. \A k \in 1..L : DueOf[k] \in Nat
        BY <1>2, <1>4, CostsTypes
      <4> QED
        BY <4>1, <4>2, <4>3
    <3>3. Sum(DueOf, o..L) \in Nat
      BY <3>2, SumNat
    <3> QED
      BY <1>2, <1>7, <3>1, <3>3 DEF FeesDue
  <2>4. /\ Pool' = v2 /\ Owed' = owed
        /\ loans'[Own'].before.vault_balance - loans'[Own'].before.collected = base
        /\ ledger'.interest = i /\ FeesDue' = due
    <3>1. loans' = loans /\ ledger' = ledger /\ Own' = Own
      BY <1>3, <1>6
    <3>2. Owed' = owed /\ FeesDue' = FeesDue
      BY <1>10, <1>12
    <3>3. Pool' = vault_balance' - collected'
      BY DEF Pool
    <3> QED
      BY <3>1, <3>2, <3>3
  <2> HIDE DEF base, due, i, owed1, v, v2
  <2>5. v2 = base + i + due - owed
    BY <1>12, <2>1, <2>2, <2>3
  <2> QED
    BY <2>4, <2>5 DEF PoolAccounted
<1>14. profit = ledger.profit + owed
  <2>1. wallet[Router] = ledger.profit + Owed /\ ledger.profit \in Int
    BY <1>7 DEF WalletsAccounted
  <2> QED
    BY <1>12, <2>1 DEF profit
<1>15. wallet[Router] - payback - profit = 0 /\ profit \in Int
  <2>1. wallet[Router] \in Nat
    BY <1>4
  <2> QED
    BY <1>12, <2>1 DEF profit
<1>16. \A u \in Users \ {Router} : wallet[u] = loans[o].before.wallet[u]
  BY <1>2, <1>7 DEF WalletsAccounted
<1>17. Len(tasks') >= 2 => WalletsAccounted'
  <2>1. SUFFICES ASSUME Len(tasks') >= 2 PROVE WalletsAccounted'
    OBVIOUS
  <2>2. h.initiator = Router
    BY <1>4, <1>5, <2>1
  <2>3. wallet' = [wallet EXCEPT ![Router] = profit]
    <3>1. wallet' = [wallet EXCEPT ![Router] = 0 + profit]
      <4>1. wallet' = [u \in Users |-> IF u = Router
                                       THEN (wallet[Router] - payback - profit) + profit
                                       ELSE wallet[u]]
        <5> DEFINE w1 == [wallet EXCEPT ![Router] = @ - payback - profit]
        <5>1. wallet' = [w1 EXCEPT ![Router] = @ + profit]
          BY <1>3, <2>2
        <5>2. w1 = [u \in Users |-> IF u = Router THEN wallet[Router] - payback - profit
                                     ELSE wallet[u]]
          BY <1>4
        <5> QED
          BY <1>4, <5>1, <5>2
      <4> QED
        BY <1>4, <1>15, <4>1
    <3> QED
      BY <1>15, <3>1
  <2>4. wallet'[Router] = profit /\ \A u \in Users \ {Router} : wallet'[u] = wallet[u]
    BY <1>4, <2>3
  <2> QED
    BY <1>2, <1>3, <1>6, <1>12, <1>14, <1>16, <2>4 DEF WalletsAccounted
<1>18. ASSUME Len(tasks') = 1
       PROVE  wallet' = [Innermost.before.wallet EXCEPT ![h.initiator] = @ + ledger.profit]
  <2>1. o = L /\ Len(tasks) = 2
    <3>1. Len(tasks) = 2
      <4>1. PICK n \in Nat : n = Len(tasks)
        BY <1>4
      <4>2. n - 1 = 1
        BY <1>4, <1>18, <4>1
      <4>3. n = 2
        BY <4>2
      <4> QED
        BY <4>1, <4>3
    <3> QED
      BY <1>5, <3>1
  <2>2. h.initiator # Router
    <3>1. Len(tasks) - 1 = 1 /\ h = tasks[1]
      BY <1>1, <1>3, <2>1, RestInOrder
    <3> QED
      BY <2>1, <3>1 DEF RouterInv, RInv, EndsWithCompletion
  <2>3. owed = 0
    <3>1. o..(L - 1) = {}
      BY <2>1
    <3> QED
      BY <3>1, SumEmpty DEF owed
  <2>4. profit = ledger.profit /\ profit \in Int
    BY <1>7, <1>14, <1>15, <2>3
  <2> DEFINE b == Innermost.before.wallet
  <2>5. b = loans[o].before.wallet /\ b \in [Users -> Nat] /\ b[Router] = 0
    <3>1. b = loans[o].before.wallet
      BY <1>2, <2>1 DEF Innermost
    <3>2. loans[o].before.wallet[Router] = 0
      BY <1>2 DEF RouterInv, RInv, OwnLoans
    <3> QED
      BY <1>2, <1>4, <3>1, <3>2, FrameTypes
  <2> HIDE DEF b
  <2>6. /\ wallet' \in [Users -> Int]
        /\ wallet'[Router] = 0 /\ wallet'[h.initiator] = b[h.initiator] + profit
        /\ \A u \in Users \ {Router, h.initiator} : wallet'[u] = b[u]
    <3>1. \A u \in Users \ {Router} : wallet[u] = b[u] /\ wallet[u] + profit \in Int
      BY <1>4, <1>15, <1>16, <2>5
    <3>2. /\ wallet' = [u \in Users |-> IF u = h.initiator THEN wallet[u] + profit
                                        ELSE IF u = Router THEN 0 ELSE wallet[u]]
      <4>1. wallet' = [u \in Users |->
                         IF u = h.initiator THEN wallet[u] + profit
                         ELSE IF u = Router THEN wallet[u] - payback - profit ELSE wallet[u]]
        BY <1>3, <1>4, <2>2
      <4> QED
        BY <1>15, <2>2, <4>1
    <3> QED
      BY <1>4, <2>2, <3>1, <3>2
  <2>7. wallet' = [b EXCEPT ![h.initiator] = @ + profit]
    <3>1. \A u \in Users : wallet'[u] = [b EXCEPT ![h.initiator] = @ + profit][u]
      BY <1>4, <2>2, <2>5, <2>6
    <3>2. [b EXCEPT ![h.initiator] = @ + profit] \in [Users -> Int]
      BY <1>4, <1>15, <2>5
    <3> QED
      BY <2>6, <3>1, <3>2
  <2> QED
    BY <2>4, <2>7 DEF b
<1> QED
  BY <1>1, <1>3, <1>6, <1>7, <1>13, <1>17, <1>18 DEF LedgerInv

(* A loan of the router is over: its fees are no longer due, and when it is *)
(* the outermost nothing is owed either.                                    *)
LEMMA LoanOverLedger ==
  ASSUME RouterInv, RouterInv', LedgerInv, RouterLoanOver
  PROVE  /\ LedgerInv'
         /\ tasks' = <<>> =>
              Pool' = Innermost.before.vault_balance - Innermost.before.collected
                        + ledger.interest
<1>1. /\ tasks # <<>> /\ Head(tasks).op = "after_trade" /\ tasks' = Tail(tasks)
      /\ ledger' = IF tasks' = <<>> THEN NothingYet ELSE ledger
      /\ loans # <<>> /\ TypeOK /\ loans' = LoansAfter
      /\ UNCHANGED <<vault_config, wallet>>
      /\ collected' = collected + ProtocolFee /\ vault_balance' = vault_balance - BurnFee
  BY DEF RouterLoanOver, AfterTrade, RouterInv, IInv
<1>2. PICK L \in Nat \ {0} : L = Len(loans)
  BY <1>1, RouterActs
<1>3. PICK o \in 1..L : o = Own
  BY <1>1, <1>2, RouterActs
<1>4. /\ Len(loans') = L - 1
      /\ \A i \in 1..(L - 1) : /\ loans'[i].before = loans[i].before
                               /\ loans'[i].loan_amount = loans[i].loan_amount
  BY <1>1, <1>2, LoansAfterOver
<1>5. /\ Len(tasks) \in Nat \ {0} /\ Len(tasks') = Len(tasks) - 1 /\ Head(tasks) = tasks[1]
  BY <1>1, RestInOrder
<1>6. ASSUME NEW i \in 2..Len(tasks), tasks[i].op = "after_trade"
      PROVE  loans'[tasks[i].loan].loan_amount = loans[tasks[i].loan].loan_amount
  <2>1. i \in 1..Len(tasks) /\ 1 \in 1..Len(tasks) /\ 1 < i
    BY <1>5
  <2>2. /\ tasks[1].loan \in 1..L /\ tasks[i].loan \in 1..L
        /\ tasks[1].loan > tasks[i].loan
    BY <1>1, <1>2, <1>5, <1>6, <2>1 DEF RouterInv, RInv, CallbacksInOrder
  <2>3. tasks[i].loan \in 1..(L - 1)
    BY <2>2
  <2> QED
    BY <1>4, <2>3
<1>7. /\ CompletedInTurn'
      /\ tasks' # <<>> => Own' = o /\ Head(tasks').op # "after_trade" /\ Len(tasks) >= 2
  BY <1>1, <1>3, <1>6, TailInTurn DEF LedgerInv
<1>8. ledger \in [profit : Int, interest : Nat] /\ PoolAccounted
      /\ (Len(tasks) >= 2 => WalletsAccounted)
  BY <1>1 DEF LedgerInv
(* The fees of the loan that is over. *)
<1> DEFINE d == DueOf
           p == PaybackOf
           base == loans[o].before.vault_balance - loans[o].before.collected
           i == ledger.interest
           owed == Sum(p, o..(L - 1))
           due == Sum(d, o..(L - 1))
<1>9. \A k \in o..L : d[k] \in Nat /\ p[k] \in Nat
  BY <1>1, <1>2, CostsTypes
<1>10. d[L] = ProtocolFee + BurnFee /\ ProtocolFee \in Nat /\ BurnFee \in Nat
  <2>1. L \in 1..Len(loans) /\ Innermost = loans[L] /\ loans[L].loan_amount \in Nat
    BY <1>1, <1>2, FrameTypes DEF Innermost
  <2>2. /\ ProtocolFee = Compute(vault_config.fees.protocol, loans[L].loan_amount)
        /\ BurnFee = Compute(vault_config.fees.burn, loans[L].loan_amount)
    BY <2>1 DEF ProtocolFee, BurnFee
  <2>3. d[L] = Compute(vault_config.fees.protocol, loans[L].loan_amount)
                 + Compute(vault_config.fees.burn, loans[L].loan_amount)
    BY <1>1, <2>1, CostsTypes
  <2>4. /\ Compute(vault_config.fees.protocol, loans[L].loan_amount) \in Nat
        /\ Compute(vault_config.fees.burn, loans[L].loan_amount) \in Nat
    BY <1>1, <2>1, CostsNat
  <2> QED
    BY <2>2, <2>3, <2>4
<1>11. Owed = owed /\ FeesDue = Sum(d, o..L)
  BY <1>1, <1>2, <1>3 DEF Unpaid, Owed, FeesDue
<1> HIDE DEF d, p
<1>12. Sum(d, o..L) = due + d[L] /\ due \in Nat
  <2>1. o \in Nat /\ L \in Nat /\ o <= L /\ \A k \in o..L : d[k] \in Nat
    BY <1>9
  <2> QED
    BY <2>1, RangeSplit
<1>13. owed \in Nat
  <2>1. IsFiniteSet(o..(L - 1)) /\ \A k \in o..(L - 1) : p[k] \in Nat
    BY <1>9, FS_Interval
  <2> QED
    BY <2>1, SumNat
<1>14. base \in Int /\ i \in Nat /\ vault_balance \in Nat /\ collected \in Nat
  <2>1. /\ loans[o].before.vault_balance \in Nat /\ loans[o].before.collected \in Nat
    BY <1>1, <1>2, FrameTypes
  <2>2. i \in Nat
    BY <1>8
  <2>3. vault_balance \in Nat /\ collected \in Nat
    BY <1>1, Types
  <2> QED
    BY <2>1, <2>2, <2>3
<1>15. vault_balance - collected = base + i + (due + d[L]) - owed
  BY <1>3, <1>8, <1>11, <1>12 DEF PoolAccounted, Pool
<1>16. Pool' = vault_balance - BurnFee - (collected + ProtocolFee)
  BY <1>1 DEF Pool
<1> HIDE DEF base, i, owed, due
<1>17. Pool' = base + i + due - owed
  BY <1>10, <1>12, <1>13, <1>14, <1>15, <1>16
<1>18. CASE tasks' = <<>>
  <2>1. o = L
    <3>1. Len(tasks) = 1
      <4>1. Len(tasks') = 0
        BY <1>18
      <4> QED
        BY <1>5, <4>1
    <3>2. L \in Own..Len(loans)
      BY <1>2, <1>3
    <3>3. PICK j \in 1..Len(tasks) : tasks[j].op = "after_trade" /\ tasks[j].loan = L
      BY <3>2 DEF RouterInv, RInv, CallbackOfEach
    <3>4. j = Len(tasks)
      BY <3>1, <3>3
    <3> QED
      BY <1>1, <1>3, <3>3, <3>4 DEF Own, FirstRouterLoan
  <2>2. owed = 0 /\ due = 0
    <3>1. o..(L - 1) = {}
      BY <2>1
    <3> QED
      BY <3>1, SumEmpty DEF owed, due
  <2>3. Pool' = base + i
    BY <1>14, <1>17, <2>2
  <2>4. /\ base = Innermost.before.vault_balance - Innermost.before.collected
        /\ i = ledger.interest
    BY <1>2, <2>1 DEF Innermost, base, i
  <2>5. Len(tasks') = 0 /\ ledger' = NothingYet
    BY <1>1, <1>18
  <2>6. LedgerInv'
    BY <1>7, <1>18, <2>5 DEF LedgerInv, NothingYet
  <2> QED
    BY <2>3, <2>4, <2>6
<1>19. CASE tasks' # <<>>
  <2>1. o \in 1..(L - 1)
    <3>1. Len(tasks') \in 1..Len(tasks')
      <4>1. Len(tasks') \in Nat /\ Len(tasks) >= 2
        BY <1>5, <1>7, <1>19
      <4> QED
        BY <1>5, <4>1
    <3>2. tasks'[Len(tasks')].op = "after_trade"
      BY <1>19 DEF RouterInv, RInv, EndsWithCompletion
    <3>3. tasks'[Len(tasks')].loan \in 1..Len(loans')
      BY <3>1, <3>2 DEF RouterInv, RInv, CallbacksInOrder
    <3>4. Own' = tasks'[Len(tasks')].loan
      BY <1>19 DEF Own, FirstRouterLoan
    <3> QED
      BY <1>4, <1>7, <1>19, <3>3, <3>4
  <2>2. o..(L - 1) \subseteq 1..Len(loans) /\ o..(L - 1) \subseteq 1..Len(loans')
    BY <1>2, <1>4, <2>1
  <2>3. \A k \in o..(L - 1) : loans'[k].loan_amount = loans[k].loan_amount
    BY <1>4
  <2>4. Sum(PaybackOf', o..(L - 1)) = owed /\ Sum(DueOf', o..(L - 1)) = due
    BY <1>1, <2>2, <2>3, CostsKept DEF owed, due, p, d
  <2>5. Unpaid' = o..(L - 1) /\ Owed' = owed /\ FeesDue' = due
    BY <1>4, <1>7, <1>19, <2>4 DEF Unpaid, Owed, FeesDue
  <2>6. ledger' = ledger /\ loans'[o].before = loans[o].before /\ Own' = o
    BY <1>1, <1>4, <1>7, <1>19, <2>1
  <2>7. PoolAccounted'
    <3>1. loans'[o].before.vault_balance - loans'[o].before.collected = base
      BY <2>6 DEF base
    <3>2. ledger'.interest = i
      BY <2>6 DEF i
    <3> QED
      BY <1>17, <2>5, <2>6, <3>1, <3>2 DEF PoolAccounted
  <2>8. WalletsAccounted'
    BY <1>1, <1>3, <1>7, <1>8, <1>11, <1>19, <2>5, <2>6 DEF WalletsAccounted
  <2> QED
    BY <1>7, <1>8, <1>19, <2>6, <2>7, <2>8 DEF LedgerInv
<1> QED
  BY <1>18, <1>19

(* Between the calls of the router nothing is accounted for. *)
LEMMA IdleLedger ==
  ASSUME tasks' = <<>>, ledger' = NothingYet
  PROVE  LedgerInv'
<1>1. Len(tasks') = 0
  OBVIOUS
<1> QED
  BY <1>1 DEF LedgerInv, CompletedInTurn, NothingYet

(* Steps that leave the loans, the coins and the pool as they are. *)
LEMMA SameLedger ==
  ASSUME LedgerInv, Pool' = Pool,
         UNCHANGED <<tasks, ledger, wallet, loans, vault_config>>
  PROVE  LedgerInv'
<1>1. PaybackOf' = PaybackOf /\ DueOf' = DueOf
  BY SameCosts
<1>2. Own' = Own /\ Unpaid' = Unpaid
  BY DEF Own, FirstRouterLoan, Unpaid
<1>3. Owed' = Owed /\ FeesDue' = FeesDue
  BY <1>1, <1>2 DEF Owed, FeesDue
<1> QED
  BY <1>2, <1>3 DEF LedgerInv, CompletedInTurn, PoolAccounted, WalletsAccounted

(* While the router is at work the vault only sends the protocol's fees.    *)
LEMMA VaultStepLedger ==
  ASSUME RouterInv, LedgerInv, VaultStep
  PROVE  LedgerInv'
<1>1. tasks' = tasks /\ ledger' = ledger
  BY DEF VaultStep, router_vars
<1>2. CASE tasks = <<>>
  BY <1>1, <1>2, IdleLedger DEF LedgerInv
<1>3. CASE tasks # <<>>
  <2>1. loans # <<>> /\ \A u \in Users \ {Router} : ~MayAct(u)
    BY <1>3, RouterActs
  <2>2. CollectProtocolFees
    BY <1>3, <2>1 DEF VaultStep, Deposit, Transfer, Withdraw, FlashLoan, UpdateConfig
  <2>3. UNCHANGED <<wallet, loans, vault_config>>
    BY <2>2 DEF CollectProtocolFees
  <2>4. Pool' = Pool
    BY <2>2, Types DEF RouterInv, IInv, CollectProtocolFees, CollectedAfter, Pool
  <2> QED
    BY <1>1, <2>3, <2>4, SameLedger
<1> QED
  BY <1>2, <1>3

LEMMA BorrowsLedger ==
  ASSUME RouterInv, RouterInv', LedgerInv,
         \/ NestedFlashLoan
         \/ \E u \in Users \ {Router}, amount \in 1..vault_balance, msgs \in Payloads :
              RouterFlashLoan(u, amount, msgs)
  PROVE  LedgerInv'
<1>1. CASE NestedFlashLoan
  <2>1. tasks # <<>> /\ Head(tasks).op = "flash_loan"
    BY <1>1 DEF NestedFlashLoan
  <2>2. Head(tasks).msgs \in Seq(Messages)
    BY <2>1, RestInOrder, TaskForms
  <2>3. Len(tasks) >= 3 /\ Tail(tasks) \in Seq(Tasks)
    BY <2>1, PayloadFirst, RestInOrder
  <2> QED
    BY <1>1, <2>1, <2>2, <2>3, BorrowLedger, RouterAssumption DEF NestedFlashLoan
<1>2. ASSUME NEW u \in Users \ {Router}, NEW amount, NEW msgs \in Payloads,
             RouterFlashLoan(u, amount, msgs)
      PROVE  LedgerInv'
  <2>1. tasks = <<>>
    BY <1>2, RouterActs DEF RouterFlashLoan
  <2>2. msgs \in Seq(Messages) /\ <<>> \in Seq(Tasks)
    BY RouterAssumption
  <2> QED
    BY <1>2, <2>1, <2>2, BorrowLedger DEF RouterFlashLoan
<1> QED
  BY <1>1, <1>2

LEMMA LedgerInit == RouterInit => LedgerInv
<1> SUFFICES ASSUME RouterInit PROVE LedgerInv
  OBVIOUS
<1>1. tasks = <<>> /\ Len(tasks) = 0 /\ ledger = NothingYet
  BY DEF RouterInit
<1> QED
  BY <1>1 DEF LedgerInv, CompletedInTurn, NothingYet

LEMMA LedgerStep ==
  RouterInv /\ LedgerInv /\ [RouterNext]_<<vars, router_vars>> => LedgerInv'
<1> SUFFICES ASSUME RouterInv, LedgerInv, [RouterNext]_<<vars, router_vars>>
             PROVE  LedgerInv'
  OBVIOUS
<1>0. RouterInv'
  BY RouterStep
<1>1. CASE UNCHANGED <<vars, router_vars>>
  BY <1>1, SameLedger DEF vars, vault_vars, router_vars, Pool
<1>2. CASE VaultStep
  BY <1>2, VaultStepLedger
<1>3. CASE \/ NestedFlashLoan
           \/ \E u \in Users \ {Router}, amount \in 1..vault_balance, msgs \in Payloads :
                RouterFlashLoan(u, amount, msgs)
  BY <1>0, <1>3, BorrowsLedger
<1>4. CASE TradeElsewhere
  BY <1>4, TradeLedger
<1>5. CASE CompleteLoan
  BY <1>5, CompleteLedger
<1>6. CASE RouterLoanOver
  BY <1>0, <1>6, LoanOverLedger
<1>7. CASE RouterFail
  BY <1>7, IdleLedger DEF RouterFail
<1>8. CASE \E sender, owner \in Admins, vault_factory \in Factories :
             UpdateRouterConfig(sender, owner, vault_factory)
  BY <1>8, SameLedger DEF UpdateRouterConfig, vars, vault_vars, Pool
<1> QED
  BY <1>1, <1>2, <1>3, <1>4, <1>5, <1>6, <1>7, <1>8 DEF RouterNext

LEMMA LedgerInvariance == RouterSpec => []LedgerInv
<1>1. RouterInv /\ LedgerInv /\ [RouterNext]_<<vars, router_vars>> => LedgerInv'
  BY LedgerStep
<1> QED
  BY RouterInvariance, LedgerInit, <1>1, PTL DEF RouterSpec

(* The last completion of a call gives the initiator what the trades gained *)
(* less the fees of all loans of the call, and leaves every other wallet,   *)
(* and the initiator's own coins, as the call found them.                   *)
THEOREM ProfitGoesToInitiator == RouterSpec => ProfitToInitiator
<1>1. RouterInv /\ LedgerInv /\ [RouterNext]_<<vars, router_vars>>
        => [CompleteLoan /\ Len(tasks') = 1
              => LET before == Innermost.before.wallet IN
                 wallet' = [before EXCEPT ![Head(tasks).initiator] = @ + ledger.profit]
           ]_<<vars, router_vars>>
  BY CompleteLedger
<1> QED
  BY RouterInvariance, LedgerInvariance, <1>1, PTL DEF RouterSpec, ProfitToInitiator

(* When a call of the router is over, the pool has grown by the flash loan  *)
(* fees of all its loans, however deep they were and whoever collected the  *)
(* protocol's fees meanwhile.                                               *)
THEOREM RouterPays == RouterSpec => RouterPaysInFull
<1>1. RouterInv /\ LedgerInv /\ [RouterNext]_<<vars, router_vars>>
        => [CallOver => Pool' = Innermost.before.vault_balance
                                  - Innermost.before.collected
                                  + ledger.interest]_<<vars, router_vars>>
  BY RouterStep, LoanOverLedger DEF CallOver
<1> QED
  BY RouterInvariance, LedgerInvariance, <1>1, PTL DEF RouterSpec, RouterPaysInFull
=============================================================================
