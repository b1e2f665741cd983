------------------------------ MODULE SwapRouter ------------------------------
(***************************************************************************)
(* The router of swaps                                                      *)
(* (contracts/liquidity_hub/pool-network/terraswap_router): it leads an     *)
(* offer through several pools and checks what the receiver gets.  Between  *)
(* two calls it should own nothing; whatever it owns, the next call swaps.  *)
(*                                                                          *)
(* A call is a transaction of several messages: tasks are those still to be *)
(* executed.  A message that fails undoes the whole transaction.            *)
(***************************************************************************)
EXTENDS PoolCurves, SequencesExt, FiniteSets

CONSTANTS
  Users,
  Router,         \* the address of the router
  RouterAdmin,    \* the admin of the router, or NoAdmin
  Assets,
  Pools,          \* the pairs of the factory, no two of the same assets
  AssetsOf,       \* the two assets of a pair
  AmpOf,          \* the amp of a stableswap pair, zero of others
  ScaleOf,        \* the scale of an asset
  FeesOf,         \* the fees of a pair
  Reserves,       \* what pairs have at first
  Funds,          \* what users have at first
  Operations,     \* sequences of swaps that callers ask for
  RouteOptions,   \* routes that are added: an offer, an ask and the operations
  Offers,         \* amounts that callers send along
  Minimums,       \* minimum_receive that callers ask for
  MaxCalls,       \* bound: calls from outside in a behaviour
  NoAdmin, NoMinimum, NoCall

ASSUME RouterAssumption ==
  /\ Users \cap (Pools \cup {Router}) = {} /\ Router \notin Pools
  /\ AssetsOf \in [Pools -> {<<a, b>> : a \in Assets, b \in Assets}]
  /\ \A p, q \in Pools : ToSet(AssetsOf[p]) = ToSet(AssetsOf[q]) => p = q
  /\ AmpOf \in [Pools -> Nat] /\ ScaleOf \in [Assets -> Nat \ {0}]
  /\ FeesOf \in [Pools -> [protocol : Nat, swap : Nat, burn : Nat]]
  /\ \A p \in Pools : TotalOf(FeesOf[p]) < Unit
  /\ Reserves \in [Pools -> [Assets -> Nat]] /\ Funds \in [Users -> [Assets -> Nat]]
  /\ Operations \subseteq Seq(Assets \X Assets)
  /\ \A route \in RouteOptions : route.ops \in Seq(Assets \X Assets)
  /\ Offers \subseteq Nat /\ Minimums \subseteq Nat \ {0} /\ MaxCalls \in Nat
  /\ NoMinimum \notin Nat

VARIABLES
  listed,         \* the pairs on the factory's list
  balance,        \* the coins of users, pairs and the router
  collected,      \* COLLECTED_PROTOCOL_FEES of the pairs
  swap_routes,    \* SWAP_ROUTES
  tasks,          \* the transaction in progress,
  call,           \* its first message and what it started from, or NoCall
  calls           \* how many calls from outside there have been

vars == <<listed, balance, collected, swap_routes, tasks, call, calls>>

Holders == Users \cup Pools \cup {Router}

Init ==
  /\ listed = Pools
  /\ balance = [h \in Holders |->
       IF h \in Pools THEN Reserves[h] ELSE IF h \in Users THEN Funds[h]
       ELSE [a \in Assets |-> 0]]
  /\ collected = [p \in Pools |-> [a \in Assets |-> 0]]
  /\ swap_routes = <<>>
  /\ tasks = <<>> /\ call = NoCall /\ calls = 0

-----------------------------------------------------------------------------
(* Pairs and simulations, in a state s of balances and collected fees       *)

State == [balance |-> balance, collected |-> collected]

(* query_pair of the factory: empty if there is none. *)
PairOf(op) == {p \in listed : ToSet(AssetsOf[p]) = {op[1], op[2]} /\ op[1] # op[2]}
ThePair(op) == CHOOSE p \in PairOf(op) : TRUE

(* What a pair trades with: the fees of the protocol are not part of it.    *)
Available(s, p, a) == s.balance[p][a] - s.collected[p][a]

TypeOfPair(p, op) ==
  [amp |-> AmpOf[p], offer_scale |-> ScaleOf[op[1]], ask_scale |-> ScaleOf[op[2]]]

(* query_simulation and query_reverse_simulation of the pair, which the     *)
(* factory must know.                                                       *)
Simulation(s, op, offer) ==
  LET p == ThePair(op) IN
  IF PairOf(op) = {} THEN Undefined
  ELSE ComputeSwap(Available(s, p, op[1]), Available(s, p, op[2]), offer, FeesOf[p],
                   TypeOfPair(p, op))
ReverseSimulation(s, op, ask) ==
  LET p == ThePair(op) IN
  IF PairOf(op) = {} THEN Undefined
  ELSE OfferFor(Available(s, p, op[1]), Available(s, p, op[2]), ask, FeesOf[p],
                TypeOfPair(p, op))

(* simulate_swap_operations: each pair as it is now. *)
Returned(s, op, offer) ==
  LET sim == Simulation(s, op, offer) IN
  IF offer = Undefined \/ sim = Undefined THEN Undefined ELSE sim.return
Amounts(s, offer, ops) ==
  LET amount[i \in 0..Len(ops)] ==
        IF i = 0 THEN offer ELSE Returned(s, ops[i], amount[i - 1]) IN
  amount
SimulateSwapOperations(s, offer, ops) ==
  IF ops = <<>> THEN Undefined ELSE Amounts(s, offer, ops)[Len(ops)]

(* reverse_simulate_swap_operations: from the last operation to the first.  *)
Required(s, op, ask) == IF ask = Undefined THEN Undefined ELSE ReverseSimulation(s, op, ask)
ReverseSimulateSwapOperations(s, ask, ops) ==
  LET amount[i \in 1..(Len(ops) + 1)] ==
        IF i = Len(ops) + 1 THEN ask ELSE Required(s, ops[i], amount[i + 1]) IN
  IF ops = <<>> THEN Undefined ELSE amount[1]

-----------------------------------------------------------------------------
(* Calls from outside *)

(* One transaction after the other. *)
Called == tasks = <<>> /\ calls < MaxCalls /\ calls' = calls + 1

(* assert_operations: of the assets that are asked for, and not offered     *)
(* later, one remains.                                                      *)
Outputs(ops) ==
  {a \in Assets : \E i \in DOMAIN ops :
     ops[i][2] = a /\ \A j \in (i + 1)..Len(ops) : ops[j][1] # a}
AssertOperations(ops) == ops # <<>> /\ Cardinality(Outputs(ops)) = 1

Moved(b, from, to, a, amount) ==
  [h \in Holders |-> [b[h] EXCEPT
     ![a] = @ - (IF h = from THEN amount ELSE 0) + (IF h = to THEN amount ELSE 0)]]

(* Only the last operation goes to the receiver. *)
ReceiverFirst(i, n, to) == IF i = 1 THEN to ELSE Router          \* mutant
Receiver(i, n, to) == IF i = n THEN to ELSE Router

(* What the minimum is measured from: the receiver's balance when the call  *)
(* arrives, with the coins that were sent along already gone.               *)
PrevBalanceNone(b, to, ask) == 0                                 \* mutant
PrevBalance(b, to, ask) == b[to][ask]

(* execute_swap_operations, called with coins or through a cw20.  Nothing   *)
(* compares the coins with the first operation.                             *)
ExecuteSwapOperations(u, to, ops, a, amount, minimum) ==
  LET n == Len(ops)
      ask == ops[n][2]
      paid == Moved(balance, u, Router, a, amount)
      swaps == [i \in 1..n |-> [msg |-> "swap", op |-> ops[i], to |-> Receiver(i, n, to)]]
      check == [msg |-> "assert", asset |-> ask, receiver |-> to, minimum |-> minimum,
                prev_balance |-> PrevBalance(paid, to, ask)] IN
  /\ Called
  /\ AssertOperations(ops)
  /\ amount <= balance[u][a]
  /\ balance' = paid
  /\ tasks' = IF minimum = NoMinimum THEN swaps ELSE Append(swaps, check)
  /\ call' = [sender |-> u, to |-> to, ops |-> ops, minimum |-> minimum,
              asset |-> a, amount |-> amount, before |-> State]
  /\ UNCHANGED <<listed, collected, swap_routes>>

(* add_swap_routes: by the admin, or by anyone if the contract has none.  A *)
(* route must be possible for one coin; that it leads from its offer to its *)
(* ask is not looked at.                                                    *)
AddSwapRoute(sender, route) ==
  LET key == <<route.offer, route.ask>> IN
  /\ Called
  /\ RouterAdmin # NoAdmin => sender = RouterAdmin
  /\ SimulateSwapOperations(State, 1, route.ops) # Undefined
  /\ swap_routes' = [k \in DOMAIN swap_routes \cup {key} |->
                       IF k = key THEN route.ops ELSE swap_routes[k]]
  /\ UNCHANGED <<listed, balance, collected, tasks, call>>

(* remove_pair of the factory: routes through the pair are not told. *)
PairRemoved(p) ==
  /\ Called
  /\ p \in listed
  /\ listed' = listed \ {p}
  /\ UNCHANGED <<balance, collected, swap_routes, tasks, call>>

(* Coins sent to the router without a message. *)
Transfer(u, a, amount) ==
  /\ Called
  /\ amount \in 1..balance[u][a]
  /\ balance' = Moved(balance, u, Router, a, amount)
  /\ UNCHANGED <<listed, collected, swap_routes, tasks, call>>

-----------------------------------------------------------------------------
(* The messages of a transaction *)

Message(msg) == tasks # <<>> /\ Head(tasks).msg = msg

Continue ==
  /\ tasks' = Tail(tasks)
  /\ call' = IF tasks' = <<>> THEN NoCall ELSE call

(* The offer of an operation: all that the router has, whoever it is from.  *)
OfferOf(op) == balance[Router][op[1]]

(* The pair has received the offer when it computes the return, and takes   *)
(* it off again.                                                            *)
SwapWithOffer(op, offer) ==                                      \* mutant
  Simulation([State EXCEPT !.balance = Moved(@, Router, ThePair(op), op[1], offer)], op, offer)
SwapOf(op, offer) == Simulation(State, op, offer)

CanSwap(op) == OfferOf(op) > 0 /\ SwapOf(op, OfferOf(op)) # Undefined

(* execute_swap_operation, and the swap of the pair it sends. *)
ExecuteSwapOperation ==
  LET t == Head(tasks)
      p == ThePair(t.op)
      offer == OfferOf(t.op)
      swap == SwapOf(t.op, offer)
      in == Moved(balance, Router, p, t.op[1], offer)
      out == Moved(in, p, t.to, t.op[2], swap.return) IN
  /\ Message("swap") /\ CanSwap(t.op)
  /\ balance' = [out EXCEPT ![p][t.op[2]] = @ - swap.fees.burn]
  /\ collected' = [collected EXCEPT ![p][t.op[2]] = @ + swap.fees.protocol]
  /\ Continue
  /\ UNCHANGED <<listed, swap_routes, calls>>

Received(t) == balance[t.receiver][t.asset] - t.prev_balance

(* assert_minimum_receive *)
AssertMinimumReceive ==
  /\ Message("assert")
  /\ Received(Head(tasks)) >= Head(tasks).minimum
  /\ Continue
  /\ UNCHANGED <<listed, balance, collected, swap_routes, calls>>

Failing ==
  \/ Message("swap") /\ ~CanSwap(Head(tasks).op)
  \/ Message("assert") /\ Received(Head(tasks)) < Head(tasks).minimum

Fail ==
  /\ Failing
  /\ balance' = call.before.balance /\ collected' = call.before.collected
  /\ tasks' = <<>> /\ call' = NoCall
  /\ UNCHANGED <<listed, swap_routes, calls>>

Next ==
  \/ \E u \in Users, to \in Users \cup {Router}, a \in Assets, amount \in Offers,
        minimum \in Minimums \cup {NoMinimum},
        ops \in Operations \cup Range(swap_routes) :
       ExecuteSwapOperations(u, to, ops, a, amount, minimum)
  \/ \E sender \in Users \cup {RouterAdmin}, route \in RouteOptions :
       AddSwapRoute(sender, route)
  \/ \E p \in Pools : PairRemoved(p)
  \/ \E u \in Users, a \in Assets : \E amount \in Offers : Transfer(u, a, amount)
  \/ ExecuteSwapOperation \/ AssertMinimumReceive \/ Fail

Spec == Init /\ [][Next]_vars

-----------------------------------------------------------------------------
(* Properties *)

(* The operations follow each other, from the coins sent along.             *)
Linked(c) ==
  /\ c.ops[1][1] = c.asset
  /\ \A i \in 1..(Len(c.ops) - 1) : c.ops[i + 1][1] = c.ops[i][2]

Succeeds == tasks # <<>> /\ tasks' = <<>> /\ ~Failing

(* A call whose operations follow each other leaves the router without any  *)
(* of the assets it offers, whatever lay there before and whatever is       *)
(* rounded on the way; and what the last of them asks for, it does not      *)
(* leave there either, unless the router is to receive it.                  *)
NothingLeftBehind ==
  [][Succeeds /\ Linked(call) /\ call.to # Router =>
       LET offered == {op[1] : op \in ToSet(call.ops)} IN
       \A a \in Assets :
         IF a \in offered THEN balance'[Router][a] = 0
         ELSE balance'[Router][a] = call.before.balance[Router][a]]_vars

(* A call with a minimum that succeeds has made the receiver richer by it,  *)
(* beyond what the receiver had and did not send along: not by the coins    *)
(* that were there before.                                                  *)
MinimumReceived ==
  [][Succeeds /\ call.minimum # NoMinimum /\ call.to # Router =>
       LET ask == Last(call.ops)[2]
           sent == IF call.sender = call.to /\ call.asset = ask THEN call.amount ELSE 0 IN
       balance'[call.to][ask]
         >= call.before.balance[call.to][ask] - sent + call.minimum]_vars

(* What a simulation of the operations promised before the call is what the *)
(* receiver gets, to the coin, if the router was empty and no pair is used  *)
(* twice.                                                                   *)
Quotable(c) ==
  /\ Linked(c) /\ c.to # Router
  /\ \A a \in Assets : c.before.balance[Router][a] = 0
  /\ IsInjective([i \in DOMAIN c.ops |-> ToSet(c.ops[i])])
SimulationHolds ==
  [][Succeeds /\ Quotable(call) =>
       LET ask == Last(call.ops)[2]
           sent == IF call.sender = call.to /\ call.asset = ask THEN call.amount ELSE 0 IN
       balance'[call.to][ask] - (call.before.balance[call.to][ask] - sent)
         = SimulateSwapOperations(call.before, call.amount, call.ops)]_vars

Swaps == {op \in Assets \X Assets : PairOf(op) # {}}

(* What a stableswap pair keeps for an offer is within two units of the     *)
(* exact solution of its curve, though the iteration that looks for it stops *)
(* early and divides in integers.  The curve is the one of the D the code   *)
(* has computed: the error of the iteration before, for D, is not measured. *)
StableCurveKept == tasks = <<>> =>
  \A op \in Swaps, offer \in Offers \ {0} :
    LET p == ThePair(op)
        scale == ScaleOf[op[2]]
        x == Available(State, p, op[1]) * ScaleOf[op[1]]
        y == Available(State, p, op[2]) * scale
        sum == (x + offer * ScaleOf[op[1]]) \div scale
        d == StableD(x, y, AmpOf[p], scale) \div scale
        new == StableY(x, y, sum * scale, AmpOf[p], scale) IN
    AmpOf[p] > 0 /\ x > 0 /\ y > 0 /\ sum > 0 =>
      /\ new # Undefined
      /\ new >= 2 => CurveAt(new - 2, d, sum, 2 * AmpOf[p]) <= 0
      /\ CurveAt(new + 2, d, sum, 2 * AmpOf[p]) >= 0

(* One coin more than a reverse simulation through one constant product     *)
(* pair answers buys what was asked for, as long as that is not more than   *)
(* the atomics of the fees: the inverse of what they leave is rounded.      *)
(* (Through several pairs, what one lacks is multiplied by the price of the *)
(* next.)                                                                   *)
OneMoreIsEnough == tasks = <<>> =>
  \A op \in Swaps : AmpOf[ThePair(op)] = 0 =>
    \A ask \in 1..Available(State, ThePair(op), op[2]) :
    LET offer == ReverseSimulateSwapOperations(State, ask, <<op>>)
        fees == TotalOf(FeesOf[ThePair(op)]) IN
    offer # Undefined /\ (fees = 0 \/ ask <= fees) =>
      LET return == SimulateSwapOperations(State, offer + 1, <<op>>) IN
      return # Undefined => return >= ask
=============================================================================
