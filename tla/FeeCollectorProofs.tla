------------------------- MODULE FeeCollectorProofs -------------------------
(***************************************************************************)
(* The fee collector, proved: no swap is given more than the collector has, *)
(* the fees collected for an epoch are those query_fees foretold, and the   *)
(* messages of a call are together one step of FeeForwarding, or none.      *)
(***************************************************************************)
EXTENDS FeeCollector, Arithmetic, SequenceTheorems, WellFoundedInduction

-----------------------------------------------------------------------------
(* Sequences *)

(* The first of two sequences one after the other, if it is not empty,      *)
(* begins them.                                                             *)
LEMMA FrontFirst ==
  ASSUME NEW S, NEW s \in Seq(S), s # <<>>, NEW t \in Seq(S)
  PROVE  /\ s \o t # <<>>
         /\ Head(s \o t) = Head(s)
         /\ Tail(s \o t) = Tail(s) \o t
<1>1. /\ Len(s) \in Nat \ {0} /\ Len(t) \in Nat
      /\ Tail(s) \in Seq(S) /\ Len(Tail(s)) = Len(s) - 1
      /\ \A i \in 1..Len(Tail(s)) : Tail(s)[i] = s[i + 1]
  BY HeadTailProperties, EmptySeq, LenProperties
<1>2. /\ s \o t \in Seq(S) /\ Len(s \o t) = Len(s) + Len(t)
      /\ \A i \in 1..(Len(s) + Len(t)) :
           (s \o t)[i] = IF i <= Len(s) THEN s[i] ELSE t[i - Len(s)]
  BY ConcatProperties
<1>3. s \o t # <<>>
  BY <1>1, <1>2, EmptySeq
<1>4. /\ Tail(s \o t) \in Seq(S) /\ Len(Tail(s \o t)) = Len(s \o t) - 1
      /\ \A i \in 1..Len(Tail(s \o t)) : Tail(s \o t)[i] = (s \o t)[i + 1]
  BY <1>2, <1>3, HeadTailProperties
<1>5. /\ Tail(s) \o t \in Seq(S)
      /\ Len(Tail(s) \o t) = Len(Tail(s)) + Len(t)
      /\ \A i \in 1..(Len(Tail(s)) + Len(t)) :
           (Tail(s) \o t)[i] = IF i <= Len(Tail(s)) THEN Tail(s)[i]
                               ELSE t[i - Len(Tail(s))]
  BY <1>1, ConcatProperties
<1>6. Tail(s \o t) = Tail(s) \o t
  <2>1. Len(Tail(s \o t)) = Len(Tail(s) \o t)
    BY <1>1, <1>2, <1>4, <1>5
  <2>2. ASSUME NEW i \in 1..Len(Tail(s \o t))
        PROVE  Tail(s \o t)[i] = (Tail(s) \o t)[i]
    <3> DEFINE u == Tail(s)
               m == Len(s)
               n == Len(t)
    <3>1. i \in 1..(m - 1 + n) /\ m \in Nat \ {0} /\ n \in Nat /\ Len(u) = m - 1
      BY <1>1, <1>2, <1>4
    <3>2. Tail(s \o t)[i] = (s \o t)[i + 1]
      BY <1>4
    <3>3. i + 1 \in 1..(m + n)
      BY <3>1
    <3>4. (s \o t)[i + 1] = IF i + 1 <= m THEN s[i + 1] ELSE t[i + 1 - m]
      BY <1>2, <3>3
    <3>5. (u \o t)[i] = IF i <= Len(u) THEN u[i] ELSE t[i - Len(u)]
      BY <1>5, <3>1
    <3>6. i <= Len(u) => u[i] = s[i + 1]
      BY <1>1, <3>1
    <3> HIDE DEF u, m, n
    <3>7. (u \o t)[i] = (s \o t)[i + 1]
      <4>1. CASE i + 1 <= m
        <5>1. i <= Len(u)
          BY <4>1, <3>1
        <5> QED
          BY <4>1, <5>1, <3>4, <3>5, <3>6
      <4>2. CASE ~(i + 1 <= m)
        <5>1. ~(i <= Len(u)) /\ i - Len(u) = i + 1 - m
          BY <4>2, <3>1
        <5> QED
          BY <4>2, <5>1, <3>4, <3>5
      <4> QED
        BY <4>1, <4>2
    <3> QED
      BY <3>2, <3>7 DEF u
  <2> QED
    BY <2>1, <2>2, <1>4, <1>5, SeqEqual
<1>7. Head(s \o t) = Head(s)
  <2>1. (s \o t)[1] = s[1]
    BY <1>1, <1>2
  <2> QED
    BY <2>1, <1>2, <1>3
<1> QED
  BY <1>3, <1>6, <1>7

(* A sequence is its head and its tail. *)
LEMMA HeadAndTail ==
  ASSUME NEW S, NEW s \in Seq(S), s # <<>>
  PROVE  /\ Head(s) \in S /\ Tail(s) \in Seq(S)
         /\ ToSet(s) = {Head(s)} \cup ToSet(Tail(s))
         /\ DOMAIN Tail(s) = 1..(Len(s) - 1) /\ Len(s) \in Nat \ {0}
         /\ DOMAIN s = 1..Len(s)
         /\ \A i \in DOMAIN Tail(s) : Tail(s)[i] = s[i + 1]
<1>1. /\ Len(s) \in Nat \ {0} /\ DOMAIN s = 1..Len(s) /\ Head(s) \in S
      /\ Tail(s) \in Seq(S) /\ Len(Tail(s)) = Len(s) - 1
      /\ \A i \in 1..Len(Tail(s)) : Tail(s)[i] = s[i + 1]
  BY HeadTailProperties, EmptySeq, LenProperties
<1>2. DOMAIN Tail(s) = 1..(Len(s) - 1)
  BY <1>1, LenProperties
<1>3. Head(s) = s[1]
  OBVIOUS
<1>4. ASSUME NEW x \in ToSet(s)
      PROVE  x \in {Head(s)} \cup ToSet(Tail(s))
  <2>1. PICK i \in DOMAIN s : x = s[i]
    BY DEF ToSet
  <2>2. CASE i = 1
    BY <2>1, <2>2, <1>3
  <2>3. CASE i # 1
    <3>1. i - 1 \in DOMAIN Tail(s) /\ i - 1 \in 1..Len(Tail(s)) /\ (i - 1) + 1 = i
      BY <2>3, <1>1, <1>2
    <3>2. Tail(s)[i - 1] = x
      BY <3>1, <2>1, <1>1
    <3> QED
      BY <3>1, <3>2 DEF ToSet
  <2> QED
    BY <2>2, <2>3
<1>5. ASSUME NEW x \in {Head(s)} \cup ToSet(Tail(s))
      PROVE  x \in ToSet(s)
  <2>1. CASE x = Head(s)
    BY <2>1, <1>1, <1>3 DEF ToSet
  <2>2. CASE x \in ToSet(Tail(s))
    <3>1. PICK i \in DOMAIN Tail(s) : x = Tail(s)[i]
      BY <2>2 DEF ToSet
    <3>2. i + 1 \in DOMAIN s /\ x = s[i + 1]
      BY <3>1, <1>1, <1>2
    <3> QED
      BY <3>2 DEF ToSet
  <2> QED
    BY <2>1, <2>2
<1>6. ToSet(s) = {Head(s)} \cup ToSet(Tail(s))
  BY <1>4, <1>5
<1>7. \A i \in DOMAIN Tail(s) : Tail(s)[i] = s[i + 1]
  BY <1>1, <1>2
<1> QED
  BY <1>1, <1>2, <1>6, <1>7

(* The members of a sequence are finitely many, and of its element type.    *)
LEMMA MembersFinite ==
  ASSUME NEW S, NEW s \in Seq(S)
  PROVE  /\ IsFiniteSet(ToSet(s)) /\ IsFiniteSet(DOMAIN s)
         /\ ToSet(s) \subseteq S
         /\ DOMAIN s = 1..Len(s) /\ Len(s) \in Nat
<1>1. s \in [1..Len(s) -> S] /\ DOMAIN s = 1..Len(s) /\ Len(s) \in Nat
  BY LenProperties
<1>2. s \in Surjection(1..Len(s), ToSet(s))
  BY <1>1 DEF Surjection, ToSet
<1>3. IsFiniteSet(1..Len(s))
  BY <1>1, FS_Interval
<1>4. IsFiniteSet(ToSet(s))
  BY <1>2, <1>3, FS_Surjection
<1> QED
  BY <1>1, <1>3, <1>4 DEF ToSet

(* SetToSeq lists each member of a finite set once. *)
LEMMA ListedOnce ==
  ASSUME NEW S, IsFiniteSet(S)
  PROVE  /\ SetToSeq(S) \in Seq(S)
         /\ IsInjective(SetToSeq(S))
         /\ ToSet(SetToSeq(S)) = S
<1> DEFINE n == Cardinality(S)
           f == SetToSeq(S)
<1>1. n \in Nat /\ ExistsBijection(1..n, S)
  BY FS_CardinalityType
<1>2. \E g \in [1..n -> S] : IsInjective(g)
  BY <1>1 DEF ExistsBijection, Bijection, Injection
<1>3. f \in [1..n -> S] /\ IsInjective(f)
  BY <1>2 DEF SetToSeq
<1>4. f \in Injection(1..n, S)
  BY <1>3 DEF Injection
<1>5. IsFiniteSet(1..n) /\ Cardinality(1..n) = n
  BY <1>1, FS_Interval
<1> HIDE DEF f, n
<1>6. f \in Surjection(1..n, S)
  <2>1. n = Cardinality(S)
    BY DEF n
  <2> QED
    BY <1>4, <1>5, <2>1, FS_Injection
<1>7. ToSet(f) = S
  BY <1>6, <1>3 DEF Surjection, ToSet
<1>8. f \in Seq(S)
  BY <1>3, <1>1, SeqDef
<1> QED
  BY <1>3, <1>7, <1>8 DEF f

(* The members of one place after the other. *)
LEMMA SumOfListed ==
  ASSUME NEW S, NEW s \in Seq(S), IsInjective(s), NEW f,
         \A x \in ToSet(s) : f[x] \in Nat
  PROVE  Sum([i \in DOMAIN s |-> f[s[i]]], DOMAIN s) = Sum(f, ToSet(s))
<1> DEFINE U == DOMAIN s
           T == ToSet(s)
           part == [i \in U |-> {s[i]}]
           g == [i \in U |-> f[s[i]]]
<1>1. IsFiniteSet(U) /\ IsFiniteSet(T)
  BY MembersFinite
<1>2. \A k \in T : \E u \in U : k \in part[u]
  BY DEF ToSet
<1>3. \A u \in U : part[u] \subseteq T
  BY DEF ToSet
<1>4. \A u, v \in U : u # v => part[u] \cap part[v] = {}
  BY DEF IsInjective
<1>5. ASSUME NEW u \in U PROVE g[u] = Sum(f, part[u])
  <2>1. s[u] \in T
    BY DEF ToSet
  <2>2. f[s[u]] \in Nat
    BY <2>1
  <2>3. Sum(f, {s[u]}) = f[s[u]]
    BY <2>2, SumSingle
  <2> QED
    BY <2>3
<1> HIDE DEF part, g, U, T
<1>6. \A k \in T : f[k] \in Nat
  BY DEF T
<1>7. \A u \in U : g[u] = Sum(f, part[u])
  BY <1>5
<1>8. Sum(g, U) = Sum(f, T)
  BY <1>1, <1>2, <1>3, <1>4, <1>6, <1>7, SumPartition
<1> QED
  BY <1>8 DEF g, U, T

-----------------------------------------------------------------------------
(* Contracts and pages *)

LEMMA ContractsFinite ==
  /\ IsFiniteSet(ToSet(Vaults)) /\ IsFiniteSet(ToSet(Pairs))
  /\ IsFiniteSet(Contracts)
  /\ Vaults \in Seq(Contracts) /\ Pairs \in Seq(Contracts)
<1>1. IsFiniteSet(ToSet(Vaults)) /\ IsFiniteSet(ToSet(Pairs))
  BY CollectorAssumption, MembersFinite
<1>2. IsFiniteSet(Contracts)
  BY <1>1, FS_Union DEF Contracts
<1>3. ToSet(Vaults) \subseteq Contracts /\ ToSet(Pairs) \subseteq Contracts
  BY DEF Contracts
<1>4. Vaults \in Seq(Contracts) /\ Pairs \in Seq(Contracts)
  BY <1>3, CollectorAssumption, SeqMonotonic
<1> QED
  BY <1>1, <1>2, <1>4

(* A page of a list names some of its members, each once.                   *)
LEMMA PageOfList ==
  ASSUME NEW kind \in {"vault", "pool"}, NEW start \in Nat, NEW limit \in Nat
  PROVE  /\ Page(kind, start, limit) \in Seq(Contracts)
         /\ IsInjective(Page(kind, start, limit))
         /\ ToSet(Page(kind, start, limit)) \subseteq ToSet(Listing[kind])
<1> DEFINE all == Listing[kind]
           last == start + (IF limit < PageLimit THEN limit ELSE PageLimit)
           m == start + 1
           n == IF last < Len(all) THEN last ELSE Len(all)
           p == SubSeq(all, m, n)
<1>1. all \in Seq(Contracts) /\ IsInjective(all)
  BY ContractsFinite, CollectorAssumption DEF Listing
<1>2. PageLimit \in Nat
  BY CollectorAssumption
<1>3. Len(all) \in Nat /\ DOMAIN all = 1..Len(all) /\ all \in [1..Len(all) -> Contracts]
  BY <1>1, LenProperties
<1> HIDE DEF all
<1>4. m \in Int /\ n \in Int /\ m \in 1..(start + 1) /\ n <= Len(all)
  BY <1>2, <1>3
<1>5. p = Page(kind, start, limit)
  BY DEF Page, all
<1> HIDE DEF last, m, n
<1>6. \A i \in m..n : i \in DOMAIN all /\ all[i] \in Contracts
  BY <1>3, <1>4
<1>7. /\ p \in Seq(Contracts)
      /\ Len(p) = IF m <= n THEN n - m + 1 ELSE 0
      /\ \A i \in 1..(n - m + 1) : p[i] = all[m + i - 1]
  BY <1>4, <1>6, SubSeqProperties
<1>8. DOMAIN p = 1..Len(p)
  BY <1>7, LenProperties
<1> HIDE DEF p
<1>9. ASSUME NEW i \in DOMAIN p
      PROVE  m + i - 1 \in DOMAIN all /\ p[i] = all[m + i - 1] /\ i \in Int
  <2>1. i \in 1..(n - m + 1) /\ m + i - 1 \in m..n
    BY <1>4, <1>7, <1>8
  <2> QED
    BY <2>1, <1>6, <1>7
<1>10. IsInjective(p)
  <2>1. ASSUME NEW i \in DOMAIN p, NEW j \in DOMAIN p, p[i] = p[j]
        PROVE  i = j
    <3>1. m + i - 1 = m + j - 1
      BY <2>1, <1>1, <1>9 DEF IsInjective
    <3> QED
      BY <3>1, <1>4, <1>9
  <2> QED
    BY <2>1 DEF IsInjective
<1>11. ToSet(p) \subseteq ToSet(all)
  BY <1>9 DEF ToSet
<1> QED
  BY <1>5, <1>7, <1>10, <1>11 DEF all

LEMMA FirstPages ==
  /\ \A kind \in {"vault", "pool"} :
       /\ FirstPage(kind) \in Seq(Contracts)
       /\ IsInjective(FirstPage(kind))
  /\ ToSet(FirstPage("vault")) \subseteq ToSet(Vaults)
  /\ ToSet(FirstPage("pool")) \subseteq ToSet(Pairs)
  /\ ListedContracts \subseteq Contracts
<1>1. PageLimit \in Nat /\ 0 \in Nat
  BY CollectorAssumption
<1>2. Listing["vault"] = Vaults /\ Listing["pool"] = Pairs
  BY DEF Listing
<1>3. ASSUME NEW kind \in {"vault", "pool"}
      PROVE  /\ FirstPage(kind) \in Seq(Contracts)
             /\ IsInjective(FirstPage(kind))
             /\ ToSet(FirstPage(kind)) \subseteq ToSet(Listing[kind])
  BY <1>1, PageOfList DEF FirstPage
<1>4. ListedContracts \subseteq Contracts
  BY <1>2, <1>3 DEF ListedContracts, Contracts
<1> QED
  BY <1>2, <1>3, <1>4

-----------------------------------------------------------------------------
(* The messages of a transaction *)

CollectMessages == [msg : {"collect_protocol_fees"}, of : Contracts]
SwapMessages == [msg : {"swap"}, offer : Assets, amount : Nat, ask : Assets]
EpochMessages ==
  [msg : {"collect_fees"}, of : {"vault", "pool"}]
    \cup [msg : {"aggregate_fees"}, of : {"vault", "pool"}, ask : Assets]
    \cup [msg : {"reply"}]
Messages == CollectMessages \cup SwapMessages \cup EpochMessages

(* What is still to be done when the vaults, when the vaults and the pools  *)
(* have been collected from, and when the fees of the vaults, when those of *)
(* both have been sold.                                                     *)
AfterVaults(ask) ==
  <<[msg |-> "collect_fees", of |-> "pool"],
    [msg |-> "aggregate_fees", of |-> "vault", ask |-> ask],
    [msg |-> "aggregate_fees", of |-> "pool", ask |-> ask],
    [msg |-> "reply"]>>
AfterPools(ask) ==
  <<[msg |-> "aggregate_fees", of |-> "vault", ask |-> ask],
    [msg |-> "aggregate_fees", of |-> "pool", ask |-> ask],
    [msg |-> "reply"]>>
AfterVaultSales(ask) ==
  <<[msg |-> "aggregate_fees", of |-> "pool", ask |-> ask],
    [msg |-> "reply"]>>
AfterPoolSales == <<[msg |-> "reply"]>>

LEMMA EpochTasks ==
  ASSUME NEW ask \in Assets
  PROVE  /\ ForwardMessages(ask) \in Seq(Messages)
         /\ ForwardMessages(ask) # <<>>
         /\ Head(ForwardMessages(ask)) = [msg |-> "collect_fees", of |-> "vault"]
         /\ Tail(ForwardMessages(ask)) = AfterVaults(ask)
         /\ AfterVaults(ask) \in Seq(Messages) /\ AfterVaults(ask) # <<>>
         /\ Head(AfterVaults(ask)) = [msg |-> "collect_fees", of |-> "pool"]
         /\ Tail(AfterVaults(ask)) = AfterPools(ask)
         /\ AfterPools(ask) \in Seq(Messages) /\ AfterPools(ask) # <<>>
         /\ Head(AfterPools(ask))
              = [msg |-> "aggregate_fees", of |-> "vault", ask |-> ask]
         /\ Tail(AfterPools(ask)) = AfterVaultSales(ask)
         /\ AfterVaultSales(ask) \in Seq(Messages) /\ AfterVaultSales(ask) # <<>>
         /\ Head(AfterVaultSales(ask))
              = [msg |-> "aggregate_fees", of |-> "pool", ask |-> ask]
         /\ Tail(AfterVaultSales(ask)) = AfterPoolSales
         /\ AfterPoolSales \in Seq(Messages) /\ AfterPoolSales # <<>>
         /\ Head(AfterPoolSales) = [msg |-> "reply"]
         /\ Tail(AfterPoolSales) = <<>>
<1> DEFINE m1 == [msg |-> "collect_fees", of |-> "vault"]
           m2 == [msg |-> "collect_fees", of |-> "pool"]
           m3 == [msg |-> "aggregate_fees", of |-> "vault", ask |-> ask]
           m4 == [msg |-> "aggregate_fees", of |-> "pool", ask |-> ask]
           m5 == [msg |-> "reply"]
<1>1. m1 \in Messages /\ m2 \in Messages /\ m3 \in Messages /\ m4 \in Messages
        /\ m5 \in Messages
  BY DEF Messages, EpochMessages
<1>2. /\ ForwardMessages(ask) = <<m1, m2, m3, m4, m5>>
      /\ AfterVaults(ask) = <<m2, m3, m4, m5>>
      /\ AfterPools(ask) = <<m3, m4, m5>>
      /\ AfterVaultSales(ask) = <<m4, m5>>
      /\ AfterPoolSales = <<m5>>
  BY DEF ForwardMessages, AfterVaults, AfterPools, AfterVaultSales, AfterPoolSales
<1> HIDE DEF m1, m2, m3, m4, m5
<1>3. /\ ForwardMessages(ask) \in Seq(Messages)
      /\ ForwardMessages(ask) # <<>>
      /\ Head(ForwardMessages(ask)) = m1
      /\ Tail(ForwardMessages(ask)) = AfterVaults(ask)
  BY <1>1, <1>2
<1>4. /\ AfterVaults(ask) \in Seq(Messages) /\ AfterVaults(ask) # <<>>
      /\ Head(AfterVaults(ask)) = m2
      /\ Tail(AfterVaults(ask)) = AfterPools(ask)
  BY <1>1, <1>2
<1>5. /\ AfterPools(ask) \in Seq(Messages) /\ AfterPools(ask) # <<>>
      /\ Head(AfterPools(ask)) = m3
      /\ Tail(AfterPools(ask)) = AfterVaultSales(ask)
  BY <1>1, <1>2
<1>6. /\ AfterVaultSales(ask) \in Seq(Messages) /\ AfterVaultSales(ask) # <<>>
      /\ Head(AfterVaultSales(ask)) = m4
      /\ Tail(AfterVaultSales(ask)) = AfterPoolSales
  BY <1>1, <1>2
<1>7. /\ AfterPoolSales \in Seq(Messages) /\ AfterPoolSales # <<>>
      /\ Head(AfterPoolSales) = m5
      /\ Tail(AfterPoolSales) = <<>>
  BY <1>1, <1>2
<1> QED
  BY <1>3, <1>4, <1>5, <1>6, <1>7 DEF m1, m2, m3, m4, m5

(* The messages that collect from contracts, one by one.                    *)
LEMMA CollectTasks ==
  ASSUME NEW cs \in Seq(Contracts)
  PROVE  /\ CollectFrom(cs) \in Seq(Messages)
         /\ (CollectFrom(cs) = <<>>) = (cs = <<>>)
         /\ cs # <<>> =>
              /\ Head(CollectFrom(cs))
                   = [msg |-> "collect_protocol_fees", of |-> Head(cs)]
              /\ Tail(CollectFrom(cs)) = CollectFrom(Tail(cs))
<1> DEFINE m(c) == [msg |-> "collect_protocol_fees", of |-> c]
           n == Len(cs)
<1>1. n \in Nat /\ DOMAIN cs = 1..n /\ cs \in [1..n -> Contracts]
  BY LenProperties
<1>2. \A c \in Contracts : m(c) \in Messages
  BY DEF Messages, CollectMessages
<1>3. CollectFrom(cs) = [i \in 1..n |-> m(cs[i])]
  BY <1>1 DEF CollectFrom
<1>4. cs = <<>> <=> n = 0
  BY EmptySeq, SeqEqual
<1> HIDE DEF m
<1>5. CollectFrom(cs) \in [1..n -> Messages]
  BY <1>1, <1>2, <1>3
<1> HIDE DEF n
<1>6. CollectFrom(cs) \in Seq(Messages)
  BY <1>1, <1>5, SeqDef
<1>7. Len(CollectFrom(cs)) = n /\ DOMAIN CollectFrom(cs) = 1..n
  <2>1. DOMAIN CollectFrom(cs) = 1..n
    BY <1>5
  <2>2. Len(CollectFrom(cs)) \in Nat /\ DOMAIN CollectFrom(cs) = 1..Len(CollectFrom(cs))
    BY <1>6, LenProperties
  <2> QED
    BY <2>1, <2>2, <1>1
<1>8. CollectFrom(cs) = <<>> <=> n = 0
  <2>1. CollectFrom(cs) = <<>> => n = 0
    BY <1>7, EmptySeq
  <2>2. n = 0 => CollectFrom(cs) = <<>>
    BY <1>6, <1>7, EmptySeq
  <2> QED
    BY <2>1, <2>2
<1>9. ASSUME cs # <<>>
      PROVE  /\ Head(CollectFrom(cs)) = m(Head(cs))
             /\ Tail(CollectFrom(cs)) = CollectFrom(Tail(cs))
  <2>1. n \in Nat \ {0} /\ CollectFrom(cs) # <<>>
    BY <1>9, <1>4, <1>8, <1>1
  <2>2. Head(CollectFrom(cs)) = CollectFrom(cs)[1] /\ Head(cs) = cs[1]
    OBVIOUS
  <2>3. CollectFrom(cs)[1] = m(cs[1])
    BY <2>1, <1>3
  <2>4. /\ Tail(cs) \in Seq(Contracts) /\ DOMAIN Tail(cs) = 1..(n - 1)
        /\ \A i \in 1..(n - 1) : Tail(cs)[i] = cs[i + 1]
    BY <1>9, HeadAndTail DEF n
  <2>5. CollectFrom(Tail(cs)) = [i \in 1..(n - 1) |-> m(cs[i + 1])]
    BY <2>4 DEF CollectFrom, m
  <2>6. /\ Tail(CollectFrom(cs)) \in Seq(Messages)
        /\ DOMAIN Tail(CollectFrom(cs)) = 1..(n - 1)
        /\ \A i \in 1..(n - 1) : Tail(CollectFrom(cs))[i] = CollectFrom(cs)[i + 1]
    BY <1>6, <1>7, <2>1, HeadAndTail
  <2>7. Tail(CollectFrom(cs)) = [i \in 1..(n - 1) |-> Tail(CollectFrom(cs))[i]]
    <3> DEFINE t == Tail(CollectFrom(cs))
    <3>1. t \in [1..Len(t) -> Messages] /\ DOMAIN t = 1..(n - 1)
      BY <2>6, LenProperties
    <3> HIDE DEF t
    <3>2. t = [i \in 1..(n - 1) |-> t[i]]
      BY <3>1
    <3> QED
      BY <3>2 DEF t
  <2>8. \A i \in 1..(n - 1) : CollectFrom(cs)[i + 1] = m(cs[i + 1])
    <3>1. \A i \in 1..(n - 1) : i + 1 \in 1..n
      BY <2>1
    <3> QED
      BY <3>1, <1>3
  <2>9. [i \in 1..(n - 1) |-> Tail(CollectFrom(cs))[i]] = [i \in 1..(n - 1) |-> m(cs[i + 1])]
    BY <2>6, <2>8
  <2> QED
    BY <2>2, <2>3, <2>5, <2>7, <2>9
<1> QED
  BY <1>4, <1>6, <1>8, <1>9 DEF m

-----------------------------------------------------------------------------
(* What a call has done so far, compared with b, what it started from       *)

(* What is left in the contracts, and what the collector has, when those of *)
(* C have paid.                                                             *)
FeesOf(b, a) == [c \in Contracts |-> b.owed[c][a]]
LeftIn(b, C) ==
  [c \in Contracts |-> IF c \in C THEN [a \in Assets |-> 0] ELSE b.owed[c]]
GatheredIn(b, C) == [a \in Assets |-> b.held[a] + Sum(FeesOf(b, a), C)]

Collected(b, C) ==
  /\ owed = LeftIn(b, C)
  /\ held = GatheredIn(b, C)
  /\ forwarded = b.forwarded

(* Those of C have paid, and of the rest some has been sold for ask.        *)
Sold(b, C, ask) ==
  /\ forwarded = b.forwarded
  /\ \A c \in Contracts, a \in Assets :
       IF c \in ToSet(Vaults) THEN owed[c][a] = LeftIn(b, C)[c][a]
                              ELSE owed[c][a] >= LeftIn(b, C)[c][a]
  /\ held[ask] >= GatheredIn(b, C)[ask]
  /\ \A a \in Assets \ {ask} :
       held[a] = GatheredIn(b, C)[a] \/ (a \in Sellable(ask) /\ held[a] = 0)

(* The swaps still to be made are of different assets, each of all of it.   *)
Queue(ask, sw) ==
  \A i \in DOMAIN sw :
    /\ sw[i].ask = ask /\ sw[i].offer \in Sellable(ask)
    /\ sw[i].amount = held[sw[i].offer]
    /\ \A j \in DOMAIN sw : sw[j].offer = sw[i].offer => j = i

(* Nothing that is sure to be sold is left, but what is queued and what is  *)
(* still to be looked at.                                                   *)
ToBeSold(ask, sw, still) ==
  \A a \in SureToSell(ask) :
    held[a] = 0 \/ a \in still \/ \E i \in DOMAIN sw : sw[i].offer = a

InCollection(b, rest, all) ==
  \E C \in SUBSET Contracts, cs \in Seq(Contracts) :
    /\ tasks = CollectFrom(cs) \o rest
    /\ C \cup ToSet(cs) = all
    /\ Collected(b, C)

InSale(b, C, ask, rest, still) ==
  \E sw \in Seq(SwapMessages) :
    /\ tasks = sw \o rest
    /\ Sold(b, C, ask) /\ Queue(ask, sw) /\ ToBeSold(ask, sw, still)

(* The assets of the pools an epoch collects from. *)
PoolAssets == {a \in Assets : \E c \in ToSet(FirstPage("pool")) : a \in ToSet(AssetsOf[c])}

(* How far the forwarding for an epoch has come.                            *)
InForwarding(b, ask) ==
  \/ tasks = ForwardMessages(ask) /\ Collected(b, {})
  \/ InCollection(b, AfterVaults(ask), ToSet(FirstPage("vault")))
  \/ InCollection(b, AfterPools(ask), ListedContracts)
  \/ InSale(b, ListedContracts, ask, AfterVaultSales(ask), PoolAssets)
  \/ InSale(b, ListedContracts, ask, AfterPoolSales, {})

(* A call collects, sells or forwards.                                      *)
Phase(b) ==
  \/ \E all \in SUBSET Contracts : InCollection(b, <<>>, all)
  \/ \E ask \in Assets : InSale(b, {}, ask, <<>>, Assets)
  \/ \E ask \in Assets : tmp_epoch.asset = ask /\ InForwarding(b, ask)

CallInv ==
  tasks # <<>> =>
    \E b \in Snapshots : before = b /\ b.earned <= MaxEarned /\ Phase(b)

IInv == TypeOK /\ CallInv

-----------------------------------------------------------------------------
(* Fees collected *)

LEMMA FeesNat ==
  ASSUME NEW b \in Snapshots, NEW C \in SUBSET Contracts
  PROVE  /\ IsFiniteSet(C)
         /\ \A a \in Assets : \A c \in C : FeesOf(b, a)[c] \in Nat
         /\ LeftIn(b, C) \in [Contracts -> [Assets -> Nat]]
         /\ GatheredIn(b, C) \in [Assets -> Nat]
<1>1. IsFiniteSet(C)
  BY ContractsFinite, FS_Subset
<1>2. b.owed \in [Contracts -> [Assets -> Nat]] /\ b.held \in [Assets -> Nat]
  BY DEF Snapshots
<1>3. \A a \in Assets : \A c \in C : FeesOf(b, a)[c] \in Nat
  BY <1>2 DEF FeesOf
<1>4. LeftIn(b, C) \in [Contracts -> [Assets -> Nat]]
  BY <1>2 DEF LeftIn
<1>5. ASSUME NEW a \in Assets
      PROVE  b.held[a] + Sum(FeesOf(b, a), C) \in Nat
  <2>1. Sum(FeesOf(b, a), C) \in Nat
    BY <1>1, <1>3, SumNat
  <2> QED
    BY <2>1, <1>2
<1>6. GatheredIn(b, C) \in [Assets -> Nat]
  BY <1>5 DEF GatheredIn
<1> QED
  BY <1>1, <1>3, <1>4, <1>6

LEMMA NothingCollected ==
  ASSUME NEW b \in Snapshots
  PROVE  LeftIn(b, {}) = b.owed /\ GatheredIn(b, {}) = b.held
<1>1. b.owed \in [Contracts -> [Assets -> Nat]] /\ b.held \in [Assets -> Nat]
  BY DEF Snapshots
<1>2. LeftIn(b, {}) = b.owed
  BY <1>1 DEF LeftIn
<1>3. \A a \in Assets : b.held[a] + Sum(FeesOf(b, a), {}) = b.held[a]
  BY <1>1, SumEmpty
<1>4. GatheredIn(b, {}) = b.held
  BY <1>1, <1>3 DEF GatheredIn
<1> QED
  BY <1>2, <1>4

LEMMA OneMoreCollected ==
  ASSUME NEW b \in Snapshots, NEW C \in SUBSET Contracts, NEW c \in Contracts
  PROVE  /\ LeftIn(b, C \cup {c}) = [LeftIn(b, C) EXCEPT ![c] = [a \in Assets |-> 0]]
         /\ GatheredIn(b, C \cup {c})
              = [a \in Assets |-> GatheredIn(b, C)[a] + LeftIn(b, C)[c][a]]
<1>1. LeftIn(b, C \cup {c}) = [LeftIn(b, C) EXCEPT ![c] = [a \in Assets |-> 0]]
  BY DEF LeftIn
<1>2. ASSUME NEW a \in Assets
      PROVE  b.held[a] + Sum(FeesOf(b, a), C \cup {c})
               = b.held[a] + Sum(FeesOf(b, a), C) + LeftIn(b, C)[c][a]
  <2> DEFINE f == FeesOf(b, a)
  <2>1. IsFiniteSet(C) /\ \A d \in C \cup {c} : f[d] \in Nat
    BY FeesNat, C \cup {c} \in SUBSET Contracts
  <2>2. b.owed \in [Contracts -> [Assets -> Nat]] /\ b.held \in [Assets -> Nat]
    BY DEF Snapshots
  <2>3. f[c] = b.owed[c][a]
    BY DEF FeesOf
  <2> HIDE DEF f
  <2>4. Sum(f, C) \in Nat
    BY <2>1, SumNat
  <2>5. CASE c \in C
    <3>1. C \cup {c} = C
      BY <2>5
    <3>2. LeftIn(b, C)[c][a] = 0
      BY <2>5 DEF LeftIn
    <3>3. Sum(f, C \cup {c}) = Sum(f, C)
      BY <3>1
    <3> QED
      BY <3>2, <3>3, <2>2, <2>4 DEF f
  <2>6. CASE c \notin C
    <3>1. LeftIn(b, C)[c][a] = f[c]
      BY <2>6, <2>3 DEF LeftIn
    <3>2. Sum(f, {c}) = f[c]
      BY <2>1, SumSingle
    <3>3. IsFiniteSet({c}) /\ C \cap {c} = {}
      BY <2>6, FS_Singleton
    <3>4. Sum(f, C \cup {c}) = Sum(f, C) + Sum(f, {c})
      BY <2>1, <3>3, SumDisjoint
    <3> QED
      BY <3>1, <3>2, <3>4, <2>1, <2>2, <2>4 DEF f
  <2> QED
    BY <2>5, <2>6
<1>3. ASSUME NEW a \in Assets
      PROVE  GatheredIn(b, C \cup {c})[a] = GatheredIn(b, C)[a] + LeftIn(b, C)[c][a]
  BY <1>2 DEF GatheredIn
<1>4. GatheredIn(b, C \cup {c})
        = [a \in Assets |-> GatheredIn(b, C)[a] + LeftIn(b, C)[c][a]]
  <2>1. GatheredIn(b, C \cup {c}) = [a \in Assets |-> GatheredIn(b, C \cup {c})[a]]
    BY DEF GatheredIn
  <2> QED
    BY <2>1, <1>3
<1> QED
  BY <1>1, <1>4

(* A message of the collection, and what is left to be done after it.       *)
LEMMA CollectionHead ==
  ASSUME NEW cs \in Seq(Contracts), NEW rest \in Seq(Messages),
         tasks = CollectFrom(cs) \o rest
  PROVE  /\ cs = <<>> => tasks = rest
         /\ cs # <<>> =>
              /\ tasks # <<>>
              /\ Head(tasks) = [msg |-> "collect_protocol_fees", of |-> Head(cs)]
              /\ Tail(tasks) = CollectFrom(Tail(cs)) \o rest
<1>1. CollectFrom(cs) \in Seq(Messages) /\ (CollectFrom(cs) = <<>>) = (cs = <<>>)
  BY CollectTasks
<1>2. cs = <<>> => tasks = rest
  BY <1>1, ConcatEmptySeq
<1>3. ASSUME cs # <<>>
      PROVE  /\ tasks # <<>>
             /\ Head(tasks) = [msg |-> "collect_protocol_fees", of |-> Head(cs)]
             /\ Tail(tasks) = CollectFrom(Tail(cs)) \o rest
  <2>1. CollectFrom(cs) # <<>>
    BY <1>1, <1>3
  <2>2. /\ Head(CollectFrom(cs)) = [msg |-> "collect_protocol_fees", of |-> Head(cs)]
        /\ Tail(CollectFrom(cs)) = CollectFrom(Tail(cs))
    BY <1>3, CollectTasks
  <2>3. CollectFrom(cs) \in Seq(Messages)
    BY <1>1
  <2>4. /\ CollectFrom(cs) \o rest # <<>>
        /\ Head(CollectFrom(cs) \o rest) = Head(CollectFrom(cs))
        /\ Tail(CollectFrom(cs) \o rest) = Tail(CollectFrom(cs)) \o rest
    BY <2>1, <2>3, FrontFirst
  <2> QED
    BY <2>2, <2>4
<1> QED
  BY <1>2, <1>3

(* CollectProtocolFees goes on with the collection.                         *)
LEMMA CollectionGoesOn ==
  ASSUME TypeOK, CollectProtocolFees,
         NEW b \in Snapshots, NEW all, NEW rest \in Seq(Messages),
         rest # <<>> => Head(rest).msg # "collect_protocol_fees",
         InCollection(b, rest, all)
  PROVE  InCollection(b, rest, all)'
<1>1. PICK C \in SUBSET Contracts, cs \in Seq(Contracts) :
        /\ tasks = CollectFrom(cs) \o rest
        /\ C \cup ToSet(cs) = all
        /\ Collected(b, C)
  BY DEF InCollection
<1>2. tasks # <<>> /\ Head(tasks).msg = "collect_protocol_fees"
  BY DEF CollectProtocolFees, Message
<1>3. cs # <<>>
  BY <1>1, <1>2, CollectionHead
<1>4. PICK c : c = Head(cs)
  OBVIOUS
<1>5. /\ c \in Contracts /\ Tail(cs) \in Seq(Contracts)
      /\ ToSet(cs) = {c} \cup ToSet(Tail(cs))
  BY <1>3, <1>4, HeadAndTail
<1>6. /\ Head(tasks) = [msg |-> "collect_protocol_fees", of |-> c]
      /\ Tail(tasks) = CollectFrom(Tail(cs)) \o rest
  BY <1>1, <1>3, <1>4, CollectionHead
<1>7. Head(tasks).of = c
  BY <1>6
<1>8. /\ held' = [a \in Assets |-> held[a] + owed[c][a]]
      /\ owed' = [owed EXCEPT ![c] = [a \in Assets |-> 0]]
      /\ forwarded' = forwarded
  BY <1>7 DEF CollectProtocolFees
<1>9. tasks' = CollectFrom(Tail(cs)) \o rest
  <2>1. tasks' = <<>> \o Tail(tasks)
    BY DEF CollectProtocolFees, Continue
  <2>2. CollectFrom(Tail(cs)) \o rest \in Seq(Messages)
    BY <1>5, CollectTasks, ConcatProperties
  <2> QED
    BY <2>1, <2>2, <1>6, ConcatEmptySeq
<1>10. /\ owed' = LeftIn(b, C \cup {c})
       /\ held' = GatheredIn(b, C \cup {c})
       /\ forwarded' = b.forwarded
  <2>1. /\ owed = LeftIn(b, C) /\ held = GatheredIn(b, C)
        /\ forwarded = b.forwarded
    BY <1>1 DEF Collected
  <2>2. c \in Contracts
    BY <1>5
  <2>3. /\ LeftIn(b, C \cup {c}) = [LeftIn(b, C) EXCEPT ![c] = [a \in Assets |-> 0]]
        /\ GatheredIn(b, C \cup {c})
             = [a \in Assets |-> GatheredIn(b, C)[a] + LeftIn(b, C)[c][a]]
    BY <2>2, OneMoreCollected
  <2> QED
    BY <2>1, <2>3, <1>8
<1>11. (C \cup {c}) \cup ToSet(Tail(cs)) = all /\ C \cup {c} \in SUBSET Contracts
  BY <1>1, <1>5
<1> QED
  BY <1>5, <1>9, <1>10, <1>11 DEF InCollection, Collected

-----------------------------------------------------------------------------
(* The assets of a page, and the swaps for them                             *)

Later(q, p) == q[1] > p[1] \/ (q[1] = p[1] /\ q[2] > p[2])

(* Finitely many places have a last one.                                    *)
LEMMA LastPlace ==
  ASSUME NEW P, IsFiniteSet(P), P # {}, P \subseteq Nat \X Nat
  PROVE  \E p \in P : \A q \in P : ~Later(q, p)
<1> DEFINE after(p) == {q \in P : Later(q, p)}
           T == {after(p) : p \in P}
           R == StrictSubsetOrdering(P)
           F == FiniteSubsetsOf(P)
<1>1. IsWellFoundedOn(R, F)
  BY FS_StrictSubsetOrderingWellFounded
<1>2. \A p \in P : after(p) \in SUBSET P /\ IsFiniteSet(after(p))
  BY FS_Subset
<1>3. T \subseteq F /\ T # {}
  BY <1>2 DEF FiniteSubsetsOf
<1> HIDE DEF R, F, T
<1>4. PICK t \in T : \A u \in T : <<u, t>> \notin R
  BY <1>1, <1>3, WFMin
<1>5. PICK p \in P : t = after(p)
  BY <1>4 DEF T
<1>6. ASSUME NEW q \in after(p)
      PROVE  FALSE
  <2>1. q \in P /\ Later(q, p)
    OBVIOUS
  <2>2. /\ p[1] \in Nat /\ p[2] \in Nat /\ q[1] \in Nat /\ q[2] \in Nat
        /\ \A r \in P : r[1] \in Nat /\ r[2] \in Nat
    BY <2>1
  <2>3. \A r \in P : Later(r, q) => Later(r, p)
    BY <2>1, <2>2 DEF Later
  <2>4. ~Later(q, q)
    BY <2>2 DEF Later
  <2>5. after(q) \subseteq after(p) /\ q \notin after(q)
    BY <2>3, <2>4
  <2>6. after(q) \in T
    BY <2>1 DEF T
  <2>7. <<after(q), t>> \in R
    <3>1. after(q) \in SUBSET P /\ t \in SUBSET P /\ after(q) \subseteq t /\ after(q) # t
      BY <1>5, <2>5
    <3> HIDE DEF after
    <3> QED
      BY <3>1 DEF R, StrictSubsetOrdering
  <2> QED
    BY <1>4, <2>6, <2>7
<1> QED
  BY <1>6

(* A page stores assets, finitely many.  One that shares its label with no  *)
(* other is among those read back.                                          *)
LEMMA InfosOfPage ==
  ASSUME NEW cs \in Seq(Contracts)
  PROVE  /\ AssetInfos(cs) \subseteq Assets
         /\ IsFiniteSet(AssetInfos(cs))
         /\ \A a \in Assets :
              /\ \E c \in ToSet(cs) : a \in ToSet(AssetsOf[c])
              /\ \A b \in Assets \ {a} : Label[b] # Label[a]
              => a \in AssetInfos(cs)
<1> DEFINE n == Len(cs)
           P == Places(cs)
           stored == [p \in P |-> Stored(cs, p)]
<1>1. n \in Nat /\ DOMAIN cs = 1..n /\ \A i \in 1..n : cs[i] \in Contracts
  BY LenProperties, ElementOfSeq
<1>2. ASSUME NEW c \in Contracts
      PROVE  /\ DOMAIN AssetsOf[c] \subseteq 1..2
             /\ \A j \in DOMAIN AssetsOf[c] : AssetsOf[c][j] \in Assets
  <2>1. AssetsOf[c] \in Seq(Assets) /\ (Len(AssetsOf[c]) = 1 \/ Len(AssetsOf[c]) = 2)
    BY CollectorAssumption DEF Contracts
  <2>2. PICK k : k = Len(AssetsOf[c]) /\ (k = 1 \/ k = 2)
    BY <2>1
  <2>3. DOMAIN AssetsOf[c] = 1..k /\ AssetsOf[c] \in [1..k -> Assets]
    BY <2>1, <2>2, LenProperties
  <2>4. 1..k \subseteq 1..2
    <3>1. CASE k = 1
      BY <3>1
    <3>2. CASE k = 2
      BY <3>2
    <3> QED
      BY <2>2, <3>1, <3>2
  <2> QED
    BY <2>3, <2>4
<1>3. \A p \in P : /\ p \in (1..n) \X (1..2) /\ p[2] \in DOMAIN AssetsOf[cs[p[1]]]
                   /\ p[1] \in 1..n
  BY <1>1, <1>2 DEF Places
<1>4. IsFiniteSet(P)
  <2>1. IsFiniteSet(1..n) /\ IsFiniteSet(1..2)
    <3>1. 1 \in Int /\ 2 \in Int /\ n \in Int
      BY <1>1
    <3> HIDE DEF n
    <3>2. \A m \in Int : IsFiniteSet(1..m)
      BY <3>1, FS_Interval
    <3> QED
      BY <3>1, <3>2
  <2>2. IsFiniteSet((1..n) \X (1..2))
    BY <2>1, FS_Product
  <2>3. P \subseteq (1..n) \X (1..2)
    BY <1>3
  <2> QED
    BY <2>2, <2>3, FS_Subset
<1>5. \A p \in P : stored[p] \in Assets /\ stored[p] = Stored(cs, p)
  BY <1>1, <1>2, <1>3 DEF Stored
<1>6. \A a : a \in AssetInfos(cs) <=>
        \E p \in P : /\ a = stored[p]
                     /\ \A q \in P : Later(q, p) => Label[stored[q]] # Label[stored[p]]
  BY DEF AssetInfos, Later
<1> HIDE DEF P, stored
<1>7. AssetInfos(cs) \subseteq Assets
  BY <1>5, <1>6
<1>8. IsFiniteSet(AssetInfos(cs))
  <2> DEFINE I == {stored[p] : p \in P}
  <2>1. stored \in Surjection(P, I)
    BY DEF Surjection, stored
  <2>2. IsFiniteSet(I)
    BY <1>4, <2>1, FS_Surjection
  <2>3. AssetInfos(cs) \subseteq I
    BY <1>6
  <2> QED
    BY <2>2, <2>3, FS_Subset
<1>9. ASSUME NEW a \in Assets,
             \E c \in ToSet(cs) : a \in ToSet(AssetsOf[c]),
             \A b \in Assets \ {a} : Label[b] # Label[a]
      PROVE  a \in AssetInfos(cs)
  <2> DEFINE A == {p \in P : stored[p] = a}
  <2>1. PICK i \in 1..n : \E j \in DOMAIN AssetsOf[cs[i]] : a = AssetsOf[cs[i]][j]
    <3>1. PICK c \in ToSet(cs) : a \in ToSet(AssetsOf[c])
      BY <1>9
    <3>2. PICK i \in DOMAIN cs : c = cs[i]
      BY DEF ToSet
    <3> QED
      BY <1>1, <3>1, <3>2 DEF ToSet
  <2>2. PICK j \in DOMAIN AssetsOf[cs[i]] : a = AssetsOf[cs[i]][j]
    BY <2>1
  <2>9. <<i, j>> \in P /\ stored[<<i, j>>] = a
    BY <1>1, <2>2 DEF P, Places, stored, Stored
  <2>3. A # {} /\ A \in SUBSET P /\ A \subseteq Nat \X Nat
    BY <1>3, <2>9
  <2>4. IsFiniteSet(A)
    BY <1>4, <2>3, FS_Subset
  <2> HIDE DEF A
  <2>5. PICK p \in A : \A q \in A : ~Later(q, p)
    BY <2>3, <2>4, LastPlace
  <2>6. p \in P /\ stored[p] = a /\ \A q \in P : Later(q, p) => stored[q] # a
    BY <2>5 DEF A
  <2>7. \A q \in P : Later(q, p) => Label[stored[q]] # Label[stored[p]]
    BY <1>5, <1>9, <2>6
  <2> QED
    BY <1>6, <2>6, <2>7
<1> QED
  BY <1>7, <1>8, <1>9

(* The swaps of a page: of different assets, that can be sold, each of all  *)
(* of it; and one that shares its label with no other is among them.        *)
LEMMA SwapsOfPage ==
  ASSUME NEW cs \in Seq(Contracts), NEW ask \in Assets, held \in [Assets -> Nat],
         NEW sw, sw = Swaps(cs, ask)
  PROVE  /\ sw \in Seq(SwapMessages)
         /\ Queue(ask, sw)
         /\ \A a \in SureToSell(ask) :
              (\E c \in ToSet(cs) : a \in ToSet(AssetsOf[c]))
                => held[a] = 0 \/ \E i \in DOMAIN sw : sw[i].offer = a
<1> DEFINE O == {a \in AssetInfos(cs) : Swapped(a, ask)}
           offers == SetToSeq(O)
<1>1. IsFiniteSet(O) /\ O \subseteq Assets
  BY InfosOfPage, FS_Subset
<1>2. offers \in Seq(O) /\ IsInjective(offers) /\ ToSet(offers) = O
  BY <1>1, ListedOnce
<1>3. sw = [i \in DOMAIN offers |-> SwapAll(offers[i], ask)]
  BY DEF Swaps
<1>4. \A a \in O : /\ a \in Assets /\ a \in Sellable(ask)
                   /\ SwapAll(a, ask) \in SwapMessages
                   /\ SwapAll(a, ask).offer = a /\ SwapAll(a, ask).ask = ask
                   /\ SwapAll(a, ask).amount = held[a]
  BY <1>1 DEF Swapped, Sellable, SwapAll, SwapMessages
<1> DEFINE n == Len(offers)
<1>5. n \in Nat /\ DOMAIN offers = 1..n /\ \A i \in 1..n : offers[i] \in O
  BY <1>2, LenProperties, ElementOfSeq
<1>6. ASSUME NEW a \in SureToSell(ask), NEW c \in ToSet(cs), a \in ToSet(AssetsOf[c]),
             held[a] # 0
      PROVE  a \in O
  <2>1. /\ a \in Assets /\ a # ask /\ Routed(a, ask)
        /\ \A b \in Assets \ {a} : Label[b] # Label[a]
    BY DEF SureToSell, Sellable
  <2>2. a \in AssetInfos(cs)
    BY <2>1, <1>6, InfosOfPage
  <2>3. held[a] > 0
    BY <2>1, <1>6
  <2> QED
    BY <2>1, <2>2, <2>3 DEF Swapped
<1> HIDE DEF O, offers, n
<1>7. sw \in Seq(SwapMessages) /\ DOMAIN sw = 1..n
  <2>1. sw \in [1..n -> SwapMessages]
    BY <1>3, <1>4, <1>5
  <2> QED
    BY <1>5, <2>1, SeqDef
<1>8. \A i \in DOMAIN sw : sw[i] = SwapAll(offers[i], ask) /\ offers[i] \in O
  BY <1>3, <1>5, <1>7
<1>9. Queue(ask, sw)
  <2>1. ASSUME NEW i \in DOMAIN sw
        PROVE  /\ sw[i].ask = ask /\ sw[i].offer \in Sellable(ask)
               /\ sw[i].amount = held[sw[i].offer]
               /\ sw[i].offer = offers[i]
    BY <1>4, <1>8
  <2>2. \A i, j \in DOMAIN sw : sw[j].offer = sw[i].offer => j = i
    BY <1>2, <1>5, <1>7, <2>1 DEF IsInjective
  <2> QED
    BY <2>1, <2>2 DEF Queue
<1>10. ASSUME NEW a \in O
       PROVE  \E i \in DOMAIN sw : sw[i].offer = a
  <2>1. PICK i \in DOMAIN offers : offers[i] = a
    BY <1>2 DEF ToSet
  <2> QED
    BY <1>4, <1>5, <1>7, <1>8, <2>1
<1> QED
  BY <1>6, <1>7, <1>9, <1>10

(* What a swap does to the balances and to the fees.                        *)
LEMMA SwapEffect ==
  ASSUME TypeOK, Swap, NEW ask \in Assets, NEW t \in SwapMessages,
         t = Head(tasks), t.ask = ask, t.offer # ask, t.amount = held[t.offer]
  PROVE  /\ held' \in [Assets -> Nat] /\ held'[t.offer] = 0
         /\ held'[ask] >= held[ask]
         /\ \A a \in Assets \ {ask, t.offer} : held'[a] = held[a]
         /\ owed' \in [Contracts -> [Assets -> Nat]]
         /\ \A c \in Contracts, a \in Assets :
              IF c \in ToSet(Vaults) THEN owed'[c][a] = owed[c][a]
                                     ELSE owed'[c][a] >= owed[c][a]
         /\ earned' <= MaxEarned /\ earned' \in Nat
         /\ UNCHANGED <<forwarded, tmp_epoch, coll_config>>
<1>1. /\ held \in [Assets -> Nat] /\ owed \in [Contracts -> [Assets -> Nat]]
      /\ t.offer \in Assets /\ t.amount \in Nat
  BY DEF TypeOK, SwapMessages
<1>2. PICK returned \in 0..t.amount :
        held' = [held EXCEPT ![t.offer] = @ - t.amount, ![ask] = @ + returned]
  BY DEF Swap
<1>3. held'[t.offer] = 0 /\ held'[ask] = held[ask] + returned /\ returned \in Nat
        /\ \A a \in Assets \ {ask, t.offer} : held'[a] = held[a]
  BY <1>1, <1>2
<1>4. held' \in [Assets -> Nat]
  <2>1. DOMAIN held' = Assets /\ held' = [a \in Assets |-> held'[a]]
    BY <1>1, <1>2
  <2>2. \A a \in Assets : held'[a] \in Nat
    BY <1>1, <1>3
  <2> QED
    BY <2>1, <2>2
<1>5. PICK through \in SUBSET ToSet(Pairs) :
        /\ earned + Cardinality(through) <= MaxEarned
        /\ earned' = earned + Cardinality(through)
        /\ \E fee_in \in [through -> {1, 2}] :
             owed' = [c \in Contracts |->
                        IF c \in through
                        THEN [owed[c] EXCEPT ![AssetsOf[c][fee_in[c]]] = @ + 1]
                        ELSE owed[c]]
  BY DEF Swap
<1>6. PICK fee_in \in [through -> {1, 2}] :
        owed' = [c \in Contracts |->
                   IF c \in through
                   THEN [owed[c] EXCEPT ![AssetsOf[c][fee_in[c]]] = @ + 1]
                   ELSE owed[c]]
  BY <1>5
<1>7. ASSUME NEW c \in Contracts
      PROVE  /\ owed'[c] \in [Assets -> Nat]
             /\ \A a \in Assets : owed'[c][a] >= owed[c][a]
             /\ c \in ToSet(Vaults) => owed'[c] = owed[c]
  <2>1. CASE c \in through
    <3>1. PICK a : a = AssetsOf[c][fee_in[c]]
      OBVIOUS
    <3>2. owed'[c] = [owed[c] EXCEPT ![a] = @ + 1]
      BY <1>6, <2>1, <3>1
    <3>3. owed[c] \in [Assets -> Nat]
      BY <1>1
    <3>4. owed'[c] \in [Assets -> Nat] /\ \A x \in Assets : owed'[c][x] >= owed[c][x]
      <4>0. PICK g \in [Assets -> Nat] : g = owed[c]
        BY <3>3
      <4>1. PICK h : g = owed[c] /\ h = [g EXCEPT ![a] = @ + 1]
        BY <4>0
      <4>2. h = [x \in Assets |-> IF x = a THEN g[x] + 1 ELSE g[x]]
        BY <4>1
      <4>3. ASSUME NEW x \in Assets PROVE h[x] \in Nat /\ h[x] >= g[x]
        <5>1. PICK n \in Nat : g[x] = n
          BY <4>1
        <5>2. h[x] = n \/ h[x] = n + 1
          BY <4>2, <5>1
        <5> QED
          BY <5>1, <5>2
      <4>4. h \in [Assets -> Nat]
        BY <4>2, <4>3
      <4> QED
        BY <3>2, <4>1, <4>3, <4>4
    <3>5. c \notin ToSet(Vaults)
      BY <2>1, CollectorAssumption
    <3> QED
      BY <3>4, <3>5
  <2>2. CASE c \notin through
    BY <1>1, <1>6, <2>2
  <2> QED
    BY <2>1, <2>2
<1>8. owed' \in [Contracts -> [Assets -> Nat]]
  <2>1. owed' = [c \in Contracts |-> owed'[c]]
    BY <1>6
  <2> QED
    BY <2>1, <1>7
<1>9. earned' \in Nat /\ earned' <= MaxEarned
  <2>1. IsFiniteSet(through)
    BY ContractsFinite, FS_Subset
  <2>2. Cardinality(through) \in Nat
    BY <2>1, FS_CardinalityType
  <2> QED
    BY <1>5, <2>2 DEF TypeOK
<1>10. held'[ask] >= held[ask]
  <2>1. held[ask] \in Nat
    BY <1>1
  <2> QED
    BY <1>3, <2>1
<1>11. UNCHANGED <<forwarded, tmp_epoch, coll_config>>
  BY DEF Swap
<1> QED
  BY <1>3, <1>4, <1>7, <1>8, <1>9, <1>10, <1>11

(* A message of the sale, and what is left to be done after it.             *)
LEMMA SaleHead ==
  ASSUME NEW sw \in Seq(SwapMessages), NEW rest \in Seq(Messages),
         tasks = sw \o rest
  PROVE  /\ sw = <<>> => tasks = rest
         /\ sw # <<>> =>
              /\ tasks # <<>>
              /\ Head(tasks) = Head(sw) /\ Head(tasks) \in SwapMessages
              /\ Tail(tasks) = Tail(sw) \o rest
<1>1. SwapMessages \subseteq Messages
  BY DEF Messages
<1>2. sw \in Seq(Messages)
  BY <1>1, SeqMonotonic
<1>3. sw = <<>> => tasks = rest
  BY ConcatEmptySeq
<1>4. ASSUME sw # <<>>
      PROVE  /\ tasks # <<>> /\ Head(tasks) = Head(sw)
             /\ Tail(tasks) = Tail(sw) \o rest
  <2>1. /\ sw \o rest # <<>> /\ Head(sw \o rest) = Head(sw)
        /\ Tail(sw \o rest) = Tail(sw) \o rest
    BY <1>2, <1>4, FrontFirst
  <2> QED
    BY <2>1
<1>5. sw # <<>> => Head(sw) \in SwapMessages
  BY HeadAndTail
<1> QED
  BY <1>3, <1>4, <1>5

(* Swap goes on with the sale.                                              *)
LEMMA SaleGoesOn ==
  ASSUME TypeOK, Swap,
         NEW b \in Snapshots, NEW C \in SUBSET Contracts, NEW ask \in Assets,
         NEW rest \in Seq(Messages), rest # <<>> => Head(rest).msg # "swap",
         NEW still, InSale(b, C, ask, rest, still)
  PROVE  /\ InSale(b, C, ask, rest, still)'
         /\ held' \in [Assets -> Nat]
         /\ owed' \in [Contracts -> [Assets -> Nat]]
         /\ earned' <= MaxEarned /\ earned' \in Nat
<1>1. PICK sw \in Seq(SwapMessages) :
        /\ tasks = sw \o rest
        /\ Sold(b, C, ask) /\ Queue(ask, sw) /\ ToBeSold(ask, sw, still)
  BY DEF InSale
<1>2. tasks # <<>> /\ Head(tasks).msg = "swap"
  BY DEF Swap, Message
<1>3. sw # <<>>
  BY <1>1, <1>2, SaleHead
<1>4. PICK t : t = Head(sw)
  OBVIOUS
<1>5. /\ Tail(sw) \in Seq(SwapMessages)
      /\ DOMAIN Tail(sw) = 1..(Len(sw) - 1) /\ Len(sw) \in Nat \ {0}
      /\ DOMAIN sw = 1..Len(sw)
      /\ \A i \in DOMAIN Tail(sw) : Tail(sw)[i] = sw[i + 1]
  BY <1>3, HeadAndTail
<1>6. t \in SwapMessages /\ t = Head(tasks) /\ Tail(tasks) = Tail(sw) \o rest
  BY <1>1, <1>3, <1>4, SaleHead
<1>7. t = sw[1] /\ 1 \in DOMAIN sw
  BY <1>4, <1>5
<1>8. t.ask = ask /\ t.offer \in Sellable(ask) /\ t.amount = held[t.offer]
  BY <1>1, <1>7 DEF Queue
<1>9. t.offer \in Assets /\ t.offer # ask
  BY <1>8 DEF Sellable
<1>10. /\ held' \in [Assets -> Nat] /\ held'[t.offer] = 0
       /\ held'[ask] >= held[ask]
       /\ \A a \in Assets \ {ask, t.offer} : held'[a] = held[a]
       /\ owed' \in [Contracts -> [Assets -> Nat]]
       /\ \A c \in Contracts, a \in Assets :
            IF c \in ToSet(Vaults) THEN owed'[c][a] = owed[c][a]
                                   ELSE owed'[c][a] >= owed[c][a]
       /\ earned' <= MaxEarned /\ earned' \in Nat
       /\ forwarded' = forwarded
  BY <1>6, <1>8, <1>9, SwapEffect
<1>11. tasks' = Tail(sw) \o rest
  <2>1. tasks' = <<>> \o Tail(tasks)
    BY DEF Swap, Continue
  <2>2. SwapMessages \subseteq Messages
    BY DEF Messages
  <2>3. Tail(sw) \in Seq(Messages)
    BY <1>5, <2>2, SeqMonotonic
  <2>4. Tail(sw) \o rest \in Seq(Messages)
    BY <2>3, ConcatProperties
  <2> QED
    BY <2>1, <2>4, <1>6, ConcatEmptySeq
<1>12. Sold(b, C, ask)'
  <2>1. /\ LeftIn(b, C) \in [Contracts -> [Assets -> Nat]]
        /\ GatheredIn(b, C) \in [Assets -> Nat]
    BY FeesNat
  <2>2. owed \in [Contracts -> [Assets -> Nat]] /\ held \in [Assets -> Nat]
    BY DEF TypeOK
  <2>3. ASSUME NEW c \in Contracts, NEW a \in Assets
        PROVE  IF c \in ToSet(Vaults) THEN owed'[c][a] = LeftIn(b, C)[c][a]
                                      ELSE owed'[c][a] >= LeftIn(b, C)[c][a]
    <3> DEFINE x == LeftIn(b, C)[c][a]
               y == owed[c][a]
               z == owed'[c][a]
    <3>1. IF c \in ToSet(Vaults) THEN y = x ELSE y >= x
      BY <1>1 DEF Sold
    <3>2. IF c \in ToSet(Vaults) THEN z = y ELSE z >= y
      BY <1>10
    <3>3. x \in Nat /\ y \in Nat /\ z \in Nat
      BY <1>10, <2>1, <2>2
    <3> HIDE DEF x, y, z
    <3>4. IF c \in ToSet(Vaults) THEN z = x ELSE z >= x
      BY <3>1, <3>2, <3>3
    <3> QED
      BY <3>4 DEF x, z
  <2>4. held'[ask] >= GatheredIn(b, C)[ask]
    <3> DEFINE x == GatheredIn(b, C)[ask]
               y == held[ask]
               z == held'[ask]
    <3>1. y >= x /\ z >= y
      BY <1>1, <1>10 DEF Sold
    <3>2. x \in Nat /\ y \in Nat /\ z \in Nat
      BY <1>10, <2>1, <2>2
    <3> HIDE DEF x, y, z
    <3>3. z >= x
      BY <3>1, <3>2
    <3> QED
      BY <3>3 DEF x, z
  <2>5. ASSUME NEW a \in Assets \ {ask}
        PROVE  held'[a] = GatheredIn(b, C)[a] \/ (a \in Sellable(ask) /\ held'[a] = 0)
    <3>1. CASE a = t.offer
      BY <3>1, <1>8, <1>10
    <3>2. CASE a # t.offer
      <4>1. held'[a] = held[a]
        BY <3>2, <1>10
      <4> QED
        BY <4>1, <1>1 DEF Sold
    <3> QED
      BY <3>1, <3>2
  <2>6. forwarded' = b.forwarded
    BY <1>1, <1>10 DEF Sold
  <2> QED
    BY <2>3, <2>4, <2>5, <2>6 DEF Sold
<1>13. Queue(ask, Tail(sw))'
  <2>1. ASSUME NEW i \in DOMAIN Tail(sw)
        PROVE  /\ i + 1 \in DOMAIN sw /\ i + 1 # 1 /\ i \in Int
               /\ Tail(sw)[i] = sw[i + 1]
    BY <1>5
  <2>2. ASSUME NEW i \in DOMAIN Tail(sw)
        PROVE  /\ Tail(sw)[i].ask = ask /\ Tail(sw)[i].offer \in Sellable(ask)
               /\ Tail(sw)[i].amount = held'[Tail(sw)[i].offer]
               /\ \A j \in DOMAIN Tail(sw) :
                    Tail(sw)[j].offer = Tail(sw)[i].offer => j = i
    <3>1. PICK s : s = sw[i + 1]
      OBVIOUS
    <3>2. /\ s.ask = ask /\ s.offer \in Sellable(ask) /\ s.amount = held[s.offer]
          /\ \A j \in DOMAIN sw : sw[j].offer = s.offer => j = i + 1
      BY <1>1, <2>1, <3>1 DEF Queue
    <3>3. s.offer # t.offer
      BY <1>7, <2>1, <3>2
    <3>4. held'[s.offer] = held[s.offer]
      BY <1>10, <3>2, <3>3 DEF Sellable
    <3>5. ASSUME NEW j \in DOMAIN Tail(sw), Tail(sw)[j].offer = s.offer
          PROVE  j = i
      <4>1. j + 1 = i + 1
        BY <2>1, <3>2, <3>5
      <4> QED
        BY <2>1, <4>1
    <3>6. Tail(sw)[i] = s
      BY <2>1, <3>1
    <3> QED
      BY <3>2, <3>4, <3>5, <3>6
  <2> QED
    BY <2>2 DEF Queue
<1>14. ToBeSold(ask, Tail(sw), still)'
  <2>1. ASSUME NEW a \in SureToSell(ask)
        PROVE  \/ held'[a] = 0 \/ a \in still
               \/ \E i \in DOMAIN Tail(sw) : Tail(sw)[i].offer = a
    <3>1. a \in Assets /\ a # ask
      BY DEF SureToSell, Sellable
    <3>2. CASE a = t.offer
      BY <3>2, <1>10
    <3>3. CASE a # t.offer /\ held[a] = 0
      BY <3>1, <3>3, <1>10
    <3>4. CASE a # t.offer /\ \E i \in DOMAIN sw : sw[i].offer = a
      <4>1. PICK i \in DOMAIN sw : sw[i].offer = a
        BY <3>4
      <4>2. i # 1
        BY <3>4, <4>1, <1>7
      <4>3. i - 1 \in DOMAIN Tail(sw) /\ (i - 1) + 1 = i
        BY <1>5, <4>2
      <4>4. Tail(sw)[i - 1] = sw[i]
        BY <1>5, <4>3
      <4> QED
        BY <4>1, <4>3, <4>4
    <3> QED
      BY <3>2, <3>3, <3>4, <1>1 DEF ToBeSold
  <2> QED
    BY <2>1 DEF ToBeSold
<1>15. InSale(b, C, ask, rest, still)'
  BY <1>5, <1>11, <1>12, <1>13, <1>14 DEF InSale
<1> QED
  BY <1>10, <1>15

-----------------------------------------------------------------------------
(* From phase to phase *)

(* A collection is under way, or over.                                      *)
LEMMA CollectionOver ==
  ASSUME NEW b, NEW all, NEW rest \in Seq(Messages), InCollection(b, rest, all)
  PROVE  \/ tasks # <<>> /\ Head(tasks).msg = "collect_protocol_fees"
         \/ tasks = rest /\ all \in SUBSET Contracts /\ Collected(b, all)
<1>1. PICK C \in SUBSET Contracts, cs \in Seq(Contracts) :
        /\ tasks = CollectFrom(cs) \o rest
        /\ C \cup ToSet(cs) = all
        /\ Collected(b, C)
  BY DEF InCollection
<1>2. CASE cs = <<>>
  <2>1. ToSet(cs) = {}
    BY <1>2 DEF ToSet
  <2>2. C = all
    BY <1>1, <2>1
  <2>3. tasks = rest
    BY <1>1, <1>2, CollectionHead
  <2> QED
    BY <1>1, <2>2, <2>3
<1>3. CASE cs # <<>>
  <2>1. tasks = CollectFrom(cs) \o rest
    BY <1>1
  <2>2. /\ tasks # <<>>
        /\ Head(tasks) = [msg |-> "collect_protocol_fees", of |-> Head(cs)]
    BY <1>3, <2>1, CollectionHead
  <2>3. Head(tasks).msg = "collect_protocol_fees"
    BY <2>2
  <2> QED
    BY <2>2, <2>3
<1> QED
  BY <1>2, <1>3

(* A sale is under way, or over.                                            *)
LEMMA SaleOver ==
  ASSUME NEW b, NEW C, NEW ask, NEW rest \in Seq(Messages), NEW still,
         InSale(b, C, ask, rest, still)
  PROVE  /\ Sold(b, C, ask)
         /\ \/ tasks # <<>> /\ Head(tasks).msg = "swap"
            \/ tasks = rest /\ ToBeSold(ask, <<>>, still)
<1>1. PICK sw \in Seq(SwapMessages) :
        /\ tasks = sw \o rest
        /\ Sold(b, C, ask) /\ ToBeSold(ask, sw, still)
  BY DEF InSale
<1>2. CASE sw = <<>>
  BY <1>1, <1>2, SaleHead
<1>3. CASE sw # <<>>
  <2>1. tasks # <<>> /\ Head(tasks) \in SwapMessages
    BY <1>1, <1>3, SaleHead
  <2>2. Head(tasks).msg = "swap"
    BY <2>1 DEF SwapMessages
  <2> QED
    BY <1>1, <2>1, <2>2
<1> QED
  BY <1>2, <1>3

(* Where a transaction is, by its next message.                             *)
LEMMA NextMessage ==
  ASSUME NEW b \in Snapshots, NEW ask \in Assets, InForwarding(b, ask)
  PROVE  /\ tasks # <<>>
         /\ \/ /\ tasks = ForwardMessages(ask) /\ Head(tasks).msg = "collect_fees"
               /\ Collected(b, {})
            \/ /\ Head(tasks).msg = "collect_protocol_fees"
               /\ \/ InCollection(b, AfterVaults(ask), ToSet(FirstPage("vault")))
                  \/ InCollection(b, AfterPools(ask), ListedContracts)
            \/ /\ tasks = AfterVaults(ask) /\ Head(tasks).msg = "collect_fees"
               /\ Collected(b, ToSet(FirstPage("vault")))
            \/ /\ tasks = AfterPools(ask) /\ Head(tasks).msg = "aggregate_fees"
               /\ Collected(b, ListedContracts)
            \/ /\ Head(tasks).msg = "swap"
               /\ \/ InSale(b, ListedContracts, ask, AfterVaultSales(ask), PoolAssets)
                  \/ InSale(b, ListedContracts, ask, AfterPoolSales, {})
            \/ /\ tasks = AfterVaultSales(ask) /\ Head(tasks).msg = "aggregate_fees"
               /\ Sold(b, ListedContracts, ask) /\ ToBeSold(ask, <<>>, PoolAssets)
            \/ /\ tasks = AfterPoolSales /\ Head(tasks).msg = "reply"
               /\ Sold(b, ListedContracts, ask) /\ ToBeSold(ask, <<>>, {})
<1>1. CASE tasks = ForwardMessages(ask) /\ Collected(b, {})
  BY <1>1, EpochTasks
<1>2. CASE InCollection(b, AfterVaults(ask), ToSet(FirstPage("vault")))
  BY <1>2, CollectionOver, EpochTasks
<1>3. CASE InCollection(b, AfterPools(ask), ListedContracts)
  BY <1>3, CollectionOver, EpochTasks
<1>4. CASE InSale(b, ListedContracts, ask, AfterVaultSales(ask), PoolAssets)
  BY <1>4, SaleOver, EpochTasks
<1>5. CASE InSale(b, ListedContracts, ask, AfterPoolSales, {})
  BY <1>5, SaleOver, EpochTasks
<1> QED
  BY <1>1, <1>2, <1>3, <1>4, <1>5 DEF InForwarding

LEMMA OtherCalls ==
  ASSUME tasks # <<>>, NEW b \in Snapshots
  PROVE  /\ \A all : InCollection(b, <<>>, all)
                       => Head(tasks).msg = "collect_protocol_fees"
         /\ \A ask : InSale(b, {}, ask, <<>>, Assets) => Head(tasks).msg = "swap"
<1>1. <<>> \in Seq(Messages)
  OBVIOUS
<1>2. ASSUME NEW all, InCollection(b, <<>>, all)
      PROVE  Head(tasks).msg = "collect_protocol_fees"
  BY <1>1, <1>2, CollectionOver
<1>3. ASSUME NEW ask, InSale(b, {}, ask, <<>>, Assets)
      PROVE  Head(tasks).msg = "swap"
  BY <1>1, <1>3, SaleOver
<1> QED
  BY <1>2, <1>3

LEMMA Continued ==
  ASSUME NEW messages \in Seq(Messages), Continue(messages),
         NEW rest \in Seq(Messages), Tail(tasks) = rest
  PROVE  tasks' = messages \o rest
BY DEF Continue

(* Nothing sold yet. *)
LEMMA CollectedIsSold ==
  ASSUME NEW b \in Snapshots, NEW C \in SUBSET Contracts, NEW ask \in Assets,
         Collected(b, C)
  PROVE  Sold(b, C, ask)
<1>1. /\ LeftIn(b, C) \in [Contracts -> [Assets -> Nat]]
      /\ GatheredIn(b, C) \in [Assets -> Nat]
  BY FeesNat
<1>2. /\ owed = LeftIn(b, C) /\ held = GatheredIn(b, C)
      /\ forwarded = b.forwarded
  BY DEF Collected
<1>3. GatheredIn(b, C)[ask] >= GatheredIn(b, C)[ask]
  BY <1>1
<1>4. ASSUME NEW c \in Contracts, NEW a \in Assets
      PROVE  IF c \in ToSet(Vaults) THEN owed[c][a] = LeftIn(b, C)[c][a]
                                    ELSE owed[c][a] >= LeftIn(b, C)[c][a]
  <2>1. PICK x \in Nat : x = LeftIn(b, C)[c][a]
    BY <1>1
  <2>2. owed[c][a] = x
    BY <1>2, <2>1
  <2> QED
    BY <2>1, <2>2
<1> QED
  BY <1>2, <1>3, <1>4 DEF Sold

(* collect_fees of a page begins its collection.                            *)
LEMMA CollectionBegins ==
  ASSUME NEW b \in Snapshots, NEW kind \in {"vault", "pool"},
         NEW C \in SUBSET Contracts, Collected(b, C), CollectFeesOfPage,
         Head(tasks).of = kind, NEW rest \in Seq(Messages), Tail(tasks) = rest
  PROVE  InCollection(b, rest, C \cup ToSet(FirstPage(kind)))'
<1> DEFINE cs == FirstPage(kind)
<1>1. cs \in Seq(Contracts)
  BY FirstPages
<1>2. Continue(CollectFrom(cs))
  BY DEF CollectFeesOfPage
<1>3. CollectFrom(cs) \in Seq(Messages)
  BY <1>1, CollectTasks
<1>4. tasks' = CollectFrom(cs) \o rest
  BY <1>2, <1>3, Continued
<1>5. Collected(b, C)'
  BY DEF Collected, CollectFeesOfPage
<1> QED
  BY <1>1, <1>4, <1>5 DEF InCollection

(* aggregate_fees of a page begins the sale of its assets.                  *)
LEMMA SaleBegins ==
  ASSUME TypeOK, NEW b \in Snapshots, NEW cs \in Seq(Contracts),
         NEW C \in SUBSET Contracts, NEW ask \in Assets, Sold(b, C, ask),
         NEW rest \in Seq(Messages), tasks' = Swaps(cs, ask) \o rest,
         UNCHANGED <<owed, held, forwarded>>, NEW still,
         \A a \in SureToSell(ask) :
           \/ held[a] = 0 \/ a \in still
           \/ \E c \in ToSet(cs) : a \in ToSet(AssetsOf[c])
  PROVE  InSale(b, C, ask, rest, still)'
<1>1. PICK sw : sw = Swaps(cs, ask)
  OBVIOUS
<1>2. /\ sw \in Seq(SwapMessages)
      /\ Queue(ask, sw)
      /\ \A a \in SureToSell(ask) :
           (\E c \in ToSet(cs) : a \in ToSet(AssetsOf[c]))
             => held[a] = 0 \/ \E i \in DOMAIN sw : sw[i].offer = a
  <2>1. held \in [Assets -> Nat]
    BY DEF TypeOK
  <2> QED
    BY <1>1, <2>1, SwapsOfPage
<1>3. Sold(b, C, ask)'
  BY DEF Sold
<1>4. Queue(ask, sw)'
  BY <1>2 DEF Queue
<1>5. ToBeSold(ask, sw, still)'
  BY <1>2 DEF ToBeSold
<1>6. tasks' = sw \o rest
  BY <1>1
<1> QED
  BY <1>2, <1>3, <1>4, <1>5, <1>6 DEF InSale

(* The messages of a transaction lead from phase to phase.                  *)
LEMMA CollectFeesOfPagePhase ==
  ASSUME NEW b \in Snapshots, Phase(b), CollectFeesOfPage
  PROVE  Phase(b)'
<1>1. tasks # <<>> /\ Head(tasks).msg = "collect_fees" /\ tmp_epoch' = tmp_epoch
  BY DEF CollectFeesOfPage, Message
<1>2. PICK ask \in Assets : tmp_epoch.asset = ask /\ InForwarding(b, ask)
  BY <1>1, OtherCalls DEF Phase
<1>3. CASE tasks = ForwardMessages(ask) /\ Collected(b, {})
  <2>1. Head(tasks).of = "vault" /\ Tail(tasks) = AfterVaults(ask)
          /\ AfterVaults(ask) \in Seq(Messages)
    BY <1>3, EpochTasks
  <2>2. InCollection(b, AfterVaults(ask), {} \cup ToSet(FirstPage("vault")))'
    <3>1. {} \in SUBSET Contracts /\ Collected(b, {})
      BY <1>3
    <3> QED
      BY <2>1, <3>1, CollectionBegins
  <2>3. {} \cup ToSet(FirstPage("vault")) = ToSet(FirstPage("vault"))
    OBVIOUS
  <2>4. InCollection(b, AfterVaults(ask), ToSet(FirstPage("vault")))'
    BY <2>2, <2>3
  <2>5. InForwarding(b, ask)'
    BY <2>4 DEF InForwarding
  <2> QED
    BY <1>1, <1>2, <2>5 DEF Phase
<1>4. CASE tasks = AfterVaults(ask) /\ Collected(b, ToSet(FirstPage("vault")))
  <2>1. Head(tasks).of = "pool" /\ Tail(tasks) = AfterPools(ask)
          /\ AfterPools(ask) \in Seq(Messages)
    BY <1>4, EpochTasks
  <2>2. InCollection(b, AfterPools(ask),
                     ToSet(FirstPage("vault")) \cup ToSet(FirstPage("pool")))'
    <3>1. ToSet(FirstPage("vault")) \in SUBSET Contracts
      BY FirstPages DEF Contracts
    <3> QED
      BY <1>4, <2>1, <3>1, CollectionBegins
  <2>3. InCollection(b, AfterPools(ask), ListedContracts)'
    BY <2>2 DEF ListedContracts
  <2>4. InForwarding(b, ask)'
    BY <2>3 DEF InForwarding
  <2> QED
    BY <1>1, <1>2, <2>4 DEF Phase
<1> QED
  BY <1>1, <1>2, <1>3, <1>4, NextMessage

LEMMA AggregateFeesOfPagePhase ==
  ASSUME TypeOK, NEW b \in Snapshots, Phase(b), AggregateFeesOfPage
  PROVE  Phase(b)'
<1>1. /\ tasks # <<>> /\ Head(tasks).msg = "aggregate_fees" /\ tmp_epoch' = tmp_epoch
      /\ UNCHANGED <<owed, held, forwarded>>
      /\ Continue(Swaps(FirstPage(Head(tasks).of), Head(tasks).ask))
  BY DEF AggregateFeesOfPage, Message
<1>2. PICK ask \in Assets : tmp_epoch.asset = ask /\ InForwarding(b, ask)
  BY <1>1, OtherCalls DEF Phase
<1>3. ASSUME NEW cs \in Seq(Contracts), NEW rest \in Seq(Messages),
             Continue(Swaps(cs, ask)), Tail(tasks) = rest
      PROVE  tasks' = Swaps(cs, ask) \o rest
  <2>1. SwapMessages \subseteq Messages
    BY DEF Messages
  <2>2. PICK sw : sw = Swaps(cs, ask)
    OBVIOUS
  <2>3. sw \in Seq(SwapMessages)
    BY <2>2, SwapsOfPage DEF TypeOK
  <2>4. sw \in Seq(Messages)
    BY <2>1, <2>3, SeqMonotonic
  <2>5. Continue(sw)
    BY <1>3, <2>2
  <2> QED
    BY <1>3, <2>2, <2>4, <2>5, Continued
<1>4. CASE tasks = AfterPools(ask) /\ Collected(b, ListedContracts)
  <2> DEFINE cs == FirstPage("vault")
  <2>1. /\ Head(tasks).of = "vault" /\ Head(tasks).ask = ask
        /\ Tail(tasks) = AfterVaultSales(ask) /\ AfterVaultSales(ask) \in Seq(Messages)
    BY <1>4, EpochTasks
  <2>2. cs \in Seq(Contracts) /\ ListedContracts \in SUBSET Contracts
    BY FirstPages
  <2>3. tasks' = Swaps(cs, ask) \o AfterVaultSales(ask)
    BY <1>1, <1>3, <2>1, <2>2
  <2>4. Sold(b, ListedContracts, ask)
    BY <1>4, <2>2, CollectedIsSold
  <2>5. \A a \in SureToSell(ask) :
          \/ held[a] = 0 \/ a \in PoolAssets
          \/ \E c \in ToSet(cs) : a \in ToSet(AssetsOf[c])
    BY DEF SureToSell, Sellable, ListedContracts, PoolAssets
  <2> HIDE DEF cs
  <2>6. InSale(b, ListedContracts, ask, AfterVaultSales(ask), PoolAssets)'
    BY <1>1, <2>1, <2>2, <2>3, <2>4, <2>5, SaleBegins
  <2>7. InForwarding(b, ask)'
    BY <2>6 DEF InForwarding
  <2> QED
    BY <1>1, <1>2, <2>7 DEF Phase
<1>5. CASE /\ tasks = AfterVaultSales(ask)
           /\ Sold(b, ListedContracts, ask) /\ ToBeSold(ask, <<>>, PoolAssets)
  <2> DEFINE cs == FirstPage("pool")
  <2>1. /\ Head(tasks).of = "pool" /\ Head(tasks).ask = ask
        /\ Tail(tasks) = AfterPoolSales /\ AfterPoolSales \in Seq(Messages)
    BY <1>5, EpochTasks
  <2>2. cs \in Seq(Contracts) /\ ListedContracts \in SUBSET Contracts
    BY FirstPages
  <2>3. tasks' = Swaps(cs, ask) \o AfterPoolSales
    BY <1>1, <1>3, <2>1, <2>2
  <2>4. \A a \in SureToSell(ask) :
          \/ held[a] = 0 \/ a \in {}
          \/ \E c \in ToSet(cs) : a \in ToSet(AssetsOf[c])
    BY <1>5 DEF ToBeSold, PoolAssets
  <2> HIDE DEF cs
  <2>5. InSale(b, ListedContracts, ask, AfterPoolSales, {})'
    BY <1>1, <1>5, <2>1, <2>2, <2>3, <2>4, SaleBegins
  <2>6. InForwarding(b, ask)'
    BY <2>5 DEF InForwarding
  <2> QED
    BY <1>1, <1>2, <2>6 DEF Phase
<1> QED
  BY <1>1, <1>2, <1>4, <1>5, NextMessage

LEMMA CollectProtocolFeesPhase ==
  ASSUME TypeOK, NEW b \in Snapshots, Phase(b), CollectProtocolFees
  PROVE  Phase(b)'
<1>1. /\ tasks # <<>> /\ Head(tasks).msg = "collect_protocol_fees"
      /\ tmp_epoch' = tmp_epoch
  BY DEF CollectProtocolFees, Message
<1>2. ASSUME NEW all \in SUBSET Contracts, InCollection(b, <<>>, all)
      PROVE  Phase(b)'
  <2>1. <<>> \in Seq(Messages)
    OBVIOUS
  <2>2. InCollection(b, <<>>, all)'
    BY <1>2, <2>1, CollectionGoesOn
  <2> QED
    BY <2>2 DEF Phase
<1>3. ASSUME NEW ask \in Assets, tmp_epoch.asset = ask, InForwarding(b, ask)
      PROVE  Phase(b)'
  <2>1. \/ InCollection(b, AfterVaults(ask), ToSet(FirstPage("vault")))
        \/ InCollection(b, AfterPools(ask), ListedContracts)
    BY <1>1, <1>3, NextMessage
  <2>2. /\ AfterVaults(ask) \in Seq(Messages) /\ AfterPools(ask) \in Seq(Messages)
        /\ Head(AfterVaults(ask)).msg # "collect_protocol_fees"
        /\ Head(AfterPools(ask)).msg # "collect_protocol_fees"
    BY EpochTasks
  <2>3. \/ InCollection(b, AfterVaults(ask), ToSet(FirstPage("vault")))'
        \/ InCollection(b, AfterPools(ask), ListedContracts)'
    BY <2>1, <2>2, CollectionGoesOn
  <2>4. InForwarding(b, ask)'
    BY <2>3 DEF InForwarding
  <2> QED
    BY <1>1, <1>3, <2>4 DEF Phase
<1> QED
  BY <1>1, <1>2, <1>3, OtherCalls DEF Phase

LEMMA SwapPhase ==
  ASSUME TypeOK, NEW b \in Snapshots, Phase(b), Swap
  PROVE  /\ Phase(b)'
         /\ held' \in [Assets -> Nat]
         /\ owed' \in [Contracts -> [Assets -> Nat]]
         /\ earned' <= MaxEarned /\ earned' \in Nat
<1>1. tasks # <<>> /\ Head(tasks).msg = "swap" /\ tmp_epoch' = tmp_epoch
  BY DEF Swap, Message
<1> DEFINE Kept == /\ held' \in [Assets -> Nat]
                   /\ owed' \in [Contracts -> [Assets -> Nat]]
                   /\ earned' <= MaxEarned /\ earned' \in Nat
<1>2. ASSUME NEW ask \in Assets, InSale(b, {}, ask, <<>>, Assets)
      PROVE  Phase(b)' /\ Kept
  <2>1. <<>> \in Seq(Messages) /\ {} \in SUBSET Contracts
    OBVIOUS
  <2>2. InSale(b, {}, ask, <<>>, Assets)' /\ Kept
    BY <1>2, <2>1, SaleGoesOn
  <2> QED
    BY <2>2 DEF Phase
<1>3. ASSUME NEW ask \in Assets, tmp_epoch.asset = ask, InForwarding(b, ask)
      PROVE  Phase(b)' /\ Kept
  <2>1. \/ InSale(b, ListedContracts, ask, AfterVaultSales(ask), PoolAssets)
        \/ InSale(b, ListedContracts, ask, AfterPoolSales, {})
    BY <1>1, <1>3, NextMessage
  <2>2. /\ AfterVaultSales(ask) \in Seq(Messages) /\ AfterPoolSales \in Seq(Messages)
        /\ Head(AfterVaultSales(ask)).msg # "swap"
        /\ Head(AfterPoolSales).msg # "swap"
        /\ ListedContracts \in SUBSET Contracts
    BY EpochTasks, FirstPages
  <2>3. CASE InSale(b, ListedContracts, ask, AfterVaultSales(ask), PoolAssets)
    <3>1. InSale(b, ListedContracts, ask, AfterVaultSales(ask), PoolAssets)' /\ Kept
      BY <2>2, <2>3, SaleGoesOn
    <3>2. InForwarding(b, ask)'
      BY <3>1 DEF InForwarding
    <3> QED
      BY <1>1, <1>3, <3>1, <3>2 DEF Phase
  <2>4. CASE InSale(b, ListedContracts, ask, AfterPoolSales, {})
    <3>1. InSale(b, ListedContracts, ask, AfterPoolSales, {})' /\ Kept
      BY <2>2, <2>4, SaleGoesOn
    <3>2. InForwarding(b, ask)'
      BY <3>1 DEF InForwarding
    <3> QED
      BY <1>1, <1>3, <3>1, <3>2 DEF Phase
  <2> QED
    BY <2>1, <2>3, <2>4
<1> HIDE DEF Kept
<1>4. Phase(b)' /\ Kept
  BY <1>1, <1>2, <1>3, OtherCalls DEF Phase
<1> QED
  BY <1>4 DEF Kept

-----------------------------------------------------------------------------
(* The invariant *)

LEMMA InitInv == Init => IInv
<1> SUFFICES ASSUME Init PROVE IInv
  OBVIOUS
<1>1. 0 \in 0..MaxEarned
  BY CollectorAssumption
<1>2. TypeOK
  BY <1>1 DEF Init, TypeOK
<1> QED
  BY <1>2 DEF Init, IInv, CallInv

(* A call that begins is compared with the state it begins in.              *)
LEMMA Begun ==
  ASSUME TypeOK, NEW messages, Begin(messages)
  PROVE  \E b \in Snapshots :
           /\ before' = b /\ b = Snapshot /\ b.earned <= MaxEarned
           /\ b # NoSnapshot /\ tasks' # <<>> /\ tasks' = messages
           /\ Collected(b, {})
<1>1. Snapshot \in Snapshots
  BY DEF Snapshot, Snapshots, TypeOK
<1>2. PICK b \in Snapshots : b = Snapshot
  BY <1>1
<1>3. /\ b.owed = owed /\ b.held = held /\ b.forwarded = forwarded
      /\ b.earned = earned
  BY <1>2 DEF Snapshot
<1>4. b.earned <= MaxEarned
  BY <1>3 DEF TypeOK
<1>5. b # NoSnapshot
  BY CollectorAssumption
<1>6. Collected(b, {})
  BY <1>3, NothingCollected DEF Collected
<1> QED
  BY <1>2, <1>4, <1>5, <1>6 DEF Begin

LEMMA BegunInv ==
  ASSUME IInv, NEW messages, Begin(messages),
         UNCHANGED <<coll_config, owed, held, forwarded, earned>>,
         tmp_epoch' \in [epoch : Epochs, asset : Assets] \cup {NoEpoch},
         \A b \in Snapshots :
           Collected(b, {}) /\ tasks' = messages => Phase(b)'
  PROVE  IInv'
<1>1. PICK b \in Snapshots :
        /\ before' = b /\ b.earned <= MaxEarned
        /\ b # NoSnapshot /\ tasks' # <<>> /\ tasks' = messages
        /\ Collected(b, {})
  BY Begun DEF IInv
<1>2. Phase(b)'
  BY <1>1
<1>3. TypeOK'
  BY <1>1 DEF IInv, TypeOK
<1> QED
  BY <1>1, <1>2, <1>3 DEF IInv, CallInv

LEMMA ForwardFeesInv ==
  ASSUME IInv, NEW d, NEW e \in Epochs, NEW ask \in Assets, ForwardFees(d, e, ask)
  PROVE  IInv'
<1>1. /\ Begin(ForwardMessages(ask))
      /\ UNCHANGED <<coll_config, owed, held, forwarded, earned>>
      /\ tmp_epoch' = [epoch |-> e, asset |-> ask]
  BY DEF ForwardFees
<1>2. ASSUME NEW b \in Snapshots, Collected(b, {}), tasks' = ForwardMessages(ask)
      PROVE  Phase(b)'
  <2>1. Collected(b, {})'
    BY <1>1, <1>2 DEF Collected
  <2>2. InForwarding(b, ask)'
    BY <1>2, <2>1 DEF InForwarding
  <2>3. tmp_epoch'.asset = ask
    BY <1>1
  <2> QED
    BY <2>2, <2>3 DEF Phase
<1>3. tmp_epoch' \in [epoch : Epochs, asset : Assets] \cup {NoEpoch}
  BY <1>1
<1> QED
  BY <1>1, <1>2, <1>3, BegunInv

LEMMA CollectInv ==
  ASSUME IInv, NEW cs \in Seq(Contracts), Begin(CollectFrom(cs)),
         UNCHANGED <<coll_config, tmp_epoch, owed, held, forwarded, earned>>
  PROVE  IInv'
<1>1. ASSUME NEW b \in Snapshots, Collected(b, {}), tasks' = CollectFrom(cs)
      PROVE  Phase(b)'
  <2>1. CollectFrom(cs) \in Seq(Messages)
    BY CollectTasks
  <2>2. CollectFrom(cs) \o <<>> = CollectFrom(cs)
    BY <2>1, ConcatEmptySeq
  <2>3. Collected(b, {})'
    BY <1>1 DEF Collected
  <2>4. ToSet(cs) \in SUBSET Contracts /\ {} \cup ToSet(cs) = ToSet(cs)
    BY MembersFinite
  <2>5. {} \in SUBSET Contracts
    OBVIOUS
  <2>6. InCollection(b, <<>>, ToSet(cs))'
    BY <1>1, <2>2, <2>3, <2>4, <2>5 DEF InCollection
  <2> QED
    BY <2>4, <2>6 DEF Phase
<1>2. tmp_epoch' \in [epoch : Epochs, asset : Assets] \cup {NoEpoch}
  BY DEF IInv, TypeOK
<1> QED
  BY <1>1, <1>2, BegunInv

LEMMA AggregateFeesInv ==
  ASSUME IInv, NEW o, NEW cs \in Seq(Contracts), NEW ask \in Assets,
         AggregateFees(o, cs, ask)
  PROVE  IInv'
<1>1. /\ Begin(Swaps(cs, ask))
      /\ UNCHANGED <<coll_config, tmp_epoch, owed, held, forwarded, earned>>
  BY DEF AggregateFees
<1>2. ASSUME NEW b \in Snapshots, Collected(b, {}), tasks' = Swaps(cs, ask)
      PROVE  Phase(b)'
  <2>1. TypeOK /\ held \in [Assets -> Nat]
    BY DEF IInv, TypeOK
  <2>2. PICK sw : sw = Swaps(cs, ask)
    OBVIOUS
  <2>3. sw \in Seq(SwapMessages)
    BY <2>1, <2>2, SwapsOfPage
  <2>4. sw \o <<>> = sw
    BY <2>3, ConcatEmptySeq
  <2>5. tasks' = Swaps(cs, ask) \o <<>>
    BY <1>2, <2>2, <2>4
  <2>6. {} \in SUBSET Contracts /\ <<>> \in Seq(Messages)
    OBVIOUS
  <2>7. Sold(b, {}, ask)
    BY <1>2, <2>6, CollectedIsSold
  <2>8. \A a \in SureToSell(ask) : a \in Assets
    BY DEF SureToSell, Sellable
  <2>9. InSale(b, {}, ask, <<>>, Assets)'
    BY <1>1, <2>1, <2>5, <2>6, <2>7, <2>8, SaleBegins
  <2> QED
    BY <2>9 DEF Phase
<1>3. tmp_epoch' \in [epoch : Epochs, asset : Assets] \cup {NoEpoch}
  BY <1>1 DEF IInv, TypeOK
<1> QED
  BY <1>1, <1>2, <1>3, BegunInv

(* A message that leads from phase to phase keeps the invariant.            *)
LEMMA ContinuedInv ==
  ASSUME IInv, tasks # <<>>, NEW messages, Continue(messages),
         \A b \in Snapshots : Phase(b) => Phase(b)',
         UNCHANGED <<coll_config, tmp_epoch, forwarded>>,
         held' \in [Assets -> Nat], owed' \in [Contracts -> [Assets -> Nat]],
         earned' \in 0..MaxEarned
  PROVE  IInv'
<1>1. PICK b \in Snapshots : before = b /\ b.earned <= MaxEarned /\ Phase(b)
  BY DEF IInv, CallInv
<1>2. before' = IF tasks' = <<>> THEN NoSnapshot ELSE b
  BY <1>1 DEF Continue
<1>3. b # NoSnapshot
  BY CollectorAssumption
<1>4. TypeOK'
  BY <1>2, <1>3 DEF IInv, TypeOK
<1>5. CallInv'
  BY <1>1, <1>2 DEF CallInv
<1> QED
  BY <1>4, <1>5 DEF IInv

LEMMA CollectFeesOfPageInv == ASSUME IInv, CollectFeesOfPage PROVE IInv'
<1>1. /\ tasks # <<>> /\ Continue(CollectFrom(FirstPage(Head(tasks).of)))
      /\ UNCHANGED <<coll_config, tmp_epoch, owed, held, forwarded, earned>>
  BY DEF CollectFeesOfPage, Message
<1>2. \A b \in Snapshots : Phase(b) => Phase(b)'
  BY CollectFeesOfPagePhase
<1>3. /\ held' \in [Assets -> Nat] /\ owed' \in [Contracts -> [Assets -> Nat]]
      /\ earned' \in 0..MaxEarned
  BY <1>1 DEF IInv, TypeOK
<1> QED
  BY <1>1, <1>2, <1>3, ContinuedInv

LEMMA AggregateFeesOfPageInv == ASSUME IInv, AggregateFeesOfPage PROVE IInv'
<1>1. /\ tasks # <<>>
      /\ Continue(Swaps(FirstPage(Head(tasks).of), Head(tasks).ask))
      /\ UNCHANGED <<coll_config, tmp_epoch, owed, held, forwarded, earned>>
  BY DEF AggregateFeesOfPage, Message
<1>2. \A b \in Snapshots : Phase(b) => Phase(b)'
  BY AggregateFeesOfPagePhase DEF IInv
<1>3. /\ held' \in [Assets -> Nat] /\ owed' \in [Contracts -> [Assets -> Nat]]
      /\ earned' \in 0..MaxEarned
  BY <1>1 DEF IInv, TypeOK
<1> QED
  BY <1>1, <1>2, <1>3, ContinuedInv

LEMMA CollectProtocolFeesTypes ==
  ASSUME IInv, CollectProtocolFees
  PROVE  held' \in [Assets -> Nat] /\ owed' \in [Contracts -> [Assets -> Nat]]
<1>1. PICK c : c = Head(tasks).of
  OBVIOUS
<1>2. PICK b \in Snapshots : Phase(b)
  BY DEF IInv, CallInv, CollectProtocolFees, Message
<1>3. tasks # <<>> /\ Head(tasks).msg = "collect_protocol_fees"
  BY DEF CollectProtocolFees, Message
<1>4. \E rest \in Seq(Messages) : \E all :
        /\ rest # <<>> => Head(rest).msg # "collect_protocol_fees"
        /\ InCollection(b, rest, all)
  <2>1. CASE \E all \in SUBSET Contracts : InCollection(b, <<>>, all)
    <3>1. <<>> \in Seq(Messages)
      OBVIOUS
    <3> QED
      BY <2>1, <3>1
  <2>2. ASSUME NEW ask \in Assets, InForwarding(b, ask)
        PROVE  \E rest \in Seq(Messages) : \E all :
                 /\ rest # <<>> => Head(rest).msg # "collect_protocol_fees"
                 /\ InCollection(b, rest, all)
    <3>1. /\ AfterVaults(ask) \in Seq(Messages) /\ AfterPools(ask) \in Seq(Messages)
          /\ Head(AfterVaults(ask)).msg # "collect_protocol_fees"
          /\ Head(AfterPools(ask)).msg # "collect_protocol_fees"
      BY EpochTasks
    <3>2. \/ InCollection(b, AfterVaults(ask), ToSet(FirstPage("vault")))
          \/ InCollection(b, AfterPools(ask), ListedContracts)
      BY <1>3, <2>2, NextMessage
    <3> QED
      BY <3>1, <3>2
  <2> QED
    BY <1>2, <1>3, <2>1, <2>2, OtherCalls DEF Phase
<1>5. PICK rest, all :
        /\ rest \in Seq(Messages)
        /\ rest # <<>> => Head(rest).msg # "collect_protocol_fees"
        /\ InCollection(b, rest, all)
  BY <1>4
<1>6. InCollection(b, rest, all)'
  BY <1>5, CollectionGoesOn DEF IInv
<1>7. PICK C \in SUBSET Contracts : Collected(b, C)'
  BY <1>6 DEF InCollection
<1>8. owed' = LeftIn(b, C) /\ held' = GatheredIn(b, C)
  BY <1>7 DEF Collected
<1> QED
  BY <1>8, FeesNat

LEMMA CollectProtocolFeesInv == ASSUME IInv, CollectProtocolFees PROVE IInv'
<1>1. /\ tasks # <<>> /\ Continue(<<>>)
      /\ UNCHANGED <<coll_config, tmp_epoch, forwarded, earned>>
  BY DEF CollectProtocolFees, Message
<1>2. \A b \in Snapshots : Phase(b) => Phase(b)'
  BY CollectProtocolFeesPhase DEF IInv
<1>3. held' \in [Assets -> Nat] /\ owed' \in [Contracts -> [Assets -> Nat]]
  BY CollectProtocolFeesTypes
<1>4. earned' \in 0..MaxEarned
  BY <1>1 DEF IInv, TypeOK
<1> QED
  BY <1>1, <1>2, <1>3, <1>4, ContinuedInv

LEMMA SwapInv == ASSUME IInv, Swap PROVE IInv'
<1>1. /\ tasks # <<>> /\ Continue(<<>>)
      /\ UNCHANGED <<coll_config, tmp_epoch, forwarded>>
  BY DEF Swap, Message
<1>2. \A b \in Snapshots : Phase(b) => Phase(b)'
  BY SwapPhase DEF IInv
<1>3. PICK b \in Snapshots : Phase(b)
  BY <1>1 DEF IInv, CallInv
<1>4. /\ held' \in [Assets -> Nat] /\ owed' \in [Contracts -> [Assets -> Nat]]
      /\ earned' <= MaxEarned /\ earned' \in Nat
  BY <1>3, SwapPhase DEF IInv
<1>5. earned' \in 0..MaxEarned
  BY <1>4, CollectorAssumption
<1> QED
  BY <1>1, <1>2, <1>4, <1>5, ContinuedInv

(* The reply is the last message of a forwarding.                           *)
LEMMA ReplyLast ==
  ASSUME IInv, Reply
  PROVE  \E b \in Snapshots, ask \in Assets :
           /\ before = b /\ tmp_epoch.asset = ask
           /\ Sold(b, ListedContracts, ask) /\ ToBeSold(ask, <<>>, {})
           /\ tasks' = <<>> /\ before' = NoSnapshot
<1>1. /\ tasks # <<>> /\ Head(tasks).msg = "reply"
      /\ tmp_epoch # NoEpoch /\ Continue(<<>>)
  BY DEF Reply, Message
<1>2. PICK b \in Snapshots : before = b /\ Phase(b)
  BY <1>1 DEF IInv, CallInv
<1>3. PICK ask \in Assets : tmp_epoch.asset = ask /\ InForwarding(b, ask)
  BY <1>1, <1>2, OtherCalls DEF Phase
<1>4. tasks = AfterPoolSales /\ Sold(b, ListedContracts, ask) /\ ToBeSold(ask, <<>>, {})
  BY <1>1, <1>3, NextMessage
<1>5. tasks' = <<>>
  <2>1. Tail(tasks) = <<>>
    BY <1>3, <1>4, EpochTasks
  <2> QED
    BY <1>1, <2>1 DEF Continue
<1>6. before' = NoSnapshot
  BY <1>1, <1>5 DEF Continue
<1> QED
  BY <1>2, <1>3, <1>4, <1>5, <1>6

LEMMA ReplyInv == ASSUME IInv, Reply PROVE IInv'
<1>1. PICK ask \in Assets : tmp_epoch.asset = ask /\ tasks' = <<>> /\ before' = NoSnapshot
  BY ReplyLast
<1>2. /\ forwarded' = forwarded + held[ask]
      /\ held' = [held EXCEPT ![ask] = 0]
      /\ tmp_epoch' = NoEpoch
      /\ UNCHANGED <<coll_config, owed, earned>>
  BY <1>1 DEF Reply, TmpEpochAfter
<1>3. held \in [Assets -> Nat] /\ forwarded \in Nat
  BY DEF IInv, TypeOK
<1>4. forwarded' \in Nat
  <2>1. held[ask] \in Nat
    BY <1>3
  <2> QED
    BY <1>2, <1>3, <2>1
<1>5. held' \in [Assets -> Nat]
  BY <1>2, <1>3
<1>6. TypeOK'
  BY <1>1, <1>2, <1>4, <1>5 DEF IInv, TypeOK
<1> QED
  BY <1>1, <1>6 DEF IInv, CallInv

LEMMA FailInv == ASSUME IInv, Fail PROVE IInv'
<1>1. tasks # <<>>
  BY DEF Fail, Message
<1>2. PICK b \in Snapshots : before = b /\ b.earned <= MaxEarned
  BY <1>1 DEF IInv, CallInv
<1>3. /\ tmp_epoch' = b.tmp_epoch /\ owed' = b.owed /\ held' = b.held
      /\ forwarded' = b.forwarded /\ earned' = b.earned
      /\ tasks' = <<>> /\ before' = NoSnapshot /\ coll_config' = coll_config
  BY <1>2 DEF Fail
<1>4. /\ b.tmp_epoch \in [epoch : Epochs, asset : Assets] \cup {NoEpoch}
      /\ b.owed \in [Contracts -> [Assets -> Nat]] /\ b.held \in [Assets -> Nat]
      /\ b.forwarded \in Nat /\ b.earned \in Nat
  BY DEF Snapshots
<1>5. b.earned \in 0..MaxEarned
  BY <1>2, <1>4, CollectorAssumption
<1>6. TypeOK'
  BY <1>3, <1>4, <1>5 DEF IInv, TypeOK
<1> QED
  BY <1>3, <1>6 DEF IInv, CallInv

LEMMA UpdateConfigInv ==
  ASSUME IInv, NEW sender \in Admins, NEW owner \in Admins, NEW d \in Distributors,
         UpdateConfig(sender, owner, d)
  PROVE  IInv'
<1>1. /\ tasks = <<>> /\ tasks' = tasks /\ before' = before
      /\ coll_config' = [owner |-> owner, fee_distributor |-> d]
      /\ UNCHANGED <<tmp_epoch, owed, held, forwarded, earned>>
  BY DEF UpdateConfig
<1>2. TypeOK'
  BY <1>1 DEF IInv, TypeOK
<1> QED
  BY <1>1, <1>2 DEF IInv, CallInv

LEMMA EarnInv ==
  ASSUME IInv, NEW c \in Contracts, NEW a, Earn(c, a)
  PROVE  IInv'
<1>1. /\ tasks = <<>> /\ tasks' = tasks /\ before' = before
      /\ owed' = [owed EXCEPT ![c][a] = @ + 1]
      /\ earned' = earned + 1 /\ earned < MaxEarned
      /\ UNCHANGED <<coll_config, tmp_epoch, held, forwarded>>
  BY DEF Earn
<1>2. owed \in [Contracts -> [Assets -> Nat]] /\ earned \in 0..MaxEarned
  BY DEF IInv, TypeOK
<1>3. owed' \in [Contracts -> [Assets -> Nat]]
  <2>0. PICK g \in [Assets -> Nat] : g = owed[c]
    BY <1>2
  <2>1. PICK h : g = owed[c] /\ h = [g EXCEPT ![a] = @ + 1]
    BY <2>0
  <2>2. h = [x \in Assets |-> IF x = a THEN g[x] + 1 ELSE g[x]]
    BY <2>1
  <2>3. \A x \in Assets : g[x] \in Nat /\ g[x] + 1 \in Nat
    BY <2>1
  <2>4. h \in [Assets -> Nat]
    BY <2>2, <2>3
  <2>5. owed' = [owed EXCEPT ![c] = h]
    BY <1>1, <2>1
  <2> QED
    BY <1>2, <2>4, <2>5
<1>4. earned' \in 0..MaxEarned
  BY <1>1, <1>2, CollectorAssumption
<1>5. TypeOK'
  BY <1>1, <1>3, <1>4 DEF IInv, TypeOK
<1> QED
  BY <1>1, <1>5 DEF IInv, CallInv

(* The contracts and pages a call from outside may name.                    *)
LEMMA NamedContracts ==
  /\ \A contracts \in SUBSET Contracts : SetToSeq(contracts) \in Seq(Contracts)
  /\ \A kind \in {"vault", "pool"}, limit \in 1..PageLimit :
       \A start \in 0..(Len(Listing[kind]) - 1) :
         Page(kind, start, limit) \in Seq(Contracts)
  /\ \A c \in Contracts : <<c>> \in Seq(Contracts)
<1>1. ASSUME NEW contracts \in SUBSET Contracts
      PROVE  SetToSeq(contracts) \in Seq(Contracts)
  <2>1. IsFiniteSet(contracts)
    BY ContractsFinite, FS_Subset
  <2>2. SetToSeq(contracts) \in Seq(contracts)
    BY <2>1, ListedOnce
  <2> QED
    BY <2>2, SeqMonotonic
<1>2. ASSUME NEW kind \in {"vault", "pool"}, NEW limit \in 1..PageLimit,
             NEW start \in 0..(Len(Listing[kind]) - 1)
      PROVE  Page(kind, start, limit) \in Seq(Contracts)
  <2>1. start \in Nat /\ limit \in Nat
    OBVIOUS
  <2> QED
    BY <2>1, PageOfList
<1>3. \A c \in Contracts : <<c>> \in Seq(Contracts)
  OBVIOUS
<1> QED
  BY <1>1, <1>2, <1>3

LEMMA CollectFeesInv ==
  ASSUME IInv, NEW o, NEW cs \in Seq(Contracts), CollectFees(o, cs)
  PROVE  IInv'
BY CollectInv DEF CollectFees

LEMMA CollectByAnyoneInv ==
  ASSUME IInv, NEW c \in Contracts, CollectByAnyone(c)
  PROVE  IInv'
BY NamedContracts, CollectInv DEF CollectByAnyone

LEMMA SamePhase ==
  ASSUME UNCHANGED vars, NEW b, Phase(b)
  PROVE  Phase(b)'
<1>1. /\ tasks' = tasks /\ owed' = owed /\ held' = held
      /\ forwarded' = forwarded /\ tmp_epoch' = tmp_epoch
  BY DEF vars
<1>2. ASSUME NEW C PROVE Collected(b, C)' <=> Collected(b, C)
  BY <1>1 DEF Collected
<1>3. ASSUME NEW C, NEW ask PROVE Sold(b, C, ask)' <=> Sold(b, C, ask)
  BY <1>1 DEF Sold
<1>4. ASSUME NEW ask, NEW sw PROVE Queue(ask, sw)' <=> Queue(ask, sw)
  BY <1>1 DEF Queue
<1>5. ASSUME NEW ask, NEW sw, NEW still
      PROVE  ToBeSold(ask, sw, still)' <=> ToBeSold(ask, sw, still)
  BY <1>1 DEF ToBeSold
<1>6. ASSUME NEW rest, NEW all
      PROVE  InCollection(b, rest, all)' <=> InCollection(b, rest, all)
  BY <1>1, <1>2 DEF InCollection
<1>7. ASSUME NEW C, NEW ask, NEW rest, NEW still
      PROVE  InSale(b, C, ask, rest, still)' <=> InSale(b, C, ask, rest, still)
  BY <1>1, <1>3, <1>4, <1>5 DEF InSale
<1>8. ASSUME NEW ask PROVE InForwarding(b, ask)' <=> InForwarding(b, ask)
  BY <1>1, <1>2, <1>6, <1>7 DEF InForwarding
<1> QED
  BY <1>1, <1>6, <1>7, <1>8 DEF Phase

LEMMA Step == IInv /\ [Next]_vars => IInv'
<1> SUFFICES ASSUME IInv, [Next]_vars
             PROVE  IInv'
  OBVIOUS
<1>1. ASSUME NEW d \in Distributors, NEW e \in Epochs, NEW ask \in Assets,
             ForwardFees(d, e, ask)
      PROVE  IInv'
  BY <1>1, ForwardFeesInv
<1>2. ASSUME NEW o \in Admins, NEW contracts \in SUBSET Contracts,
             CollectFees(o, SetToSeq(contracts))
      PROVE  IInv'
  <2>1. PICK cs \in Seq(Contracts) : cs = SetToSeq(contracts)
    BY NamedContracts
  <2> QED
    BY <1>2, <2>1, CollectFeesInv
<1>3. ASSUME NEW o \in Admins, NEW kind \in {"vault", "pool"}, NEW limit \in 1..PageLimit,
             NEW start \in 0..(Len(Listing[kind]) - 1),
             \/ CollectFees(o, Page(kind, start, limit))
             \/ \E ask \in Assets : AggregateFees(o, Page(kind, start, limit), ask)
      PROVE  IInv'
  <2>1. PICK cs \in Seq(Contracts) : cs = Page(kind, start, limit)
    BY NamedContracts
  <2> QED
    BY <1>3, <2>1, CollectFeesInv, AggregateFeesInv
<1>4. ASSUME NEW sender \in Admins, NEW owner \in Admins, NEW d \in Distributors,
             UpdateConfig(sender, owner, d)
      PROVE  IInv'
  BY <1>4, UpdateConfigInv
<1>5. ASSUME NEW c \in Contracts, NEW i \in DOMAIN AssetsOf[c], Earn(c, AssetsOf[c][i])
      PROVE  IInv'
  BY <1>5, EarnInv
<1>6. ASSUME NEW c \in Contracts, CollectByAnyone(c)
      PROVE  IInv'
  BY <1>6, CollectByAnyoneInv
<1>7. CASE UNCHANGED vars
  <2>1. TypeOK'
    BY <1>7 DEF IInv, TypeOK, vars
  <2>2. ASSUME NEW b \in Snapshots, Phase(b)
        PROVE  Phase(b)'
    BY <1>7, <2>2, SamePhase
  <2>3. tasks' = tasks /\ before' = before
    BY <1>7 DEF vars
  <2> QED
    BY <2>1, <2>2, <2>3 DEF IInv, CallInv
<1> QED
  BY <1>1, <1>2, <1>3, <1>4, <1>5, <1>6, <1>7, CollectFeesOfPageInv,
     AggregateFeesOfPageInv, CollectProtocolFeesInv, SwapInv, ReplyInv, FailInv
  DEF Next

LEMMA Invariance == Spec => []IInv
BY InitInv, Step, PTL DEF Spec

(* No balance falls below nothing: every swap that is sent finds the amount *)
(* that was read for it, however many have been queued before it.           *)
THEOREM TypeCorrect == Spec => []TypeOK
<1>1. IInv => TypeOK
  BY DEF IInv
<1> QED
  BY <1>1, Invariance, PTL

-----------------------------------------------------------------------------
(* Foretold and collected *)

(* What query_fees answers for contracts named once each.                   *)
LEMMA QueryIsTotal ==
  ASSUME NEW b \in Snapshots, NEW cs \in Seq(Contracts), IsInjective(cs),
         NEW a \in Assets
  PROVE  QueryFees(cs, b.owed)[a] = Sum(FeesOf(b, a), ToSet(cs))
<1> DEFINE asked == {i \in DOMAIN cs : i > 1 => cs[i] # cs[i - 1]}
           f == FeesOf(b, a)
<1>1. DOMAIN cs = 1..Len(cs) /\ Len(cs) \in Nat /\ ToSet(cs) \in SUBSET Contracts
  BY MembersFinite
<1>2. asked = DOMAIN cs
  <2>1. ASSUME NEW i \in DOMAIN cs, i > 1
        PROVE  cs[i] # cs[i - 1]
    <3>1. i - 1 \in DOMAIN cs /\ i - 1 # i
      BY <1>1, <2>1
    <3> QED
      BY <3>1 DEF IsInjective
  <2> QED
    BY <2>1
<1>3. \A x \in ToSet(cs) : f[x] \in Nat
  BY <1>1, FeesNat
<1>4. \A i \in DOMAIN cs : cs[i] \in Contracts /\ f[cs[i]] = b.owed[cs[i]][a]
  BY <1>1 DEF FeesOf, ToSet
<1> HIDE DEF asked, f
<1>5. Sum([i \in DOMAIN cs |-> f[cs[i]]], DOMAIN cs) = Sum(f, ToSet(cs))
  BY <1>3, SumOfListed
<1>6. [i \in DOMAIN cs |-> f[cs[i]]] = [i \in DOMAIN cs |-> b.owed[cs[i]][a]]
  BY <1>4
<1>7. QueryFees(cs, b.owed)[a]
        = Sum([i \in DOMAIN cs |-> b.owed[cs[i]][a]], DOMAIN cs)
  BY <1>2 DEF QueryFees, asked
<1> QED
  BY <1>5, <1>6, <1>7 DEF f

(* When the fees of an epoch have been collected, the collector has got     *)
(* what query_fees foretold for the pages of both factories when the epoch  *)
(* was asked for.                                                           *)
THEOREM CollectedAsForetold == Spec => []CollectionForetold
<1>1. ASSUME IInv, Message("aggregate_fees"), Head(tasks).of = "vault"
      PROVE  held = [a \in Assets |->
                       before.held[a] + QueryFees(FirstPage("vault"), before.owed)[a]
                         + QueryFees(FirstPage("pool"), before.owed)[a]]
  <2>1. tasks # <<>> /\ Head(tasks).msg = "aggregate_fees"
    BY <1>1 DEF Message
  <2>2. PICK b \in Snapshots : before = b /\ Phase(b)
    BY <1>1, <2>1 DEF IInv, CallInv
  <2>3. PICK ask \in Assets : InForwarding(b, ask)
    BY <2>1, <2>2, OtherCalls DEF Phase
  <2>4. \/ Collected(b, ListedContracts)
        \/ tasks = AfterVaultSales(ask)
    BY <2>1, <2>3, NextMessage
  <2>5. tasks # AfterVaultSales(ask)
    BY <1>1, EpochTasks
  <2>6. held = GatheredIn(b, ListedContracts)
    BY <2>4, <2>5 DEF Collected
  <2> DEFINE V == ToSet(FirstPage("vault"))
             P == ToSet(FirstPage("pool"))
  <2>7. /\ V \in SUBSET Contracts /\ P \in SUBSET Contracts /\ V \cap P = {}
        /\ ListedContracts = V \cup P
    BY FirstPages, CollectorAssumption DEF Contracts, ListedContracts
  <2>8. ASSUME NEW a \in Assets
        PROVE  b.held[a] + Sum(FeesOf(b, a), ListedContracts)
                 = b.held[a] + QueryFees(FirstPage("vault"), b.owed)[a]
                     + QueryFees(FirstPage("pool"), b.owed)[a]
    <3> DEFINE f == FeesOf(b, a)
    <3>1. /\ QueryFees(FirstPage("vault"), b.owed)[a] = Sum(f, V)
          /\ QueryFees(FirstPage("pool"), b.owed)[a] = Sum(f, P)
      BY FirstPages, QueryIsTotal
    <3>2. IsFiniteSet(V) /\ IsFiniteSet(P) /\ V \cup P \in SUBSET Contracts
      BY <2>7, FeesNat
    <3>3. \A c \in V \cup P : f[c] \in Nat
      BY <3>2, FeesNat
    <3> HIDE DEF f, V, P
    <3>4. Sum(f, V \cup P) = Sum(f, V) + Sum(f, P)
      BY <2>7, <3>2, <3>3, SumDisjoint
    <3>5. Sum(f, V) \in Nat /\ Sum(f, P) \in Nat
      BY <3>2, <3>3, SumNat
    <3>6. b.held[a] \in Nat
      BY DEF Snapshots
    <3> QED
      BY <2>7, <3>1, <3>4, <3>5, <3>6 DEF f
  <2> HIDE DEF V, P
  <2>9. GatheredIn(b, ListedContracts)
          = [a \in Assets |->
               b.held[a] + QueryFees(FirstPage("vault"), b.owed)[a]
                 + QueryFees(FirstPage("pool"), b.owed)[a]]
    BY <2>8 DEF GatheredIn
  <2> QED
    BY <2>2, <2>6, <2>9
<1>2. IInv => CollectionForetold
  BY <1>1 DEF CollectionForetold
<1> QED
  BY <1>2, Invariance, PTL

-----------------------------------------------------------------------------
(* One step, seen from outside                                              *)

LEMMA PromiseSums ==
  ASSUME NEW f, NEW S
  PROVE  Promise!Sum(f, S) = Sum(f, S)
BY DEF Promise!Sum, Sum, Promise!Units, Units, Promise!Cardinality, Cardinality

(* What is seen when a transaction of one step, or the last step of one     *)
(* that began in b, leads to the state after it.                            *)
Seen(b) == (InProgress => before = b) /\ (~InProgress =>
             owed = b.owed /\ held = b.held /\ forwarded = b.forwarded)

LEMMA SeenState ==
  ASSUME NEW b, Seen(b)
  PROVE  /\ (IF InProgress THEN before.owed ELSE owed) = b.owed
         /\ (IF InProgress THEN before.held ELSE held) = b.held
         /\ (IF InProgress THEN before.forwarded ELSE forwarded) = b.forwarded
BY DEF Seen

LEMMA SeenLater ==
  ASSUME NEW b, Seen(b)'
  PROVE  /\ (IF InProgress THEN before.owed ELSE owed)' = b.owed
         /\ (IF InProgress THEN before.held ELSE held)' = b.held
         /\ (IF InProgress THEN before.forwarded ELSE forwarded)' = b.forwarded
<1>1. CASE InProgress'
  BY <1>1 DEF Seen
<1>2. CASE ~InProgress'
  BY <1>2 DEF Seen
<1> QED
  BY <1>1, <1>2

LEMMA Unseen ==
  ASSUME NEW b, Seen(b), Seen(b)'
  PROVE  UNCHANGED Promise!vars
BY SeenState, SeenLater DEF Promise!vars

(* What Gather, Sell and Forward do, in terms of the fees of this module.   *)
LEMMA PromisedGather ==
  ASSUME NEW b \in Snapshots, NEW C \in SUBSET Contracts,
         Seen(b), ~InProgress', Collected(b, C)'
  PROVE  Promise!Next
<1>1. /\ (IF InProgress THEN before.owed ELSE owed) = b.owed
      /\ (IF InProgress THEN before.held ELSE held) = b.held
      /\ (IF InProgress THEN before.forwarded ELSE forwarded) = b.forwarded
  BY SeenState
<1>2. owed' = LeftIn(b, C) /\ held' = GatheredIn(b, C) /\ forwarded' = b.forwarded
  BY DEF Collected
<1>3. Promise!Left(C) = LeftIn(b, C)
  BY <1>1 DEF Promise!Left, LeftIn
<1>4. ASSUME NEW a \in Assets
      PROVE  Promise!Sum([c \in C |-> b.owed[c][a]], C) = Sum(FeesOf(b, a), C)
  <2> DEFINE f == [c \in C |-> b.owed[c][a]]
             g == FeesOf(b, a)
  <2>1. \A c \in C : f[c] = g[c]
    BY DEF FeesOf
  <2> HIDE DEF f, g
  <2>2. Sum(f, C) = Sum(g, C)
    BY <2>1, SumExt
  <2>3. Promise!Sum(f, C) = Sum(f, C)
    BY PromiseSums
  <2> QED
    BY <2>2, <2>3 DEF f, g
<1>5. Promise!Gathered(C) = GatheredIn(b, C)
  BY <1>1, <1>4 DEF Promise!Gathered, GatheredIn
<1>6. Promise!Gather(C)
  BY <1>1, <1>2, <1>3, <1>5 DEF Promise!Gather
<1> QED
  BY <1>6 DEF Promise!Next

LEMMA PromisedSell ==
  ASSUME NEW b \in Snapshots, NEW ask \in Assets,
         Seen(b), ~InProgress', Sold(b, {}, ask)', TypeOK'
  PROVE  Promise!Next
<1>1. /\ (IF InProgress THEN before.owed ELSE owed) = b.owed
      /\ (IF InProgress THEN before.held ELSE held) = b.held
      /\ (IF InProgress THEN before.forwarded ELSE forwarded) = b.forwarded
  BY SeenState
<1>2. LeftIn(b, {}) = b.owed /\ GatheredIn(b, {}) = b.held
  BY NothingCollected
<1>3. /\ forwarded' = b.forwarded
      /\ \A c \in Contracts, a \in Assets :
           IF c \in ToSet(Vaults) THEN owed'[c][a] = b.owed[c][a]
                                  ELSE owed'[c][a] >= b.owed[c][a]
      /\ held'[ask] >= b.held[ask]
      /\ \A a \in Assets \ {ask} :
           held'[a] = b.held[a] \/ (a \in Sellable(ask) /\ held'[a] = 0)
  BY <1>2 DEF Sold
<1>4. held' \in [Assets -> Nat] /\ owed' \in [Contracts -> [Assets -> Nat]]
  BY DEF TypeOK
<1>5. Promise!OwedAfter(b.owed)
  BY <1>3, <1>4 DEF Promise!OwedAfter
<1>6. Promise!Sell(ask)
  BY <1>1, <1>3, <1>4, <1>5 DEF Promise!Sell
<1> QED
  BY <1>6 DEF Promise!Next

LEMMA PromisedForward ==
  ASSUME IInv, Reply
  PROVE  Promise!Next
<1>1. PICK b \in Snapshots, ask \in Assets :
        /\ before = b /\ tmp_epoch.asset = ask
        /\ Sold(b, ListedContracts, ask) /\ ToBeSold(ask, <<>>, {})
        /\ tasks' = <<>> /\ before' = NoSnapshot
  BY ReplyLast
<1>2. Seen(b) /\ ~InProgress'
  BY <1>1 DEF Seen, InProgress, Reply, Message
<1>3. /\ (IF InProgress THEN before.owed ELSE owed) = b.owed
      /\ (IF InProgress THEN before.held ELSE held) = b.held
      /\ (IF InProgress THEN before.forwarded ELSE forwarded) = b.forwarded
  BY <1>2, SeenState
<1>4. /\ forwarded' = forwarded + held[ask]
      /\ held' = [held EXCEPT ![ask] = 0]
      /\ owed' = owed
  BY <1>1 DEF Reply
<1>5. /\ held \in [Assets -> Nat] /\ owed \in [Contracts -> [Assets -> Nat]]
      /\ forwarded \in Nat
  BY DEF IInv, TypeOK
<1> DEFINE L == ListedContracts
<1>6. L \in SUBSET Contracts
  BY FirstPages
<1>7. LeftIn(b, L) \in [Contracts -> [Assets -> Nat]] /\ GatheredIn(b, L) \in [Assets -> Nat]
  BY <1>6, FeesNat
<1>8. Promise!Left(L) = LeftIn(b, L)
  BY <1>3 DEF Promise!Left, LeftIn
<1>9. Promise!Gathered(L) = GatheredIn(b, L)
  <2>1. ASSUME NEW a \in Assets
        PROVE  Promise!Sum([c \in L |-> b.owed[c][a]], L) = Sum(FeesOf(b, a), L)
    <3> DEFINE f == [c \in L |-> b.owed[c][a]]
               g == FeesOf(b, a)
    <3>1. \A c \in L : f[c] = g[c]
      BY <1>6 DEF FeesOf
    <3> HIDE DEF f, g, L
    <3>2. Sum(f, L) = Sum(g, L)
      BY <3>1, SumExt
    <3>3. Promise!Sum(f, L) = Sum(f, L)
      BY PromiseSums
    <3> QED
      BY <3>2, <3>3 DEF f, g
  <2> QED
    BY <1>3, <2>1 DEF Promise!Gathered, GatheredIn
<1>10. Promise!OwedAfter(LeftIn(b, L))
  <2>1. \A c \in Contracts, a \in Assets :
          IF c \in ToSet(Vaults) THEN owed'[c][a] = LeftIn(b, L)[c][a]
                                 ELSE owed'[c][a] >= LeftIn(b, L)[c][a]
    BY <1>1, <1>4 DEF Sold
  <2>2. owed' \in [Contracts -> [Assets -> Nat]]
    BY <1>4, <1>5
  <2>3. (IF InProgress THEN before.owed ELSE owed)' = owed'
    BY <1>2
  <2> HIDE DEF L
  <2> QED
    BY <2>1, <2>2, <2>3 DEF Promise!OwedAfter
<1>11. held' \in [Assets -> Nat] /\ held'[ask] = 0
  BY <1>4, <1>5
<1>12. ASSUME NEW a \in Assets \ {ask}
       PROVE  \/ a \in Sellable(ask) /\ held'[a] = 0
              \/ a \notin SureToSell(ask) /\ held'[a] = GatheredIn(b, L)[a]
  <2>1. held'[a] = held[a]
    BY <1>4, <1>5
  <2>2. held[a] = GatheredIn(b, L)[a] \/ (a \in Sellable(ask) /\ held[a] = 0)
    BY <1>1 DEF Sold
  <2>3. a \in SureToSell(ask) => a \in Sellable(ask) /\ held[a] = 0
    BY <1>1 DEF ToBeSold, SureToSell
  <2> QED
    BY <2>1, <2>2, <2>3
<1>13. forwarded' \in Nat /\ forwarded' >= b.forwarded + GatheredIn(b, L)[ask]
  <2> DEFINE h == held[ask]
             g == GatheredIn(b, L)[ask]
  <2>1. h \in Nat /\ g \in Nat
    BY <1>5, <1>7
  <2>2. forwarded = b.forwarded /\ h >= g
    BY <1>1 DEF Sold
  <2> HIDE DEF h, g
  <2>3. forwarded + h \in Nat /\ forwarded + h >= b.forwarded + g
    BY <2>1, <2>2, <1>5
  <2> QED
    BY <2>3, <1>4 DEF h, g
<1>14. Promise!Forward(ask)
  <2>1. (IF InProgress THEN before.owed ELSE owed)' = owed'
        /\ (IF InProgress THEN before.held ELSE held)' = held'
        /\ (IF InProgress THEN before.forwarded ELSE forwarded)' = forwarded'
    BY <1>2
  <2> QED
    BY <1>3, <1>8, <1>9, <1>10, <1>11, <1>12, <1>13, <2>1 DEF Promise!Forward
<1> QED
  BY <1>14 DEF Promise!Next

LEMMA PromisedEarn ==
  ASSUME NEW c \in Contracts, NEW i \in DOMAIN AssetsOf[c], Earn(c, AssetsOf[c][i])
  PROVE  Promise!Next
<1>1. PICK a : a = AssetsOf[c][i]
  OBVIOUS
<1>2. a \in Assets
  <2>1. AssetsOf[c] \in Seq(Assets)
    BY CollectorAssumption
  <2> QED
    BY <1>1, <2>1, MembersFinite, ElementOfSeq
<1>3. /\ ~InProgress /\ ~InProgress'
      /\ owed' = [owed EXCEPT ![c][a] = @ + 1]
      /\ held' = held /\ forwarded' = forwarded
  BY <1>1 DEF Earn, InProgress
<1>4. Promise!Earn(c, a)
  BY <1>3 DEF Promise!Earn
<1> QED
  BY <1>2, <1>4 DEF Promise!Next

(* A call begins, and nothing of it is seen yet.                            *)
LEMMA BeginUnseen ==
  ASSUME IInv, NEW messages, Begin(messages)
  PROVE  UNCHANGED Promise!vars
<1>1. PICK b : before' = b /\ b = Snapshot /\ tasks' # <<>> /\ tasks = <<>>
  BY Begun DEF IInv, Begin
<1>2. Seen(b)
  BY <1>1 DEF Seen, InProgress, Snapshot
<1>3. Seen(b)'
  BY <1>1 DEF Seen, InProgress
<1> QED
  BY <1>2, <1>3, Unseen

(* A message that is not the last leaves nothing to be seen; the last one   *)
(* of a collection or of a sale, all of it.                                 *)
LEMMA ContinuedSeen ==
  ASSUME IInv, IInv', tasks # <<>>, NEW messages, Continue(messages),
         \A b \in Snapshots : Phase(b) => Phase(b)'
  PROVE  Promise!Next \/ UNCHANGED Promise!vars
<1>1. PICK b \in Snapshots : before = b /\ Phase(b)
  BY DEF IInv, CallInv
<1>2. Seen(b)
  BY <1>1 DEF Seen, InProgress
<1>3. CASE tasks' # <<>>
  <2>1. before' = b
    BY <1>1, <1>3 DEF Continue
  <2>2. Seen(b)'
    BY <1>3, <2>1 DEF Seen, InProgress
  <2> QED
    BY <1>2, <2>2, Unseen
<1>4. CASE tasks' = <<>>
  <2>1. ~InProgress' /\ TypeOK'
    BY <1>4 DEF InProgress, IInv
  <2>2. ASSUME NEW all, InCollection(b, <<>>, all)'
        PROVE  Promise!Next
    <3>1. PICK C \in SUBSET Contracts : Collected(b, C)'
      BY <2>2 DEF InCollection
    <3> QED
      BY <1>2, <2>1, <3>1, PromisedGather
  <2>3. ASSUME NEW ask \in Assets, InSale(b, {}, ask, <<>>, Assets)'
        PROVE  Promise!Next
    <3>1. Sold(b, {}, ask)'
      BY <2>3 DEF InSale
    <3> QED
      BY <1>2, <2>1, <3>1, PromisedSell
  <2>4. ASSUME NEW ask \in Assets, InForwarding(b, ask)'
        PROVE  FALSE
    <3>1. \A s \in Seq(Messages), r \in Seq(Messages) : r # <<>> => s \o r # <<>>
      BY ConcatEqualIffEmpty
    <3>2. ASSUME NEW r \in Seq(Messages), r # <<>>, NEW all, InCollection(b, r, all)'
          PROVE  FALSE
      <4>1. PICK cs \in Seq(Contracts) : tasks' = CollectFrom(cs) \o r
        BY <3>2 DEF InCollection
      <4>2. CollectFrom(cs) \in Seq(Messages)
        BY CollectTasks
      <4> QED
        BY <1>4, <3>1, <3>2, <4>1, <4>2
    <3>3. ASSUME NEW r \in Seq(Messages), r # <<>>, NEW C, NEW still,
                 InSale(b, C, ask, r, still)'
          PROVE  FALSE
      <4>1. PICK sw \in Seq(SwapMessages) : tasks' = sw \o r
        BY <3>3 DEF InSale
      <4>2. SwapMessages \subseteq Messages
        BY DEF Messages
      <4>3. sw \in Seq(Messages)
        BY <4>2, SeqMonotonic
      <4> QED
        BY <1>4, <3>1, <3>3, <4>1, <4>3
    <3> QED
      BY <1>4, <2>4, <3>2, <3>3, EpochTasks DEF InForwarding
  <2>5. Phase(b)'
    BY <1>1
  <2> QED
    BY <2>2, <2>3, <2>4, <2>5 DEF Phase
<1> QED
  BY <1>3, <1>4

LEMMA FailUnseen ==
  ASSUME IInv, Fail
  PROVE  UNCHANGED Promise!vars
<1>1. tasks # <<>>
  BY DEF Fail, Message
<1>2. PICK b : before = b
  OBVIOUS
<1>3. /\ owed' = b.owed /\ held' = b.held /\ forwarded' = b.forwarded /\ tasks' = <<>>
  BY <1>2 DEF Fail
<1>4. Seen(b)
  BY <1>1, <1>2 DEF Seen, InProgress
<1>5. Seen(b)'
  BY <1>3 DEF Seen, InProgress
<1> QED
  BY <1>4, <1>5, Unseen

LEMMA IdleUnseen ==
  ASSUME UNCHANGED <<owed, held, forwarded, tasks, before>>
  PROVE  UNCHANGED Promise!vars
BY DEF Promise!vars, InProgress

LEMMA PromiseInit == Init => Promise!Init
BY DEF Init, Promise!Init, InProgress

LEMMA PromiseStep == IInv /\ IInv' /\ [Next]_vars => [Promise!Next]_(Promise!vars)
<1> SUFFICES ASSUME IInv, IInv', [Next]_vars
             PROVE  Promise!Next \/ UNCHANGED Promise!vars
  OBVIOUS
<1>1. ASSUME NEW messages, Begin(messages)
      PROVE  UNCHANGED Promise!vars
  BY <1>1, BeginUnseen
<1>2. ASSUME NEW d, NEW e, NEW ask, ForwardFees(d, e, ask)
      PROVE  UNCHANGED Promise!vars
  BY <1>1, <1>2 DEF ForwardFees
<1>3. ASSUME NEW o, NEW cs, CollectFees(o, cs)
      PROVE  UNCHANGED Promise!vars
  BY <1>1, <1>3 DEF CollectFees
<1>4. ASSUME NEW o, NEW cs, NEW ask, AggregateFees(o, cs, ask)
      PROVE  UNCHANGED Promise!vars
  BY <1>1, <1>4 DEF AggregateFees
<1>5. ASSUME NEW c, CollectByAnyone(c)
      PROVE  UNCHANGED Promise!vars
  BY <1>1, <1>5 DEF CollectByAnyone
<1>6. ASSUME NEW sender, NEW owner, NEW d, UpdateConfig(sender, owner, d)
      PROVE  UNCHANGED Promise!vars
  BY <1>6, IdleUnseen DEF UpdateConfig
<1>7. ASSUME NEW c \in Contracts, NEW i \in DOMAIN AssetsOf[c], Earn(c, AssetsOf[c][i])
      PROVE  Promise!Next
  BY <1>7, PromisedEarn
<1>8. CASE CollectFeesOfPage
  <2>1. \A b \in Snapshots : Phase(b) => Phase(b)'
    BY <1>8, CollectFeesOfPagePhase
  <2> QED
    BY <1>8, <2>1, ContinuedSeen DEF CollectFeesOfPage, Message
<1>9. CASE AggregateFeesOfPage
  <2>1. \A b \in Snapshots : Phase(b) => Phase(b)'
    BY <1>9, AggregateFeesOfPagePhase DEF IInv
  <2> QED
    BY <1>9, <2>1, ContinuedSeen DEF AggregateFeesOfPage, Message
<1>10. CASE CollectProtocolFees
  <2>1. \A b \in Snapshots : Phase(b) => Phase(b)'
    BY <1>10, CollectProtocolFeesPhase DEF IInv
  <2> QED
    BY <1>10, <2>1, ContinuedSeen DEF CollectProtocolFees, Message
<1>11. CASE Swap
  <2>1. \A b \in Snapshots : Phase(b) => Phase(b)'
    BY <1>11, SwapPhase DEF IInv
  <2> QED
    BY <1>11, <2>1, ContinuedSeen DEF Swap, Message
<1>12. CASE Reply
  BY <1>12, PromisedForward
<1>13. CASE Fail
  BY <1>13, FailUnseen
<1>14. CASE UNCHANGED vars
  BY <1>14, IdleUnseen DEF vars
<1> QED
  BY <1>2, <1>3, <1>4, <1>5, <1>6, <1>7, <1>8, <1>9, <1>10, <1>11, <1>12, <1>13, <1>14
  DEF Next

(* Whatever messages a call consists of, and wherever it fails, it does     *)
(* from outside what FeeForwarding promises, or nothing.                    *)
THEOREM ForwardingKept == Spec => ForwardingSpec
<1>1. Init => Promise!Init
  BY PromiseInit
<1>2. IInv /\ IInv' /\ [Next]_vars => [Promise!Next]_(Promise!vars)
  BY PromiseStep
<1>3. Spec => Promise!Spec
  BY <1>1, <1>2, Invariance, PTL DEF Spec, Promise!Spec
<1> QED
  BY <1>3 DEF ForwardingSpec
=============================================================================
