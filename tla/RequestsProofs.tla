--------------------------- MODULE RequestsProofs ---------------------------
(***************************************************************************)
(* Proofs about Requests: that a query costs what its parts weigh, for     *)
(* every limit on their number, and that the resolvers keep their promises *)
(* beside the complexity plugin.                                           *)
(***************************************************************************)
EXTENDS Requests, ResolversProofs

-----------------------------------------------------------------------------
(* Sums                                                                      *)

\* A sum of natural numbers is one.
LEMMA SumIsNat ==
  ASSUME NEW n \in Nat, NEW w \in [1..n -> Nat]
  PROVE  Added(w, n) \in Nat
<1>1. PICK f \in [0..n -> Nat] : Added(w, n) = f[n]
  BY AddedIsASum
<1> QED BY <1>1

\* A sum of integers is one.
LEMMA SumIsInt ==
  ASSUME NEW n \in Nat, NEW w \in [1..n -> Int]
  PROVE  Added(w, n) \in Int
<1>1. PICK f \in [0..n -> Int] : Added(w, n) = f[n]
  BY AddedIsASumOfIntegers
<1> QED BY <1>1

\* Costs in natural numbers are integers.
LEMMA NatIsInt ==
  ASSUME NEW S, NEW c \in [S -> Nat]
  PROVE  c \in [S -> Int]
  OBVIOUS

\* A sum of n + 1 terms is that of n of them and the last.
LEMMA SumAppend ==
  ASSUME NEW n \in Nat, NEW w \in [1..n -> Int], NEW v \in [1..(n + 1) -> Int],
         \A i \in 1..n : v[i] = w[i]
  PROVE  Added(v, n + 1) = Added(w, n) + v[n + 1]
<1>1. n + 1 \in Nat /\ n + 1 \in 1..(n + 1) /\ (n + 1) - 1 = n
  OBVIOUS
<1>2. /\ Prefix(v, n + 1) = v
      /\ Added(Prefix(v, n + 1), n + 1) = Added(Prefix(v, n), n) + v[n + 1]
  BY <1>1, PrefixSumsOfIntegers
<1>3. Prefix(v, n) = w
  BY DEF Prefix
<1> QED BY <1>2, <1>3

\* The sums of no term, of one and of two.
LEMMA SumOfNone ==
  ASSUME NEW w \in [1..0 -> Nat]
  PROVE  Added(w, 0) = 0
  BY 0 \in Nat, AddedIsASum

LEMMA SumOfOne ==
  ASSUME NEW w \in [1..1 -> Nat]
  PROVE  Added(w, 1) = w[1]
<1> DEFINE none == [i \in 1..0 |-> 0]
<1>1. none \in [1..0 -> Nat] /\ 0 \in Nat /\ 0 + 1 = 1 /\ w[1] \in Nat
  OBVIOUS
<1>2. Added(none, 0) = 0
  BY <1>1, SumOfNone
<1>3. w \in [1..(0 + 1) -> Int] /\ none \in [1..0 -> Int] /\ \A i \in 1..0 : w[i] = none[i]
  OBVIOUS
<1> HIDE DEF none
<1>4. Added(w, 0 + 1) = Added(none, 0) + w[0 + 1]
  BY <1>1, <1>3, SumAppend
<1> QED BY <1>1, <1>2, <1>4

LEMMA SumOfTwo ==
  ASSUME NEW w \in [1..2 -> Nat]
  PROVE  Added(w, 2) = w[1] + w[2]
<1> DEFINE first == [i \in 1..1 |-> w[i]]
<1>1. first \in [1..1 -> Nat] /\ first[1] = w[1] /\ \A i \in 1..1 : w[i] = first[i]
  OBVIOUS
<1> HIDE DEF first
<1>2. Added(first, 1) = w[1]
  BY <1>1, SumOfOne
<1>3. w \in [1..(1 + 1) -> Int] /\ first \in [1..1 -> Int] /\ 1 \in Nat /\ 1 + 1 = 2
  BY <1>1
<1>4. Added(w, 1 + 1) = Added(first, 1) + w[1 + 1]
  BY <1>1, <1>3, SumAppend
<1> QED BY <1>2, <1>3, <1>4

\* Two sums that differ in their last term only.
LEMMA SumsOfOthers ==
  ASSUME NEW n \in Nat \ {0}, NEW w \in [1..n -> Int], NEW v \in [1..n -> Int],
         \A i \in 1..n : i # n => v[i] = w[i]
  PROVE  \E others \in Int : Added(w, n) = others + w[n] /\ Added(v, n) = others + v[n]
<1> DEFINE u == [i \in 1..(n - 1) |-> w[i]]
           m == n - 1
<1>1. m \in Nat /\ m + 1 = n /\ u \in [1..m -> Int]
  OBVIOUS
<1>2. \A i \in 1..m : w[i] = u[i] /\ v[i] = u[i]
  OBVIOUS
<1> HIDE DEF u, m
<1>3. w \in [1..(m + 1) -> Int] /\ v \in [1..(m + 1) -> Int]
  BY <1>1
<1>4. Added(w, m + 1) = Added(u, m) + w[m + 1]
  BY <1>1, <1>2, <1>3, SumAppend
<1>5. Added(v, m + 1) = Added(u, m) + v[m + 1]
  BY <1>1, <1>2, <1>3, SumAppend
<1>6. Added(u, m) \in Int
  BY <1>1, SumIsInt
<1> QED BY <1>1, <1>4, <1>5, <1>6

\* What the members of a sequence cost.
Costs(c, s) == Added([i \in DOMAIN s |-> c[s[i]]], Len(s))

\* What Costs adds are natural numbers, as many as s has members.
LEMMA CostsTyped ==
  ASSUME NEW S, NEW c \in [S -> Nat], NEW s \in Seq(S)
  PROVE  /\ Len(s) \in Nat /\ DOMAIN s = 1..Len(s)
         /\ [i \in DOMAIN s |-> c[s[i]]] \in [1..Len(s) -> Nat]
         /\ Costs(c, s) \in Nat
<1>1. Len(s) \in Nat /\ DOMAIN s = 1..Len(s) /\ \A i \in 1..Len(s) : s[i] \in S
  OBVIOUS
<1>2. [i \in DOMAIN s |-> c[s[i]]] \in [1..Len(s) -> Nat]
  BY <1>1
<1> QED BY <1>1, <1>2, SumIsNat DEF Costs

\* And integers, when the costs are.
LEMMA CostsInInt ==
  ASSUME NEW S, NEW c \in [S -> Int], NEW s \in Seq(S)
  PROVE  /\ Len(s) \in Nat /\ DOMAIN s = 1..Len(s)
         /\ [i \in DOMAIN s |-> c[s[i]]] \in [1..Len(s) -> Int]
         /\ Costs(c, s) \in Int
<1>1. Len(s) \in Nat /\ DOMAIN s = 1..Len(s) /\ \A i \in 1..Len(s) : s[i] \in S
  OBVIOUS
<1>2. [i \in DOMAIN s |-> c[s[i]]] \in [1..Len(s) -> Int]
  BY <1>1
<1> QED BY <1>1, <1>2, SumIsInt DEF Costs

\* What no member costs, one, two, and one more than those of s.
LEMMA CostsOfNone ==
  ASSUME NEW c
  PROVE  Costs(c, <<>>) = 0
<1>1. Len(<<>>) = 0 /\ [i \in DOMAIN <<>> |-> c[<<>>[i]]] \in [1..0 -> Nat]
  OBVIOUS
<1> QED BY <1>1, SumOfNone DEF Costs

LEMMA CostsOfOne ==
  ASSUME NEW S, NEW c \in [S -> Nat], NEW e \in S
  PROVE  Costs(c, <<e>>) = c[e]
<1>1. <<e>> \in Seq(S) /\ Len(<<e>>) = 1 /\ DOMAIN <<e>> = 1..1 /\ <<e>>[1] = e
  OBVIOUS
<1> DEFINE w == [i \in DOMAIN <<e>> |-> c[<<e>>[i]]]
<1>2. w \in [1..1 -> Nat] /\ w[1] = c[e]
  BY <1>1
<1>3. Costs(c, <<e>>) = Added(w, 1)
  BY <1>1 DEF Costs
<1> HIDE DEF w
<1> QED BY <1>2, <1>3, SumOfOne

LEMMA CostsOfTwo ==
  ASSUME NEW S, NEW c \in [S -> Nat], NEW d \in S, NEW e \in S
  PROVE  Costs(c, <<d, e>>) = c[d] + c[e]
<1>1. /\ Len(<<d, e>>) = 2 /\ DOMAIN <<d, e>> = 1..2
      /\ <<d, e>>[1] = d /\ <<d, e>>[2] = e
  OBVIOUS
<1> DEFINE w == [i \in DOMAIN <<d, e>> |-> c[<<d, e>>[i]]]
<1>2. w \in [1..2 -> Nat] /\ w[1] = c[d] /\ w[2] = c[e]
  BY <1>1
<1>3. Costs(c, <<d, e>>) = Added(w, 2)
  BY <1>1 DEF Costs
<1> HIDE DEF w
<1> QED BY <1>2, <1>3, SumOfTwo

LEMMA CostsOfAppend ==
  ASSUME NEW S, NEW c \in [S -> Int], NEW s \in Seq(S), NEW e \in S
  PROVE  Costs(c, Append(s, e)) = Costs(c, s) + c[e]
<1> DEFINE t == Append(s, e)
           w == [i \in DOMAIN s |-> c[s[i]]]
           v == [i \in DOMAIN t |-> c[t[i]]]
           n == Len(s)
<1>1. /\ t \in Seq(S) /\ Len(t) = n + 1 /\ t[n + 1] = e /\ n \in Nat
      /\ \A i \in 1..n : t[i] = s[i]
  OBVIOUS
<1>2. w \in [1..n -> Int] /\ v \in [1..(n + 1) -> Int]
  BY <1>1, CostsInInt
<1>3. v[n + 1] = c[e] /\ \A i \in 1..n : v[i] = w[i]
  BY <1>1
<1>4. Costs(c, s) = Added(w, n) /\ Costs(c, t) = Added(v, n + 1)
  BY <1>1 DEF Costs
<1> HIDE DEF w, v, n
<1> QED BY <1>1, <1>2, <1>3, <1>4, SumAppend

\* The sums of s, and of s with e as its last member, differ by these members only.
DifferByLast(c, s, e) ==
  \E others \in Int : /\ Costs(c, s) = others + c[s[Len(s)]]
                      /\ Costs(c, [s EXCEPT ![Len(s)] = e]) = others + c[e]

\* Only the last member is another one.
LEMMA CostsOfReplaced ==
  ASSUME NEW S, NEW c \in [S -> Int], NEW s \in Seq(S), s # <<>>, NEW e \in S
  PROVE  DifferByLast(c, s, e)
<1> DEFINE n == Len(s)
           t == [s EXCEPT ![Len(s)] = e]
           w == [i \in DOMAIN s |-> c[s[i]]]
           v == [i \in DOMAIN t |-> c[t[i]]]
<1>1. n \in Nat \ {0} /\ n \in 1..n
  OBVIOUS
<1>2. t \in Seq(S) /\ Len(t) = n /\ \A i \in 1..n : t[i] = IF i = n THEN e ELSE s[i]
  BY <1>1, ExceptSeq
<1> HIDE DEF t
<1>3. DOMAIN s = 1..n /\ w \in [1..n -> Int] /\ Costs(c, s) = Added(w, n)
  <2>1. DOMAIN s = 1..n /\ w \in [1..n -> Int]
    BY CostsInInt
  <2> QED BY <2>1 DEF Costs
<1>4. DOMAIN t = 1..n /\ v \in [1..n -> Int] /\ Costs(c, t) = Added(v, n)
  <2>1. DOMAIN t = 1..Len(t) /\ v \in [1..Len(t) -> Int]
    BY <1>2, CostsInInt
  <2> QED BY <1>2, <2>1 DEF Costs
<1>5. (\A i \in DOMAIN s : w[i] = c[s[i]]) /\ \A i \in DOMAIN t : v[i] = c[t[i]]
  OBVIOUS
<1> HIDE DEF w, v, n
<1>6. w[n] = c[s[n]] /\ v[n] = c[e]
  <2>1. n \in DOMAIN s /\ n \in DOMAIN t /\ t[n] = e
    BY <1>1, <1>2, <1>3, <1>4
  <2> QED BY <1>5, <2>1
<1>7. ASSUME NEW i \in 1..n, i # n PROVE v[i] = w[i]
  <2>1. i \in DOMAIN s /\ i \in DOMAIN t /\ t[i] = s[i]
    BY <1>2, <1>3, <1>4, <1>7
  <2> QED BY <1>5, <2>1
<1>8. PICK others \in Int : Added(w, n) = others + w[n] /\ Added(v, n) = others + v[n]
  BY <1>1, <1>3, <1>4, <1>7, SumsOfOthers
<1>9. Costs(c, s) = others + c[s[n]] /\ Costs(c, t) = others + c[e]
  BY <1>3, <1>4, <1>6, <1>8
<1> QED BY <1>9 DEF DifferByLast, n, t

\* Only the costs of members count.
LEMMA SameCosts ==
  ASSUME NEW S, NEW s \in Seq(S), NEW c, NEW d, \A x \in S : c[x] = d[x]
  PROVE  Costs(c, s) = Costs(d, s)
<1>1. \A i \in DOMAIN s : s[i] \in S
  OBVIOUS
<1>2. [i \in DOMAIN s |-> c[s[i]]] = [i \in DOMAIN s |-> d[s[i]]]
  BY <1>1
<1> QED BY <1>2 DEF Costs

\* The sequences a client writes out.
LEMMA Tuples ==
  ASSUME NEW S
  PROVE  /\ <<>> \in Seq(S) /\ \A d \in S : <<d>> \in Seq(S)
         /\ \A d \in S, e \in S : <<d, e>> \in Seq(S)
  OBVIOUS

-----------------------------------------------------------------------------
(* What a where costs                                                        *)

Filters == [key : {"filter"}, operators : Seq(Operators)]
Conditionals(W) == [key : {"_not", "_and", "_or", "relation"}, conditions : Seq(W)]

\* The entries of a where that is nested n deep at most.
Entries(n) == Filters \cup IF n = 0 THEN {} ELSE Conditionals(Wheres[n - 1])

\* There is a part at least, and n - 1 is a depth if n is one above 0.
LEMMA Depths == /\ MaxParts \in Nat /\ 0 \in 0..MaxParts /\ MaxParts \in 0..MaxParts
                /\ \A n \in 1..MaxParts : n - 1 \in 0..MaxParts /\ n \in 0..MaxParts /\ n # 0
  BY QueryAssumption DEF QueryAssumption

\* The recursive function of Wheres exists: a where is a sequence of entries.
LEMMA WheresAre == \A n \in 0..MaxParts : Wheres[n] = Seq(Entries(n))
<1> DEFINE Of(f, n) == Seq(Filters \cup IF n = 0 THEN {} ELSE Conditionals(f[n - 1]))
           Is(f, N) == f = [n \in 0..N |-> Of(f, n)]
           S == {N \in 0..MaxParts : \E f : Is(f, N)}
<1>1. 0 \in S
  <2> DEFINE f == [n \in 0..0 |-> Seq(Filters)]
  <2>1. f = [n \in 0..0 |-> Of(f, n)]
    OBVIOUS
  <2> QED BY <2>1, Depths
<1>2. ASSUME NEW N \in 1..MaxParts, N - 1 \in S PROVE N \in S
  <2>1. PICK f : Is(f, N - 1)
    BY <1>2
  <2> DEFINE g == [n \in 0..N |-> IF n = N THEN Of(f, N) ELSE f[n]]
  <2>2. ASSUME NEW n \in 0..N PROVE g[n] = Of(g, n)
    <3>1. CASE n = 0
      <4>1. g[0] = f[0] /\ 0 \in 0..(N - 1)
        BY Depths, <3>1
      <4>2. f[0] = Of(f, 0)
        BY <2>1, <4>1
      <4> QED BY <3>1, <4>1, <4>2
    <3>2. CASE n # 0
      <4>1. n - 1 \in 0..N /\ n - 1 # N /\ g[n - 1] = f[n - 1]
        BY <3>2
      <4>2. Of(g, n) = Of(f, n)
        BY <4>1, <3>2
      <4>3. CASE n = N
        BY <4>2, <4>3
      <4>4. CASE n # N
        <5>1. n \in 0..(N - 1)
          BY <4>4
        <5>2. f[n] = Of(f, n)
          <6> HIDE DEF Of
          <6> QED BY <2>1, <5>1
        <5> QED BY <4>2, <4>4, <5>2
      <4> QED BY <4>3, <4>4
    <3> QED BY <3>1, <3>2
  <2>3. Is(g, N)
    <3> HIDE DEF Of
    <3>1. [n \in 0..N |-> Of(g, n)] = [n \in 0..N |-> g[n]]
      BY <2>2
    <3> QED BY <3>1
  <2> HIDE DEF g, Is
  <2> QED BY <2>3, Depths
<1>3. MaxParts \in S
  <2> HIDE DEF S
  <2> QED BY <1>1, <1>2, Depths, BoundedInduction
<1>4. Wheres = CHOOSE f : Is(f, MaxParts)
  BY DEF Wheres, Filters, Conditionals
<1>5. Is(Wheres, MaxParts)
  <2> HIDE DEF Is
  <2> QED BY <1>3, <1>4
<1> QED BY <1>5 DEF Entries

\* A sequence over a set is one over a larger set.
LEMMA SeqOfMore ==
  ASSUME NEW S, NEW T, S \subseteq T
  PROVE  Seq(S) \subseteq Seq(T)
<1> SUFFICES ASSUME NEW s \in Seq(S) PROVE s \in Seq(T)
  OBVIOUS
<1>1. Len(s) \in Nat /\ s \in [1..Len(s) -> S]
  BY LenProperties
<1>2. s \in [1..Len(s) -> T]
  BY <1>1
<1>3. s = [i \in 1..Len(s) |-> s[i]] /\ \A i \in 1..Len(s) : s[i] \in T
  BY <1>1, <1>2
<1> QED BY <1>1, <1>3, IsASeq

\* What is nested less deep is nested n deep at most.
LEMMA WheresNest == \A n \in 1..MaxParts : Wheres[n - 1] \subseteq Wheres[n]
<1> DEFINE S == {n \in 0..MaxParts : n # 0 => Wheres[n - 1] \subseteq Wheres[n]}
<1>1. 0 \in S
  BY Depths
<1>2. ASSUME NEW n \in 1..MaxParts, n - 1 \in S PROVE n \in S
  <2>1. CASE n = 1
    <3>1. Entries(0) \subseteq Entries(1)
      BY DEF Entries
    <3>2. Wheres[0] \subseteq Wheres[1]
      BY <2>1, <3>1, Depths, WheresAre, SeqOfMore
    <3> QED BY <2>1, <3>2, Depths
  <2>2. CASE n # 1
    <3>1. Wheres[n - 2] \subseteq Wheres[n - 1] /\ (n - 1) - 1 = n - 2 /\ n - 1 # 0
      BY <1>2, <2>2
    <3>2. Seq(Wheres[n - 2]) \subseteq Seq(Wheres[n - 1])
      BY <3>1, SeqOfMore
    <3>3. Entries(n - 1) \subseteq Entries(n)
      BY <3>1, <3>2 DEF Entries, Conditionals
    <3>4. Seq(Entries(n - 1)) \subseteq Seq(Entries(n))
      BY <3>3, SeqOfMore
    <3> QED BY <3>4, Depths, WheresAre
  <2> QED BY <2>1, <2>2
<1> HIDE DEF S
<1>3. 0..MaxParts \subseteq S
  BY <1>1, <1>2, Depths, BoundedInduction
<1> QED BY <1>3, Depths DEF S

OperatorPrice == [o \in Operators |-> OperatorCost(o)]

\* calculateFilterComplexity charges a comparison what it is worth.
LEMMA OperatorIsPriced ==
  ASSUME NEW o \in Operators
  PROVE  OperatorCost(o) \in Nat /\ OperatorCost(o) = o.points
  BY QueryAssumption DEF QueryAssumption, OperatorCost, Lists, Patterns

\* OperatorCosts adds the prices of the comparisons.
LEMMA OperatorsCost ==
  ASSUME NEW operators \in Seq(Operators)
  PROVE  OperatorCosts(operators) = Costs(OperatorPrice, operators)
<1>1. \A i \in DOMAIN operators : operators[i] \in Operators
  OBVIOUS
<1>2. [i \in DOMAIN operators |-> OperatorCost(operators[i])] =
        [i \in DOMAIN operators |-> OperatorPrice[operators[i]]]
  BY <1>1 DEF OperatorPrice
<1> QED BY <1>2 DEF OperatorCosts, Costs

\* What an entry costs, by its kind.
LEMMA EntryCosts ==
  ASSUME NEW n \in 0..MaxParts, NEW e \in Entries(n), NEW cost
  PROVE  \/ /\ e \in Filters /\ e.operators \in Seq(Operators)
            /\ EntryCost(e, cost) = Costs(OperatorPrice, e.operators)
         \/ /\ n # 0 /\ e \in Conditionals(Wheres[n - 1])
            /\ e.conditions \in Seq(Wheres[n - 1])
            /\ EntryCost(e, cost) = IF e.key = "relation" THEN 1 + Costs(cost, e.conditions)
                                    ELSE Costs(cost, e.conditions)
<1>1. CASE e \in Filters
  <2>1. e.key = "filter" /\ e.operators \in Seq(Operators)
    BY <1>1 DEF Filters
  <2>2. EntryCost(e, cost) = OperatorCosts(e.operators)
    BY <2>1 DEF EntryCost
  <2> QED BY <1>1, <2>1, <2>2, OperatorsCost
<1>2. CASE e \notin Filters
  <2>1. n # 0 /\ e \in Conditionals(Wheres[n - 1])
    BY <1>2 DEF Entries
  <2>2. /\ e.key \in {"_not", "_and", "_or", "relation"}
        /\ e.conditions \in Seq(Wheres[n - 1])
    BY <2>1 DEF Conditionals
  <2>3. EntryCost(e, cost) = IF e.key = "relation" THEN 1 + Costs(cost, e.conditions)
                             ELSE Costs(cost, e.conditions)
    BY <2>2 DEF EntryCost, Costs
  <2> QED BY <2>1, <2>2, <2>3
<1> QED BY <1>1, <1>2

\* It depends on what wheres cost that are nested less deep.
LEMMA EntryCostsBelow ==
  ASSUME NEW n \in 0..MaxParts, NEW e \in Entries(n), NEW c, NEW d,
         n # 0 => \A where \in Wheres[n - 1] : c[where] = d[where]
  PROVE  EntryCost(e, c) = EntryCost(e, d)
<1>1. CASE n = 0
  BY <1>1, EntryCosts
<1>2. CASE n # 0
  <2>1. e.conditions \in Seq(Wheres[n - 1]) => Costs(c, e.conditions) = Costs(d, e.conditions)
    BY <1>2, SameCosts
  <2>2. CASE e \in Filters
    <3>1. EntryCost(e, c) = OperatorCosts(e.operators) /\ EntryCost(e, d) = OperatorCosts(e.operators)
      BY <2>2 DEF EntryCost, Filters
    <3> QED BY <3>1
  <2>3. CASE e \notin Filters
    BY <2>1, <2>3, EntryCosts
  <2> QED BY <2>2, <2>3
<1> QED BY <1>1, <1>2

WhereCostBy(where, cost) ==
  Added([i \in DOMAIN where |-> EntryCost(where[i], cost)], Len(where))

\* A where costs what the wheres within it cost, and nothing else counts.
LEMMA WhereCostsBelow ==
  ASSUME NEW n \in 0..MaxParts, NEW where \in Wheres[n], NEW c, NEW d,
         n # 0 => \A w \in Wheres[n - 1] : c[w] = d[w]
  PROVE  WhereCostBy(where, c) = WhereCostBy(where, d)
<1>1. \A i \in DOMAIN where : where[i] \in Entries(n)
  BY WheresAre
<1>2. \A i \in DOMAIN where : EntryCost(where[i], c) = EntryCost(where[i], d)
  BY <1>1, EntryCostsBelow
<1>3. [i \in DOMAIN where |-> EntryCost(where[i], c)] =
        [i \in DOMAIN where |-> EntryCost(where[i], d)]
  BY <1>2
<1> QED BY <1>3 DEF WhereCostBy

\* The recursion of calculateWhereComplexity.
LEMMA WhereCostsAre ==
  \A n \in 0..MaxParts :
    WhereCosts[n] = [where \in Wheres[n] |-> WhereCostBy(where, WhereCosts[n - 1])]
<1> DEFINE Of(f, n) == [where \in Wheres[n] |-> WhereCostBy(where, f[n - 1])]
           Is(f, N) == f = [n \in 0..N |-> Of(f, n)]
           S == {N \in 0..MaxParts : \E f : Is(f, N)}
<1>1. ASSUME NEW n \in 0..MaxParts, NEW f, NEW g, n # 0 => g[n - 1] = f[n - 1]
      PROVE  Of(f, n) = Of(g, n)
  BY <1>1, WhereCostsBelow
<1>2. 0 \in S
  <2> DEFINE f == [n \in 0..0 |-> Of(<<>>, 0)]
  <2>1. f[0] = Of(f, 0)
    <3>1. Of(<<>>, 0) = Of(f, 0)
      <4> HIDE DEF f, Of
      <4> QED BY <1>1, Depths
    <3> QED BY <3>1
  <2>2. f = [n \in 0..0 |-> Of(f, n)]
    <3> HIDE DEF Of
    <3>1. f = [n \in 0..0 |-> f[n]]
      OBVIOUS
    <3> QED BY <2>1, <3>1
  <2> QED BY <2>2, Depths
<1>3. ASSUME NEW N \in 1..MaxParts, N - 1 \in S PROVE N \in S
  <2>1. PICK f : Is(f, N - 1)
    BY <1>3
  <2> DEFINE g == [n \in 0..N |-> IF n = N THEN Of(f, N) ELSE f[n]]
  <2>2. ASSUME NEW n \in 0..N PROVE g[n] = Of(g, n)
    <3>1. n # 0 => g[n - 1] = f[n - 1]
      OBVIOUS
    <3>2. Of(g, n) = Of(f, n)
      <4> HIDE DEF g, Of
      <4> QED BY <1>1, <3>1, Depths
    <3>3. CASE n = N
      BY <3>2, <3>3
    <3>4. CASE n # N
      <4>1. n \in 0..(N - 1)
        BY <3>4
      <4>2. f[n] = Of(f, n)
        <5> HIDE DEF Of
        <5> QED BY <2>1, <4>1
      <4> QED BY <3>2, <3>4, <4>2
    <3> QED BY <3>3, <3>4
  <2>3. Is(g, N)
    <3> HIDE DEF Of
    <3>1. [n \in 0..N |-> Of(g, n)] = [n \in 0..N |-> g[n]]
      BY <2>2
    <3> QED BY <3>1
  <2> HIDE DEF g, Is
  <2> QED BY <2>3, Depths
<1>4. MaxParts \in S
  <2> HIDE DEF S
  <2> QED BY <1>2, <1>3, Depths, BoundedInduction
<1>5. WhereCosts = CHOOSE f : Is(f, MaxParts)
  BY DEF WhereCosts, WhereCostBy
<1>6. Is(WhereCosts, MaxParts)
  <2> HIDE DEF Is
  <2> QED BY <1>4, <1>5
<1> QED BY <1>6

EntryPrice(n) == [e \in Entries(n) |-> EntryCost(e, WhereCosts[n - 1])]

\* A where costs the sum of its entries.
LEMMA WhereCostsAreSums ==
  ASSUME NEW n \in 0..MaxParts, NEW where \in Wheres[n]
  PROVE  where \in Seq(Entries(n)) /\ WhereCosts[n][where] = Costs(EntryPrice(n), where)
<1>1. where \in Seq(Entries(n))
  BY WheresAre
<1>2. \A i \in DOMAIN where : where[i] \in Entries(n)
  BY <1>1
<1>3. [i \in DOMAIN where |-> EntryCost(where[i], WhereCosts[n - 1])] =
        [i \in DOMAIN where |-> EntryPrice(n)[where[i]]]
  BY <1>2 DEF EntryPrice
<1>4. WhereCosts[n][where] = WhereCostBy(where, WhereCosts[n - 1])
  BY WhereCostsAre
<1> QED BY <1>1, <1>3, <1>4 DEF WhereCostBy, Costs

\* The price of a comparison is a natural number.
LEMMA OperatorPriceTyped == OperatorPrice \in [Operators -> Nat]
  BY OperatorIsPriced DEF OperatorPrice

\* What wheres and their entries cost are natural numbers.
LEMMA WhereCostsTyped ==
  \A n \in 0..MaxParts : /\ WhereCosts[n] \in [Wheres[n] -> Nat]
                         /\ EntryPrice(n) \in [Entries(n) -> Nat]
<1> DEFINE S == {n \in 0..MaxParts : /\ WhereCosts[n] \in [Wheres[n] -> Nat]
                                     /\ EntryPrice(n) \in [Entries(n) -> Nat]}
<1>1. ASSUME NEW n \in 0..MaxParts, n # 0 => WhereCosts[n - 1] \in [Wheres[n - 1] -> Nat]
      PROVE  n \in S
  <2>1. ASSUME NEW e \in Entries(n) PROVE EntryCost(e, WhereCosts[n - 1]) \in Nat
    <3>1. e.operators \in Seq(Operators) => Costs(OperatorPrice, e.operators) \in Nat
      BY CostsTyped, OperatorPriceTyped
    <3>2. n # 0 /\ e.conditions \in Seq(Wheres[n - 1]) =>
            Costs(WhereCosts[n - 1], e.conditions) \in Nat
      BY <1>1, CostsTyped
    <3> QED BY <3>1, <3>2, EntryCosts
  <2>2. EntryPrice(n) \in [Entries(n) -> Nat]
    BY <2>1 DEF EntryPrice
  <2>3. \A where \in Wheres[n] : WhereCosts[n][where] \in Nat
    BY <2>2, WhereCostsAreSums, CostsTyped
  <2>4. WhereCosts[n] \in [Wheres[n] -> Nat]
    BY <2>3, WhereCostsAre
  <2> QED BY <2>2, <2>4
<1>2. 0 \in S
  BY <1>1, Depths
<1>3. ASSUME NEW n \in 1..MaxParts, n - 1 \in S PROVE n \in S
  <2>1. WhereCosts[n - 1] \in [Wheres[n - 1] -> Nat] /\ n \in 0..MaxParts
    BY <1>3, Depths
  <2> HIDE DEF S
  <2> QED BY <1>1, <2>1
<1> HIDE DEF S
<1>4. 0..MaxParts \subseteq S
  BY <1>2, <1>3, Depths, BoundedInduction
<1> QED BY <1>4 DEF S

\* A where costs the same at every depth that it fits in.
LEMMA WhereCostsNest ==
  \A n \in 1..MaxParts : \A where \in Wheres[n - 1] :
    WhereCosts[n][where] = WhereCosts[n - 1][where]
<1> DEFINE S == {n \in 0..MaxParts :
                   n # 0 => \A where \in Wheres[n - 1] :
                              WhereCosts[n][where] = WhereCosts[n - 1][where]}
<1>1. 0 \in S
  BY Depths
<1>2. ASSUME NEW n \in 1..MaxParts, n - 1 \in S PROVE n \in S
  <2> SUFFICES ASSUME NEW where \in Wheres[n - 1]
               PROVE  WhereCosts[n][where] = WhereCosts[n - 1][where]
    BY Depths
  <2>1. n - 1 # 0 => \A w \in Wheres[(n - 1) - 1] :
                       WhereCosts[n - 1][w] = WhereCosts[(n - 1) - 1][w]
    BY <1>2
  <2>2. WhereCostBy(where, WhereCosts[n - 1]) = WhereCostBy(where, WhereCosts[(n - 1) - 1])
    BY <2>1, Depths, WhereCostsBelow
  <2>3. where \in Wheres[n] /\ n \in 0..MaxParts /\ n - 1 \in 0..MaxParts
    BY Depths, WheresNest
  <2>4. WhereCosts[n][where] = WhereCostBy(where, WhereCosts[n - 1])
    BY <2>3, WhereCostsAre
  <2>5. WhereCosts[n - 1][where] = WhereCostBy(where, WhereCosts[(n - 1) - 1])
    BY <2>3, WhereCostsAre
  <2> QED BY <2>2, <2>4, <2>5
<1> HIDE DEF S
<1>3. 0..MaxParts \subseteq S
  BY <1>1, <1>2, Depths, BoundedInduction
<1> QED BY <1>3, Depths DEF S

\* The cost of a where does not depend on the depth it is taken at.
LEMMA WhereCostIs ==
  ASSUME NEW n \in 0..MaxParts, NEW where \in Wheres[n]
  PROVE  /\ where \in Wheres[MaxParts]
         /\ WhereCost(where) = WhereCosts[n][where] /\ WhereCost(where) \in Nat
<1> DEFINE rest == MaxParts - n
           S == {k \in 0..rest : /\ where \in Wheres[n + k]
                                 /\ WhereCosts[n + k][where] = WhereCosts[n][where]}
<1>1. rest \in Nat /\ n + 0 = n /\ n + rest = MaxParts
  BY Depths
<1>2. 0 \in S
  BY <1>1
<1>3. ASSUME NEW k \in 1..rest, k - 1 \in S PROVE k \in S
  <2>1. n + k \in 1..MaxParts /\ n + (k - 1) = (n + k) - 1
    BY Depths
  <2>2. where \in Wheres[(n + k) - 1] /\ WhereCosts[(n + k) - 1][where] = WhereCosts[n][where]
    BY <1>3, <2>1
  <2> QED BY <2>1, <2>2, WheresNest, WhereCostsNest
<1>4. rest \in S
  <2> HIDE DEF S, rest
  <2> QED BY <1>1, <1>2, <1>3, BoundedInduction
<1>5. where \in Wheres[MaxParts] /\ WhereCosts[MaxParts][where] = WhereCosts[n][where]
  BY <1>1, <1>4
<1>6. WhereCosts[n][where] \in Nat
  BY WhereCostsTyped
<1> QED BY <1>5, <1>6 DEF WhereCost

\* No where costs nothing.
LEMMA WhereCostOfNone == <<>> \in Wheres[0] /\ WhereCost(<<>>) = 0
<1>1. <<>> \in Wheres[0]
  <2>1. <<>> \in Seq(Entries(0))
    BY Tuples
  <2> QED BY <2>1, Depths, WheresAre
<1>2. WhereCosts[0][<<>>] = 0
  BY <1>1, Depths, WhereCostsAreSums, CostsOfNone
<1> QED BY <1>1, <1>2, Depths, WhereCostIs

\* A filter of one comparison costs what this is worth.
LEMMA FilterCost ==
  ASSUME NEW n \in 0..MaxParts, NEW o \in Operators
  PROVE  Filter(o) \in Entries(n) /\ EntryPrice(n)[Filter(o)] = o.points
<1>1. <<o>> \in Seq(Operators) /\ Filter(o).operators = <<o>> /\ Filter(o).key = "filter"
  BY DEF Filter
<1>2. Filter(o) \in Filters /\ Filter(o) \in Entries(n)
  BY <1>1 DEF Filter, Filters, Entries
<1>3. EntryPrice(n)[Filter(o)] = OperatorCosts(<<o>>)
  BY <1>1, <1>2 DEF EntryPrice, EntryCost
<1>4. OperatorCosts(<<o>>) = OperatorPrice[o]
  BY <1>1, OperatorsCost, OperatorPriceTyped, CostsOfOne
<1> QED BY <1>2, <1>3, <1>4, OperatorIsPriced DEF OperatorPrice

\* _not, _and and _or cost their conditions, and a relation one more.
LEMMA ConditionalCost ==
  ASSUME NEW n \in 1..MaxParts, NEW key \in {"_not", "_and", "_or", "relation"},
         NEW conditions \in Seq(Wheres[n - 1])
  PROVE  LET where == <<Conditional(key, conditions)>>
         IN  /\ where \in Wheres[n]
             /\ WhereCost(where) = IF key = "relation" THEN 1 + Costs(WhereCosts[n - 1], conditions)
                                   ELSE Costs(WhereCosts[n - 1], conditions)
<1> DEFINE e == Conditional(key, conditions)
<1>1. e.key = key /\ e.conditions = conditions /\ e \in Conditionals(Wheres[n - 1])
  BY DEF Conditional, Conditionals
<1>2. e \in Entries(n) /\ n \in 0..MaxParts
  BY <1>1, Depths DEF Entries
<1>3. EntryCost(e, WhereCosts[n - 1]) = IF key = "relation" THEN 1 + Costs(WhereCosts[n - 1], conditions)
                                        ELSE Costs(WhereCosts[n - 1], conditions)
  BY <1>1 DEF EntryCost, Costs
<1> HIDE DEF e
<1>4. <<e>> \in Wheres[n]
  <2>1. <<e>> \in Seq(Entries(n))
    BY <1>2, Tuples
  <2> QED BY <1>2, <2>1, WheresAre
<1>5. WhereCost(<<e>>) = Costs(EntryPrice(n), <<e>>)
  BY <1>2, <1>4, WhereCostIs, WhereCostsAreSums
<1>6. Costs(EntryPrice(n), <<e>>) = EntryCost(e, WhereCosts[n - 1])
  BY <1>2, WhereCostsTyped, CostsOfOne DEF EntryPrice
<1> QED BY <1>3, <1>4, <1>5, <1>6 DEF e

\* What each part that a client writes adds to the cost of a where, and to its depth.
LEMMA WhereWithin ==
  ASSUME NEW n \in 1..MaxParts, NEW where \in Wheres[n - 1]
  PROVE  /\ <<Conditional("_not", <<where>>)>> \in Wheres[n]
         /\ WhereCost(<<Conditional("_not", <<where>>)>>) = WhereCost(where) + 0
         /\ <<Conditional("relation", <<where>>)>> \in Wheres[n]
         /\ WhereCost(<<Conditional("relation", <<where>>)>>) = WhereCost(where) + 1
<1>0. /\ n \in 0..MaxParts /\ n - 1 \in 0..MaxParts /\ WhereCost(where) \in Nat
      /\ WhereCost(where) = WhereCosts[n - 1][where]
  BY Depths, WhereCostIs
<1>1. /\ <<where>> \in Seq(Wheres[n - 1])
      /\ Costs(WhereCosts[n - 1], <<where>>) = WhereCost(where)
  <2>1. Costs(WhereCosts[n - 1], <<where>>) = WhereCosts[n - 1][where]
    <3>1. WhereCosts[n - 1] \in [Wheres[n - 1] -> Nat]
      BY <1>0, WhereCostsTyped
    <3> QED BY <3>1, CostsOfOne
  <2> QED BY <1>0, <2>1, Tuples
<1>2. /\ <<Conditional("_not", <<where>>)>> \in Wheres[n]
      /\ WhereCost(<<Conditional("_not", <<where>>)>>) = WhereCost(where)
  BY <1>1, ConditionalCost
<1>3. /\ <<Conditional("relation", <<where>>)>> \in Wheres[n]
      /\ WhereCost(<<Conditional("relation", <<where>>)>>) = WhereCost(where) + 1
  BY <1>0, <1>1, ConditionalCost
<1> QED BY <1>0, <1>2, <1>3

\* A comparison more, beside the others or as an alternative to them.
LEMMA WhereGrows ==
  ASSUME NEW n \in 1..MaxParts, NEW where \in Wheres[n - 1], NEW o \in Operators
  PROVE  /\ Append(where, Filter(o)) \in Wheres[n]
         /\ WhereCost(Append(where, Filter(o))) = WhereCost(where) + o.points
         /\ <<Conditional("_or", <<where, <<Filter(o)>>>>)>> \in Wheres[n]
         /\ WhereCost(<<Conditional("_or", <<where, <<Filter(o)>>>>)>>) =
              WhereCost(where) + o.points
<1>0. /\ n \in 0..MaxParts /\ n - 1 \in 0..MaxParts
      /\ where \in Wheres[n] /\ where \in Seq(Entries(n))
      /\ WhereCost(where) = WhereCosts[n][where] /\ WhereCost(where) = WhereCosts[n - 1][where]
      /\ WhereCosts[n][where] = Costs(EntryPrice(n), where) /\ WhereCost(where) \in Nat
  BY Depths, WheresNest, WhereCostIs, WhereCostsAreSums
<1>1. /\ Append(where, Filter(o)) \in Wheres[n]
      /\ WhereCost(Append(where, Filter(o))) = WhereCost(where) + o.points
  <2>1. Append(where, Filter(o)) \in Wheres[n]
    BY <1>0, FilterCost, WheresAre, AppendProperties
  <2>2. WhereCost(Append(where, Filter(o))) = Costs(EntryPrice(n), Append(where, Filter(o)))
    BY <1>0, <2>1, WhereCostIs, WhereCostsAreSums
  <2>3. Costs(EntryPrice(n), Append(where, Filter(o))) =
          Costs(EntryPrice(n), where) + EntryPrice(n)[Filter(o)]
    <3>1. EntryPrice(n) \in [Entries(n) -> Int]
      BY <1>0, WhereCostsTyped, NatIsInt
    <3> QED BY <1>0, <3>1, FilterCost, CostsOfAppend
  <2> QED BY <1>0, <2>1, <2>2, <2>3, FilterCost
<1>2. <<Filter(o)>> \in Wheres[n - 1] /\ WhereCosts[n - 1][<<Filter(o)>>] = o.points
  <2>1. <<Filter(o)>> \in Wheres[n - 1]
    <3>1. <<Filter(o)>> \in Seq(Entries(n - 1))
      BY <1>0, FilterCost, Tuples
    <3> QED BY <1>0, <3>1, WheresAre
  <2>2. WhereCosts[n - 1][<<Filter(o)>>] = EntryPrice(n - 1)[Filter(o)]
    BY <1>0, <2>1, FilterCost, WhereCostsAreSums, WhereCostsTyped, CostsOfOne
  <2> QED BY <1>0, <2>1, <2>2, FilterCost
<1>3. /\ <<where, <<Filter(o)>>>> \in Seq(Wheres[n - 1])
      /\ Costs(WhereCosts[n - 1], <<where, <<Filter(o)>>>>) = WhereCost(where) + o.points
  <2> DEFINE w == <<Filter(o)>>
  <2>1. w \in Wheres[n - 1] /\ WhereCosts[n - 1][w] = o.points
    BY <1>2
  <2> HIDE DEF w
  <2>2. <<where, w>> \in Seq(Wheres[n - 1])
    BY <2>1, Tuples
  <2>3. WhereCosts[n - 1] \in [Wheres[n - 1] -> Nat]
    BY <1>0, WhereCostsTyped
  <2>4. Costs(WhereCosts[n - 1], <<where, w>>) = WhereCosts[n - 1][where] + WhereCosts[n - 1][w]
    BY <2>1, <2>3, CostsOfTwo
  <2> QED BY <1>0, <2>1, <2>2, <2>4 DEF w
<1>4. /\ <<Conditional("_or", <<where, <<Filter(o)>>>>)>> \in Wheres[n]
      /\ WhereCost(<<Conditional("_or", <<where, <<Filter(o)>>>>)>>) =
           WhereCost(where) + o.points
  BY <1>3, ConditionalCost
<1> QED BY <1>1, <1>4

\* A comparison more in the last filter.
LEMMA FilterGrows ==
  ASSUME NEW n \in 1..MaxParts, NEW where \in Wheres[n - 1], NEW o \in Operators,
         where # <<>>, where[Len(where)].key = "filter"
  PROVE  LET more == [where EXCEPT ![Len(where)].operators = Append(@, o)]
         IN  more \in Wheres[n] /\ WhereCost(more) = WhereCost(where) + o.points
<1> DEFINE last == where[Len(where)]
           e == [last EXCEPT !.operators = Append(last.operators, o)]
           more == [where EXCEPT ![Len(where)] = e]
<1>0. /\ n \in 0..MaxParts /\ n - 1 \in 0..MaxParts
      /\ where \in Wheres[n] /\ where \in Seq(Entries(n))
      /\ WhereCost(where) = Costs(EntryPrice(n), where)
  BY Depths, WheresNest, WhereCostIs, WhereCostsAreSums
<1>1. Len(where) \in 1..Len(where) /\ last \in Entries(n)
  <2>1. Len(where) \in 1..Len(where)
    BY <1>0
  <2> QED BY <1>0, <2>1
<1>2. last \in Filters /\ last.operators \in Seq(Operators)
  BY <1>1 DEF Entries, Filters, Conditionals
<1>3. /\ e \in Filters /\ e.operators = Append(last.operators, o) /\ e.key = "filter"
      /\ e.operators \in Seq(Operators)
  <2>1. Append(last.operators, o) \in Seq(Operators)
    BY <1>2, AppendProperties
  <2>2. e \in Filters /\ e.operators = Append(last.operators, o)
    <3> HIDE DEF last
    <3> QED BY <1>2, <2>1 DEF Filters
  <2> QED BY <2>1, <2>2 DEF Filters
<1>4. e \in Entries(n)
  BY <1>3 DEF Entries
<1>5. /\ EntryPrice(n)[e] = OperatorCosts(e.operators)
      /\ EntryPrice(n)[last] = OperatorCosts(last.operators)
  BY <1>1, <1>3, <1>4 DEF EntryPrice, EntryCost
<1>6. OperatorCosts(e.operators) = OperatorCosts(last.operators) + o.points
  <2> DEFINE operators == last.operators
  <2>1. /\ operators \in Seq(Operators) /\ Append(operators, o) \in Seq(Operators)
        /\ e.operators = Append(operators, o)
    BY <1>2, <1>3
  <2> HIDE DEF operators
  <2>2. OperatorCosts(Append(operators, o)) = Costs(OperatorPrice, operators) + OperatorPrice[o]
    <3>1. OperatorPrice \in [Operators -> Int]
      BY OperatorPriceTyped, NatIsInt
    <3>2. OperatorCosts(Append(operators, o)) = Costs(OperatorPrice, Append(operators, o))
      BY <2>1, OperatorsCost
    <3>3. Costs(OperatorPrice, Append(operators, o))
            = Costs(OperatorPrice, operators) + OperatorPrice[o]
      BY <2>1, <3>1, CostsOfAppend
    <3> QED BY <3>2, <3>3
  <2>3. OperatorPrice[o] = o.points
    BY OperatorIsPriced DEF OperatorPrice
  <2>4. OperatorCosts(operators) = Costs(OperatorPrice, operators)
    BY <2>1, OperatorsCost
  <2>5. OperatorCosts(e.operators) = OperatorCosts(operators) + o.points
    BY <2>1, <2>2, <2>3, <2>4
  <2> QED BY <2>5 DEF operators
<1>7. OperatorCosts(last.operators) \in Nat /\ o.points \in Nat
  BY <1>2, OperatorsCost, OperatorPriceTyped, CostsTyped, OperatorIsPriced
<1> HIDE DEF e, last
<1>8. PICK others \in Int : /\ Costs(EntryPrice(n), where) = others + EntryPrice(n)[where[Len(where)]]
                            /\ Costs(EntryPrice(n), more) = others + EntryPrice(n)[e]
  <2>1. EntryPrice(n) \in [Entries(n) -> Nat]
    BY <1>0, WhereCostsTyped
  <2> DEFINE S == Entries(n)
             c == EntryPrice(n)
  <2>2. c \in [S -> Int] /\ where \in Seq(S) /\ e \in S
    BY <1>0, <1>4, <2>1, NatIsInt
  <2> HIDE DEF S, c
  <2>3. DifferByLast(c, where, e)
    BY <2>2, CostsOfReplaced
  <2> QED BY <2>3 DEF c, DifferByLast
<1>9. more \in Wheres[n]
  BY <1>0, <1>1, <1>4, WheresAre, ExceptSeq
<1>10. WhereCost(more) = Costs(EntryPrice(n), more)
  <2> HIDE DEF more
  <2> QED BY <1>0, <1>9, WhereCostIs, WhereCostsAreSums
<1>11. WhereCost(more) = WhereCost(where) + o.points
  BY <1>0, <1>5, <1>6, <1>7, <1>8, <1>10 DEF last
<1>12. more = [where EXCEPT ![Len(where)].operators = Append(@, o)]
  BY DEF e, last
<1> QED BY <1>9, <1>11, <1>12

-----------------------------------------------------------------------------
(* What a selection and an order cost                                        *)

\* The fields of a selection that is nested n deep at most.
FieldsOf(n) == [name : Names, arguments : Nat, fields : Selections[n - 1]]

\* The recursive function of Selections exists.
LEMMA SelectionsAre ==
  Selections[0] = {<<>>} /\ \A n \in 1..MaxParts : Selections[n] = Seq(FieldsOf(n))
<1> DEFINE Of(f, n) == IF n = 0 THEN {<<>>}
                       ELSE Seq([name : Names, arguments : Nat, fields : f[n - 1]])
           Is(f, N) == f = [n \in 0..N |-> Of(f, n)]
           S == {N \in 0..MaxParts : \E f : Is(f, N)}
<1>1. 0 \in S
  <2> DEFINE f == [n \in 0..0 |-> {<<>>}]
  <2>1. f = [n \in 0..0 |-> Of(f, n)]
    OBVIOUS
  <2> QED BY <2>1, Depths
<1>2. ASSUME NEW N \in 1..MaxParts, N - 1 \in S PROVE N \in S
  <2>1. PICK f : Is(f, N - 1)
    BY <1>2
  <2> DEFINE g == [n \in 0..N |-> IF n = N THEN Of(f, N) ELSE f[n]]
  <2>2. ASSUME NEW n \in 0..N PROVE g[n] = Of(g, n)
    <3>1. n # 0 => g[n - 1] = f[n - 1]
      OBVIOUS
    <3>2. Of(g, n) = Of(f, n)
      <4> HIDE DEF g
      <4> QED BY <3>1
    <3>3. CASE n = N
      BY <3>2, <3>3
    <3>4. CASE n # N
      <4>1. n \in 0..(N - 1)
        BY <3>4
      <4>2. f[n] = Of(f, n)
        <5> HIDE DEF Of
        <5> QED BY <2>1, <4>1
      <4> QED BY <3>2, <3>4, <4>2
    <3> QED BY <3>3, <3>4
  <2>3. Is(g, N)
    <3> HIDE DEF Of
    <3>1. [n \in 0..N |-> Of(g, n)] = [n \in 0..N |-> g[n]]
      BY <2>2
    <3> QED BY <3>1
  <2> HIDE DEF g, Is
  <2> QED BY <2>3, Depths
<1>3. MaxParts \in S
  <2> HIDE DEF S
  <2> QED BY <1>1, <1>2, Depths, BoundedInduction
<1>4. Selections = CHOOSE f : Is(f, MaxParts)
  BY DEF Selections
<1>5. Is(Selections, MaxParts)
  <2> HIDE DEF Is
  <2> QED BY <1>3, <1>4
<1> QED BY <1>5, Depths DEF FieldsOf

\* No fields are a selection of each depth.
LEMMA NothingSelected == \A n \in 0..MaxParts : <<>> \in Selections[n]
<1> SUFFICES ASSUME NEW n \in 0..MaxParts PROVE <<>> \in Selections[n]
  OBVIOUS
<1>1. CASE n = 0
  BY <1>1, SelectionsAre
<1>2. CASE n # 0
  <2>1. <<>> \in Seq(FieldsOf(n)) /\ n \in 1..MaxParts
    BY <1>2, Tuples
  <2> QED BY <2>1, SelectionsAre
<1> QED BY <1>1, <1>2

\* A selection of one depth is one of the next.
LEMMA SelectionsNest == \A n \in 1..MaxParts : Selections[n - 1] \subseteq Selections[n]
<1> DEFINE S == {n \in 0..MaxParts : n # 0 => Selections[n - 1] \subseteq Selections[n]}
<1>1. 0 \in S
  BY Depths
<1>2. ASSUME NEW n \in 1..MaxParts, n - 1 \in S PROVE n \in S
  <2>1. CASE n = 1
    BY <2>1, SelectionsAre, NothingSelected, Depths
  <2>2. CASE n # 1
    <3>1. /\ Selections[(n - 1) - 1] \subseteq Selections[n - 1]
          /\ n - 1 \in 1..MaxParts
      BY <1>2, <2>2
    <3>2. FieldsOf(n - 1) \subseteq FieldsOf(n)
      BY <3>1 DEF FieldsOf
    <3>3. Seq(FieldsOf(n - 1)) \subseteq Seq(FieldsOf(n))
      BY <3>2, SeqOfMore
    <3> QED BY <3>1, <3>3, SelectionsAre, Depths
  <2> QED BY <2>1, <2>2
<1> HIDE DEF S
<1>3. 0..MaxParts \subseteq S
  BY <1>1, <1>2, Depths, BoundedInduction
<1> QED BY <1>3, Depths DEF S

PricedBy(price, within, cost) ==
  Added([i \in DOMAIN within |-> price[within[i].name] + cost[within[i].fields]], Len(within))

PricedCosts(price) ==
  CHOOSE f : f = [n \in 0..MaxParts |->
                    [within \in Selections[n] |-> PricedBy(price, within, f[n - 1])]]

\* A selection costs its fields and the selections within it, and nothing else counts.
LEMMA PricedBelow ==
  ASSUME NEW price, NEW n \in 0..MaxParts, NEW within \in Selections[n], NEW c, NEW d,
         n # 0 => \A fields \in Selections[n - 1] : c[fields] = d[fields]
  PROVE  PricedBy(price, within, c) = PricedBy(price, within, d)
<1>1. CASE n = 0
  <2>1. within = <<>>
    BY <1>1, SelectionsAre
  <2>2. [i \in DOMAIN <<>> |-> price[<<>>[i].name] + c[<<>>[i].fields]] =
          [i \in DOMAIN <<>> |-> price[<<>>[i].name] + d[<<>>[i].fields]]
    OBVIOUS
  <2> QED BY <2>1, <2>2 DEF PricedBy
<1>2. CASE n # 0
  <2>1. \A i \in DOMAIN within : within[i].fields \in Selections[n - 1]
    <3>1. within \in Seq(FieldsOf(n))
      BY <1>2, SelectionsAre
    <3>2. \A i \in DOMAIN within : within[i] \in FieldsOf(n)
      BY <3>1
    <3> QED BY <3>2 DEF FieldsOf
  <2>2. \A i \in DOMAIN within : price[within[i].name] + c[within[i].fields]
                                   = price[within[i].name] + d[within[i].fields]
    BY <1>2, <2>1
  <2>3. [i \in DOMAIN within |-> price[within[i].name] + c[within[i].fields]] =
          [i \in DOMAIN within |-> price[within[i].name] + d[within[i].fields]]
    BY <2>2
  <2> QED BY <2>3 DEF PricedBy
<1> QED BY <1>1, <1>2

\* The recursion over a selection, and that of calculateOrderByFieldComplexity.
LEMMA PricedCostsAre ==
  ASSUME NEW price
  PROVE  /\ \A n \in 0..MaxParts :
              PricedCosts(price)[n] =
                [within \in Selections[n] |->
                   PricedBy(price, within, PricedCosts(price)[n - 1])]
         /\ \A fields : Priced(price, fields) = PricedCosts(price)[MaxParts][fields]
<1> DEFINE Of(f, n) == [within \in Selections[n] |-> PricedBy(price, within, f[n - 1])]
           Is(f, N) == f = [n \in 0..N |-> Of(f, n)]
           S == {N \in 0..MaxParts : \E f : Is(f, N)}
<1>1. ASSUME NEW n \in 0..MaxParts, NEW f, NEW g, n # 0 => g[n - 1] = f[n - 1]
      PROVE  Of(f, n) = Of(g, n)
  BY <1>1, PricedBelow
<1>2. 0 \in S
  <2> DEFINE f == [n \in 0..0 |-> Of(<<>>, 0)]
  <2>1. f[0] = Of(f, 0)
    <3>1. Of(<<>>, 0) = Of(f, 0)
      <4> HIDE DEF f, Of
      <4> QED BY <1>1, Depths
    <3> QED BY <3>1
  <2>2. f = [n \in 0..0 |-> Of(f, n)]
    <3> HIDE DEF Of
    <3>1. f = [n \in 0..0 |-> f[n]]
      OBVIOUS
    <3> QED BY <2>1, <3>1
  <2> QED BY <2>2, Depths
<1>3. ASSUME NEW N \in 1..MaxParts, N - 1 \in S PROVE N \in S
  <2>1. PICK f : Is(f, N - 1)
    BY <1>3
  <2> DEFINE g == [n \in 0..N |-> IF n = N THEN Of(f, N) ELSE f[n]]
  <2>2. ASSUME NEW n \in 0..N PROVE g[n] = Of(g, n)
    <3>1. n # 0 => g[n - 1] = f[n - 1]
      OBVIOUS
    <3>2. Of(g, n) = Of(f, n)
      <4> HIDE DEF g, Of
      <4> QED BY <1>1, <3>1, Depths
    <3>3. CASE n = N
      BY <3>2, <3>3
    <3>4. CASE n # N
      <4>1. n \in 0..(N - 1)
        BY <3>4
      <4>2. f[n] = Of(f, n)
        <5> HIDE DEF Of
        <5> QED BY <2>1, <4>1
      <4> QED BY <3>2, <3>4, <4>2
    <3> QED BY <3>3, <3>4
  <2>3. Is(g, N)
    <3> HIDE DEF Of
    <3>1. [n \in 0..N |-> Of(g, n)] = [n \in 0..N |-> g[n]]
      BY <2>2
    <3> QED BY <3>1
  <2> HIDE DEF g, Is
  <2> QED BY <2>3, Depths
<1>4. MaxParts \in S
  <2> HIDE DEF S
  <2> QED BY <1>2, <1>3, Depths, BoundedInduction
<1>5. PricedCosts(price) = CHOOSE f : Is(f, MaxParts)
  BY DEF PricedCosts
<1>6. Is(PricedCosts(price), MaxParts)
  <2> HIDE DEF Is
  <2> QED BY <1>4, <1>5
<1>7. \A fields : Priced(price, fields) = PricedCosts(price)[MaxParts][fields]
  BY DEF Priced, PricedCosts, PricedBy
<1> QED BY <1>6, <1>7

\* The same for one depth.
LEMMA PricedCostsOf ==
  ASSUME NEW price, NEW n \in 0..MaxParts
  PROVE  /\ PricedCosts(price)[n] =
              [within \in Selections[n] |->
                 PricedBy(price, within, PricedCosts(price)[n - 1])]
         /\ \A within \in Selections[n] :
              PricedCosts(price)[n][within] =
                PricedBy(price, within, PricedCosts(price)[n - 1])
<1> DEFINE f == PricedCosts(price)
<1>1. \A m \in 0..MaxParts :
        f[m] = [within \in Selections[m] |-> PricedBy(price, within, f[m - 1])]
  BY PricedCostsAre
<1> HIDE DEF f
<1>2. f[n] = [within \in Selections[n] |-> PricedBy(price, within, f[n - 1])]
  BY <1>1
<1>3. \A within \in Selections[n] : f[n][within] = PricedBy(price, within, f[n - 1])
  BY <1>2
<1> QED BY <1>2, <1>3 DEF f

FieldPrices(price, n) ==
  [f \in FieldsOf(n) |-> price[f.name] + PricedCosts(price)[n - 1][f.fields]]

\* A selection costs the sum of its fields, each with what is selected below it.
LEMMA PricedCostsAreSums ==
  ASSUME NEW price, NEW n \in 1..MaxParts, NEW within \in Selections[n]
  PROVE  /\ within \in Seq(FieldsOf(n))
         /\ PricedCosts(price)[n][within] = Costs(FieldPrices(price, n), within)
<1>1. within \in Seq(FieldsOf(n)) /\ n \in 0..MaxParts
  BY SelectionsAre, Depths
<1>2. \A i \in DOMAIN within : within[i] \in FieldsOf(n)
  BY <1>1
<1>3. [i \in DOMAIN within |->
         price[within[i].name] + PricedCosts(price)[n - 1][within[i].fields]] =
        [i \in DOMAIN within |-> FieldPrices(price, n)[within[i]]]
  BY <1>2 DEF FieldPrices
<1>4. PricedCosts(price)[n][within] = PricedBy(price, within, PricedCosts(price)[n - 1])
  BY <1>1, PricedCostsOf
<1> QED BY <1>1, <1>3, <1>4 DEF PricedBy, Costs

\* A selection of depth 0 costs nothing.
LEMMA PricedCostOfNone ==
  ASSUME NEW price
  PROVE  PricedCosts(price)[0] = [within \in {<<>>} |-> 0]
<1>1. PricedBy(price, <<>>, PricedCosts(price)[0 - 1]) = 0
  <2>1. /\ [i \in DOMAIN <<>> |->
             price[<<>>[i].name] + PricedCosts(price)[0 - 1][<<>>[i].fields]] \in [1..0 -> Nat]
        /\ Len(<<>>) = 0
    OBVIOUS
  <2> QED BY <2>1, SumOfNone DEF PricedBy
<1>2. PricedCosts(price)[0] =
        [within \in Selections[0] |-> PricedBy(price, within, PricedCosts(price)[0 - 1])]
  BY Depths, PricedCostsOf
<1> QED BY <1>1, <1>2, SelectionsAre

\* What selections and their fields cost are natural numbers.
LEMMA PricedCostsTyped ==
  ASSUME NEW price \in [Names -> Nat]
  PROVE  /\ \A n \in 0..MaxParts : PricedCosts(price)[n] \in [Selections[n] -> Nat]
         /\ \A n \in 1..MaxParts : FieldPrices(price, n) \in [FieldsOf(n) -> Nat]
<1> DEFINE S == {n \in 0..MaxParts : PricedCosts(price)[n] \in [Selections[n] -> Nat]}
<1>1. 0 \in S
  <2>1. PricedCosts(price)[0] = [within \in {<<>>} |-> 0] /\ Selections[0] = {<<>>}
    BY SelectionsAre, PricedCostOfNone
  <2>2. [within \in {<<>>} |-> 0] \in [{<<>>} -> Nat]
    OBVIOUS
  <2> QED BY <2>1, <2>2, Depths
<1>2. ASSUME NEW n \in 1..MaxParts, n - 1 \in S
      PROVE  FieldPrices(price, n) \in [FieldsOf(n) -> Nat]
  <2>1. \A f \in FieldsOf(n) : price[f.name] \in Nat /\ PricedCosts(price)[n - 1][f.fields] \in Nat
    BY <1>2 DEF FieldsOf
  <2> QED BY <2>1 DEF FieldPrices
<1>3. ASSUME NEW n \in 1..MaxParts, n - 1 \in S PROVE n \in S
  <2>1. FieldPrices(price, n) \in [FieldsOf(n) -> Nat]
    BY <1>2, <1>3
  <2>2. ASSUME NEW within \in Selections[n] PROVE PricedCosts(price)[n][within] \in Nat
    <3>1. /\ within \in Seq(FieldsOf(n))
          /\ PricedCosts(price)[n][within] = Costs(FieldPrices(price, n), within)
      BY PricedCostsAreSums
    <3> DEFINE F == FieldsOf(n)
               c == FieldPrices(price, n)
    <3>2. c \in [F -> Nat] /\ within \in Seq(F)
      BY <2>1, <3>1
    <3> HIDE DEF F, c
    <3>3. Costs(c, within) \in Nat
      BY <3>2, CostsTyped
    <3> QED BY <3>1, <3>3 DEF c
  <2> DEFINE by == [within \in Selections[n] |->
                      PricedBy(price, within, PricedCosts(price)[n - 1])]
  <2>3. n \in 0..MaxParts
    BY Depths
  <2>4. PricedCosts(price)[n] = by
    BY <2>3, PricedCostsOf
  <2>5. by \in [Selections[n] -> Nat]
    BY <2>2, <2>3, PricedCostsOf
  <2> QED BY <2>3, <2>4, <2>5
<1> HIDE DEF S
<1>4. 0..MaxParts \subseteq S
  BY <1>1, <1>3, Depths, BoundedInduction
<1>5. \A n \in 1..MaxParts : FieldPrices(price, n) \in [FieldsOf(n) -> Nat]
  BY <1>2, <1>4, Depths
<1> QED BY <1>4, <1>5 DEF S

\* A selection costs the same at the next depth.
LEMMA PricedCostsNest ==
  ASSUME NEW price
  PROVE  \A n \in 1..MaxParts : \A within \in Selections[n - 1] :
           PricedCosts(price)[n][within] = PricedCosts(price)[n - 1][within]
<1> DEFINE S == {n \in 0..MaxParts :
                   n # 0 => \A within \in Selections[n - 1] :
                     PricedCosts(price)[n][within] = PricedCosts(price)[n - 1][within]}
<1>1. 0 \in S
  BY Depths
<1>2. ASSUME NEW n \in 1..MaxParts, n - 1 \in S PROVE n \in S
  <2> SUFFICES ASSUME NEW within \in Selections[n - 1]
               PROVE  PricedCosts(price)[n][within] = PricedCosts(price)[n - 1][within]
    BY Depths
  <2>1. n - 1 # 0 => \A w \in Selections[(n - 1) - 1] :
                       PricedCosts(price)[n - 1][w] = PricedCosts(price)[(n - 1) - 1][w]
    BY <1>2
  <2>2. PricedBy(price, within, PricedCosts(price)[n - 1])
          = PricedBy(price, within, PricedCosts(price)[(n - 1) - 1])
    BY <2>1, Depths, PricedBelow
  <2>3. within \in Selections[n] /\ n \in 0..MaxParts /\ n - 1 \in 0..MaxParts
    BY Depths, SelectionsNest
  <2>4. PricedCosts(price)[n][within] = PricedBy(price, within, PricedCosts(price)[n - 1])
    BY <2>3, PricedCostsOf
  <2>5. PricedCosts(price)[n - 1][within]
          = PricedBy(price, within, PricedCosts(price)[(n - 1) - 1])
    BY <2>3, PricedCostsOf
  <2> QED BY <2>2, <2>4, <2>5
<1> HIDE DEF S
<1>3. 0..MaxParts \subseteq S
  BY <1>1, <1>2, Depths, BoundedInduction
<1> QED BY <1>3, Depths DEF S

\* The cost of a selection does not depend on the depth it is taken at.
LEMMA PricedIs ==
  ASSUME NEW price \in [Names -> Nat], NEW n \in 0..MaxParts, NEW within \in Selections[n]
  PROVE  Priced(price, within) = PricedCosts(price)[n][within] /\ Priced(price, within) \in Nat
<1> DEFINE rest == MaxParts - n
           S == {k \in 0..rest :
                   /\ within \in Selections[n + k]
                   /\ PricedCosts(price)[n + k][within] = PricedCosts(price)[n][within]}
<1>1. rest \in Nat /\ n + 0 = n /\ n + rest = MaxParts
  BY Depths
<1>2. 0 \in S
  BY <1>1
<1>3. ASSUME NEW k \in 1..rest, k - 1 \in S PROVE k \in S
  <2>1. n + k \in 1..MaxParts /\ n + (k - 1) = (n + k) - 1
    BY Depths
  <2>2. /\ within \in Selections[(n + k) - 1]
        /\ PricedCosts(price)[(n + k) - 1][within] = PricedCosts(price)[n][within]
    BY <1>3, <2>1
  <2> QED BY <2>1, <2>2, SelectionsNest, PricedCostsNest
<1>4. rest \in S
  <2> HIDE DEF S, rest
  <2> QED BY <1>1, <1>2, <1>3, BoundedInduction
<1>5. PricedCosts(price)[MaxParts][within] = PricedCosts(price)[n][within]
  BY <1>1, <1>4
<1>6. PricedCosts(price)[n][within] \in Nat
  BY PricedCostsTyped
<1> QED BY <1>5, <1>6, PricedCostsAre

\* What each field that a client writes adds to the price, and to the depth.
LEMMA PriceGrows ==
  ASSUME NEW price \in [Names -> Nat], NEW n \in 1..MaxParts,
         NEW fields \in Selections[n - 1], NEW name \in Names
  PROVE  /\ Append(fields, Leaf(name)) \in Selections[n]
         /\ Priced(price, Append(fields, Leaf(name))) = Priced(price, fields) + price[name]
         /\ <<Within(name, fields)>> \in Selections[n]
         /\ Priced(price, <<Within(name, fields)>>) = Priced(price, fields) + price[name]
<1>0. /\ n \in 0..MaxParts /\ n - 1 \in 0..MaxParts /\ fields \in Selections[n]
      /\ fields \in Seq(FieldsOf(n)) /\ <<>> \in Selections[n - 1] /\ price[name] \in Nat
      /\ Priced(price, fields) = Costs(FieldPrices(price, n), fields)
      /\ Priced(price, fields) = PricedCosts(price)[n - 1][fields]
      /\ Priced(price, fields) \in Nat /\ PricedCosts(price)[n - 1][<<>>] = 0
  <2>1. n \in 0..MaxParts /\ n - 1 \in 0..MaxParts /\ 0 \in 0..MaxParts
    BY Depths
  <2>2. /\ fields \in Selections[n]
        /\ <<>> \in Selections[n - 1] /\ <<>> \in Selections[0]
    BY <2>1, SelectionsNest, NothingSelected
  <2>3. /\ Priced(price, fields) = PricedCosts(price)[n][fields]
        /\ Priced(price, fields) = PricedCosts(price)[n - 1][fields]
        /\ Priced(price, fields) \in Nat
    BY <2>1, <2>2, PricedIs
  <2>4. PricedCosts(price)[n - 1][<<>>] = PricedCosts(price)[0][<<>>]
    BY <2>1, <2>2, PricedIs
  <2>5. PricedCosts(price)[0][<<>>] = 0
    <3>1. [within \in {<<>>} |-> 0][<<>>] = 0
      OBVIOUS
    <3> QED BY <3>1, PricedCostOfNone
  <2>6. /\ fields \in Seq(FieldsOf(n))
        /\ PricedCosts(price)[n][fields] = Costs(FieldPrices(price, n), fields)
    BY <2>2, PricedCostsAreSums
  <2> QED BY <2>1, <2>2, <2>3, <2>4, <2>5, <2>6
<1>1. FieldPrices(price, n) \in [FieldsOf(n) -> Nat]
  BY PricedCostsTyped
<1>2. /\ Leaf(name) \in FieldsOf(n) /\ FieldPrices(price, n)[Leaf(name)] = price[name]
      /\ Within(name, fields) \in FieldsOf(n)
      /\ FieldPrices(price, n)[Within(name, fields)] = price[name] + Priced(price, fields)
  <2>1. ASSUME NEW within \in Selections[n - 1]
        PROVE  /\ Within(name, within) \in FieldsOf(n)
               /\ FieldPrices(price, n)[Within(name, within)] =
                    price[name] + PricedCosts(price)[n - 1][within]
    <3>1. /\ Within(name, within) \in FieldsOf(n)
          /\ Within(name, within).name = name /\ Within(name, within).fields = within
      BY DEF Within, FieldsOf
    <3> QED BY <3>1 DEF FieldPrices
  <2>2. /\ Within(name, <<>>) \in FieldsOf(n)
        /\ FieldPrices(price, n)[Within(name, <<>>)] = price[name]
    <3>1. FieldPrices(price, n)[Within(name, <<>>)] = price[name] + 0
      BY <1>0, <2>1
    <3>2. \A p \in Nat : p + 0 = p
      OBVIOUS
    <3>3. Within(name, <<>>) \in FieldsOf(n)
      BY <1>0, <2>1
    <3>4. price[name] \in Nat
      OBVIOUS
    <3> QED BY Zenon, <3>1, <3>2, <3>3, <3>4
  <2>3. /\ Within(name, fields) \in FieldsOf(n)
        /\ FieldPrices(price, n)[Within(name, fields)] = price[name] + Priced(price, fields)
    BY <1>0, <2>1
  <2> QED BY <2>2, <2>3 DEF Leaf
<1>3. ASSUME NEW within \in Seq(FieldsOf(n))
      PROVE  /\ within \in Selections[n]
             /\ Priced(price, within) = Costs(FieldPrices(price, n), within)
  <2>1. within \in Selections[n]
    BY SelectionsAre
  <2> QED BY <1>0, <2>1, PricedIs, PricedCostsAreSums
<1>4. /\ Append(fields, Leaf(name)) \in Seq(FieldsOf(n))
      /\ Costs(FieldPrices(price, n), Append(fields, Leaf(name))) =
           Costs(FieldPrices(price, n), fields) + FieldPrices(price, n)[Leaf(name)]
  <2> DEFINE S == FieldsOf(n)
             c == FieldPrices(price, n)
             f == Leaf(name)
  <2>1. fields \in Seq(S) /\ c \in [S -> Int] /\ f \in S
    BY <1>0, <1>1, <1>2, NatIsInt
  <2> HIDE DEF S, c, f
  <2>2. Append(fields, f) \in Seq(S) /\ Costs(c, Append(fields, f)) = Costs(c, fields) + c[f]
    BY <2>1, AppendProperties, CostsOfAppend
  <2> QED BY <2>2 DEF S, c, f
<1>5. /\ <<Within(name, fields)>> \in Seq(FieldsOf(n))
      /\ Costs(FieldPrices(price, n), <<Within(name, fields)>>) =
           FieldPrices(price, n)[Within(name, fields)]
  BY <1>1, <1>2, Tuples, CostsOfOne
<1>6. /\ Append(fields, Leaf(name)) \in Selections[n]
      /\ Priced(price, Append(fields, Leaf(name))) = Priced(price, fields) + price[name]
  BY <1>0, <1>2, <1>3, <1>4
<1>7. /\ <<Within(name, fields)>> \in Selections[n]
      /\ Priced(price, <<Within(name, fields)>>) = Priced(price, fields) + price[name]
  <2>1. /\ <<Within(name, fields)>> \in Selections[n]
        /\ Priced(price, <<Within(name, fields)>>) = price[name] + Priced(price, fields)
    BY <1>2, <1>3, <1>5
  <2> QED BY <1>0, <2>1
<1> QED BY <1>6, <1>7

\* An argument more of the last field changes its price in nothing.
LEMMA PriceOfArguments ==
  ASSUME NEW price \in [Names -> Nat], NEW n \in 1..MaxParts,
         NEW fields \in Selections[n - 1], fields # <<>>
  PROVE  LET more == [fields EXCEPT ![Len(fields)].arguments = @ + 1]
         IN  more \in Selections[n] /\ Priced(price, more) = Priced(price, fields)
<1> DEFINE F == FieldsOf(n)
           c == FieldPrices(price, n)
           last == fields[Len(fields)]
           e == [last EXCEPT !.arguments = last.arguments + 1]
           more == [fields EXCEPT ![Len(fields)] = e]
<1>1. /\ n \in 0..MaxParts /\ fields \in Selections[n] /\ fields \in Seq(F)
      /\ Priced(price, fields) = Costs(c, fields)
  BY Depths, SelectionsNest, PricedIs, PricedCostsAreSums
<1>2. c \in [F -> Int]
  BY PricedCostsTyped, NatIsInt
<1>3. Len(fields) \in 1..Len(fields) /\ last \in F
  <2>1. Len(fields) \in 1..Len(fields)
    BY <1>1
  <2> QED BY <1>1, <2>1
<1>4. e \in F /\ e.name = last.name /\ e.fields = last.fields
  <2> HIDE DEF last
  <2> QED BY <1>3 DEF FieldsOf
<1>5. c[e] = c[last]
  <2>1. \A field \in F :
          c[field] = price[field.name] + PricedCosts(price)[n - 1][field.fields]
    BY DEF FieldPrices
  <2> HIDE DEF F, c, e, last
  <2> QED BY <1>3, <1>4, <2>1
<1>6. DifferByLast(c, fields, e)
  <2> HIDE DEF F, c, e
  <2> QED BY <1>1, <1>2, <1>4, CostsOfReplaced
<1>7. Costs(c, more) = Costs(c, fields)
  <2> HIDE DEF F, c, e
  <2> QED BY <1>5, <1>6 DEF DifferByLast
<1>8. more \in Selections[n]
  <2>1. more \in Seq(F)
    <3> HIDE DEF F, e
    <3> QED BY <1>1, <1>3, <1>4, ExceptSeq
  <2> QED BY <2>1, SelectionsAre
<1>9. Priced(price, more) = Costs(c, more)
  <2> HIDE DEF more
  <2> QED BY <1>1, <1>8, PricedIs, PricedCostsAreSums
<1>10. more = [fields EXCEPT ![Len(fields)].arguments = @ + 1]
  BY DEF e, last
<1> QED BY <1>1, <1>7, <1>8, <1>9, <1>10

-----------------------------------------------------------------------------
(* What a root field costs                                                   *)

\* A product is monotonic.
LEMMA Products ==
  ASSUME NEW a \in Nat, NEW b \in Nat, NEW c \in Nat, NEW d \in Nat, a <= c, b <= d
  PROVE  a * b \in Nat /\ a * b <= c * d
<1>1. a * b \in Nat /\ c * b \in Nat /\ c * d \in Nat
  OBVIOUS
<1>2. a * b <= c * b
  OBVIOUS
<1>3. c * b <= c * d
  OBVIOUS
<1> QED BY <1>1, <1>2, <1>3

\* The cost of each root field is a natural number.
LEMMA BaseCostTyped == \A name : BaseCost(name) \in Nat
  BY DEF BaseCost

\* The quotient of calculateOffsetComplexity, by its defining property.
LEMMA OffsetCostIs ==
  ASSUME NEW offset \in Int
  PROVE  /\ OffsetCost(offset) \in Int
         /\ 100 * OffsetCost(offset) <= offset + 99 /\ offset < 100 * OffsetCost(offset) + 1
  BY DEF OffsetCost

\* The pages that an offset begins, a hundred rows each, are as many as
\* calculateOffsetComplexity says, and a negative offset takes off its whole pages. It
\* takes off one at -100.
LEMMA PagesBegun ==
  ASSUME NEW offset \in Int
  PROVE  /\ Pages(offset) = OffsetCost(offset) /\ OffsetCost(offset) \in Int
         /\ offset > -100 => OffsetCost(offset) \in Nat
         /\ offset = 0 => OffsetCost(offset) = 0
<1> DEFINE pages == OffsetCost(offset)
<1>1. pages \in Int /\ 100 * pages <= offset + 99 /\ offset < 100 * pages + 1
  BY OffsetCostIs
<1> HIDE DEF pages
<1>2. CASE offset >= 0
  <2>1. pages \in Nat
    BY <1>1, <1>2
  <2>2. Begun(offset) = 0..(pages - 1)
    <3>1. ASSUME NEW page \in 0..offset
          PROVE  100 * page < offset <=> page \in 0..(pages - 1)
      BY <1>1, <1>2
    <3>2. 0..(pages - 1) \subseteq 0..offset
      BY <1>1, <1>2
    <3> QED BY <3>1, <3>2 DEF Begun
  <2>3. Cardinality(0..(pages - 1)) = pages
    BY <2>1, FS_Interval
  <2> QED BY <1>1, <1>2, <2>1, <2>2, <2>3 DEF Pages, pages
<1>3. CASE offset < 0
  <2>1. -pages \in Nat
    BY <1>1, <1>3
  <2>2. Whole(-offset) = 1..(-pages)
    <3>1. ASSUME NEW page \in 1..(-offset)
          PROVE  100 * page <= -offset <=> page \in 1..(-pages)
      BY <1>1, <1>3
    <3>2. 1..(-pages) \subseteq 1..(-offset)
      BY <1>1, <1>3
    <3> QED BY <3>1, <3>2 DEF Whole
  <2>3. Cardinality(1..(-pages)) = -pages
    BY <2>1, FS_Interval
  <2>4. Pages(offset) = pages
    BY <1>1, <1>3, <2>2, <2>3 DEF Pages
  <2>5. offset > -100 => pages = 0
    BY <1>1, <1>3
  <2> QED BY <1>1, <1>3, <2>4, <2>5 DEF pages
<1> QED BY <1>2, <1>3

\* What a root field costs whose parts weigh w.
WeightCost(name, w) ==
  BaseCost(name) * ((w.conditions + w.selected)
                    * (Pages(w.skipped) + 1) * (w.terms + 1))

RootType(n) ==
  [name : Roots, where : Wheres[n], offset : Int, order : Selections[n], fields : Selections[n]]
WeightType == [conditions : Nat, selected : Nat, terms : Nat, skipped : Int]

\* w is what the parts of r add up to.
Weighed(r, w) ==
  /\ WhereCost(r.where) = w.conditions /\ SelectionCost(r.fields) = w.selected
  /\ OrderCost(r.order) = w.terms /\ r.offset = w.skipped

\* A root field costs what it weighs.
LEMMA RootCostIsWeight ==
  ASSUME NEW r, NEW w \in WeightType, Weighed(r, w)
  PROVE  /\ RootCost(r) = WeightCost(r.name, w) /\ RootCost(r) \in Int
         /\ r.offset > -100 => RootCost(r) \in Nat
<1>1. /\ w.conditions \in Nat /\ w.selected \in Nat /\ w.terms \in Nat /\ w.skipped \in Int
      /\ WhereCost(r.where) = w.conditions /\ SelectionCost(r.fields) = w.selected
      /\ OrderCost(r.order) = w.terms /\ r.offset = w.skipped
  BY DEF WeightType, Weighed
<1>2. /\ Pages(w.skipped) = OffsetCost(w.skipped) /\ OffsetCost(w.skipped) \in Int
      /\ w.skipped > -100 => OffsetCost(w.skipped) \in Nat
      /\ BaseCost(r.name) \in Nat
  BY <1>1, PagesBegun, BaseCostTyped
<1> DEFINE parted == w.conditions + w.selected
           paged == OffsetCost(w.skipped) + 1
           sorted == w.terms + 1
<1>3. SelectionCost(r.fields) + WhereCost(r.where) = parted
  BY <1>1
<1>4. RootCost(r) = BaseCost(r.name) * (parted * paged * sorted)
  BY <1>1, <1>3 DEF RootCost
<1>5. parted \in Nat /\ paged \in Int /\ sorted \in Nat /\ (r.offset > -100 => paged \in Nat)
  BY <1>1, <1>2
<1>6. WeightCost(r.name, w) = BaseCost(r.name) * (parted * paged * sorted)
  BY <1>2 DEF WeightCost
<1> HIDE DEF parted, paged, sorted
<1>7. BaseCost(r.name) * (parted * paged * sorted) \in Int
  BY <1>2, <1>5
<1>8. paged \in Nat => BaseCost(r.name) * (parted * paged * sorted) \in Nat
  BY <1>2, <1>5
<1> QED BY <1>4, <1>5, <1>6, <1>7, <1>8

\* Whatever a part weighs more, the root field does not cost less, if its offset is
\* above -100.
LEMMA MoreIsNotCheaper ==
  ASSUME NEW name, NEW w \in WeightType, NEW v \in WeightType,
         w.conditions <= v.conditions, w.selected <= v.selected, w.terms <= v.terms,
         w.skipped \in {0, v.skipped}, v.skipped > -100
  PROVE  WeightCost(name, w) <= WeightCost(name, v)
<1>1. /\ w.conditions \in Nat /\ w.selected \in Nat /\ w.terms \in Nat /\ w.skipped \in Int
      /\ v.conditions \in Nat /\ v.selected \in Nat /\ v.terms \in Nat /\ v.skipped \in Int
  BY DEF WeightType
<1>2. /\ Pages(w.skipped) \in Nat /\ Pages(v.skipped) \in Nat
      /\ Pages(w.skipped) <= Pages(v.skipped)
  <2>1. /\ Pages(v.skipped) = OffsetCost(v.skipped) /\ OffsetCost(v.skipped) \in Nat
        /\ Pages(0) = OffsetCost(0) /\ OffsetCost(0) = 0
    BY <1>1, PagesBegun
  <2> QED BY <2>1
<1> DEFINE a(u) == u.conditions + u.selected
           b(u) == Pages(u.skipped) + 1
           c(u) == u.terms + 1
<1>3. /\ a(w) \in Nat /\ a(v) \in Nat /\ a(w) <= a(v)
      /\ b(w) \in Nat /\ b(v) \in Nat /\ b(w) <= b(v)
      /\ c(w) \in Nat /\ c(v) \in Nat /\ c(w) <= c(v)
      /\ BaseCost(name) \in Nat /\ BaseCost(name) <= BaseCost(name)
  BY <1>1, <1>2, BaseCostTyped
<1>4. /\ WeightCost(name, w) = BaseCost(name) * (a(w) * b(w) * c(w))
      /\ WeightCost(name, v) = BaseCost(name) * (a(v) * b(v) * c(v))
  BY DEF WeightCost
<1> HIDE DEF a, b, c
<1>5. a(w) * b(w) \in Nat /\ a(v) * b(v) \in Nat /\ a(w) * b(w) <= a(v) * b(v)
  BY <1>3, Products
<1>6. /\ a(w) * b(w) * c(w) \in Nat /\ a(v) * b(v) * c(v) \in Nat
      /\ a(w) * b(w) * c(w) <= a(v) * b(v) * c(v)
  BY <1>3, <1>5, Products
<1>7. BaseCost(name) * (a(w) * b(w) * c(w)) <= BaseCost(name) * (a(v) * b(v) * c(v))
  BY <1>3, <1>6, Products
<1> QED BY <1>4, <1>7

-----------------------------------------------------------------------------
(* What a client writes                                                      *)

\* The root field r, that weighs w, becomes s, that weighs v, in a query of n parts;
\* an offset is given once.
Heavier(n, r, w, s, v) ==
  /\ s \in RootType(n) /\ v \in WeightType /\ Weighed(s, v) /\ s.name = r.name
  /\ w.conditions <= v.conditions /\ w.selected <= v.selected
  /\ w.terms <= v.terms /\ w.skipped \in {0, v.skipped}

\* A root field keeps its type while the query gets parts.
LEMMA RootsNest ==
  ASSUME NEW n \in 1..MaxParts, NEW r \in RootType(n - 1)
  PROVE  /\ r \in RootType(n)
         /\ r.where \in Wheres[n - 1] /\ r.order \in Selections[n - 1]
         /\ r.fields \in Selections[n - 1] /\ r.offset \in Int
  BY WheresNest, SelectionsNest DEF RootType

\* A where that costs more, and the weight of the conditions with it.
LEMMA WhereHeavier ==
  ASSUME NEW n \in 1..MaxParts, NEW r \in RootType(n - 1), NEW w \in WeightType, Weighed(r, w),
         NEW where \in Wheres[n], NEW points \in Nat,
         WhereCost(where) = WhereCost(r.where) + points
  PROVE  Heavier(n, r, w, [r EXCEPT !.where = where],
                 [w EXCEPT !.conditions = w.conditions + points])
<1> DEFINE s == [r EXCEPT !.where = where]
           v == [w EXCEPT !.conditions = w.conditions + points]
<1>1. /\ s \in RootType(n) /\ s.where = where /\ s.name = r.name /\ s.offset = r.offset
      /\ s.order = r.order /\ s.fields = r.fields
  BY RootsNest DEF RootType
<1>2. /\ v \in WeightType /\ v.conditions = w.conditions + points /\ v.selected = w.selected
      /\ v.terms = w.terms /\ v.skipped = w.skipped
      /\ w.conditions <= v.conditions /\ w.selected <= v.selected
      /\ w.terms <= v.terms /\ w.skipped \in {0, v.skipped}
  BY DEF WeightType
<1> HIDE DEF s, v
<1>3. Weighed(s, v)
  BY <1>1, <1>2 DEF Weighed
<1>4. Heavier(n, r, w, s, v)
  BY <1>1, <1>2, <1>3 DEF Heavier
<1> QED BY <1>4 DEF s, v

\* The same of an offset,
LEMMA OffsetHeavier ==
  ASSUME NEW n \in 1..MaxParts, NEW r \in RootType(n - 1), NEW w \in WeightType, Weighed(r, w),
         NEW rows \in Int, r.offset = 0
  PROVE  Heavier(n, r, w, [r EXCEPT !.offset = rows], [w EXCEPT !.skipped = w.skipped + rows])
<1> DEFINE s == [r EXCEPT !.offset = rows]
           v == [w EXCEPT !.skipped = w.skipped + rows]
<1>1. /\ s \in RootType(n) /\ s.where = r.where /\ s.name = r.name
      /\ s.offset = rows /\ s.order = r.order /\ s.fields = r.fields
  BY RootsNest DEF RootType
<1>2. /\ v \in WeightType /\ v.conditions = w.conditions /\ v.selected = w.selected
      /\ v.terms = w.terms /\ v.skipped = rows /\ w.skipped = 0
      /\ w.conditions <= v.conditions /\ w.selected <= v.selected
      /\ w.terms <= v.terms
  BY DEF WeightType, Weighed
<1> HIDE DEF s, v
<1>3. Weighed(s, v)
  BY <1>1, <1>2 DEF Weighed
<1>4. Heavier(n, r, w, s, v)
  BY <1>1, <1>2, <1>3 DEF Heavier
<1> QED BY <1>4 DEF s, v

\* of an order,
LEMMA OrderHeavier ==
  ASSUME NEW n \in 1..MaxParts, NEW r \in RootType(n - 1), NEW w \in WeightType, Weighed(r, w),
         NEW order \in Selections[n], OrderCost(order) = OrderCost(r.order) + 1
  PROVE  Heavier(n, r, w, [r EXCEPT !.order = order], [w EXCEPT !.terms = w.terms + 1])
<1> DEFINE s == [r EXCEPT !.order = order]
           v == [w EXCEPT !.terms = w.terms + 1]
<1>1. /\ s \in RootType(n) /\ s.where = r.where /\ s.name = r.name /\ s.offset = r.offset
      /\ s.order = order /\ s.fields = r.fields
  BY RootsNest DEF RootType
<1>2. /\ v \in WeightType /\ v.conditions = w.conditions /\ v.selected = w.selected
      /\ v.terms = w.terms + 1 /\ v.skipped = w.skipped
      /\ w.conditions <= v.conditions /\ w.selected <= v.selected
      /\ w.terms <= v.terms /\ w.skipped \in {0, v.skipped}
  BY DEF WeightType
<1> HIDE DEF s, v
<1>3. Weighed(s, v)
  BY <1>1, <1>2 DEF Weighed
<1>4. Heavier(n, r, w, s, v)
  BY <1>1, <1>2, <1>3 DEF Heavier
<1> QED BY <1>4 DEF s, v

\* and of a selection.
LEMMA FieldsHeavier ==
  ASSUME NEW n \in 1..MaxParts, NEW r \in RootType(n - 1), NEW w \in WeightType, Weighed(r, w),
         NEW fields \in Selections[n], NEW points \in Nat,
         SelectionCost(fields) = SelectionCost(r.fields) + points
  PROVE  Heavier(n, r, w, [r EXCEPT !.fields = fields],
                 [w EXCEPT !.selected = w.selected + points])
<1> DEFINE s == [r EXCEPT !.fields = fields]
           v == [w EXCEPT !.selected = w.selected + points]
<1>1. /\ s \in RootType(n) /\ s.where = r.where /\ s.name = r.name /\ s.offset = r.offset
      /\ s.order = r.order /\ s.fields = fields
  BY RootsNest DEF RootType
<1>2. /\ v \in WeightType /\ v.conditions = w.conditions /\ v.selected = w.selected + points
      /\ v.terms = w.terms /\ v.skipped = w.skipped
      /\ w.conditions <= v.conditions /\ w.selected <= v.selected
      /\ w.terms <= v.terms /\ w.skipped \in {0, v.skipped}
  BY DEF WeightType
<1> HIDE DEF s, v
<1>3. Weighed(s, v)
  BY <1>1, <1>2 DEF Weighed
<1>4. Heavier(n, r, w, s, v)
  BY <1>1, <1>2, <1>3 DEF Heavier
<1> QED BY <1>4 DEF s, v

\* The parts of the root field a client works on.
LEMMA NewestParts ==
  ASSUME NEW n \in 0..MaxParts, query \in Seq(RootType(n)), query # <<>>
  PROVE  LET r == query[Len(query)]
         IN  /\ Len(query) \in 1..Len(query) /\ r \in RootType(n)
             /\ Part("where") = r.where /\ Part("offset") = r.offset
             /\ Part("order") = r.order /\ Part("fields") = r.fields
<1>1. Len(query) \in 1..Len(query) /\ query[Len(query)] \in RootType(n)
  OBVIOUS
<1> DEFINE r == query[Len(query)]
<1>2. r \in RootType(n)
  BY <1>1
<1> HIDE DEF r
<1>3. /\ r["where"] = r.where /\ r["offset"] = r.offset
      /\ r["order"] = r.order /\ r["fields"] = r.fields
  BY <1>2 DEF RootType
<1> QED BY <1>1, <1>3 DEF r, Part, Newest

\* Becomes replaces one part of that root field, and Counts one of its weights.
LEMMA PartReplaced ==
  ASSUME NEW n \in 0..MaxParts, query \in Seq(RootType(n)), query # <<>>, NEW new
  PROVE  LET Revised(s) == query' = [query EXCEPT ![Len(query)] = s]
             r == query[Len(query)]
         IN  /\ Becomes("where", new) => Revised([r EXCEPT !.where = new])
             /\ Becomes("offset", new) => Revised([r EXCEPT !.offset = new])
             /\ Becomes("order", new) => Revised([r EXCEPT !.order = new])
             /\ Becomes("fields", new) => Revised([r EXCEPT !.fields = new])
  BY DEF Becomes, Newest, RootType

\* A weight counts what is written.
LEMMA WeightCounted ==
  ASSUME weights \in Seq(WeightType), weights # <<>>, Len(weights) = Len(query), NEW n \in Int
  PROVE  LET Revised(v) == weights' = [weights EXCEPT ![Len(query)] = v]
             w == weights[Len(query)]
         IN  /\ w \in WeightType
             /\ Counts("conditions", n) => Revised([w EXCEPT !.conditions = w.conditions + n])
             /\ Counts("skipped", n) => Revised([w EXCEPT !.skipped = w.skipped + n])
             /\ Counts("terms", n) => Revised([w EXCEPT !.terms = w.terms + n])
             /\ Counts("selected", n) => Revised([w EXCEPT !.selected = w.selected + n])
             /\ UNCHANGED weights => /\ Revised([w EXCEPT !.conditions = w.conditions + 0])
                                     /\ Revised([w EXCEPT !.selected = w.selected + 0])
<1> DEFINE w == weights[Len(query)]
<1>1. Len(query) \in 1..Len(weights) /\ w \in WeightType
  OBVIOUS
<1>2. /\ Counts("conditions", n) =>
           weights' = [weights EXCEPT ![Len(query)] = [w EXCEPT !.conditions = w.conditions + n]]
      /\ Counts("skipped", n) =>
           weights' = [weights EXCEPT ![Len(query)] = [w EXCEPT !.skipped = w.skipped + n]]
      /\ Counts("terms", n) =>
           weights' = [weights EXCEPT ![Len(query)] = [w EXCEPT !.terms = w.terms + n]]
      /\ Counts("selected", n) =>
           weights' = [weights EXCEPT ![Len(query)] = [w EXCEPT !.selected = w.selected + n]]
  BY <1>1 DEF Counts, Newest, WeightType
<1>3. /\ [weights EXCEPT ![Len(query)] = [w EXCEPT !.conditions = w.conditions + 0]] = weights
      /\ [weights EXCEPT ![Len(query)] = [w EXCEPT !.selected = w.selected + 0]] = weights
  <2>1. w.conditions + 0 = w.conditions /\ w.selected + 0 = w.selected
    BY <1>1 DEF WeightType
  <2>2. /\ [w EXCEPT !.conditions = w.conditions + 0] = w
        /\ [w EXCEPT !.selected = w.selected + 0] = w
    BY <1>1, <2>1 DEF WeightType
  <2>3. [weights EXCEPT ![Len(query)] = w] = weights
    BY <1>1
  <2> QED BY <2>2, <2>3
<1> QED BY <1>1, <1>2, <1>3

\* The root field that AddRoot puts, and its weights.
NewRoot(name) ==
  [name |-> name, where |-> <<>>, offset |-> 0, order |-> <<>>, fields |-> <<>>]
NoWeights == [conditions |-> 0, selected |-> 0, terms |-> 0, skipped |-> 0]

\* The two price lists of queryComplexity.ts.
LEMMA PricesTyped ==
  /\ [name \in Names |-> 1] \in [Names -> Nat]
  /\ [name \in Names |-> FieldPrice(name)] \in [Names -> Nat]
  /\ \A name : FieldPrice(name) \in Nat
  /\ FieldPrice("count") = 1 /\ FieldPrice("aggregate") = 1 /\ FieldPrice("sum") = 2
  /\ FieldPrice("summary") = 0
<1>1. \A name : FieldPrice(name) \in Nat
  BY DEF FieldPrice
<1>2. /\ FieldPrice("count") = 1 /\ FieldPrice("aggregate") = 1 /\ FieldPrice("sum") = 2
      /\ FieldPrice("summary") = 0
  BY DEF FieldPrice
<1> QED BY <1>1, <1>2

\* A term more, beside the others or around them.
LEMMA OrderGrows ==
  ASSUME NEW n \in 1..MaxParts, NEW order \in Selections[n - 1], NEW more,
         more \in {Append(order, Leaf("term")), <<Within("relation", order)>>}
  PROVE  more \in Selections[n] /\ OrderCost(more) = OrderCost(order) + 1
<1> DEFINE price == [name \in Names |-> 1]
<1>1. price \in [Names -> Nat] /\ \A name \in Names : price[name] = 1
  OBVIOUS
<1>2. \A within : OrderCost(within) = Priced(price, within)
  BY DEF OrderCost
<1> HIDE DEF price
<1>3. ASSUME NEW name \in Names
      PROVE  /\ Append(order, Leaf(name)) \in Selections[n]
             /\ OrderCost(Append(order, Leaf(name))) = OrderCost(order) + 1
             /\ <<Within(name, order)>> \in Selections[n]
             /\ OrderCost(<<Within(name, order)>>) = OrderCost(order) + 1
  BY <1>1, <1>2, PriceGrows
<1>4. "term" \in Names /\ "relation" \in Names
  BY DEF Names
<1> QED BY Zenon, <1>3, <1>4

\* A field more, beside the others or around them.
LEMMA FieldsGrow ==
  ASSUME NEW n \in 1..MaxParts, NEW fields \in Selections[n - 1], NEW name \in Names, NEW more,
         more \in {Append(fields, Leaf(name)), <<Within(name, fields)>>}
  PROVE  more \in Selections[n] /\ SelectionCost(more) = SelectionCost(fields) + FieldPrice(name)
<1> DEFINE price == [field \in Names |-> FieldPrice(field)]
<1>1. price \in [Names -> Nat] /\ price[name] = FieldPrice(name)
  BY PricesTyped
<1>2. \A within : SelectionCost(within) = Priced(price, within)
  BY DEF SelectionCost
<1> HIDE DEF price
<1>3. CASE more = Append(fields, Leaf(name))
  BY <1>1, <1>2, <1>3, PriceGrows
<1>4. CASE more = <<Within(name, fields)>>
  BY <1>1, <1>2, <1>4, PriceGrows
<1> QED BY <1>3, <1>4

\* An argument more of the last field.
LEMMA FieldsGivenArguments ==
  ASSUME NEW n \in 1..MaxParts, NEW fields \in Selections[n - 1], fields # <<>>
  PROVE  LET more == [fields EXCEPT ![Len(fields)].arguments = @ + 1]
         IN  more \in Selections[n] /\ SelectionCost(more) = SelectionCost(fields)
  BY PriceOfArguments, PricesTyped DEF SelectionCost

\* A new root field has no part and no weight.
LEMMA NewRootWeighed ==
  ASSUME NEW name \in Roots, NEW n \in 0..MaxParts
  PROVE  /\ NewRoot(name) \in RootType(n) /\ NoWeights \in WeightType
         /\ Weighed(NewRoot(name), NoWeights)
<1>1. 0 \in 0..MaxParts /\ <<>> \in Selections[0] /\ <<>> \in Selections[n]
  BY Depths, NothingSelected
<1>2. SelectionCost(<<>>) = 0 /\ OrderCost(<<>>) = 0
  <2>1. ASSUME NEW price \in [Names -> Nat]
        PROVE  Priced(price, <<>>) = 0
    <3>1. Priced(price, <<>>) = PricedCosts(price)[0][<<>>]
      BY <1>1, PricedIs
    <3> QED BY <3>1, PricedCostOfNone
  <2> QED BY <2>1, PricesTyped DEF SelectionCost, OrderCost
<1>3. <<>> \in Wheres[n]
  <2>1. <<>> \in Seq(Entries(n))
    OBVIOUS
  <2> QED BY <2>1, WheresAre
<1>4. NewRoot(name) \in RootType(n) /\ NoWeights \in WeightType
  BY <1>1, <1>3 DEF NewRoot, NoWeights, RootType, WeightType
<1> QED BY <1>2, <1>4, WhereCostOfNone DEF Weighed, NewRoot, NoWeights

\* The inductive invariant: each root field costs, in each of its parts, what was
\* counted as the part was written.
QueryInv ==
  /\ parts \in 0..MaxParts
  /\ query \in Seq(RootType(parts)) /\ weights \in Seq(WeightType)
  /\ Len(weights) = Len(query)
  /\ \A i \in 1..Len(query) : Weighed(query[i], weights[i])

\* The root field a client works on gets heavier, and the others stay.
Revision ==
  /\ query # <<>>
  /\ \E s, v : /\ Heavier(parts', query[Len(query)], weights[Len(query)], s, v)
               /\ query' = [query EXCEPT ![Len(query)] = s]
               /\ weights' = [weights EXCEPT ![Len(query)] = v]

\* Every way to write a part but AddRoot is a revision.
LEMMA WritingRevises ==
  ASSUME QueryInv, Write
  PROVE  /\ parts' = parts + 1 /\ parts' \in 1..MaxParts
         /\ (\E name \in Roots : AddRoot(name)) \/ Revision
<1> DEFINE r == query[Len(query)]
           w == weights[Len(query)]
           n == parts'
<1>1. n = parts + 1 /\ n \in 1..MaxParts /\ n - 1 = parts
  BY QueryAssumption DEF QueryAssumption, QueryInv, Write
<1>2. SUFFICES ASSUME query # <<>>, ~\E name \in Roots : AddRoot(name)
               PROVE  Revision
  BY <1>1 DEF Write
<1>3. /\ r \in RootType(n - 1) /\ Part("where") = r.where /\ Part("offset") = r.offset
      /\ Part("order") = r.order /\ Part("fields") = r.fields
  BY <1>1, <1>2, NewestParts DEF QueryInv
<1>4. w \in WeightType /\ Weighed(r, w) /\ weights # <<>>
  BY <1>2 DEF QueryInv
<1>5. /\ r.where \in Wheres[n - 1] /\ r.order \in Selections[n - 1]
      /\ r.fields \in Selections[n - 1] /\ r.offset \in Int
  BY <1>1, <1>3, RootsNest
<1>6. ASSUME NEW where \in Wheres[n], NEW points \in Nat, Becomes("where", where),
             WhereCost(where) = WhereCost(r.where) + points,
             weights' = [weights EXCEPT
                           ![Len(query)] = [w EXCEPT !.conditions = w.conditions + points]]
      PROVE  Revision
  <2>1. Heavier(n, r, w, [r EXCEPT !.where = where],
                [w EXCEPT !.conditions = w.conditions + points])
    BY <1>1, <1>3, <1>4, <1>6, WhereHeavier
  <2>2. query' = [query EXCEPT ![Len(query)] = [r EXCEPT !.where = where]]
    BY <1>2, <1>6, PartReplaced DEF QueryInv
  <2> QED BY <1>2, <1>6, <2>1, <2>2 DEF Revision
<1>7. ASSUME NEW order \in Selections[n], Becomes("order", order),
             OrderCost(order) = OrderCost(r.order) + 1, Counts("terms", 1)
      PROVE  Revision
  <2>1. Heavier(n, r, w, [r EXCEPT !.order = order], [w EXCEPT !.terms = w.terms + 1])
    BY <1>1, <1>3, <1>4, <1>7, OrderHeavier
  <2>2. query' = [query EXCEPT ![Len(query)] = [r EXCEPT !.order = order]]
    BY <1>2, <1>7, PartReplaced DEF QueryInv
  <2>3. weights' = [weights EXCEPT ![Len(query)] = [w EXCEPT !.terms = w.terms + 1]]
    BY <1>4, <1>7, WeightCounted DEF QueryInv
  <2> QED BY <1>2, <2>1, <2>2, <2>3 DEF Revision
<1>8. ASSUME NEW fields \in Selections[n], NEW points \in Nat, Becomes("fields", fields),
             SelectionCost(fields) = SelectionCost(r.fields) + points,
             weights' = [weights EXCEPT
                           ![Len(query)] = [w EXCEPT !.selected = w.selected + points]]
      PROVE  Revision
  <2>1. Heavier(n, r, w, [r EXCEPT !.fields = fields],
                [w EXCEPT !.selected = w.selected + points])
    BY <1>1, <1>3, <1>4, <1>8, FieldsHeavier
  <2>2. query' = [query EXCEPT ![Len(query)] = [r EXCEPT !.fields = fields]]
    BY <1>2, <1>8, PartReplaced DEF QueryInv
  <2> QED BY <1>2, <1>8, <2>1, <2>2 DEF Revision
<1>9. ASSUME NEW o \in Operators, Narrow(o) \/ NarrowAttribute(o) \/ Alternate(o)
      PROVE  Revision
  <2>1. o.points \in Nat
    BY OperatorIsPriced
  <2>2. CASE Narrow(o)
    <3> DEFINE where == Append(r.where, Filter(o))
    <3>1. where \in Wheres[n] /\ WhereCost(where) = WhereCost(r.where) + o.points
      BY <1>1, <1>5, WhereGrows
    <3>2. Becomes("where", where) /\ Counts("conditions", o.points)
      BY <1>3, <2>2 DEF Narrow
    <3>3. weights' = [weights EXCEPT
                        ![Len(query)] = [w EXCEPT !.conditions = w.conditions + o.points]]
      BY <1>4, <2>1, <3>2, WeightCounted DEF QueryInv
    <3> HIDE DEF where
    <3> QED BY Zenon, <1>6, <2>1, <3>1, <3>2, <3>3
  <2>3. CASE NarrowAttribute(o)
    <3> DEFINE where == [r.where EXCEPT ![Len(r.where)].operators = Append(@, o)]
    <3>1. where \in Wheres[n] /\ WhereCost(where) = WhereCost(r.where) + o.points
      BY <1>1, <1>3, <1>5, <2>3, FilterGrows DEF NarrowAttribute
    <3>2. Becomes("where", where) /\ Counts("conditions", o.points)
      BY <1>3, <2>3 DEF NarrowAttribute
    <3>3. weights' = [weights EXCEPT
                        ![Len(query)] = [w EXCEPT !.conditions = w.conditions + o.points]]
      BY <1>4, <2>1, <3>2, WeightCounted DEF QueryInv
    <3> HIDE DEF where
    <3> QED BY Zenon, <1>6, <2>1, <3>1, <3>2, <3>3
  <2>4. CASE Alternate(o)
    <3> DEFINE where == <<Conditional("_or", <<r.where, <<Filter(o)>>>>)>>
    <3>1. where \in Wheres[n] /\ WhereCost(where) = WhereCost(r.where) + o.points
      BY <1>1, <1>5, WhereGrows
    <3>2. Becomes("where", where) /\ Counts("conditions", o.points)
      BY <1>3, <2>4 DEF Alternate
    <3>3. weights' = [weights EXCEPT
                        ![Len(query)] = [w EXCEPT !.conditions = w.conditions + o.points]]
      BY <1>4, <2>1, <3>2, WeightCounted DEF QueryInv
    <3> HIDE DEF where
    <3> QED BY Zenon, <1>6, <2>1, <3>1, <3>2, <3>3
  <2> QED BY <1>9, <2>2, <2>3, <2>4
<1>10. CASE \E o \in Operators : Narrow(o) \/ NarrowAttribute(o) \/ Alternate(o)
  BY <1>9, <1>10
<1>11. CASE Negate
  <2> DEFINE where == <<Conditional("_not", <<r.where>>)>>
  <2>1. where \in Wheres[n] /\ WhereCost(where) = WhereCost(r.where) + 0
    BY <1>1, <1>5, WhereWithin
  <2>2. Becomes("where", where) /\ UNCHANGED weights
    BY <1>3, <1>11 DEF Negate
  <2>3. weights' = [weights EXCEPT
                      ![Len(query)] = [w EXCEPT !.conditions = w.conditions + 0]]
    BY <1>4, <2>2, 0 \in Nat, WeightCounted DEF QueryInv
  <2> HIDE DEF where
  <2> QED BY <1>6, <2>1, <2>2, <2>3, 0 \in Nat
<1>12. CASE OfRelation
  <2> DEFINE where == <<Conditional("relation", <<r.where>>)>>
  <2>1. where \in Wheres[n] /\ WhereCost(where) = WhereCost(r.where) + 1
    BY <1>1, <1>5, WhereWithin
  <2>2. Becomes("where", where) /\ Counts("conditions", 1)
    BY <1>3, <1>12 DEF OfRelation
  <2>3. weights' = [weights EXCEPT
                      ![Len(query)] = [w EXCEPT !.conditions = w.conditions + 1]]
    BY <1>4, <2>2, 1 \in Nat, WeightCounted DEF QueryInv
  <2>4. 1 \in Nat
    OBVIOUS
  <2> HIDE DEF where
  <2> QED BY Zenon, <1>6, <2>1, <2>2, <2>3, <2>4
<1>13. CASE \E rows \in Offsets : Skip(rows)
  <2>1. PICK rows \in Offsets : Skip(rows)
    BY <1>13
  <2>2. rows \in Int /\ r.offset = 0
    BY <1>3, <2>1, QueryAssumption DEF QueryAssumption, Skip
  <2>3. Heavier(n, r, w, [r EXCEPT !.offset = rows], [w EXCEPT !.skipped = w.skipped + rows])
    BY <1>1, <1>3, <1>4, <2>2, OffsetHeavier
  <2>4. query' = [query EXCEPT ![Len(query)] = [r EXCEPT !.offset = rows]]
    BY <1>2, <1>3, <2>1, PartReplaced DEF QueryInv, Skip
  <2>5. weights' = [weights EXCEPT ![Len(query)] = [w EXCEPT !.skipped = w.skipped + rows]]
    BY <1>4, <2>1, <2>2, WeightCounted DEF QueryInv, Skip
  <2> QED BY <1>2, <2>3, <2>4, <2>5 DEF Revision
<1>14. CASE Sort \/ SortByRelation
  <2>1. PICK order : /\ order \in {Append(r.order, Leaf("term")), <<Within("relation", r.order)>>}
                     /\ Becomes("order", order) /\ Counts("terms", 1)
    BY <1>3, <1>14 DEF Sort, SortByRelation
  <2>2. order \in Selections[n] /\ OrderCost(order) = OrderCost(r.order) + 1
    BY <1>1, <1>5, <2>1, OrderGrows
  <2> QED BY <1>7, <2>1, <2>2
<1>15. CASE Select("count", 1) \/ Select("sum", 2) \/ SelectWithin("aggregate", 1)
              \/ SelectWithin("summary", 0)
  <2>1. PICK name, fields :
          /\ name \in Names
          /\ fields \in {Append(r.fields, Leaf(name)), <<Within(name, r.fields)>>}
          /\ Becomes("fields", fields) /\ Counts("selected", FieldPrice(name))
    <3>1. "count" \in Names /\ "sum" \in Names /\ "aggregate" \in Names /\ "summary" \in Names
      BY DEF Names
    <3>2. CASE Select("count", 1)
      BY <1>3, <3>1, <3>2, PricesTyped DEF Select
    <3>3. CASE Select("sum", 2)
      BY <1>3, <3>1, <3>3, PricesTyped DEF Select
    <3>4. CASE SelectWithin("aggregate", 1)
      BY <1>3, <3>1, <3>4, PricesTyped DEF SelectWithin
    <3>5. CASE SelectWithin("summary", 0)
      BY <1>3, <3>1, <3>5, PricesTyped DEF SelectWithin
    <3> QED BY <1>15, <3>2, <3>3, <3>4, <3>5
  <2>2. /\ fields \in Selections[n]
        /\ SelectionCost(fields) = SelectionCost(r.fields) + FieldPrice(name)
    <3>1. /\ n \in 1..MaxParts /\ r.fields \in Selections[n - 1] /\ name \in Names
          /\ fields \in {Append(r.fields, Leaf(name)), <<Within(name, r.fields)>>}
      BY <1>1, <1>5, <2>1
    <3> HIDE DEF r, n
    <3> QED BY <3>1, FieldsGrow
  <2>3. FieldPrice(name) \in Nat
    BY PricesTyped
  <2>4. weights' = [weights EXCEPT
                      ![Len(query)] = [w EXCEPT !.selected = w.selected + FieldPrice(name)]]
    BY <1>4, <2>1, <2>3, WeightCounted DEF QueryInv
  <2> QED BY Zenon, <1>8, <2>1, <2>2, <2>3, <2>4
<1>16. CASE GiveArgument
  <2> DEFINE fields == [r.fields EXCEPT ![Len(r.fields)].arguments = @ + 1]
  <2>1. r.fields # <<>> /\ Becomes("fields", fields) /\ UNCHANGED weights
    BY <1>3, <1>16 DEF GiveArgument
  <2>2. fields \in Selections[n] /\ SelectionCost(fields) = SelectionCost(r.fields)
    BY <1>1, <1>5, <2>1, FieldsGivenArguments
  <2>3. SelectionCost(fields) = SelectionCost(r.fields) + 0
    BY <1>4, <2>2 DEF Weighed, WeightType
  <2>4. weights' = [weights EXCEPT ![Len(query)] = [w EXCEPT !.selected = w.selected + 0]]
    BY <1>4, <2>1, 0 \in Int, WeightCounted DEF QueryInv
  <2> HIDE DEF fields
  <2> QED BY <1>8, <2>1, <2>2, <2>3, <2>4, 0 \in Nat
<1> QED BY <1>2, <1>10, <1>11, <1>12, <1>13, <1>14, <1>15, <1>16 DEF Write

\* No query is weighed.
LEMMA QueryInvInit == Init => QueryInv
<1>1. /\ 0 \in 0..MaxParts /\ <<>> \in Seq(RootType(0)) /\ <<>> \in Seq(WeightType)
      /\ 1..Len(<<>>) = {}
  BY Depths
<1> QED BY <1>1 DEF Init, QueryInit, QueryInv

\* Send begins anew.
LEMMA SendKeepsInv ==
  ASSUME QueryInv, Send
  PROVE  QueryInv'
<1>1. /\ 0 \in 0..MaxParts /\ <<>> \in Seq(RootType(0)) /\ <<>> \in Seq(WeightType)
      /\ 1..Len(<<>>) = {}
  BY Depths
<1> QED BY <1>1 DEF Send, QueryInv

\* The other root fields stay, and the new one is weighed.
LEMMA AddRootKeepsInv ==
  ASSUME QueryInv, parts' \in 1..MaxParts, query \in Seq(RootType(parts')),
         NEW name \in Roots, AddRoot(name)
  PROVE  QueryInv'
<1> DEFINE r == NewRoot(name)
           n == Len(query)
<1>1. r \in RootType(parts') /\ NoWeights \in WeightType /\ Weighed(r, NoWeights)
  BY Depths, NewRootWeighed
<1>2. query' = Append(query, r) /\ weights' = Append(weights, NoWeights)
  BY DEF AddRoot, NewRoot, NoWeights
<1> HIDE DEF r
<1>3. /\ query' \in Seq(RootType(parts')) /\ Len(query') = n + 1 /\ query'[n + 1] = r
      /\ \A i \in 1..n : query'[i] = query[i]
  BY <1>1, <1>2
<1>4. /\ weights' \in Seq(WeightType) /\ Len(weights') = n + 1 /\ weights'[n + 1] = NoWeights
      /\ \A i \in 1..n : weights'[i] = weights[i]
  BY <1>1, <1>2 DEF QueryInv
<1>5. ASSUME NEW i \in 1..Len(query')
      PROVE  Weighed(query'[i], weights'[i])
  <2>1. i = n + 1 \/ i \in 1..n
    BY <1>3
  <2> QED BY <1>1, <1>3, <1>4, <2>1 DEF QueryInv
<1>6. parts' \in 0..MaxParts
  BY Depths
<1> QED BY <1>3, <1>4, <1>5, <1>6 DEF QueryInv

\* The other root fields stay, and the newest is weighed again.
LEMMA RevisionKeepsInv ==
  ASSUME QueryInv, parts' \in 1..MaxParts, query \in Seq(RootType(parts')), Revision
  PROVE  QueryInv'
<1> DEFINE n == Len(query)
<1>1. PICK s, v : /\ Heavier(parts', query[n], weights[n], s, v)
                  /\ query' = [query EXCEPT ![n] = s] /\ weights' = [weights EXCEPT ![n] = v]
  BY DEF Revision
<1>2. s \in RootType(parts') /\ v \in WeightType /\ Weighed(s, v)
  BY <1>1 DEF Heavier
<1>3. n \in 1..n /\ weights \in Seq(WeightType) /\ Len(weights) = n
  BY DEF Revision, QueryInv
<1>4. /\ query' \in Seq(RootType(parts')) /\ Len(query') = n /\ query'[n] = s
      /\ \A i \in 1..n : i # n => query'[i] = query[i]
  BY <1>1, <1>2, <1>3, ExceptSeq
<1>5. /\ weights' \in Seq(WeightType) /\ Len(weights') = n /\ weights'[n] = v
      /\ \A i \in 1..n : i # n => weights'[i] = weights[i]
  BY <1>1, <1>2, <1>3, ExceptSeq
<1>6. ASSUME NEW i \in 1..n
      PROVE  Weighed(query'[i], weights'[i])
  BY <1>2, <1>4, <1>5 DEF QueryInv
<1>7. parts' \in 0..MaxParts
  BY Depths
<1> QED BY <1>4, <1>5, <1>6, <1>7 DEF QueryInv

\* The roots written so far have the type of a query of one part more.
LEMMA QueryNests ==
  ASSUME QueryInv, Write
  PROVE  parts' \in 1..MaxParts /\ parts' = parts + 1 /\ query \in Seq(RootType(parts'))
<1>1. parts' = parts + 1 /\ parts' \in 1..MaxParts /\ parts' - 1 = parts
  BY WritingRevises DEF QueryInv
<1>2. RootType(parts) \subseteq RootType(parts')
  BY <1>1, RootsNest
<1> QED BY <1>1, <1>2, SeqOfMore DEF QueryInv

\* By the step a client takes; the resolvers leave the query alone.
LEMMA QueryInvStep ==
  ASSUME QueryInv, [Next]_vars
  PROVE  QueryInv'
<1>1. CASE Write
  BY <1>1, QueryNests, WritingRevises, AddRootKeepsInv, RevisionKeepsInv
<1>2. CASE Send
  BY <1>2, SendKeepsInv
<1>3. CASE UNCHANGED queryVars
  BY <1>3 DEF queryVars, QueryInv
<1> QED BY <1>1, <1>2, <1>3 DEF Next, vars, Writing, Beside

\* QueryInv is inductive.
THEOREM QueriesAreWeighed == Spec => []QueryInv
  BY QueryInvInit, QueryInvStep, PTL DEF Spec

-----------------------------------------------------------------------------
(* What a query costs                                                        *)

\* If each root field weighs what it costs, so does the query.
LEMMA WeighedQuery == QueryInv => CostIsTheWeight
<1> SUFFICES ASSUME QueryInv PROVE CostIsTheWeight
  OBVIOUS
<1>1. DOMAIN query = 1..Len(query) /\ weights \in Seq(WeightType) /\ Len(weights) = Len(query)
  BY DEF QueryInv
<1>2. ASSUME NEW i \in DOMAIN query
      PROVE  RootCost(query[i]) = WeightCost(query[i].name, weights[i])
  <2>1. weights[i] \in WeightType /\ Weighed(query[i], weights[i])
    BY <1>1 DEF QueryInv
  <2> QED BY <2>1, RootCostIsWeight
<1>3. [i \in DOMAIN query |-> RootCost(query[i])] =
        [i \in DOMAIN query |-> WeightCost(query[i].name, weights[i])]
  BY <1>2
<1> QED BY <1>3 DEF CostIsTheWeight, Cost, WeightCost

\* A query costs what its parts weigh, however deep they are nested and whatever
\* the limit on them: the recursion of the estimators weighs every condition, term and
\* field once, and of arguments the root fields' alone; a negative offset takes its whole
\* pages off.
THEOREM CostIsExact == Spec => []CostIsTheWeight
  BY QueriesAreWeighed, WeighedQuery, PTL

RootPrice(n) == [r \in RootType(n) |-> RootCost(r)]

\* Of a query whose root fields are weighed: Cost adds what each of them costs.
LEMMA CostIsASum ==
  ASSUME NEW n, NEW roots \in Seq(RootType(n))
  PROVE  Cost(roots) = Costs(RootPrice(n), roots)
<1>1. \A i \in DOMAIN roots : roots[i] \in RootType(n)
  OBVIOUS
<1>2. [i \in DOMAIN roots |-> RootCost(roots[i])] =
        [i \in DOMAIN roots |-> RootPrice(n)[roots[i]]]
  BY <1>1 DEF RootPrice
<1> QED BY <1>2 DEF Cost, Costs

\* What a root field costs is an integer.
LEMMA RootPriceTyped ==
  ASSUME NEW n \in 0..MaxParts
  PROVE  RootPrice(n) \in [RootType(n) -> Int]
<1>1. ASSUME NEW r \in RootType(n)
      PROVE  RootCost(r) \in Int
  <2>1. /\ r.where \in Wheres[n] /\ r.order \in Selections[n] /\ r.fields \in Selections[n]
        /\ r.offset \in Int
    BY DEF RootType
  <2>2. WhereCost(r.where) \in Nat
    BY <2>1, WhereCostIs
  <2>3. SelectionCost(r.fields) \in Nat /\ OrderCost(r.order) \in Nat
    BY <2>1, PricedIs, PricesTyped DEF SelectionCost, OrderCost
  <2> DEFINE w == [conditions |-> WhereCost(r.where), selected |-> SelectionCost(r.fields),
                   terms |-> OrderCost(r.order), skipped |-> r.offset]
  <2>4. w \in WeightType /\ Weighed(r, w)
    BY <2>1, <2>2, <2>3 DEF WeightType, Weighed
  <2> QED BY <2>4, RootCostIsWeight
<1> QED BY <1>1 DEF RootPrice

\* Whatever part a client adds to a query, wherever it puts it, the query does not
\* get cheaper, unless the root field it is put in has an offset of -100 or less.
THEOREM MoreIsNeverCheaper == Spec => NeverCheaper
<1>1. ASSUME QueryInv, Write, query'[Len(query')].offset > -100
      PROVE  Cost(query) <= Cost(query')
  <2> DEFINE m == parts'
             c == RootPrice(m)
             n == Len(query)
  <2>1. m \in 1..MaxParts /\ m \in 0..MaxParts /\ query \in Seq(RootType(m))
    BY <1>1, QueryNests, Depths
  <2>2. c \in [RootType(m) -> Int] /\ Cost(query) = Costs(c, query) /\ Cost(query) \in Int
    BY <2>1, RootPriceTyped, CostIsASum, CostsInInt
  <2>3. CASE \E name \in Roots : AddRoot(name)
    <3>1. PICK name \in Roots : AddRoot(name)
      BY <2>3
    <3> DEFINE r == NewRoot(name)
    <3>2. r \in RootType(m) /\ query' = Append(query, r) /\ RootCost(r) \in Nat
      <4>1. /\ r \in RootType(m) /\ query' = Append(query, r) /\ r.offset = 0
            /\ NoWeights \in WeightType /\ Weighed(r, NoWeights)
        BY <2>1, <3>1, NewRootWeighed DEF AddRoot, NewRoot
      <4> HIDE DEF r
      <4> QED BY <4>1, RootCostIsWeight
    <3> HIDE DEF r
    <3>3. query' \in Seq(RootType(m)) /\ Costs(c, query') = Costs(c, query) + c[r] /\ c[r] \in Nat
      <4>1. c[r] \in Nat
        BY <3>2 DEF RootPrice
      <4> HIDE DEF c
      <4> QED BY <2>1, <2>2, <3>2, <4>1, AppendProperties, CostsOfAppend
    <3>4. Cost(query') = Costs(c, query')
      BY <3>3, CostIsASum
    <3> QED BY <2>2, <3>3, <3>4
  <2>4. CASE Revision
    <3>1. PICK s, v : /\ Heavier(m, query[n], weights[n], s, v)
                      /\ query' = [query EXCEPT ![n] = s]
      BY <2>4 DEF Revision
    <3>2. /\ query # <<>> /\ n \in 1..n /\ query[n] \in RootType(m) /\ weights[n] \in WeightType
          /\ Weighed(query[n], weights[n])
      BY <1>1, <2>1, <2>4 DEF Revision, QueryInv
    <3>3. /\ s \in RootType(m) /\ v \in WeightType /\ Weighed(s, v) /\ s.name = query[n].name
          /\ WeightCost(query[n].name, weights[n]) <= WeightCost(s.name, v)
      <4>1. s.offset > -100
        BY <1>1, <2>1, <3>1, <3>2, ExceptSeq
      <4>2. v.skipped > -100
        BY <3>1, <4>1 DEF Heavier, Weighed
      <4> QED BY <3>1, <3>2, <4>2, MoreIsNotCheaper DEF Heavier
    <3>4. /\ c[query[n]] \in Int /\ c[s] \in Int /\ c[query[n]] <= c[s]
      BY <2>2, <3>2, <3>3, RootCostIsWeight DEF RootPrice
    <3>5. query' \in Seq(RootType(m))
      BY <2>1, <3>1, <3>2, <3>3, ExceptSeq
    <3>6. Cost(query') = Costs(c, query')
      BY <3>5, CostIsASum
    <3>7. DifferByLast(c, query, s)
      <4> DEFINE S == RootType(m)
      <4>1. c \in [S -> Int] /\ query \in Seq(S) /\ query # <<>> /\ s \in S
        BY <2>1, <2>2, <3>2, <3>3
      <4> HIDE DEF S, c
      <4> QED BY <4>1, CostsOfReplaced
    <3>8. PICK others \in Int : Costs(c, query) = others + c[query[n]]
                               /\ Costs(c, query') = others + c[s]
      BY <3>1, <3>7 DEF DifferByLast
    <3> QED BY <2>2, <3>4, <3>6, <3>8
  <2> QED BY <1>1, <2>3, <2>4, WritingRevises
<1>2. ASSUME QueryInv, [Next]_vars
      PROVE  [parts' > parts /\ query'[Len(query')].offset > -100
                => Cost(query) <= Cost(query')]_queryVars
  <2>1. CASE Send
    BY <1>2, <2>1 DEF Send, QueryInv
  <2>2. CASE UNCHANGED queryVars
    BY <2>2
  <2>3. CASE Write
    BY <1>1, <1>2, <2>3
  <2> QED BY <1>2, <2>1, <2>2, <2>3 DEF Next, vars, Writing, Beside
<1> QED BY <1>2, QueriesAreWeighed, PTL DEF Spec, NeverCheaper

-----------------------------------------------------------------------------
(* The resolvers beside the plugin                                           *)

\* The complexity plugin takes no behaviour of the resolvers that they do not have
\* without it: a request it refuses is one that is not made.
THEOREM RequestsAreAnswers == Spec => DataSpec
<1>1. Init => DataInit
  BY DEF Init
<1>2. [Next]_vars => [DataNext]_dataVars
  BY DEF Next, vars, Writing, Beside, Tick, DataNext
<1> QED BY <1>1, <1>2, PTL DEF Spec, DataSpec

\* Beside the plugin and its clients the resolvers keep their types, and an address's
\* summary is exact.
THEOREM RequestsAreSafe == Spec => [](TypeOK /\ SummaryAdds)
  BY RequestsAreAnswers, AnswersTypes, SummaryIsExact, PTL

\* Nor does a step take back an answer of ada, or clear the timer too early.
THEOREM RequestsAreHonest == Spec => AdaStaysReady /\ ReadyHonest
  BY RequestsAreAnswers, AdaNeverUnready, TimerIsHonest, PTL
=============================================================================
