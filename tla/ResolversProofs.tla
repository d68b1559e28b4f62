-------------------------- MODULE ResolversProofs ---------------------------
(***************************************************************************)
(* Proofs about Resolvers, for every chain, every address and every limit  *)
(* on rows.                                                                *)
(***************************************************************************)
EXTENDS Resolvers, FiniteSetTheorems, SequenceTheorems, TLAPS

-----------------------------------------------------------------------------
(* Induction                                                                 *)
(*                                                                           *)
(* The induction theorems of the library take the property as an operator;   *)
(* here it is the set of the numbers that have it.                           *)

\* A set that has 0, and with each number the next, has them all.
LEMMA SetInduction ==
  ASSUME NEW S, 0 \in S, \A n \in Nat : n \in S => n + 1 \in S
  PROVE  Nat \subseteq S
<1>1. SUFFICES ASSUME NEW k \in Nat, k \notin S PROVE FALSE
  OBVIOUS
<1> DEFINE U == FiniteSubsetsOf(0..k)
           T == {z \in U : \E n \in 0..k : n \notin S /\ z = 0..n}
<1>2. \A n \in 0..k : 0..n \in U
  BY FS_FiniteSubsetsOfFinite, FS_Interval, k \in Int, 0 \in Int
<1>3. 0..k \in T
  BY <1>1, <1>2
<1>4. PICK z \in T : \A y \in T : ~(<<y, z>> \in StrictSubsetOrdering(0..k))
  <2>1. T \subseteq U /\ T # {}
    BY <1>3
  <2> HIDE DEF T, U
  <2>2. IsWellFoundedOn(StrictSubsetOrdering(0..k), U)
    BY FS_StrictSubsetOrderingWellFounded DEF U
  <2> QED BY <2>1, <2>2, WFMin
<1>5. PICK n \in 0..k : n \notin S /\ z = 0..n
  BY <1>4
<1>6. n # 0 /\ n - 1 \in 0..k /\ n - 1 \notin S
  <2>1. n # 0 BY <1>5
  <2>2. n - 1 \in Nat BY <2>1
  <2> QED BY <1>5, <2>1, <2>2
<1>7. 0..(n - 1) \in T
  BY <1>2, <1>6
<1>8. <<0..(n - 1), 0..n>> \in StrictSubsetOrdering(0..k)
  <2>1. 0..(n - 1) \subseteq 0..n /\ 0..n \subseteq 0..k
    OBVIOUS
  <2>2. n \in 0..n /\ n \notin 0..(n - 1)
    OBVIOUS
  <2> QED BY <2>1, <2>2 DEF StrictSubsetOrdering
<1> QED BY <1>4, <1>5, <1>7, <1>8

\* The same up to a bound.
LEMMA BoundedInduction ==
  ASSUME NEW N \in Nat, NEW S, 0 \in S, \A i \in 1..N : i - 1 \in S => i \in S
  PROVE  0..N \subseteq S
<1> DEFINE T == {i \in Nat : i <= N => i \in S}
<1>1. 0 \in T
  OBVIOUS
<1>2. ASSUME NEW i \in Nat, i \in T PROVE i + 1 \in T
  <2>1. i + 1 \in Nat /\ (i + 1) - 1 = i
    OBVIOUS
  <2>2. ASSUME i + 1 <= N PROVE i + 1 \in S
    <3>1. i \in S /\ i + 1 \in 1..N
      BY <1>2, <2>2
    <3> QED BY <2>1, <3>1
  <2> QED BY <2>1, <2>2
<1> HIDE DEF T
<1>3. Nat \subseteq T
  BY <1>1, <1>2, SetInduction
<1> QED BY <1>3 DEF T

\* f is defined on 0..N by recursion, from z by the steps of G.
Recurs(f, N, V, z, G) ==
  f \in [0..N -> V] /\ f[0] = z /\ \A i \in 1..N : f[i] = G[<<i, f[i - 1]>>]

\* A function that is defined by recursion exists.
LEMMA Recursion ==
  ASSUME NEW N \in Nat, NEW V, NEW z \in V, NEW G \in [(1..N) \X V -> V]
  PROVE  \E f : Recurs(f, N, V, z, G)
<1> DEFINE Upto(k) == {f \in [0..k -> V] : Recurs(f, k, V, z, G)}
           S == {k \in 0..N : Upto(k) # {}}
<1>1. 0 \in S
  <2>1. [i \in 0..0 |-> z] \in Upto(0)
    BY DEF Recurs
  <2> QED BY <2>1
<1>2. ASSUME NEW k \in 1..N, k - 1 \in S PROVE k \in S
  <2>1. PICK f : Recurs(f, k - 1, V, z, G)
    BY <1>2
  <2> DEFINE g == [i \in 0..k |-> IF i = k THEN G[<<k, f[k - 1]>>] ELSE f[i]]
  <2>2. f \in [0..(k - 1) -> V] /\ k - 1 \in 0..(k - 1)
    BY <2>1 DEF Recurs
  <2>3. G[<<k, f[k - 1]>>] \in V
    BY <2>2
  <2>4. g \in [0..k -> V]
    BY <2>2, <2>3
  <2>5. g[0] = z
    BY <2>1 DEF Recurs
  <2>6. ASSUME NEW i \in 1..k PROVE g[i] = G[<<i, g[i - 1]>>]
    <3>1. i - 1 \in 0..k /\ i - 1 # k /\ g[i - 1] = f[i - 1]
      OBVIOUS
    <3>2. CASE i = k
      BY <3>1, <3>2
    <3>3. CASE i # k
      <4>1. i \in 1..(k - 1)
        BY <3>3
      <4> QED BY <2>1, <3>1, <3>3, <4>1 DEF Recurs
    <3> QED BY <3>2, <3>3
  <2>7. g \in Upto(k)
    BY <2>4, <2>5, <2>6 DEF Recurs
  <2> HIDE DEF Upto
  <2> QED BY <2>7
<1>3. N \in S
  <2> HIDE DEF S
  <2> QED BY <1>1, <1>2, BoundedInduction
<1> QED BY <1>3

-----------------------------------------------------------------------------
(* Sums                                                                      *)

\* The partial sums, of integers
LEMMA AddedIsASumOfIntegers ==
  ASSUME NEW n \in Nat, NEW w \in [1..n -> Int]
  PROVE  \E f \in [0..n -> Int] : /\ f[0] = 0 /\ \A i \in 1..n : f[i] = f[i - 1] + w[i]
                                  /\ Added(w, n) = f[n]
<1> DEFINE Is(f) == f = [i \in 0..n |-> IF i = 0 THEN 0 ELSE f[i - 1] + w[i]]
           G == [p \in (1..n) \X Int |-> p[2] + w[p[1]]]
           D == CHOOSE f : Is(f)
<1>1. Added(w, n) = D[n]
  BY DEF Added
<1>2. \E f : Is(f)
  <2>1. G \in [(1..n) \X Int -> Int]
    OBVIOUS
  <2>2. PICK f \in [0..n -> Int] : f[0] = 0 /\ \A i \in 1..n : f[i] = G[<<i, f[i - 1]>>]
    <3>1. \E f : Recurs(f, n, Int, 0, G)
      <4> HIDE DEF G, D, Is
      <4> QED BY <2>1, 0 \in Int, Recursion
    <3> HIDE DEF G
    <3> QED BY <3>1 DEF Recurs
  <2>3. ASSUME NEW i \in 1..n PROVE f[i] = f[i - 1] + w[i]
    <3>1. i - 1 \in 0..n
      OBVIOUS
    <3> QED BY <2>2, <3>1
  <2>4. \A i \in 0..n : f[i] = IF i = 0 THEN 0 ELSE f[i - 1] + w[i]
    BY <2>2, <2>3
  <2>5. f = [i \in 0..n |-> IF i = 0 THEN 0 ELSE f[i - 1] + w[i]]
    BY <2>4
  <2> QED BY <2>5
<1>3. Is(D)
  BY <1>2
<1> HIDE DEF D
<1>4. D[0] = 0 /\ \A i \in 1..n : D[i] = D[i - 1] + w[i]
  BY <1>3
<1>5. \A i \in 0..n : D[i] \in Int
  <2> DEFINE S == {i \in 0..n : D[i] \in Int}
  <2>1. 0 \in S
    BY <1>4
  <2>2. ASSUME NEW i \in 1..n, i - 1 \in S PROVE i \in S
    BY <1>4, <2>2
  <2> HIDE DEF S
  <2>3. 0..n \subseteq S
    BY <2>1, <2>2, BoundedInduction
  <2> QED BY <2>3 DEF S
<1>6. D \in [0..n -> Int]
  BY <1>3, <1>5
<1> QED BY <1>1, <1>4, <1>6

\* and of natural numbers.
LEMMA AddedIsASum ==
  ASSUME NEW n \in Nat, NEW w \in [1..n -> Nat]
  PROVE  \E f \in [0..n -> Nat] : /\ f[0] = 0 /\ \A i \in 1..n : f[i] = f[i - 1] + w[i]
                                  /\ Added(w, n) = f[n]
<1>1. w \in [1..n -> Int]
  OBVIOUS
<1>2. PICK f \in [0..n -> Int] : /\ f[0] = 0 /\ \A i \in 1..n : f[i] = f[i - 1] + w[i]
                                 /\ Added(w, n) = f[n]
  BY <1>1, AddedIsASumOfIntegers
<1> DEFINE S == {i \in 0..n : f[i] \in Nat}
<1>3. 0 \in S
  BY <1>2
<1>4. ASSUME NEW i \in 1..n, i - 1 \in S PROVE i \in S
  BY <1>2, <1>4
<1> HIDE DEF S
<1>5. 0..n \subseteq S
  BY <1>3, <1>4, BoundedInduction
<1>6. f \in [0..n -> Nat]
  BY <1>2, <1>5 DEF S
<1> QED BY <1>2, <1>6

Prefix(w, k) == [i \in 1..k |-> w[i]]

\* A sum grows by one term at a time, of integers
LEMMA PrefixSumsOfIntegers ==
  ASSUME NEW n \in Nat, NEW w \in [1..n -> Int]
  PROVE  /\ Prefix(w, n) = w
         /\ Added(Prefix(w, 0), 0) = 0
         /\ \A k \in 0..n : Added(Prefix(w, k), k) \in Int
         /\ \A k \in 1..n : Added(Prefix(w, k), k) = Added(Prefix(w, k - 1), k - 1) + w[k]
<1>1. PICK f \in [0..n -> Int] : f[0] = 0 /\ \A i \in 1..n : f[i] = f[i - 1] + w[i]
  BY AddedIsASumOfIntegers
<1>2. ASSUME NEW k \in 0..n PROVE Added(Prefix(w, k), k) = f[k]
  <2>1. k \in Nat /\ Prefix(w, k) \in [1..k -> Int] /\ \A i \in 1..k : Prefix(w, k)[i] = w[i]
    BY DEF Prefix
  <2>2. PICK g \in [0..k -> Int] :
          /\ g[0] = 0 /\ \A i \in 1..k : g[i] = g[i - 1] + Prefix(w, k)[i]
          /\ Added(Prefix(w, k), k) = g[k]
    BY <2>1, AddedIsASumOfIntegers
  <2> DEFINE S == {i \in 0..k : g[i] = f[i]}
  <2>3. 0 \in S
    BY <1>1, <2>2
  <2>4. ASSUME NEW i \in 1..k, i - 1 \in S PROVE i \in S
    <3>1. g[i] = g[i - 1] + w[i] /\ f[i] = f[i - 1] + w[i]
      BY <1>1, <2>1, <2>2
    <3> QED BY <2>4, <3>1
  <2> HIDE DEF S
  <2>5. 0..k \subseteq S
    BY <2>1, <2>3, <2>4, BoundedInduction
  <2> QED BY <2>1, <2>2, <2>5 DEF S
<1>3. Prefix(w, n) = w
  BY DEF Prefix
<1>4. \A k \in 1..n : k - 1 \in 0..n /\ k \in 0..n
  OBVIOUS
<1> QED BY <1>1, <1>2, <1>3, <1>4

\* and of natural numbers.
LEMMA PrefixSums ==
  ASSUME NEW n \in Nat, NEW w \in [1..n -> Nat]
  PROVE  /\ Prefix(w, n) = w
         /\ Added(Prefix(w, 0), 0) = 0
         /\ \A k \in 0..n : Added(Prefix(w, k), k) \in Nat
         /\ \A k \in 1..n : Added(Prefix(w, k), k) = Added(Prefix(w, k - 1), k - 1) + w[k]
<1>1. w \in [1..n -> Int]
  OBVIOUS
<1>2. ASSUME NEW k \in 0..n PROVE Added(Prefix(w, k), k) \in Nat
  <2>1. k \in Nat /\ k \in 0..k /\ Prefix(w, k) \in [1..k -> Nat]
    BY DEF Prefix
  <2>2. PICK f \in [0..k -> Nat] : Added(Prefix(w, k), k) = f[k]
    BY <2>1, AddedIsASum
  <2> QED BY <2>1, <2>2
<1> QED BY <1>1, <1>2, PrefixSumsOfIntegers

\* A sum of zeros.
LEMMA NothingAdded ==
  ASSUME NEW n \in Nat, NEW w \in [1..n -> Nat], \A i \in 1..n : w[i] = 0
  PROVE  Added(w, n) = 0
<1>1. PICK f \in [0..n -> Nat] : /\ f[0] = 0 /\ \A i \in 1..n : f[i] = f[i - 1] + w[i]
                                 /\ Added(w, n) = f[n]
  BY AddedIsASum
<1> DEFINE S == {i \in 0..n : f[i] = 0}
<1>2. 0 \in S
  BY <1>1
<1>3. ASSUME NEW i \in 1..n, i - 1 \in S PROVE i \in S
  BY <1>1, <1>3
<1> HIDE DEF S
<1>4. 0..n \subseteq S
  BY <1>2, <1>3, BoundedInduction
<1> QED BY <1>1, <1>4 DEF S

-----------------------------------------------------------------------------
(* Balances                                                                  *)

Keys == AssetIds \cup {"ada"}
Maps == UNION {[D -> Nat] : D \in SUBSET Keys}

\* What a map holds is a natural number, and its keys are ada and assetIds.
LEMMA MapHolds ==
  ASSUME NEW map \in Maps, NEW key \in Keys
  PROVE  /\ DOMAIN map \subseteq Keys /\ map \in [DOMAIN map -> Nat]
         /\ Holding(map, key) \in Nat
<1>1. PICK D \in SUBSET Keys : map \in [D -> Nat]
  BY DEF Maps
<1> QED BY <1>1 DEF Holding

\* A new map holds nothing.
LEMMA NewMapHolds == NewMap \in Maps /\ \A key : Holding(NewMap, key) = 0
<1>1. NewMap \in [{} -> Nat] /\ {} \in SUBSET Keys
  BY DEF NewMap
<1> QED BY <1>1 DEF Maps, NewMap, Holding

\* map.set adds to the entry of its asset and to no other.
LEMMA CreditedHolds ==
  ASSUME NEW map \in Maps, NEW asset \in Keys, NEW quantity \in Nat
  PROVE  /\ Credited(map, asset, quantity) \in Maps
         /\ \A key \in Keys :
              Holding(Credited(map, asset, quantity), key) =
                Holding(map, key) + (IF key = asset THEN quantity ELSE 0)
<1> DEFINE new == Credited(map, asset, quantity)
           D == DOMAIN map \cup {asset}
<1>1. DOMAIN map \subseteq Keys /\ map \in [DOMAIN map -> Nat] /\ Holding(map, asset) \in Nat
  BY MapHolds
<1>2. new = [key \in D |-> IF key = asset THEN Holding(map, asset) + quantity ELSE map[key]]
  BY DEF Credited
<1>3. D \in SUBSET Keys /\ new \in [D -> Nat]
  BY <1>1, <1>2
<1>4. new \in Maps
  BY <1>3 DEF Maps
<1>5. ASSUME NEW key \in Keys
      PROVE  Holding(new, key) = Holding(map, key) + (IF key = asset THEN quantity ELSE 0)
  <2>1. Holding(map, key) \in Nat
    BY MapHolds
  <2>2. CASE key = asset
    BY <1>1, <1>2, <2>2 DEF Holding
  <2>3. CASE key # asset
    <3>1. Holding(new, key) = Holding(map, key)
      BY <1>2, <2>3 DEF Holding
    <3> QED BY <2>1, <2>3, <3>1
  <2> QED BY <2>2, <2>3
<1> QED BY <1>4, <1>5

\* What the tokens of an output add.
Listed(tokens, key) ==
  [i \in DOMAIN tokens |-> IF tokens[i].asset = key THEN tokens[i].quantity ELSE 0]

\* The tokens of an output are credited one by one.
LEMMA CreditedAllHolds ==
  ASSUME NEW map \in Maps, NEW tokens \in Seq(TokenType)
  PROVE  /\ CreditedAll(map, tokens) \in Maps
         /\ \A key \in Keys :
              /\ Added(Listed(tokens, key), Len(tokens)) \in Nat
              /\ Holding(CreditedAll(map, tokens), key) =
                   Holding(map, key) + Added(Listed(tokens, key), Len(tokens))
<1> DEFINE n == Len(tokens)
           After(i, m) == Credited(m, tokens[i].asset, tokens[i].quantity)
           Is(f) == f = [i \in 0..n |-> IF i = 0 THEN map ELSE After(i, f[i - 1])]
           D == CHOOSE f : Is(f)
<1>1. /\ n \in Nat /\ DOMAIN tokens = 1..n
      /\ \A i \in 1..n : tokens[i].asset \in Keys /\ tokens[i].quantity \in Nat
  <2>1. n \in Nat /\ DOMAIN tokens = 1..n /\ \A i \in 1..n : tokens[i] \in TokenType
    BY LenProperties, ElementOfSeq
  <2> QED BY <2>1 DEF TokenType, Keys
<1>2. CreditedAll(map, tokens) = D[n]
  BY DEF CreditedAll
<1>3. \A i \in 1..n : \A m \in Maps : After(i, m) \in Maps
  BY <1>1, CreditedHolds
<1>4. \E f : Is(f)
  <2> DEFINE G == [p \in (1..n) \X Maps |-> After(p[1], p[2])]
  <2>1. G \in [(1..n) \X Maps -> Maps]
    <3> HIDE DEF n, After
    <3> QED BY <1>3
  <2>2. PICK f : Recurs(f, n, Maps, map, G)
    <3> HIDE DEF G, D, Is, n
    <3> QED BY <1>1, <2>1, Recursion
  <2>3. ASSUME NEW i \in 1..n PROVE f[i] = After(i, f[i - 1])
    <3>1. i - 1 \in 0..n
      BY <1>1
    <3>2. f[i - 1] \in Maps /\ f[i] = G[<<i, f[i - 1]>>]
      BY <2>2, <3>1 DEF Recurs
    <3> HIDE DEF n, After
    <3> QED BY <3>2
  <2>4. f = [i \in 0..n |-> IF i = 0 THEN map ELSE After(i, f[i - 1])]
    <3> HIDE DEF n, After, G
    <3>1. f \in [0..n -> Maps] /\ f[0] = map
      BY <2>2 DEF Recurs
    <3>2. \A i \in 0..n : f[i] = IF i = 0 THEN map ELSE After(i, f[i - 1])
      BY <1>1, <2>3, <3>1
    <3> QED BY <3>1, <3>2
  <2> QED BY <2>4
<1>5. Is(D)
  BY <1>4
<1> HIDE DEF D, After
<1>6. D[0] = map /\ \A i \in 1..n : D[i] = After(i, D[i - 1])
  <2> HIDE DEF n
  <2> QED BY <1>1, <1>5
<1> HIDE DEF n
<1>7. ASSUME NEW key \in Keys
      PROVE  /\ Listed(tokens, key) \in [1..n -> Nat] /\ Added(Listed(tokens, key), n) \in Nat
             /\ D[n] \in Maps
             /\ Holding(D[n], key) = Holding(map, key) + Added(Listed(tokens, key), n)
  <2> DEFINE w == Listed(tokens, key)
             S == {i \in 0..n : /\ D[i] \in Maps
                                /\ Holding(D[i], key) =
                                     Holding(map, key) + Added(Prefix(w, i), i)}
  <2>1. w \in [1..n -> Nat]
    BY <1>1 DEF Listed
  <2> HIDE DEF w
  <2>2. /\ Prefix(w, n) = w /\ Added(Prefix(w, 0), 0) = 0
        /\ \A i \in 0..n : Added(Prefix(w, i), i) \in Nat
        /\ \A i \in 1..n : Added(Prefix(w, i), i) = Added(Prefix(w, i - 1), i - 1) + w[i]
    BY <1>1, <2>1, PrefixSums
  <2>3. Holding(map, key) \in Nat
    BY MapHolds
  <2>4. 0 \in S
    BY <1>1, <1>6, <2>2, <2>3
  <2>5. ASSUME NEW i \in 1..n, i - 1 \in S PROVE i \in S
    <3>1. D[i - 1] \in Maps /\ i \in 0..n /\ i - 1 \in 0..n
      BY <1>1, <2>5
    <3>2. D[i] \in Maps /\ Holding(D[i], key) = Holding(D[i - 1], key) + w[i]
      BY SMTT(30), <1>1, <1>6, <3>1, CreditedHolds DEF After, w, Listed
    <3>3. w[i] \in Nat /\ Added(Prefix(w, i - 1), i - 1) \in Nat
      BY <2>1, <2>2, <3>1
    <3> QED BY <2>2, <2>3, <2>5, <3>1, <3>2, <3>3
  <2> HIDE DEF S
  <2>6. 0..n \subseteq S
    BY <1>1, <2>4, <2>5, BoundedInduction
  <2>7. D[n] \in Maps /\ Holding(D[n], key) = Holding(map, key) + Added(w, n)
    BY <1>1, <2>2, <2>6 DEF S
  <2> QED BY <1>1, <2>1, <2>2, <2>7 DEF w
<1>8. "ada" \in Keys
  BY DEF Keys
<1> QED BY <1>2, <1>7, <1>8 DEF n

\* An output adds its value in ada, and its tokens.
LEMMA OutputHolds ==
  ASSUME NEW map \in Maps, NEW o \in OutputType
  PROVE  /\ CreditedAll(Credited(map, "ada", o.value), o.tokens) \in Maps
         /\ \A key \in Keys :
              /\ Quantity(o, key) \in Nat
              /\ Holding(CreditedAll(Credited(map, "ada", o.value), o.tokens), key) =
                   Holding(map, key) + Quantity(o, key)
<1> DEFINE between == Credited(map, "ada", o.value)
           listed(key) == Added(Listed(o.tokens, key), Len(o.tokens))
<1>1. o.value \in Nat /\ o.tokens \in Seq(TokenType) /\ "ada" \in Keys
  BY DEF OutputType, Keys
<1>2. /\ between \in Maps
      /\ \A key \in Keys : Holding(between, key) =
                             Holding(map, key) + (IF key = "ada" THEN o.value ELSE 0)
  BY <1>1, CreditedHolds
<1>3. /\ CreditedAll(between, o.tokens) \in Maps
      /\ \A key \in Keys :
           /\ listed(key) \in Nat
           /\ Holding(CreditedAll(between, o.tokens), key) = Holding(between, key) + listed(key)
  <2> HIDE DEF between
  <2> QED BY <1>1, <1>2, CreditedAllHolds
<1>4. listed("ada") = 0
  <2> DEFINE w == Listed(o.tokens, "ada")
  <2>1. /\ Len(o.tokens) \in Nat /\ DOMAIN o.tokens = 1..Len(o.tokens)
        /\ \A i \in 1..Len(o.tokens) : o.tokens[i] \in TokenType
    BY <1>1, LenProperties, ElementOfSeq
  <2>2. \A i \in 1..Len(o.tokens) : o.tokens[i].asset # "ada"
    BY <2>1, OutputsAssumption DEF TokenType
  <2>3. w \in [1..Len(o.tokens) -> Nat] /\ \A i \in 1..Len(o.tokens) : w[i] = 0
    BY <2>1, <2>2 DEF Listed
  <2> HIDE DEF w
  <2>4. Added(w, Len(o.tokens)) = 0
    BY <2>1, <2>3, NothingAdded
  <2> QED BY <2>4 DEF w
<1>5. \A key \in Keys : key # "ada" => Quantity(o, key) = listed(key)
  BY DEF Quantity, Listed
<1>6. Quantity(o, "ada") = o.value
  BY DEF Quantity
<1> HIDE DEF listed
<1>7. ASSUME NEW key \in Keys
      PROVE  /\ Quantity(o, key) \in Nat
             /\ Holding(CreditedAll(between, o.tokens), key) = Holding(map, key) + Quantity(o, key)
  <2> HIDE DEF between
  <2>1. Holding(map, key) \in Nat /\ listed(key) \in Nat
    BY <1>3, MapHolds
  <2>2. CASE key = "ada"
    BY <1>1, <1>2, <1>3, <1>4, <1>6, <2>1, <2>2
  <2>3. CASE key # "ada"
    BY <1>2, <1>3, <1>5, <2>1, <2>3
  <2> QED BY <2>2, <2>3
<1> QED BY <1>3, <1>7

\* What the outputs of rows own.
Owns(rows, key) == [i \in DOMAIN rows |-> Quantity(rows[i], key)]

\* What the rows own of an asset are natural numbers.
LEMMA OwnsIsNatural ==
  ASSUME NEW rows \in Seq(OutputType), NEW key \in Keys
  PROVE  /\ Len(rows) \in Nat /\ DOMAIN rows = 1..Len(rows)
         /\ \A i \in 1..Len(rows) : rows[i] \in OutputType
         /\ Owns(rows, key) \in [1..Len(rows) -> Nat]
<1>1. /\ Len(rows) \in Nat /\ DOMAIN rows = 1..Len(rows)
      /\ \A i \in 1..Len(rows) : rows[i] \in OutputType
  BY LenProperties, ElementOfSeq
<1>2. \A i \in 1..Len(rows) : Quantity(rows[i], key) \in Nat
  BY <1>1, NewMapHolds, OutputHolds
<1> QED BY <1>1, <1>2 DEF Owns

\* The balances credit every row once.
LEMMA BalancesHold ==
  ASSUME NEW rows \in Seq(OutputType), NEW key \in Keys
  PROVE  Holding(Balances(rows), key) = Added(Owns(rows, key), Len(rows))
<1> DEFINE n == Len(rows)
           After(i, m) == CreditedAll(Credited(m, "ada", rows[i].value), rows[i].tokens)
           Is(f) == f = [i \in 0..n |-> IF i = 0 THEN NewMap ELSE After(i, f[i - 1])]
           D == CHOOSE f : Is(f)
           w == Owns(rows, key)
<1>1. /\ n \in Nat /\ DOMAIN rows = 1..n
      /\ \A i \in 1..n : rows[i] \in OutputType
      /\ w \in [1..n -> Nat]
  BY OwnsIsNatural
<1>2. Balances(rows) = D[n]
  BY DEF Balances
<1>3. \A i \in 1..n : \A m \in Maps :
        After(i, m) \in Maps /\ Holding(After(i, m), key) = Holding(m, key) + w[i]
  <2>1. \A i \in 1..n : w[i] = Quantity(rows[i], key)
    BY <1>1 DEF Owns
  <2> HIDE DEF n, w
  <2> QED BY <1>1, <2>1, OutputHolds
<1>4. \E f : Is(f)
  <2> DEFINE G == [p \in (1..n) \X Maps |-> After(p[1], p[2])]
  <2>1. G \in [(1..n) \X Maps -> Maps]
    <3> HIDE DEF n, After
    <3> QED BY <1>3
  <2>2. PICK f : Recurs(f, n, Maps, NewMap, G)
    <3> HIDE DEF G, D, Is, n
    <3> QED BY <1>1, <2>1, NewMapHolds, Recursion
  <2>3. ASSUME NEW i \in 1..n PROVE f[i] = After(i, f[i - 1])
    <3>1. i - 1 \in 0..n
      BY <1>1
    <3>2. f[i - 1] \in Maps /\ f[i] = G[<<i, f[i - 1]>>]
      BY <2>2, <3>1 DEF Recurs
    <3> HIDE DEF n, After
    <3> QED BY <3>2
  <2>4. f = [i \in 0..n |-> IF i = 0 THEN NewMap ELSE After(i, f[i - 1])]
    <3> HIDE DEF n, After, G
    <3>1. f \in [0..n -> Maps] /\ f[0] = NewMap
      BY <2>2 DEF Recurs
    <3>2. \A i \in 0..n : f[i] = IF i = 0 THEN NewMap ELSE After(i, f[i - 1])
      BY <1>1, <2>3, <3>1
    <3> QED BY <3>1, <3>2
  <2> QED BY <2>4
<1>5. Is(D)
  BY <1>4
<1> HIDE DEF D, After, w
<1>6. D[0] = NewMap /\ \A i \in 1..n : D[i] = After(i, D[i - 1])
  <2> HIDE DEF n
  <2> QED BY <1>1, <1>5
<1> HIDE DEF n
<1> DEFINE S == {i \in 0..n : /\ D[i] \in Maps
                              /\ Holding(D[i], key) = Added(Prefix(w, i), i)}
<1>7. /\ Prefix(w, n) = w /\ Added(Prefix(w, 0), 0) = 0
      /\ \A i \in 1..n : Added(Prefix(w, i), i) = Added(Prefix(w, i - 1), i - 1) + w[i]
  BY <1>1, PrefixSums
<1>8. 0 \in S
  BY <1>1, <1>6, <1>7, NewMapHolds
<1>9. ASSUME NEW i \in 1..n, i - 1 \in S PROVE i \in S
  BY <1>1, <1>3, <1>6, <1>7, <1>9
<1> HIDE DEF S
<1>10. 0..n \subseteq S
  BY <1>1, <1>8, <1>9, BoundedInduction
<1>11. Holding(D[n], key) = Added(w, n)
  BY <1>1, <1>7, <1>10 DEF S
<1> QED BY <1>2, <1>11 DEF n, w

-----------------------------------------------------------------------------
(* Arithmetic                                                                *)

\* A quotient, by its defining property.
LEMMA Quotient ==
  ASSUME NEW a \in Nat, NEW n \in Nat \ {0}
  PROVE  /\ a \div n \in Nat
         /\ n * (a \div n) <= a /\ a < n * (a \div n) + n
  OBVIOUS

\* The share of a part is below 100 per cent: getMeta, below the node's tip.
LEMMA PartInPercent ==
  ASSUME NEW a \in Nat, NEW n \in Nat, a < n
  PROVE  (a * 100) \div n \in 0..100
<1> DEFINE q == (a * 100) \div n
<1>1. q \in Nat /\ n * q <= a * 100
  BY Quotient, a * 100 \in Nat, n # 0
<1>2. a * 100 < n * 100
  OBVIOUS
<1> HIDE DEF q
<1>3. ~(q >= 100)
  <2> SUFFICES ASSUME q >= 100 PROVE FALSE
    OBVIOUS
  <2>1. PICK k \in Nat : q = 100 + k
    BY <1>1, q - 100 \in Nat
  <2>2. n * q = n * 100 + n * k /\ n * k >= 0
    BY <2>1
  <2> QED BY <1>1, <1>2, <2>2
<1>4. q \in 0..100
  BY <1>1, <1>3
<1> QED BY <1>4 DEF q

\* A share that rounds to 100 per cent is at least 99.5 (Server.ts:147).
LEMMA RoundsToAll ==
  ASSUME NEW a \in Nat, NEW m \in Nat, AssetSyncPercentage(a, m) > 99
  PROVE  200 * a >= 199 * m
<1> DEFINE q == (200 * a + m) \div (2 * m)
<1>1. m # 0 /\ q >= 100
  <2>1. m # 0
    BY DEF AssetSyncPercentage
  <2>2. q \in Int
    BY <2>1, Quotient, 200 * a + m \in Nat, 2 * m \in Nat \ {0}
  <2> HIDE DEF q
  <2> QED BY <2>1, <2>2 DEF AssetSyncPercentage, Least, q
<1>2. q \in Nat /\ (2 * m) * q <= 200 * a + m
  BY <1>1, Quotient, 200 * a + m \in Nat, 2 * m \in Nat \ {0}
<1> HIDE DEF q
<1>3. PICK k \in Nat : q = 100 + k
  BY <1>1, <1>2, q - 100 \in Nat
<1>4. (2 * m) * q = 200 * m + (2 * m) * k /\ (2 * m) * k >= 0
  BY <1>3
<1> QED BY <1>2, <1>4

-----------------------------------------------------------------------------
(* The chain                                                                 *)

\* Epochs and mints only grow along the chain.
LEMMA ChainGrows ==
  ASSUME NEW s \in 0..Slots, NEW t \in 0..Slots, s <= t
  PROVE  /\ Epoch(s) \in Nat /\ MintedAt(s) \in Nat
         /\ Epoch(s) <= Epoch(t) /\ MintedAt(s) <= MintedAt(t)
<1>1. \A u \in 0..Slots : Epoch(u) \in Nat /\ MintedAt(u) \in Nat
  BY ChainAssumption DEF Epoch, MintedAt
<1>2. CASE s = 0
  BY <1>1, <1>2 DEF Epoch, MintedAt
<1>3. CASE s # 0
  <2>1. s \in 1..Slots /\ t \in 1..Slots
    BY <1>3, ChainAssumption
  <2> QED BY <1>1, <1>3, <2>1, ChainAssumption DEF Epoch, MintedAt
<1> QED BY <1>2, <1>3

\* The lesser and the greater of two numbers.
LEMMA LeastAndMost ==
  ASSUME NEW a \in Nat, NEW b \in Nat
  PROVE  /\ Least(a, b) \in Nat /\ Least(a, b) <= a /\ Least(a, b) <= b
         /\ Most(a, b) \in Nat /\ a <= Most(a, b) /\ b <= Most(a, b)
  BY DEF Least, Most

\* A sequence of one member at most is empty or has a first one.
LEMMA NoneOrOne ==
  ASSUME NEW S
  PROVE  /\ <<>> \in OneOrNone(S)
         /\ \A x \in S : <<x>> \in OneOrNone(S)
         /\ \A s \in OneOrNone(S) : s # <<>> => s[1] \in S
<1>1. <<>> \in OneOrNone(S)
  BY DEF OneOrNone
<1>2. \A x \in S : <<x>> \in OneOrNone(S)
  BY DEF OneOrNone
<1>3. ASSUME NEW s \in OneOrNone(S), s # <<>> PROVE s[1] \in S
  BY <1>3, EmptySeq, ElementOfSeq DEF OneOrNone
<1> QED BY <1>1, <1>2, <1>3

\* What a poll of the ada pots reads.
LEMMA PotsAreRead ==
  ASSUME TypeOK, PotsAvailable
  PROVE  PotsRead \in OneOrNone(PotsType)
<1>1. tip \in 1..Slots /\ epochRow \in DOMAIN Reserves
  BY ChainAssumption DEF TypeOK, PotsAvailable
<1>2. Circulating(tip) \in Int
  BY <1>1, SupplyAssumption DEF Circulating, NaN
<1>3. Reserves[epochRow] \in Nat
  BY <1>1, SupplyAssumption
<1>4. [circulating |-> Circulating(tip), reserves |-> Reserves[epochRow]] \in PotsType
  BY <1>2, <1>3 DEF PotsType
<1> QED BY <1>4, NoneOrOne DEF PotsRead

-----------------------------------------------------------------------------
(* The variables have their types                                            *)

\* A tick keeps its shape.
LEMMA IdleIsATick == Idle \in TickType
<1>1. <<>> \in OneOrNone(Nat)
  BY NoneOrOne
<1> QED BY <1>1, ChainAssumption DEF Idle, TickType

\* The variables have their types initially,
LEMMA TypesInit == DataInit => TypeOK
<1> SUFFICES ASSUME DataInit PROVE TypeOK
  OBVIOUS
<1>1. 0 \in 0..Slots /\ 0 \in 0..Epoch(Slots)
  BY ChainAssumption, ChainGrows
<1>2. <<>> \in OneOrNone(PotsType)
  BY NoneOrOne
<1>3. node \in 0..Slots /\ tip \in 0..node /\ epochRow \in 0..Epoch(Slots) /\ indexed \in Nat
  BY <1>1 DEF DataInit
<1>4. connected \in BOOLEAN /\ hasura \in BOOLEAN /\ timer \in {"running", "cleared"}
  BY DEF DataInit
<1> QED BY <1>2, <1>3, <1>4, IdleIsATick DEF DataInit, TypeOK

\* after a step of what the server depends on,
LEMMA TypesOfEnvironment ==
  ASSUME TypeOK, Environment
  PROVE  TypeOK'
<1>1. /\ Slots \in Nat /\ Epoch(Slots) \in Nat /\ node \in 0..Slots /\ tip \in 0..node
      /\ epochRow \in Nat /\ epochRow <= Epoch(Slots)
  BY ChainAssumption, ChainGrows DEF TypeOK
<1>2. tip \in 0..Slots /\ MintedAt(tip) \in Nat /\ Epoch(tip) \in Nat /\ Epoch(tip) <= Epoch(Slots)
  BY <1>1, ChainGrows
<1>3. CASE NodeForward
  BY <1>1, <1>3 DEF TypeOK, NodeForward
<1>4. CASE DbSyncForward
  BY <1>1, <1>4 DEF TypeOK, DbSyncForward
<1>5. CASE WriteEpoch
  BY <1>1, <1>2, <1>5 DEF TypeOK, WriteEpoch
<1>6. CASE DbSyncBackward
  <2>1. tip' \in 0..node /\ tip' \in 0..Slots
    BY <1>1, <1>6 DEF DbSyncBackward
  <2>2. Epoch(tip') \in Nat /\ MintedAt(tip') \in Nat
    BY <2>1, ChainGrows
  <2>3. epochRow' \in 0..Epoch(Slots)
    BY <1>1, <1>6, <2>2, LeastAndMost DEF DbSyncBackward
  <2>4. tick' \in TickType
    BY <1>6, <2>2, LeastAndMost DEF TypeOK, TickType, DbSyncBackward
  <2> QED BY <1>6, <2>1, <2>3, <2>4 DEF TypeOK, DbSyncBackward
<1>7. CASE IndexAssets
  <2>1. indexed' \in Nat
    BY <1>7, ChainAssumption DEF IndexAssets
  <2>2. tick' \in TickType
    BY <1>7, <2>1, LeastAndMost DEF TypeOK, TickType, IndexAssets
  <2> QED BY <1>7, <2>1, <2>2 DEF TypeOK, IndexAssets
<1>8. CASE DeleteAssets
  BY <1>2, <1>8 DEF TypeOK, DeleteAssets
<1>9. CASE Connection \/ HasuraTurns
  BY <1>9 DEF TypeOK, Connection, HasuraTurns
<1> QED BY <1>3, <1>4, <1>5, <1>6, <1>7, <1>8, <1>9 DEF Environment

\* getMeta's percentage is one.
LEMMA MetaInPercent ==
  ASSUME TypeOK, NEW slot \in 0..Slots
  PROVE  /\ SyncPercentage(slot) \in 0..100
         /\ Meta(slot).initialized \in BOOLEAN /\ Meta(slot).syncPercentage \in 0..100
<1>1. slot \in Nat /\ tip \in Nat
  BY ChainAssumption DEF TypeOK
<1>2. SyncPercentage(slot) \in 0..100
  BY <1>1, PartInPercent DEF SyncPercentage
<1> QED BY <1>2 DEF Meta

\* after one of the timer,
LEMMA TypesOfTick ==
  ASSUME TypeOK, TickBegins \/ TickGoesOn
  PROVE  TypeOK'
<1>1. tip \in 0..Slots /\ MintedAt(tip) \in Nat /\ node \in 0..Slots
  BY ChainAssumption, ChainGrows DEF TypeOK
<1>2. SUFFICES tick' \in TickType /\ timer' \in {"running", "cleared"}
  BY DEF TypeOK, TickGoesOn, TickBegins, AskTip, AskMeta, AskAssets, AskMints, TickEnds
<1>3. CASE TickBegins
  BY <1>1, <1>3, IdleIsATick DEF TypeOK, TickBegins, TickType, Idle
<1>4. CASE AskTip
  BY <1>1, <1>4 DEF TypeOK, TickType, AskTip
<1>5. CASE AskMeta
  <2> DEFINE meta == Meta(tick.slot)
  <2>1. tick \in TickType /\ tick.slot \in 0..Slots /\ timer \in {"running", "cleared"}
    BY DEF TypeOK, TickType
  <2> DEFINE failed == [tick EXCEPT !.at = "failed", !.slot = 0]
             answered(b, n) == [tick EXCEPT !.at = "answered", !.slot = 0,
                                            !.initialized = b, !.syncPercentage = n]
  <2>2. meta.initialized \in BOOLEAN /\ meta.syncPercentage \in 0..100
    BY Zenon, <2>1, MetaInPercent
  <2>3. 0 \in 0..Slots
    BY ChainAssumption
  <2>4. /\ timer' = timer
        /\ tick' = failed \/ tick' = answered(meta.initialized, meta.syncPercentage)
    BY <1>5 DEF AskMeta
  <2>5. failed \in TickType /\ \A b \in BOOLEAN, n \in 0..100 : answered(b, n) \in TickType
    BY <2>1, <2>3 DEF TickType
  <2> HIDE DEF meta, failed, answered
  <2> QED BY <2>1, <2>2, <2>4, <2>5
<1>6. CASE AskAssets
  <2>1. Delegated(indexed) \in OneOrNone(Nat) \cup {Unanswered}
    BY NoneOrOne DEF TypeOK, Delegated
  <2> QED BY <1>6, <2>1 DEF TypeOK, TickType, AskAssets
<1>7. CASE AskMints
  <2>1. Delegated(MintedAt(tip)) \in OneOrNone(Nat) \cup {Unanswered}
    BY <1>1, NoneOrOne DEF Delegated
  <2> QED BY <1>7, <2>1 DEF TypeOK, TickType, AskMints
<1>8. CASE TickEnds
  BY <1>8, IdleIsATick DEF TypeOK, TickEnds
<1> QED BY <1>3, <1>4, <1>5, <1>6, <1>7, <1>8 DEF TickGoesOn

\* and after every step.
LEMMA TypesStep ==
  ASSUME TypeOK, [DataNext]_dataVars
  PROVE  TypeOK'
<1>1. CASE FetchPots
  BY <1>1, PotsAreRead DEF TypeOK, FetchPots
<1>2. CASE UNCHANGED dataVars
  BY <1>2 DEF TypeOK, dataVars
<1> QED BY <1>1, <1>2, TypesOfEnvironment, TypesOfTick DEF DataNext

\* TypeOK: the variables have their types; in particular what the timer is told of
\* the progress is a percentage, however far the database is ahead of the node's tip
\* that was read before it.
THEOREM AnswersTypes == DataSpec => []TypeOK
  BY TypesInit, TypesStep, PTL DEF DataSpec

-----------------------------------------------------------------------------
(* The timer is not cleared too early                                        *)

\* The database moves on, and the history of the tick with it.
LEMMA WitnessedByEnvironment ==
  ASSUME TypeOK, Witnessed, Environment
  PROVE  Witnessed'
<1>1. /\ tip \in 0..Slots /\ indexed \in Nat /\ MintedAt(tip) \in Nat
      /\ tick.mostIndexed \in Nat /\ tick.fewestMinted \in Nat
      /\ tick.assets \in OneOrNone(Nat) \cup {Unanswered}
      /\ tick.mints \in OneOrNone(Nat) \cup {Unanswered}
  <2>1. tip \in 0..Slots /\ indexed \in Nat /\ tick \in TickType
    BY ChainAssumption DEF TypeOK
  <2>2. MintedAt(tip) \in Nat
    BY <2>1, ChainGrows, tip <= tip
  <2> QED BY <2>1, <2>2 DEF TickType
<1>2. /\ tick.assets # <<>> => tick.assets[1] \in Int
      /\ tick.mints # <<>> => tick.mints[1] \in Int
  BY <1>1, NoneOrOne DEF Unanswered
<1>3. CASE DbSyncForward
  <2>1. tip' \in 0..Slots /\ tip <= tip'
    BY <1>1, <1>3, ChainAssumption DEF TypeOK, DbSyncForward
  <2>2. MintedAt(tip') \in Nat /\ MintedAt(tip) <= MintedAt(tip')
    BY <1>1, <2>1, ChainGrows
  <2> QED BY <1>1, <1>3, <2>2 DEF Witnessed, DbSyncForward
<1>4. CASE DbSyncBackward
  <2>1. MintedAt(tip') \in Nat
    BY <1>1, <1>4, ChainGrows, ChainAssumption DEF DbSyncBackward
  <2>2. /\ tick'.fewestMinted = Least(tick.fewestMinted, MintedAt(tip'))
        /\ tick'.at = tick.at /\ tick'.mostIndexed = tick.mostIndexed
        /\ tick'.assets = tick.assets /\ tick'.mints = tick.mints
        /\ indexed' = indexed
    BY <1>4 DEF DbSyncBackward, TypeOK, TickType
  <2>3. /\ tick'.fewestMinted \in Nat
        /\ tick'.fewestMinted <= tick.fewestMinted /\ tick'.fewestMinted <= MintedAt(tip')
    BY <1>1, <2>1, <2>2, LeastAndMost
  <2> QED BY <1>1, <1>2, <2>1, <2>2, <2>3 DEF Witnessed
<1>5. CASE IndexAssets
  <2>1. indexed' \in Nat
    BY <1>5, ChainAssumption DEF IndexAssets
  <2>2. /\ tick'.mostIndexed = Most(tick.mostIndexed, indexed')
        /\ tick'.at = tick.at /\ tick'.fewestMinted = tick.fewestMinted
        /\ tick'.assets = tick.assets /\ tick'.mints = tick.mints
        /\ tip' = tip
    BY <1>5 DEF IndexAssets, TypeOK, TickType
  <2>3. /\ tick'.mostIndexed \in Nat
        /\ tick.mostIndexed <= tick'.mostIndexed /\ indexed' <= tick'.mostIndexed
    BY <1>1, <2>1, <2>2, LeastAndMost
  <2> QED BY <1>1, <1>2, <2>1, <2>2, <2>3 DEF Witnessed, MintedAt
<1>6. CASE DeleteAssets
  BY <1>1, <1>6 DEF Witnessed, DeleteAssets, MintedAt
<1>7. CASE NodeForward \/ WriteEpoch \/ Connection \/ HasuraTurns
  BY <1>7 DEF Witnessed, NodeForward, WriteEpoch, Connection, HasuraTurns, MintedAt
<1> QED BY <1>3, <1>4, <1>5, <1>6, <1>7 DEF Environment

\* What a tick reads is within its history at that moment.
LEMMA WitnessedByTick ==
  ASSUME TypeOK, Witnessed, TickBegins \/ TickGoesOn
  PROVE  Witnessed'
<1>1. MintedAt(tip) \in Nat /\ indexed \in Nat
  <2>1. tip \in 0..Slots /\ indexed \in Nat
    BY ChainAssumption DEF TypeOK
  <2> QED BY <2>1, ChainGrows, tip <= tip
<1>2. CASE TickBegins
  <2>1. tick'.mostIndexed = indexed /\ tick'.fewestMinted = MintedAt(tip)
    BY <1>2 DEF TickBegins, Idle
  <2>2. tick'.assets = <<>> /\ tick'.mints = <<>> /\ indexed' = indexed /\ tip' = tip
    BY <1>2 DEF TickBegins, Idle
  <2> QED BY <1>1, <2>1, <2>2 DEF Witnessed, MintedAt
<1>3. CASE AskTip
  BY <1>3 DEF TypeOK, TickType, Witnessed, AskTip, MintedAt
<1>4. CASE AskMeta
  BY <1>4 DEF TypeOK, TickType, Witnessed, AskMeta, MintedAt
<1>5. CASE AskAssets
  <2>1. /\ tick'.assets \in {<<indexed>>, Unanswered}
        /\ tick'.at = tick.at /\ tick'.mints = tick.mints
        /\ tick'.mostIndexed = tick.mostIndexed /\ tick'.fewestMinted = tick.fewestMinted
    BY <1>5 DEF TypeOK, TickType, AskAssets, Delegated
  <2>2. tick'.assets[1] <= indexed
    BY <1>1, <2>1 DEF Unanswered
  <2>3. tick.mostIndexed \in Nat /\ tick'.assets[1] \in Int
    BY <1>1, <2>1 DEF TypeOK, TickType, Unanswered
  <2> QED BY <1>1, <1>5, <2>1, <2>2, <2>3 DEF Witnessed, AskAssets, MintedAt
<1>6. CASE AskMints
  <2>1. /\ tick'.mints \in {<<MintedAt(tip)>>, Unanswered}
        /\ tick'.at = tick.at /\ tick'.assets = tick.assets
        /\ tick'.mostIndexed = tick.mostIndexed /\ tick'.fewestMinted = tick.fewestMinted
    BY <1>6 DEF TypeOK, TickType, AskMints, Delegated
  <2> QED BY <1>6, <2>1 DEF Witnessed, AskMints, MintedAt
<1>7. CASE TickEnds
  BY <1>7 DEF Witnessed, TickEnds, Idle
<1> QED BY <1>2, <1>3, <1>4, <1>5, <1>6, <1>7 DEF TickGoesOn

\* Each step keeps what the tick has read within its history.
LEMMA WitnessedStep ==
  ASSUME TypeOK, Witnessed, [DataNext]_dataVars
  PROVE  Witnessed'
<1>1. CASE FetchPots \/ UNCHANGED dataVars
  BY <1>1 DEF Witnessed, FetchPots, dataVars, MintedAt
<1> QED BY <1>1, WitnessedByEnvironment, WitnessedByTick DEF DataNext

\* DataInv is inductive.
THEOREM AnswersInvariant == DataSpec => []DataInv
<1>1. DataInit => DataInv
  <2>1. DataInit => Witnessed
    BY DEF DataInit, Idle, Witnessed
  <2> QED BY <2>1, TypesInit DEF DataInv
<1>2. DataInv /\ [DataNext]_dataVars => DataInv'
  BY TypesStep, WitnessedStep DEF DataInv
<1> QED BY <1>1, <1>2, PTL DEF DataSpec

\* The counts of a tick that clears the timer.
LEMMA CountsOfReady ==
  ASSUME DataInv, TickEnds, DbReady
  PROVE  200 * tick.mostIndexed >= 199 * tick.fewestMinted
<1> DEFINE assets == tick.assets[1]
           mints == tick.mints[1]
<1>1. /\ assets \in Nat /\ mints \in Nat
      /\ tick.mostIndexed \in Nat /\ tick.fewestMinted \in Nat
  <2>1. /\ tick.assets \in OneOrNone(Nat) \cup {Unanswered}
        /\ tick.mints \in OneOrNone(Nat) \cup {Unanswered}
        /\ tick.mostIndexed \in Nat /\ tick.fewestMinted \in Nat
    BY DEF DataInv, TypeOK, TickType
  <2>2. tick.assets \notin {<<>>, Unanswered} /\ tick.mints \notin {<<>>, Unanswered}
    BY DEF TickEnds, DbReady
  <2> QED BY <2>1, <2>2, NoneOrOne
<1>2. assets <= tick.mostIndexed /\ tick.fewestMinted <= mints
  BY DEF DataInv, Witnessed, TickEnds, DbReady
<1>3. 200 * assets >= 199 * mints
  BY <1>1, RoundsToAll DEF DbReady
<1> QED BY <1>1, <1>2, <1>3

\* ReadyHonest: whatever is indexed, deleted, synchronised and rolled back between the
\* requests of a tick, the timer is cleared only if at some moment of the tick the
\* index had 99.5 % of the assets minted at some moment of it.
THEOREM TimerIsHonest == DataSpec => ReadyHonest
<1>1. ASSUME DataInv, [DataNext]_dataVars, timer' # timer
      PROVE  200 * tick.mostIndexed >= 199 * tick.fewestMinted
  <2>1. TickEnds /\ DbReady
    BY <1>1 DEF DataNext, dataVars, Environment, NodeForward, DbSyncForward, WriteEpoch,
                DbSyncBackward, IndexAssets, DeleteAssets, Connection, HasuraTurns, FetchPots,
                TickBegins,
                TickGoesOn, AskTip, AskMeta, AskAssets, AskMints, TickEnds
  <2> QED BY <1>1, <2>1, CountsOfReady
<1>2. DataInv /\ [DataNext]_dataVars
        => [timer' # timer => 200 * tick.mostIndexed >= 199 * tick.fewestMinted]_dataVars
  BY <1>1
<1> QED BY <1>2, AnswersInvariant, PTL DEF DataSpec, ReadyHonest

\* AdaStaysReady: once ada was answered its value is kept or replaced by another.
THEOREM AdaNeverUnready == DataSpec => AdaStaysReady
<1>1. [DataNext]_dataVars => [pots # <<>> => pots' # <<>>]_dataVars
  BY DEF DataNext, dataVars, Environment, NodeForward, DbSyncForward, WriteEpoch, DbSyncBackward,
         IndexAssets, DeleteAssets, Connection, HasuraTurns, FetchPots, PotsRead, TickBegins,
         TickGoesOn,
         AskTip, AskMeta, AskAssets, AskMints, TickEnds
<1> QED BY <1>1, PTL DEF DataSpec, AdaStaysReady

-----------------------------------------------------------------------------
(* The summary of an address                                                 *)

\* One row more.
LEMMA OwnsOneMore ==
  ASSUME NEW rows \in Seq(OutputType), NEW o \in OutputType, NEW key \in Keys
  PROVE  /\ Append(rows, o) \in Seq(OutputType) /\ Len(Append(rows, o)) = Len(rows) + 1
         /\ Added(Owns(Append(rows, o), key), Len(rows) + 1) =
              Added(Owns(rows, key), Len(rows)) + Quantity(o, key)
<1> DEFINE n == Len(rows)
           w == Owns(Append(rows, o), key)
<1>1. /\ Append(rows, o) \in Seq(OutputType) /\ Len(Append(rows, o)) = n + 1
      /\ \A i \in 1..n : Append(rows, o)[i] = rows[i]
      /\ Append(rows, o)[n + 1] = o
  BY AppendProperties
<1>2. n \in Nat /\ DOMAIN rows = 1..n /\ DOMAIN Append(rows, o) = 1..(n + 1)
  BY <1>1, OwnsIsNatural
<1>3. w \in [1..(n + 1) -> Nat]
  BY <1>1, OwnsIsNatural
<1>4. w[n + 1] = Quantity(o, key)
  BY <1>1, <1>2 DEF Owns
<1>5. Prefix(w, n) = Owns(rows, key)
  BY <1>1, <1>2 DEF Owns, Prefix
<1> HIDE DEF w, n
<1>6. Added(Prefix(w, n + 1), n + 1) = Added(Prefix(w, n), n) + w[n + 1]
  <2>1. n + 1 \in Nat /\ n + 1 \in 1..(n + 1) /\ (n + 1) - 1 = n
    BY <1>2
  <2> QED BY <1>3, <2>1, PrefixSums
<1>7. Prefix(w, n + 1) = w
  BY <1>2, <1>3, PrefixSums
<1> QED BY <1>1, <1>4, <1>5, <1>6, <1>7 DEF n, w

\* What an output adds if it is wanted.
OwnsIfWanted(atBlock, key) ==
  [i \in DOMAIN Outputs |-> IF Wanted(Outputs[i], atBlock) THEN Quantity(Outputs[i], key) ELSE 0]

WantedUpto(i, atBlock) == {j \in 1..i : Wanted(Outputs[j], atBlock)}

\* The rows of the query are the outputs it wants, each once.
LEMMA MatchingHolds ==
  ASSUME NEW atBlock, NEW key \in Keys
  PROVE  LET rows == Matching(atBlock)  n == Len(Outputs)
         IN  /\ rows \in Seq(OutputType)
             /\ IsFiniteSet(WantedUpto(n, atBlock))
             /\ Len(rows) = Cardinality(WantedUpto(n, atBlock))
             /\ Added(Owns(rows, key), Len(rows)) = Added(OwnsIfWanted(atBlock, key), n)
<1> DEFINE n == Len(Outputs)
           V == Seq(OutputType)
           After(i, r) == IF Wanted(Outputs[i], atBlock) THEN Append(r, Outputs[i]) ELSE r
           Is(f) == f = [i \in 0..n |-> IF i = 0 THEN <<>> ELSE After(i, f[i - 1])]
           D == CHOOSE f : Is(f)
           w == OwnsIfWanted(atBlock, key)
<1>1. n \in Nat /\ DOMAIN Outputs = 1..n /\ \A i \in 1..n : Outputs[i] \in OutputType
  BY OutputsAssumption, OwnsIsNatural
<1>2. Matching(atBlock) = D[n]
  BY DEF Matching
<1>3. <<>> \in V /\ \A i \in 1..n : \A r \in V : After(i, r) \in V
  BY <1>1, EmptySeq, OwnsOneMore
<1>4. \E f : Is(f)
  <2> DEFINE G == [p \in (1..n) \X V |-> After(p[1], p[2])]
  <2>1. G \in [(1..n) \X V -> V]
    <3> HIDE DEF n, After, V
    <3> QED BY <1>3
  <2>2. PICK f : Recurs(f, n, V, <<>>, G)
    <3> HIDE DEF G, D, Is, n, V
    <3> QED BY <1>1, <1>3, <2>1, Recursion
  <2>3. ASSUME NEW i \in 1..n PROVE f[i] = After(i, f[i - 1])
    <3>1. i - 1 \in 0..n
      BY <1>1
    <3>2. f[i - 1] \in V /\ f[i] = G[<<i, f[i - 1]>>]
      BY <2>2, <3>1 DEF Recurs
    <3> HIDE DEF n, After, V
    <3> QED BY <3>2
  <2>4. f = [i \in 0..n |-> IF i = 0 THEN <<>> ELSE After(i, f[i - 1])]
    <3> HIDE DEF n, After, G, V
    <3>1. f \in [0..n -> V] /\ f[0] = <<>>
      BY <2>2 DEF Recurs
    <3>2. \A i \in 0..n : f[i] = IF i = 0 THEN <<>> ELSE After(i, f[i - 1])
      BY <1>1, <2>3, <3>1
    <3> QED BY <3>1, <3>2
  <2> QED BY <2>4
<1>5. Is(D)
  BY <1>4
<1> HIDE DEF D, w
<1>6. D[0] = <<>> /\ \A i \in 1..n : D[i] = After(i, D[i - 1])
  <2> HIDE DEF n, After
  <2> QED BY <1>1, <1>5
<1> HIDE DEF n
<1>7. /\ w \in [1..n -> Nat]
      /\ \A i \in 1..n : /\ Quantity(Outputs[i], key) \in Nat
                         /\ w[i] = IF Wanted(Outputs[i], atBlock)
                                   THEN Quantity(Outputs[i], key) ELSE 0
  <2>1. \A i \in 1..n : Quantity(Outputs[i], key) \in Nat
    BY <1>1, NewMapHolds, OutputHolds
  <2> QED BY <1>1, <2>1 DEF w, OwnsIfWanted
<1>8. /\ Prefix(w, n) = w /\ Added(Prefix(w, 0), 0) = 0
      /\ \A i \in 0..n : Added(Prefix(w, i), i) \in Nat
      /\ \A i \in 1..n : Added(Prefix(w, i), i) = Added(Prefix(w, i - 1), i - 1) + w[i]
  BY <1>1, <1>7, PrefixSums
<1> DEFINE Good(i) == /\ D[i] \in V
                      /\ IsFiniteSet(WantedUpto(i, atBlock))
                      /\ Len(D[i]) = Cardinality(WantedUpto(i, atBlock))
                      /\ Added(Owns(D[i], key), Len(D[i])) = Added(Prefix(w, i), i)
           S == {i \in 0..n : Good(i)}
<1>9. Good(0)
  <2>1. WantedUpto(0, atBlock) = {} /\ IsFiniteSet({}) /\ Cardinality({}) = 0
    BY FS_EmptySet DEF WantedUpto
  <2>2. D[0] \in V /\ Len(D[0]) = 0
    BY <1>3, <1>6, EmptySeq
  <2>3. Added(Owns(D[0], key), 0) = 0
    <3>1. Owns(D[0], key) \in [1..0 -> Nat]
      BY <2>2, OwnsIsNatural
    <3> DEFINE u == Owns(D[0], key)
    <3> HIDE DEF u
    <3>2. u \in [1..0 -> Nat] /\ \A i \in 1..0 : u[i] = 0
      BY <3>1 DEF u
    <3>3. Added(u, 0) = 0
      BY <3>2, 0 \in Nat, NothingAdded
    <3> QED BY <3>3 DEF u
  <2> QED BY <1>8, <2>1, <2>2, <2>3
<1>10. ASSUME NEW i \in 1..n, Good(i - 1) PROVE Good(i)
  <2>1. i \in 0..n /\ i - 1 \in 0..n /\ Outputs[i] \in OutputType
    BY <1>1
  <2>2. CASE Wanted(Outputs[i], atBlock)
    <3>1. D[i] = Append(D[i - 1], Outputs[i])
      BY <1>6, <2>2
    <3>2. WantedUpto(i, atBlock) = WantedUpto(i - 1, atBlock) \cup {i}
      BY <2>2, <2>1 DEF WantedUpto
    <3>3. i \notin WantedUpto(i - 1, atBlock)
      BY DEF WantedUpto
    <3>4. /\ IsFiniteSet(WantedUpto(i, atBlock))
          /\ Cardinality(WantedUpto(i, atBlock)) = Cardinality(WantedUpto(i - 1, atBlock)) + 1
      <4> DEFINE U == WantedUpto(i - 1, atBlock)
      <4>1. IsFiniteSet(U) /\ i \notin U /\ WantedUpto(i, atBlock) = U \cup {i}
        BY <1>10, <3>2, <3>3
      <4> HIDE DEF U, Good
      <4>2. IsFiniteSet(U \cup {i}) /\ Cardinality(U \cup {i}) = Cardinality(U) + 1
        BY <4>1, FS_AddElement
      <4> QED BY <4>1, <4>2 DEF U
    <3>5. /\ D[i] \in V /\ Len(D[i]) = Len(D[i - 1]) + 1
          /\ Added(Owns(D[i], key), Len(D[i])) =
               Added(Owns(D[i - 1], key), Len(D[i - 1])) + Quantity(Outputs[i], key)
      BY <1>10, <2>1, <3>1, OwnsOneMore
    <3>6. Added(Prefix(w, i), i) = Added(Prefix(w, i - 1), i - 1) + Quantity(Outputs[i], key)
      BY <1>7, <1>8, <2>2
    <3> QED BY <1>10, <3>4, <3>5, <3>6
  <2>3. CASE ~Wanted(Outputs[i], atBlock)
    <3>1. D[i] = D[i - 1]
      BY <1>6, <2>3
    <3>2. WantedUpto(i, atBlock) = WantedUpto(i - 1, atBlock)
      BY <2>1, <2>3 DEF WantedUpto
    <3>3. Added(Prefix(w, i), i) = Added(Prefix(w, i - 1), i - 1)
      <4>1. w[i] = 0 /\ Added(Prefix(w, i - 1), i - 1) \in Nat
        BY <1>7, <1>8, <2>1, <2>3
      <4> QED BY <1>8, <4>1
    <3> QED BY <1>10, <3>1, <3>2, <3>3
  <2> QED BY <2>2, <2>3
<1>11. 0..n \subseteq S
  <2> HIDE DEF Good
  <2>1. 0 \in S
    BY <1>1, <1>9
  <2>2. \A i \in 1..n : i - 1 \in S => i \in S
    BY <1>1, <1>10
  <2> HIDE DEF S
  <2> QED BY <1>1, <2>1, <2>2, BoundedInduction
<1>12. Good(n)
  <2> HIDE DEF Good
  <2> QED BY <1>1, <1>11
<1> QED BY <1>2, <1>8, <1>12 DEF n, w

\* SummaryAdds: the summary of an address credits every unspent output up to the
\* block exactly once, in ada and in each of its tokens, for any outputs, any block and
\* any limit of rows that the unspent outputs do not exceed.
THEOREM SummaryIsExact == DataSpec => []SummaryAdds
<1>1. TypeOK => SummaryAdds
  <2> SUFFICES ASSUME TypeOK, NEW atBlock \in 0..tip
               PROVE  LET summary == PaymentAddressSummary(atBlock)
                          unspent == Unspent(IF atBlock = 0 THEN tip ELSE atBlock)
                      IN  /\ summary.utxosCount = Cardinality(unspent)
                          /\ Cardinality(unspent) <= RowLimit =>
                               \A asset \in Keys :
                                 Holding(summary.assetBalances, asset) = Owned(unspent, asset)
    BY DEF SummaryAdds, Keys
  <2> DEFINE rows == Matching(atBlock)
             n == Len(Outputs)
             unspent == Unspent(IF atBlock = 0 THEN tip ELSE atBlock)
  <2>1. n \in Nat /\ DOMAIN Outputs = 1..n /\ \A i \in 1..n : Outputs[i] \in OutputType
    <3>1. "ada" \in Keys
      BY DEF Keys
    <3> QED BY <3>1, OutputsAssumption, OwnsIsNatural
  <2>2. tip \in Nat /\ atBlock \in Nat /\ atBlock <= tip
    BY ChainAssumption DEF TypeOK
  <2>3. \A i \in 1..n : i \in unspent <=> Wanted(Outputs[i], atBlock)
    BY <2>1, <2>2 DEF Unspent, Wanted, OutputType
  <2>4. unspent = WantedUpto(n, atBlock)
    BY <2>1, <2>3 DEF Unspent, WantedUpto
  <2>5. \A key \in Keys : /\ rows \in Seq(OutputType)
                          /\ Len(rows) = Cardinality(unspent)
                          /\ Added(Owns(rows, key), Len(rows)) =
                               Added(OwnsIfWanted(atBlock, key), n)
    BY <2>4, MatchingHolds
  <2>6. rows \in Seq(OutputType) /\ Len(rows) = Cardinality(unspent)
    BY <2>5 DEF Keys
  <2>7. PaymentAddressSummary(atBlock).utxosCount = Cardinality(unspent)
    BY <2>6 DEF PaymentAddressSummary
  <2>8. ASSUME Cardinality(unspent) <= RowLimit, NEW key \in Keys
        PROVE  Holding(PaymentAddressSummary(atBlock).assetBalances, key) = Owned(unspent, key)
    <3>1. Answered(rows) = rows
      <4>1. Len(rows) \in Nat /\ Len(rows) <= RowLimit /\ RowLimit \in Nat
        BY <2>6, <2>8, LenProperties, OutputsAssumption
      <4>2. Answered(rows) = SubSeq(rows, 1, Len(rows))
        BY <4>1 DEF Answered
      <4> QED BY <2>6, <4>2, SubSeqFull
    <3>2. PaymentAddressSummary(atBlock).assetBalances = Balances(rows)
      BY <3>1 DEF PaymentAddressSummary
    <3>3. Holding(Balances(rows), key) = Added(OwnsIfWanted(atBlock, key), n)
      BY <2>5, <2>6, BalancesHold
    <3>4. OwnsIfWanted(atBlock, key) =
            [i \in DOMAIN Outputs |-> IF i \in unspent THEN Quantity(Outputs[i], key) ELSE 0]
      BY <2>1, <2>3 DEF OwnsIfWanted
    <3> QED BY <3>2, <3>3, <3>4 DEF Owned
  <2> QED BY <2>7, <2>8
<1> QED BY <1>1, AnswersTypes, PTL
=============================================================================
