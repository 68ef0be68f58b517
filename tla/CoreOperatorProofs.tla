-------------------------- MODULE CoreOperatorProofs --------------------------
(***************************************************************************)
(* Lemmas about the operators that the sequential parts of the core are    *)
(* modelled with: what a function defined by recursion over a prefix of a  *)
(* sequence is, how many elements a tensor has, what the deltas of a kind  *)
(* say, which tokens are where and in which order, what the characters of  *)
(* base64 hold, and the powers of two that normalizing a half meets.       *)
(***************************************************************************)
EXTENDS CoreAlgorithms, WellFoundedInduction, SequenceTheorems, TLAPS

-----------------------------------------------------------------------------
(* Recursion over the natural numbers.  A minimal counterexample to a      *)
(* statement with a set in place of a predicate takes the place of         *)
(* induction.                                                              *)

\* The order of the natural numbers as a relation.
Less == {p \in Nat \X Nat : p[1] < p[2]}

\* It is well-founded.
LEMMA LessWellFounded == IsWellFoundedOn(Less, Nat)
<1>1. Less = OpToRel(<, Nat)
  BY DEF Less, OpToRel
<1>2. QED
  BY <1>1, NatLessThanWellFounded, Zenon

\* A set of natural numbers that is not empty has a least one.
LEMMA LeastNatural ==
  ASSUME NEW T \in SUBSET Nat, T # {}
  PROVE  \E n \in T : \A k \in T : n <= k
<1>1. T \subseteq Nat
  OBVIOUS
<1>2. PICK n \in T : \A k \in T : <<k, n>> \notin Less
  BY <1>1, LessWellFounded, WFMin
<1>3. ASSUME NEW k \in T PROVE n <= k
  <2>1. n \in Nat /\ k \in Nat
    BY <1>1
  <2>2. k < n => <<k, n>> \in Less
    BY <2>1 DEF Less
  <2>3. QED
    BY <1>2, <2>1, <2>2
<1>4. QED
  BY <1>3

\* A set that has 0, and with each number below n the next one, has all up to n: there is
\* no least one that it has not.
LEMMA Upwards ==
  ASSUME NEW n \in Nat, NEW T, 0 \in T, \A i \in 0..(n - 1) : i \in T => i + 1 \in T
  PROVE  \A i \in 0..n : i \in T
<1> DEFINE Missing == {i \in 0..n : i \notin T}
<1>1. SUFFICES ASSUME Missing # {} PROVE FALSE
  OBVIOUS
<1>2. Missing \in SUBSET Nat
  OBVIOUS
<1>3. PICK m \in Missing : \A k \in Missing : m <= k
  BY <1>1, <1>2, LeastNatural
<1>4. m \in 0..n /\ m \notin T
  OBVIOUS
<1>5. m # 0
  BY <1>4
<1>6. m - 1 \in 0..(n - 1) /\ m - 1 \in 0..n
  BY <1>4, <1>5
<1>7. m - 1 \in T
  <2>1. ~(m <= m - 1)
    BY <1>4
  <2>2. m - 1 \notin Missing
    BY <1>3, <2>1
  <2>3. QED
    BY <1>6, <2>2
<1>8. (m - 1) + 1 \in T
  BY <1>6, <1>7
<1>9. QED
  BY <1>4, <1>8

-----------------------------------------------------------------------------
(* Recursion over 0..n.                                                    *)

\* What a recursive function of 0..n with values in S is: its value at 0, and the iteration from
\* each value to the next one.
Unrolls(f, S, base, iteration, n) ==
  /\ f[0] = base
  /\ \A i \in 1..n : f[i - 1] \in S => f[i] = iteration[i][f[i - 1]]

\* There is a function for every base and every iteration.
LEMMA Unrolled ==
  ASSUME NEW S, NEW base \in S, NEW n \in Nat, NEW iteration \in [1..n -> [S -> S]]
  PROVE  \E f \in [0..n -> S] : Unrolls(f, S, base, iteration, n)
<1> DEFINE T == {m \in 0..n : \E f \in [0..m -> S] : Unrolls(f, S, base, iteration, m)}
<1>1. 0 \in T
  <2>1. [i \in 0..0 |-> base] \in [0..0 -> S]
    OBVIOUS
  <2>2. Unrolls([i \in 0..0 |-> base], S, base, iteration, 0)
    BY DEF Unrolls
  <2>3. QED
    BY <2>1, <2>2
<1>2. ASSUME NEW m \in 0..(n - 1), m \in T
      PROVE  m + 1 \in T
  <2>1. PICK f \in [0..m -> S] : Unrolls(f, S, base, iteration, m)
    BY <1>2
  <2>2. m \in Nat /\ m + 1 \in 1..n
    OBVIOUS
  <2> DEFINE next == iteration[m + 1][f[m]]
  <2> DEFINE g == [i \in 0..(m + 1) |-> IF i = m + 1 THEN next ELSE f[i]]
  <2>3. next \in S
    BY <2>2
  <2>4. g \in [0..(m + 1) -> S]
    BY <2>2, <2>3
  <2>5. \A i \in 0..m : g[i] = f[i]
    BY <2>2
  <2>6. g[m + 1] = next
    BY <2>2
  <2> HIDE DEF g, next
  <2>7. g[0] = base
    BY <2>1, <2>2, <2>5 DEF Unrolls
  <2>8. ASSUME NEW i \in 1..(m + 1) PROVE g[i] = iteration[i][g[i - 1]]
    <3>1. CASE i = m + 1
      BY <2>2, <2>5, <2>6, <3>1 DEF next
    <3>2. CASE i # m + 1
      <4>1. i \in 1..m /\ i \in 0..m /\ i - 1 \in 0..m
        BY <2>2, <3>2
      <4>2. f[i] = iteration[i][f[i - 1]]
        BY <2>1, <4>1 DEF Unrolls
      <4>3. QED
        BY <2>5, <4>1, <4>2
    <3>3. QED
      BY <3>1, <3>2
  <2>9. Unrolls(g, S, base, iteration, m + 1)
    BY <2>7, <2>8 DEF Unrolls
  <2>10. QED
    BY <2>2, <2>4, <2>9
<1>3. \A i \in 0..n : i \in T
  <2> HIDE DEF T
  <2>1. QED
    BY <1>1, <1>2, Upwards
<1>4. n \in T
  BY <1>3
<1>5. QED
  BY <1>4

\* Two functions that unroll the same way are the same, and their values are of S.
LEMMA UnrolledAlike ==
  ASSUME NEW S, NEW base \in S, NEW n \in Nat, NEW iteration \in [1..n -> [S -> S]], NEW f, NEW g,
         Unrolls(f, S, base, iteration, n), Unrolls(g, S, base, iteration, n)
  PROVE  \A i \in 0..n : f[i] = g[i] /\ f[i] \in S
<1> DEFINE T == {i \in 0..n : f[i] = g[i] /\ f[i] \in S}
<1>1. 0 \in T
  BY DEF Unrolls
<1>2. ASSUME NEW i \in 0..(n - 1), i \in T PROVE i + 1 \in T
  <2>1. i \in 0..n /\ i + 1 \in 1..n /\ i + 1 \in 0..n /\ (i + 1) - 1 = i
    OBVIOUS
  <2>2. g[i] = f[i] /\ f[i] \in S
    BY <1>2, <2>1
  <2>3. f[i + 1] = iteration[i + 1][f[i]] /\ g[i + 1] = iteration[i + 1][f[i]]
    BY <2>1, <2>2 DEF Unrolls
  <2>4. iteration[i + 1][f[i]] \in S
    BY <2>1, <2>2
  <2>5. QED
    BY <2>1, <2>3, <2>4
<1>3. \A i \in 0..n : i \in T
  <2> HIDE DEF T
  <2>1. QED
    BY <1>1, <1>2, Upwards
<1>4. QED
  BY <1>3

-----------------------------------------------------------------------------
(* The number of elements of a tensor.                                     *)

\* The function that Product applies.
Products(p, shape, n) == p = [i \in 0..n |-> IF i = 0 THEN 1 ELSE p[i - 1] * shape[i]]

\* An iteration of it, as a function of what was before.
Multiplying(shape, n) == [i \in 1..n |-> [x \in Int |-> x * shape[i]]]

\* It unrolls, for any n it reaches.
LEMMA ProductUnrolls ==
  ASSUME NEW n \in Nat, NEW shape, NEW m, NEW p, Products(p, shape, m), m \in Nat, n <= m
  PROVE  Unrolls(p, Int, 1, Multiplying(shape, n), n)
<1>1. p[0] = 1
  BY DEF Products
<1>2. ASSUME NEW i \in 1..n, p[i - 1] \in Int
      PROVE  p[i] = Multiplying(shape, n)[i][p[i - 1]]
  <2>1. i \in 0..m /\ i # 0
    OBVIOUS
  <2>2. p[i] = p[i - 1] * shape[i]
    BY <2>1 DEF Products
  <2>3. QED
    BY <1>2, <2>2 DEF Multiplying
<1>3. QED
  BY <1>1, <1>2 DEF Unrolls

\* There is one, and so it is what Product takes its value from.
LEMMA ProductIs ==
  ASSUME NEW n \in Nat, NEW shape, \A i \in 1..n : shape[i] \in Int
  PROVE  \E p : Products(p, shape, n) /\ Product(shape, n) = p[n]
<1>1. Multiplying(shape, n) \in [1..n -> [Int -> Int]] /\ 1 \in Int
  BY DEF Multiplying
<1>2. PICK f \in [0..n -> Int] : Unrolls(f, Int, 1, Multiplying(shape, n), n)
  BY <1>1, Unrolled
<1>3. \A i \in 0..n : f[i] = IF i = 0 THEN 1 ELSE f[i - 1] * shape[i]
  <2>1. f[0] = 1
    BY <1>2 DEF Unrolls
  <2>2. ASSUME NEW i \in 1..n PROVE f[i] = f[i - 1] * shape[i]
    <3>1. i - 1 \in 0..n
      OBVIOUS
    <3>2. f[i] = Multiplying(shape, n)[i][f[i - 1]] /\ f[i - 1] \in Int
      BY <1>2, <3>1 DEF Unrolls
    <3>3. QED
      BY <3>2 DEF Multiplying
  <2>3. \A i \in 0..n : i # 0 => i \in 1..n
    OBVIOUS
  <2>4. QED
    BY <2>1, <2>2, <2>3, Zenon
<1>4. f = [i \in 0..n |-> IF i = 0 THEN 1 ELSE f[i - 1] * shape[i]]
  BY <1>3
<1> DEFINE q == CHOOSE p : p = [i \in 0..n |-> IF i = 0 THEN 1 ELSE p[i - 1] * shape[i]]
<1>5. Product(shape, n) = q[n]
  BY DEF Product
<1>6. q = [i \in 0..n |-> IF i = 0 THEN 1 ELSE q[i - 1] * shape[i]]
  BY <1>4, Zenon
<1>7. Products(q, shape, n)
  BY <1>6 DEF Products
<1>8. QED
  BY <1>5, <1>7, Zenon

\* The product of no dimension.
LEMMA ProductOfNone ==
  ASSUME NEW shape
  PROVE  Product(shape, 0) = 1
<1>1. \A i \in 1..0 : shape[i] \in Int
  OBVIOUS
<1>2. PICK p : Products(p, shape, 0) /\ Product(shape, 0) = p[0]
  BY <1>1, ProductIs
<1>3. QED
  BY <1>2 DEF Products

\* The product of one dimension more.
LEMMA ProductOfMore ==
  ASSUME NEW n \in Nat, NEW shape, \A i \in 1..(n + 1) : shape[i] \in Int
  PROVE  /\ Product(shape, n) \in Int
         /\ Product(shape, n + 1) = Product(shape, n) * shape[n + 1]
<1>1. PICK p : Products(p, shape, n) /\ Product(shape, n) = p[n]
  <2>1. \A i \in 1..n : shape[i] \in Int
    OBVIOUS
  <2>2. QED
    BY <2>1, ProductIs
<1>2. n + 1 \in Nat /\ n <= n + 1 /\ n <= n
  OBVIOUS
<1>3. PICK q : Products(q, shape, n + 1) /\ Product(shape, n + 1) = q[n + 1]
  BY <1>2, ProductIs
<1>4. /\ Unrolls(p, Int, 1, Multiplying(shape, n), n)
      /\ Unrolls(q, Int, 1, Multiplying(shape, n), n)
  BY <1>1, <1>2, <1>3, ProductUnrolls
<1>5. Multiplying(shape, n) \in [1..n -> [Int -> Int]] /\ 1 \in Int
  BY DEF Multiplying
<1>6. p[n] = q[n] /\ p[n] \in Int
  <2>1. \A i \in 0..n : p[i] = q[i] /\ p[i] \in Int
    BY <1>4, <1>5, UnrolledAlike
  <2>2. QED
    BY <2>1
<1>7. q[n + 1] = q[n] * shape[n + 1]
  BY <1>3 DEF Products
<1>8. QED
  BY <1>1, <1>3, <1>6, <1>7

\* A dimension that passes the check keeps the product within a size_t.
LEMMA ProductFits ==
  ASSUME NEW size \in Nat, NEW e \in 1..size, NEW d \in Int, d > 0, d <= size \div e
  PROVE  e * d \in 1..size
<1>1. PICK q \in Int : q = size \div e
  OBVIOUS
<1>2. e * q <= size
  BY <1>1
<1>3. e * d <= e * q
  BY <1>1
<1>4. e * d >= 1
  OBVIOUS
<1>5. e * d \in Int /\ e * q \in Int
  BY <1>1
<1>6. QED
  BY <1>2, <1>3, <1>4, <1>5

-----------------------------------------------------------------------------
(* What the deltas of a kind say.                                          *)

\* The function that Joined applies.
Joins(f, sent, kind, n) ==
  f = [i \in 0..n |-> IF i = 0 THEN <<>>
                      ELSE IF sent[i].kind = kind THEN f[i - 1] \o sent[i].of
                      ELSE f[i - 1]]

\* An iteration of it, as a function of what was before.
Joining(sent, kind, n) ==
  [i \in 1..n |-> [x \in Seq(Nat) |-> IF sent[i].kind = kind THEN x \o sent[i].of ELSE x]]

\* What is joined is a sequence of tokens.
LEMMA JoiningType ==
  ASSUME NEW n \in Nat, NEW kind, NEW sent, \A i \in 1..n : sent[i].of \in Seq(Nat)
  PROVE  Joining(sent, kind, n) \in [1..n -> [Seq(Nat) -> Seq(Nat)]] /\ <<>> \in Seq(Nat)
<1>1. ASSUME NEW i \in 1..n, NEW x \in Seq(Nat)
      PROVE  (IF sent[i].kind = kind THEN x \o sent[i].of ELSE x) \in Seq(Nat)
  <2>1. sent[i].of \in Seq(Nat)
    OBVIOUS
  <2>2. x \o sent[i].of \in Seq(Nat)
    BY <2>1, ConcatProperties
  <2>3. QED
    BY <2>2
<1>2. <<>> \in Seq(Nat)
  OBVIOUS
<1>3. QED
  BY <1>1, <1>2, Zenon DEF Joining

\* It unrolls, for any n it reaches, and for any sequence that begins as its own.
LEMMA JoinUnrolls ==
  ASSUME NEW n \in Nat, NEW kind, NEW s, NEW t, NEW m \in Nat, n <= m, NEW f,
         Joins(f, t, kind, m), \A i \in 1..n : s[i] = t[i]
  PROVE  Unrolls(f, Seq(Nat), <<>>, Joining(s, kind, n), n)
<1>1. f[0] = <<>>
  BY DEF Joins
<1>2. ASSUME NEW i \in 1..n, f[i - 1] \in Seq(Nat)
      PROVE  f[i] = Joining(s, kind, n)[i][f[i - 1]]
  <2>1. i \in 0..m /\ i # 0 /\ s[i] = t[i]
    OBVIOUS
  <2>2. f[i] = IF t[i].kind = kind THEN f[i - 1] \o t[i].of ELSE f[i - 1]
    BY <2>1, Zenon DEF Joins
  <2>3. QED
    BY <1>2, <2>1, <2>2, Zenon DEF Joining
<1>3. QED
  BY <1>1, <1>2 DEF Unrolls

\* There is one, and so it is what Joined takes its value from.
LEMMA JoinedIs ==
  ASSUME NEW n \in Nat, NEW kind, NEW sent, \A i \in 1..n : sent[i].of \in Seq(Nat)
  PROVE  \E f : Joins(f, sent, kind, n) /\ Joined(sent, kind, n) = f[n]
<1>1. PICK f \in [0..n -> Seq(Nat)] : Unrolls(f, Seq(Nat), <<>>, Joining(sent, kind, n), n)
  BY JoiningType, Unrolled
<1>2. \A i \in 0..n : f[i] = IF i = 0 THEN <<>>
                             ELSE IF sent[i].kind = kind THEN f[i - 1] \o sent[i].of
                             ELSE f[i - 1]
  <2>1. f[0] = <<>>
    BY <1>1 DEF Unrolls
  <2>2. ASSUME NEW i \in 1..n
        PROVE  f[i] = IF sent[i].kind = kind THEN f[i - 1] \o sent[i].of ELSE f[i - 1]
    <3>1. i - 1 \in 0..n
      OBVIOUS
    <3>2. f[i - 1] \in Seq(Nat)
      BY <3>1
    <3>3. f[i] = Joining(sent, kind, n)[i][f[i - 1]]
      BY <1>1, <3>2 DEF Unrolls
    <3>4. QED
      BY <3>2, <3>3, Zenon DEF Joining
  <2>3. \A i \in 0..n : i # 0 => i \in 1..n
    OBVIOUS
  <2>4. QED
    BY <2>1, <2>2, <2>3, Zenon
<1>3. f = [i \in 0..n |-> IF i = 0 THEN <<>>
                          ELSE IF sent[i].kind = kind THEN f[i - 1] \o sent[i].of
                          ELSE f[i - 1]]
  BY <1>2, Zenon
<1> DEFINE g == CHOOSE g : g = [i \in 0..n |-> IF i = 0 THEN <<>>
                                ELSE IF sent[i].kind = kind THEN g[i - 1] \o sent[i].of
                                ELSE g[i - 1]]
<1>4. Joined(sent, kind, n) = g[n]
  BY DEF Joined
<1>5. g = [i \in 0..n |-> IF i = 0 THEN <<>>
                          ELSE IF sent[i].kind = kind THEN g[i - 1] \o sent[i].of
                          ELSE g[i - 1]]
  BY <1>3, Zenon
<1>6. Joins(g, sent, kind, n)
  BY <1>5, Zenon DEF Joins
<1>7. QED
  BY <1>4, <1>6, Zenon

\* What one delta more adds.
LEMMA JoinedOfMore ==
  ASSUME NEW n \in Nat, NEW kind, NEW s, NEW t, \A i \in 1..n : s[i] = t[i],
         \A i \in 1..(n + 1) : t[i].of \in Seq(Nat)
  PROVE  /\ Joined(s, kind, n) \in Seq(Nat)
         /\ Joined(t, kind, n + 1) = IF t[n + 1].kind = kind THEN Joined(s, kind, n) \o t[n + 1].of
                                     ELSE Joined(s, kind, n)
<1>1. n + 1 \in Nat /\ n <= n + 1 /\ n <= n /\ n \in 0..n /\ n + 1 \in 0..(n + 1)
      /\ n + 1 # 0 /\ (n + 1) - 1 = n
  OBVIOUS
<1>2. \A i \in 1..n : s[i].of \in Seq(Nat)
  OBVIOUS
<1>3. PICK f : Joins(f, s, kind, n) /\ Joined(s, kind, n) = f[n]
  BY <1>2, JoinedIs
<1>4. PICK g : Joins(g, t, kind, n + 1) /\ Joined(t, kind, n + 1) = g[n + 1]
  BY <1>1, JoinedIs
<1>5. /\ Unrolls(f, Seq(Nat), <<>>, Joining(s, kind, n), n)
      /\ Unrolls(g, Seq(Nat), <<>>, Joining(s, kind, n), n)
  BY <1>1, <1>3, <1>4, JoinUnrolls
<1>6. \A i \in 0..n : f[i] = g[i] /\ f[i] \in Seq(Nat)
  BY <1>2, <1>5, JoiningType, UnrolledAlike
<1>7. g[n + 1] = IF t[n + 1].kind = kind THEN g[(n + 1) - 1] \o t[n + 1].of ELSE g[(n + 1) - 1]
  BY <1>1, <1>4, Zenon DEF Joins
<1>8. QED
  BY <1>1, <1>3, <1>4, <1>6, <1>7, Zenon

\* What no delta says.
LEMMA JoinedOfNone ==
  ASSUME NEW kind, NEW sent
  PROVE  Joined(sent, kind, 0) = <<>>
<1>1. \A i \in 1..0 : sent[i].of \in Seq(Nat)
  OBVIOUS
<1>2. PICK f : Joins(f, sent, kind, 0) /\ Joined(sent, kind, 0) = f[0]
  BY <1>1, JoinedIs
<1>3. QED
  BY <1>2 DEF Joins

\* The deltas that a generation may send.
Delta == [kind : {"text", "reasoning", "tool", "completed"}, of : Seq(Nat)]
Said(sent, kind) == Joined(sent, kind, Len(sent))

\* What a sequence of deltas says, and with one more.
LEMMA SaidMore ==
  ASSUME NEW kind, NEW sent \in Seq(Delta), NEW d \in Delta
  PROVE  /\ Said(sent, kind) \in Seq(Nat)
         /\ Said(Append(sent, d), kind) = IF d.kind = kind THEN Said(sent, kind) \o d.of
                                          ELSE Said(sent, kind)
<1>1. PICK n \in Nat : n = Len(sent)
  OBVIOUS
<1>2. PICK t \in Seq(Delta) : t = Append(sent, d)
  BY AppendProperties
<1>3. Len(t) = n + 1 /\ t[n + 1] = d /\ \A i \in 1..n : sent[i] = t[i]
  BY ONLY <1>1, <1>2, sent \in Seq(Delta), d \in Delta, AppendProperties
<1>4. \A i \in 1..(n + 1) : t[i].of \in Seq(Nat)
  <2>1. \A i \in 1..(n + 1) : t[i] \in Delta
    BY ONLY <1>2, <1>3, ElementOfSeq
  <2>2. QED
    BY <2>1 DEF Delta
<1>5. /\ Joined(sent, kind, n) \in Seq(Nat)
      /\ Joined(t, kind, n + 1) = IF t[n + 1].kind = kind
                                  THEN Joined(sent, kind, n) \o t[n + 1].of
                                  ELSE Joined(sent, kind, n)
  BY ONLY <1>3, <1>4, n \in Nat, JoinedOfMore
<1>6. QED
  BY <1>1, <1>2, <1>3, <1>5, Zenon DEF Said

-----------------------------------------------------------------------------
(* Tokens in order, and none lost.                                         *)

\* What is put behind something greater stays in order.
LEMMA AscendingJoin ==
  ASSUME NEW s \in Seq(Nat), NEW t \in Seq(Nat), Ascending(s), Ascending(t),
         \A i \in DOMAIN s, k \in DOMAIN t : s[i] < t[k]
  PROVE  Ascending(s \o t)
<1>1. PICK m \in Nat : m = Len(s) /\ DOMAIN s = 1..m
  OBVIOUS
<1>2. PICK n \in Nat : n = Len(t) /\ DOMAIN t = 1..n
  OBVIOUS
<1>3. PICK u \in Seq(Nat) : u = s \o t
  BY ConcatProperties
<1>4. /\ DOMAIN u = 1..(m + n)
      /\ \A i \in 1..m : u[i] = s[i]
      /\ \A i \in (m + 1)..(m + n) : u[i] = t[i - m]
  BY <1>1, <1>2, <1>3, ConcatProperties
<1>5. ASSUME NEW i \in 1..(m + n), NEW k \in 1..(m + n), i < k
      PROVE  u[i] < u[k]
  <2>1. CASE k \in 1..m
    <3>1. i \in 1..m
      BY <1>5, <2>1
    <3>2. s[i] < s[k]
      BY <1>1, <1>5, <2>1, <3>1 DEF Ascending
    <3>3. QED
      BY <1>4, <2>1, <3>1, <3>2
  <2>2. CASE i \in 1..m /\ k \in (m + 1)..(m + n)
    <3>1. k - m \in 1..n
      BY <2>2
    <3>2. QED
      BY <1>1, <1>2, <1>4, <2>2, <3>1
  <2>3. CASE i \in (m + 1)..(m + n) /\ k \in (m + 1)..(m + n)
    <3>1. i - m \in 1..n /\ k - m \in 1..n /\ i - m < k - m
      BY <1>5, <2>3
    <3>2. t[i - m] < t[k - m]
      BY <1>2, <3>1 DEF Ascending
    <3>3. QED
      BY <1>4, <2>3, <3>2
  <2>4. QED
    BY <1>5, <2>1, <2>2, <2>3
<1>6. QED
  BY <1>3, <1>4, <1>5 DEF Ascending

\* What occurs in two sequences joined, or in the parts of one.
LEMMA OccursJoined ==
  ASSUME NEW s \in Seq(Nat), NEW t \in Seq(Nat), NEW x
  PROVE  Occurs(x, s \o t) <=> Occurs(x, s) \/ Occurs(x, t)
<1>1. PICK m \in Nat : m = Len(s) /\ DOMAIN s = 1..m
  OBVIOUS
<1>2. PICK n \in Nat : n = Len(t) /\ DOMAIN t = 1..n
  OBVIOUS
<1>3. PICK u \in Seq(Nat) : u = s \o t
  BY ConcatProperties
<1>4. /\ DOMAIN u = 1..(m + n)
      /\ \A i \in 1..m : u[i] = s[i]
      /\ \A i \in (m + 1)..(m + n) : u[i] = t[i - m]
  BY <1>1, <1>2, <1>3, ConcatProperties
<1>5. ASSUME Occurs(x, u) PROVE Occurs(x, s) \/ Occurs(x, t)
  <2>1. PICK k \in 1..(m + n) : u[k] = x
    BY <1>4, <1>5 DEF Occurs
  <2>2. CASE k \in 1..m
    BY <1>1, <1>4, <2>1, <2>2 DEF Occurs
  <2>3. CASE k \in (m + 1)..(m + n)
    <3>1. k - m \in 1..n
      BY <2>3
    <3>2. t[k - m] = x
      BY <1>4, <2>1, <2>3
    <3>3. QED
      BY <1>2, <3>1, <3>2 DEF Occurs
  <2>4. QED
    BY <2>1, <2>2, <2>3
<1>6. ASSUME Occurs(x, s) PROVE Occurs(x, u)
  <2>1. PICK k \in 1..m : s[k] = x
    BY <1>1, <1>6 DEF Occurs
  <2>2. k \in 1..(m + n) /\ u[k] = x
    BY <1>4, <2>1
  <2>3. QED
    BY <1>4, <2>2 DEF Occurs
<1>7. ASSUME Occurs(x, t) PROVE Occurs(x, u)
  <2>1. PICK k \in 1..n : t[k] = x
    BY <1>2, <1>7 DEF Occurs
  <2>2. k + m \in (m + 1)..(m + n) /\ k + m \in 1..(m + n) /\ (k + m) - m = k
    OBVIOUS
  <2>3. u[k + m] = x
    BY <1>4, <2>1, <2>2
  <2>4. QED
    BY <1>4, <2>2, <2>3 DEF Occurs
<1>8. QED
  BY <1>3, <1>5, <1>6, <1>7

\* A token by itself.
LEMMA OneToken ==
  ASSUME NEW x \in Nat
  PROVE  /\ <<x>> \in Seq(Nat) /\ Len(<<x>>) = 1 /\ DOMAIN <<x>> = 1..1 /\ <<x>>[1] = x
         /\ Ascending(<<x>>) /\ Occurs(x, <<x>>)
BY DEF Ascending, Occurs

\* Nothing at all.
LEMMA NoToken ==
  /\ <<>> \in Seq(Nat) /\ Len(<<>>) = 0 /\ DOMAIN <<>> = {}
  /\ Ascending(<<>>) /\ \A x : ~Occurs(x, <<>>)
BY DEF Ascending, Occurs

\* What is at most some number, for all elements.
Below(s, made) == \A i \in DOMAIN s : s[i] <= made
AllBefore(s, t) == \A i \in DOMAIN s, k \in DOMAIN t : s[i] < t[k]

\* The parts of InOrder, one by one.
LEMMA OrderParts ==
  ASSUME NEW text, NEW reasoning, NEW called, NEW open, NEW made
  PROVE  InOrder(text, reasoning, called, open, made)
           <=> /\ Ascending(text) /\ Ascending(reasoning) /\ Ascending(called) /\ Ascending(open)
               /\ Below(text, made) /\ Below(reasoning, made) /\ Below(called, made)
               /\ Below(open, made)
               /\ AllBefore(text, open) /\ AllBefore(called, open)
BY Zenon DEF InOrder, Below, AllBefore

\* What is below a number stays so when something is joined to it, and when the number grows.
LEMMA BelowJoin ==
  ASSUME NEW s \in Seq(Nat), NEW t \in Seq(Nat), NEW made \in Nat, NEW more \in Nat,
         Below(s, made), Below(t, more), made <= more
  PROVE  Below(s \o t, more)
<1>1. PICK m \in Nat : m = Len(s) /\ DOMAIN s = 1..m
  OBVIOUS
<1>2. PICK n \in Nat : n = Len(t) /\ DOMAIN t = 1..n
  OBVIOUS
<1>3. PICK u \in Seq(Nat) : u = s \o t
  BY ConcatProperties
<1>4. /\ DOMAIN u = 1..(m + n)
      /\ \A i \in 1..m : u[i] = s[i]
      /\ \A i \in (m + 1)..(m + n) : u[i] = t[i - m]
  BY <1>1, <1>2, <1>3, ConcatProperties
<1>5. ASSUME NEW i \in 1..(m + n) PROVE u[i] <= more
  <2>1. CASE i \in 1..m
    <3>1. s[i] \in Nat
      BY <1>1, <2>1
    <3>2. s[i] <= made
      BY <1>1, <2>1 DEF Below
    <3>3. QED
      BY <1>4, <2>1, <3>1, <3>2
  <2>2. CASE i \in (m + 1)..(m + n)
    <3>1. i - m \in 1..n
      BY <2>2
    <3>2. QED
      BY <1>2, <1>4, <2>2, <3>1 DEF Below
  <2>3. QED
    BY <2>1, <2>2
<1>6. QED
  BY <1>3, <1>4, <1>5 DEF Below

\* The same for what comes before something else.
LEMMA BeforeJoin ==
  ASSUME NEW s \in Seq(Nat), NEW t \in Seq(Nat), NEW u \in Seq(Nat),
         AllBefore(s, t), AllBefore(s, u)
  PROVE  AllBefore(s, t \o u)
<1>1. PICK m \in Nat : m = Len(t) /\ DOMAIN t = 1..m
  OBVIOUS
<1>2. PICK n \in Nat : n = Len(u) /\ DOMAIN u = 1..n
  OBVIOUS
<1>3. PICK w \in Seq(Nat) : w = t \o u
  BY ConcatProperties
<1>4. /\ DOMAIN w = 1..(m + n)
      /\ \A i \in 1..m : w[i] = t[i]
      /\ \A i \in (m + 1)..(m + n) : w[i] = u[i - m]
  BY <1>1, <1>2, <1>3, ConcatProperties
<1>5. ASSUME NEW i \in DOMAIN s, NEW k \in 1..(m + n) PROVE s[i] < w[k]
  <2>1. CASE k \in 1..m
    BY <1>1, <1>4, <2>1 DEF AllBefore
  <2>2. CASE k \in (m + 1)..(m + n)
    <3>1. k - m \in 1..n
      BY <2>2
    <3>2. QED
      BY <1>2, <1>4, <2>2, <3>1 DEF AllBefore
  <2>3. QED
    BY <2>1, <2>2
<1>6. QED
  BY <1>3, <1>4, <1>5 DEF AllBefore

\* And for what comes before it.
LEMMA JoinBefore ==
  ASSUME NEW s \in Seq(Nat), NEW t \in Seq(Nat), NEW u, AllBefore(s, u), AllBefore(t, u)
  PROVE  AllBefore(s \o t, u)
<1>1. PICK m \in Nat : m = Len(s) /\ DOMAIN s = 1..m
  OBVIOUS
<1>2. PICK n \in Nat : n = Len(t) /\ DOMAIN t = 1..n
  OBVIOUS
<1>3. PICK w \in Seq(Nat) : w = s \o t
  BY ConcatProperties
<1>4. /\ DOMAIN w = 1..(m + n)
      /\ \A i \in 1..m : w[i] = s[i]
      /\ \A i \in (m + 1)..(m + n) : w[i] = t[i - m]
  BY <1>1, <1>2, <1>3, ConcatProperties
<1>5. ASSUME NEW i \in 1..(m + n), NEW k \in DOMAIN u PROVE w[i] < u[k]
  <2>1. CASE i \in 1..m
    BY <1>1, <1>4, <2>1 DEF AllBefore
  <2>2. CASE i \in (m + 1)..(m + n)
    <3>1. i - m \in 1..n
      BY <2>2
    <3>2. QED
      BY <1>2, <1>4, <2>2, <3>1 DEF AllBefore
  <2>3. QED
    BY <2>1, <2>2
<1>6. QED
  BY <1>3, <1>4, <1>5 DEF AllBefore

\* What is below the next token comes before it.
LEMMA BelowNext ==
  ASSUME NEW s \in Seq(Nat), NEW made \in Nat, Below(s, made)
  PROVE  /\ Below(s, made + 1) /\ AllBefore(s, <<made + 1>>) /\ AllBefore(s, <<>>)
         /\ Below(<<made + 1>>, made + 1) /\ Below(<<>>, made)
<1>1. made + 1 \in Nat
  OBVIOUS
<1>2. \A i \in DOMAIN s : s[i] \in Nat /\ s[i] <= made
  BY DEF Below
<1>3. \A i \in DOMAIN s : s[i] <= made + 1 /\ s[i] < made + 1
  BY <1>2
<1>4. AllBefore(s, <<made + 1>>)
  BY <1>1, <1>3, OneToken DEF AllBefore
<1>5. QED
  BY <1>1, <1>3, <1>4, OneToken, NoToken DEF Below, AllBefore

-----------------------------------------------------------------------------
(* What becomes of the order.                                              *)

\* A token that is text, reasoning, or buffered.
LEMMA OrderToken ==
  ASSUME NEW text \in Seq(Nat), NEW reasoning \in Seq(Nat), NEW called \in Seq(Nat),
         NEW open \in Seq(Nat), NEW made \in Nat,
         InOrder(text, reasoning, called, open, made)
  PROVE  /\ InOrder(text, reasoning, called, open, made + 1)
         /\ open = <<>> => InOrder(text \o <<made + 1>>, reasoning, called, open, made + 1)
         /\ InOrder(text, reasoning \o <<made + 1>>, called, open, made + 1)
         /\ InOrder(text, reasoning, called, open \o <<made + 1>>, made + 1)
<1>1. /\ Ascending(text) /\ Ascending(reasoning) /\ Ascending(called) /\ Ascending(open)
      /\ Below(text, made) /\ Below(reasoning, made) /\ Below(called, made) /\ Below(open, made)
      /\ AllBefore(text, open) /\ AllBefore(called, open)
  BY OrderParts
<1>2. PICK next \in Nat : next = made + 1 /\ made <= next
  OBVIOUS
<1>3. <<next>> \in Seq(Nat) /\ Ascending(<<next>>)
  BY OneToken
<1>4. ASSUME NEW s \in Seq(Nat), Below(s, made), Ascending(s)
      PROVE  /\ Below(s, next) /\ Below(s \o <<next>>, next) /\ Ascending(s \o <<next>>)
             /\ AllBefore(s, <<next>>) /\ AllBefore(s, <<>>)
  <2>1. /\ Below(s, next) /\ AllBefore(s, <<next>>) /\ AllBefore(s, <<>>)
        /\ Below(<<next>>, next)
    BY <1>2, <1>4, BelowNext
  <2>2. Below(s \o <<next>>, next)
    BY <1>2, <1>3, <1>4, <2>1, BelowJoin
  <2>3. Ascending(s \o <<next>>)
    BY <1>3, <1>4, <2>1, AscendingJoin DEF AllBefore
  <2>4. QED
    BY <2>1, <2>2, <2>3
<1>5. AllBefore(text, open \o <<next>>) /\ AllBefore(called, open \o <<next>>)
  BY <1>1, <1>3, <1>4, BeforeJoin
<1>6. open = <<>> => AllBefore(text \o <<next>>, open)
  BY NoToken DEF AllBefore
<1>7. InOrder(text, reasoning, called, open, next)
  BY <1>1, <1>4, OrderParts
<1>8. open = <<>> => InOrder(text \o <<next>>, reasoning, called, open, next)
  BY <1>1, <1>4, <1>6, OrderParts
<1>9. InOrder(text, reasoning \o <<next>>, called, open, next)
  BY <1>1, <1>4, OrderParts
<1>10. InOrder(text, reasoning, called, open \o <<next>>, next)
  BY <1>1, <1>4, <1>5, OrderParts
<1>11. QED
  BY <1>2, <1>7, <1>8, <1>9, <1>10

\* A buffer that is text after all.
LEMMA OrderFlushed ==
  ASSUME NEW text \in Seq(Nat), NEW reasoning \in Seq(Nat), NEW called \in Seq(Nat),
         NEW open \in Seq(Nat), NEW made \in Nat,
         InOrder(text, reasoning, called, open, made)
  PROVE  InOrder(text \o open, reasoning, called, <<>>, made)
<1>1. /\ Ascending(text) /\ Ascending(reasoning) /\ Ascending(called) /\ Ascending(open)
      /\ Below(text, made) /\ Below(reasoning, made) /\ Below(called, made) /\ Below(open, made)
      /\ AllBefore(text, open)
  BY OrderParts
<1>2. Ascending(text \o open)
  BY <1>1, AscendingJoin DEF AllBefore
<1>3. Below(text \o open, made)
  <2>1. made <= made
    OBVIOUS
  <2>2. QED
    BY <1>1, <2>1, BelowJoin
<1>4. /\ AllBefore(text \o open, <<>>) /\ AllBefore(called, <<>>) /\ Below(<<>>, made)
      /\ Ascending(<<>>)
  BY NoToken DEF AllBefore, Below
<1>5. QED
  BY <1>1, <1>2, <1>3, <1>4, OrderParts

\* A buffer whose beginning is a call, or is dropped.
LEMMA OrderCalled ==
  ASSUME NEW text \in Seq(Nat), NEW reasoning \in Seq(Nat), NEW called \in Seq(Nat),
         NEW open \in Seq(Nat), NEW made \in Nat, NEW n \in 1..Len(open),
         InOrder(text, reasoning, called, open, made)
  PROVE  /\ InOrder(text, reasoning, called \o SubSeq(open, 1, n),
                    SubSeq(open, n + 1, Len(open)), made)
         /\ InOrder(text, reasoning, called, SubSeq(open, n + 1, Len(open)), made)
<1>1. /\ Ascending(text) /\ Ascending(reasoning) /\ Ascending(called) /\ Ascending(open)
      /\ Below(text, made) /\ Below(reasoning, made) /\ Below(called, made) /\ Below(open, made)
      /\ AllBefore(text, open) /\ AllBefore(called, open)
  BY OrderParts
<1>2. PICK first, rest : first = SubSeq(open, 1, n) /\ rest = SubSeq(open, n + 1, Len(open))
  OBVIOUS
<1>3. PICK m \in Nat : m = Len(open) /\ DOMAIN open = 1..m /\ n \in 1..m
  OBVIOUS
<1>4. \A i \in 1..m : open[i] \in Nat
  BY <1>3, ElementOfSeq
<1>5. first \in Seq(Nat) /\ DOMAIN first = 1..n /\ \A i \in 1..n : first[i] = open[i]
  <2>1. /\ first \in Seq(Nat) /\ Len(first) = n - 1 + 1
        /\ \A i \in 1..(n - 1 + 1) : first[i] = open[1 + i - 1]
    BY <1>2, <1>3, <1>4, SubSeqProperties
  <2>2. n - 1 + 1 = n /\ \A i \in 1..n : 1 + i - 1 = i
    BY <1>3
  <2>3. QED
    BY <2>1, <2>2, SMTT(30)
<1>6. /\ rest \in Seq(Nat) /\ DOMAIN rest = 1..(m - n)
      /\ \A i \in 1..(m - n) : rest[i] = open[n + i]
  <2>1. /\ rest \in Seq(Nat) /\ Len(rest) = m - n
        /\ \A i \in 1..(m - n) : rest[i] = open[n + i]
    BY <1>2, <1>3, <1>4, SMTT(30)
  <2>2. DOMAIN rest = 1..Len(rest)
    BY <2>1
  <2>3. QED
    BY <2>1, <2>2
<1>7. /\ \A i \in 1..n : i \in 1..m
      /\ \A i \in 1..(m - n) : n + i \in 1..m
      /\ \A i, j \in 1..(m - n) : i < j => n + i < n + j
      /\ \A i \in 1..n, k \in 1..(m - n) : i < n + k
  BY <1>3
<1>8. /\ Ascending(first) /\ Below(first, made) /\ AllBefore(called, first)
      /\ Ascending(rest) /\ Below(rest, made) /\ AllBefore(called, rest)
      /\ AllBefore(text, rest) /\ AllBefore(first, rest)
  <2>1. \A i, j \in 1..m : i < j => open[i] < open[j]
    BY <1>1, <1>3 DEF Ascending
  <2>2. Ascending(first)
    <3>1. ASSUME NEW i \in 1..n, NEW j \in 1..n, i < j PROVE first[i] < first[j]
      BY <1>5, <1>7, <2>1, <3>1
    <3>2. QED
      BY <1>5, <3>1 DEF Ascending
  <2>3. Ascending(rest)
    BY <1>6, <1>7, <2>1 DEF Ascending
  <2>4. AllBefore(first, rest)
    BY <1>5, <1>6, <1>7, <2>1 DEF AllBefore
  <2>5. Below(first, made) /\ Below(rest, made)
    BY <1>1, <1>3, <1>5, <1>6, <1>7, Zenon DEF Below
  <2>6. AllBefore(called, first) /\ AllBefore(called, rest) /\ AllBefore(text, rest)
    BY <1>1, <1>3, <1>5, <1>6, <1>7, Zenon DEF AllBefore
  <2>7. QED
    BY <2>2, <2>3, <2>4, <2>5, <2>6
<1>9. Ascending(called \o first) /\ AllBefore(called \o first, rest)
  <2>1. Ascending(called \o first)
    BY <1>1, <1>5, <1>8, AscendingJoin DEF AllBefore
  <2>2. QED
    BY <1>5, <1>8, <2>1, JoinBefore
<1>10. Below(called \o first, made)
  <2>1. made <= made
    OBVIOUS
  <2>2. QED
    BY <1>1, <1>5, <1>8, <2>1, BelowJoin
<1>11. /\ InOrder(text, reasoning, called \o first, rest, made)
       /\ InOrder(text, reasoning, called, rest, made)
  BY <1>1, <1>8, <1>9, <1>10, OrderParts
<1>12. QED
  BY <1>2, <1>11

-----------------------------------------------------------------------------
(* What becomes of the tokens.                                             *)

\* A token is in one of five places.
Somewhere(x, text, reasoning, called, lost, open) ==
  Occurs(x, text) \/ Occurs(x, reasoning) \/ Occurs(x, called) \/ Occurs(x, lost)
    \/ Occurs(x, open)

\* Nothing is lost where nothing is.
LEMMA SomewhereParts ==
  ASSUME NEW text, NEW reasoning, NEW called, NEW lost, NEW open, NEW seen
  PROVE  AllSomewhere(text, reasoning, called, lost, open, seen)
           <=> /\ Len(text) + Len(reasoning) + Len(called) + Len(lost) + Len(open) = Len(seen)
               /\ \A i \in DOMAIN seen : Somewhere(seen[i], text, reasoning, called, lost, open)
BY Zenon DEF AllSomewhere, Somewhere

\* A token that is text, reasoning, or buffered.
LEMMA TokenSomewhere ==
  ASSUME NEW text \in Seq(Nat), NEW reasoning \in Seq(Nat), NEW called \in Seq(Nat),
         NEW lost \in Seq(Nat), NEW open \in Seq(Nat), NEW seen \in Seq(Nat), NEW x \in Nat,
         AllSomewhere(text, reasoning, called, lost, open, seen)
  PROVE  /\ AllSomewhere(text \o <<x>>, reasoning, called, lost, open, seen \o <<x>>)
         /\ AllSomewhere(text, reasoning \o <<x>>, called, lost, open, seen \o <<x>>)
         /\ AllSomewhere(text, reasoning, called, lost, open \o <<x>>, seen \o <<x>>)
<1>1. PICK one \in Seq(Nat) : one = <<x>> /\ Len(one) = 1 /\ Occurs(x, one)
  BY OneToken
<1>2. \A s \in Seq(Nat) : Len(s \o one) = Len(s) + 1 /\ Len(s) \in Nat
  BY <1>1, ConcatProperties
<1>3. Len(text) + Len(reasoning) + Len(called) + Len(lost) + Len(open) = Len(seen)
  BY SomewhereParts
<1>4. /\ Len(text \o one) + Len(reasoning) + Len(called) + Len(lost) + Len(open) = Len(seen \o one)
      /\ Len(text) + Len(reasoning \o one) + Len(called) + Len(lost) + Len(open) = Len(seen \o one)
      /\ Len(text) + Len(reasoning) + Len(called) + Len(lost) + Len(open \o one) = Len(seen \o one)
  <2>1. PICK a \in Nat, b \in Nat, c \in Nat, d \in Nat, e \in Nat, f \in Nat :
          a = Len(text) /\ b = Len(reasoning) /\ c = Len(called) /\ d = Len(lost)
            /\ e = Len(open) /\ f = Len(seen)
    BY <1>2
  <2>2. PICK a1 \in Nat, b1 \in Nat, e1 \in Nat, f1 \in Nat :
          /\ a1 = Len(text \o one) /\ b1 = Len(reasoning \o one)
          /\ e1 = Len(open \o one) /\ f1 = Len(seen \o one)
          /\ a1 = a + 1 /\ b1 = b + 1 /\ e1 = e + 1 /\ f1 = f + 1
    <3>1. /\ Len(text \o one) = a + 1 /\ Len(reasoning \o one) = b + 1
          /\ Len(open \o one) = e + 1 /\ Len(seen \o one) = f + 1
      BY <1>2, <2>1
    <3>2. a + 1 \in Nat /\ b + 1 \in Nat /\ e + 1 \in Nat /\ f + 1 \in Nat
      OBVIOUS
    <3>3. QED
      BY <3>1, <3>2, Zenon
  <2>3. a + b + c + d + e = f
    BY <1>3, <2>1, Zenon
  <2>4. a1 + b + c + d + e = f1 /\ a + b1 + c + d + e = f1 /\ a + b + c + d + e1 = f1
    BY <2>2, <2>3
  <2>5. QED
    BY ONLY <2>1, <2>2, <2>4, Zenon
<1>5. \A y : \A s \in Seq(Nat) : Occurs(y, s \o one) <=> Occurs(y, s) \/ Occurs(y, one)
  BY OccursJoined
<1>6. \A i \in DOMAIN (seen \o one) :
        Somewhere((seen \o one)[i], text, reasoning, called, lost, open) \/ (seen \o one)[i] = x
  <2>1. \A i \in DOMAIN seen : Somewhere(seen[i], text, reasoning, called, lost, open)
    BY SomewhereParts
  <2>2. ASSUME NEW i \in DOMAIN (seen \o one)
        PROVE  (\E k \in DOMAIN seen : (seen \o one)[i] = seen[k]) \/ (seen \o one)[i] = x
    <3>1. Occurs((seen \o one)[i], seen \o one)
      BY Zenon DEF Occurs
    <3>2. Occurs((seen \o one)[i], seen) \/ Occurs((seen \o one)[i], one)
      BY <1>5, <3>1, Zenon
    <3>3. Occurs((seen \o one)[i], one) => (seen \o one)[i] = x
      <4>1. \A y : Occurs(y, one) => y = x
        BY <1>1, OneToken DEF Occurs
      <4>2. QED
        BY <4>1, Zenon
    <3>4. QED
      BY <3>2, <3>3, Zenon DEF Occurs
  <2>3. QED
    BY <2>1, <2>2, Zenon
<1>7. \A y : Somewhere(y, text, reasoning, called, lost, open) \/ y = x
        => /\ Somewhere(y, text \o one, reasoning, called, lost, open)
           /\ Somewhere(y, text, reasoning \o one, called, lost, open)
           /\ Somewhere(y, text, reasoning, called, lost, open \o one)
  <2> SUFFICES ASSUME NEW y, Somewhere(y, text, reasoning, called, lost, open) \/ y = x
               PROVE  /\ Somewhere(y, text \o one, reasoning, called, lost, open)
                      /\ Somewhere(y, text, reasoning \o one, called, lost, open)
                      /\ Somewhere(y, text, reasoning, called, lost, open \o one)
    BY Zenon
  <2>1. y = x => Occurs(y, one)
    BY <1>1
  <2>2. /\ Occurs(y, text \o one) <=> Occurs(y, text) \/ Occurs(y, one)
        /\ Occurs(y, reasoning \o one) <=> Occurs(y, reasoning) \/ Occurs(y, one)
        /\ Occurs(y, open \o one) <=> Occurs(y, open) \/ Occurs(y, one)
    BY <1>5, Zenon
  <2>3. QED
    BY <2>1, <2>2, Zenon DEF Somewhere
<1>8. QED
  BY <1>1, <1>4, <1>6, <1>7, SomewhereParts, Zenon

\* A buffer that is put to the text, or whose beginning is a call or dropped.
LEMMA BufferSomewhere ==
  ASSUME NEW text \in Seq(Nat), NEW reasoning \in Seq(Nat), NEW called \in Seq(Nat),
         NEW lost \in Seq(Nat), NEW first \in Seq(Nat), NEW rest \in Seq(Nat),
         NEW seen \in Seq(Nat),
         AllSomewhere(text, reasoning, called, lost, first \o rest, seen)
  PROVE  /\ AllSomewhere(text \o (first \o rest), reasoning, called, lost, <<>>, seen)
         /\ AllSomewhere(text, reasoning, called \o first, lost, rest, seen)
         /\ AllSomewhere(text, reasoning, called, lost \o first, rest, seen)
<1>1. PICK open \in Seq(Nat) : open = first \o rest
  BY ConcatProperties
<1>2. \A s \in Seq(Nat), t \in Seq(Nat) :
        Len(s \o t) = Len(s) + Len(t) /\ Len(s) \in Nat /\ s \o t \in Seq(Nat)
  BY ConcatProperties
<1>3. Len(text) + Len(reasoning) + Len(called) + Len(lost) + Len(open) = Len(seen)
  BY <1>1, SomewhereParts
<1>4. /\ Len(text \o open) + Len(reasoning) + Len(called) + Len(lost) + 0 = Len(seen)
      /\ Len(text) + Len(reasoning) + Len(called \o first) + Len(lost) + Len(rest) = Len(seen)
      /\ Len(text) + Len(reasoning) + Len(called) + Len(lost \o first) + Len(rest) = Len(seen)
  <2>1. PICK a \in Nat, b \in Nat, c \in Nat, d \in Nat, e \in Nat, f \in Nat :
          a = Len(text) /\ b = Len(reasoning) /\ c = Len(called) /\ d = Len(lost)
            /\ e = Len(first) /\ f = Len(rest)
    BY <1>2
  <2>2. /\ Len(open) = e + f /\ Len(text \o open) = a + (e + f)
        /\ Len(called \o first) = c + e /\ Len(lost \o first) = d + e
    BY <1>1, <1>2, <2>1
  <2>3. a + b + c + d + (e + f) = Len(seen)
    BY <1>3, <2>1, <2>2
  <2>4. QED
    BY <2>1, <2>2, <2>3
<1>5. \A y : \A s \in Seq(Nat), t \in Seq(Nat) : Occurs(y, s \o t) <=> Occurs(y, s) \/ Occurs(y, t)
  BY OccursJoined
<1>6. \A y : Somewhere(y, text, reasoning, called, lost, open)
        => /\ Somewhere(y, text \o open, reasoning, called, lost, <<>>)
           /\ Somewhere(y, text, reasoning, called \o first, lost, rest)
           /\ Somewhere(y, text, reasoning, called, lost \o first, rest)
  <2>1. \A y : Occurs(y, open) <=> Occurs(y, first) \/ Occurs(y, rest)
    BY <1>1, <1>5, Zenon
  <2>2. QED
    BY <1>5, <2>1, Zenon DEF Somewhere
<1>7. \A i \in DOMAIN seen : Somewhere(seen[i], text, reasoning, called, lost, open)
  BY <1>1, SomewhereParts
<1>8. Len(<<>>) = 0
  OBVIOUS
<1>9. QED
  BY <1>1, <1>4, <1>6, <1>7, <1>8, SomewhereParts, Zenon

\* A sequence is its beginning and the rest.
LEMMA BeginningAndRest ==
  ASSUME NEW s \in Seq(Nat), NEW n \in 1..Len(s)
  PROVE  /\ SubSeq(s, 1, n) \in Seq(Nat) /\ SubSeq(s, n + 1, Len(s)) \in Seq(Nat)
         /\ SubSeq(s, 1, n) \o SubSeq(s, n + 1, Len(s)) = s
         /\ SubSeq(s, 1, Len(s)) = s
<1>1. PICK m \in Nat : m = Len(s) /\ n \in 1..m
  OBVIOUS
<1>2. SubSeq(s, 1, n) \in Seq(Nat) /\ SubSeq(s, n + 1, m) \in Seq(Nat)
  BY <1>1
<1>3. SubSeq(s, 1, m) = s
  BY <1>1, SubSeqFull
<1>4. SubSeq(s, 1, n) \o SubSeq(s, n + 1, m) = SubSeq(s, 1, m)
  BY <1>1, ConcatAdjacentSubSeq
<1>5. QED
  BY <1>1, <1>2, <1>3, <1>4

-----------------------------------------------------------------------------
(* The characters of base64.                                               *)

\* Four characters hold three bytes.
LEMMA TripleCharacters ==
  ASSUME NEW a \in Nat, a < 256, NEW b \in Nat, b < 256, NEW c \in Nat, c < 256
  PROVE  /\ ((a * 65536 + b * 256 + c) \div 262144) % 64 = a \div 4
         /\ ((a * 65536 + b * 256 + c) \div 4096) % 64 = (a % 4) * 16 + b \div 16
         /\ ((a * 65536 + b * 256 + c) \div 64) % 64 = (b % 16) * 4 + c \div 64
         /\ (a * 65536 + b * 256 + c) % 64 = c % 64
<1>1. PICK a1 \in 0..63, a2 \in 0..3 : a = 4 * a1 + a2 /\ a \div 4 = a1 /\ a % 4 = a2
  OBVIOUS
<1>2. PICK b1 \in 0..15, b2 \in 0..15 : b = 16 * b1 + b2 /\ b \div 16 = b1 /\ b % 16 = b2
  OBVIOUS
<1>3. PICK c1 \in 0..3, c2 \in 0..63 : c = 64 * c1 + c2 /\ c \div 64 = c1 /\ c % 64 = c2
  OBVIOUS
<1>4. PICK t \in Nat : /\ t = a * 65536 + b * 256 + c
                       /\ t = 262144 * a1 + 4096 * (16 * a2 + b1) + 64 * (4 * b2 + c1) + c2
  BY <1>1, <1>2, <1>3
<1>5. t \div 262144 = a1 /\ a1 % 64 = a1
  BY <1>4
<1>6. t \div 4096 = 64 * a1 + (16 * a2 + b1)
  BY <1>4
<1>7. (64 * a1 + (16 * a2 + b1)) % 64 = 16 * a2 + b1
  OBVIOUS
<1>8. PICK s \in Nat : s = 64 * a1 + (16 * a2 + b1)
  OBVIOUS
<1>9. t = 64 * (64 * s + (4 * b2 + c1)) + c2
  BY <1>4, <1>8
<1>10. t \div 64 = 64 * s + (4 * b2 + c1) /\ t % 64 = c2
  BY <1>9
<1>11. (64 * s + (4 * b2 + c1)) % 64 = 4 * b2 + c1
  OBVIOUS
<1>12. (t \div 262144) % 64 = a \div 4
  BY ONLY <1>1, <1>5
<1>13. (t \div 4096) % 64 = (a % 4) * 16 + b \div 16
  BY ONLY <1>1, <1>2, <1>6, <1>7
<1>14. (t \div 64) % 64 = (b % 16) * 4 + c \div 64 /\ t % 64 = c % 64
  BY ONLY <1>2, <1>3, <1>10, <1>11
<1>15. QED
  BY ONLY <1>4, <1>12, <1>13, <1>14, SMT

\* A character of a group belongs to the payload exactly before the padding.
LEMMA CharacterPlace ==
  ASSUME NEW n \in Nat, NEW g \in Nat, NEW c \in 0..3
  PROVE  /\ n + ((n + 2) \div 3) <= 4 * ((n + 2) \div 3)
         /\ 4 * g + c < 4 * ((n + 2) \div 3) =>
              (3 * g + c <= n <=> 4 * g + c < n + ((n + 2) \div 3))
         /\ (3 * (n + ((n + 2) \div 3))) \div 4 = n
<1>1. PICK q \in Nat, r \in 0..2 : n = 3 * q - r /\ (n + 2) \div 3 = q
  <2>1. PICK q \in Nat : q = (n + 2) \div 3
    OBVIOUS
  <2>2. 3 * q - n \in 0..2
    BY <2>1
  <2>3. PICK r \in 0..2 : r = 3 * q - n
    BY <2>2
  <2>4. QED
    BY <2>1, <2>3
<1>2. QED
  BY <1>1

\* What the two halves of a character's number are.
LEMMA GroupOf ==
  ASSUME NEW m \in Nat
  PROVE  \E g \in Nat, c \in 0..3 : m = 4 * g + c /\ m \div 4 = g /\ m % 4 = c
<1>1. PICK g \in Nat : g = m \div 4
  OBVIOUS
<1>2. PICK c \in 0..3 : c = m % 4
  OBVIOUS
<1>3. m = 4 * g + c
  BY <1>1, <1>2
<1>4. QED
  BY <1>1, <1>2, <1>3

\* The buffer without what is shifted out of it.
LEMMA Kept ==
  ASSUME NEW s \in Nat
  PROVE  \E t \in Nat, r \in Nat : r = s % 16777216 /\ r = s - 16777216 * t
<1>1. PICK t \in Nat : t = s \div 16777216
  BY SMT
<1>2. PICK r \in Nat : r = s % 16777216
  BY SMT
<1>3. r = s - 16777216 * t
  BY <1>1, <1>2, SMT
<1>4. QED
  BY <1>2, <1>3, SMT

\* The lower end of the buffer is the last character's.
LEMMA BufferEnd ==
  ASSUME NEW b \in Nat, NEW c \in Nat, c < 64, NEW s \in Nat, s = b * 64 + c
  PROVE  /\ s % 16777216 \in Nat
         /\ (s % 16777216) % 64 = c % 64
         /\ (s % 16777216) % 16 = c % 16
         /\ (s % 16777216) % 4 = c % 4
<1>1. PICK t \in Nat, r \in Nat : r = s % 16777216 /\ r = s - 16777216 * t
  BY Kept
<1>2. PICK d \in Int : d = b - 262144 * t
  BY SMT
<1>3. r = 64 * d + c
  BY <1>1, <1>2, SMT
<1>4. r % 64 = c % 64 /\ r % 16 = c % 16 /\ r % 4 = c % 4
  BY <1>3, SMT
<1>5. QED
  BY ONLY <1>1, <1>4, SMT

\* Every byte is one, those that the payload is filled up with included.
LEMMA BytesOf ==
  ASSUME payload \in Seq(Nat), \A i \in DOMAIN payload : payload[i] < 256, NEW k \in Nat \ {0}
  PROVE  Byte(k) \in Nat /\ Byte(k) < 256
<1>1. k <= Len(payload) => k \in 1..Len(payload)
  OBVIOUS
<1>2. \A i \in 1..Len(payload) : payload[i] \in Nat /\ payload[i] < 256
  OBVIOUS
<1>3. CASE k <= Len(payload)
  BY <1>1, <1>2, <1>3 DEF Byte
<1>4. CASE ~(k <= Len(payload))
  BY <1>4 DEF Byte
<1>5. QED
  BY <1>3, <1>4

\* What the four characters of a group are.
LEMMA SextetOf ==
  ASSUME NEW g \in Nat
  PROVE  /\ Sextet(4 * g) = Byte(3 * g + 1) \div 4
         /\ Sextet(4 * g + 1) = (Byte(3 * g + 1) % 4) * 16 + Byte(3 * g + 2) \div 16
         /\ Sextet(4 * g + 2) = (Byte(3 * g + 2) % 16) * 4 + Byte(3 * g + 3) \div 64
         /\ Sextet(4 * g + 3) = Byte(3 * g + 3) % 64
<1>1. \A c \in 0..3 : (4 * g + c) \div 4 = g /\ (4 * g + c) % 4 = c
  OBVIOUS
<1>2. (3 * g + 1) + 1 = 3 * g + 2 /\ (3 * g + 1) + 2 = 3 * g + 3 /\ 4 * g + 0 = 4 * g
  OBVIOUS
<1>3. (4 * g) \div 4 = g /\ (4 * g) % 4 = 0
  BY <1>1, <1>2
<1>4. Sextet(4 * g) = Byte(3 * g + 1) \div 4
  BY <1>3 DEF Sextet
<1>5. Sextet(4 * g + 1) = (Byte(3 * g + 1) % 4) * 16 + Byte(3 * g + 2) \div 16
  <2>1. (4 * g + 1) \div 4 = g /\ (4 * g + 1) % 4 = 1
    BY <1>1
  <2>2. QED
    BY <1>2, <2>1 DEF Sextet
<1>6. Sextet(4 * g + 2) = (Byte(3 * g + 2) % 16) * 4 + Byte(3 * g + 3) \div 64
  <2>1. (4 * g + 2) \div 4 = g /\ (4 * g + 2) % 4 = 2
    BY <1>1
  <2>2. QED
    BY <1>2, <2>1 DEF Sextet
<1>7. Sextet(4 * g + 3) = Byte(3 * g + 3) % 64
  <2>1. (4 * g + 3) \div 4 = g /\ (4 * g + 3) % 4 = 3
    BY <1>1
  <2>2. QED
    BY <1>2, <2>1 DEF Sextet
<1>8. QED
  BY <1>4, <1>5, <1>6, <1>7

\* A character has six bits.
LEMMA SextetType ==
  ASSUME payload \in Seq(Nat), \A i \in DOMAIN payload : payload[i] < 256, NEW m \in Nat
  PROVE  Sextet(m) \in Nat /\ Sextet(m) < 64
<1>1. PICK g \in Nat, c \in 0..3 : m = 4 * g + c
  BY GroupOf
<1>2. PICK x \in Nat, y \in Nat, z \in Nat :
        /\ x < 256 /\ y < 256 /\ z < 256
        /\ Byte(3 * g + 1) = x /\ Byte(3 * g + 2) = y /\ Byte(3 * g + 3) = z
  <2>1. 3 * g + 1 \in Nat \ {0} /\ 3 * g + 2 \in Nat \ {0} /\ 3 * g + 3 \in Nat \ {0}
    OBVIOUS
  <2>2. QED
    BY <2>1, BytesOf
<1>3. /\ x \div 4 \in Nat /\ x \div 4 < 64
      /\ (x % 4) * 16 + y \div 16 \in Nat /\ (x % 4) * 16 + y \div 16 < 64
      /\ (y % 16) * 4 + z \div 64 \in Nat /\ (y % 16) * 4 + z \div 64 < 64
      /\ z % 64 \in Nat /\ z % 64 < 64
  BY <1>2
<1>4. /\ Sextet(4 * g) \in Nat /\ Sextet(4 * g) < 64
      /\ Sextet(4 * g + 1) \in Nat /\ Sextet(4 * g + 1) < 64
      /\ Sextet(4 * g + 2) \in Nat /\ Sextet(4 * g + 2) < 64
      /\ Sextet(4 * g + 3) \in Nat /\ Sextet(4 * g + 3) < 64
  BY ONLY <1>2, <1>3, SextetOf, g \in Nat
<1>5. m = 4 * g \/ m = 4 * g + 1 \/ m = 4 * g + 2 \/ m = 4 * g + 3
  BY <1>1
<1>6. QED
  BY <1>4, <1>5

\* Three bytes as one number.
Triple(g) == Byte(3 * g + 1) * 65536 + Byte(3 * g + 2) * 256 + Byte(3 * g + 3)

\* The encoder takes a group of bytes apart into these.
LEMMA GroupCharacter ==
  ASSUME payload \in Seq(Nat), \A i \in DOMAIN payload : payload[i] < 256,
         NEW g \in Nat, NEW c \in 0..3
  PROVE  (Triple(g) \div (64 ^ (3 - c))) % 64 = Sextet(4 * g + c)
<1>1. PICK x \in Nat, y \in Nat, z \in Nat :
        /\ x < 256 /\ y < 256 /\ z < 256
        /\ Byte(3 * g + 1) = x /\ Byte(3 * g + 2) = y /\ Byte(3 * g + 3) = z
  <2>1. 3 * g + 1 \in Nat \ {0} /\ 3 * g + 2 \in Nat \ {0} /\ 3 * g + 3 \in Nat \ {0}
    OBVIOUS
  <2>2. QED
    BY <2>1, BytesOf
<1>5. PICK t \in Nat : t = x * 65536 + y * 256 + z
  OBVIOUS
<1>6. Triple(g) = t
  BY <1>1, <1>5 DEF Triple
<1>2. /\ (t \div 262144) % 64 = x \div 4
      /\ (t \div 4096) % 64 = (x % 4) * 16 + y \div 16
      /\ (t \div 64) % 64 = (y % 16) * 4 + z \div 64
      /\ t % 64 = z % 64
  BY ONLY <1>1, <1>5, TripleCharacters, x \in Nat, y \in Nat, z \in Nat, SMT
<1>3. /\ Sextet(4 * g) = x \div 4
      /\ Sextet(4 * g + 1) = (x % 4) * 16 + y \div 16
      /\ Sextet(4 * g + 2) = (y % 16) * 4 + z \div 64
      /\ Sextet(4 * g + 3) = z % 64
  BY ONLY <1>1, SextetOf, g \in Nat
<1>4. (t \div (64 ^ (3 - c))) % 64 = Sextet(4 * g + c)
  <2>1. CASE c = 0
    <3>1. 64 ^ (3 - c) = 262144
      <4>1. 3 - c = 3
        BY <2>1
      <4>2. 64 ^ 3 = 262144
        OBVIOUS
      <4>3. QED
        BY <2>1, <4>1, <4>2, SMT
    <3>2. 4 * g + c = 4 * g
      BY <2>1
    <3>3. (t \div 262144) % 64 = Sextet(4 * g)
      BY ONLY <1>2, <1>3, <1>5
    <3>4. QED
      BY <1>5, <3>1, <3>2, <3>3, SMT
  <2>2. CASE c = 1
    <3>1. 64 ^ (3 - c) = 4096
      <4>1. 3 - c = 2
        BY <2>2
      <4>2. 64 ^ 2 = 4096
        OBVIOUS
      <4>3. QED
        BY <2>2, <4>1, <4>2, SMT
    <3>2. 4 * g + c = 4 * g + 1
      BY <2>2
    <3>3. (t \div 4096) % 64 = Sextet(4 * g + 1)
      BY ONLY <1>2, <1>3, <1>5
    <3>4. QED
      BY <1>5, <3>1, <3>2, <3>3, SMT
  <2>3. CASE c = 2
    <3>1. 64 ^ (3 - c) = 64
      <4>1. 3 - c = 1
        BY <2>3
      <4>2. 64 ^ 1 = 64
        OBVIOUS
      <4>3. QED
        BY <2>3, <4>1, <4>2, SMT
    <3>2. 4 * g + c = 4 * g + 2
      BY <2>3
    <3>3. (t \div 64) % 64 = Sextet(4 * g + 2)
      BY ONLY <1>2, <1>3, <1>5
    <3>4. QED
      BY <1>5, <3>1, <3>2, <3>3, SMT
  <2>4. CASE c = 3
    <3>1. 64 ^ (3 - c) = 1
      <4>1. 3 - c = 0
        BY <2>4
      <4>2. 64 ^ 0 = 1
        OBVIOUS
      <4>3. QED
        BY <2>4, <4>1, <4>2, SMT
    <3>2. 4 * g + c = 4 * g + 3
      BY <2>4
    <3>3. (t \div 1) % 64 = Sextet(4 * g + 3)
      BY ONLY <1>2, <1>3, <1>5
    <3>4. QED
      BY <1>5, <3>1, <3>2, <3>3, SMT
  <2>5. QED
    BY <2>1, <2>2, <2>3, <2>4
<1>7. QED
  BY ONLY <1>4, <1>6, Zenon

\* What Base64Encode makes of a payload: its characters, then padding.
LEMMA Encoded ==
  ASSUME payload \in Seq(Nat), \A i \in DOMAIN payload : payload[i] < 256, NEW text, text = Base64Encode(payload)
  PROVE  /\ text \in Seq(Nat)
         /\ Characters(payload) \in Nat /\ Characters(payload) <= Len(text)
         /\ \A k \in 1..Len(text) :
              text[k] = IF k - 1 < Characters(payload) THEN Sextet(k - 1) ELSE Skip
<1>1. PICK n \in Nat : n = Len(payload)
  OBVIOUS
<1>2. PICK q \in Nat : q = (n + 2) \div 3
  OBVIOUS
<1>3. Characters(payload) = n + q /\ n + q <= 4 * q
  BY <1>1, <1>2, CharacterPlace DEF Characters
<1>4. text = [k \in 1..(4 * q) |->
        IF 3 * ((k - 1) \div 4) + ((k - 1) % 4) > n THEN Skip
        ELSE ((Byte(3 * ((k - 1) \div 4) + 1) * 65536 + Byte(3 * ((k - 1) \div 4) + 2) * 256
                 + Byte(3 * ((k - 1) \div 4) + 3)) \div (64 ^ (3 - ((k - 1) % 4)))) % 64]
  BY <1>1, <1>2 DEF Base64Encode, Byte
<1>5. ASSUME NEW k \in 1..(4 * q)
      PROVE  text[k] = IF k - 1 < n + q THEN Sextet(k - 1) ELSE Skip
  <2>1. PICK g \in Nat, c \in 0..3 :
          k - 1 = 4 * g + c /\ (k - 1) \div 4 = g /\ (k - 1) % 4 = c
    BY k - 1 \in Nat, GroupOf
  <2>2. PICK t : t = Triple(g)
    OBVIOUS
  <2>3. text[k] = IF 3 * g + c > n THEN Skip ELSE (t \div (64 ^ (3 - c))) % 64
    <3>1. text[k] = IF 3 * ((k - 1) \div 4) + ((k - 1) % 4) > n THEN Skip
        ELSE ((Byte(3 * ((k - 1) \div 4) + 1) * 65536 + Byte(3 * ((k - 1) \div 4) + 2) * 256
                 + Byte(3 * ((k - 1) \div 4) + 3)) \div (64 ^ (3 - ((k - 1) % 4)))) % 64
      BY ONLY <1>4, k \in 1..(4 * q), SMT
    <3>2. QED
      BY ONLY <2>1, <2>2, <3>1, SMT DEF Triple
  <2>4. 3 * g + c > n <=> ~(k - 1 < n + q)
    <3>1. 4 * g + c < 4 * q
      BY <2>1
    <3>2. 3 * g + c <= n <=> 4 * g + c < n + q
      BY <1>2, <3>1, CharacterPlace
    <3>3. QED
      BY <2>1, <3>2
  <2>5. (t \div (64 ^ (3 - c))) % 64 = Sextet(k - 1)
    <3>1. (t \div (64 ^ (3 - c))) % 64 = Sextet(4 * g + c)
      BY <2>2, GroupCharacter
    <3>2. QED
      BY ONLY <2>1, <3>1
  <2>6. QED
    BY <2>3, <2>4, <2>5
<1>6. \A k \in 1..(4 * q) : text[k] \in Nat
  <2>1. \A k \in 1..(4 * q) : Sextet(k - 1) \in Nat
    BY SextetType
  <2>2. QED
    BY <1>5, <2>1 DEF Skip
<1>7. text \in Seq(Nat) /\ Len(text) = 4 * q
  <2>1. text \in [1..(4 * q) -> Nat]
    BY <1>4, <1>6
  <2>2. QED
    BY <2>1, SMTT(30)
<1>8. QED
  BY <1>3, <1>5, <1>7

\* What InsertAt makes of a sequence.
LEMMA Inserted ==
  ASSUME NEW s \in Seq(Nat), NEW i \in 1..(Len(s) + 1), NEW c \in Nat, NEW t, t = InsertAt(s, i, c)
  PROVE  /\ t \in Seq(Nat) /\ Len(t) = Len(s) + 1
         /\ t[i] = c
         /\ \A k \in 1..(i - 1) : t[k] = s[k]
         /\ \A k \in (i + 1)..Len(t) : t[k] = s[k - 1]
<1>1. PICK n \in Nat : n = Len(s)
  OBVIOUS
<1>2. PICK a : a = SubSeq(s, 1, i - 1)
  OBVIOUS
<1>3. PICK z : z = SubSeq(s, i, n)
  OBVIOUS
<1>4. /\ a \in Seq(Nat) /\ Len(a) = i - 1
      /\ \A k \in 1..(i - 1) : a[k] = s[k]
  BY <1>1, <1>2
<1>5. /\ z \in Seq(Nat) /\ Len(z) = n - i + 1
      /\ \A k \in 1..(n - i + 1) : z[k] = s[i + k - 1]
  <2>1. PICK p \in Nat : p = n - i + 1
    <3>1. i \in Nat /\ i <= n + 1
      BY <1>1
    <3>2. QED
      BY ONLY <3>1, n \in Nat
  <2>2. z \in Seq(Nat)
    BY <1>1, <1>3
  <2>3. Len(z) = p
    BY <1>1, <1>3, <2>1
  <2>4. \A k \in 1..p : z[k] = s[i + k - 1]
    BY <1>1, <1>3, <2>1, SMTT(30)
  <2>5. QED
    BY <2>1, <2>2, <2>3, <2>4
<1>6. PICK b : b = Append(a, c)
  OBVIOUS
<1>7. /\ b \in Seq(Nat) /\ Len(b) = i /\ b[i] = c
      /\ \A k \in 1..(i - 1) : b[k] = s[k]
  BY <1>4, <1>6
<1>8. t = b \o z
  <2>1. a \o <<c>> = b
    BY <1>4, <1>6
  <2>2. QED
    BY <1>1, <1>2, <1>3, <2>1 DEF InsertAt
<1>9. /\ t \in Seq(Nat) /\ Len(t) = n + 1
      /\ \A k \in 1..i : t[k] = b[k]
      /\ \A k \in (i + 1)..(n + 1) : t[k] = z[k - i]
  <2>1. t \in Seq(Nat)
    BY <1>5, <1>7, <1>8
  <2>2. PICK p \in Nat : p = Len(z) /\ i + p = n + 1
    BY <1>1, <1>5
  <2>3. Len(t) = i + p
    BY ONLY <1>5, <1>7, <1>8, <2>2, i \in Nat, ConcatProperties
  <2>4. \A k \in 1..i : t[k] = b[k]
    BY ONLY <1>5, <1>7, <1>8, <2>2, i \in Nat, ConcatProperties
  <2>5. ASSUME NEW k \in (i + 1)..(i + p)
        PROVE  t[k] = z[k - i]
    <3>1. \A j \in 1..(Len(b) + Len(z)) : t[j] = IF j <= Len(b) THEN b[j] ELSE z[j - Len(b)]
      BY ONLY <1>5, <1>7, <1>8, ConcatProperties
    <3>2. k \in 1..(Len(b) + Len(z)) /\ ~(k <= Len(b)) /\ Len(b) = i
      BY <1>7, <2>2
    <3>3. QED
      BY ONLY <3>1, <3>2
  <2>6. QED
    BY <2>1, <2>2, <2>3, <2>4, <2>5
<1>10. \A k \in (i + 1)..(n + 1) : t[k] = s[k - 1]
  <2>1. TAKE k \in (i + 1)..(n + 1)
  <2>2. k - i \in 1..(n - i + 1) /\ i + (k - i) - 1 = k - 1
    BY <1>1
  <2>3. QED
    BY <1>5, <1>9, <2>2
<1>11. QED
  BY <1>1, <1>7, <1>9, <1>10

\* Every variant of a text is the text with at most one character too many.
LEMMA VariantsOf ==
  ASSUME payload \in Seq(Nat), \A k \in DOMAIN payload : payload[k] < 256,
         NEW text \in Variants(payload)
  PROVE  text \in Seq(Nat) /\ \E i \in 1..(Len(text) + 1) : Foreign(text, i)
<1>1. PICK whole : whole = Base64Encode(payload)
  OBVIOUS
<1>2. PICK m : m = Characters(payload)
  OBVIOUS
<1>3. /\ whole \in Seq(Nat) /\ m \in Nat /\ m <= Len(whole)
      /\ \A k \in 1..Len(whole) : whole[k] = IF k - 1 < m THEN Sextet(k - 1) ELSE Skip
  BY <1>1, <1>2, Encoded
<1>4. CASE text = whole
  <2>1. PICK n \in Nat : n = Len(text) /\ n = Len(whole)
    BY <1>3, <1>4
  <2>2. \A k \in 1..n : Before(k, n + 1) = k - 1
    BY DEF Before
  <2>3. Before(n + 1, n + 1) = n
    BY DEF Before
  <2>4. Foreign(text, n + 1)
    BY <1>2, <1>3, <1>4, <2>1, <2>2, <2>3 DEF Foreign
  <2>5. QED
    BY <1>3, <1>4, <2>1, <2>4
<1>5. CASE text = SubSeq(whole, 1, m)
  <2>1. /\ text \in Seq(Nat) /\ Len(text) = m
        /\ \A k \in 1..m : text[k] = whole[k]
    BY <1>3, <1>5
  <2>2. \A k \in 1..m : Before(k, m + 1) = k - 1 /\ k - 1 < m
    BY <1>3 DEF Before
  <2>3. Before(m + 1, m + 1) = m
    BY <1>3 DEF Before
  <2>4. Foreign(text, m + 1)
    <3>1. \A k \in 1..m : text[k] = Sextet(k - 1)
      <4>1. \A k \in 1..m : k \in 1..Len(whole)
        BY <1>3
      <4>2. QED
        BY ONLY <1>3, <2>1, <2>2, <4>1
    <3>2. QED
      BY <1>2, <1>3, <2>1, <2>2, <2>3, <3>1 DEF Foreign
  <2>5. m + 1 \in 1..(m + 1)
    BY <1>3
  <2>6. QED
    BY <2>1, <2>4, <2>5
<1>6. ASSUME NEW i \in 1..(Len(whole) + 1), NEW c \in {Skip, Refused}, text = InsertAt(whole, i, c)
      PROVE  text \in Seq(Nat) /\ \E j \in 1..(Len(text) + 1) : Foreign(text, j)
  <2>1. PICK n \in Nat : n = Len(whole)
    BY <1>3
  <2>2. c \in Nat
    BY DEF Skip, Refused
  <2>3. /\ text \in Seq(Nat) /\ Len(text) = n + 1
        /\ text[i] = c
        /\ \A k \in 1..(i - 1) : text[k] = whole[k]
        /\ \A k \in (i + 1)..(n + 1) : text[k] = whole[k - 1]
    BY ONLY <1>3, <1>6, <2>1, <2>2, Inserted, i \in 1..(Len(whole) + 1), SMTT(30)
  <2>4. /\ \A k \in 1..(i - 1) : Before(k, i) = k - 1
        /\ \A k \in (i + 1)..(n + 1) : Before(k, i) = (k - 1) - 1
    BY DEF Before
  <2>5. Before(n + 2, i) = n
    BY <2>1 DEF Before
  <2>6. ASSUME NEW k \in 1..(n + 1), k # i
        PROVE  text[k] = IF Before(k, i) < m THEN Sextet(Before(k, i)) ELSE Skip
    <3>1. CASE k < i
      <4>1. k \in 1..(i - 1) /\ k \in 1..Len(whole)
        BY <2>1, <3>1
      <4>2. QED
        BY <1>3, <2>3, <2>4, <4>1
    <3>2. CASE ~(k < i)
      <4>1. k \in (i + 1)..(n + 1) /\ k - 1 \in 1..Len(whole)
        BY <2>1, <2>6, <3>2
      <4>2. QED
        BY <1>3, <2>3, <2>4, <4>1
    <3>3. QED
      BY <3>1, <3>2
  <2>7. (n + 1) + 1 = n + 2 /\ i \in 1..(n + 2)
    BY <2>1
  <2>8. Foreign(text, i)
    BY <1>2, <1>3, <2>1, <2>3, <2>5, <2>6, <2>7 DEF Foreign
  <2>9. QED
    BY <2>3, <2>7, <2>8
<1>7. QED
  BY <1>1, <1>2, <1>4, <1>5, <1>6 DEF Variants

\* A beginning of the payload and the byte after it are a longer beginning.
LEMMA LongerBeginning ==
  ASSUME payload \in Seq(Nat), NEW k \in Nat, k < Len(payload)
  PROVE  Append(SubSeq(payload, 1, k), payload[k + 1]) = SubSeq(payload, 1, k + 1)
<1>1. PICK a : a = SubSeq(payload, 1, k)
  OBVIOUS
<1>2. PICK z : z = SubSeq(payload, 1, k + 1)
  OBVIOUS
<1>3. /\ a \in Seq(Nat) /\ Len(a) = k
      /\ \A i \in 1..k : a[i] = payload[i]
  BY <1>1
<1>4. /\ z \in Seq(Nat) /\ Len(z) = k + 1
      /\ \A i \in 1..(k + 1) : z[i] = payload[i]
  BY <1>2
<1>5. PICK x \in Nat : x = payload[k + 1]
  OBVIOUS
<1>6. PICK b : b = Append(a, x)
  OBVIOUS
<1>7. /\ b \in Seq(Nat) /\ Len(b) = k + 1 /\ b[k + 1] = x
      /\ \A i \in 1..k : b[i] = a[i]
  BY <1>3, <1>6
<1>8. ASSUME NEW i \in 1..(k + 1)
      PROVE  b[i] = z[i]
  <2>1. CASE i = k + 1
    BY ONLY <1>4, <1>5, <1>7, <2>1, i \in 1..(k + 1)
  <2>2. CASE i # k + 1
    <3>1. i \in 1..k
      BY <2>2
    <3>2. QED
      BY ONLY <1>3, <1>4, <1>7, <3>1, i \in 1..(k + 1)
  <2>3. QED
    BY <2>1, <2>2
<1>9. b = z
  BY <1>4, <1>7, <1>8, SeqEqual
<1>10. QED
  BY <1>1, <1>2, <1>5, <1>6, <1>9

\* The byte at k is one of the payload's.
LEMMA ByteIn ==
  ASSUME NEW k \in Nat, k <= Len(payload)
  PROVE  Byte(k) = payload[k]
BY DEF Byte

\* The bytes of a group and what becomes of them.
LEMMA GroupBytes ==
  ASSUME payload \in Seq(Nat), \A i \in DOMAIN payload : payload[i] < 256, NEW g \in Nat
  PROVE  \E x \in Nat, y \in Nat, z \in Nat :
           /\ x < 256 /\ y < 256 /\ z < 256
           /\ Byte(3 * g + 1) = x /\ Byte(3 * g + 2) = y /\ Byte(3 * g + 3) = z
           /\ Sextet(4 * g) = x \div 4
           /\ Sextet(4 * g + 1) = (x % 4) * 16 + y \div 16
           /\ Sextet(4 * g + 2) = (y % 16) * 4 + z \div 64
           /\ Sextet(4 * g + 3) = z % 64
<1>1. 3 * g + 1 \in Nat \ {0} /\ 3 * g + 2 \in Nat \ {0} /\ 3 * g + 3 \in Nat \ {0}
  OBVIOUS
<1>2. PICK x \in Nat, y \in Nat, z \in Nat :
        /\ x < 256 /\ y < 256 /\ z < 256
        /\ Byte(3 * g + 1) = x /\ Byte(3 * g + 2) = y /\ Byte(3 * g + 3) = z
  BY <1>1, BytesOf
<1>3. /\ Sextet(4 * g) = x \div 4
      /\ Sextet(4 * g + 1) = (x % 4) * 16 + y \div 16
      /\ Sextet(4 * g + 2) = (y % 16) * 4 + z \div 64
      /\ Sextet(4 * g + 3) = z % 64
  BY ONLY <1>2, SextetOf, g \in Nat
<1>4. QED
  BY ONLY <1>2, <1>3, ZenonT(30)

\* The second of four characters completes a byte ...
LEMMA SecondCharacter ==
  ASSUME payload \in Seq(Nat), \A i \in DOMAIN payload : payload[i] < 256,
         buffer \in Nat, NEW g \in Nat, buffer % 64 = Sextet(4 * g) % 64
  PROVE  (Shifted(Sextet(4 * g + 1)) \div 16) % 256 = Byte(3 * g + 1)
<1>1. PICK x \in Nat, y \in Nat, z \in Nat :
        /\ x < 256 /\ y < 256 /\ z < 256
        /\ Byte(3 * g + 1) = x /\ Byte(3 * g + 2) = y /\ Byte(3 * g + 3) = z
        /\ Sextet(4 * g) = x \div 4
        /\ Sextet(4 * g + 1) = (x % 4) * 16 + y \div 16
        /\ Sextet(4 * g + 2) = (y % 16) * 4 + z \div 64
        /\ Sextet(4 * g + 3) = z % 64
  BY GroupBytes
<1>2. PICK c : c = Sextet(4 * g + 1)
  OBVIOUS
<1>3. PICK u \in Nat : u = x \div 4 /\ u < 64
  BY <1>1
<1>4. PICK v \in 0..3 : v = x % 4
  BY <1>1
<1>5. x = 4 * u + v
  BY <1>3, <1>4
<1>6. PICK w \in 0..15 : w = y \div 16
  BY <1>1, SMTT(30)
<1>7. u % 64 = u
  BY <1>3
<1>8. PICK h \in Nat : h = buffer \div 64
  BY <1>1
<1>9. buffer = 64 * h + u
  <2>1. buffer % 64 = u
    BY <1>1, <1>3, <1>7
  <2>2. QED
    BY ONLY <1>8, <2>1, buffer \in Nat
<1>10. PICK s \in Nat : /\ s = buffer * 64 + c
                        /\ s = buffer * 64 + (v * 16 + w)
  BY <1>1, <1>2, <1>4, <1>6, SMTT(30)
<1>11. s = 4096 * h + 16 * x + w
  BY ONLY <1>5, <1>9, <1>10, u \in Nat, v \in Nat, w \in Nat, h \in Nat
<1>12. PICK t \in Nat, r \in Nat : r = s % 16777216 /\ r = s - 16777216 * t
  BY ONLY Kept, s \in Nat, SMT
<1>13. PICK d \in Int : d = h - 4096 * t
  BY SMT
<1>14. r = 16 * (256 * d + x) + w
  BY ONLY <1>11, <1>12, <1>13, h \in Nat, x \in Nat, w \in Nat, t \in Nat, SMT
<1>15. r \div 16 = 256 * d + x
  BY ONLY <1>6, <1>14, d \in Int, x \in Nat, SMT
<1>16. (256 * d + x) % 256 = x
  BY ONLY <1>1, d \in Int, x \in Nat, SMT
<1>17. (r \div 16) % 256 = x
  BY ONLY <1>15, <1>16
<1>18. QED
  BY ONLY <1>1, <1>2, <1>10, <1>12, <1>17, SMT DEF Shifted

\* ... the third one with fewer bits of its predecessor ...
LEMMA ThirdCharacter ==
  ASSUME payload \in Seq(Nat), \A i \in DOMAIN payload : payload[i] < 256,
         buffer \in Nat, NEW g \in Nat, buffer % 16 = Sextet(4 * g + 1) % 16
  PROVE  (Shifted(Sextet(4 * g + 2)) \div 4) % 256 = Byte(3 * g + 2)
<1>1. PICK x \in Nat, y \in Nat, z \in Nat :
        /\ x < 256 /\ y < 256 /\ z < 256
        /\ Byte(3 * g + 1) = x /\ Byte(3 * g + 2) = y /\ Byte(3 * g + 3) = z
        /\ Sextet(4 * g) = x \div 4
        /\ Sextet(4 * g + 1) = (x % 4) * 16 + y \div 16
        /\ Sextet(4 * g + 2) = (y % 16) * 4 + z \div 64
        /\ Sextet(4 * g + 3) = z % 64
  BY GroupBytes
<1>2. PICK c : c = Sextet(4 * g + 2)
  OBVIOUS
<1>3. PICK u \in Nat : u = y \div 16 /\ u < 16
  BY <1>1
<1>4. PICK v \in 0..15 : v = y % 16
  BY <1>1
<1>5. y = 16 * u + v
  BY <1>3, <1>4
<1>6. PICK w \in 0..3 : w = z \div 64
  BY <1>1, SMTT(30)
<1>7. buffer % 16 = u
  <2>1. PICK e \in Nat : e = x % 4
    BY <1>1
  <2>2. (e * 16 + u) % 16 = u
    BY <1>3
  <2>3. QED
    BY <1>1, <1>3, <2>1, <2>2
<1>8. PICK h \in Nat : h = buffer \div 16
  BY <1>1
<1>9. buffer = 16 * h + u
  BY ONLY <1>7, <1>8, buffer \in Nat
<1>10. PICK s \in Nat : /\ s = buffer * 64 + c
                        /\ s = buffer * 64 + (v * 4 + w)
  BY <1>1, <1>2, <1>4, <1>6, SMTT(30)
<1>11. s = 1024 * h + 4 * y + w
  BY ONLY <1>5, <1>9, <1>10, u \in Nat, v \in Nat, w \in Nat, h \in Nat
<1>12. PICK t \in Nat, r \in Nat : r = s % 16777216 /\ r = s - 16777216 * t
  BY ONLY Kept, s \in Nat, SMT
<1>13. PICK d \in Int : d = h - 16384 * t
  BY SMT
<1>14. r = 4 * (256 * d + y) + w
  BY ONLY <1>11, <1>12, <1>13, h \in Nat, y \in Nat, w \in Nat, t \in Nat, SMT
<1>15. r \div 4 = 256 * d + y
  BY ONLY <1>6, <1>14, d \in Int, y \in Nat, SMT
<1>16. (256 * d + y) % 256 = y
  BY ONLY <1>1, d \in Int, y \in Nat, SMT
<1>17. (r \div 4) % 256 = y
  BY ONLY <1>15, <1>16
<1>18. QED
  BY ONLY <1>1, <1>2, <1>10, <1>12, <1>17, SMT DEF Shifted

\* ... and the fourth leaves none over.
LEMMA FourthCharacter ==
  ASSUME payload \in Seq(Nat), \A i \in DOMAIN payload : payload[i] < 256,
         buffer \in Nat, NEW g \in Nat, buffer % 4 = Sextet(4 * g + 2) % 4
  PROVE  Shifted(Sextet(4 * g + 3)) % 256 = Byte(3 * g + 3)
<1>1. PICK x \in Nat, y \in Nat, z \in Nat :
        /\ x < 256 /\ y < 256 /\ z < 256
        /\ Byte(3 * g + 1) = x /\ Byte(3 * g + 2) = y /\ Byte(3 * g + 3) = z
        /\ Sextet(4 * g) = x \div 4
        /\ Sextet(4 * g + 1) = (x % 4) * 16 + y \div 16
        /\ Sextet(4 * g + 2) = (y % 16) * 4 + z \div 64
        /\ Sextet(4 * g + 3) = z % 64
  BY GroupBytes
<1>2. PICK c : c = Sextet(4 * g + 3)
  OBVIOUS
<1>3. PICK u \in Nat : u = z \div 64 /\ u < 4
  BY <1>1
<1>4. PICK v \in Nat : v = z % 64
  BY <1>1
<1>5. z = 64 * u + v
  BY <1>3, <1>4
<1>7. buffer % 4 = u
  <2>1. PICK e \in Nat : e = y % 16
    BY <1>1
  <2>2. (e * 4 + u) % 4 = u
    BY <1>3, SMTT(30)
  <2>3. QED
    BY <1>1, <1>3, <2>1, <2>2
<1>8. PICK h \in Nat : h = buffer \div 4
  BY <1>1
<1>9. buffer = 4 * h + u
  BY ONLY <1>7, <1>8, buffer \in Nat
<1>10. PICK s \in Nat : s = buffer * 64 + c /\ s = buffer * 64 + v
  BY <1>1, <1>2, <1>4
<1>11. s = 256 * h + z
  BY ONLY <1>5, <1>9, <1>10, u \in Nat, v \in Nat, h \in Nat
<1>12. PICK t \in Nat, r \in Nat : r = s % 16777216 /\ r = s - 16777216 * t
  BY ONLY Kept, s \in Nat, SMT
<1>13. PICK d \in Int : d = h - 65536 * t
  BY SMT
<1>14. r = 256 * d + z
  BY ONLY <1>11, <1>12, <1>13, h \in Nat, z \in Nat, t \in Nat, SMT
<1>16. (256 * d + z) % 256 = z
  BY ONLY <1>1, d \in Int, z \in Nat, SMT
<1>17. r % 256 = z
  BY ONLY <1>14, <1>16
<1>18. QED
  BY ONLY <1>1, <1>2, <1>10, <1>12, <1>17, SMT DEF Shifted

\* The powers of two that normalizing meets.
LEMMA Powers ==
  /\ 2 ^ 0 = 1 /\ 2 ^ 10 = 1024 /\ 2 ^ 13 = 8192
  /\ \A k \in Nat : k <= 9 => 2 ^ (k + 1) = 2 * 2 ^ k
  /\ \A k \in Nat : k <= 10 => 2 ^ k \in Nat /\ 2 ^ k > 0 /\ 2 ^ (13 + k) = 8192 * 2 ^ k
<1>1. /\ 2 ^ 0 = 1 /\ 2 ^ 1 = 2 /\ 2 ^ 2 = 4 /\ 2 ^ 3 = 8 /\ 2 ^ 4 = 16 /\ 2 ^ 5 = 32
      /\ 2 ^ 6 = 64 /\ 2 ^ 7 = 128 /\ 2 ^ 8 = 256 /\ 2 ^ 9 = 512 /\ 2 ^ 10 = 1024
  OBVIOUS
<1>2. /\ 2 ^ 13 = 8192 /\ 2 ^ 14 = 16384 /\ 2 ^ 15 = 32768 /\ 2 ^ 16 = 65536
      /\ 2 ^ 17 = 131072 /\ 2 ^ 18 = 262144 /\ 2 ^ 19 = 524288 /\ 2 ^ 20 = 1048576
      /\ 2 ^ 21 = 2097152 /\ 2 ^ 22 = 4194304 /\ 2 ^ 23 = 8388608
  BY SMT
<1>3. ASSUME NEW k \in Nat, k <= 9 PROVE 2 ^ (k + 1) = 2 * 2 ^ k
  <2>1. CASE k = 0
    BY <1>1, <2>1, k + 1 = 1
  <2>2. CASE k = 1
    BY <1>1, <2>2, k + 1 = 2
  <2>3. CASE k = 2
    BY <1>1, <2>3, k + 1 = 3
  <2>4. CASE k = 3
    BY <1>1, <2>4, k + 1 = 4
  <2>5. CASE k = 4
    BY <1>1, <2>5, k + 1 = 5
  <2>6. CASE k = 5
    BY <1>1, <2>6, k + 1 = 6
  <2>7. CASE k = 6
    BY <1>1, <2>7, k + 1 = 7
  <2>8. CASE k = 7
    BY <1>1, <2>8, k + 1 = 8
  <2>9. CASE k = 8
    BY <1>1, <2>9, k + 1 = 9
  <2>10. CASE k = 9
    BY <1>1, <2>10, k + 1 = 10
  <2>11. k = 0 \/ k = 1 \/ k = 2 \/ k = 3 \/ k = 4 \/ k = 5 \/ k = 6 \/ k = 7 \/ k = 8 \/ k = 9
    BY <1>3
  <2>12. QED
    BY <2>11, <2>1, <2>2, <2>3, <2>4, <2>5, <2>6, <2>7, <2>8, <2>9, <2>10
<1>4. ASSUME NEW k \in Nat, k <= 10 PROVE 2 ^ k \in Nat /\ 2 ^ k > 0 /\ 2 ^ (13 + k) = 8192 * 2 ^ k
  <2>1. CASE k = 0
    BY <1>1, <1>2, <2>1, 13 + k = 13, SMT
  <2>2. CASE k = 1
    BY <1>1, <1>2, <2>2, 13 + k = 14, SMT
  <2>3. CASE k = 2
    BY <1>1, <1>2, <2>3, 13 + k = 15, SMT
  <2>4. CASE k = 3
    BY <1>1, <1>2, <2>4, 13 + k = 16, SMT
  <2>5. CASE k = 4
    BY <1>1, <1>2, <2>5, 13 + k = 17, SMT
  <2>6. CASE k = 5
    BY <1>1, <1>2, <2>6, 13 + k = 18, SMT
  <2>7. CASE k = 6
    BY <1>1, <1>2, <2>7, 13 + k = 19, SMT
  <2>8. CASE k = 7
    BY <1>1, <1>2, <2>8, 13 + k = 20, SMT
  <2>9. CASE k = 8
    BY <1>1, <1>2, <2>9, 13 + k = 21, SMT
  <2>10. CASE k = 9
    BY <1>1, <1>2, <2>10, 13 + k = 22, SMT
  <2>11. CASE k = 10
    BY <1>1, <1>2, <2>11, 13 + k = 23, SMT
  <2>12. \/ k = 0 \/ k = 1 \/ k = 2 \/ k = 3 \/ k = 4 \/ k = 5
         \/ k = 6 \/ k = 7 \/ k = 8 \/ k = 9 \/ k = 10
    BY <1>4
  <2>13. QED
    BY <2>1, <2>2, <2>3, <2>4, <2>5, <2>6, <2>7, <2>8, <2>9, <2>10, <2>11, <2>12, SMT
<1>5. QED
  BY <1>1, <1>2, <1>3, <1>4, SMT
=============================================================================
