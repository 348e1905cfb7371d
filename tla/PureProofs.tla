---------------------------- MODULE PureProofs ----------------------------
(***************************************************************************)
(* What the pure functions return, for all inputs: proof of work, the keys *)
(* of blocks, the charts, the encodings and Merkle roots.                  *)
(***************************************************************************)
EXTENDS Pure, SumProofs, SequenceTheorems

\* A behaviour of Pure has picked nothing or one of the cases.
Picked == case = [kind |-> "none"] \/ case \in Cases

\* Every state of a behaviour has one.
LEMMA AlwaysPicked == Spec => []Picked
<1>1. Init => Picked
  BY DEF Init, Picked
<1>2. Picked /\ [Next]_case => Picked'
  BY DEF Picked, Next, Pick, Cases
<1> QED BY <1>1, <1>2, PTL DEF Spec

\* A case has the inputs of its kind.
LEMMA CaseOf ==
  ASSUME Picked
  PROVE  /\ case.kind = "leaves" => case.s \in Leaves
         /\ case.kind = "digest" => case.h \in [1..HashSize -> 0..MaxByte]
         /\ case.kind = "key" => case.n \in 0..MaxHeight
         /\ case.kind = "tx" => case.t \in Txs /\ case.sig \in Sigs
         /\ case.kind = "block" => case.b \in Blocks
         /\ case.kind = "message" => case.m \in Messages
         /\ case.kind = "chart" =>
              /\ case.c \in Chains /\ case.now \in Clock
              /\ case.later \in Clock /\ case.now <= case.later
BY DEF Picked, Cases

-----------------------------------------------------------------------------
(* Proof of work *)

\* A hash that is not above the target begins with difficulty zeros, and one
\* that does is not above it.
LEMMA NotAboveTarget ==
  ASSUME NEW h \in [1..HashSize -> 0..MaxByte]
  PROVE  ~HashTooHigh(h) <=> LeadingZeros(h)
<1> DEFINE t == build_target
<1>0. HashSize \in Nat /\ MaxByte \in Nat /\ difficulty \in Nat /\ difficulty <= HashSize
  BY HashingAssumption
<1>1. \A i \in 1..HashSize : /\ h[i] \in Nat /\ h[i] <= MaxByte
                             /\ i <= difficulty => t[i] = 0
                             /\ i > difficulty => t[i] = MaxByte
  BY <1>0 DEF build_target
<1> HIDE DEF t
<1>2. ASSUME LeadingZeros(h) PROVE ~Greater(h, t)
  <2> SUFFICES ASSUME NEW i \in 1..HashSize PROVE ~(h[i] > t[i])
    BY DEF Greater
  <2>1. CASE i <= difficulty
    <3>1. i \in 1..difficulty
      BY <1>0, <2>1
    <3>2. h[i] = 0 /\ t[i] = 0
      BY <1>1, <1>2, <2>1, <3>1 DEF LeadingZeros
    <3> QED BY <3>2
  <2>2. CASE i > difficulty
    BY <1>0, <1>1, <2>2
  <2> QED BY <1>0, <2>1, <2>2
<1>3. ASSUME ~Greater(h, t) PROVE LeadingZeros(h)
  <2> DEFINE Zeros(n) == n <= difficulty => \A j \in 1..n : h[j] = 0
             N == {n \in Nat : Zeros(n)}
  <2>1. 0 \in N
    BY <1>0
  <2>2. ASSUME NEW n \in Nat, n \in N PROVE n + 1 \in N
    <3> SUFFICES ASSUME n + 1 <= difficulty, NEW j \in 1..(n + 1) PROVE h[j] = 0
      OBVIOUS
    <3>1. \A k \in 1..n : h[k] = 0 /\ t[k] = 0
      <4> SUFFICES ASSUME NEW k \in 1..n PROVE h[k] = 0 /\ t[k] = 0
        OBVIOUS
      <4>1. k \in 1..HashSize /\ k <= difficulty /\ n <= difficulty
        BY <1>0
      <4> QED BY <1>1, <2>2, <4>1
    <3>2. n + 1 \in 1..HashSize /\ ~(h[n + 1] > t[n + 1])
      <4>1. n + 1 \in 1..HashSize /\ (n + 1) - 1 = n
        BY <1>0
      <4> QED BY <1>3, <3>1, <4>1 DEF Greater
    <3>3. h[n + 1] = 0
      <4>1. h[n + 1] \in Nat /\ t[n + 1] = 0
        BY <1>1, <3>2
      <4> QED BY <3>2, <4>1
    <3> QED BY <3>1, <3>3
  <2> HIDE DEF N
  <2>3. \A n \in Nat : n \in N
    BY <2>1, <2>2, Induction
  <2> QED BY <1>0, <2>3 DEF N, LeadingZeros
<1> QED BY <1>2, <1>3 DEF HashTooHigh, t

\* Chain::verify_block_header compares a hash with the target byte by byte;
\* for every difficulty that is the documented rule of leading zeros.
THEOREM WorkRule == Spec => []WorkIsLeadingZeros
<1>1. Picked => WorkIsLeadingZeros
  BY CaseOf, NotAboveTarget DEF WorkIsLeadingZeros
<1> QED BY <1>1, AlwaysPicked, PTL

-----------------------------------------------------------------------------
(* Recursive functions *)

\* The values of a loop: z first, then one step after the other.
Looped(z, F, k, g) == [i \in 0..k |-> IF i = 0 THEN z ELSE F[i][g[i - 1]]]

\* A loop computes its values.
LEMMA LoopRuns ==
  ASSUME NEW z, NEW F, NEW k \in Nat PROVE \E g : g = Looped(z, F, k, g)
<1> DEFINE One(g, n) == IF n = 0 THEN z ELSE F[n][g[n - 1]]
           Upto(j) == \E g : \A n \in 0..j : g[n] = One(g, n)
           N == {j \in Nat : Upto(j)}
<1>1. 0 \in N
  <2> DEFINE g == [n \in {0} |-> z]
  <2>1. \A n \in 0..0 : g[n] = One(g, n)
    OBVIOUS
  <2> HIDE DEF g
  <2> QED BY <2>1
<1>2. \A j \in Nat : j \in N => j + 1 \in N
  <2> SUFFICES ASSUME NEW j \in Nat, Upto(j) PROVE Upto(j + 1)
    <3> HIDE DEF Upto
    <3> QED OBVIOUS
  <2>0. PICK g : \A n \in 0..j : g[n] = One(g, n)
    <3> HIDE DEF One
    <3> QED OBVIOUS
  <2> DEFINE f == [n \in 0..(j + 1) |-> IF n = j + 1 THEN F[j + 1][g[j]] ELSE g[n]]
  <2>1. f[j + 1] = F[j + 1][g[j]] /\ \A n \in 0..j : f[n] = g[n]
    OBVIOUS
  <2> HIDE DEF f
  <2>2. ASSUME NEW n \in 0..(j + 1) PROVE f[n] = One(f, n)
    <3>1. CASE n = j + 1
      <4>1. n # 0 /\ n - 1 = j /\ j \in 0..j
        BY <3>1
      <4> QED BY <2>1, <3>1, <4>1
    <3>2. CASE n = 0
      <4>1. 0 \in 0..j
        OBVIOUS
      <4> QED BY <2>0, <2>1, <3>2, <4>1
    <3>3. CASE n # j + 1 /\ n # 0
      <4>1. n \in 0..j /\ n - 1 \in 0..j
        BY <3>3
      <4>2. f[n] = g[n] /\ f[n - 1] = g[n - 1] /\ g[n] = F[n][g[n - 1]]
        BY <2>0, <2>1, <3>3, <4>1
      <4> QED BY <3>3, <4>2
    <3> QED BY <3>1, <3>2, <3>3
  <2> QED BY <2>2
<1>3. \A j \in Nat : j \in N
  <2> HIDE DEF N
  <2> QED BY <1>1, <1>2, Induction
<1>4. PICK g : \A n \in 0..k : g[n] = One(g, n)
  <2>1. Upto(k)
    BY <1>3
  <2> HIDE DEF One
  <2> QED BY <2>1
<1> DEFINE h == [n \in 0..k |-> g[n]]
<1>5. \A n \in 0..k : One(h, n) = One(g, n)
  OBVIOUS
<1>6. h = [n \in 0..k |-> One(h, n)]
  <2> HIDE DEF One
  <2> QED BY <1>4, <1>5
<1> QED BY <1>6 DEF Looped

\* Its values have the type its steps have.
LEMMA LoopTyped ==
  ASSUME NEW z, NEW F, NEW k \in Nat, NEW D, z \in D,
         \A i \in 1..k : \A x \in D : F[i][x] \in D,
         NEW g, g = Looped(z, F, k, g)
  PROVE  \A i \in 0..k : g[i] \in D
<1> DEFINE Typed(i) == i <= k => g[i] \in D
           N == {i \in Nat : Typed(i)}
<1>0. \A i \in 0..k : g[i] = IF i = 0 THEN z ELSE F[i][g[i - 1]]
  <2>1. \A i \in 0..k : Looped(z, F, k, g)[i] = IF i = 0 THEN z ELSE F[i][g[i - 1]]
    BY DEF Looped
  <2> QED BY <2>1
<1>1. 0 \in N
  BY <1>0
<1>2. \A i \in Nat : i \in N => i + 1 \in N
  <2> SUFFICES ASSUME NEW i \in Nat, Typed(i), i + 1 <= k PROVE g[i + 1] \in D
    OBVIOUS
  <2>1. i + 1 \in 0..k /\ i + 1 \in 1..k /\ (i + 1) - 1 = i /\ i + 1 # 0 /\ g[i] \in D
    OBVIOUS
  <2>2. g[i + 1] = F[i + 1][g[i]]
    BY <1>0, <2>1
  <2> QED BY <2>1, <2>2
<1>3. \A i \in Nat : i \in N
  <2> HIDE DEF N
  <2> QED BY <1>1, <1>2, Induction
<1> QED BY <1>3

\* They do not depend on how far it runs.
LEMMA LoopValues ==
  ASSUME NEW z, NEW F, NEW k \in Nat, NEW j \in 0..k,
         NEW g, g = Looped(z, F, k, g), NEW h, h = Looped(z, F, j, h)
  PROVE  g[j] = h[j]
<1> DEFINE Same(i) == i <= j => g[i] = h[i]
           N == {i \in Nat : Same(i)}
<1>0. /\ \A i \in 0..k : g[i] = IF i = 0 THEN z ELSE F[i][g[i - 1]]
      /\ \A i \in 0..j : h[i] = IF i = 0 THEN z ELSE F[i][h[i - 1]]
  <2>1. \A i \in 0..k : Looped(z, F, k, g)[i] = IF i = 0 THEN z ELSE F[i][g[i - 1]]
    BY DEF Looped
  <2>2. \A i \in 0..j : Looped(z, F, j, h)[i] = IF i = 0 THEN z ELSE F[i][h[i - 1]]
    BY DEF Looped
  <2> QED BY <2>1, <2>2
<1>1. 0 \in N
  BY <1>0
<1>2. \A i \in Nat : i \in N => i + 1 \in N
  <2> SUFFICES ASSUME NEW i \in Nat, Same(i), i + 1 <= j PROVE g[i + 1] = h[i + 1]
    OBVIOUS
  <2>1. i + 1 \in 0..k /\ i + 1 \in 0..j /\ (i + 1) - 1 = i /\ i + 1 # 0
    OBVIOUS
  <2> QED BY <1>0, <2>1
<1>3. \A i \in Nat : i \in N
  <2> HIDE DEF N
  <2> QED BY <1>1, <1>2, Induction
<1> QED BY <1>3

-----------------------------------------------------------------------------
(* The keys of blocks *)

\* Binary for the Merkle tree, decimal for keys.
Bases == {2, 10}

\* A quotient drops one digit at a time, and is a natural number.
LEMMA QuotientSteps ==
  ASSUME NEW n \in Nat, NEW b \in Bases
  PROVE  /\ Quotient(n, b, 0) = n
         /\ \A k \in Nat : Quotient(n, b, k) \in Nat
                           /\ Quotient(n, b, k + 1) = Quotient(n, b, k) \div b
<1> DEFINE F == [i \in Nat |-> [x \in Nat |-> x \div b]]
           Q(k, q) == [i \in 0..k |-> IF i = 0 THEN n ELSE q[i - 1] \div b]
           G(k) == CHOOSE q : q = Q(k, q)
<1>1. \A k \in Nat : Quotient(n, b, k) = G(k)[k]
  BY DEF Quotient
<1>2. \A i, x \in Nat : F[i][x] \in Nat /\ F[i][x] = x \div b
  BY DEF Bases
<1> HIDE DEF F
<1>3. ASSUME NEW k \in Nat PROVE G(k) = Q(k, G(k))
  <2>1. PICK g : g = Looped(n, F, k, g)
    BY LoopRuns
  <2>2. \A i \in 0..k : g[i] \in Nat
    <3>1. \A i \in 1..k : \A x \in Nat : F[i][x] \in Nat
      BY <1>2
    <3> QED BY <2>1, <3>1, LoopTyped
  <2>3. \A i \in 0..k : i # 0 => g[i - 1] \div b = F[i][g[i - 1]]
    BY <1>2, <2>2
  <2>4. g = Q(k, g)
    BY <2>1, <2>3 DEF Looped
  <2> QED BY <2>4
<1> HIDE DEF G
<1>4. ASSUME NEW k \in Nat PROVE G(k) = Looped(n, F, k, G(k)) /\ \A i \in 0..k : G(k)[i] \in Nat
  <2> DEFINE Typed(i) == i <= k => G(k)[i] \in Nat
             N == {i \in Nat : Typed(i)}
  <2>0. \A i \in 0..k : G(k)[i] = IF i = 0 THEN n ELSE G(k)[i - 1] \div b
    BY <1>3
  <2>1. 0 \in N
    BY <2>0
  <2>2. \A i \in Nat : i \in N => i + 1 \in N
    <3> SUFFICES ASSUME NEW i \in Nat, Typed(i), i + 1 <= k PROVE G(k)[i + 1] \in Nat
      OBVIOUS
    <3>1. i + 1 \in 0..k /\ (i + 1) - 1 = i /\ i + 1 # 0 /\ G(k)[i] \in Nat
      OBVIOUS
    <3>2. G(k)[i + 1] = G(k)[i] \div b
      BY <2>0, <3>1
    <3> QED BY <3>1, <3>2 DEF Bases
  <2>3. \A i \in Nat : i \in N
    <3> HIDE DEF N
    <3> QED BY <2>1, <2>2, Induction
  <2>4. \A i \in 0..k : G(k)[i] \in Nat
    BY <2>3
  <2>5. \A i \in 0..k : i # 0 => G(k)[i - 1] \div b = F[i][G(k)[i - 1]]
    BY <1>2, <2>4
  <2>6. Q(k, G(k)) = Looped(n, F, k, G(k))
    BY <2>5 DEF Looped
  <2> QED BY <1>3, <2>4, <2>6
<1>5. Quotient(n, b, 0) = n
  <2>1. G(0)[0] = n
    BY <1>3
  <2> QED BY <1>1, <2>1
<1>6. ASSUME NEW k \in Nat
      PROVE  Quotient(n, b, k) \in Nat /\ Quotient(n, b, k + 1) = Quotient(n, b, k) \div b
  <2>1. k + 1 \in Nat /\ k \in 0..(k + 1) /\ k + 1 \in 0..(k + 1) /\ (k + 1) - 1 = k /\ k \in 0..k
    OBVIOUS
  <2>2. G(k + 1)[k] = G(k)[k]
    BY <1>4, <2>1, LoopValues
  <2>3. G(k + 1)[k + 1] = G(k + 1)[k] \div b
    BY <1>3, <2>1
  <2> QED BY <1>1, <1>4, <2>1, <2>2, <2>3
<1> QED BY <1>5, <1>6

\* Quotients keep the order.
LEMMA QuotientMonotone ==
  ASSUME NEW m \in Nat, NEW n \in Nat, m <= n, NEW b \in Bases
  PROVE  \A k \in Nat : Quotient(m, b, k) <= Quotient(n, b, k)
<1> DEFINE NotAbove(k) == Quotient(m, b, k) <= Quotient(n, b, k)
           N == {k \in Nat : NotAbove(k)}
<1>1. 0 \in N
  BY QuotientSteps
<1>2. \A k \in Nat : k \in N => k + 1 \in N
  <2> SUFFICES ASSUME NEW k \in Nat, NotAbove(k) PROVE NotAbove(k + 1)
    OBVIOUS
  <2>1. Quotient(m, b, k) \in Nat /\ Quotient(m, b, k + 1) = Quotient(m, b, k) \div b
    BY QuotientSteps
  <2>2. Quotient(n, b, k) \in Nat /\ Quotient(n, b, k + 1) = Quotient(n, b, k) \div b
    BY QuotientSteps
  <2>3. \A x, y \in Nat : x <= y => x \div b <= y \div b
    BY DEF Bases
  <2> QED BY <2>1, <2>2, <2>3
<1>3. \A k \in Nat : k \in N
  <2> HIDE DEF N
  <2> QED BY <1>1, <1>2, Induction
<1> QED BY <1>3

\* Both, for decimal digits.
LEMMA DecimalSteps ==
  ASSUME NEW n \in Nat
  PROVE  /\ Quotient(n, 10, 0) = n
         /\ \A k \in Nat : Quotient(n, 10, k) \in Nat
                           /\ Quotient(n, 10, k + 1) = Quotient(n, 10, k) \div 10
<1>1. 10 \in Bases
  BY DEF Bases
<1> QED BY <1>1, QuotientSteps

LEMMA DecimalMonotone ==
  ASSUME NEW m \in Nat, NEW n \in Nat, m <= n
  PROVE  \A k \in Nat : Quotient(m, 10, k) <= Quotient(n, 10, k)
<1>1. 10 \in Bases
  BY DEF Bases
<1> QED BY <1>1, QuotientMonotone

\* Heights whose first digits agree have the same quotient after them.
LEMMA SameDigits ==
  ASSUME NEW m \in 0..MaxHeight, NEW n \in 0..MaxHeight
  PROVE  \A i \in 0..KeyDigits :
           (\A j \in 1..i : Digit(m, j) = Digit(n, j))
             => Quotient(m, 10, KeyDigits - i) = Quotient(n, 10, KeyDigits - i)
<1> DEFINE Same(i) == i <= KeyDigits /\ (\A j \in 1..i : Digit(m, j) = Digit(n, j))
                        => Quotient(m, 10, KeyDigits - i) = Quotient(n, 10, KeyDigits - i)
           N == {i \in Nat : Same(i)}
<1>0. KeyDigits \in Nat /\ MaxHeight \in Nat /\ m \in Nat /\ n \in Nat
  BY KeyAssumption
<1>1. 0 \in N
  <2>1. ASSUME NEW x \in 0..MaxHeight PROVE Quotient(x, 10, KeyDigits) = 0
    <3>1. x \in Nat /\ x <= MaxHeight
      BY <1>0
    <3>2. Quotient(x, 10, KeyDigits) \in Nat
      BY <1>0, <3>1, DecimalSteps
    <3>3. Quotient(x, 10, KeyDigits) <= Quotient(MaxHeight, 10, KeyDigits)
      BY <1>0, <3>1, DecimalMonotone
    <3> QED BY <3>2, <3>3, KeyAssumption
  <2>2. KeyDigits - 0 = KeyDigits
    BY <1>0
  <2> QED BY <2>1, <2>2
<1>2. \A i \in Nat : i \in N => i + 1 \in N
  <2> SUFFICES ASSUME NEW i \in Nat, Same(i), i + 1 <= KeyDigits,
                      \A j \in 1..(i + 1) : Digit(m, j) = Digit(n, j)
               PROVE  Quotient(m, 10, KeyDigits - (i + 1)) = Quotient(n, 10, KeyDigits - (i + 1))
    OBVIOUS
  <2> DEFINE k == KeyDigits - (i + 1)
  <2>1. k \in Nat /\ k + 1 = KeyDigits - i /\ i + 1 \in 1..(i + 1)
    BY <1>0
  <2>2. Quotient(m, 10, k + 1) = Quotient(n, 10, k + 1)
    <3>1. i <= KeyDigits /\ \A j \in 1..i : j \in 1..(i + 1)
      BY <1>0
    <3> QED BY <2>1, <3>1
  <2>3. Quotient(m, 10, k) % 10 = Quotient(n, 10, k) % 10
    BY <2>1 DEF Digit
  <2> HIDE DEF k
  <2>4. /\ Quotient(m, 10, k) \in Nat /\ Quotient(m, 10, k + 1) = Quotient(m, 10, k) \div 10
        /\ Quotient(n, 10, k) \in Nat /\ Quotient(n, 10, k + 1) = Quotient(n, 10, k) \div 10
    BY <1>0, <2>1, DecimalSteps
  <2>5. \A a, b \in Nat : a \div 10 = b \div 10 /\ a % 10 = b % 10 => a = b
    OBVIOUS
  <2>6. Quotient(m, 10, k) = Quotient(n, 10, k)
    BY <2>2, <2>3, <2>4, <2>5
  <2> QED BY <2>6 DEF k
<1>3. \A i \in Nat : i \in N
  <2> HIDE DEF N
  <2> QED BY <1>1, <1>2, Induction
<1> QED BY <1>0, <1>3

\* The first digit that differs decides.
LEMMA DigitDecides ==
  ASSUME NEW m \in 0..MaxHeight, NEW n \in 0..MaxHeight, NEW i \in 1..KeyDigits,
         \A j \in 1..(i - 1) : Digit(m, j) = Digit(n, j), Digit(m, i) < Digit(n, i)
  PROVE  m < n
<1> DEFINE k == KeyDigits - i
<1>0. KeyDigits \in Nat /\ m \in Nat /\ n \in Nat /\ i \in Nat
  BY KeyAssumption
<1>1. k \in Nat /\ k + 1 = KeyDigits - (i - 1) /\ i - 1 \in 0..KeyDigits
  BY <1>0
<1>2. Quotient(m, 10, k + 1) = Quotient(n, 10, k + 1)
  BY <1>1, SameDigits
<1>3. Quotient(m, 10, k) % 10 < Quotient(n, 10, k) % 10
  BY DEF Digit
<1> HIDE DEF k
<1>4. /\ Quotient(m, 10, k) \in Nat /\ Quotient(m, 10, k + 1) = Quotient(m, 10, k) \div 10
      /\ Quotient(n, 10, k) \in Nat /\ Quotient(n, 10, k + 1) = Quotient(n, 10, k) \div 10
  BY <1>0, <1>1, DecimalSteps
<1>5. \A a, b \in Nat : a \div 10 = b \div 10 /\ a % 10 < b % 10 => a < b
  OBVIOUS
<1>6. Quotient(m, 10, k) < Quotient(n, 10, k)
  BY <1>2, <1>3, <1>4, <1>5
<1>7. n <= m => Quotient(n, 10, k) <= Quotient(m, 10, k)
  BY <1>0, <1>1, DecimalMonotone
<1> QED BY <1>0, <1>4, <1>6, <1>7

\* Of two heights the smaller one has the smaller key.
LEMMA KeyOrder ==
  ASSUME NEW m \in 0..MaxHeight, NEW n \in 0..MaxHeight
  PROVE  LexLess(block_key(m), block_key(n)) <=> m < n
<1> DEFINE D == 1..KeyDigits
           First(i) == Digit(m, i) < Digit(n, i) /\ \A j \in 1..(i - 1) : Digit(m, j) = Digit(n, j)
<1>0. KeyDigits \in Nat /\ m \in Nat /\ n \in Nat
  BY KeyAssumption
<1>1. /\ Len(block_key(m)) = KeyDigits /\ Len(block_key(n)) = KeyDigits
      /\ \A i \in D : block_key(m)[i] = Digit(m, i) /\ block_key(n)[i] = Digit(n, i)
  BY <1>0 DEF block_key
<1>2. Min({KeyDigits, KeyDigits}) = KeyDigits
  BY <1>0 DEF Min
<1>3. \A i \in D : \A j \in 1..(i - 1) : j \in D
  BY <1>0
<1>4. LexLess(block_key(m), block_key(n)) <=> \E i \in D : First(i)
  <2> DEFINE a == block_key(m)
             b == block_key(n)
             Differ(i) == a[i] < b[i] /\ \A j \in 1..(i - 1) : a[j] = b[j]
  <2> HIDE DEF D, a, b
  <2>1. 1..KeyDigits = D /\ ~(KeyDigits < KeyDigits)
    BY <1>0 DEF D
  <2>2. Len(a) = KeyDigits /\ Len(b) = KeyDigits
        /\ \A i \in D : a[i] = Digit(m, i) /\ b[i] = Digit(n, i)
    BY <1>1 DEF a, b
  <2>3. LexLess(a, b) <=> \E i \in D : Differ(i)
    BY <1>2, <2>1, <2>2 DEF LexLess
  <2>4. ASSUME NEW i \in D PROVE Differ(i) <=> First(i)
    <3>1. \A j \in 1..(i - 1) : j \in D
      BY <1>3
    <3> QED BY <2>2, <3>1
  <2> HIDE DEF Differ, First
  <2>5. LexLess(a, b) <=> \E i \in D : First(i)
    BY <2>3, <2>4
  <2> QED BY <2>5 DEF a, b
<1>5. ASSUME NEW i \in D, First(i) PROVE m < n
  BY <1>5, DigitDecides
<1>6. ASSUME m < n PROVE \E i \in D : First(i)
  <2> SUFFICES ASSUME \A i \in D : ~First(i) PROVE FALSE
    OBVIOUS
  <2> DEFINE Equal(i) == i <= KeyDigits => \A j \in 1..i : Digit(m, j) = Digit(n, j)
             N == {i \in Nat : Equal(i)}
  <2>1. \A i \in D : Digit(m, i) \in Nat /\ Digit(n, i) \in Nat
    <3> SUFFICES ASSUME NEW i \in D PROVE Digit(m, i) \in Nat /\ Digit(n, i) \in Nat
      OBVIOUS
    <3>1. KeyDigits - i \in Nat
      BY <1>0
    <3>2. Quotient(m, 10, KeyDigits - i) \in Nat /\ Quotient(n, 10, KeyDigits - i) \in Nat
      BY <1>0, <3>1, DecimalSteps
    <3> QED BY <3>2 DEF Digit
  <2>2. 0 \in N
    OBVIOUS
  <2>3. \A i \in Nat : i \in N => i + 1 \in N
    <3> SUFFICES ASSUME NEW i \in Nat, Equal(i), i + 1 <= KeyDigits
                 PROVE  \A j \in 1..(i + 1) : Digit(m, j) = Digit(n, j)
      OBVIOUS
    <3>1. i + 1 \in D /\ (i + 1) - 1 = i /\ \A j \in 1..i : Digit(m, j) = Digit(n, j)
      BY <1>0
    <3>2. ~(Digit(n, i + 1) < Digit(m, i + 1))
      <4>1. Digit(n, i + 1) < Digit(m, i + 1) => n < m
        BY <3>1, DigitDecides
      <4> QED BY <1>0, <1>6, <4>1
    <3>3. ~(Digit(m, i + 1) < Digit(n, i + 1))
      BY <3>1
    <3>4. Digit(m, i + 1) = Digit(n, i + 1)
      BY <2>1, <3>1, <3>2, <3>3
    <3> QED BY <3>1, <3>4
  <2>4. \A i \in Nat : i \in N
    <3> HIDE DEF N
    <3> QED BY <2>2, <2>3, Induction
  <2>5. Quotient(m, 10, KeyDigits - KeyDigits) = Quotient(n, 10, KeyDigits - KeyDigits)
    BY <1>0, <2>4, SameDigits
  <2>6. m = n
    <3>1. KeyDigits - KeyDigits = 0
      BY <1>0
    <3> QED BY <1>0, <2>5, <3>1, DecimalSteps
  <2> QED BY <1>0, <1>6, <2>6
<1> QED BY <1>4, <1>5, <1>6

\* The iterator of load_blocks meets the blocks in the order of their heights,
\* as long as every height has no more digits than a key ("%010u").
THEOREM KeysOrdered == Spec => []KeysInOrder
<1>1. Picked => KeysInOrder
  BY CaseOf, KeyOrder DEF KeysInOrder
<1> QED BY <1>1, AlwaysPicked, PTL

-----------------------------------------------------------------------------
(* Charts *)

\* Quotient and remainder make the number.
LEMMA DivMod ==
  ASSUME NEW a \in Nat, NEW b \in Nat, b > 0
  PROVE  /\ a \div b \in Nat /\ a % b \in Nat /\ a % b < b
         /\ a = b * (a \div b) + (a % b)
OBVIOUS

\* Multiples of k that are less than k apart are the same.
LEMMA NearMultiples ==
  ASSUME NEW k \in Nat, k > 0, NEW p \in Int, NEW q \in Int,
         k * p < k * q + k, k * q < k * p + k
  PROVE  p = q
<1>1. ASSUME NEW x \in Int, NEW y \in Int, k * x < k * y + k PROVE x <= y
  <2> SUFFICES ASSUME x > y PROVE FALSE
    OBVIOUS
  <2> DEFINE d == x - y - 1
  <2>1. d \in Nat /\ x = y + 1 + d
    OBVIOUS
  <2> HIDE DEF d
  <2>2. k * d \in Nat /\ k * y \in Int
    BY <2>1
  <2>3. k * x = k * y + k + k * d
    BY <2>1
  <2> QED BY <1>1, <2>2, <2>3
<1> QED BY <1>1

\* The hour of a time is the multiple of kHour at or before it.
LEMMA HourOf ==
  ASSUME NEW ts \in Nat
  PROVE  /\ Hour(ts) \in Nat /\ Hour(ts) <= ts /\ ts < Hour(ts) + kHour
         /\ Hour(ts) = kHour * (ts \div kHour) /\ ts \div kHour \in Nat
<1>1. kHour \in Nat /\ kHour > 0
  BY ChartsAssumption
<1>2. /\ ts \div kHour \in Nat /\ ts % kHour \in Nat /\ ts % kHour < kHour
      /\ ts = kHour * (ts \div kHour) + (ts % kHour)
  BY <1>1, DivMod
<1>3. kHour * (ts \div kHour) \in Nat
  BY <1>1, <1>2
<1> DEFINE q == ts \div kHour
           r == ts % kHour
           m == kHour * q
<1>4. Hour(ts) = ts - r
  BY DEF Hour
<1>5. m \in Nat /\ r \in Nat /\ r < kHour /\ ts = m + r /\ q \in Nat
  BY <1>2, <1>3
<1>6. Hour(ts) = m
  <2> HIDE DEF m, r, q
  <2> QED BY <1>4, <1>5
<1>7. Hour(ts) \in Nat /\ Hour(ts) <= ts /\ ts < Hour(ts) + kHour
  <2> HIDE DEF m, r, q
  <2> QED BY <1>1, <1>5, <1>6
<1> QED BY <1>5, <1>6, <1>7

\* The oldest slot is Slots - 1 hours before the hour of the clock: the
\* unsigned subtraction does not wrap.
LEMMA OldestOf ==
  ASSUME NEW now \in Clock
  PROVE  /\ now \in Nat /\ now < U64 /\ Oldest(now) \in Nat
         /\ \E p \in Int : Oldest(now) = kHour * p
<1>1. /\ kHour \in Nat /\ kHour > 0 /\ Slots \in Nat /\ Slots > 0 /\ U64 \in Nat /\ U64 > 0
  BY ChartsAssumption
<1>2. Slots * kHour \in Nat
  BY <1>1
<1>3. now \in Nat /\ now < U64 /\ Slots * kHour <= now
  BY <1>1, <1>2, ClockAssumption
<1> DEFINE q == now \div kHour
           back == (Slots - 1) * kHour
<1>4. /\ q \in Nat /\ Hour(now) = kHour * q /\ Hour(now) \in Nat
      /\ Hour(now) <= now /\ now < Hour(now) + kHour
  BY <1>3, HourOf
<1>5. back = Slots * kHour - kHour /\ back \in Nat
  BY <1>1
<1> DEFINE d == Hour(now) - back
<1>6. d \in Nat /\ d < U64
  <2> HIDE DEF back, q
  <2> QED BY <1>1, <1>2, <1>3, <1>4, <1>5
<1>7. Oldest(now) = d
  <2>1. Oldest(now) = d % U64
    BY DEF Oldest, Minus
  <2>2. \A x, u \in Nat : x < u => x % u = x
    OBVIOUS
  <2> HIDE DEF d
  <2> QED BY <1>1, <1>6, <2>1, <2>2
<1>8. d = kHour * (q - (Slots - 1)) /\ q - (Slots - 1) \in Int
  <2> HIDE DEF q
  <2> QED BY <1>1, <1>4
<1> QED BY <1>3, <1>6, <1>7, <1>8

\* A block is in a slot but the oldest if it was mined during its hour.
LEMMA SlotHour ==
  ASSUME NEW now \in Clock, NEW s \in SlotsAt(now), NEW ts \in Nat
  PROVE  /\ s \in Nat /\ s >= Oldest(now)
         /\ Hour(ts) = s <=> ts \in s..(s + kHour - 1)
<1>1. kHour \in Nat /\ kHour > 0
  BY ChartsAssumption
<1>2. PICK p \in Int : Oldest(now) = kHour * p
  BY OldestOf
<1>3. /\ now \in Nat /\ Oldest(now) \in Nat /\ s \in Int /\ s >= Oldest(now)
      /\ (s - Oldest(now)) % kHour = 0 /\ s \in Nat
  <2>1. now \in Nat /\ Oldest(now) \in Nat /\ Hour(now) \in Nat
    BY OldestOf, HourOf
  <2> QED BY <2>1 DEF SlotsAt
<1> DEFINE r == (s - Oldest(now)) \div kHour
<1>4. r \in Nat /\ s - Oldest(now) = kHour * r
  <2> DEFINE a == s - Oldest(now)
  <2>1. a \in Nat /\ a % kHour = 0
    BY <1>3
  <2>2. a \div kHour \in Nat /\ a = kHour * (a \div kHour) + (a % kHour)
    BY <1>1, <2>1, DivMod
  <2>3. kHour * (a \div kHour) \in Nat
    BY <1>1, <2>2
  <2> QED BY <2>1, <2>2, <2>3
<1>5. p + r \in Int /\ s = kHour * (p + r)
  <2> HIDE DEF r
  <2>1. kHour * (p + r) = kHour * p + kHour * r /\ kHour * p \in Int /\ kHour * r \in Int
    BY <1>1, <1>4
  <2> QED BY <1>2, <1>3, <1>4, <2>1
<1> DEFINE u == p + r
           q == ts \div kHour
<1> HIDE DEF r
<1>6. /\ q \in Nat /\ Hour(ts) = kHour * q /\ Hour(ts) \in Nat
      /\ Hour(ts) <= ts /\ ts < Hour(ts) + kHour
  BY HourOf
<1>7. u \in Int /\ s = kHour * u
  BY <1>5
<1>8. ASSUME ts \in s..(s + kHour - 1) PROVE Hour(ts) = s
  <2> HIDE DEF u, q
  <2>1. s <= ts /\ ts < s + kHour
    BY <1>1, <1>3, <1>8
  <2>2. kHour * q < kHour * u + kHour /\ kHour * u < kHour * q + kHour
    BY <1>1, <1>3, <1>6, <1>7, <2>1
  <2>3. q = u
    BY <1>1, <1>6, <1>7, <2>2, NearMultiples
  <2> QED BY <1>6, <1>7, <2>3
<1>9. Hour(ts) = s => ts \in s..(s + kHour - 1)
  BY <1>1, <1>3, <1>6
<1> QED BY <1>3, <1>8, <1>9

\* A sum does not depend on what the function is elsewhere.
LEMMA TotalOver ==
  ASSUME NEW f, NEW S, IsFiniteSet(S), \A x \in S : f[x] \in Nat
  PROVE  Total([x \in S |-> f[x]]) = TotalOn(f, S)
<1> DEFINE g == [x \in S |-> f[x]]
<1>1. DOMAIN g = S /\ \A x \in S : f[x] \in Nat /\ g[x] = f[x]
  OBVIOUS
<1> HIDE DEF g
<1>2. TotalOn(f, S) = TotalOn(g, S)
  BY <1>1, TotalSame
<1>3. Total(g) = TotalOn(g, DOMAIN g)
  BY DEF Total, TotalOn
<1>4. Total(g) = TotalOn(f, S)
  BY <1>1, <1>2, <1>3
<1> QED BY <1>4 DEF g

\* What a chart reads of a chain.
LEMMA ChainType ==
  ASSUME NEW c \in Chains
  PROVE  /\ Len(c) \in Nat /\ IsFiniteSet(1..Len(c))
         /\ \A h \in 1..Len(c) : /\ c[h].timestamp \in Nat /\ c[h].timestamp < U64
                                 /\ c[h].txs \in Nat /\ c[h].size \in Nat
<1>1. c \in Seq(ChartBlock) /\ U64 \in Nat
  BY ClockAssumption, ChartsAssumption
<1>2. Len(c) \in Nat /\ \A h \in 1..Len(c) : c[h] \in ChartBlock
  BY <1>1
<1>3. IsFiniteSet(1..Len(c))
  BY <1>2, FS_Interval
<1>4. \A b \in ChartBlock : /\ b.timestamp \in Nat /\ b.timestamp < U64
                            /\ b.txs \in Nat /\ b.size \in Nat
  BY <1>1 DEF ChartBlock
<1> QED BY <1>2, <1>3, <1>4

\* What one slot of the two charts shows.
LEMMA OneSlot ==
  ASSUME NEW c \in Chains, NEW now \in Clock, NEW s \in SlotsAt(now)
  PROVE  \E hs \in MayShow(c, now, s) :
           /\ blocksOverTime(c, now)[s] = Cardinality(hs)
           /\ Averages(avgBlockSize(c, now)[s], c, hs)
<1> DEFINE mined == IF s = Oldest(now) THEN {} ELSE During(c, s)
           size == [h \in 1..Len(c) |-> c[h].size]
           all == Total([h \in mined |-> c[h].size])
           avg == avgBlockSize(c, now)[s]
           n == Cardinality(mined)
<1>1. /\ Len(c) \in Nat /\ IsFiniteSet(1..Len(c))
      /\ \A h \in 1..Len(c) : c[h].timestamp \in Nat /\ c[h].size \in Nat
  BY ChainType
<1>2. Bucket(c, now, s) = mined
  <2>1. ASSUME NEW h \in 1..Len(c)
        PROVE  /\ Hour(c[h].timestamp) = s <=> c[h].timestamp \in s..(s + kHour - 1)
               /\ s > Oldest(now) <=> s # Oldest(now)
    <3>1. s \in Nat /\ s >= Oldest(now) /\ Oldest(now) \in Nat
      BY <1>1, SlotHour, OldestOf
    <3> QED BY <1>1, <3>1, SlotHour
  <2> QED BY <2>1 DEF Bucket, InWindow, During
<1>3. mined \subseteq 1..Len(c) /\ IsFiniteSet(mined)
  <2>1. mined \subseteq 1..Len(c)
    BY DEF During
  <2> HIDE DEF mined
  <2> QED BY <1>1, <2>1, FS_Subset
<1>4. n \in Nat /\ (mined # {} => n > 0)
  <2> HIDE DEF mined
  <2>1. n \in Nat /\ (n = 0 <=> mined = {})
    BY <1>3, FS_CardinalityType, FS_EmptySet
  <2> QED BY <2>1
<1>5. all \in Nat
  <2> HIDE DEF mined
  <2>1. \A h \in mined : size[h] \in Nat /\ size[h] = c[h].size
    BY <1>1, <1>3
  <2>2. [h \in mined |-> c[h].size] = [h \in mined |-> size[h]]
    BY <2>1
  <2> HIDE DEF size
  <2>3. Total([h \in mined |-> size[h]]) = TotalOn(size, mined)
    BY <1>3, <2>1, TotalOver
  <2>4. TotalOn(size, mined) \in Nat
    BY <1>3, <2>1, TotalType
  <2> QED BY <2>2, <2>3, <2>4
<1>6. blocksOverTime(c, now)[s] = n
  <2> HIDE DEF mined
  <2> QED BY <1>2 DEF blocksOverTime
<1>7. avg = IF mined = {} THEN 0 ELSE all \div n
  <2> HIDE DEF mined
  <2> QED BY <1>2 DEF avgBlockSize
<1>8. avg * n <= all /\ (mined # {} => all < (avg + 1) * n)
  <2> HIDE DEF mined, all, n, avg
  <2>1. CASE mined = {}
    BY <1>4, <1>5, <1>7, <2>1
  <2>2. CASE mined # {}
    <3>1. /\ avg \in Nat /\ all % n \in Nat /\ all % n < n /\ all = n * avg + (all % n)
      BY <1>4, <1>5, <1>7, <2>2, DivMod
    <3>2. n * avg = avg * n /\ (avg + 1) * n = avg * n + n /\ avg * n \in Nat
      BY <1>4, <3>1
    <3> QED BY <1>4, <3>1, <3>2
  <2> QED BY <2>1, <2>2
<1>9. mined \in MayShow(c, now, s)
  BY DEF MayShow
<1>10. Averages(avgBlockSize(c, now)[s], c, mined)
  <2> HIDE DEF mined
  <2> QED BY <1>8 DEF Averages
<1> HIDE DEF mined
<1> QED BY <1>6, <1>9, <1>10

\* The hourly charts of /api/charts count a block in the hour its timestamp says,
\* for every chain and whenever they read the clock, also when miners' timestamps
\* go back; an hour is shown whole or, if it is the oldest, possibly not at all.
THEOREM HoursCounted == Spec => []ChartHours
<1>1. Picked => ChartHours
  <2> SUFFICES ASSUME Picked, case.kind = "chart" PROVE ChartHours
    BY DEF ChartHours
  <2>1. case.c \in Chains /\ case.now \in Clock /\ case.later \in Clock
    BY CaseOf
  <2> QED BY <2>1, OneSlot DEF ChartHours
<1> QED BY <1>1, AlwaysPicked, PTL

\* The greatest of some numbers up to n, 0 among them.
LEMMA MaxOf ==
  ASSUME NEW n \in Nat, NEW S \in SUBSET (0..n), 0 \in S
  PROVE  Max(S) \in S /\ \A y \in S : y <= Max(S)
<1> DEFINE Top(k) == \A T \in SUBSET (0..k) : 0 \in T => \E x \in T : \A y \in T : x >= y
           N == {k \in Nat : Top(k)}
<1>1. 0 \in N
  OBVIOUS
<1>2. \A k \in Nat : k \in N => k + 1 \in N
  <2> SUFFICES ASSUME NEW k \in Nat, Top(k), NEW T \in SUBSET (0..(k + 1)), 0 \in T
               PROVE  \E x \in T : \A y \in T : x >= y
    OBVIOUS
  <2>1. CASE k + 1 \in T
    BY <2>1
  <2>2. CASE k + 1 \notin T
    <3>1. T \in SUBSET (0..k)
      BY <2>2
    <3> QED BY <3>1
  <2> QED BY <2>1, <2>2
<1>3. \A k \in Nat : k \in N
  <2> HIDE DEF N
  <2> QED BY <1>1, <1>2, Induction
<1>4. \E x \in S : \A y \in S : x >= y
  BY <1>3
<1>5. Max(S) \in S /\ \A y \in S : Max(S) >= y
  BY <1>4 DEF Max
<1> QED BY <1>5

\* A block is counted if it was mined within the window, and not in the future.
LEMMA AgeOf ==
  ASSUME NEW now \in Clock, NEW secs \in Windows, NEW ts \in Nat, ts < U64
  PROVE  Minus(now, ts) > secs <=> ~(now - ts \in 0..secs)
<1>1. now \in Nat /\ now < U64 /\ U64 \in Nat /\ secs \in Nat /\ secs <= now
  BY OldestOf, ClockAssumption, ChartsAssumption
<1>2. CASE ts <= now
  <2>1. \A x, u \in Nat : x < u => x % u = x
    OBVIOUS
  <2>2. now - ts \in Nat /\ now - ts < U64
    BY <1>1, <1>2
  <2>3. Minus(now, ts) = now - ts
    BY <1>1, <2>1, <2>2 DEF Minus
  <2> QED BY <1>1, <1>2, <2>3
<1>3. CASE ts > now
  <2>1. \A x \in Int, u \in Nat : x < 0 /\ x + u >= 0 => x % u = x + u
    OBVIOUS
  <2>2. now - ts \in Int /\ now - ts < 0 /\ now - ts + U64 >= 0
    BY <1>1, <1>3
  <2>3. Minus(now, ts) = now - ts + U64
    BY <1>1, <2>1, <2>2 DEF Minus
  <2> QED BY <1>1, <1>3, <2>3
<1> QED BY <1>1, <1>2, <1>3

\* Timestamps that grow from block to block grow along the chain.
LEMMA Ordered ==
  ASSUME NEW c \in Chains, \A h \in 1..(Len(c) - 1) : c[h].timestamp <= c[h + 1].timestamp,
         NEW h \in 1..Len(c)
  PROVE  \A k \in 1..Len(c) : h <= k => c[h].timestamp <= c[k].timestamp
<1> DEFINE Later(n) == h + n <= Len(c) => c[h].timestamp <= c[h + n].timestamp
           N == {n \in Nat : Later(n)}
<1>0. Len(c) \in Nat /\ h \in Nat /\ \A k \in 1..Len(c) : c[k].timestamp \in Nat
  BY ChainType
<1>1. 0 \in N
  <2>1. h + 0 = h
    BY <1>0
  <2> QED BY <1>0, <2>1
<1>2. \A n \in Nat : n \in N => n + 1 \in N
  <2> SUFFICES ASSUME NEW n \in Nat, Later(n), h + (n + 1) <= Len(c)
               PROVE  c[h].timestamp <= c[h + (n + 1)].timestamp
    OBVIOUS
  <2>1. h + n \in 1..(Len(c) - 1) /\ h + (n + 1) = (h + n) + 1 /\ h + n <= Len(c)
        /\ h + n \in 1..Len(c) /\ (h + n) + 1 \in 1..Len(c)
    BY <1>0
  <2>2. c[h].timestamp <= c[h + n].timestamp /\ c[h + n].timestamp <= c[(h + n) + 1].timestamp
    BY <2>1
  <2> QED BY <1>0, <2>1, <2>2
<1>3. \A n \in Nat : n \in N
  <2> HIDE DEF N
  <2> QED BY <1>1, <1>2, Induction
<1>4. ASSUME NEW k \in 1..Len(c), h <= k PROVE c[h].timestamp <= c[k].timestamp
  <2>1. k - h \in Nat /\ h + (k - h) = k /\ k <= Len(c)
    BY <1>0, <1>4
  <2>2. Later(k - h)
    BY <1>3, <2>1
  <2> QED BY <2>1, <2>2
<1> QED BY <1>4

\* What ActivityBounded says of one chain, time and window.
LEMMA Activity ==
  ASSUME NEW c \in Chains, NEW now \in Clock, NEW later \in Clock, now <= later,
         NEW secs \in Windows
  PROVE  LET activity == recent_tx(c, later, secs)
             young == {h \in 1..Len(c) : later - c[h].timestamp \in 0..secs}
             all == Total([h \in young |-> c[h].txs])
             rows == txPerBlock(c, now)
             shown == {h \in DOMAIN rows : rows[h].age <= secs}
             past(t) == \A h \in 1..Len(c) : c[h].timestamp <= t
             ordered == \A h \in 1..(Len(c) - 1) : c[h].timestamp <= c[h + 1].timestamp
         IN  /\ activity <= all
             /\ ordered /\ past(later) => activity = all
             /\ Len(c) <= Recent /\ past(now) =>
                  activity <= Total([h \in shown |-> rows[h].txs])
<1> DEFINE L == Len(c)
           young == {h \in 1..L : later - c[h].timestamp \in 0..secs}
           old == {h \in 1..L : TooOld(c[h], later, secs)}
           top == Max(old \cup {0})
           new == (top + 1)..L
           txs == [h \in 1..L |-> c[h].txs]
           rows == txPerBlock(c, now)
           shown == {h \in DOMAIN rows : rows[h].age <= secs}
           past(t) == \A h \in 1..L : c[h].timestamp <= t
           ordered == \A h \in 1..(L - 1) : c[h].timestamp <= c[h + 1].timestamp
<1>1. /\ L \in Nat /\ IsFiniteSet(1..L) /\ now \in Nat /\ later \in Nat /\ secs \in Nat
      /\ \A h \in 1..L : c[h].timestamp \in Nat /\ c[h].timestamp < U64 /\ c[h].txs \in Nat
  BY ChainType, OldestOf, ClockAssumption
<1>2. \A h \in 1..L : h \in old <=> h \notin young
  BY <1>1, AgeOf DEF TooOld
<1>3. top \in old \cup {0} /\ \A y \in old \cup {0} : y <= top
  <2>1. old \cup {0} \in SUBSET (0..L) /\ 0 \in old \cup {0}
    BY <1>1
  <2> HIDE DEF old
  <2> QED BY <1>1, <2>1, MaxOf
<1>4. top \in 0..L
  BY <1>1, <1>3
<1>5. new \subseteq young /\ young \subseteq 1..L
  <2>1. ASSUME NEW h \in new PROVE h \in young
    <3>1. h \in 1..L /\ ~(h <= top)
      BY <1>1, <1>4
    <3>2. h \notin old
      <4> HIDE DEF old, top
      <4> QED BY <1>3, <3>1
    <3> QED BY <1>2, <3>1, <3>2
  <2> QED BY <2>1
<1>6. /\ \A h \in 1..L : txs[h] \in Nat
      /\ \A S \in SUBSET (1..L) : IsFiniteSet(S) /\ Total([h \in S |-> c[h].txs]) = TotalOn(txs, S)
  <2>1. \A h \in 1..L : txs[h] \in Nat /\ txs[h] = c[h].txs
    BY <1>1
  <2>2. ASSUME NEW S \in SUBSET (1..L)
        PROVE  IsFiniteSet(S) /\ Total([h \in S |-> c[h].txs]) = TotalOn(txs, S)
    <3>1. IsFiniteSet(S) /\ \A h \in S : txs[h] \in Nat
      BY <1>1, <2>1, FS_Subset
    <3>2. [h \in S |-> c[h].txs] = [h \in S |-> txs[h]]
      BY <2>1
    <3> HIDE DEF txs
    <3>3. Total([h \in S |-> txs[h]]) = TotalOn(txs, S)
      BY <3>1, TotalOver
    <3> QED BY <3>1, <3>2, <3>3
  <2> QED BY <2>1, <2>2
<1>7. recent_tx(c, later, secs) = Total([h \in new |-> c[h].txs])
  BY DEF recent_tx
<1> HIDE DEF top, txs
<1>8. recent_tx(c, later, secs) <= Total([h \in young |-> c[h].txs])
  <2> HIDE DEF new, young, L
  <2>1. new \in SUBSET young /\ young \in SUBSET (1..L) /\ new \in SUBSET (1..L)
    BY <1>5
  <2>2. TotalOn(txs, new) <= TotalOn(txs, young)
    BY <1>6, <2>1, TotalSubset
  <2> QED BY <1>6, <1>7, <2>1, <2>2
<1>9. ASSUME ordered, past(later) PROVE recent_tx(c, later, secs) = Total([h \in young |-> c[h].txs])
  <2>1. ASSUME NEW h \in young PROVE h \in new
    <3> SUFFICES ASSUME h <= top PROVE FALSE
      BY <1>1, <1>4
    <3>1. top \in old /\ h \in 1..L /\ top \in 1..L
      BY <1>1, <1>3
    <3>2. c[h].timestamp <= c[top].timestamp /\ c[top].timestamp <= later
      BY <1>9, <3>1, Ordered
    <3>3. later - c[top].timestamp \in 0..secs
      BY <1>1, <3>1, <3>2, SMTT(40)
    <3>4. top \in young
      BY <3>1, <3>3
    <3> QED BY <1>2, <3>1, <3>4
  <2>2. young = new
    BY <1>5, <2>1
  <2> QED BY <1>7, <2>2
<1>10. ASSUME L <= Recent, past(now)
       PROVE  recent_tx(c, later, secs) <= Total([h \in shown |-> rows[h].txs])
  <2>1. Max({L - Recent, 0}) = 0
    <3>1. L - Recent \in Int /\ L - Recent <= 0
      BY <1>1, <1>10, ChartsAssumption
    <3>2. ASSUME NEW a \in Int, a <= 0 PROVE Max({a, 0}) = 0
      BY <3>2 DEF Max
    <3> QED BY <3>1, <3>2
  <2>2. rows = [h \in 1..L |-> [height |-> h - 1, txs |-> c[h].txs,
                                age |-> Minus(now, c[h].timestamp)]]
    BY <2>1 DEF txPerBlock
  <2>3. DOMAIN rows = 1..L /\ \A h \in 1..L : /\ rows[h].txs = c[h].txs
                                              /\ rows[h].age = Minus(now, c[h].timestamp)
    BY <2>2
  <2> HIDE DEF rows
  <2>4. shown \subseteq 1..L
    BY <2>3
  <2>5. ASSUME NEW h \in new PROVE h \in shown
    <3>1. h \in 1..L /\ later - c[h].timestamp \in 0..secs
      BY <1>5
    <3>2. now - c[h].timestamp \in 0..secs
      BY <1>1, <1>10, <3>1
    <3>3. Minus(now, c[h].timestamp) \in Int
      BY <1>1, <3>1, ChartsAssumption DEF Minus
    <3>4. ~(Minus(now, c[h].timestamp) > secs)
      BY <1>1, <3>1, <3>2, AgeOf
    <3>5. rows[h].age <= secs
      BY <1>1, <2>3, <3>1, <3>3, <3>4
    <3> QED BY <2>3, <3>1, <3>5
  <2>6. [h \in shown |-> rows[h].txs] = [h \in shown |-> c[h].txs]
    <3> HIDE DEF shown
    <3> QED BY <2>3, <2>4
  <2> HIDE DEF new, shown, L
  <2>7. new \in SUBSET shown /\ shown \in SUBSET (1..L) /\ new \in SUBSET (1..L)
    BY <2>4, <2>5
  <2>8. TotalOn(txs, new) <= TotalOn(txs, shown)
    BY <1>6, <2>7, TotalSubset
  <2> QED BY <1>6, <1>7, <2>6, <2>7, <2>8
<1> QED BY <1>8, <1>9, <1>10

\* networkActivity never overstates a window, is exact when timestamps grow, and
\* counts nothing txPerBlock gives as too old, for every chain, every two readings
\* of the clock and every window.
THEOREM ActivityExact == Spec => []ActivityBounded
<1>1. Picked => ActivityBounded
  <2> SUFFICES ASSUME Picked, case.kind = "chart" PROVE ActivityBounded
    BY DEF ActivityBounded
  <2>1. /\ case.c \in Chains /\ case.now \in Clock /\ case.later \in Clock
        /\ case.now <= case.later
    BY CaseOf
  <2> QED BY <2>1, Activity DEF ActivityBounded
<1> QED BY <1>1, AlwaysPicked, PTL

-----------------------------------------------------------------------------
(* Sequences of words *)

\* The words x are in d, from offset o on.
Holds(d, o, x) ==
  o + Len(x) <= Len(d) /\ \A j \in 1..Len(x) : d[o + j] = x[j]

\* A sequence holds itself.
LEMMA HoldsAll == ASSUME NEW d \in Seq(Nat) PROVE Holds(d, 0, d)
BY DEF Holds

\* It holds the parts of what it holds.
LEMMA HoldsParts ==
  ASSUME NEW d \in Seq(Nat), NEW x \in Seq(Nat), NEW y \in Seq(Nat), NEW o \in Nat,
         Holds(d, o, x \o y)
  PROVE  Holds(d, o, x) /\ Holds(d, o + Len(x), y)
<1> DEFINE z == x \o y
<1>1. /\ Len(x) \in Nat /\ Len(y) \in Nat /\ Len(z) = Len(x) + Len(y)
      /\ \A j \in 1..Len(x) : z[j] = x[j]
      /\ \A j \in 1..Len(y) : z[Len(x) + j] = y[j]
  OBVIOUS
<1>2. Len(d) \in Nat /\ o + Len(z) <= Len(d) /\ \A j \in 1..Len(z) : d[o + j] = z[j]
  BY SMTT(40) DEF Holds
<1> HIDE DEF z
<1>3. Holds(d, o, x)
  <2>1. \A j \in 1..Len(x) : j \in 1..Len(z)
    BY <1>1
  <2>2. \A j \in 1..Len(x) : d[o + j] = x[j]
    BY <1>1, <1>2, <2>1
  <2>3. o + Len(x) <= Len(d)
    BY <1>1, <1>2
  <2> QED BY <2>2, <2>3 DEF Holds
<1>4. ASSUME NEW j \in 1..Len(y) PROVE d[(o + Len(x)) + j] = y[j]
  <2>1. Len(x) + j \in 1..Len(z) /\ (o + Len(x)) + j = o + (Len(x) + j)
    BY <1>1
  <2> QED BY <1>1, <1>2, <2>1
<1>5. (o + Len(x)) + Len(y) <= Len(d)
  BY <1>1, <1>2
<1>6. Holds(d, o + Len(x), y)
  BY <1>4, <1>5 DEF Holds
<1> QED BY <1>3, <1>6

\* One word that is held.
LEMMA HoldsWord ==
  ASSUME NEW d \in Seq(Nat), NEW o \in Nat, NEW v \in Nat, Holds(d, o, <<v>>)
  PROVE  d[o + 1] = v /\ o + 1 <= Len(d)
BY DEF Holds

\* Reading at its place gives what it holds there.
LEMMA HoldsTake ==
  ASSUME NEW d \in Seq(Nat), NEW o \in Nat, NEW x \in Seq(Nat), NEW n, Len(x) = n,
         Holds(d, o, x)
  PROVE  Take(d, o, n) = x
<1> DEFINE y == SubSeq(d, o + 1, o + Len(x))
<1>1. Len(x) \in Nat /\ Len(d) \in Nat /\ o + Len(x) <= Len(d)
  BY DEF Holds
<1>2. y \in Seq(Nat) /\ Len(y) = Len(x) /\ \A j \in 1..Len(x) : y[j] = d[o + j]
  BY <1>1
<1> HIDE DEF y
<1>3. \A j \in 1..Len(x) : y[j] = x[j]
  BY <1>2 DEF Holds
<1>4. y = x
  BY <1>2, <1>3, SeqEqual
<1> QED BY <1>4 DEF Take, y

\* The sizes of the fields, in words.
LEMMA FieldSizes ==
  /\ Field("u32") = 1 /\ Field("u64") = 2 /\ Field("addr") = 5 /\ Field("hash") = 8
  /\ Field("sig") = 16 /\ OutPointWords = 9 /\ TxOutputWords = 7 /\ HeaderWords = 20
BY DEF Field, OutPointWords, TxOutputWords, HeaderWords

\* A field is a sequence of as many words.
LEMMA WordsType ==
  ASSUME NEW n \in Nat, NEW x \in [1..n -> Nat] PROVE x \in Seq(Nat) /\ Len(x) = n
<1>1. x = [i \in 1..n |-> x[i]] /\ \A i \in 1..n : x[i] \in Nat
  OBVIOUS
<1>2. [i \in 1..n |-> x[i]] \in Seq(Nat)
  BY <1>1
<1>3. x \in Seq(Nat)
  BY <1>1, <1>2
<1> QED BY <1>3

\* What the fields are as sequences.
LEMMA FieldType ==
  /\ \A x \in Words("u64") : x \in Seq(Nat) /\ Len(x) = 2
  /\ \A x \in Words("addr") : x \in Seq(Nat) /\ Len(x) = 5
  /\ \A x \in Words("hash") : x \in Seq(Nat) /\ Len(x) = 8
  /\ \A x \in Words("sig") : x \in Seq(Nat) /\ Len(x) = 16
<1>1. /\ Words("u64") = [1..2 -> Nat] /\ Words("addr") = [1..5 -> Nat]
      /\ Words("hash") = [1..8 -> Nat] /\ Words("sig") = [1..16 -> Nat]
  BY FieldSizes DEF Words
<1> QED BY <1>1, WordsType

-----------------------------------------------------------------------------
(* Sequences put after one another *)

\* Where the pieces begin and end.
Placed(s, p) ==
  /\ p \in [0..Len(s) -> Nat] /\ p[0] = 0
  /\ \A i \in 1..Len(s) : p[i] = p[i - 1] + Len(s[i])

\* The definition of FlattenSeq, with its local function.
Joined(s, f) == [i \in 1..Len(s) |-> IF i = 1 THEN s[i] ELSE f[i - 1] \o s[i]]

\* The local function exists, and its last value is the result.
LEMMA JoinedIs ==
  ASSUME NEW s \in Seq(Seq(Nat)), s # <<>>
  PROVE  LET f == CHOOSE g : g = Joined(s, g)
         IN  f = Joined(s, f) /\ FlattenSeq(s) = f[Len(s)]
<1> DEFINE F == [i \in Nat |-> [x \in Seq(Nat) |-> x \o s[i + 1]]]
           L == Len(s)
<1>1. L \in Nat /\ L >= 1 /\ L # 0 /\ \A i \in 1..L : s[i] \in Seq(Nat)
  OBVIOUS
<1>2. \A i \in 1..(L - 1) : \A x \in Seq(Nat) :
        F[i][x] = x \o s[i + 1] /\ F[i][x] \in Seq(Nat)
  <2> SUFFICES ASSUME NEW i \in 1..(L - 1), NEW x \in Seq(Nat)
               PROVE  F[i][x] = x \o s[i + 1] /\ F[i][x] \in Seq(Nat)
    OBVIOUS
  <2>1. i \in Nat /\ i + 1 \in 1..L
    BY <1>1
  <2>2. F[i][x] = x \o s[i + 1]
    BY <2>1
  <2>3. s[i + 1] \in Seq(Nat)
    BY <1>1, <2>1
  <2> HIDE DEF F
  <2> QED BY <2>2, <2>3
<1> HIDE DEF F
<1>3. PICK g : g = Looped(s[1], F, L - 1, g)
  <2>1. L - 1 \in Nat
    BY <1>1
  <2> QED BY <2>1, LoopRuns
<1>4. \A i \in 0..(L - 1) : g[i] \in Seq(Nat)
  <2>1. L - 1 \in Nat /\ s[1] \in Seq(Nat)
    BY <1>1
  <2>2. \A i \in 1..(L - 1) : \A x \in Seq(Nat) : F[i][x] \in Seq(Nat)
    BY <1>2
  <2> QED BY <1>3, <2>1, <2>2, LoopTyped
<1>5. \A i \in 0..(L - 1) : g[i] = IF i = 0 THEN s[1] ELSE F[i][g[i - 1]]
  <2>1. \A i \in 0..(L - 1) : Looped(s[1], F, L - 1, g)[i] = IF i = 0 THEN s[1] ELSE F[i][g[i - 1]]
    BY DEF Looped
  <2> QED BY <1>3, <2>1
<1> DEFINE f == [i \in 1..L |-> g[i - 1]]
<1>6. ASSUME NEW i \in 1..L PROVE f[i] = IF i = 1 THEN s[i] ELSE f[i - 1] \o s[i]
  <2>1. CASE i = 1
    <3>1. i - 1 = 0 /\ 0 \in 0..(L - 1)
      BY <1>1, <2>1
    <3> QED BY <1>5, <2>1, <3>1
  <2>2. CASE i # 1
    <3>1. i - 1 \in 1..(L - 1) /\ i - 1 \in 0..(L - 1) /\ i - 2 \in 0..(L - 1)
          /\ (i - 1) - 1 = i - 2 /\ (i - 1) + 1 = i /\ i - 1 # 0 /\ i - 1 \in 1..L
      BY <1>1, <2>2
    <3>2. g[i - 1] = F[i - 1][g[i - 2]] /\ g[i - 2] \in Seq(Nat)
      BY <1>4, <1>5, <3>1
    <3>3. g[i - 1] = g[i - 2] \o s[i]
      BY <1>2, <3>1, <3>2
    <3>4. f[i] = g[i - 1] /\ f[i - 1] = g[i - 2]
      BY <3>1
    <3> HIDE DEF f
    <3> QED BY <2>2, <3>3, <3>4
  <2> QED BY <2>1, <2>2
<1>7. f = Joined(s, f)
  <2>1. f = [i \in 1..L |-> f[i]]
    OBVIOUS
  <2> HIDE DEF f
  <2> QED BY <1>6, <2>1 DEF Joined
<1>8. \E h : h = Joined(s, h)
  <2> HIDE DEF f
  <2> QED BY <1>7
<1>9. FlattenSeq(s) = (CHOOSE h : h = Joined(s, h))[Len(s)]
  BY <1>1 DEF FlattenSeq, Joined
<1> QED BY <1>8, <1>9

\* The pieces are found where they were placed, and nothing else is there.
LEMMA Flattened ==
  ASSUME NEW s \in Seq(Seq(Nat)), NEW p, Placed(s, p)
  PROVE  /\ FlattenSeq(s) \in Seq(Nat) /\ Len(FlattenSeq(s)) = p[Len(s)]
         /\ \A i \in 1..Len(s) : Holds(FlattenSeq(s), p[i - 1], s[i])
<1> DEFINE L == Len(s)
<1>0. /\ L \in Nat /\ \A i \in 1..L : s[i] \in Seq(Nat) /\ Len(s[i]) \in Nat
      /\ \A i \in 0..L : p[i] \in Nat
      /\ p[0] = 0 /\ \A i \in 1..L : p[i] = p[i - 1] + Len(s[i])
  <2>1. L \in Nat /\ \A i \in 1..L : s[i] \in Seq(Nat)
    OBVIOUS
  <2>2. \A x \in Seq(Nat) : Len(x) \in Nat
    OBVIOUS
  <2>3. \A i \in 0..L : p[i] \in Nat
    BY DEF Placed
  <2> QED BY <2>1, <2>2, <2>3 DEF Placed
<1>1. CASE s = <<>>
  <2>1. FlattenSeq(s) = <<>> /\ L = 0
    BY <1>1 DEF FlattenSeq
  <2> QED BY <1>0, <2>1
<1>2. CASE s # <<>>
  <2> DEFINE f == CHOOSE g : g = Joined(s, g)
  <2>1. f = Joined(s, f) /\ FlattenSeq(s) = f[L]
    BY <1>2, JoinedIs
  <2> HIDE DEF f
  <2>2. \A i \in 1..L : f[i] = IF i = 1 THEN s[i] ELSE f[i - 1] \o s[i]
    <3>1. \A i \in 1..L : Joined(s, f)[i] = IF i = 1 THEN s[i] ELSE f[i - 1] \o s[i]
      BY DEF Joined
    <3> QED BY <2>1, <3>1
  <2> DEFINE Good(n) == /\ f[n] \in Seq(Nat) /\ Len(f[n]) = p[n]
                        /\ \A i \in 1..n : Holds(f[n], p[i - 1], s[i])
             Upto(n) == n + 1 <= L => Good(n + 1)
             N == {n \in Nat : Upto(n)}
  <2>3. L >= 1 /\ 1 \in 1..L
    BY <1>0, <1>2
  <2>4. 0 \in N
    <3>1. f[1] = s[1] /\ s[1] \in Seq(Nat) /\ p[1] = Len(s[1]) /\ p[1 - 1] = 0
      BY <1>0, <2>2, <2>3
    <3>2. Holds(f[1], p[1 - 1], s[1])
      BY <3>1, HoldsAll
    <3>3. Good(1)
      <4>1. \A i \in 1..1 : i = 1
        OBVIOUS
      <4> QED BY <3>1, <3>2, <4>1
    <3> HIDE DEF Good
    <3>4. 0 + 1 = 1
      OBVIOUS
    <3> QED BY <3>3, <3>4
  <2>5. \A n \in Nat : n \in N => n + 1 \in N
    <3> SUFFICES ASSUME NEW m \in Nat, Upto(m), (m + 1) + 1 <= L PROVE Good((m + 1) + 1)
      OBVIOUS
    <3> DEFINE n == m + 1
    <3>1. n \in Nat /\ n \in 1..L /\ n + 1 \in 1..L /\ n + 1 # 1 /\ (n + 1) - 1 = n /\ Good(n)
      BY <1>0
    <3> HIDE DEF n
    <3>2. f[n + 1] = f[n] \o s[n + 1] /\ p[n + 1] = p[n] + Len(s[n + 1])
      BY <1>0, <2>2, <3>1
    <3> DEFINE a == f[n]
               b == s[n + 1]
               c == f[n + 1]
    <3>3. /\ a \in Seq(Nat) /\ b \in Seq(Nat) /\ c = a \o b
          /\ Len(a) = p[n] /\ p[n + 1] = p[n] + Len(b)
      BY <1>0, <3>1, <3>2
    <3>4. /\ c \in Seq(Nat) /\ Len(c) = Len(a) + Len(b)
          /\ \A j \in 1..Len(a) : c[j] = a[j]
          /\ \A j \in 1..Len(b) : c[Len(a) + j] = b[j]
      <4> HIDE DEF a, b, c
      <4>1. \A x, y \in Seq(Nat) :
              /\ x \o y \in Seq(Nat) /\ Len(x \o y) = Len(x) + Len(y)
              /\ \A j \in 1..Len(x) : (x \o y)[j] = x[j]
              /\ \A j \in 1..Len(y) : (x \o y)[Len(x) + j] = y[j]
        OBVIOUS
      <4> QED BY <3>3, <4>1, ZenonT(60)
    <3>5. Holds(c, p[(n + 1) - 1], b)
      <4> HIDE DEF a, b, c
      <4>1. p[n] + Len(b) <= Len(c)
        BY <3>3, <3>4
      <4>2. \A j \in 1..Len(b) : c[p[n] + j] = b[j]
        BY <3>3, <3>4
      <4> QED BY <3>1, <4>1, <4>2 DEF Holds
    <3>6. ASSUME NEW i \in 1..n PROVE Holds(c, p[i - 1], s[i])
      <4>1. Holds(a, p[i - 1], s[i])
        BY <3>1
      <4>2. i - 1 \in 0..L /\ i \in 1..L
        <5>1. L \in Nat /\ n \in Nat /\ n <= L
          BY <1>0, <3>1
        <5> HIDE DEF L
        <5> QED BY <5>1
      <4>3. p[i - 1] \in Nat /\ Len(s[i]) \in Nat
        BY <1>0, <4>2
      <4> DEFINE q == p[i - 1]
                 x == s[i]
      <4>4. /\ q \in Nat /\ Len(x) \in Nat /\ Len(a) \in Nat /\ Len(b) \in Nat
            /\ q + Len(x) <= Len(a) /\ \A j \in 1..Len(x) : a[q + j] = x[j]
        <5>1. q + Len(x) <= Len(a) /\ \A j \in 1..Len(x) : a[q + j] = x[j]
          <6>1. Holds(a, q, x)
            BY <4>1
          <6> HIDE DEF a, q, x
          <6> QED BY <6>1 DEF Holds
        <5>2. Len(a) \in Nat /\ Len(b) \in Nat
          <6> HIDE DEF a, b, c
          <6> QED BY <3>3
        <5> HIDE DEF a, b
        <5> QED BY <4>3, <5>1, <5>2
      <4> HIDE DEF a, b, c, q, x
      <4>5. \A j \in 1..Len(x) : q + j \in 1..Len(a)
        BY <4>4
      <4>6. \A j \in 1..Len(x) : c[q + j] = x[j]
        BY <3>4, <4>4, <4>5
      <4>7. Holds(c, q, x)
        BY <3>4, <4>4, <4>6 DEF Holds
      <4> QED BY <4>7 DEF q, x
    <3>7. \A i \in 1..(n + 1) : Holds(c, p[i - 1], s[i])
      <4>1. \A i \in 1..(n + 1) : i \in 1..n \/ i = n + 1
        BY <3>1
      <4> HIDE DEF c
      <4> QED BY <3>5, <3>6, <4>1 DEF b
    <3>8. Good(n + 1)
      BY <3>3, <3>4, <3>7
    <3> QED BY <3>8 DEF n
  <2>6. \A n \in Nat : n \in N
    <3> HIDE DEF N
    <3> QED BY <2>4, <2>5, Induction
  <2>7. Good(L)
    <3>1. L - 1 \in Nat /\ (L - 1) + 1 = L
      BY <1>0, <2>3
    <3>2. Upto(L - 1)
      BY <2>6, <3>1
    <3> HIDE DEF Good
    <3> QED BY <1>0, <3>1, <3>2
  <2> QED BY <2>1, <2>7
<1> QED BY <1>1, <1>2

\* Holding is transitive, offsets add up.
LEMMA HoldsWithin ==
  ASSUME NEW d \in Seq(Nat), NEW x \in Seq(Nat), NEW y \in Seq(Nat),
         NEW o \in Nat, NEW q \in Nat, Holds(d, o, x), Holds(x, q, y)
  PROVE  Holds(d, o + q, y)
<1>1. Len(d) \in Nat /\ Len(x) \in Nat /\ Len(y) \in Nat
  OBVIOUS
<1>2. o + Len(x) <= Len(d) /\ q + Len(y) <= Len(x)
  BY DEF Holds
<1>3. ASSUME NEW j \in 1..Len(y) PROVE d[(o + q) + j] = y[j]
  <2>1. q + j \in 1..Len(x) /\ (o + q) + j = o + (q + j)
    BY <1>1, <1>2
  <2>2. d[o + (q + j)] = x[q + j] /\ x[q + j] = y[j]
    BY <2>1 DEF Holds
  <2> QED BY <2>1, <2>2
<1>4. (o + q) + Len(y) <= Len(d)
  BY <1>1, <1>2
<1> QED BY <1>3, <1>4 DEF Holds

\* Pieces of the same size.
LEMMA Columns ==
  ASSUME NEW s \in Seq(Seq(Nat)), NEW w \in Nat, \A i \in 1..Len(s) : Len(s[i]) = w
  PROVE  /\ FlattenSeq(s) \in Seq(Nat) /\ Len(FlattenSeq(s)) = Len(s) * w
         /\ \A i \in 1..Len(s) : Holds(FlattenSeq(s), (i - 1) * w, s[i])
<1> DEFINE p == [i \in 0..Len(s) |-> i * w]
<1>1. Len(s) \in Nat /\ Len(s) \in 0..Len(s)
  OBVIOUS
<1>2. \A i \in 0..Len(s) : p[i] = i * w
  OBVIOUS
<1>3. p \in [0..Len(s) -> Nat]
  <2>1. \A i \in 0..Len(s) : i * w \in Nat
    BY <1>1
  <2> QED BY <2>1
<1> HIDE DEF p
<1>4. \A i \in 1..Len(s) : /\ i - 1 \in 0..Len(s) /\ i \in 0..Len(s)
                           /\ i * w = (i - 1) * w + w
  BY <1>1
<1>5. Placed(s, p)
  <2>1. p[0] = 0
    BY <1>1, <1>2
  <2>2. \A i \in 1..Len(s) : p[i] = p[i - 1] + Len(s[i])
    BY <1>2, <1>4
  <2> QED BY <1>3, <2>1, <2>2 DEF Placed
<1>6. /\ FlattenSeq(s) \in Seq(Nat) /\ Len(FlattenSeq(s)) = p[Len(s)]
      /\ \A i \in 1..Len(s) : Holds(FlattenSeq(s), p[i - 1], s[i])
  BY <1>5, Flattened
<1> QED BY <1>1, <1>2, <1>4, <1>6

\* What is written for the inputs is read back, wherever it is.
LEMMA InputsRead ==
  ASSUME NEW ins \in Seq(TxInput)
  PROVE  /\ PutInputs(ins) \in Seq(Nat) /\ Len(PutInputs(ins)) = 9 * Len(ins)
         /\ \A d \in Seq(Nat), o \in Nat :
              Holds(d, o, PutInputs(ins)) => TakeInputs(d, o, Len(ins)) = ins
<1> DEFINE L == Len(ins)
           s == [i \in 1..L |-> Append(ins[i].txid, ins[i].index)]
<1>1. /\ L \in Nat /\ DOMAIN ins = 1..L
      /\ \A i \in 1..L : /\ ins[i].txid \in Seq(Nat) /\ Len(ins[i].txid) = 8
                         /\ ins[i].index \in Nat
                         /\ ins[i] = [txid |-> ins[i].txid, index |-> ins[i].index]
  <2>1. L \in Nat /\ DOMAIN ins = 1..L /\ \A i \in 1..L : ins[i] \in TxInput
    OBVIOUS
  <2>2. \A x \in TxInput : /\ x.txid \in Words("hash") /\ x.index \in Nat
                           /\ x = [txid |-> x.txid, index |-> x.index]
    BY DEF TxInput
  <2> QED BY <2>1, <2>2, FieldType
<1>2. \A x \in Seq(Nat), v \in Nat :
        /\ Append(x, v) \in Seq(Nat) /\ Len(Append(x, v)) = Len(x) + 1
        /\ Append(x, v) = x \o <<v>> /\ <<v>> \in Seq(Nat)
  OBVIOUS
<1>3. \A i \in 1..L : /\ s[i] \in Seq(Nat) /\ Len(s[i]) = 9
                      /\ s[i] = ins[i].txid \o <<ins[i].index>> /\ <<ins[i].index>> \in Seq(Nat)
  <2> SUFFICES ASSUME NEW i \in 1..L
               PROVE  /\ s[i] \in Seq(Nat) /\ Len(s[i]) = 9
                      /\ s[i] = ins[i].txid \o <<ins[i].index>> /\ <<ins[i].index>> \in Seq(Nat)
    OBVIOUS
  <2>1. s[i] = Append(ins[i].txid, ins[i].index)
    OBVIOUS
  <2> DEFINE a == ins[i].txid
             b == ins[i].index
             c == s[i]
  <2>2. a \in Seq(Nat) /\ Len(a) = 8 /\ b \in Nat /\ c = Append(a, b)
    BY <1>1, <2>1
  <2> HIDE DEF s, a, b, c
  <2>3. c \in Seq(Nat) /\ Len(c) = 9 /\ c = a \o <<b>> /\ <<b>> \in Seq(Nat)
    <3>1. /\ Append(a, b) \in Seq(Nat) /\ Len(Append(a, b)) = Len(a) + 1
          /\ Append(a, b) = a \o <<b>> /\ <<b>> \in Seq(Nat)
      BY <1>2, <2>2
    <3>2. Len(a) + 1 = 9
      BY <2>2
    <3> QED BY <2>2, <3>1, <3>2, Zenon
  <2> QED BY <2>3 DEF a, b, c
<1>4. s \in Seq(Seq(Nat)) /\ Len(s) = L
  <2>1. s \in [1..L -> Seq(Nat)]
    BY <1>3
  <2> HIDE DEF s
  <2> QED BY <1>1, <2>1
<1>5. PutInputs(ins) = FlattenSeq(s)
  BY <1>1 DEF PutInputs
<1> HIDE DEF s
<1>6. /\ FlattenSeq(s) \in Seq(Nat) /\ Len(FlattenSeq(s)) = L * 9
      /\ \A i \in 1..L : Holds(FlattenSeq(s), (i - 1) * 9, s[i])
  BY <1>3, <1>4, Columns
<1>7. ASSUME NEW d \in Seq(Nat), NEW o \in Nat, Holds(d, o, PutInputs(ins))
      PROVE  TakeInputs(d, o, L) = ins
  <2>1. ASSUME NEW i \in 1..L
        PROVE  [txid |-> Take(d, o + (i - 1) * 9, 8), index |-> d[o + (i - 1) * 9 + 9]] = ins[i]
    <3> DEFINE at == o + (i - 1) * 9
    <3>1. (i - 1) * 9 \in Nat /\ at \in Nat /\ (at + 8) + 1 = at + 9
      BY <1>1
    <3>2. Holds(d, at, s[i])
      BY <1>3, <1>5, <1>6, <1>7, <3>1, HoldsWithin
    <3> HIDE DEF at
    <3>3. Holds(d, at, ins[i].txid) /\ Holds(d, at + 8, <<ins[i].index>>)
      <4>1. Holds(d, at, ins[i].txid \o <<ins[i].index>>)
        BY <1>3, <3>2
      <4> QED BY <1>1, <1>3, <3>1, <4>1, HoldsParts, ZenonT(60)
    <3>4. Take(d, at, 8) = ins[i].txid
      <4> DEFINE a == ins[i].txid
      <4>1. a \in Seq(Nat) /\ Len(a) = 8 /\ Holds(d, at, a)
        BY <1>1, <3>3
      <4> HIDE DEF a
      <4>2. Take(d, at, 8) = a
        BY <3>1, <4>1, HoldsTake
      <4> QED BY <4>2 DEF a
    <3>5. d[at + 9] = ins[i].index
      <4>1. d[(at + 8) + 1] = ins[i].index
        <5>1. at + 8 \in Nat
          BY <3>1
        <5> QED BY <1>1, <3>3, <5>1, HoldsWord
      <4> QED BY <3>1, <4>1
    <3>6. [txid |-> Take(d, at, 8), index |-> d[at + 9]] = ins[i]
      BY <1>1, <3>4, <3>5
    <3> QED BY <3>6 DEF at
  <2>2. TakeInputs(d, o, L) =
          [i \in 1..L |-> [txid |-> Take(d, o + (i - 1) * 9, 8), index |-> d[o + (i - 1) * 9 + 9]]]
    BY FieldSizes DEF TakeInputs
  <2>3. TakeInputs(d, o, L) = [i \in 1..L |-> ins[i]]
    BY <2>1, <2>2
  <2>4. ins = [i \in 1..L |-> ins[i]]
    BY <1>1
  <2> QED BY <2>3, <2>4
<1>8. L * 9 = 9 * L
  BY <1>1
<1> QED BY <1>5, <1>6, <1>7, <1>8

\* The same for outputs.
LEMMA OutputsRead ==
  ASSUME NEW outs \in Seq(TxOutput)
  PROVE  /\ PutOutputs(outs) \in Seq(Nat) /\ Len(PutOutputs(outs)) = 7 * Len(outs)
         /\ \A d \in Seq(Nat), o \in Nat :
              Holds(d, o, PutOutputs(outs)) => TakeOutputs(d, o, Len(outs)) = outs
<1> DEFINE L == Len(outs)
           s == [i \in 1..L |-> outs[i].recipient \o outs[i].amount]
<1>1. /\ L \in Nat /\ DOMAIN outs = 1..L
      /\ \A i \in 1..L : /\ outs[i].recipient \in Seq(Nat) /\ Len(outs[i].recipient) = 5
                         /\ outs[i].amount \in Seq(Nat) /\ Len(outs[i].amount) = 2
                         /\ outs[i] = [recipient |-> outs[i].recipient, amount |-> outs[i].amount]
  <2>1. L \in Nat /\ DOMAIN outs = 1..L /\ \A i \in 1..L : outs[i] \in TxOutput
    OBVIOUS
  <2>2. \A x \in TxOutput : /\ x.recipient \in Words("addr") /\ x.amount \in Words("u64")
                            /\ x = [recipient |-> x.recipient, amount |-> x.amount]
    BY DEF TxOutput
  <2> QED BY <2>1, <2>2, FieldType
<1>2. \A x, y \in Seq(Nat) : x \o y \in Seq(Nat) /\ Len(x \o y) = Len(x) + Len(y)
  OBVIOUS
<1>3. \A i \in 1..L : /\ s[i] \in Seq(Nat) /\ Len(s[i]) = 7
                      /\ s[i] = outs[i].recipient \o outs[i].amount
  <2> SUFFICES ASSUME NEW i \in 1..L
               PROVE  /\ s[i] \in Seq(Nat) /\ Len(s[i]) = 7
                      /\ s[i] = outs[i].recipient \o outs[i].amount
    OBVIOUS
  <2>1. s[i] = outs[i].recipient \o outs[i].amount
    OBVIOUS
  <2> DEFINE a == outs[i].recipient
             b == outs[i].amount
             c == s[i]
  <2>2. a \in Seq(Nat) /\ Len(a) = 5 /\ b \in Seq(Nat) /\ Len(b) = 2 /\ c = a \o b
    BY <1>1, <2>1
  <2> HIDE DEF s, a, b, c
  <2>3. c \in Seq(Nat) /\ Len(c) = 7 /\ c = a \o b
    <3>1. a \o b \in Seq(Nat) /\ Len(a \o b) = Len(a) + Len(b)
      BY <1>2, <2>2
    <3>2. Len(a) + Len(b) = 7
      BY <2>2
    <3> QED BY <2>2, <3>1, <3>2, Zenon
  <2> QED BY <2>3 DEF a, b, c
<1>4. s \in Seq(Seq(Nat)) /\ Len(s) = L
  <2>1. s \in [1..L -> Seq(Nat)]
    BY <1>3
  <2> HIDE DEF s
  <2> QED BY <1>1, <2>1, SMTT(40)
<1>5. PutOutputs(outs) = FlattenSeq(s)
  BY <1>1 DEF PutOutputs
<1> HIDE DEF s
<1>6. /\ FlattenSeq(s) \in Seq(Nat) /\ Len(FlattenSeq(s)) = L * 7
      /\ \A i \in 1..L : Holds(FlattenSeq(s), (i - 1) * 7, s[i])
  BY <1>3, <1>4, Columns
<1>7. ASSUME NEW d \in Seq(Nat), NEW o \in Nat, Holds(d, o, PutOutputs(outs))
      PROVE  TakeOutputs(d, o, L) = outs
  <2>1. ASSUME NEW i \in 1..L
        PROVE  [recipient |-> Take(d, o + (i - 1) * 7, 5),
                amount |-> Take(d, o + (i - 1) * 7 + 5, 2)] = outs[i]
    <3> DEFINE at == o + (i - 1) * 7
    <3>1. (i - 1) * 7 \in Nat /\ at \in Nat /\ at + 5 \in Nat
      BY <1>1
    <3>2. Holds(d, at, s[i])
      BY <1>3, <1>5, <1>6, <1>7, <3>1, HoldsWithin
    <3> HIDE DEF at
    <3>3. Holds(d, at, outs[i].recipient) /\ Holds(d, at + 5, outs[i].amount)
      <4>1. Holds(d, at, outs[i].recipient \o outs[i].amount)
        BY <1>3, <3>2
      <4> QED BY <1>1, <3>1, <4>1, HoldsParts, ZenonT(60)
    <3>4. Take(d, at, 5) = outs[i].recipient /\ Take(d, at + 5, 2) = outs[i].amount
      <4> DEFINE a == outs[i].recipient
                 b == outs[i].amount
      <4>1. /\ a \in Seq(Nat) /\ Len(a) = 5 /\ Holds(d, at, a)
            /\ b \in Seq(Nat) /\ Len(b) = 2 /\ Holds(d, at + 5, b)
        BY <1>1, <3>3
      <4> HIDE DEF a, b
      <4>2. Take(d, at, 5) = a /\ Take(d, at + 5, 2) = b
        BY <3>1, <4>1, HoldsTake, ZenonT(60)
      <4> QED BY <4>2 DEF a, b
    <3>5. [recipient |-> Take(d, at, 5), amount |-> Take(d, at + 5, 2)] = outs[i]
      BY <1>1, <3>4
    <3> QED BY <3>5 DEF at
  <2>2. TakeOutputs(d, o, L) =
          [i \in 1..L |-> [recipient |-> Take(d, o + (i - 1) * 7, 5),
                           amount |-> Take(d, o + (i - 1) * 7 + 5, 2)]]
    BY FieldSizes DEF TakeOutputs
  <2>3. TakeOutputs(d, o, L) = [i \in 1..L |-> outs[i]]
    BY <2>1, <2>2
  <2>4. outs = [i \in 1..L |-> outs[i]]
    BY <1>1
  <2> QED BY <2>3, <2>4
<1>8. L * 7 = 7 * L
  BY <1>1
<1> QED BY <1>5, <1>6, <1>7, <1>8

-----------------------------------------------------------------------------
(* Transactions *)

\* Two sequences put after one another.
LEMMA JoinType ==
  ASSUME NEW x \in Seq(Nat), NEW y \in Seq(Nat)
  PROVE  /\ x \o y \in Seq(Nat) /\ Len(x \o y) = Len(x) + Len(y)
         /\ \A i \in 1..Len(x) : (x \o y)[i] = x[i]
OBVIOUS

\* The words of a transaction: which there are, and where.
LEMMA BodyParts ==
  ASSUME NEW id \in Words("hash"), NEW t \in Transaction
  PROVE  LET n == Len(t.inputs)
             m == Len(t.outputs)
             B == PutBody(id, t)
         IN  /\ n \in Nat /\ m \in Nat /\ B \in Seq(Nat) /\ Len(B) = 12 + 9 * n + 7 * m
             /\ \A d \in Seq(Nat), o \in Nat : Holds(d, o, B) =>
                  /\ Holds(d, o, id) /\ Holds(d, o + 8, t.timestamp)
                  /\ Holds(d, o + 10, <<n>>) /\ Holds(d, o + 11, PutInputs(t.inputs))
                  /\ Holds(d, o + 11 + 9 * n, <<m>>)
                  /\ Holds(d, o + 12 + 9 * n, PutOutputs(t.outputs))
<1> DEFINE n == Len(t.inputs)
           m == Len(t.outputs)
           ts == t.timestamp
           I == PutInputs(t.inputs)
           O == PutOutputs(t.outputs)
           B == PutBody(id, t)
<1>1. t.timestamp \in Words("u64") /\ t.inputs \in Seq(TxInput) /\ t.outputs \in Seq(TxOutput)
  BY DEF Transaction
<1>2. id \in Seq(Nat) /\ Len(id) = 8 /\ ts \in Seq(Nat) /\ Len(ts) = 2
  BY <1>1, FieldType
<1>3. n \in Nat /\ m \in Nat
  BY <1>1
<1>4. I \in Seq(Nat) /\ Len(I) = 9 * n /\ O \in Seq(Nat) /\ Len(O) = 7 * m
  BY <1>1, InputsRead, OutputsRead
<1>5. B = id \o ts \o <<n>> \o I \o <<m>> \o O
  BY DEF PutBody
<1> HIDE DEF n, m, ts, I, O, B
<1> DEFINE B2 == id \o ts
           B3 == B2 \o <<n>>
           B4 == B3 \o I
           B5 == B4 \o <<m>>
<1>6. <<n>> \in Seq(Nat) /\ Len(<<n>>) = 1 /\ <<m>> \in Seq(Nat) /\ Len(<<m>>) = 1
  BY <1>3
<1>7. B2 \in Seq(Nat) /\ Len(B2) = 10
  <2>1. B2 \in Seq(Nat) /\ Len(B2) = Len(id) + Len(ts)
    BY <1>2, JoinType
  <2> QED BY <1>2, <2>1
<1> HIDE DEF B2
<1>8. B3 \in Seq(Nat) /\ Len(B3) = 11
  <2>1. B3 \in Seq(Nat) /\ Len(B3) = Len(B2) + Len(<<n>>)
    BY <1>6, <1>7, JoinType
  <2> QED BY <1>6, <1>7, <2>1
<1> HIDE DEF B3
<1>9. B4 \in Seq(Nat) /\ Len(B4) = 11 + 9 * n
  BY <1>4, <1>8, JoinType, ZenonT(60)
<1> HIDE DEF B4
<1>10. B5 \in Seq(Nat) /\ Len(B5) = 12 + 9 * n
  <2>1. B5 \in Seq(Nat) /\ Len(B5) = Len(B4) + Len(<<m>>)
    BY <1>6, <1>9, JoinType
  <2> QED BY <1>3, <1>6, <1>9, <2>1
<1> HIDE DEF B5
<1>11. B = B5 \o O
  BY <1>5 DEF B2, B3, B4, B5
<1>12. B \in Seq(Nat) /\ Len(B) = 12 + 9 * n + 7 * m
  BY <1>3, <1>4, <1>10, <1>11, JoinType
<1>13. ASSUME NEW d \in Seq(Nat), NEW o \in Nat, Holds(d, o, B)
       PROVE  /\ Holds(d, o, id) /\ Holds(d, o + 8, ts)
              /\ Holds(d, o + 10, <<n>>) /\ Holds(d, o + 11, I)
              /\ Holds(d, o + 11 + 9 * n, <<m>>) /\ Holds(d, o + 12 + 9 * n, O)
  <2>1. Holds(d, o, B5) /\ Holds(d, o + Len(B5), O)
    BY <1>4, <1>10, <1>11, <1>13, HoldsParts
  <2>2. Holds(d, o, B4) /\ Holds(d, o + Len(B4), <<m>>)
    BY <1>6, <1>9, <2>1, HoldsParts DEF B5
  <2>3. Holds(d, o, B3) /\ Holds(d, o + Len(B3), I)
    BY <1>4, <1>8, <2>2, HoldsParts DEF B4
  <2>4. Holds(d, o, B2) /\ Holds(d, o + Len(B2), <<n>>)
    BY <1>6, <1>7, <2>3, HoldsParts DEF B3
  <2>5. Holds(d, o, id) /\ Holds(d, o + Len(id), ts)
    BY <1>2, <2>4, HoldsParts DEF B2
  <2>6. /\ o + Len(B4) = o + 11 + 9 * n /\ o + Len(B5) = o + 12 + 9 * n
    BY <1>3, <1>9, <1>10
  <2> QED BY <1>2, <1>7, <1>8, <2>1, <2>2, <2>3, <2>4, <2>5, <2>6
<1> QED BY <1>3, <1>12, <1>13 DEF n, m, ts, I, O, B

\* The steps of TakeBody, with the sizes of the fields.
LEMMA TakeBodyIs ==
  ASSUME NEW d \in Seq(Nat), NEW o \in Nat
  PROVE  TakeBody(d, o) =
    IF ~(o + 11 <= Len(d)) THEN Thrown ELSE
    LET outs == o + 11 + d[o + 11] * 9 + 1
    IN  IF ~(outs <= Len(d)) THEN Thrown ELSE
        LET end == outs + d[outs] * 7
        IN  IF ~(end <= Len(d)) THEN Thrown ELSE
            [ok |-> TRUE, offset |-> end, id |-> Take(d, o, 8),
             timestamp |-> Take(d, o + 8, 2),
             inputs |-> TakeInputs(d, o + 11, d[o + 11]),
             outputs |-> TakeOutputs(d, outs, d[outs])]
<1> DEFINE ins == o + 8 + 2 + 1
           outs == ins + d[ins] * 9 + 1
           end == outs + d[outs] * 7
<1>1. Len(d) \in Nat /\ ins = o + 11 /\ ins \in Nat /\ o + (ins - o) = ins
  OBVIOUS
<1>2. TakeBody(d, o) =
        IF ~(o + (ins - o) <= Len(d)) THEN Thrown ELSE
        IF ~(ins + (outs - ins) <= Len(d)) THEN Thrown ELSE
        IF ~(outs + (end - outs) <= Len(d)) THEN Thrown ELSE
            [ok |-> TRUE, offset |-> end, id |-> Take(d, o, 8),
             timestamp |-> Take(d, o + 8, 2),
             inputs |-> TakeInputs(d, ins, d[ins]),
             outputs |-> TakeOutputs(d, outs, d[outs])]
  BY FieldSizes, ZenonT(60) DEF TakeBody, Has
<1>3. CASE ~(ins <= Len(d))
  BY <1>1, <1>2, <1>3
<1>4. CASE ins <= Len(d)
  <2>1. ins \in 1..Len(d)
    BY <1>1, <1>4
  <2>2. d[ins] \in Nat
    BY <2>1
  <2> HIDE DEF ins
  <2>3. outs \in Nat /\ outs >= 1 /\ ins + (outs - ins) = outs
    BY <1>1, <2>2
  <2>4. CASE ~(outs <= Len(d))
    <3> HIDE DEF outs
    <3>1. TakeBody(d, o) = Thrown
      BY <1>1, <1>2, <1>4, <2>3, <2>4
    <3> QED BY <1>1, <1>4, <2>4, <3>1 DEF outs
  <2>5. CASE outs <= Len(d)
    <3>1. outs \in 1..Len(d)
      BY <1>1, <2>3, <2>5
    <3>2. d[outs] \in Nat
      BY <3>1
    <3> HIDE DEF outs
    <3>3. end \in Nat /\ outs + (end - outs) = end
      BY <2>3, <3>2
    <3> HIDE DEF end
    <3>4. TakeBody(d, o) =
            IF ~(end <= Len(d)) THEN Thrown ELSE
            [ok |-> TRUE, offset |-> end, id |-> Take(d, o, 8),
             timestamp |-> Take(d, o + 8, 2),
             inputs |-> TakeInputs(d, ins, d[ins]),
             outputs |-> TakeOutputs(d, outs, d[outs])]
      BY <1>1, <1>2, <1>4, <2>3, <2>5, <3>3
    <3> QED BY <1>1, <1>4, <2>5, <3>4 DEF outs, end
  <2> QED BY <2>4, <2>5
<1> QED BY <1>3, <1>4

\* What is written for a transaction is read back, wherever it is, ...
LEMMA BodyRead ==
  ASSUME NEW id \in Words("hash"), NEW t \in Transaction,
         NEW d \in Seq(Nat), NEW o \in Nat, Holds(d, o, PutBody(id, t))
  PROVE  TakeBody(d, o) =
           [ok |-> TRUE, offset |-> o + Len(PutBody(id, t)), id |-> id,
            timestamp |-> t.timestamp, inputs |-> t.inputs, outputs |-> t.outputs]
<1> DEFINE n == Len(t.inputs)
           m == Len(t.outputs)
           B == PutBody(id, t)
           outs == o + 12 + 9 * n
<1>1. /\ n \in Nat /\ m \in Nat /\ B \in Seq(Nat) /\ Len(B) = 12 + 9 * n + 7 * m
      /\ Holds(d, o, id) /\ Holds(d, o + 8, t.timestamp)
      /\ Holds(d, o + 10, <<n>>) /\ Holds(d, o + 11, PutInputs(t.inputs))
      /\ Holds(d, o + 11 + 9 * n, <<m>>)
      /\ Holds(d, outs, PutOutputs(t.outputs))
  BY BodyParts
<1>2. t.timestamp \in Words("u64") /\ t.inputs \in Seq(TxInput) /\ t.outputs \in Seq(TxOutput)
  BY DEF Transaction
<1>3. id \in Seq(Nat) /\ Len(id) = 8 /\ t.timestamp \in Seq(Nat) /\ Len(t.timestamp) = 2
  BY <1>2, FieldType
<1>4. o + Len(B) <= Len(d) /\ Len(d) \in Nat
  BY DEF Holds
<1> HIDE DEF n, m, B
<1>5. d[o + 11] = n
  <2>1. o + 10 \in Nat /\ (o + 10) + 1 = o + 11
    OBVIOUS
  <2>2. d[(o + 10) + 1] = n
    BY <1>1, <2>1, HoldsWord
  <2> QED BY <2>1, <2>2
<1>6. outs \in Nat /\ d[outs] = m
  <2>1. o + 11 + 9 * n \in Nat /\ (o + 11 + 9 * n) + 1 = outs /\ outs \in Nat
    <3>1. n \in Nat
      BY <1>1
    <3>2. 9 * n \in Nat
      BY <3>1
    <3> QED BY <3>2
  <2>2. d[(o + 11 + 9 * n) + 1] = m
    BY <1>1, <2>1, HoldsWord
  <2> QED BY <2>1, <2>2
<1>7. Take(d, o, 8) = id
  <2>1. Holds(d, o, id) /\ id \in Seq(Nat) /\ Len(id) = 8
    BY <1>1, <1>3
  <2> QED BY <2>1, HoldsTake
<1>8. Take(d, o + 8, 2) = t.timestamp
  <2> DEFINE x == t.timestamp
  <2>1. o + 8 \in Nat /\ x \in Seq(Nat) /\ Len(x) = 2 /\ Holds(d, o + 8, x)
    BY <1>1, <1>3
  <2> HIDE DEF x
  <2>2. Take(d, o + 8, 2) = x
    BY <2>1, HoldsTake
  <2> QED BY <2>2 DEF x
<1>9. TakeInputs(d, o + 11, n) = t.inputs
  <2>1. o + 11 \in Nat
    OBVIOUS
  <2> QED BY <1>1, <1>2, <2>1, InputsRead DEF n
<1>10. TakeOutputs(d, outs, m) = t.outputs
  BY <1>1, <1>2, <1>6, OutputsRead DEF m
<1>11. /\ o + 11 <= Len(d) /\ o + 11 + d[o + 11] * 9 + 1 = outs /\ outs <= Len(d)
       /\ outs + d[outs] * 7 = o + Len(B)
  <2>1. /\ n \in Nat /\ m \in Nat /\ Len(B) = 12 + 9 * n + 7 * m
        /\ o + Len(B) <= Len(d) /\ Len(d) \in Nat
    BY <1>1, <1>4
  <2> DEFINE a == d[o + 11]
             b == d[outs]
  <2>2. a = n /\ b = m
    BY <1>5, <1>6
  <2> HIDE DEF a, b
  <2>3. /\ o + 11 <= Len(d) /\ o + 11 + a * 9 + 1 = outs /\ outs <= Len(d)
        /\ outs + b * 7 = o + Len(B)
    BY <2>1, <2>2
  <2> QED BY <2>3 DEF a, b
<1> HIDE DEF outs
<1>12. TakeBody(d, o) =
         [ok |-> TRUE, offset |-> o + Len(B), id |-> id,
          timestamp |-> t.timestamp, inputs |-> t.inputs, outputs |-> t.outputs]
  BY <1>4, <1>5, <1>6, <1>7, <1>8, <1>9, <1>10, <1>11, TakeBodyIs, ZenonT(60)
<1> QED BY <1>12 DEF B

\* ... and a part of it is refused.
LEMMA BodyCut ==
  ASSUME NEW id \in Words("hash"), NEW t \in Transaction, NEW e \in Seq(Nat),
         Len(e) < Len(PutBody(id, t)), \A i \in 1..Len(e) : e[i] = PutBody(id, t)[i]
  PROVE  TakeBody(e, 0) = Thrown
<1> DEFINE n == Len(t.inputs)
           m == Len(t.outputs)
           B == PutBody(id, t)
<1>1. /\ n \in Nat /\ m \in Nat /\ B \in Seq(Nat) /\ Len(B) = 12 + 9 * n + 7 * m
      /\ Holds(B, 0 + 10, <<n>>) /\ Holds(B, 0 + 11 + 9 * n, <<m>>)
  <2>1. B \in Seq(Nat)
    BY BodyParts
  <2>2. Holds(B, 0, B)
    BY <2>1, HoldsAll
  <2> QED BY <2>1, <2>2, BodyParts
<1>2. Len(e) \in Nat /\ Len(e) < Len(B) /\ \A i \in 1..Len(e) : e[i] = B[i]
  OBVIOUS
<1> HIDE DEF n, m, B
<1>3. B[11] = n
  <2>1. 0 + 10 \in Nat /\ (0 + 10) + 1 = 11
    OBVIOUS
  <2>2. B[(0 + 10) + 1] = n
    BY <1>1, <2>1, HoldsWord
  <2> QED BY <2>1, <2>2
<1>4. B[12 + 9 * n] = m
  <2>1. 0 + 11 + 9 * n \in Nat /\ (0 + 11 + 9 * n) + 1 = 12 + 9 * n
    BY <1>1
  <2>2. B[(0 + 11 + 9 * n) + 1] = m
    BY <1>1, <2>1, HoldsWord
  <2> QED BY <2>1, <2>2
<1> DEFINE outs == 0 + 11 + e[0 + 11] * 9 + 1
<1>5. CASE ~(0 + 11 <= Len(e))
  BY <1>5, TakeBodyIs
<1>6. CASE 0 + 11 <= Len(e)
  <2>1. 0 + 11 = 11 /\ 11 \in 1..Len(e)
    BY <1>2, <1>6
  <2>2. e[0 + 11] = n
    BY <1>2, <1>3, <2>1
  <2>3. outs = 12 + 9 * n /\ outs \in Nat
    BY <1>1, <2>2
  <2>4. CASE ~(outs <= Len(e))
    BY <1>6, <2>4, TakeBodyIs
  <2>5. CASE outs <= Len(e)
    <3>1. 12 + 9 * n \in 1..Len(e)
      BY <1>1, <1>2, <2>3, <2>5, SMTT(40)
    <3>2. e[outs] = m
      BY <1>2, <1>4, <2>3, <3>1
    <3>3. ~(outs + e[outs] * 7 <= Len(e))
      BY <1>1, <1>2, <2>3, <3>2
    <3> QED BY <1>6, <2>5, <3>3, TakeBodyIs
  <2> QED BY <2>4, <2>5
<1> QED BY <1>5, <1>6

\* A value that is cut short is a proper prefix of it.
LEMMA CutOf ==
  ASSUME NEW d \in Seq(Nat), NEW e \in Cut(d)
  PROVE  e \in Seq(Nat) /\ Len(e) \in Nat /\ Len(e) < Len(d) /\ \A i \in 1..Len(e) : e[i] = d[i]
<1>1. PICK n \in 0..(Len(d) - 1) : e = SubSeq(d, 1, n)
  BY DEF Cut
<1>2. n \in Nat /\ n < Len(d) /\ Len(d) \in Nat
  BY <1>1
<1>3. SubSeq(d, 1, n) \in Seq(Nat) /\ Len(SubSeq(d, 1, n)) = n
      /\ \A i \in 1..n : SubSeq(d, 1, n)[i] = d[i]
  BY <1>2
<1> QED BY <1>1, <1>2, <1>3

\* A transaction has its four fields and no other.
LEMMA TxIs ==
  ASSUME NEW t \in Transaction
  PROVE  /\ t.txid \in Words("hash")
         /\ t = [txid |-> t.txid, timestamp |-> t.timestamp,
                 inputs |-> t.inputs, outputs |-> t.outputs]
BY DEF Transaction

\* A transaction as it is stored is read back, and refused if it is cut.
LEMMA StoredTx ==
  ASSUME NEW t \in Transaction
  PROVE  /\ SerializeTx(t) \in Seq(Nat)
         /\ TakeBody(SerializeTx(t), 0).ok /\ TxOf(TakeBody(SerializeTx(t), 0)) = t
         /\ \A e \in Cut(SerializeTx(t)) : TakeBody(e, 0) = Thrown
<1> DEFINE d == SerializeTx(t)
<1>1. t.txid \in Words("hash") /\ d = PutBody(t.txid, t)
  BY TxIs DEF SerializeTx
<1>2. d \in Seq(Nat)
  BY <1>1, BodyParts
<1>3. Holds(d, 0, PutBody(t.txid, t))
  BY <1>1, <1>2, HoldsAll
<1> HIDE DEF d
<1>4. TakeBody(d, 0) =
        [ok |-> TRUE, offset |-> 0 + Len(PutBody(t.txid, t)), id |-> t.txid,
         timestamp |-> t.timestamp, inputs |-> t.inputs, outputs |-> t.outputs]
  <2>1. 0 \in Nat
    OBVIOUS
  <2> QED BY <1>1, <1>2, <1>3, <2>1, BodyRead, ZenonT(60)
<1>5. TakeBody(d, 0).ok /\ TxOf(TakeBody(d, 0)) = t
  BY <1>4, TxIs DEF TxOf
<1>6. ASSUME NEW e \in Cut(d) PROVE TakeBody(e, 0) = Thrown
  BY <1>1, <1>2, CutOf, BodyCut
<1> QED BY <1>2, <1>5, <1>6 DEF d

\* A submission is read back, also when more words follow it ...
LEMMA SubmissionRead ==
  ASSUME NEW t \in Transaction, NEW sig \in Words("sig")
  PROVE  LET d == SubmitMessage(t.txid, t, sig)
         IN  /\ d \in Seq(Nat)
             /\ \A e \in Seq(Nat) : Holds(e, 0, d) =>
                  parse_create_tx_payload(e) =
                    [ok |-> TRUE, body |-> t, sig |-> sig, offset |-> Len(d)]
<1> DEFINE B == PutBody(t.txid, t)
           d == SubmitMessage(t.txid, t, sig)
<1>1. t.txid \in Words("hash") /\ B \in Seq(Nat) /\ sig \in Seq(Nat) /\ Len(sig) = 16
  BY TxIs, BodyParts, FieldType
<1>2. d = B \o sig /\ d \in Seq(Nat) /\ Len(d) = Len(B) + Len(sig)
  BY <1>1, JoinType DEF SubmitMessage
<1>3. ASSUME NEW e \in Seq(Nat), Holds(e, 0, d)
      PROVE  parse_create_tx_payload(e) =
               [ok |-> TRUE, body |-> t, sig |-> sig, offset |-> Len(d)]
  <2> DEFINE r == TakeBody(e, 0)
  <2>1. Holds(e, 0, B) /\ Holds(e, 0 + Len(B), sig)
    BY <1>1, <1>2, <1>3, HoldsParts
  <2>2. r = [ok |-> TRUE, offset |-> 0 + Len(B), id |-> t.txid,
             timestamp |-> t.timestamp, inputs |-> t.inputs, outputs |-> t.outputs]
    BY <1>1, <2>1, BodyRead
  <2>3. Len(B) \in Nat /\ 0 + Len(B) = Len(B) /\ Len(B) + 16 <= Len(e)
    <3>1. 0 + Len(d) <= Len(e) /\ Len(e) \in Nat
      BY <1>3 DEF Holds
    <3> HIDE DEF d, B
    <3> QED BY <1>1, <1>2, <3>1
  <2> HIDE DEF r, B, d
  <2>4. r.ok /\ r.offset = Len(B) /\ TxOf(r) = t
    BY <2>2, <2>3, TxIs DEF TxOf
  <2>5. Take(e, Len(B), 16) = sig
    BY <1>1, <2>1, <2>3, HoldsTake, ZenonT(60)
  <2>6. parse_create_tx_payload(e) =
          [ok |-> TRUE, body |-> TxOf(r), sig |-> Take(e, r.offset, 16),
           offset |-> r.offset + 16]
    BY <2>3, <2>4, FieldSizes DEF parse_create_tx_payload, Has, r
  <2>7. r.offset + 16 = Len(d)
    BY <1>1, <1>2, <2>4
  <2> QED BY <2>4, <2>5, <2>6, <2>7
<1> QED BY <1>2, <1>3

\* ... and refused when it is cut.
LEMMA SubmissionCut ==
  ASSUME NEW t \in Transaction, NEW sig \in Words("sig"),
         NEW e \in Cut(SubmitMessage(t.txid, t, sig))
  PROVE  parse_create_tx_payload(e) = Thrown
<1> DEFINE B == PutBody(t.txid, t)
           d == SubmitMessage(t.txid, t, sig)
           r == TakeBody(e, 0)
<1>1. t.txid \in Words("hash") /\ B \in Seq(Nat) /\ sig \in Seq(Nat) /\ Len(sig) = 16
  BY TxIs, BodyParts, FieldType
<1>2. d = B \o sig /\ d \in Seq(Nat) /\ Len(d) = Len(B) + Len(sig)
      /\ \A i \in 1..Len(B) : d[i] = B[i]
  <2>1. d = B \o sig
    BY DEF SubmitMessage
  <2> HIDE DEF d, B
  <2> QED BY <1>1, <2>1, JoinType
<1>3. e \in Seq(Nat) /\ Len(e) \in Nat /\ Len(e) < Len(d) /\ \A i \in 1..Len(e) : e[i] = d[i]
  BY <1>2, CutOf
<1>4. Len(B) \in Nat
  BY <1>1
<1> HIDE DEF B, d
<1>5. CASE Len(e) < Len(B)
  <2>1. \A i \in 1..Len(e) : i \in 1..Len(B)
    BY <1>3, <1>4, <1>5
  <2>2. \A i \in 1..Len(e) : e[i] = B[i]
    BY <1>2, <1>3, <2>1
  <2>3. r = Thrown
    BY <1>1, <1>3, <1>5, <2>2, BodyCut DEF B
  <2> QED BY <2>3 DEF parse_create_tx_payload, Thrown
<1>6. CASE Len(B) <= Len(e)
  <2>1. Holds(e, 0, B)
    <3>1. \A i \in 1..Len(B) : i \in 1..Len(e) /\ 0 + i = i
      BY <1>3, <1>4, <1>6
    <3>2. 0 + Len(B) <= Len(e)
      BY <1>3, <1>4, <1>6
    <3> QED BY <1>2, <1>3, <3>1, <3>2 DEF Holds
  <2>2. r = [ok |-> TRUE, offset |-> 0 + Len(B), id |-> t.txid,
             timestamp |-> t.timestamp, inputs |-> t.inputs, outputs |-> t.outputs]
    BY <1>1, <1>3, <2>1, BodyRead DEF B
  <2>3. r.ok /\ r.offset = Len(B)
    BY <1>4, <2>2
  <2>4. ~(Len(B) + 16 <= Len(e))
    BY <1>1, <1>2, <1>3, <1>4
  <2> QED BY <2>3, <2>4, FieldSizes DEF parse_create_tx_payload, Has
<1> QED BY <1>3, <1>4, <1>5, <1>6

\* Words after a value leave the value where it is.
LEMMA HoldsLonger ==
  ASSUME NEW d \in Seq(Nat)
  PROVE  /\ Append(d, 0) \in Seq(Nat) /\ Len(Append(d, 0)) = Len(d) + 1
         /\ Holds(Append(d, 0), 0, d)
BY DEF Holds

\* What RoundTrip and OnlyWholeValues say of transactions.
LEMMA TxValues ==
  ASSUME NEW t \in Transaction, NEW sig \in Words("sig")
  PROVE  LET d == SubmitMessage(t.txid, t, sig)
             got == [body |-> t, sig |-> sig]
         IN  /\ TxOf(LoadPoolValue(SerializeTx(t))) = t
             /\ Written(parse_create_tx_payload(d), got)
             /\ Written(parse_signed_transaction_payload(d), got)
             /\ \A e \in Cut(SerializeTx(t)) : ~LoadPoolValue(e).ok
             /\ \A e \in Cut(d) : ~parse_create_tx_payload(e).ok
             /\ ~parse_signed_transaction_payload(Append(d, 0)).ok
             /\ parse_create_tx_payload(Append(d, 0)) = parse_signed_transaction_payload(d)
<1> DEFINE d == SubmitMessage(t.txid, t, sig)
           got == [body |-> t, sig |-> sig]
           res == [ok |-> TRUE, body |-> t, sig |-> sig, offset |-> Len(d)]
           D == Append(d, 0)
<1>1. d \in Seq(Nat) /\ \A e \in Seq(Nat) : Holds(e, 0, d) => parse_create_tx_payload(e) = res
  BY SubmissionRead
<1>2. \A e \in Cut(d) : parse_create_tx_payload(e) = Thrown
  BY SubmissionCut
<1> HIDE DEF d
<1>3. res.ok /\ res.offset = Len(d) /\ res.body = t /\ res.sig = sig
  OBVIOUS
<1> HIDE DEF res
<1>4. D \in Seq(Nat) /\ Len(D) = Len(d) + 1 /\ Len(d) \in Nat
      /\ parse_create_tx_payload(d) = res /\ parse_create_tx_payload(D) = res
  <2>1. D \in Seq(Nat) /\ Len(D) = Len(d) + 1 /\ Holds(D, 0, d)
    BY <1>1, HoldsLonger
  <2>2. Holds(d, 0, d) /\ Len(d) \in Nat
    BY <1>1, HoldsAll
  <2> HIDE DEF D
  <2> QED BY <1>1, <2>1, <2>2
<1> HIDE DEF D
<1>5. parse_signed_transaction_payload(d) = res
  BY <1>4, <1>3 DEF parse_signed_transaction_payload
<1>6. parse_signed_transaction_payload(D) = Thrown
  <2>1. Len(d) # Len(D)
    BY <1>4
  <2> QED BY <1>4, <1>3, <2>1 DEF parse_signed_transaction_payload
<1>7. Written(res, got)
  <2>1. \A f \in DOMAIN got : f = "body" \/ f = "sig"
    OBVIOUS
  <2>2. res["body"] = got["body"] /\ res["sig"] = got["sig"]
    BY <1>3
  <2> HIDE DEF got
  <2> QED BY <1>3, <2>1, <2>2 DEF Written
<1>8. ~Thrown.ok
  BY DEF Thrown
<1>9. /\ TxOf(LoadPoolValue(SerializeTx(t))) = t
      /\ \A e \in Cut(SerializeTx(t)) : ~LoadPoolValue(e).ok
  BY <1>8, StoredTx DEF LoadPoolValue
<1> HIDE DEF got
<1>10. /\ Written(parse_create_tx_payload(d), got)
       /\ Written(parse_signed_transaction_payload(d), got)
       /\ \A e \in Cut(d) : ~parse_create_tx_payload(e).ok
       /\ ~parse_signed_transaction_payload(D).ok
       /\ parse_create_tx_payload(D) = parse_signed_transaction_payload(d)
  BY <1>2, <1>4, <1>5, <1>6, <1>7, <1>8
<1> QED BY <1>9, <1>10 DEF d, D, got

\* The words a txid is the hash of, and where they are.
LEMMA PreimageParts ==
  ASSUME NEW t \in Transaction
  PROVE  LET n == Len(t.inputs)
             m == Len(t.outputs)
             P == TxidPreimage(t)
         IN  /\ n \in Nat /\ m \in Nat /\ P \in Seq(Nat) /\ Len(P) = 9 * n + 7 * m + 2
             /\ TakeInputs(P, 0, n) = t.inputs
             /\ TakeOutputs(P, 9 * n, m) = t.outputs
             /\ Take(P, 9 * n + 7 * m, 2) = t.timestamp
<1> DEFINE n == Len(t.inputs)
           m == Len(t.outputs)
           ts == t.timestamp
           I == PutInputs(t.inputs)
           O == PutOutputs(t.outputs)
           P == TxidPreimage(t)
<1>1. t.timestamp \in Words("u64") /\ t.inputs \in Seq(TxInput) /\ t.outputs \in Seq(TxOutput)
  BY DEF Transaction
<1>2. ts \in Seq(Nat) /\ Len(ts) = 2 /\ n \in Nat /\ m \in Nat
  BY <1>1, FieldType
<1>3. I \in Seq(Nat) /\ Len(I) = 9 * n /\ O \in Seq(Nat) /\ Len(O) = 7 * m
  BY <1>1, InputsRead, OutputsRead
<1>4. P = I \o O \o ts
  BY DEF TxidPreimage
<1>5. /\ \A d \in Seq(Nat), o \in Nat : Holds(d, o, I) => TakeInputs(d, o, n) = t.inputs
      /\ \A d \in Seq(Nat), o \in Nat : Holds(d, o, O) => TakeOutputs(d, o, m) = t.outputs
  BY <1>1, InputsRead, OutputsRead
<1> HIDE DEF n, m, ts, I, O, P
<1> DEFINE Q == I \o O
<1>6. Q \in Seq(Nat) /\ Len(Q) = 9 * n + 7 * m
  BY <1>3, JoinType
<1> HIDE DEF Q
<1>7. P = Q \o ts
  BY <1>4 DEF Q
<1>8. P \in Seq(Nat) /\ Len(P) = 9 * n + 7 * m + 2
  <2>1. P \in Seq(Nat) /\ Len(P) = Len(Q) + Len(ts)
    BY <1>2, <1>6, <1>7, JoinType
  <2> QED BY <1>2, <1>6, <2>1
<1>9. Holds(P, 0, Q) /\ Holds(P, 0 + Len(Q), ts)
  <2>1. Holds(P, 0, Q \o ts)
    BY <1>7, <1>8, HoldsAll
  <2> QED BY <1>2, <1>6, <1>8, <2>1, HoldsParts
<1>10. Holds(P, 0, I) /\ Holds(P, 0 + Len(I), O)
  <2>1. Holds(P, 0, I \o O)
    BY <1>9 DEF Q
  <2> QED BY <1>3, <1>8, <2>1, HoldsParts
<1>11. 0 + Len(I) = 9 * n /\ 0 + Len(Q) = 9 * n + 7 * m /\ 9 * n \in Nat /\ 9 * n + 7 * m \in Nat
  BY <1>2, <1>3, <1>6
<1>12. TakeInputs(P, 0, n) = t.inputs
  BY <1>5, <1>8, <1>10
<1>13. TakeOutputs(P, 9 * n, m) = t.outputs
  BY <1>5, <1>8, <1>10, <1>11
<1>14. Take(P, 9 * n + 7 * m, 2) = ts
  <2> DEFINE o == 9 * n + 7 * m
  <2>1. o \in Nat /\ Holds(P, o, ts)
    BY <1>9, <1>11
  <2> HIDE DEF o
  <2>2. Take(P, o, 2) = ts
    BY <1>2, <1>8, <2>1, HoldsTake
  <2> QED BY <2>2 DEF o
<1> QED BY <1>2, <1>8, <1>12, <1>13, <1>14 DEF n, m, ts, P

\* What TxidCommits says of two transactions.
LEMMA SamePreimage ==
  ASSUME NEW t \in Transaction, NEW u \in Transaction, TxidPreimage(u) = TxidPreimage(t)
  PROVE  LET more  == Len(u.inputs) - Len(t.inputs)
             fewer == Len(t.outputs) - Len(u.outputs)
         IN  Contents(u) = Contents(t) \/ (more # 0 /\ 9 * more = 7 * fewer)
<1> DEFINE n == Len(t.inputs)
           m == Len(t.outputs)
           k == Len(u.inputs)
           l == Len(u.outputs)
           P == TxidPreimage(t)
           Q == TxidPreimage(u)
<1>1. /\ n \in Nat /\ m \in Nat /\ Len(P) = 9 * n + 7 * m + 2
      /\ TakeInputs(P, 0, n) = t.inputs /\ TakeOutputs(P, 9 * n, m) = t.outputs
      /\ Take(P, 9 * n + 7 * m, 2) = t.timestamp
  BY PreimageParts
<1>2. /\ k \in Nat /\ l \in Nat /\ Len(Q) = 9 * k + 7 * l + 2
      /\ TakeInputs(Q, 0, k) = u.inputs /\ TakeOutputs(Q, 9 * k, l) = u.outputs
      /\ Take(Q, 9 * k + 7 * l, 2) = u.timestamp
  BY PreimageParts
<1>3. P = Q
  OBVIOUS
<1> HIDE DEF n, m, k, l, P, Q
<1>4. 9 * (k - n) = 7 * (m - l)
  <2>1. 9 * n + 7 * m + 2 = 9 * k + 7 * l + 2
    BY <1>1, <1>2, <1>3
  <2> QED BY <1>1, <1>2, <2>1
<1>5. CASE k = n
  <2>1. m = l
    BY <1>1, <1>2, <1>4, <1>5
  <2>2. Contents(u) = Contents(t)
    BY <1>1, <1>2, <1>3, <1>5, <2>1 DEF Contents
  <2> QED BY <2>2
<1>6. CASE k # n
  <2>1. k - n # 0
    BY <1>1, <1>2, <1>6
  <2> QED BY <1>4, <2>1 DEF n, m, k, l
<1> QED BY <1>5, <1>6

\* Transaction::compute_hash: two transactions that get the same txid differ at
\* most in where their inputs end and their outputs begin, and then one has a
\* multiple of 7 inputs more.
THEOREM TxidsCommit == Spec => []TxidCommits
<1>1. ASSUME Picked PROVE TxidCommits
  <2> SUFFICES ASSUME case.kind = "tx", NEW r \in Hashed, r.preimage = TxidPreimage(case.t)
               PROVE  LET more  == Len(r.t.inputs) - Len(case.t.inputs)
                          fewer == Len(case.t.outputs) - Len(r.t.outputs)
                      IN  Contents(r.t) = Contents(case.t) \/ (more # 0 /\ 9 * more = 7 * fewer)
    BY DEF TxidCommits
  <2>1. r.t \in Txs /\ r.preimage = TxidPreimage(r.t)
    BY DEF Hashed
  <2>2. case.t \in Transaction /\ r.t \in Transaction
    BY <1>1, <2>1, CaseOf, EncodingAssumption
  <2> QED BY <2>1, <2>2, SamePreimage
<1> QED BY <1>1, AlwaysPicked, PTL

-----------------------------------------------------------------------------
(* Headers and messages *)

\* A header is 20 words, and is read back.
LEMMA HeaderRead ==
  ASSUME NEW h \in BlockHeader
  PROVE  /\ SerializeHeader(h) \in Seq(Nat) /\ Len(SerializeHeader(h)) = 20
         /\ \A d \in Seq(Nat) : Holds(d, 0, SerializeHeader(h)) => HeaderOf(d) = h
<1> DEFINE a == h.prev_hash
           b == h.merkle_root
           c == h.timestamp
           n == h.nonce
           S == SerializeHeader(h)
<1>1. /\ a \in Words("hash") /\ b \in Words("hash") /\ c \in Words("u64") /\ n \in Words("u64")
      /\ h = [prev_hash |-> a, merkle_root |-> b, timestamp |-> c, nonce |-> n]
  BY DEF BlockHeader
<1>2. S = a \o b \o c \o n
  BY DEF SerializeHeader
<1> HIDE DEF a, b, c, n, S
<1>3. /\ a \in Seq(Nat) /\ Len(a) = 8 /\ b \in Seq(Nat) /\ Len(b) = 8
      /\ c \in Seq(Nat) /\ Len(c) = 2 /\ n \in Seq(Nat) /\ Len(n) = 2
  BY <1>1, FieldType
<1> DEFINE B2 == a \o b
           B3 == B2 \o c
<1>4. B2 \in Seq(Nat) /\ Len(B2) = 16
  <2>1. B2 \in Seq(Nat) /\ Len(B2) = Len(a) + Len(b)
    BY <1>3, JoinType
  <2> QED BY <1>3, <2>1
<1> HIDE DEF B2
<1>5. B3 \in Seq(Nat) /\ Len(B3) = 18
  <2>1. B3 \in Seq(Nat) /\ Len(B3) = Len(B2) + Len(c)
    BY <1>3, <1>4, JoinType
  <2> QED BY <1>3, <1>4, <2>1
<1> HIDE DEF B3
<1>6. S = B3 \o n
  BY <1>2 DEF B2, B3
<1>7. S \in Seq(Nat) /\ Len(S) = 20
  <2>1. S \in Seq(Nat) /\ Len(S) = Len(B3) + Len(n)
    BY <1>3, <1>5, <1>6, JoinType
  <2> QED BY <1>3, <1>5, <2>1
<1>8. ASSUME NEW d \in Seq(Nat), Holds(d, 0, S) PROVE HeaderOf(d) = h
  <2>1. Holds(d, 0, B3) /\ Holds(d, 0 + Len(B3), n)
    BY <1>3, <1>5, <1>6, <1>8, HoldsParts
  <2>2. Holds(d, 0, B2) /\ Holds(d, 0 + Len(B2), c)
    BY <1>3, <1>4, <2>1, HoldsParts DEF B3
  <2>3. Holds(d, 0, a) /\ Holds(d, 0 + Len(a), b)
    BY <1>3, <2>2, HoldsParts DEF B2
  <2>4. 0 + Len(a) = 8 /\ 0 + Len(B2) = 16 /\ 0 + Len(B3) = 18
    BY <1>3, <1>4, <1>5
  <2>5. Holds(d, 8, b) /\ Holds(d, 16, c) /\ Holds(d, 18, n)
    BY <2>1, <2>2, <2>3, <2>4
  <2>6. 0 \in Nat /\ 8 \in Nat /\ 16 \in Nat /\ 18 \in Nat
    OBVIOUS
  <2>7. Take(d, 0, 8) = a /\ Take(d, 8, 8) = b
    <3>1. Take(d, 0, 8) = a
      BY <1>3, <2>3, <2>6, HoldsTake
    <3>2. Take(d, 8, 8) = b
      BY <1>3, <2>5, <2>6, HoldsTake
    <3> QED BY <3>1, <3>2
  <2>8. Take(d, 16, 2) = c /\ Take(d, 18, 2) = n
    <3>1. Take(d, 16, 2) = c
      BY <1>3, <2>5, <2>6, HoldsTake
    <3>2. Take(d, 18, 2) = n
      BY <1>3, <2>5, <2>6, HoldsTake, ZenonT(60)
    <3> QED BY <3>1, <3>2
  <2>9. HeaderOf(d) = [prev_hash |-> Take(d, 0, 8), merkle_root |-> Take(d, 8, 8),
                       timestamp |-> Take(d, 16, 2), nonce |-> Take(d, 18, 2)]
    BY FieldSizes DEF HeaderOf
  <2> QED BY <1>1, <2>7, <2>8, <2>9
<1> QED BY <1>7, <1>8 DEF S

\* The txids of a CreateBlock message are read back.
LEMMA RefsRead ==
  ASSUME NEW refs \in Seq(Words("hash"))
  PROVE  /\ FlattenSeq(refs) \in Seq(Nat) /\ Len(FlattenSeq(refs)) = 8 * Len(refs)
         /\ \A d \in Seq(Nat), o \in Nat : Holds(d, o, FlattenSeq(refs)) =>
              [i \in 1..Len(refs) |-> Take(d, o + (i - 1) * 8, 8)] = refs
<1> DEFINE L == Len(refs)
<1>1. L \in Nat /\ refs = [i \in 1..L |-> refs[i]] /\ \A i \in 1..L : refs[i] \in Words("hash")
  OBVIOUS
<1>2. \A i \in 1..L : refs[i] \in Seq(Nat) /\ Len(refs[i]) = 8
  BY <1>1, FieldType
<1>3. refs \in Seq(Seq(Nat))
  <2>1. refs \in [1..L -> Seq(Nat)]
    BY <1>1, <1>2
  <2> QED BY <1>1, <2>1
<1>4. /\ FlattenSeq(refs) \in Seq(Nat) /\ Len(FlattenSeq(refs)) = L * 8
      /\ \A i \in 1..L : Holds(FlattenSeq(refs), (i - 1) * 8, refs[i])
  BY <1>2, <1>3, Columns
<1>5. ASSUME NEW d \in Seq(Nat), NEW o \in Nat, Holds(d, o, FlattenSeq(refs)), NEW i \in 1..L
      PROVE  Take(d, o + (i - 1) * 8, 8) = refs[i]
  <2> DEFINE at == o + (i - 1) * 8
             x == refs[i]
  <2>1. (i - 1) * 8 \in Nat /\ at \in Nat
    BY <1>1
  <2>2. x \in Seq(Nat) /\ Len(x) = 8
    BY <1>2
  <2>3. Holds(d, at, x)
    BY <1>4, <1>5, <2>1, <2>2, HoldsWithin
  <2> HIDE DEF at, x
  <2>4. Take(d, at, 8) = x
    BY <2>1, <2>2, <2>3, HoldsTake
  <2> QED BY <2>4 DEF at, x
<1>6. ASSUME NEW d \in Seq(Nat), NEW o \in Nat, Holds(d, o, FlattenSeq(refs))
      PROVE  [i \in 1..L |-> Take(d, o + (i - 1) * 8, 8)] = refs
  BY <1>1, <1>5, <1>6
<1>7. L * 8 = 8 * L
  BY <1>1
<1> QED BY <1>4, <1>6, <1>7

\* The words of a CreateBlock message, and where they are.
LEMMA MessageParts ==
  ASSUME NEW m \in Message
  PROVE  LET n == Len(m.refs)
             M == BlockMessage(m)
         IN  /\ n \in Nat /\ M \in Seq(Nat) /\ Len(M) = 30 + 8 * n /\ M[30] = n
             /\ HeaderOf(M) = m.header /\ Take(M, 20, 5) = m.address
             /\ Take(M, 25, 2) = m.reward /\ Take(M, 27, 2) = m.timestamp
             /\ [i \in 1..n |-> Take(M, 30 + (i - 1) * 8, 8)] = m.refs
<1> DEFINE n == Len(m.refs)
           M == BlockMessage(m)
           H == SerializeHeader(m.header)
           a == m.address
           r == m.reward
           t == m.timestamp
           R == FlattenSeq(m.refs)
<1>1. /\ m.header \in BlockHeader /\ a \in Words("addr") /\ r \in Words("u64")
      /\ t \in Words("u64") /\ m.refs \in Seq(Words("hash"))
  BY DEF Message
<1>2. n \in Nat /\ R \in Seq(Nat) /\ Len(R) = 8 * n
  BY <1>1, RefsRead
<1>3. H \in Seq(Nat) /\ Len(H) = 20
  BY <1>1, HeaderRead
<1>4. M = H \o a \o r \o t \o <<n>> \o R
  BY DEF BlockMessage
<1>5. /\ \A d \in Seq(Nat) : Holds(d, 0, H) => HeaderOf(d) = m.header
      /\ \A d \in Seq(Nat), o \in Nat : Holds(d, o, R) =>
           [i \in 1..n |-> Take(d, o + (i - 1) * 8, 8)] = m.refs
  BY <1>1, HeaderRead, RefsRead
<1> HIDE DEF n, M, H, a, r, t, R
<1>6. /\ a \in Seq(Nat) /\ Len(a) = 5 /\ r \in Seq(Nat) /\ Len(r) = 2
      /\ t \in Seq(Nat) /\ Len(t) = 2 /\ <<n>> \in Seq(Nat) /\ Len(<<n>>) = 1
  BY <1>1, <1>2, FieldType
<1> DEFINE B2 == H \o a
           B3 == B2 \o r
           B4 == B3 \o t
           B5 == B4 \o <<n>>
<1>7. B2 \in Seq(Nat) /\ Len(B2) = 25
  <2>1. B2 \in Seq(Nat) /\ Len(B2) = Len(H) + Len(a)
    BY <1>3, <1>6, JoinType
  <2> QED BY <1>3, <1>6, <2>1
<1> HIDE DEF B2
<1>8. B3 \in Seq(Nat) /\ Len(B3) = 27
  <2>1. B3 \in Seq(Nat) /\ Len(B3) = Len(B2) + Len(r)
    BY <1>6, <1>7, JoinType
  <2> QED BY <1>6, <1>7, <2>1
<1> HIDE DEF B3
<1>9. B4 \in Seq(Nat) /\ Len(B4) = 29
  <2>1. B4 \in Seq(Nat) /\ Len(B4) = Len(B3) + Len(t)
    BY <1>6, <1>8, JoinType
  <2> QED BY <1>6, <1>8, <2>1
<1> HIDE DEF B4
<1>10. B5 \in Seq(Nat) /\ Len(B5) = 30
  <2>1. B5 \in Seq(Nat) /\ Len(B5) = Len(B4) + Len(<<n>>)
    BY <1>6, <1>9, JoinType
  <2> QED BY <1>6, <1>9, <2>1
<1> HIDE DEF B5
<1>11. M = B5 \o R
  BY <1>4 DEF B2, B3, B4, B5
<1>12. M \in Seq(Nat) /\ Len(M) = 30 + 8 * n
  <2>1. M \in Seq(Nat) /\ Len(M) = Len(B5) + Len(R)
    BY <1>2, <1>10, <1>11, JoinType
  <2> QED BY <1>2, <1>10, <2>1
<1>13. Holds(M, 0, B5) /\ Holds(M, 0 + Len(B5), R)
  <2>1. Holds(M, 0, B5 \o R)
    BY <1>11, <1>12, HoldsAll
  <2> QED BY <1>2, <1>10, <1>12, <2>1, HoldsParts
<1>14. Holds(M, 0, B4) /\ Holds(M, 0 + Len(B4), <<n>>)
  BY <1>6, <1>9, <1>12, <1>13, HoldsParts DEF B5
<1>15. Holds(M, 0, B3) /\ Holds(M, 0 + Len(B3), t)
  BY <1>6, <1>8, <1>12, <1>14, HoldsParts DEF B4
<1>16. Holds(M, 0, B2) /\ Holds(M, 0 + Len(B2), r)
  BY <1>6, <1>7, <1>12, <1>15, HoldsParts DEF B3
<1>17. Holds(M, 0, H) /\ Holds(M, 0 + Len(H), a)
  BY <1>3, <1>6, <1>12, <1>16, HoldsParts DEF B2
<1>18. /\ 0 + Len(H) = 20 /\ 0 + Len(B2) = 25 /\ 0 + Len(B3) = 27 /\ 0 + Len(B4) = 29
       /\ 0 + Len(B5) = 30
  BY <1>3, <1>7, <1>8, <1>9, <1>10
<1>19. /\ Holds(M, 20, a) /\ Holds(M, 25, r) /\ Holds(M, 27, t) /\ Holds(M, 29, <<n>>)
       /\ Holds(M, 30, R)
  BY <1>13, <1>14, <1>15, <1>16, <1>17, <1>18
<1>20. 20 \in Nat /\ 25 \in Nat /\ 27 \in Nat /\ 29 \in Nat /\ 30 \in Nat /\ 29 + 1 = 30
  OBVIOUS
<1>21. Take(M, 20, 5) = a
  BY <1>6, <1>12, <1>19, <1>20, HoldsTake, ZenonT(60)
<1>22. Take(M, 25, 2) = r
  BY <1>6, <1>12, <1>19, <1>20, HoldsTake, ZenonT(60)
<1>23. Take(M, 27, 2) = t
  BY <1>6, <1>12, <1>19, <1>20, HoldsTake, ZenonT(60)
<1>24. M[29 + 1] = n
  BY <1>2, <1>12, <1>19, <1>20, HoldsWord, SMTT(40)
<1>25. HeaderOf(M) = m.header
  BY <1>5, <1>12, <1>17
<1>26. [i \in 1..n |-> Take(M, 30 + (i - 1) * 8, 8)] = m.refs
  BY <1>5, <1>12, <1>19, <1>20
<1> QED BY <1>2, <1>12, <1>20, <1>21, <1>22, <1>23, <1>24, <1>25, <1>26 DEF n, M, a, r, t

\* What RoundTrip and OnlyWholeValues say of messages of miners.
LEMMA MessageValues ==
  ASSUME NEW m \in Message
  PROVE  /\ Written(parse_create_block_payload(BlockMessage(m)), m)
         /\ \A e \in Cut(BlockMessage(m)) : ~parse_create_block_payload(e).ok
<1> DEFINE n == Len(m.refs)
           M == BlockMessage(m)
<1>1. /\ n \in Nat /\ M \in Seq(Nat) /\ Len(M) = 30 + 8 * n /\ M[30] = n
      /\ HeaderOf(M) = m.header /\ Take(M, 20, 5) = m.address
      /\ Take(M, 25, 2) = m.reward /\ Take(M, 27, 2) = m.timestamp
      /\ [i \in 1..n |-> Take(M, 30 + (i - 1) * 8, 8)] = m.refs
  BY MessageParts
<1> HIDE DEF M
<1>2. ASSUME NEW d \in Seq(Nat)
      PROVE  parse_create_block_payload(d) =
               IF ~(0 + 30 <= Len(d)) THEN Thrown
               ELSE IF ~(30 + d[30] * 8 <= Len(d)) THEN Thrown
               ELSE [ok |-> TRUE, header |-> HeaderOf(d), address |-> Take(d, 20, 5),
                     reward |-> Take(d, 25, 2), timestamp |-> Take(d, 27, 2),
                     refs |-> [i \in 1..d[30] |-> Take(d, 30 + (i - 1) * 8, 8)]]
  <2>1. 20 + 5 = 25 /\ 20 + 5 + 2 = 27 /\ 20 + 5 + 2 * 2 + 1 = 30
    OBVIOUS
  <2> QED BY <2>1, FieldSizes, ZenonT(60) DEF parse_create_block_payload, Has
<1>3. parse_create_block_payload(M) =
        [ok |-> TRUE, header |-> m.header, address |-> m.address, reward |-> m.reward,
         timestamp |-> m.timestamp, refs |-> m.refs]
  <2> HIDE DEF n
  <2>1. 0 + 30 <= Len(M) /\ 30 + M[30] * 8 <= Len(M)
    <3>1. n \in Nat /\ Len(M) = 30 + 8 * n /\ M[30] = n
      BY <1>1
    <3>2. 0 + 30 <= Len(M) /\ 30 + n * 8 <= Len(M)
      BY <3>1
    <3> QED BY <3>1, <3>2
  <2> QED BY <1>1, <1>2, <2>1
<1>4. Written(parse_create_block_payload(M), m)
  <2>1. \A f \in DOMAIN m : f \in {"header", "address", "reward", "timestamp", "refs"}
    BY DEF Message
  <2> DEFINE p == parse_create_block_payload(M)
  <2>2. p.ok /\ p.header = m.header /\ p.address = m.address /\ p.reward = m.reward
        /\ p.timestamp = m.timestamp /\ p.refs = m.refs
    BY <1>3
  <2> HIDE DEF p
  <2>3. \A f \in DOMAIN m : p[f] = m[f]
    BY <2>1, <2>2
  <2>4. Written(p, m)
    BY <2>2, <2>3 DEF Written
  <2> QED BY <2>4 DEF p
<1>5. ASSUME NEW e \in Cut(M) PROVE ~parse_create_block_payload(e).ok
  <2>1. e \in Seq(Nat) /\ Len(e) \in Nat /\ Len(e) < Len(M) /\ \A i \in 1..Len(e) : e[i] = M[i]
    BY <1>1, CutOf
  <2>2. 0 + 30 <= Len(e) => ~(30 + e[30] * 8 <= Len(e))
    <3> SUFFICES ASSUME 0 + 30 <= Len(e) PROVE ~(30 + e[30] * 8 <= Len(e))
      OBVIOUS
    <3>1. 30 \in 1..Len(e)
      BY <2>1
    <3>2. e[30] = n
      BY <1>1, <2>1, <3>1
    <3> HIDE DEF n
    <3> QED BY <1>1, <2>1, <3>2
  <2>3. parse_create_block_payload(e) = Thrown
    BY <1>2, <2>1, <2>2
  <2> QED BY <2>3 DEF Thrown
<1> QED BY <1>4, <1>5 DEF M

-----------------------------------------------------------------------------
(* Blocks *)

\* Sequences can be placed after one another.
LEMMA CanBePlaced == ASSUME NEW s \in Seq(Seq(Nat)) PROVE \E p : Placed(s, p)
<1> DEFINE L == Len(s)
           F == [i \in 1..L |-> [x \in Nat |-> x + Len(s[i])]]
<1>1. L \in Nat /\ \A i \in 1..L : s[i] \in Seq(Nat)
  OBVIOUS
<1>2. \A i \in 1..L : Len(s[i]) \in Nat
  <2>1. \A x \in Seq(Nat) : Len(x) \in Nat
    OBVIOUS
  <2> QED BY <1>1, <2>1
<1>3. \A i \in 1..L : \A x \in Nat : F[i][x] \in Nat /\ F[i][x] = x + Len(s[i])
  BY <1>2
<1> HIDE DEF F
<1>4. PICK g : g = Looped(0, F, L, g)
  BY <1>1, LoopRuns
<1>5. \A i \in 0..L : g[i] \in Nat
  <2>1. \A i \in 1..L : \A x \in Nat : F[i][x] \in Nat
    BY <1>3
  <2> QED BY <1>1, <1>4, <2>1, LoopTyped
<1>6. \A i \in 0..L : Looped(0, F, L, g)[i] = IF i = 0 THEN 0 ELSE F[i][g[i - 1]]
  BY DEF Looped
<1>7. DOMAIN g = 0..L /\ g = [i \in 0..L |-> g[i]]
  BY <1>4 DEF Looped
<1>8. g[0] = 0
  <2>1. 0 \in 0..L
    BY <1>1
  <2> QED BY <1>4, <1>6, <2>1
<1>9. ASSUME NEW i \in 1..L PROVE g[i] = g[i - 1] + Len(s[i])
  <2>1. i \in 0..L /\ i - 1 \in 0..L /\ i # 0
    BY <1>1
  <2>2. g[i] = F[i][g[i - 1]]
    BY <1>4, <1>6, <2>1
  <2> QED BY <1>3, <1>5, <2>1, <2>2
<1>10. g \in [0..L -> Nat]
  BY <1>5, <1>7
<1> QED BY <1>8, <1>9, <1>10 DEF Placed

\* Where the transactions of a block begin and end.
TxPlaces(b, q) ==
  /\ q \in [0..Len(b.transactions) -> Nat] /\ q[0] = 21
  /\ \A i \in 1..Len(b.transactions) :
       q[i] = q[i - 1] + 1 + Len(SerializeTx(b.transactions[i]))

\* The parts of a block have their types.
LEMMA BlockType ==
  ASSUME NEW b \in Block
  PROVE  /\ b.header \in BlockHeader /\ Len(b.transactions) \in Nat
         /\ DOMAIN b.transactions = 1..Len(b.transactions)
         /\ b.transactions = [i \in 1..Len(b.transactions) |-> b.transactions[i]]
         /\ \A i \in 1..Len(b.transactions) :
              /\ b.transactions[i] \in Transaction
              /\ SerializeTx(b.transactions[i]) \in Seq(Nat)
              /\ Len(SerializeTx(b.transactions[i])) \in Nat
<1> DEFINE x == b.transactions
<1>1. b.header \in BlockHeader /\ x \in Seq(Transaction)
  BY DEF Block
<1> HIDE DEF x
<1>2. /\ Len(x) \in Nat /\ DOMAIN x = 1..Len(x) /\ x = [i \in 1..Len(x) |-> x[i]]
      /\ \A i \in 1..Len(x) : x[i] \in Transaction
  BY <1>1
<1>3. \A t \in Transaction : SerializeTx(t) \in Seq(Nat)
  BY StoredTx
<1>4. \A y \in Seq(Nat) : Len(y) \in Nat
  OBVIOUS
<1>5. \A i \in 1..Len(x) : /\ x[i] \in Transaction /\ SerializeTx(x[i]) \in Seq(Nat)
                           /\ Len(SerializeTx(x[i])) \in Nat
  BY <1>2, <1>3, <1>4
<1> QED BY <1>1, <1>2, <1>5 DEF x

\* A transaction in a block, behind its size.
LEMMA SizedType ==
  ASSUME NEW x \in Seq(Nat)
  PROVE  /\ Sized(x) \in Seq(Nat) /\ Len(Sized(x)) = 1 + Len(x)
         /\ <<4 * Len(x)>> \in Seq(Nat) /\ Len(<<4 * Len(x)>>) = 1
         /\ Sized(x) = <<4 * Len(x)>> \o x
<1> DEFINE v == 4 * Len(x)
<1>1. v \in Nat
  OBVIOUS
<1>2. Sized(x) = <<v>> \o x
  BY DEF Sized
<1> HIDE DEF v
<1>3. <<v>> \in Seq(Nat) /\ Len(<<v>>) = 1
  BY <1>1
<1>4. <<v>> \o x \in Seq(Nat) /\ Len(<<v>> \o x) = Len(<<v>>) + Len(x)
  BY <1>3, JoinType
<1> QED BY <1>2, <1>3, <1>4 DEF v

\* The words of a block: which there are, and where.
LEMMA BlockParts ==
  ASSUME NEW b \in Block
  PROVE  LET d == SerializeBlock(b)
             L == Len(b.transactions)
         IN  /\ d \in Seq(Nat) /\ Holds(d, 0, SerializeHeader(b.header)) /\ Holds(d, 20, <<L>>)
             /\ \E q : /\ TxPlaces(b, q) /\ Len(d) = q[L]
                       /\ \A i \in 1..L :
                            Holds(d, q[i - 1], Sized(SerializeTx(b.transactions[i])))
<1> DEFINE d == SerializeBlock(b)
           L == Len(b.transactions)
           H == SerializeHeader(b.header)
           ser == [i \in 1..L |-> SerializeTx(b.transactions[i])]
           s == [i \in 1..L |-> Sized(ser[i])]
           R == FlattenSeq(s)
<1>1. /\ L \in Nat /\ H \in Seq(Nat) /\ Len(H) = 20 /\ DOMAIN b.transactions = 1..L
      /\ \A i \in 1..L : ser[i] \in Seq(Nat)
  BY BlockType, HeaderRead
<1>2. \A i \in 1..L : ser[i] = SerializeTx(b.transactions[i])
  OBVIOUS
<1>3. d = H \o <<L>> \o R
  BY <1>1 DEF SerializeBlock
<1> HIDE DEF ser
<1>4. \A i \in 1..L : /\ s[i] = Sized(ser[i]) /\ s[i] \in Seq(Nat)
                      /\ Len(s[i]) = 1 + Len(ser[i]) /\ Len(ser[i]) \in Nat
  <2>1. \A x \in Seq(Nat) : Len(x) \in Nat
    OBVIOUS
  <2> QED BY <1>1, <2>1, SizedType
<1>5. s \in Seq(Seq(Nat)) /\ Len(s) = L
  <2>1. s \in [1..L -> Seq(Nat)]
    BY <1>4
  <2>2. L \in Nat
    BY <1>1
  <2> HIDE DEF s, L
  <2> QED BY <2>1, <2>2
<1> HIDE DEF s
<1>6. PICK p : Placed(s, p)
  BY <1>5, CanBePlaced
<1>7. /\ p \in [0..L -> Nat] /\ p[0] = 0 /\ \A i \in 1..L : p[i] = p[i - 1] + Len(s[i])
  BY <1>5, <1>6 DEF Placed
<1>8. R \in Seq(Nat) /\ Len(R) = p[L] /\ \A i \in 1..L : Holds(R, p[i - 1], s[i])
  BY <1>5, <1>6, Flattened
<1> HIDE DEF d, H, R, L
<1> DEFINE B == H \o <<L>>
           q == [i \in 0..L |-> 21 + p[i]]
<1>9. <<L>> \in Seq(Nat) /\ Len(<<L>>) = 1
  BY <1>1
<1>10. B \in Seq(Nat) /\ Len(B) = 21
  <2>1. B \in Seq(Nat) /\ Len(B) = Len(H) + Len(<<L>>)
    BY <1>1, <1>9, JoinType
  <2> QED BY <1>1, <1>9, <2>1
<1> HIDE DEF B
<1>11. d \in Seq(Nat) /\ Len(d) = 21 + p[L]
  <2>1. d = B \o R
    BY <1>3 DEF B
  <2>2. d \in Seq(Nat) /\ Len(d) = Len(B) + Len(R)
    BY <1>8, <1>10, <2>1, JoinType
  <2> QED BY <1>8, <1>10, <2>2
<1>12. Holds(d, 0, B) /\ Holds(d, 0 + Len(B), R)
  <2>1. Holds(d, 0, B \o R)
    BY <1>3, <1>11, HoldsAll DEF B
  <2> QED BY <1>8, <1>10, <1>11, <2>1, HoldsParts
<1>13. Holds(d, 0, H) /\ Holds(d, 20, <<L>>) /\ Holds(d, 21, R)
  <2>1. Holds(d, 0, H \o <<L>>)
    BY <1>12 DEF B
  <2>2. Holds(d, 0, H) /\ Holds(d, 0 + Len(H), <<L>>)
    BY <1>1, <1>9, <1>11, <2>1, HoldsParts
  <2>3. 0 + Len(H) = 20 /\ 0 + Len(B) = 21
    BY <1>1, <1>10
  <2> QED BY <1>12, <2>2, <2>3
<1>14. q \in [0..L -> Nat] /\ q[0] = 21 /\ \A i \in 0..L : q[i] = 21 + p[i]
  BY <1>1, <1>7
<1> HIDE DEF q
<1>15. ASSUME NEW i \in 1..L
       PROVE  /\ q[i] = q[i - 1] + 1 + Len(ser[i])
              /\ Holds(d, q[i - 1], Sized(ser[i]))
  <2>1. i \in 0..L /\ i - 1 \in 0..L
    BY <1>1
  <2>2. p[i] = p[i - 1] + (1 + Len(ser[i])) /\ p[i - 1] \in Nat /\ Len(ser[i]) \in Nat
    BY <1>4, <1>7, <2>1
  <2>3. q[i] = 21 + p[i] /\ q[i - 1] = 21 + p[i - 1]
    BY <1>14, <2>1
  <2>4. Holds(R, p[i - 1], s[i]) /\ s[i] \in Seq(Nat) /\ s[i] = Sized(ser[i])
    BY <1>4, <1>8
  <2>5. Holds(d, 21 + p[i - 1], s[i])
    <3>1. 21 \in Nat
      OBVIOUS
    <3> QED BY <1>8, <1>11, <1>13, <2>2, <2>4, <3>1, HoldsWithin
  <2>6. q[i] = q[i - 1] + 1 + Len(ser[i])
    BY <2>2, <2>3, SMTT(40)
  <2> QED BY <2>3, <2>4, <2>5, <2>6
<1>16. Len(d) = q[L]
  <2>1. L \in 0..L
    BY <1>1
  <2> QED BY <1>11, <1>14, <2>1
<1>17. TxPlaces(b, q)
  BY <1>2, <1>14, <1>15 DEF TxPlaces, L
<1>18. \A i \in 1..L : Holds(d, q[i - 1], Sized(SerializeTx(b.transactions[i])))
  BY <1>2, <1>15
<1> QED BY <1>11, <1>13, <1>16, <1>17, <1>18 DEF d, L, H

\* e begins as d does, as far as both go.
Agree(e, d) == \A j \in 1..Len(d) : j <= Len(e) => e[j] = d[j]

\* What the one holds the other holds, if it goes that far.
LEMMA AgreeHolds ==
  ASSUME NEW e \in Seq(Nat), NEW d \in Seq(Nat), NEW o \in Nat, NEW x \in Seq(Nat),
         Agree(e, d), Holds(d, o, x), o + Len(x) <= Len(e)
  PROVE  Holds(e, o, x)
<1>1. Len(e) \in Nat /\ Len(d) \in Nat /\ Len(x) \in Nat /\ o + Len(x) <= Len(d)
  BY DEF Holds
<1>2. ASSUME NEW j \in 1..Len(x) PROVE e[o + j] = x[j]
  <2> DEFINE k == Len(x)
             l == Len(d)
             n == Len(e)
  <2>0. k \in Nat /\ l \in Nat /\ n \in Nat /\ o + k <= l /\ o + k <= n /\ j \in 1..k
    BY <1>1
  <2>1. o + j \in 1..Len(d) /\ o + j <= Len(e)
    <3>1. o + j \in 1..l /\ o + j <= n
      <4> HIDE DEF k, l, n
      <4> QED BY <2>0
    <3> QED BY <3>1
  <2>2. e[o + j] = d[o + j]
    BY <2>1 DEF Agree
  <2>3. d[o + j] = x[j]
    BY DEF Holds
  <2> QED BY <2>2, <2>3
<1> QED BY <1>2 DEF Holds

\* One round of the loop of Block::deserialize: it goes to the end of the
\* transaction, or throws if the data end before that.
LEMMA OneTx ==
  ASSUME NEW e \in Seq(Nat), NEW d \in Seq(Nat), NEW o \in Nat, NEW t \in Transaction,
         Agree(e, d), Holds(d, o, Sized(SerializeTx(t)))
  PROVE  LET end == o + 1 + Len(SerializeTx(t))
         IN  /\ AfterTx(e, o) = IF end <= Len(e) THEN end ELSE -1
             /\ end <= Len(e) => TxOf(TakeBody(TxView(e, o), 0)) = t
<1> DEFINE x == SerializeTx(t)
           v == 4 * Len(x)
           end == o + 1 + Len(x)
<1>1. x \in Seq(Nat) /\ TakeBody(x, 0).ok /\ TxOf(TakeBody(x, 0)) = t
  BY StoredTx
<1>2. Holds(d, o, Sized(x))
  OBVIOUS
<1> HIDE DEF x
<1>3. /\ Sized(x) = <<v>> \o x /\ <<v>> \in Seq(Nat) /\ Len(<<v>>) = 1
      /\ Len(x) \in Nat /\ Len(e) \in Nat /\ v \in Nat
  BY <1>1, SizedType
<1>4. Holds(d, o, <<v>>) /\ Holds(d, o + 1, x)
  <2>1. Holds(d, o, <<v>> \o x)
    BY <1>2, <1>3
  <2> HIDE DEF v
  <2> QED BY <1>1, <1>3, <2>1, HoldsParts
<1>5. v \div 4 = Len(x)
  <2>1. \A n \in Nat : (4 * n) \div 4 = n
    OBVIOUS
  <2> QED BY <1>3, <2>1
<1>6. CASE ~(o + 1 <= Len(e))
  <2>1. AfterTx(e, o) = -1
    BY <1>6 DEF AfterTx, Has
  <2>2. ~(end <= Len(e))
    BY <1>3, <1>6
  <2> QED BY <2>1, <2>2 DEF x
<1>7. CASE o + 1 <= Len(e)
  <2>1. e[o + 1] = v
    <3>1. Holds(e, o, <<v>>)
      <4> HIDE DEF v
      <4> QED BY <1>3, <1>4, <1>7, AgreeHolds
    <3> HIDE DEF v
    <3> QED BY <1>3, <3>1, HoldsWord
  <2>2. e[o + 1] \div 4 = Len(x)
    BY <1>5, <2>1
  <2>3. TxView(e, o) = Take(e, o + 1, Len(x))
    BY <2>2 DEF TxView
  <2>4. CASE ~(end <= Len(e))
    <3>1. AfterTx(e, o) = -1
      BY <1>7, <2>2, <2>4 DEF AfterTx, Has
    <3> QED BY <2>4, <3>1 DEF x
  <2>5. CASE end <= Len(e)
    <3>1. o + 1 \in Nat
      OBVIOUS
    <3>2. Holds(e, o + 1, x)
      BY <1>1, <1>4, <2>5, <3>1, AgreeHolds
    <3>3. TxView(e, o) = x
      BY <1>1, <2>3, <3>1, <3>2, HoldsTake
    <3>4. o # -1
      OBVIOUS
    <3>5. AfterTx(e, o) = end
      BY <1>1, <1>7, <2>2, <2>5, <3>3, <3>4 DEF AfterTx, Has
    <3>6. TxOf(TakeBody(TxView(e, o), 0)) = t
      BY <1>1, <3>3
    <3> QED BY <2>5, <3>5, <3>6 DEF x
  <2> QED BY <2>4, <2>5
<1> QED BY <1>3, <1>6, <1>7

\* The function in DeserializeBlock.
Walked(e, n, at) ==
  [i \in 0..n |-> IF i = 0 THEN HeaderWords + 1 ELSE AfterTx(e, at[i - 1])]
WalkOver(e, n) == CHOOSE at : at = Walked(e, n, at)

\* The loop is at the end of the i-th transaction, or has thrown before it.
LEMMA Walk ==
  ASSUME NEW b \in Block, NEW e \in Seq(Nat), Agree(e, SerializeBlock(b)), 21 <= Len(e),
         NEW q, TxPlaces(b, q),
         \A i \in 1..Len(b.transactions) :
           Holds(SerializeBlock(b), q[i - 1], Sized(SerializeTx(b.transactions[i])))
  PROVE  LET L == Len(b.transactions)
             at == WalkOver(e, L)
         IN  \A i \in 0..L : at[i] = IF q[i] <= Len(e) THEN q[i] ELSE -1
<1> DEFINE L == Len(b.transactions)
           d == SerializeBlock(b)
           W(i) == IF q[i] <= Len(e) THEN q[i] ELSE -1
           w == [i \in 0..L |-> W(i)]
           ser(i) == SerializeTx(b.transactions[i])
<1>1. /\ L \in Nat /\ d \in Seq(Nat) /\ Len(e) \in Nat /\ q[0] = 21
      /\ \A i \in 1..L : b.transactions[i] \in Transaction /\ Len(ser(i)) \in Nat
  <2>1. L \in Nat /\ \A i \in 1..L : b.transactions[i] \in Transaction /\ Len(ser(i)) \in Nat
    BY BlockType
  <2>2. d \in Seq(Nat)
    BY BlockParts
  <2>3. q[0] = 21 /\ Len(e) \in Nat
    BY DEF TxPlaces
  <2> QED BY <2>1, <2>2, <2>3
<1>2. /\ \A i \in 0..L : q[i] \in Nat
      /\ \A i \in 1..L : q[i] = q[i - 1] + 1 + Len(ser(i))
  BY DEF TxPlaces
<1>3. ASSUME NEW i \in 1..L PROVE W(i) = AfterTx(e, W(i - 1))
  <2>1. i \in 0..L /\ i - 1 \in 0..L
    BY <1>1
  <2>2. q[i] \in Nat /\ q[i - 1] \in Nat /\ q[i] = q[i - 1] + 1 + Len(ser(i)) /\ Len(ser(i)) \in Nat
    BY <1>1, <1>2, <2>1
  <2>3. CASE q[i - 1] <= Len(e)
    <3>1. AfterTx(e, q[i - 1]) = W(i)
      <4> DEFINE t == b.transactions[i]
                 o == q[i - 1]
                 end == o + 1 + Len(SerializeTx(t))
      <4>1. t \in Transaction /\ o \in Nat /\ Holds(d, o, Sized(SerializeTx(t))) /\ Agree(e, d)
            /\ q[i] = end
        BY <1>1, <2>2
      <4> HIDE DEF t, o, d
      <4>2. AfterTx(e, o) = IF end <= Len(e) THEN end ELSE -1
        BY <1>1, <4>1, OneTx
      <4>3. AfterTx(e, o) = W(i)
        <5> HIDE DEF end
        <5> QED BY <4>1, <4>2
      <4> QED BY <4>3 DEF o
    <3>2. W(i - 1) = q[i - 1]
      BY <2>3
    <3> HIDE DEF W
    <3> QED BY <3>1, <3>2
  <2>4. CASE ~(q[i - 1] <= Len(e))
    <3>1. W(i - 1) = -1
      BY <2>4
    <3>2. ~(q[i] <= Len(e))
      BY <1>1, <2>2, <2>4, SMTT(40)
    <3>3. W(i) = -1
      BY <3>2
    <3> HIDE DEF W
    <3> QED BY <3>1, <3>3 DEF AfterTx
  <2> QED BY <2>3, <2>4
<1>4. W(0) = HeaderWords + 1
  BY <1>1, FieldSizes
<1> HIDE DEF W
<1>5. w = Walked(e, L, w)
  <2>1. \A i \in 1..L : i - 1 \in 0..L
    BY <1>1
  <2>2. \A i \in 0..L : i # 0 => i \in 1..L
    BY <1>1
  <2>3. ASSUME NEW i \in 0..L
        PROVE  W(i) = IF i = 0 THEN HeaderWords + 1 ELSE AfterTx(e, w[i - 1])
    <3>1. CASE i = 0
      BY <1>4, <3>1
    <3>2. CASE i # 0
      <4>1. i \in 1..L /\ w[i - 1] = W(i - 1)
        BY <2>1, <2>2, <3>2
      <4> HIDE DEF w
      <4> QED BY <1>3, <3>2, <4>1
    <3> QED BY <3>1, <3>2
  <2>4. w = [i \in 0..L |-> W(i)]
    OBVIOUS
  <2> HIDE DEF w
  <2> QED BY <2>3, <2>4 DEF Walked
<1> DEFINE at == WalkOver(e, L)
<1>6. at = Walked(e, L, at)
  <2> HIDE DEF w, L
  <2> QED BY <1>5 DEF WalkOver
<1> HIDE DEF at
<1>7. \A i \in 0..L : at[i] = IF i = 0 THEN HeaderWords + 1 ELSE AfterTx(e, at[i - 1])
  <2>1. \A i \in 0..L : Walked(e, L, at)[i] =
                          IF i = 0 THEN HeaderWords + 1 ELSE AfterTx(e, at[i - 1])
    BY DEF Walked
  <2> QED BY <1>6, <2>1
<1> DEFINE Same(i) == i <= L => at[i] = W(i)
           N == {i \in Nat : Same(i)}
<1>8. 0 \in N
  BY <1>1, <1>4, <1>7
<1>9. \A i \in Nat : i \in N => i + 1 \in N
  <2> SUFFICES ASSUME NEW i \in Nat, Same(i) PROVE Same(i + 1)
    <3> HIDE DEF Same
    <3> QED OBVIOUS
  <2> HAVE i + 1 <= L
  <2>1. i + 1 \in 0..L /\ i + 1 \in 1..L /\ (i + 1) - 1 = i /\ i + 1 # 0 /\ at[i] = W(i)
    BY <1>1, SMTT(40)
  <2>2. at[i + 1] = AfterTx(e, at[i])
    BY <1>7, <2>1
  <2>3. W(i + 1) = AfterTx(e, W(i))
    BY <1>3, <2>1
  <2> QED BY <2>1, <2>2, <2>3
<1>10. \A i \in Nat : i \in N
  <2> HIDE DEF N
  <2> QED BY <1>8, <1>9, Induction
<1>11. \A i \in 0..L : at[i] = W(i)
  BY <1>1, <1>10
<1> QED BY <1>11 DEF at, W

\* The places grow along the block.
LEMMA PlacesGrow ==
  ASSUME NEW b \in Block, NEW q, TxPlaces(b, q)
  PROVE  \A i \in 0..Len(b.transactions) :
           q[i] \in Nat /\ 21 <= q[i] /\ q[i] <= q[Len(b.transactions)]
<1> DEFINE L == Len(b.transactions)
           len == [i \in 1..L |-> Len(SerializeTx(b.transactions[i]))]
           Low(i) == i <= L => 21 <= q[i]
           N == {i \in Nat : Low(i)}
           High(i) == i <= L => q[L - i] <= q[L]
           K == {i \in Nat : High(i)}
<1>1. L \in Nat /\ \A i \in 1..L : len[i] \in Nat
  BY BlockType
<1>2. /\ q[0] = 21 /\ \A i \in 0..L : q[i] \in Nat
      /\ \A i \in 1..L : q[i] = q[i - 1] + 1 + len[i]
  BY DEF TxPlaces
<1> HIDE DEF L, len
<1>3. ASSUME NEW i \in 1..L PROVE q[i - 1] \in Nat /\ q[i] \in Nat /\ q[i - 1] < q[i]
  <2>1. i \in 0..L /\ i - 1 \in 0..L
    BY <1>1
  <2>2. q[i - 1] \in Nat /\ q[i] \in Nat /\ len[i] \in Nat /\ q[i] = q[i - 1] + 1 + len[i]
    BY <1>1, <1>2, <2>1
  <2> QED BY <2>2
<1>4. 0 \in N
  BY <1>2
<1>5. \A i \in Nat : i \in N => i + 1 \in N
  <2> SUFFICES ASSUME NEW i \in Nat, Low(i) PROVE Low(i + 1)
    <3> HIDE DEF Low
    <3> QED OBVIOUS
  <2> HAVE i + 1 <= L
  <2>1. i + 1 \in 1..L /\ (i + 1) - 1 = i /\ 21 <= q[i]
    BY <1>1
  <2>2. q[i] \in Nat /\ q[i + 1] \in Nat /\ q[i] < q[i + 1]
    BY <1>3, <2>1
  <2> QED BY <2>1, <2>2
<1>6. \A i \in Nat : i \in N
  <2> HIDE DEF N
  <2> QED BY <1>4, <1>5, Induction
<1>7. 0 \in K
  <2>1. L - 0 = L /\ L \in 0..L
    BY <1>1
  <2>2. q[L] \in Nat
    BY <1>2, <2>1
  <2> QED BY <2>1, <2>2
<1>8. \A i \in Nat : i \in K => i + 1 \in K
  <2> SUFFICES ASSUME NEW i \in Nat, High(i) PROVE High(i + 1)
    <3> HIDE DEF High
    <3> QED OBVIOUS
  <2> HAVE i + 1 <= L
  <2>1. L - i \in 1..L /\ (L - i) - 1 = L - (i + 1) /\ L \in 0..L /\ q[L - i] <= q[L]
    BY <1>1
  <2>2. q[L - (i + 1)] \in Nat /\ q[L - i] \in Nat /\ q[L - (i + 1)] < q[L - i] /\ q[L] \in Nat
    BY <1>2, <1>3, <2>1
  <2> QED BY <2>1, <2>2
<1>9. \A i \in Nat : i \in K
  <2> HIDE DEF K
  <2> QED BY <1>7, <1>8, Induction
<1>10. ASSUME NEW i \in 0..L PROVE q[i] \in Nat /\ 21 <= q[i] /\ q[i] <= q[L]
  <2>1. i \in Nat /\ i <= L /\ L - i \in Nat /\ L - i <= L /\ L - (L - i) = i
    BY <1>1
  <2>2. Low(i) /\ High(L - i)
    BY <1>6, <1>9, <2>1
  <2> QED BY <1>2, <2>1, <2>2
<1> QED BY <1>10 DEF L

\* Data that begin as a block do are read as that block if they go on to its
\* end, and refused if they do not.
LEMMA BlockRead ==
  ASSUME NEW b \in Block, NEW e \in Seq(Nat), Agree(e, SerializeBlock(b))
  PROVE  DeserializeBlock(e) =
           IF Len(SerializeBlock(b)) <= Len(e)
           THEN [ok |-> TRUE, offset |-> Len(SerializeBlock(b)), header |-> b.header,
                 transactions |-> b.transactions]
           ELSE Thrown
<1> DEFINE d == SerializeBlock(b)
           L == Len(b.transactions)
           H == SerializeHeader(b.header)
           txs == b.transactions
           at == WalkOver(e, L)
<1>1. d \in Seq(Nat) /\ Holds(d, 0, H) /\ Holds(d, 20, <<L>>)
  BY BlockParts
<1>2. PICK q : /\ TxPlaces(b, q) /\ Len(d) = q[L]
               /\ \A i \in 1..L : Holds(d, q[i - 1], Sized(SerializeTx(txs[i])))
  BY BlockParts
<1>3. \A i \in 0..L : q[i] \in Nat /\ 21 <= q[i] /\ q[i] <= q[L]
  BY <1>2, PlacesGrow
<1>4. /\ b.header \in BlockHeader /\ L \in Nat /\ L \in 0..L /\ Len(e) \in Nat /\ Len(d) \in Nat
      /\ txs = [i \in 1..L |-> txs[i]] /\ \A i \in 1..L : txs[i] \in Transaction
  <2>1. b.header \in BlockHeader /\ L \in Nat /\ txs = [i \in 1..L |-> txs[i]]
        /\ \A i \in 1..L : txs[i] \in Transaction
    BY BlockType
  <2>2. L \in 0..L
    BY <2>1
  <2>3. Len(e) \in Nat /\ Len(d) \in Nat
    BY <1>1
  <2> QED BY <2>1, <2>2, <2>3
<1>5. H \in Seq(Nat) /\ Len(H) = 20 /\ <<L>> \in Seq(Nat) /\ Len(<<L>>) = 1
  BY <1>4, HeaderRead
<1>6. HeaderWords + 1 = 21 /\ 20 + 1 = 21
  BY FieldSizes
<1>7. CASE ~(21 <= Len(e))
  <2>1. DeserializeBlock(e) = Thrown
    BY <1>6, <1>7 DEF DeserializeBlock, Has
  <2>2. ~(Len(d) <= Len(e))
    BY <1>2, <1>3, <1>4, <1>7
  <2> QED BY <2>1, <2>2
<1>8. CASE 21 <= Len(e)
  <2>1. e[21] = L
    <3>1. Holds(e, 20, <<L>>)
      <4> DEFINE x == <<L>>
      <4>1. x \in Seq(Nat) /\ Len(x) = 1 /\ Holds(d, 20, x) /\ Agree(e, d) /\ 20 \in Nat
        BY <1>1, <1>5
      <4> HIDE DEF x, d
      <4>2. 20 + Len(x) <= Len(e)
        BY <1>4, <1>8, <4>1
      <4>3. Holds(e, 20, x)
        BY <1>1, <4>1, <4>2, AgreeHolds
      <4> QED BY <4>3 DEF x
    <3>2. e[20 + 1] = L
      <4> HIDE DEF L
      <4> QED BY <1>4, <3>1, HoldsWord
    <3> QED BY <1>6, <3>2
  <2>2. HeaderOf(e) = b.header
    <3>1. Holds(e, 0, H)
      <4>1. H \in Seq(Nat) /\ Holds(d, 0, H) /\ Agree(e, d) /\ 0 \in Nat
        BY <1>1, <1>5
      <4> HIDE DEF H, d
      <4>2. 0 + Len(H) <= Len(e)
        BY <1>4, <1>5, <1>8
      <4> QED BY <1>1, <4>1, <4>2, AgreeHolds
    <3> QED BY <1>4, <3>1, HeaderRead
  <2>3. \A i \in 0..L : at[i] = IF q[i] <= Len(e) THEN q[i] ELSE -1
    <3>1. /\ TxPlaces(b, q) /\ 21 <= Len(e)
          /\ \A i \in 1..Len(b.transactions) :
               Holds(SerializeBlock(b), q[i - 1], Sized(SerializeTx(b.transactions[i])))
      BY <1>2, <1>8
    <3> QED BY <3>1, Walk
  <2>4. DeserializeBlock(e) =
          IF at[L] = -1 THEN Thrown ELSE
          [ok |-> TRUE, offset |-> at[L], header |-> HeaderOf(e),
           transactions |-> [i \in 1..L |-> TxOf(TakeBody(TxView(e, at[i - 1]), 0))]]
    <3>1. Has(e, 0, HeaderWords + 1)
      BY <1>6, <1>8 DEF Has
    <3>2. e[HeaderWords + 1] = L
      BY <1>6, <2>1
    <3> HIDE DEF L
    <3> QED BY <3>1, <3>2 DEF DeserializeBlock, WalkOver, Walked
  <2> HIDE DEF at
  <2>5. CASE ~(Len(d) <= Len(e))
    <3>1. at[L] = -1
      BY <1>2, <1>4, <2>3, <2>5
    <3> QED BY <2>4, <2>5, <3>1
  <2>6. CASE Len(d) <= Len(e)
    <3>1. at[L] = Len(d) /\ at[L] # -1
      BY <1>2, <1>4, <2>3, <2>6, SMTT(40)
    <3>2. ASSUME NEW i \in 1..L PROVE TxOf(TakeBody(TxView(e, at[i - 1]), 0)) = txs[i]
      <4> DEFINE t == txs[i]
                 o == q[i - 1]
                 end == o + 1 + Len(SerializeTx(t))
      <4>1. i \in 0..L /\ i - 1 \in 0..L
        BY <1>4
      <4>2. /\ t \in Transaction /\ o \in Nat /\ o <= q[L] /\ q[i] <= q[L] /\ q[i] \in Nat
            /\ q[L] \in Nat /\ Holds(d, o, Sized(SerializeTx(t))) /\ q[i] = end
        BY <1>2, <1>3, <1>4, <4>1 DEF TxPlaces
      <4> HIDE DEF t, o, d
      <4>3. at[i - 1] = o
        <5>1. q[i - 1] <= Len(e)
          BY <1>2, <1>4, <2>6, <4>2 DEF o
        <5> QED BY <2>3, <4>1, <5>1 DEF o
      <4>4. end <= Len(e)
        <5> HIDE DEF end
        <5> QED BY <1>2, <1>4, <2>6, <4>2
      <4>5. TxOf(TakeBody(TxView(e, o), 0)) = t
        <5>1. Agree(e, d)
          BY DEF d
        <5> QED BY <1>1, <4>2, <4>4, <5>1, OneTx
      <4> QED BY <4>3, <4>5 DEF t
    <3>3. [i \in 1..L |-> TxOf(TakeBody(TxView(e, at[i - 1]), 0))] = txs
      BY <1>4, <3>2
    <3> HIDE DEF L, txs, d
    <3>4. DeserializeBlock(e) =
            [ok |-> TRUE, offset |-> Len(d), header |-> b.header, transactions |-> txs]
      BY <2>2, <2>4, <3>1, <3>3
    <3> QED BY <2>6, <3>4 DEF d, txs
  <2> QED BY <2>5, <2>6
<1> QED BY <1>4, <1>7, <1>8

\* What RoundTrip and OnlyWholeValues say of blocks.
LEMMA BlockValues ==
  ASSUME NEW b \in Block
  PROVE  LET d == SerializeBlock(b)
         IN  /\ Written(LoadBlockValue(d), b)
             /\ \A e \in Cut(d) \cup {Append(d, 0)} : ~LoadBlockValue(e).ok
<1> DEFINE d == SerializeBlock(b)
           D == Append(d, 0)
           res == [ok |-> TRUE, offset |-> Len(d), header |-> b.header,
                   transactions |-> b.transactions]
<1>1. d \in Seq(Nat) /\ Len(d) \in Nat
  <2>1. d \in Seq(Nat)
    BY BlockParts
  <2> HIDE DEF d
  <2> QED BY <2>1
<1>2. \A e \in Seq(Nat) : Agree(e, d) =>
        DeserializeBlock(e) = IF Len(d) <= Len(e) THEN res ELSE Thrown
  BY BlockRead
<1>3. res.ok /\ res.offset = Len(d) /\ res.header = b.header /\ res.transactions = b.transactions
  OBVIOUS
<1>4. ~Thrown.ok
  BY DEF Thrown
<1> HIDE DEF d, res
<1>5. LoadBlockValue(d) = res
  <2>1. Agree(d, d)
    BY DEF Agree
  <2>2. DeserializeBlock(d) = res
    BY <1>1, <1>2, <2>1
  <2> QED BY <1>3, <2>2 DEF LoadBlockValue
<1>6. Written(res, b)
  <2>1. \A f \in DOMAIN b : f \in {"header", "transactions"}
    BY DEF Block
  <2>2. \A f \in DOMAIN b : res[f] = b[f]
    BY <1>3, <2>1
  <2> QED BY <1>3, <2>2 DEF Written
<1>7. ASSUME NEW e \in Cut(d) PROVE ~LoadBlockValue(e).ok
  <2>1. e \in Seq(Nat) /\ Len(e) \in Nat /\ Len(e) < Len(d) /\ \A i \in 1..Len(e) : e[i] = d[i]
    BY <1>1, CutOf
  <2>2. Agree(e, d)
    <3>1. \A j \in 1..Len(d) : j <= Len(e) => j \in 1..Len(e)
      BY <1>1, <2>1
    <3> QED BY <2>1, <3>1 DEF Agree
  <2>3. ~(Len(d) <= Len(e))
    BY <1>1, <2>1
  <2>4. DeserializeBlock(e) = Thrown
    BY <1>2, <2>1, <2>2, <2>3
  <2> QED BY <1>4, <2>4 DEF LoadBlockValue
<1>8. ~LoadBlockValue(D).ok
  <2>1. D \in Seq(Nat) /\ Len(D) = Len(d) + 1 /\ Holds(D, 0, d)
    BY <1>1, HoldsLonger
  <2> HIDE DEF D
  <2>2. Agree(D, d)
    <3>1. \A j \in 1..Len(d) : 0 + j = j
      BY <1>1
    <3> QED BY <2>1, <3>1 DEF Agree, Holds
  <2>3. Len(d) <= Len(D) /\ Len(d) # Len(D)
    BY <1>1, <2>1
  <2>4. DeserializeBlock(D) = res
    BY <1>2, <2>1, <2>2, <2>3
  <2> QED BY <1>3, <1>4, <2>3, <2>4 DEF LoadBlockValue
<1>9. \A e \in Cut(d) \cup {D} : ~LoadBlockValue(e).ok
  <2> HIDE DEF D
  <2> QED BY <1>7, <1>8
<1> QED BY <1>5, <1>6, <1>9 DEF d

\* Whatever the Writer of the node, of a wallet or of a miner writes, with any
\* number of inputs, outputs, transactions and txids, the Reader reads back.
THEOREM ReadsWhatWasWritten == Spec => []RoundTrip
<1>1. ASSUME Picked PROVE RoundTrip
  <2>1. case.kind = "tx" => case.t \in Transaction /\ case.sig \in Words("sig")
    BY <1>1, CaseOf, EncodingAssumption
  <2>2. case.kind = "block" => case.b \in Block
    BY <1>1, CaseOf, EncodingAssumption
  <2>3. case.kind = "message" => case.m \in Message
    BY <1>1, CaseOf, EncodingAssumption
  <2> QED BY <2>1, <2>2, <2>3, TxValues, BlockValues, MessageValues DEF RoundTrip
<1> QED BY <1>1, AlwaysPicked, PTL

\* No value that is cut short is accepted, whatever counts and sizes it has, and
\* words left over are refused where the code refuses them.
THEOREM RefusesParts == Spec => []OnlyWholeValues
<1>1. ASSUME Picked PROVE OnlyWholeValues
  <2>1. case.kind = "tx" => case.t \in Transaction /\ case.sig \in Words("sig")
    BY <1>1, CaseOf, EncodingAssumption
  <2>2. case.kind = "block" => case.b \in Block
    BY <1>1, CaseOf, EncodingAssumption
  <2>3. case.kind = "message" => case.m \in Message
    BY <1>1, CaseOf, EncodingAssumption
  <2> QED BY <2>1, <2>2, <2>3, TxValues, BlockValues, MessageValues DEF OnlyWholeValues
<1> QED BY <1>1, AlwaysPicked, PTL

\* The size of a transaction counts its bytes.
LEMMA TxSizeExact ==
  ASSUME NEW t \in Transaction
  PROVE  Len(SerializeTx(t)) \in Nat /\ TxSize(t) = 4 * Len(SerializeTx(t))
<1> DEFINE n == Len(t.inputs)
           m == Len(t.outputs)
           l == Len(SerializeTx(t))
<1>1. t.txid \in Words("hash")
  BY TxIs
<1>2. n \in Nat /\ m \in Nat /\ l = 12 + 9 * n + 7 * m
  BY <1>1, BodyParts DEF SerializeTx
<1>3. TxSize(t) = 48 + 36 * n + 28 * m
  BY DEF TxSize
<1> HIDE DEF n, m, l
<1>4. l \in Nat /\ TxSize(t) = 4 * l
  BY <1>2, <1>3
<1> QED BY <1>4 DEF l

\* The sum in block_serialized_size grows as the block does.
LEMMA BlockSizeExact ==
  ASSUME NEW b \in Block
  PROVE  block_serialized_size(b) = 4 * Len(SerializeBlock(b))
<1> DEFINE L == Len(b.transactions)
           d == SerializeBlock(b)
           len == [i \in 1..L |-> Len(SerializeTx(b.transactions[i]))]
           f == [i \in 1..L |-> 4 + TxSize(b.transactions[i])]
<1>1. PICK q : TxPlaces(b, q) /\ Len(d) = q[L]
  BY BlockParts
<1>2. /\ L \in Nat /\ DOMAIN b.transactions = 1..L
      /\ \A i \in 1..L : len[i] \in Nat /\ f[i] = 4 + 4 * len[i]
  <2>1. L \in Nat /\ DOMAIN b.transactions = 1..L
        /\ \A i \in 1..L : b.transactions[i] \in Transaction
    BY BlockType
  <2> QED BY <2>1, TxSizeExact
<1>3. /\ q[0] = 21 /\ \A i \in 0..L : q[i] \in Nat
      /\ \A i \in 1..L : q[i] = q[i - 1] + 1 + len[i]
  BY <1>1 DEF TxPlaces
<1>4. block_serialized_size(b) = 84 + Total(f)
  BY <1>2 DEF block_serialized_size
<1>5. DOMAIN f = 1..L /\ \A i \in 1..L : f[i] \in Nat
  <2>1. DOMAIN f = 1..L
    OBVIOUS
  <2> HIDE DEF f, len
  <2>2. \A i \in 1..L : f[i] \in Nat
    BY <1>2
  <2> QED BY <2>1, <2>2
<1> HIDE DEF L, len, f, d
<1>6. Total(f) = TotalOn(f, 1..L)
  BY <1>5 DEF Total, TotalOn
<1> DEFINE Sum(i) == i <= L => TotalOn(f, 1..i) = 4 * (q[i] - 21)
           N == {i \in Nat : Sum(i)}
<1>7. 0 \in N
  <2>1. 1..0 = {}
    OBVIOUS
  <2>2. TotalOn(f, 1..0) = 0
    BY <2>1, TotalEmpty
  <2> QED BY <1>3, <2>2
<1>8. \A i \in Nat : i \in N => i + 1 \in N
  <2> SUFFICES ASSUME NEW i \in Nat, Sum(i) PROVE Sum(i + 1)
    <3> HIDE DEF Sum
    <3> QED OBVIOUS
  <2> HAVE i + 1 <= L
  <2> DEFINE S == 1..(i + 1)
             T == 1..i
  <2>1. i + 1 \in S /\ S \ {i + 1} = T /\ S \subseteq 1..L
    BY <1>2
  <2>2. IsFiniteSet(S)
    BY FS_Interval
  <2>3. i + 1 \in 1..L /\ (i + 1) - 1 = i /\ i \in 0..L /\ i + 1 \in 0..L /\ i <= L
    BY <1>2
  <2>4. TotalOn(f, T) = 4 * (q[i] - 21)
    BY <2>3
  <2> HIDE DEF S, T
  <2>5. TotalOn(f, S) = f[i + 1] + TotalOn(f, S \ {i + 1})
    <3>1. \A x \in S : f[x] \in Nat
      BY <1>5, <2>1
    <3> DEFINE x == i + 1
    <3>2. x \in S
      BY <2>1
    <3> HIDE DEF x
    <3>3. TotalOn(f, S) = f[x] + TotalOn(f, S \ {x})
      BY <2>2, <3>1, <3>2, TotalRemove
    <3> QED BY <3>3 DEF x
  <2>6. TotalOn(f, S) = f[i + 1] + TotalOn(f, T)
    BY <2>1, <2>5
  <2>7. /\ q[i + 1] = q[i] + 1 + len[i + 1] /\ q[i] \in Nat /\ len[i + 1] \in Nat
        /\ f[i + 1] = 4 + 4 * len[i + 1]
    BY <1>2, <1>3, <2>3
  <2>8. TotalOn(f, S) = 4 * (q[i + 1] - 21)
    BY <2>4, <2>6, <2>7, SMTT(40)
  <2> QED BY <2>8 DEF S
<1>9. \A i \in Nat : i \in N
  <2> HIDE DEF N
  <2> QED BY <1>7, <1>8, Induction
<1>10. TotalOn(f, 1..L) = 4 * (q[L] - 21) /\ q[L] \in Nat
  <2>1. L \in 0..L /\ L <= L
    BY <1>2
  <2>2. Sum(L)
    BY <1>2, <1>9
  <2> QED BY <1>3, <2>1, <2>2
<1>11. block_serialized_size(b) = 4 * Len(d)
  BY <1>1, <1>4, <1>6, <1>10
<1> QED BY <1>11 DEF d

\* The sizes that web.cpp computes from its own constants are those of the
\* values the Writer writes, for all transactions and blocks.
THEOREM SizesReported == Spec => []SizesExact
<1>1. ASSUME Picked PROVE SizesExact
  <2>1. case.kind = "tx" => case.t \in Transaction
    BY <1>1, CaseOf, EncodingAssumption
  <2>2. case.kind = "block" => case.b \in Block
    BY <1>1, CaseOf, EncodingAssumption
  <2> QED BY <2>1, <2>2, TxSizeExact, BlockSizeExact DEF SizesExact
<1> QED BY <1>1, AlwaysPicked, PTL

-----------------------------------------------------------------------------
(* Merkle roots *)

\* What quotients do, for binary digits.
LEMMA BinarySteps ==
  ASSUME NEW n \in Nat
  PROVE  /\ Quotient(n, 2, 0) = n
         /\ \A k \in Nat : Quotient(n, 2, k) \in Nat
                           /\ Quotient(n, 2, k + 1) = Quotient(n, 2, k) \div 2
<1>1. 2 \in Bases
  BY DEF Bases
<1> QED BY <1>1, QuotientSteps

LEMMA BinaryMonotone ==
  ASSUME NEW m \in Nat, NEW n \in Nat, m <= n
  PROVE  \A k \in Nat : Quotient(m, 2, k) <= Quotient(n, 2, k)
<1>1. 2 \in Bases
  BY DEF Bases
<1> QED BY <1>1, QuotientMonotone

\* A level is half as wide as the one below it, rounded up.
LEMMA Widths ==
  ASSUME NEW n \in Nat, n # 0
  PROVE  /\ Width(n, 0) = n
         /\ \A k \in Nat : /\ Width(n, k) \in Nat /\ Width(n, k) >= 1
                           /\ Width(n, k + 1) = (Width(n, k) + 1) \div 2
<1>1. n - 1 \in Nat
  OBVIOUS
<1>2. Quotient(n - 1, 2, 0) = n - 1
  BY <1>1, BinarySteps
<1>3. ASSUME NEW k \in Nat
      PROVE  /\ Width(n, k) \in Nat /\ Width(n, k) >= 1
             /\ Width(n, k + 1) = (Width(n, k) + 1) \div 2
  <2> DEFINE q == Quotient(n - 1, 2, k)
             r == Quotient(n - 1, 2, k + 1)
  <2>1. q \in Nat /\ r = q \div 2
    BY <1>1, BinarySteps
  <2>2. Width(n, k) = q + 1 /\ Width(n, k + 1) = r + 1
    BY DEF Width
  <2> HIDE DEF q, r
  <2>3. (q \div 2) + 1 = ((q + 1) + 1) \div 2
    BY <2>1
  <2> QED BY <2>1, <2>2, <2>3
<1> QED BY <1>2, <1>3 DEF Width

\* Some level has one node, and one of them is the lowest.
IsTop(n, k) == Width(n, k) = 1 /\ \A j \in 0..(k - 1) : Width(n, j) > 1
Top(n) == CHOOSE k \in 0..n : IsTop(n, k)

\* There is a lowest level of one node.
LEMMA TopIs ==
  ASSUME NEW n \in Nat, n # 0 PROVE Top(n) \in 0..n /\ IsTop(n, Top(n))
<1> DEFINE W == [k \in Nat |-> Width(n, k)]
<1>1. /\ W[0] = n
      /\ \A k \in Nat : W[k] \in Nat /\ W[k] >= 1 /\ W[k + 1] = (W[k] + 1) \div 2
  BY Widths
<1>2. \A k \in Nat : W[k] = Width(n, k)
  OBVIOUS
<1> HIDE DEF W
<1>3. W[n] = 1
  <2> DEFINE Narrow(k) == W[k] = 1 \/ W[k] + k <= n
             N == {k \in Nat : Narrow(k)}
  <2>1. 0 \in N
    BY <1>1
  <2>2. \A k \in Nat : k \in N => k + 1 \in N
    <3> SUFFICES ASSUME NEW k \in Nat, Narrow(k) PROVE Narrow(k + 1)
      OBVIOUS
    <3>1. W[k] \in Nat /\ W[k] >= 1 /\ W[k + 1] = (W[k] + 1) \div 2
      BY <1>1
    <3>2. \A w \in Nat : w >= 1 => \/ w = 1 /\ (w + 1) \div 2 = 1
                                   \/ w # 1 /\ (w + 1) \div 2 <= w - 1 /\ (w + 1) \div 2 \in Nat
      OBVIOUS
    <3> QED BY <3>1, <3>2
  <2>3. \A k \in Nat : k \in N
    <3> HIDE DEF N
    <3> QED BY <2>1, <2>2, Induction
  <2>4. W[n] = 1 \/ W[n] + n <= n
    BY <2>3
  <2>5. W[n] \in Nat /\ W[n] >= 1
    BY <1>1
  <2> QED BY <2>4, <2>5
<1>4. \E k \in 0..n : W[k] = 1 /\ \A j \in 0..(k - 1) : W[j] > 1
  <2> SUFFICES ASSUME \A k \in 0..n : W[k] = 1 => \E j \in 0..(k - 1) : ~(W[j] > 1)
               PROVE  FALSE
    OBVIOUS
  <2> DEFINE N == {k \in Nat : \A j \in 0..k : j <= n => W[j] # 1}
  <2>0. \A k \in 0..n : W[k] = 1 => \E j \in 0..(k - 1) : W[j] = 1
    <3> SUFFICES ASSUME NEW k \in 0..n, W[k] = 1 PROVE \E j \in 0..(k - 1) : W[j] = 1
      OBVIOUS
    <3>1. PICK j \in 0..(k - 1) : ~(W[j] > 1)
      OBVIOUS
    <3>2. W[j] \in Nat /\ W[j] >= 1
      BY <1>1
    <3>3. W[j] = 1
      BY <3>1, <3>2
    <3> QED BY <3>3
  <2>1. 0 \in N
    BY <2>0
  <2>2. \A k \in Nat : k \in N => k + 1 \in N
    <3> SUFFICES ASSUME NEW k \in Nat, \A j \in 0..k : j <= n => W[j] # 1, k + 1 <= n
                 PROVE  W[k + 1] # 1
      OBVIOUS
    <3>1. k + 1 \in 0..n /\ (k + 1) - 1 = k
      OBVIOUS
    <3> QED BY <2>0, <3>1
  <2>3. \A k \in Nat : k \in N
    <3> HIDE DEF N
    <3> QED BY <2>1, <2>2, Induction
  <2> QED BY <1>3, <2>3
<1>5. \E k \in 0..n : IsTop(n, k)
  BY <1>2, <1>4 DEF IsTop
<1> QED BY <1>5 DEF Top

\* The nodes of a tree, by level.
NodesOf(s, d) ==
  [k \in 0..Len(s) |->
     [i \in Nat |-> IF k = 0 THEN s[i + 1]
                    ELSE combine_hash(d[k - 1][2*i], d[k - 1][Second(Len(s), k - 1, i)])]]
Nodes(s) == CHOOSE d : d = NodesOf(s, d)

\* Tree in these terms.
LEMMA TreeIs ==
  ASSUME NEW s
  PROVE  Tree(s) = IF Len(s) = 0 THEN ZeroHash ELSE Nodes(s)[Top(Len(s))][0]
BY DEF Tree, Nodes, NodesOf, Top, IsTop

\* The nodes exist, and are what the recursion says.
IsTree(s, d) ==
  /\ \A i \in Nat : d[0][i] = s[i + 1]
  /\ \A k \in Nat : k + 1 <= Len(s) => \A i \in Nat :
       d[k + 1][i] = combine_hash(d[k][2*i], d[k][Second(Len(s), k, i)])

\* The recursion has a solution, level by level.
LEMMA NodesAre ==
  ASSUME NEW s, Len(s) \in Nat PROVE IsTree(s, Nodes(s))
<1> DEFINE n == Len(s)
           Row(k, d) == [i \in Nat |->
                           IF k = 0 THEN s[i + 1]
                           ELSE combine_hash(d[k - 1][2*i], d[k - 1][Second(n, k - 1, i)])]
           Solves(d, m) == \A k \in 0..m : d[k] = Row(k, d)
           N == {m \in Nat : \E d : Solves(d, m)}
<1>0. \A d, e : \A k \in Nat : k # 0 /\ d[k - 1] = e[k - 1] => Row(k, d) = Row(k, e)
  OBVIOUS
<1>1. \A d, e : Row(0, d) = Row(0, e)
  OBVIOUS
<1>2. \A d : NodesOf(s, d) = [k \in 0..n |-> Row(k, d)]
  BY DEF NodesOf
<1> HIDE DEF Row
<1>3. 0 \in N
  <2> DEFINE e == [k \in Nat |-> Row(0, 0)]
  <2>1. \A k \in 0..0 : e[k] = Row(k, e)
    BY <1>1
  <2> HIDE DEF e
  <2> QED BY <2>1
<1>4. ASSUME NEW m \in Nat, m \in N PROVE m + 1 \in N
  <2>1. PICK d : Solves(d, m)
    BY <1>4
  <2> DEFINE e == [k \in Nat |-> Row(k, d)]
  <2>2. \A k \in 0..m : e[k] = d[k]
    BY <2>1
  <2>3. \A k \in Nat : e[k] = Row(k, d)
    OBVIOUS
  <2> HIDE DEF e
  <2>4. ASSUME NEW k \in 0..(m + 1) PROVE e[k] = Row(k, e)
    <3>1. CASE k = 0
      BY <1>1, <2>3, <3>1
    <3>2. CASE k # 0
      <4>1. k \in Nat /\ k - 1 \in 0..m
        BY <3>2
      <4>2. Row(k, d) = Row(k, e)
        BY <1>0, <2>2, <3>2, <4>1
      <4> QED BY <2>3, <4>1, <4>2
    <3> QED BY <3>1, <3>2
  <2> QED BY <2>4
<1>5. \A m \in Nat : m \in N
  <2> HIDE DEF N
  <2> QED BY <1>3, <1>4, Induction
<1>6. PICK d : Solves(d, n)
  BY <1>5
<1> DEFINE e == [k \in 0..n |-> d[k]]
<1>7. e = NodesOf(s, e)
  <2>1. \A k \in 0..n : e[k] = d[k]
    OBVIOUS
  <2>2. e = [k \in 0..n |-> Row(k, d)]
    BY <1>6
  <2> HIDE DEF e
  <2>3. ASSUME NEW k \in 0..n PROVE Row(k, d) = Row(k, e)
    <3>1. CASE k = 0
      BY <1>1, <3>1
    <3>2. CASE k # 0
      <4>1. k \in Nat /\ k - 1 \in 0..n
        BY <3>2
      <4> QED BY <1>0, <2>1, <3>2, <4>1
    <3> QED BY <3>1, <3>2
  <2> QED BY <1>2, <2>2, <2>3
<1>8. Nodes(s) = NodesOf(s, Nodes(s))
  BY <1>7 DEF Nodes
<1> HIDE DEF e
<1> DEFINE f == Nodes(s)
<1>9. \A k \in 0..n : f[k] = Row(k, f)
  <2>1. \A k \in 0..n : NodesOf(s, f)[k] = Row(k, f)
    BY <1>2
  <2> QED BY <1>8, <2>1
<1> HIDE DEF f
<1>10. \A i \in Nat : f[0][i] = s[i + 1]
  <2>1. f[0] = Row(0, f)
    BY <1>9
  <2> QED BY <2>1 DEF Row
<1>11. ASSUME NEW k \in Nat, k + 1 <= n, NEW i \in Nat
       PROVE  f[k + 1][i] = combine_hash(f[k][2*i], f[k][Second(n, k, i)])
  <2>1. k + 1 \in 0..n /\ k + 1 # 0 /\ (k + 1) - 1 = k
    BY <1>11
  <2>2. f[k + 1] = Row(k + 1, f)
    BY <1>9, <2>1
  <2> QED BY <2>1, <2>2 DEF Row
<1>12. IsTree(s, f)
  BY <1>10, <1>11 DEF IsTree
<1> QED BY <1>12 DEF f

\* A round of the loop makes each level of the tree from the one below it.
Level(n, d, k) == [i \in 1..Width(n, k) |-> d[k][i - 1]]

\* One round is one level.
LEMMA Round ==
  ASSUME NEW s, Len(s) \in Nat, Len(s) # 0, NEW d, IsTree(s, d),
         NEW k \in Nat, k + 1 <= Len(s)
  PROVE  NextLevel(Level(Len(s), d, k)) = Level(Len(s), d, k + 1)
<1> DEFINE n == Len(s)
           w == Width(n, k)
           c == Level(n, d, k)
           p == Padded(c)
<1>1. w \in Nat /\ w >= 1 /\ Width(n, k + 1) = (w + 1) \div 2
  BY Widths
<1>2. Len(c) = w /\ DOMAIN c = 1..w /\ (\A i \in 1..w : c[i] = d[k][i - 1]) /\ c \in Seq({d[k][i - 1] : i \in 1..w})
  BY <1>1, SMTT(40) DEF Level
<1>3. \A i \in Nat : d[k + 1][i] = <<d[k][2*i], d[k][IF 2*i + 1 < w THEN 2*i + 1 ELSE 2*i]>>
  BY DEF IsTree, combine_hash, Second
<1>4. Level(n, d, k + 1) = [i \in 1..((w + 1) \div 2) |-> d[k + 1][i - 1]]
  BY <1>1 DEF Level
<1> HIDE DEF w, c
<1>5. /\ Len(p) = 2 * ((w + 1) \div 2)
      /\ \A i \in 1..w : p[i] = d[k][i - 1]
      /\ w % 2 = 1 => p[w + 1] = d[k][w - 1]
  <2>1. CASE w % 2 = 1
    <3>1. p = Append(c, c[w])
      BY <1>2, <2>1 DEF Padded
    <3>2. Len(p) = w + 1 /\ (\A i \in 1..w : p[i] = c[i]) /\ p[w + 1] = c[w]
      BY <1>1, <1>2, <3>1
    <3>3. w + 1 = 2 * ((w + 1) \div 2) /\ w \in 1..w
      BY <1>1, <2>1
    <3> QED BY <1>2, <3>2, <3>3
  <2>2. CASE w % 2 # 1
    <3>1. p = c
      BY <1>2, <2>2 DEF Padded
    <3>2. w = 2 * ((w + 1) \div 2)
      BY <1>1, <2>2
    <3> QED BY <1>2, <2>2, <3>1, <3>2
  <2> QED BY <2>1, <2>2
<1>6. NextLevel(c) = [i \in 1..(Len(p) \div 2) |-> <<p[2*i - 1], p[2*i]>>]
  BY DEF NextLevel, combine_hash
<1> HIDE DEF p
<1>7. Len(p) \div 2 = (w + 1) \div 2
  BY <1>1, <1>5
<1>8. ASSUME NEW i \in 1..((w + 1) \div 2) PROVE <<p[2*i - 1], p[2*i]>> = d[k + 1][i - 1]
  <2> DEFINE a == i - 1
  <2>1. a \in Nat /\ 2*i - 1 \in 1..w /\ (2*i - 1) - 1 = 2*a
    BY <1>1
  <2>2. p[2*i - 1] = d[k][2*a]
    BY <1>5, <2>1
  <2>3. p[2*i] = d[k][IF 2*a + 1 < w THEN 2*a + 1 ELSE 2*a]
    <3>1. CASE 2*i <= w
      <4>1. 2*i \in 1..w /\ 2*i - 1 = 2*a + 1 /\ 2*a + 1 < w
        BY <1>1, <3>1
      <4> QED BY <1>5, <4>1
    <3>2. CASE ~(2*i <= w)
      <4>1. 2*i = w + 1 /\ w % 2 = 1 /\ w - 1 = 2*a /\ ~(2*a + 1 < w)
        BY <1>1, <2>1, <3>2
      <4> QED BY <1>5, <4>1
    <3> QED BY <3>1, <3>2
  <2> HIDE DEF a
  <2>4. d[k + 1][a] = <<d[k][2*a], d[k][IF 2*a + 1 < w THEN 2*a + 1 ELSE 2*a]>>
    BY <1>3, <2>1
  <2>5. <<p[2*i - 1], p[2*i]>> = d[k + 1][a]
    BY <2>2, <2>3, <2>4
  <2> QED BY <2>5 DEF a
<1>9. NextLevel(c) = [i \in 1..((w + 1) \div 2) |-> d[k + 1][i - 1]]
  BY <1>6, <1>7, <1>8
<1> QED BY <1>4, <1>9 DEF c

\* The loop, as a recursive function, and where it ends.
LevelsOf(s, l) ==
  [k \in 0..Len(s) |-> IF k = 0 THEN s
                       ELSE IF Len(l[k - 1]) <= 1 THEN l[k - 1] ELSE NextLevel(l[k - 1])]
Levels(s) == CHOOSE l : l = LevelsOf(s, l)

\* compute_merkle_root in these terms.
LEMMA RootIs ==
  ASSUME NEW s
  PROVE  compute_merkle_root(s) = IF s = <<>> THEN ZeroHash ELSE Levels(s)[Len(s)][1]
BY DEF compute_merkle_root, Levels, LevelsOf

\* The loop goes up the levels and stops at the top.
LEMMA LoopBuildsTree ==
  ASSUME NEW T, NEW s \in Seq(T), s # <<>>
  PROVE  Levels(s)[Len(s)][1] = Nodes(s)[Top(Len(s))][0]
<1> DEFINE n == Len(s)
           d == Nodes(s)
           t == Top(n)
           L == [k \in Nat |-> Level(n, d, IF k <= t THEN k ELSE t)]
           g == [k \in 0..n |-> L[k]]
<1>1. n \in Nat /\ n # 0 /\ s = [i \in 1..n |-> s[i]]
  OBVIOUS
<1>2. IsTree(s, d)
  BY <1>1, NodesAre
<1>3. t \in 0..n /\ Width(n, t) = 1 /\ (\A j \in 0..(t - 1) : Width(n, j) > 1)
  BY <1>1, TopIs DEF IsTop
<1>4. \A k \in Nat : Width(n, k) \in Nat /\ Len(Level(n, d, k)) = Width(n, k)
  BY <1>1, Widths DEF Level
<1>5. Level(n, d, 0) = s
  <2>1. Width(n, 0) = n
    BY <1>1, Widths
  <2>2. \A i \in 1..n : i - 1 \in Nat /\ (i - 1) + 1 = i
    BY <1>1
  <2>3. \A i \in 1..n : d[0][i - 1] = s[i]
    BY <1>2, <2>2 DEF IsTree
  <2> QED BY <1>1, <2>1, <2>3 DEF Level
<1>6. Level(n, d, t)[1] = d[t][0]
  BY <1>3 DEF Level
<1> HIDE DEF d, t
<1>7. L[0] = s
  BY <1>3, <1>5
<1>8. ASSUME NEW k \in Nat, k + 1 <= n
      PROVE  L[k + 1] = IF Len(L[k]) <= 1 THEN L[k] ELSE NextLevel(L[k])
  <2>1. CASE k < t
    <3>1. L[k] = Level(n, d, k) /\ L[k + 1] = Level(n, d, k + 1)
      BY <1>3, <2>1
    <3>2. Width(n, k) > 1 /\ Width(n, k) \in Nat
      BY <1>3, <1>4, <2>1
    <3>3. ~(Len(L[k]) <= 1)
      BY <1>4, <3>1, <3>2
    <3>4. NextLevel(L[k]) = L[k + 1]
      BY <1>1, <1>2, <1>8, <3>1, Round
    <3> QED BY <3>3, <3>4
  <2>2. CASE ~(k < t)
    <3>1. L[k] = Level(n, d, t) /\ L[k + 1] = Level(n, d, t)
      BY <1>3, <2>2
    <3>2. t \in Nat
      BY <1>1, <1>3
    <3>3. Len(Level(n, d, t)) = 1
      BY <1>3, <1>4, <3>2
    <3> HIDE DEF L
    <3> QED BY <3>1, <3>3
  <2> QED BY <2>1, <2>2
<1>9. L[n] = Level(n, d, t)
  BY <1>1, <1>3
<1> HIDE DEF L
<1>10. \E l : l = LevelsOf(s, l)
  <2>1. ASSUME NEW k \in 0..n
        PROVE  g[k] = IF k = 0 THEN s
                      ELSE IF Len(g[k - 1]) <= 1 THEN g[k - 1] ELSE NextLevel(g[k - 1])
    <3>1. CASE k = 0
      BY <1>7, <3>1
    <3>2. CASE k # 0
      <4>1. k - 1 \in Nat /\ (k - 1) + 1 <= n /\ (k - 1) + 1 = k /\ k - 1 \in 0..n
        BY <1>1, <3>2
      <4>2. L[k] = IF Len(L[k - 1]) <= 1 THEN L[k - 1] ELSE NextLevel(L[k - 1])
        BY <1>8, <4>1
      <4>3. g[k] = L[k] /\ g[k - 1] = L[k - 1]
        BY <4>1
      <4> HIDE DEF g
      <4> QED BY <3>2, <4>2, <4>3
    <3> QED BY <3>1, <3>2
  <2>2. g = LevelsOf(s, g)
    BY <2>1 DEF LevelsOf
  <2> QED BY <2>2
<1> DEFINE l == Levels(s)
<1>11. l = LevelsOf(s, l)
  BY <1>10 DEF Levels
<1> HIDE DEF g, l
<1>12. \A k \in 0..n : l[k] = IF k = 0 THEN s
                              ELSE IF Len(l[k - 1]) <= 1 THEN l[k - 1] ELSE NextLevel(l[k - 1])
  <2>1. \A k \in 0..n : LevelsOf(s, l)[k] =
                          IF k = 0 THEN s
                          ELSE IF Len(l[k - 1]) <= 1 THEN l[k - 1] ELSE NextLevel(l[k - 1])
    BY DEF LevelsOf
  <2> QED BY <1>11, <2>1
<1> DEFINE N == {k \in Nat : k <= n => l[k] = L[k]}
<1>13. 0 \in N
  BY <1>1, <1>7, <1>12
<1>14. \A k \in Nat : k \in N => k + 1 \in N
  <2> SUFFICES ASSUME NEW k \in Nat, k + 1 <= n, l[k] = L[k] PROVE l[k + 1] = L[k + 1]
    BY <1>1
  <2>1. k + 1 \in 0..n /\ k + 1 # 0 /\ (k + 1) - 1 = k
    BY <1>1
  <2> QED BY <1>8, <1>12, <2>1
<1>15. \A k \in Nat : k \in N
  <2> HIDE DEF N
  <2> QED BY <1>13, <1>14, Induction
<1>16. l[n] = Level(n, d, t)
  BY <1>1, <1>9, <1>15
<1> QED BY <1>6, <1>16 DEF l, d, t

\* The loop computes the tree.
LEMMA RootIsTree ==
  ASSUME NEW T, NEW s \in Seq(T) PROVE compute_merkle_root(s) = Tree(s)
<1>1. s = <<>> <=> Len(s) = 0
  OBVIOUS
<1> QED BY <1>1, RootIs, TreeIs, LoopBuildsTree

\* compute_merkle_root is the root of the binary tree over the txids, for every
\* list of them: the loop ends, and its last hash is the tree's.
THEOREM RootOfTree == Spec => []MerkleIsTree
<1>1. ASSUME Picked PROVE MerkleIsTree
  <2>1. case.kind = "leaves" => case.s \in Seq(Txids)
    BY <1>1, CaseOf, LeavesAssumption
  <2> QED BY <2>1, RootIsTree DEF MerkleIsTree
<1> QED BY <1>1, AlwaysPicked, PTL

\* Both children of a node are nodes of the level below.
LEMMA Children ==
  ASSUME NEW n \in Nat, n # 0, NEW k \in Nat, NEW a \in Nat, a < Width(n, k + 1)
  PROVE  /\ 2*a \in Nat /\ 2*a < Width(n, k)
         /\ Second(n, k, a) \in Nat /\ Second(n, k, a) < Width(n, k)
<1> DEFINE w == Width(n, k)
<1>1. w \in Nat /\ w >= 1 /\ Width(n, k + 1) = (w + 1) \div 2
  BY Widths
<1>2. Second(n, k, a) = IF 2*a + 1 < w THEN 2*a + 1 ELSE 2*a
  BY DEF Second
<1> HIDE DEF w
<1>3. 2*a \in Nat /\ 2*a < w
  BY <1>1
<1> QED BY <1>1, <1>2, <1>3 DEF w

\* A node of a tree over txids is a txid or a pair.
LEMMA NodeShape ==
  ASSUME NEW s \in Seq(Txids), NEW d, IsTree(s, d), NEW k \in Nat, k <= Len(s),
         Len(s) # 0, NEW a \in Nat, a < Width(Len(s), k)
  PROVE  /\ k = 0 => d[k][a] = s[a + 1] /\ a < Len(s) /\ Len(d[k][a]) = 1
         /\ k # 0 => /\ d[k][a] = <<d[k - 1][2*a], d[k - 1][Second(Len(s), k - 1, a)]>>
                     /\ Len(d[k][a]) = 2
<1> DEFINE n == Len(s)
<1>1. n \in Nat /\ Width(n, 0) = n
  BY Widths
<1>2. CASE k = 0
  <2>1. d[0][a] = s[a + 1]
    BY DEF IsTree
  <2>2. a < n
    BY <1>1, <1>2
  <2>3. a + 1 \in 1..n
    BY <1>1, <2>2
  <2>4. s[a + 1] \in Txids
    BY <2>3
  <2> QED BY <1>2, <2>1, <2>2, <2>4, LeavesAssumption
<1>3. CASE k # 0
  <2>1. k - 1 \in Nat /\ (k - 1) + 1 <= n /\ (k - 1) + 1 = k
    BY <1>1, <1>3
  <2>2. d[k][a] = <<d[k - 1][2*a], d[k - 1][Second(n, k - 1, a)]>>
    BY <2>1 DEF IsTree, combine_hash
  <2> QED BY <1>3, <2>2
<1> QED BY <1>2, <1>3

\* Two trees over txids.
TwoTrees(s, d, r, e) ==
  /\ s \in Seq(Txids) /\ r \in Seq(Txids) /\ s # <<>> /\ r # <<>>
  /\ IsTree(s, d) /\ IsTree(r, e)
\* Node a of level k of the tree d over s and node b of level l of the tree e
\* over r are nodes, and the same hash.
SameNode(s, d, k, a, r, e, l, b) ==
  /\ k <= Len(s) /\ a < Width(Len(s), k)
  /\ l <= Len(r) /\ b < Width(Len(r), l)
  /\ d[k][a] = e[l][b]

\* The same hash of two pairs is of the same hashes.
LEMMA SameChildren ==
  ASSUME NEW s, NEW d, NEW r, NEW e, TwoTrees(s, d, r, e),
         NEW k \in Nat, NEW a \in Nat, NEW l \in Nat, NEW b \in Nat,
         SameNode(s, d, k + 1, a, r, e, l + 1, b)
  PROVE  LET c == Second(Len(s), k, a)
             f == Second(Len(r), l, b)
         IN  /\ 2*a \in Nat /\ 2*b \in Nat /\ SameNode(s, d, k, 2*a, r, e, l, 2*b)
             /\ c \in Nat /\ f \in Nat /\ SameNode(s, d, k, c, r, e, l, f)
<1> DEFINE n == Len(s)
           m == Len(r)
           c == Second(n, k, a)
           f == Second(m, l, b)
<1>1. n \in Nat /\ n # 0 /\ m \in Nat /\ m # 0
  BY DEF TwoTrees
<1>2. k + 1 <= n /\ a < Width(n, k + 1) /\ l + 1 <= m /\ b < Width(m, l + 1)
      /\ d[k + 1][a] = e[l + 1][b]
  BY DEF SameNode
<1>3. 2*a \in Nat /\ 2*a < Width(n, k) /\ c \in Nat /\ c < Width(n, k)
  BY <1>1, <1>2, Children
<1>4. 2*b \in Nat /\ 2*b < Width(m, l) /\ f \in Nat /\ f < Width(m, l)
  BY <1>1, <1>2, Children
<1>5. d[k + 1][a] = <<d[k][2*a], d[k][c]>>
  BY <1>2 DEF TwoTrees, IsTree, combine_hash
<1>6. e[l + 1][b] = <<e[l][2*b], e[l][f]>>
  BY <1>2 DEF TwoTrees, IsTree, combine_hash
<1>7. d[k][2*a] = e[l][2*b] /\ d[k][c] = e[l][f]
  <2>1. \A w, x, y, z : <<w, x>> = <<y, z>> => w = y /\ x = z
    OBVIOUS
  <2>2. <<d[k][2*a], d[k][c]>> = <<e[l][2*b], e[l][f]>>
    BY <1>2, <1>5, <1>6
  <2> HIDE DEF c, f
  <2> QED BY <2>1, <2>2
<1>8. k <= n /\ l <= m
  BY <1>1, <1>2
<1> QED BY <1>3, <1>4, <1>7, <1>8 DEF SameNode

\* The same hash is at the same height.
LEMMA SameHeight ==
  ASSUME NEW s, NEW d, NEW r, NEW e, TwoTrees(s, d, r, e)
  PROVE  \A k, l, a, b \in Nat : SameNode(s, d, k, a, r, e, l, b) => k = l
<1> DEFINE Same(k) == \A l, a, b \in Nat : SameNode(s, d, k, a, r, e, l, b) => k = l
           N == {k \in Nat : Same(k)}
<1>0. s \in Seq(Txids) /\ r \in Seq(Txids) /\ Len(s) # 0 /\ Len(r) # 0
      /\ IsTree(s, d) /\ IsTree(r, e)
  BY DEF TwoTrees
<1>1. ASSUME NEW k \in Nat, NEW l \in Nat, NEW a \in Nat, NEW b \in Nat,
             SameNode(s, d, k, a, r, e, l, b)
      PROVE  k = 0 <=> l = 0
  <2>1. k <= Len(s) /\ a < Width(Len(s), k) /\ l <= Len(r) /\ b < Width(Len(r), l)
        /\ d[k][a] = e[l][b]
    BY <1>1 DEF SameNode
  <2>2. (k = 0 => Len(d[k][a]) = 1) /\ (k # 0 => Len(d[k][a]) = 2)
    BY <1>0, <2>1, NodeShape
  <2>3. (l = 0 => Len(e[l][b]) = 1) /\ (l # 0 => Len(e[l][b]) = 2)
    BY <1>0, <2>1, NodeShape
  <2> DEFINE x == Len(d[k][a])
  <2>4. (k = 0 => x = 1) /\ (k # 0 => x = 2) /\ (l = 0 => x = 1) /\ (l # 0 => x = 2)
    BY <2>1, <2>2, <2>3
  <2> HIDE DEF x
  <2> QED BY <2>4
<1>2. 0 \in N
  BY <1>1
<1>3. \A k \in Nat : k \in N => k + 1 \in N
  <2> SUFFICES ASSUME NEW k \in Nat, Same(k), NEW l \in Nat, NEW a \in Nat, NEW b \in Nat,
                      SameNode(s, d, k + 1, a, r, e, l, b)
               PROVE  k + 1 = l
    OBVIOUS
  <2> HIDE DEF N
  <2>1. k + 1 \in Nat /\ k + 1 # 0
    OBVIOUS
  <2>2. l # 0
    BY <1>1, <2>1
  <2>3. l - 1 \in Nat /\ (l - 1) + 1 = l
    BY <2>2
  <2>4. PICK j \in Nat : j + 1 = l
    BY <2>3
  <2>5. SameNode(s, d, k + 1, a, r, e, j + 1, b)
    BY <2>4
  <2>6. 2*a \in Nat /\ 2*b \in Nat /\ SameNode(s, d, k, 2*a, r, e, j, 2*b)
    BY <2>5, SameChildren
  <2>7. k = j
    BY <2>6
  <2> QED BY <2>4, <2>7
<1>4. \A k \in Nat : k \in N
  <2> HIDE DEF N
  <2> QED BY <1>2, <1>3, Induction
<1> QED BY <1>4

\* The places, from 0, of the leaves under a node.
Below(n, k, a) == {j \in 0..(n - 1) : Quotient(j, 2, k) = a}
Under(s, k, a) == {s[j + 1] : j \in Below(Len(s), k, a)}

\* Under a node are the leaves under its children.
LEMMA BelowChildren ==
  ASSUME NEW n \in Nat, n # 0, NEW k \in Nat, NEW a \in Nat
  PROVE  /\ Below(n, k + 1, a) = Below(n, k, 2*a) \cup Below(n, k, Second(n, k, a))
         /\ \A j \in Below(n, k + 1, a) :
              \/ Quotient(j, 2, k) = 2*a
              \/ Quotient(j, 2, k) = 2*a + 1 /\ Second(n, k, a) = 2*a + 1
<1>1. ASSUME NEW j \in 0..(n - 1)
      PROVE  /\ Quotient(j, 2, k) \in Nat /\ Quotient(j, 2, k) < Width(n, k)
             /\ Quotient(j, 2, k + 1) = Quotient(j, 2, k) \div 2
  <2>1. j \in Nat /\ n - 1 \in Nat /\ j <= n - 1
    OBVIOUS
  <2>2. Quotient(j, 2, k) \in Nat /\ Quotient(j, 2, k + 1) = Quotient(j, 2, k) \div 2
    BY <2>1, BinarySteps
  <2>3. Quotient(n - 1, 2, k) \in Nat
    BY <2>1, BinarySteps
  <2>4. Quotient(j, 2, k) <= Quotient(n - 1, 2, k)
    BY <2>1, BinaryMonotone
  <2> QED BY <2>2, <2>3, <2>4 DEF Width
<1> DEFINE c == Second(n, k, a)
           q == [j \in 0..(n - 1) |-> Quotient(j, 2, k)]
           w == Width(n, k)
<1>2. c = (IF 2*a + 1 < w THEN 2*a + 1 ELSE 2*a) /\ w \in Nat
  BY Widths DEF Second
<1>3. \A j \in 0..(n - 1) : q[j] \in Nat /\ q[j] < w /\ Quotient(j, 2, k) = q[j]
                            /\ Quotient(j, 2, k + 1) = q[j] \div 2
  BY <1>1
<1> HIDE DEF c, q, w
<1>4. \A x \in Nat : x < w => (x \div 2 = a <=> x = 2*a \/ x = c)
  BY <1>2
<1>5. \A x \in Nat : x < w /\ x \div 2 = a => x = 2*a \/ (x = 2*a + 1 /\ c = 2*a + 1)
  BY <1>2
<1>6. Below(n, k + 1, a) = Below(n, k, 2*a) \cup Below(n, k, c)
  BY <1>3, <1>4 DEF Below
<1>7. \A j \in Below(n, k + 1, a) : \/ Quotient(j, 2, k) = 2*a
                                    \/ Quotient(j, 2, k) = 2*a + 1 /\ c = 2*a + 1
  BY <1>3, <1>5 DEF Below
<1> QED BY <1>6, <1>7 DEF c

\* A leaf is under itself alone.
LEMMA BelowLeaf ==
  ASSUME NEW n \in Nat, NEW a \in Nat, a < n
  PROVE  Below(n, 0, a) = {a}
<1>1. \A j \in 0..(n - 1) : Quotient(j, 2, 0) = j
  <2> SUFFICES ASSUME NEW j \in 0..(n - 1) PROVE Quotient(j, 2, 0) = j
    OBVIOUS
  <2>1. j \in Nat
    OBVIOUS
  <2> QED BY <2>1, BinarySteps
<1> QED BY <1>1 DEF Below

\* The same hash is over the same txids.
LEMMA SameUnder ==
  ASSUME NEW s, NEW d, NEW r, NEW e, TwoTrees(s, d, r, e)
  PROVE  \A k, a, b \in Nat : SameNode(s, d, k, a, r, e, k, b) => Under(s, k, a) = Under(r, k, b)
<1> DEFINE Same(k) == \A a, b \in Nat : SameNode(s, d, k, a, r, e, k, b)
                                          => Under(s, k, a) = Under(r, k, b)
           N == {k \in Nat : Same(k)}
<1>0. /\ s \in Seq(Txids) /\ r \in Seq(Txids) /\ IsTree(s, d) /\ IsTree(r, e)
      /\ Len(s) \in Nat /\ Len(s) # 0 /\ Len(r) \in Nat /\ Len(r) # 0
  BY DEF TwoTrees
<1>1. 0 \in N
  <2> SUFFICES ASSUME NEW a \in Nat, NEW b \in Nat, SameNode(s, d, 0, a, r, e, 0, b)
               PROVE  Under(s, 0, a) = Under(r, 0, b)
    OBVIOUS
  <2>1. 0 <= Len(s) /\ 0 <= Len(r) /\ a < Width(Len(s), 0) /\ b < Width(Len(r), 0)
        /\ d[0][a] = e[0][b]
    BY DEF SameNode
  <2>2. d[0][a] = s[a + 1] /\ a < Len(s)
    BY <1>0, <2>1, NodeShape
  <2>3. e[0][b] = r[b + 1] /\ b < Len(r)
    BY <1>0, <2>1, NodeShape
  <2>4. Below(Len(s), 0, a) = {a} /\ Below(Len(r), 0, b) = {b}
    BY <1>0, <2>2, <2>3, BelowLeaf
  <2> QED BY <2>1, <2>2, <2>3, <2>4 DEF Under
<1>2. \A k \in Nat : k \in N => k + 1 \in N
  <2> SUFFICES ASSUME NEW k \in Nat, Same(k), NEW a \in Nat, NEW b \in Nat,
                      SameNode(s, d, k + 1, a, r, e, k + 1, b)
               PROVE  Under(s, k + 1, a) = Under(r, k + 1, b)
    OBVIOUS
  <2> DEFINE c == Second(Len(s), k, a)
             f == Second(Len(r), k, b)
  <2>1. /\ 2*a \in Nat /\ 2*b \in Nat /\ SameNode(s, d, k, 2*a, r, e, k, 2*b)
        /\ c \in Nat /\ f \in Nat /\ SameNode(s, d, k, c, r, e, k, f)
    BY SameChildren
  <2>2. Below(Len(s), k + 1, a) = Below(Len(s), k, 2*a) \cup Below(Len(s), k, c)
    BY <1>0, BelowChildren
  <2>3. Below(Len(r), k + 1, b) = Below(Len(r), k, 2*b) \cup Below(Len(r), k, f)
    BY <1>0, BelowChildren
  <2> HIDE DEF c, f
  <2>4. Under(s, k, 2*a) = Under(r, k, 2*b) /\ Under(s, k, c) = Under(r, k, f)
    BY <2>1
  <2>5. Under(s, k + 1, a) = Under(s, k, 2*a) \cup Under(s, k, c)
    BY <2>2 DEF Under
  <2>6. Under(r, k + 1, b) = Under(r, k, 2*b) \cup Under(r, k, f)
    BY <2>3 DEF Under
  <2> QED BY <2>4, <2>5, <2>6
<1>3. \A k \in Nat : k \in N
  <2> HIDE DEF N
  <2> QED BY <1>1, <1>2, Induction
<1> QED BY <1>3

\* The same hash at the same place is over lists that agree where both have a
\* txid.
LEMMA SamePlaces ==
  ASSUME NEW s, NEW d, NEW r, NEW e, TwoTrees(s, d, r, e)
  PROVE  \A k, a \in Nat : SameNode(s, d, k, a, r, e, k, a) =>
           \A j \in Below(Len(s), k, a) \cap Below(Len(r), k, a) : s[j + 1] = r[j + 1]
<1> DEFINE Both(k, a) == Below(Len(s), k, a) \cap Below(Len(r), k, a)
           Same(k) == \A a \in Nat : SameNode(s, d, k, a, r, e, k, a)
                                       => \A j \in Both(k, a) : s[j + 1] = r[j + 1]
           N == {k \in Nat : Same(k)}
<1>0. /\ s \in Seq(Txids) /\ r \in Seq(Txids) /\ IsTree(s, d) /\ IsTree(r, e)
      /\ Len(s) \in Nat /\ Len(s) # 0 /\ Len(r) \in Nat /\ Len(r) # 0
  BY DEF TwoTrees
<1>1. 0 \in N
  <2> SUFFICES ASSUME NEW a \in Nat, SameNode(s, d, 0, a, r, e, 0, a), NEW j \in Both(0, a)
               PROVE  s[j + 1] = r[j + 1]
    OBVIOUS
  <2>1. 0 <= Len(s) /\ 0 <= Len(r) /\ a < Width(Len(s), 0) /\ a < Width(Len(r), 0)
        /\ d[0][a] = e[0][a]
    BY DEF SameNode
  <2>2. d[0][a] = s[a + 1] /\ a < Len(s)
    BY <1>0, <2>1, NodeShape
  <2>3. e[0][a] = r[a + 1]
    BY <1>0, <2>1, NodeShape
  <2>4. j = a
    BY <1>0, <2>2, BelowLeaf
  <2> QED BY <2>1, <2>2, <2>3, <2>4
<1>2. \A k \in Nat : k \in N => k + 1 \in N
  <2> SUFFICES ASSUME NEW k \in Nat, Same(k), NEW a \in Nat,
                      SameNode(s, d, k + 1, a, r, e, k + 1, a), NEW j \in Both(k + 1, a)
               PROVE  s[j + 1] = r[j + 1]
    OBVIOUS
  <2> DEFINE c == Second(Len(s), k, a)
             f == Second(Len(r), k, a)
  <2>1. /\ 2*a \in Nat /\ SameNode(s, d, k, 2*a, r, e, k, 2*a)
        /\ c \in Nat /\ SameNode(s, d, k, c, r, e, k, f)
    BY SameChildren
  <2>2. /\ j \in 0..(Len(s) - 1)
        /\ \/ Quotient(j, 2, k) = 2*a
           \/ Quotient(j, 2, k) = 2*a + 1 /\ c = 2*a + 1
    BY <1>0, BelowChildren DEF Below
  <2>3. /\ j \in 0..(Len(r) - 1)
        /\ \/ Quotient(j, 2, k) = 2*a
           \/ Quotient(j, 2, k) = 2*a + 1 /\ f = 2*a + 1
    BY <1>0, BelowChildren DEF Below
  <2> HIDE DEF c, f
  <2>4. CASE Quotient(j, 2, k) = 2*a
    <3>1. j \in Both(k, 2*a)
      BY <2>2, <2>3, <2>4 DEF Below
    <3> HIDE DEF Both
    <3> QED BY <2>1, <3>1
  <2>5. CASE Quotient(j, 2, k) # 2*a
    <3>1. j \in Both(k, c) /\ f = c
      BY <2>2, <2>3, <2>5 DEF Below
    <3> HIDE DEF Both
    <3> QED BY <2>1, <3>1
  <2> QED BY <2>4, <2>5
<1>3. \A k \in Nat : k \in N
  <2> HIDE DEF N
  <2> QED BY <1>1, <1>2, Induction
<1> QED BY <1>3

\* The leaves under the root are all of them.
LEMMA AllBelow ==
  ASSUME NEW n \in Nat, n # 0 PROVE Below(n, Top(n), 0) = 0..(n - 1)
<1> DEFINE t == Top(n)
<1>1. t \in Nat /\ Quotient(n - 1, 2, t) + 1 = 1
  BY TopIs DEF IsTop, Width
<1> HIDE DEF t
<1>2. n - 1 \in Nat
  OBVIOUS
<1>3. Quotient(n - 1, 2, t) \in Nat
  BY <1>1, <1>2, BinarySteps
<1>4. ASSUME NEW j \in 0..(n - 1) PROVE Quotient(j, 2, t) = 0
  <2>1. j \in Nat /\ j <= n - 1
    OBVIOUS
  <2>2. Quotient(j, 2, t) \in Nat
    BY <1>1, <2>1, BinarySteps
  <2>3. Quotient(j, 2, t) <= Quotient(n - 1, 2, t)
    BY <1>1, <1>2, <2>1, BinaryMonotone
  <2> QED BY <1>1, <1>3, <2>2, <2>3
<1>5. Below(n, t, 0) = 0..(n - 1)
  BY <1>4 DEF Below
<1> QED BY <1>5 DEF t

\* Lists with one root, of any lengths.
LEMMA SameRoot ==
  ASSUME NEW s \in Seq(Txids), NEW r \in Seq(Txids), Tree(s) = Tree(r)
  PROVE  SamePrefix(r, s) /\ Members(r) = Members(s)
<1> DEFINE n == Len(s)
           m == Len(r)
           d == Nodes(s)
           e == Nodes(r)
           t == Top(n)
           u == Top(m)
<1>0. n \in Nat /\ m \in Nat /\ (n = 0 <=> s = <<>>) /\ (m = 0 <=> r = <<>>)
  OBVIOUS
<1>1. IsTree(s, d) /\ IsTree(r, e)
  BY <1>0, NodesAre
<1>2. ASSUME NEW q \in Seq(Txids), q # <<>>
      PROVE  LET x == Top(Len(q))
             IN  /\ x \in Nat /\ x <= Len(q) /\ 0 < Width(Len(q), x)
                 /\ Tree(q) = Nodes(q)[x][0] /\ Tree(q) # <<>>
  <2> DEFINE x == Top(Len(q))
  <2>1. Len(q) \in Nat /\ Len(q) # 0
    BY <1>2
  <2>2. x \in Nat /\ x <= Len(q) /\ 0 < Width(Len(q), x)
    BY <2>1, TopIs DEF IsTop
  <2>3. Tree(q) = Nodes(q)[x][0]
    BY <2>1, TreeIs
  <2>4. Len(Nodes(q)[x][0]) \in {1, 2}
    <3>1. IsTree(q, Nodes(q)) /\ 0 \in Nat
      BY <2>1, NodesAre
    <3> HIDE DEF x
    <3> QED BY <2>1, <2>2, <3>1, NodeShape
  <2>5. Nodes(q)[x][0] # <<>>
    <3> DEFINE z == Nodes(q)[x][0]
    <3>1. Len(z) \in {1, 2}
      BY <2>4
    <3> HIDE DEF z
    <3>2. Len(<<>>) = 0
      OBVIOUS
    <3>3. 0 \notin {1, 2}
      OBVIOUS
    <3>4. z # <<>>
      BY <3>1, <3>2, <3>3, Zenon
    <3> QED BY <3>4 DEF z
  <2> QED BY <2>2, <2>3, <2>5
<1>3. CASE s = <<>> \/ r = <<>>
  <2>1. \A q : q = <<>> => Tree(q) = <<>>
    BY TreeIs DEF ZeroHash
  <2>2. s = <<>> /\ r = <<>>
    BY <1>2, <1>3, <2>1
  <2> QED BY <2>2 DEF SamePrefix, Members
<1>4. CASE s # <<>> /\ r # <<>>
  <2>1. TwoTrees(s, d, r, e)
    BY <1>1, <1>4 DEF TwoTrees
  <2>2. t \in Nat /\ u \in Nat /\ SameNode(s, d, t, 0, r, e, u, 0)
    BY <1>2, <1>4 DEF SameNode
  <2>3. Below(n, t, 0) = 0..(n - 1) /\ Below(m, u, 0) = 0..(m - 1)
    BY <1>0, <1>4, AllBelow
  <2> HIDE DEF d, e, t, u
  <2>4. t = u
    BY <2>1, <2>2, SameHeight
  <2>5. Under(s, t, 0) = Under(r, t, 0)
    BY <2>1, <2>2, <2>4, SameUnder
  <2>6. \A j \in 0..(n - 1) \cap 0..(m - 1) : s[j + 1] = r[j + 1]
    <3>1. SameNode(s, d, t, 0, r, e, t, 0) /\ 0 \in Nat
      BY <2>2, <2>4
    <3>2. \A j \in Below(n, t, 0) \cap Below(m, t, 0) : s[j + 1] = r[j + 1]
      BY <2>1, <2>2, <3>1, SamePlaces
    <3> QED BY <2>3, <2>4, <3>2
  <2>7. ASSUME NEW q \in Seq(Txids)
        PROVE  {q[j + 1] : j \in 0..(Len(q) - 1)} = Members(q)
    <3>1. DOMAIN q = 1..Len(q) /\ Len(q) \in Nat
      OBVIOUS
    <3>2. \A i \in 1..Len(q) : i - 1 \in 0..(Len(q) - 1) /\ (i - 1) + 1 = i
      BY <3>1
    <3>3. \A j \in 0..(Len(q) - 1) : j + 1 \in 1..Len(q)
      BY <3>1
    <3> QED BY <3>1, <3>2, <3>3 DEF Members
  <2>8. Members(r) = Members(s)
    BY <2>3, <2>4, <2>5, <2>7 DEF Under
  <2>9. SamePrefix(r, s)
    <3> DEFINE k == Min({m, n})
    <3>1. k \in Nat /\ k <= m /\ k <= n
      BY <1>0 DEF Min
    <3> HIDE DEF k
    <3>2. \A i \in 1..k : i - 1 \in 0..(n - 1) \cap 0..(m - 1) /\ (i - 1) + 1 = i
      BY <1>0, <3>1
    <3>3. \A i \in 1..k : r[i] = s[i]
      BY <2>6, <3>2
    <3> QED BY <3>3 DEF SamePrefix, k
  <2> QED BY <2>8, <2>9
<1> QED BY <1>3, <1>4

\* A Merkle root commits to the txids, for all lists of them: lists with one
\* root differ only in repetitions at the end, as the padding of an odd level
\* with its own last hash allows.
THEOREM RootsCommit == Spec => []MerkleCommits
<1>1. ASSUME Picked PROVE MerkleCommits
  <2> SUFFICES ASSUME case.kind = "leaves", NEW q \in Rooted,
                      q.root = compute_merkle_root(case.s)
               PROVE  SamePrefix(q.s, case.s) /\ Members(q.s) = Members(case.s)
    BY DEF MerkleCommits
  <2>1. case.s \in Seq(Txids)
    BY <1>1, CaseOf, LeavesAssumption
  <2>2. q.s \in Seq(Txids) /\ q.root = compute_merkle_root(q.s)
    BY LeavesAssumption DEF Rooted
  <2> DEFINE s == case.s
             r == q.s
  <2>3. s \in Seq(Txids) /\ r \in Seq(Txids) /\ compute_merkle_root(s) = compute_merkle_root(r)
    BY <2>1, <2>2
  <2> HIDE DEF s, r
  <2>4. Tree(s) = Tree(r)
    BY <2>3, RootIsTree
  <2>5. SamePrefix(r, s) /\ Members(r) = Members(s)
    BY <2>3, <2>4, SameRoot
  <2> QED BY <2>5 DEF s, r
<1> QED BY <1>1, AlwaysPicked, PTL
===========================================================================
