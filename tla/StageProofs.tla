----------------------------- MODULE StageProofs -----------------------------
(***************************************************************************)
(* The stages of a turn: what background_job_output returns, the section   *)
(* of workspace instructions, the command guard, the retention of a search *)
(* result, the reduction and the redaction of a tool result, for every     *)
(* size of the buffer, all limits the configuration accepts and all        *)
(* inputs.                                                                 *)
(*                                                                         *)
(* The ring buffer needs an invariant about its slots: slot start + i,     *)
(* around the ring, holds the i-th of the bytes that are kept.  A section  *)
(* needs two: what admitContent keeps of a file is never longer than its   *)
(* limit, and the first file always leaves room for the marker of omitted  *)
(* files, which is what validateLimits requires of the limits.             *)
(*                                                                         *)
(* Loops over sequences are recursive functions on the number of rounds.   *)
(* RoundsExist says that such a function exists, EveryRound is induction   *)
(* on the rounds; with them a search result is bounded character by        *)
(* character, a reduced document is spliced token by token, a command is   *)
(* analysed visit by visit and wrapper by wrapper, and a redaction sorts,  *)
(* merges and cuts range by range.                                         *)
(***************************************************************************)
EXTENDS OutputTail, InstructionDiscovery, CommandGuard, ResultBounds, RtkTransform, Redaction,
        FiniteSetTheorems, SequenceTheorems, WellFoundedInduction, TLAPS

\* The greater of two numbers
LEMMA MaxPair ==
    ASSUME NEW a \in Int, NEW b \in Int
    PROVE  Max({a, b}) = IF a >= b THEN a ELSE b
BY DEF Max

\* The smaller of two numbers
LEMMA MinPair ==
    ASSUME NEW a \in Int, NEW b \in Int
    PROVE  Min({a, b}) = IF a <= b THEN a ELSE b
BY DEF Min

\* The remainder of less than twice the divisor
LEMMA Wrap ==
    ASSUME NEW L \in Nat \ {0}, NEW x \in Nat, x < 2 * L
    PROVE  x % L = IF x < L THEN x ELSE x - L
<1>1. CASE x < L
  BY <1>1, SMT
<1>2. CASE ~(x < L)
  BY <1>2, SMT
<1> QED
  BY <1>1, <1>2

\* A set of naturals that has zero and with each number the next has them all.
LEMMA EveryNatural ==
    ASSUME NEW S, 0 \in S, \A n \in Nat : n \in S => n + 1 \in S
    PROVE  \A n \in Nat : n \in S
<1> SUFFICES ASSUME NEW m \in Nat, m \notin S PROVE FALSE
  OBVIOUS
<1>1. PICK T : T = {n \in Nat : n \notin S}
  OBVIOUS
<1>2. T \subseteq Nat /\ T # {}
  BY <1>1
<1>3. PICK x \in T : \A y \in T : ~(<<y, x>> \in OpToRel(<, Nat))
  BY <1>2, NatLessThanWellFounded, WFMin
<1>4. x \in Nat /\ x \notin S /\ x # 0
  BY <1>1, <1>3
<1>5. x - 1 \in Nat /\ x - 1 < x /\ x - 1 + 1 = x
  BY <1>4
<1>6. <<x - 1, x>> \in OpToRel(<, Nat)
  BY <1>4, <1>5 DEF OpToRel
<1>7. x - 1 \in S
  BY <1>1, <1>3, <1>5, <1>6
<1> QED
  BY <1>4, <1>5, <1>7

\* The same up to a bound, as a loop goes.
LEMMA EveryRound ==
    ASSUME NEW N \in Nat, NEW S, 0 \in S, \A n \in 1 .. N : n - 1 \in S => n \in S
    PROVE  \A n \in 0 .. N : n \in S
<1>1. PICK T : T = {n \in Nat : n <= N => n \in S}
  OBVIOUS
<1>2. 0 \in T
  BY <1>1
<1>3. ASSUME NEW n \in Nat, n \in T PROVE n + 1 \in T
  <2>1. CASE n + 1 <= N
    <3>1. n \in S /\ n + 1 \in 1 .. N /\ (n + 1) - 1 = n
      BY <2>1, <1>1, <1>3
    <3>2. n + 1 \in S
      BY <3>1
    <3> QED
      BY <3>2, <1>1
  <2> QED
    BY <2>1, <1>1
<1>4. \A n \in Nat : n \in T
  BY <1>2, <1>3, EveryNatural
<1> QED
  BY <1>1, <1>4

\* What holds of the state before a loop and after each round holds throughout.
LEMMA RoundsType ==
    ASSUME NEW N \in Nat, NEW V, NEW f, f[0] \in V, \A n \in 1 .. N : f[n - 1] \in V => f[n] \in V
    PROVE  \A n \in 0 .. N : f[n] \in V
<1>1. PICK S : S = {n \in Nat : f[n] \in V}
  OBVIOUS
<1>2. 0 \in S
  BY <1>1
<1>3. ASSUME NEW n \in 1 .. N, n - 1 \in S PROVE n \in S
  BY <1>1, <1>3
<1>4. \A n \in 0 .. N : n \in S
  BY <1>2, <1>3, EveryRound
<1> QED
  BY <1>1, <1>4

\* A bounded set of naturals has a greatest element.
LEMMA MaxExists ==
    ASSUME NEW N \in Nat, NEW S, S \subseteq 0 .. N, S # {}
    PROVE  Max(S) \in S /\ \A y \in S : Max(S) >= y
<1>1. PICK T : T = {n \in 0 .. N : N - n \in S}
  OBVIOUS
<1>2. T \subseteq Nat /\ T # {}
  <2>1. PICK s \in S : s \in 0 .. N
    OBVIOUS
  <2>2. N - s \in 0 .. N /\ N - (N - s) = s
    BY <2>1
  <2>3. N - s \in T
    BY <1>1, <2>1, <2>2
  <2>4. T \subseteq Nat
    BY <1>1
  <2> QED
    BY <2>3, <2>4
<1>3. PICK x \in T : \A y \in T : ~(<<y, x>> \in OpToRel(<, Nat))
  BY <1>2, NatLessThanWellFounded, WFMin
<1>4. x \in 0 .. N /\ N - x \in S
  BY <1>1, <1>3
<1>5. ASSUME NEW y \in S PROVE N - x >= y
  <2>1. y \in 0 .. N
    OBVIOUS
  <2>2. N - y \in 0 .. N /\ N - (N - y) = y
    BY <2>1
  <2>3. N - y \in T
    BY <1>1, <2>2
  <2>4. ~(N - y < x)
    BY <2>3, <1>2, <1>3, <1>4 DEF OpToRel
  <2> QED
    BY <2>1, <2>4, <1>4
<1> QED
  BY <1>4, <1>5 DEF Max

-----------------------------------------------------------------------------
(* Loops and sums                                                           *)

\* What the states of a loop are, round by round
Steps(g, first, body, m) == g[0] = first /\ \A n \in 1 .. m : g[n] = body[n][g[n - 1]]

\* A loop whose body is a function of its state has a table of its states.
LEMMA RoundsExist ==
    ASSUME NEW V, NEW first \in V, NEW N \in Nat, NEW body \in [1 .. N -> [V -> V]]
    PROVE  \E g \in [0 .. N -> V] : Steps(g, first, body, N)
<1>1. PICK S : S = {m \in Nat : m <= N => \E g \in [0 .. m -> V] : Steps(g, first, body, m)}
  OBVIOUS
<1>2. 0 \in S
  <2>1. PICK g : g = [n \in 0 .. 0 |-> first]
    OBVIOUS
  <2>2. g \in [0 .. 0 -> V] /\ Steps(g, first, body, 0)
    BY <2>1 DEF Steps
  <2> QED
    BY <1>1, <2>2
<1>3. ASSUME NEW m \in Nat, m \in S PROVE m + 1 \in S
  <2>1. CASE m + 1 <= N
    <3>1. PICK g \in [0 .. m -> V] : Steps(g, first, body, m)
      BY <2>1, <1>1, <1>3
    <3>2. PICK h : h = [n \in 0 .. m + 1 |-> IF n = m + 1 THEN body[m + 1][g[m]] ELSE g[n]]
      OBVIOUS
    <3>3. m + 1 \in 1 .. N /\ g[m] \in V
      BY <2>1, <3>1
    <3>4. body[m + 1] \in [V -> V]
      BY <3>3
    <3>5. body[m + 1][g[m]] \in V
      BY <3>3, <3>4
    <3>6. h \in [0 .. m + 1 -> V]
      BY <3>1, <3>2, <3>5
    <3>7. h[0] = first
      BY <3>1, <3>2 DEF Steps
    <3>8. ASSUME NEW n \in 1 .. m + 1 PROVE h[n] = body[n][h[n - 1]]
      <4>1. n - 1 \in 0 .. m /\ n - 1 # m + 1 /\ n \in 0 .. m + 1 /\ n - 1 \in 0 .. m + 1
        OBVIOUS
      <4>2. h[n - 1] = g[n - 1]
        BY <3>2, <4>1
      <4>3. CASE n = m + 1
        BY <4>2, <4>3, <3>2
      <4>4. CASE n # m + 1
        <5>1. n \in 1 .. m /\ h[n] = g[n]
          BY <4>1, <4>4, <3>2
        <5> QED
          BY <4>2, <5>1, <3>1 DEF Steps
      <4> QED
        BY <4>3, <4>4
    <3>9. Steps(h, first, body, m + 1)
      BY <3>7, <3>8 DEF Steps
    <3> QED
      BY <3>6, <3>9, <1>1
  <2> QED
    BY <2>1, <1>1
<1>4. N \in S
  BY <1>2, <1>3, EveryNatural
<1> QED
  BY <1>1, <1>4

\* Totals is the table of the running sums.
LEMMA TotalsTable ==
    ASSUME NEW s \in Seq(Nat)
    PROVE  /\ Totals(s) \in [0 .. Len(s) -> Nat] /\ Totals(s)[0] = 0
           /\ \A n \in 1 .. Len(s) : Totals(s)[n] = Totals(s)[n - 1] + s[n]
<1> DEFINE Rec(g) == [n \in 0 .. Len(s) |-> IF n = 0 THEN 0 ELSE g[n - 1] + s[n]]
<1>l. Len(s) \in Nat /\ \A n \in 1 .. Len(s) : s[n] \in Nat
  OBVIOUS
<1>1. PICK body : body = [n \in 1 .. Len(s) |-> [v \in Nat |-> v + s[n]]]
  OBVIOUS
<1>2. body \in [1 .. Len(s) -> [Nat -> Nat]]
  <2>1. ASSUME NEW n \in 1 .. Len(s) PROVE [v \in Nat |-> v + s[n]] \in [Nat -> Nat]
    BY <1>l
  <2> QED
    BY <1>1, <2>1
<1>3. PICK g \in [0 .. Len(s) -> Nat] : Steps(g, 0, body, Len(s))
  BY <1>2, <1>l, RoundsExist
<1>4. g = Rec(g)
  <2>1. ASSUME NEW n \in 0 .. Len(s), n # 0 PROVE g[n] = g[n - 1] + s[n]
    <3>1. n \in 1 .. Len(s) /\ n - 1 \in 0 .. Len(s)
      BY <2>1, <1>l
    <3>2. g[n - 1] \in Nat /\ body[n] = [v \in Nat |-> v + s[n]]
      BY <1>1, <3>1
    <3> QED
      BY <1>3, <3>1, <3>2 DEF Steps
  <2>2. g[0] = 0
    BY <1>3 DEF Steps
  <2> QED
    BY <2>1, <2>2
<1>5. Totals(s) = CHOOSE f : f = Rec(f)
  BY DEF Totals, LoopStates
<1>6. PICK f : f = Totals(s)
  OBVIOUS
<1>7. f = Rec(f)
  BY <1>4, <1>5, <1>6
<1>8. /\ DOMAIN f = 0 .. Len(s) /\ f[0] = 0 /\ f = [n \in 0 .. Len(s) |-> f[n]]
      /\ \A n \in 1 .. Len(s) : f[n] = f[n - 1] + s[n]
  BY <1>7, <1>l
<1>9. \A n \in 0 .. Len(s) : f[n] \in Nat
  <2>1. ASSUME NEW n \in 1 .. Len(s), f[n - 1] \in Nat PROVE f[n] \in Nat
    <3>1. s[n] \in Nat /\ f[n] = f[n - 1] + s[n]
      BY <1>8, <1>l
    <3> QED
      BY <2>1, <3>1
  <2>2. f[0] \in Nat
    BY <1>8
  <2> QED
    BY <2>1, <2>2, <1>l, RoundsType
<1> QED
  BY <1>6, <1>8, <1>9

\* What grows at least as fast as the sums stays above them.
LEMMA TotalsBelow ==
    ASSUME NEW s \in Seq(Nat), NEW f, \A n \in 0 .. Len(s) : f[n] \in Int, f[0] >= 0,
           \A n \in 1 .. Len(s) : f[n] >= f[n - 1] + s[n]
    PROVE  \A n \in 0 .. Len(s) : Totals(s)[n] \in Nat /\ Totals(s)[n] <= f[n]
<1>l. Len(s) \in Nat
  OBVIOUS
<1>1. PICK t : t = Totals(s)
  OBVIOUS
<1>2. /\ \A n \in 0 .. Len(s) : t[n] \in Nat
      /\ t[0] = 0
      /\ \A n \in 1 .. Len(s) : t[n] = t[n - 1] + s[n]
  BY <1>1, TotalsTable
<1>3. PICK S : S = {n \in 0 .. Len(s) : t[n] <= f[n]}
  OBVIOUS
<1>4. 0 \in S
  <2>1. 0 \in 0 .. Len(s) /\ f[0] \in Int
    BY <1>l
  <2> QED
    BY <2>1, <1>2, <1>3
<1>5. ASSUME NEW n \in 1 .. Len(s), n - 1 \in S PROVE n \in S
  <2>1. n \in 0 .. Len(s) /\ n - 1 \in 0 .. Len(s) /\ s[n] \in Nat
    BY <1>l
  <2>2. f[n] \in Int /\ f[n - 1] \in Int /\ t[n] \in Nat /\ t[n - 1] \in Nat
    BY <2>1, <1>2
  <2>3. t[n - 1] <= f[n - 1] /\ t[n] = t[n - 1] + s[n] /\ f[n] >= f[n - 1] + s[n]
    BY <1>2, <1>3, <1>5
  <2>4. PICK a \in Nat, b \in Int, c \in Int, x \in Nat :
            a = t[n - 1] /\ b = f[n - 1] /\ c = f[n] /\ x = s[n]
    BY <2>1, <2>2
  <2>5. a <= b /\ t[n] = a + x /\ c >= b + x
    BY <2>3, <2>4
  <2>6. a + x <= c
    BY <2>5
  <2>7. t[n] <= f[n]
    BY <2>4, <2>5, <2>6
  <2> QED
    BY <2>1, <2>7, <1>3
<1>6. \A n \in 0 .. Len(s) : n \in S
  BY <1>4, <1>5, <1>l, EveryRound
<1> QED
  BY <1>1, <1>2, <1>3, <1>6

\* Multiplication by a natural is monotone.
LEMMA Monotone ==
    ASSUME NEW a \in Nat, NEW x \in Int, NEW y \in Int, x <= y
    PROVE  a * x \in Int /\ a * x <= a * y
<1>1. PICK d \in Nat : y = x + d
  <2>1. y - x \in Nat /\ y = x + (y - x)
    OBVIOUS
  <2> QED
    BY <2>1
<1>2. a * (x + d) = a * x + a * d /\ a * d \in Nat /\ a * x \in Int
  OBVIOUS
<1> QED
  BY <1>1, <1>2

\* Numbers that are at most c times others have at most c times their sum.
LEMMA TotalScaled ==
    ASSUME NEW s \in Seq(Nat), NEW t \in Seq(Nat), Len(s) = Len(t), NEW c \in Nat,
           \A i \in 1 .. Len(s) : s[i] <= c * t[i]
    PROVE  Total(s) \in Nat /\ Total(t) \in Nat /\ Total(s) <= c * Total(t)
<1>l. Len(s) \in Nat
  OBVIOUS
<1>1. PICK g : g = Totals(t)
  OBVIOUS
<1>2. /\ \A n \in 0 .. Len(s) : g[n] \in Nat
      /\ g[0] = 0
      /\ \A n \in 1 .. Len(s) : g[n] = g[n - 1] + t[n]
  BY <1>1, TotalsTable
<1>3. PICK f : f = [n \in 0 .. Len(s) |-> c * g[n]]
  OBVIOUS
<1>4. \A n \in 0 .. Len(s) : f[n] = c * g[n] /\ f[n] \in Int
  <2>1. ASSUME NEW n \in 0 .. Len(s) PROVE c * g[n] \in Int
    BY <1>2
  <2> QED
    BY <2>1, <1>3
<1>5. f[0] >= 0
  <2>1. 0 \in 0 .. Len(s) /\ c * 0 = 0
    BY <1>l
  <2> QED
    BY <2>1, <1>2, <1>4
<1>6. ASSUME NEW n \in 1 .. Len(s) PROVE f[n] >= f[n - 1] + s[n]
  <2>1. n \in 0 .. Len(s) /\ n - 1 \in 0 .. Len(s) /\ s[n] \in Nat /\ t[n] \in Nat
    BY <1>l
  <2>2. PICK a \in Nat, b \in Nat : a = g[n - 1] /\ b = t[n]
    BY <2>1, <1>2
  <2>3. f[n - 1] = c * a /\ f[n] = c * (a + b) /\ s[n] <= c * b
    BY <2>1, <2>2, <1>2, <1>4
  <2>4. c * (a + b) = c * a + c * b /\ c * a \in Int /\ c * b \in Int
    OBVIOUS
  <2>5. PICK x \in Nat, p \in Int, q \in Int : x = s[n] /\ p = c * a /\ q = c * b
    BY <2>1, <2>4
  <2>6. f[n - 1] = p /\ f[n] = p + q /\ x <= q
    BY <2>3, <2>4, <2>5
  <2>7. p + q >= p + x
    BY <2>6
  <2> QED
    BY <2>5, <2>6, <2>7
<1>7. \A n \in 0 .. Len(s) : Totals(s)[n] \in Nat /\ Totals(s)[n] <= f[n]
  BY <1>4, <1>5, <1>6, TotalsBelow
<1>8. Len(s) \in 0 .. Len(s)
  BY <1>l
<1> QED
  BY <1>1, <1>2, <1>4, <1>7, <1>8 DEF Total

\* So many numbers of at most m
LEMMA TotalBounded ==
    ASSUME NEW s \in Seq(Nat), NEW m \in Nat, \A i \in 1 .. Len(s) : s[i] <= m
    PROVE  Total(s) \in Nat /\ Total(s) <= m * Len(s)
<1>l. Len(s) \in Nat
  OBVIOUS
<1>1. PICK f : f = [n \in 0 .. Len(s) |-> m * n]
  OBVIOUS
<1>2. \A n \in 0 .. Len(s) : f[n] = m * n /\ f[n] \in Int
  <2>1. ASSUME NEW n \in 0 .. Len(s) PROVE m * n \in Int
    OBVIOUS
  <2> QED
    BY <1>1, <2>1
<1>3. f[0] >= 0
  <2>1. 0 \in 0 .. Len(s) /\ m * 0 = 0
    BY <1>l
  <2> QED
    BY <2>1, <1>2
<1>4. ASSUME NEW n \in 1 .. Len(s) PROVE f[n] >= f[n - 1] + s[n]
  <2>1. n \in 0 .. Len(s) /\ n - 1 \in 0 .. Len(s) /\ s[n] \in Nat /\ s[n] <= m
    BY <1>l
  <2>2. PICK k \in Nat : k = n - 1 /\ n = k + 1
    BY <2>1
  <2>3. m * (k + 1) = m * k + m /\ m * k \in Int
    OBVIOUS
  <2>4. PICK x \in Nat, p \in Int : x = s[n] /\ p = m * k /\ x <= m
    BY <2>1, <2>3
  <2>5. f[n - 1] = p /\ f[n] = p + m
    BY <2>1, <2>2, <2>3, <2>4, <1>2
  <2>6. p + m >= p + x
    BY <2>4
  <2> QED
    BY <2>4, <2>5, <2>6
<1>5. \A n \in 0 .. Len(s) : Totals(s)[n] \in Nat /\ Totals(s)[n] <= f[n]
  BY <1>2, <1>3, <1>4, TotalsBelow
<1>6. Len(s) \in 0 .. Len(s)
  BY <1>l
<1> QED
  BY <1>2, <1>5, <1>6 DEF Total

\* Numbers of which none is greater than its counterpart and one is smaller
LEMMA TotalSmaller ==
    ASSUME NEW s \in Seq(Nat), NEW t \in Seq(Nat), Len(s) = Len(t), NEW k \in 1 .. Len(s),
           s[k] < t[k], \A i \in 1 .. Len(s) : s[i] <= t[i]
    PROVE  Total(s) < Total(t)
<1>l. Len(s) \in Nat
  OBVIOUS
<1>1. PICK g : g = Totals(t)
  OBVIOUS
<1>2. /\ \A n \in 0 .. Len(s) : g[n] \in Nat
      /\ g[0] = 0
      /\ \A n \in 1 .. Len(s) : g[n] = g[n - 1] + t[n]
  BY <1>1, TotalsTable
<1>3. PICK f : f = [n \in 0 .. Len(s) |-> IF n >= k THEN g[n] - 1 ELSE g[n]]
  OBVIOUS
<1>4. /\ \A n \in 0 .. Len(s) : f[n] \in Int /\ f[n] = IF n >= k THEN g[n] - 1 ELSE g[n]
      /\ f[0] >= 0
  BY <1>2, <1>3, <1>l
<1>5. ASSUME NEW n \in 1 .. Len(s) PROVE f[n] >= f[n - 1] + s[n]
  <2>1. n \in 0 .. Len(s) /\ n - 1 \in 0 .. Len(s) /\ s[n] \in Nat /\ t[n] \in Nat /\ s[n] <= t[n]
    <3>1. n \in 0 .. Len(s) /\ n - 1 \in 0 .. Len(s) /\ n \in 1 .. Len(t)
      BY <1>l
    <3>2. s[n] \in Nat
      OBVIOUS
    <3>3. t[n] \in Nat
      BY <3>1
    <3> QED
      BY <3>1, <3>2, <3>3, Zenon
  <2>2. n = k => s[n] < t[n]
    OBVIOUS
  <2>3. g[n] = g[n - 1] + t[n] /\ g[n] \in Nat /\ g[n - 1] \in Nat
    BY <2>1, <1>2
  <2>4. /\ f[n] = IF n >= k THEN g[n] - 1 ELSE g[n]
        /\ f[n - 1] = IF n - 1 >= k THEN g[n - 1] - 1 ELSE g[n - 1]
    BY <2>1, <1>4
  <2>5. PICK a \in Nat, b \in Nat, x \in Nat, y \in Nat :
            a = g[n - 1] /\ b = g[n] /\ x = s[n] /\ y = t[n]
    BY <2>1, <2>3
  <2>a. b = a + y /\ x <= y /\ (n = k => x < y)
    BY <2>1, <2>2, <2>3, <2>5
  <2>b. n \in Int /\ k \in Int
    OBVIOUS
  <2>6. CASE n > k
    <3>1. n >= k /\ n - 1 >= k
      BY <2>6, <2>b
    <3>2. f[n] = b - 1 /\ f[n - 1] = a - 1
      BY <2>4, <2>5, <3>1
    <3>3. b - 1 >= (a - 1) + x
      BY <2>a
    <3> QED
      BY <3>2, <3>3, <2>5
  <2>7. CASE n = k
    <3>1. n >= k /\ ~(n - 1 >= k)
      BY <2>7, <2>b
    <3>2. f[n] = b - 1 /\ f[n - 1] = a
      BY <2>4, <2>5, <3>1
    <3>3. b - 1 >= a + x
      BY <2>a, <2>7
    <3> QED
      BY <3>2, <3>3, <2>5
  <2>8. CASE n < k
    <3>1. ~(n >= k) /\ ~(n - 1 >= k)
      BY <2>8, <2>b
    <3>2. f[n] = b /\ f[n - 1] = a
      BY <2>4, <2>5, <3>1
    <3>3. b >= a + x
      BY <2>a
    <3> QED
      BY <3>2, <3>3, <2>5
  <2> QED
    BY <2>6, <2>7, <2>8, <2>b
<1>6. \A n \in 0 .. Len(s) : Totals(s)[n] \in Nat /\ Totals(s)[n] <= f[n]
  BY <1>4, <1>5, TotalsBelow
<1>7. Len(s) \in 0 .. Len(s) /\ Len(s) >= k
  BY <1>l
<1>8. PICK a \in Nat, b \in Nat : a = Totals(s)[Len(s)] /\ b = g[Len(s)]
  BY <1>2, <1>6, <1>7
<1>9. f[Len(s)] = b - 1 /\ a <= f[Len(s)]
  BY <1>4, <1>6, <1>7, <1>8
<1>10. a < b
  BY <1>9
<1> QED
  BY <1>1, <1>8, <1>10 DEF Total

\* More numbers have no smaller sum.
LEMMA TotalsRise ==
    ASSUME NEW s \in Seq(Nat), NEW m \in 0 .. Len(s), NEW n \in 0 .. m
    PROVE  /\ Totals(s)[n] \in Nat /\ Totals(s)[m] \in Nat
           /\ Totals(s)[n] <= Totals(s)[m]
<1>l. Len(s) \in Nat /\ m \in Nat /\ n \in Nat /\ m <= Len(s) /\ n <= m
  OBVIOUS
<1>1. PICK f : f = Totals(s)
  OBVIOUS
<1>2. /\ \A k \in 0 .. Len(s) : f[k] \in Nat
      /\ \A k \in 1 .. Len(s) : f[k] = f[k - 1] + s[k]
  BY <1>1, TotalsTable
<1>t. \A k \in 1 .. Len(s) : s[k] \in Nat
  OBVIOUS
<1>3. PICK S : S = {k \in 0 .. m : k >= n => f[n] <= f[k]}
  OBVIOUS
<1>4. 0 \in S
  BY <1>2, <1>3, <1>l
<1>5. ASSUME NEW k \in 1 .. m, k - 1 \in S PROVE k \in S
  <2>1. k \in 1 .. Len(s) /\ k - 1 \in 0 .. Len(s) /\ k \in 0 .. m /\ n \in 0 .. Len(s)
    BY <1>l
  <2>2. PICK a \in Nat, b \in Nat, x \in Nat : a = f[n] /\ b = f[k - 1] /\ x = s[k]
    BY <2>1, <1>2, <1>t
  <2>3. (k - 1 >= n => a <= b) /\ f[k] = b + x
    BY <2>1, <2>2, <1>2, <1>3, <1>5
  <2>4. CASE k - 1 >= n
    <3>1. a <= b + x
      BY <2>3, <2>4
    <3> QED
      BY <3>1, <2>1, <2>2, <2>3, <1>3
  <2>5. CASE k = n
    BY <2>1, <2>2, <2>5, <1>3
  <2>6. CASE k < n
    <3>1. ~(k >= n)
      BY <2>6, <1>l
    <3> QED
      BY <3>1, <2>1, <1>3
  <2> QED
    BY <2>4, <2>5, <2>6, <1>l
<1>6. \A k \in 0 .. m : k \in S
  BY <1>4, <1>5, <1>l, EveryRound
<1>7. m \in 0 .. m /\ m \in 0 .. Len(s) /\ n \in 0 .. Len(s)
  BY <1>l
<1> QED
  BY <1>1, <1>2, <1>3, <1>6, <1>7, <1>l

\* The sums depend on the numbers that were added alone.
LEMMA TotalsAgree ==
    ASSUME NEW s \in Seq(Nat), NEW t \in Seq(Nat), NEW m \in 0 .. Len(s), m <= Len(t),
           \A n \in 1 .. m : s[n] = t[n]
    PROVE  \A n \in 0 .. m : Totals(s)[n] = Totals(t)[n]
<1>l. Len(s) \in Nat /\ Len(t) \in Nat /\ m \in Nat /\ m <= Len(s)
  OBVIOUS
<1>1. PICK f, g : f = Totals(s) /\ g = Totals(t)
  OBVIOUS
<1>2. /\ f[0] = 0 /\ g[0] = 0
      /\ \A n \in 1 .. Len(s) : f[n] = f[n - 1] + s[n]
      /\ \A n \in 1 .. Len(t) : g[n] = g[n - 1] + t[n]
  BY <1>1, TotalsTable
<1>3. PICK S : S = {n \in 0 .. m : f[n] = g[n]}
  OBVIOUS
<1>4. 0 \in S
  BY <1>2, <1>3, <1>l
<1>5. ASSUME NEW n \in 1 .. m, n - 1 \in S PROVE n \in S
  <2>1. n \in 1 .. Len(s) /\ n \in 1 .. Len(t) /\ n \in 0 .. m
    BY <1>l
  <2> QED
    BY <2>1, <1>2, <1>3, <1>5
<1>6. \A n \in 0 .. m : n \in S
  BY <1>4, <1>5, <1>l, EveryRound
<1> QED
  BY <1>1, <1>3, <1>6

\* One more number
LEMMA TotalAppend ==
    ASSUME NEW s \in Seq(Nat), NEW x \in Nat
    PROVE  Total(s) \in Nat /\ Total(Append(s, x)) = Total(s) + x
<1>1. PICK t : t = Append(s, x)
  OBVIOUS
<1>2. /\ t \in Seq(Nat) /\ Len(t) = Len(s) + 1 /\ t[Len(s) + 1] = x /\ Len(s) \in Nat
      /\ \A n \in 1 .. Len(s) : t[n] = s[n]
  BY <1>1
<1>3. Len(s) \in 0 .. Len(s) /\ Len(s) <= Len(t) /\ Len(s) + 1 \in 1 .. Len(t)
      /\ Len(s) + 1 - 1 = Len(s)
  BY <1>2
<1>4. Totals(s)[Len(s)] = Totals(t)[Len(s)]
  BY <1>2, <1>3, TotalsAgree
<1>5. Totals(t)[Len(s) + 1] = Totals(t)[Len(s) + 1 - 1] + t[Len(s) + 1]
  <2>1. \A n \in 1 .. Len(t) : Totals(t)[n] = Totals(t)[n - 1] + t[n]
    BY <1>2, TotalsTable
  <2> QED
    BY <2>1, <1>3
<1>6. Totals(s)[Len(s)] \in Nat
  BY <1>3, TotalsTable
<1> QED
  BY <1>1, <1>2, <1>3, <1>4, <1>5, <1>6 DEF Total
-----------------------------------------------------------------------------
(* backgroundjobs: the ring buffer                                          *)

Slots == 0 .. TailLimit - 1

\* The slot i places behind start, around the ring
Slot(start, i) == IF start + i < TailLimit THEN start + i ELSE start + i - TailLimit

TailTypes == [pc : {"idle", "open", "done"}, buffer : [Slots -> Nat], start : Slots,
              length : 0 .. TailLimit, truncated : BOOLEAN, written : Nat, marked : BOOLEAN]

\* The ring holds the last bytes that were written, from start on.
TailOK(t) ==
    /\ t \in TailTypes
    /\ t.length = IF t.written < TailLimit THEN t.written ELSE TailLimit
    /\ \A i \in 0 .. t.length - 1 : t.buffer[Slot(t.start, i)] = t.written - t.length + i + 1
    /\ t.truncated <=> t.marked \/ t.written > TailLimit

TailInv == TailOK(tail)

\* A fresh buffer, and the one of no job
LEMMA FreshTail ==
    ASSUME NEW t, t \in {newTailWriter, TailIdle, [TailIdle EXCEPT !.pc = "done"]}
    PROVE  TailOK(t)
<1>1. /\ TailLimit \in Nat \ {0} /\ [i \in 0 .. TailLimit - 1 |-> 0] \in [Slots -> Nat]
      /\ 0 \in Slots /\ 0 \in 0 .. TailLimit
  BY TailAssumption DEF Slots
<1>2. PICK p \in {"idle", "open", "done"} :
        t = [pc |-> p, buffer |-> [i \in 0 .. TailLimit - 1 |-> 0], start |-> 0,
     length |-> 0, truncated |-> FALSE, written |-> 0, marked |-> FALSE]
  BY DEF newTailWriter, TailIdle
<1>3. t \in TailTypes
  BY <1>1, <1>2 DEF TailTypes
<1> QED
  BY <1>1, <1>2, <1>3 DEF TailOK

\* How much of a chunk of n bytes fits behind slot e before the ring wraps
FirstPart(e, n) == IF n <= TailLimit - e THEN n ELSE TailLimit - e

\* Write's two copies of a chunk behind slot e.
Spread(b, e, data) ==
    LET first == FirstPart(e, Len(data))
    IN  copy(copy(b, e, SubSeq(data, 1, first)), 0, SubSeq(data, first + 1, Len(data)))

\* The two copies of Write: which slots of the ring each part of a chunk goes to.
LEMMA ChunkParts ==
    ASSUME NEW e \in Slots, NEW n \in 0 .. TailLimit - 1,
           NEW first, first = FirstPart(e, n)
    PROVE  /\ first \in Nat /\ first <= n
           /\ \A j \in 0 .. n - 1 :
                /\ Slot(e, j) \in Slots
                /\ \/ /\ Slot(e, j) - e + 1 \in 1 .. first /\ Slot(e, j) - e + 1 = j + 1
                      /\ ~(Slot(e, j) + 1 \in 1 .. n - first)
                   \/ /\ Slot(e, j) + 1 \in 1 .. n - first
                      /\ first + (Slot(e, j) + 1) = j + 1
           /\ \A k \in Slots :
                k - e + 1 \in 1 .. first \/ k + 1 \in 1 .. n - first =>
                    \E j \in 0 .. n - 1 : k = Slot(e, j)
<1>0. TailLimit \in Nat \ {0} /\ e \in Nat /\ n \in Nat /\ e < TailLimit /\ n < TailLimit
  BY TailAssumption DEF Slots
<1>1. first \in Nat /\ first <= n
  BY <1>0 DEF FirstPart
<1>2. ASSUME NEW j \in 0 .. n - 1
      PROVE  /\ Slot(e, j) \in Slots
             /\ \/ /\ Slot(e, j) - e + 1 \in 1 .. first /\ Slot(e, j) - e + 1 = j + 1
                   /\ ~(Slot(e, j) + 1 \in 1 .. n - first)
                \/ /\ Slot(e, j) + 1 \in 1 .. n - first
                   /\ first + (Slot(e, j) + 1) = j + 1
  BY <1>0 DEF Slot, Slots, FirstPart
<1>3. ASSUME NEW k \in Slots, k - e + 1 \in 1 .. first
      PROVE  \E j \in 0 .. n - 1 : k = Slot(e, j)
  <2>1. k - e \in 0 .. n - 1 /\ k = Slot(e, k - e)
    BY <1>0, <1>1, <1>3 DEF Slot, Slots, FirstPart
  <2> QED
    BY <2>1
<1>4. ASSUME NEW k \in Slots, k + 1 \in 1 .. n - first
      PROVE  \E j \in 0 .. n - 1 : k = Slot(e, j)
  <2>1. k + first \in 0 .. n - 1 /\ k = Slot(e, k + first)
    BY <1>0, <1>1, <1>4 DEF Slot, Slots, FirstPart
  <2> QED
    BY <2>1
<1> QED
  BY <1>1, <1>2, <1>3, <1>4

\* A chunk: the bytes that follow the first w
Numbers(data, w) == data \in Seq(Nat) /\ \A i \in 1 .. Len(data) : data[i] = w + i

\* The ring f is b with the numbers w+1 .. w+n behind slot e.
Copied(f, b, w, e, n) ==
    /\ f \in [Slots -> Nat]
    /\ \A j \in 0 .. n - 1 : f[Slot(e, j)] = w + j + 1
    /\ \A k \in Slots : (\A j \in 0 .. n - 1 : k # Slot(e, j)) => f[k] = b[k]

\* Together the copies put a chunk behind slot e and leave the other slots alone.
LEMMA RingCopy ==
    ASSUME NEW b \in [Slots -> Nat], NEW w \in Nat, NEW e \in Slots,
           NEW data, Numbers(data, w), Len(data) < TailLimit
    PROVE  Copied(Spread(b, e, data), b, w, e, Len(data))
<1>n. PICK n : n = Len(data)
  OBVIOUS
<1>m. /\ n \in 0 .. TailLimit - 1 /\ data \in Seq(Nat) /\ Len(data) = n
      /\ \A i \in 1 .. n : data[i] = w + i
      /\ w \in Nat /\ e \in Slots
  BY <1>n, TailAssumption DEF Numbers
<1>f. PICK first : first = FirstPart(e, n)
  OBVIOUS
<1>g. PICK f : f = Spread(b, e, data)
  OBVIOUS
<1>0. TailLimit \in Nat \ {0} /\ e \in Nat /\ n \in Nat /\ e < TailLimit /\ n < TailLimit
  BY <1>m, TailAssumption DEF Slots
<1>1. data \in Seq(Nat) /\ Len(data) = n /\ first \in Nat /\ first <= n
  BY <1>m, <1>f, ChunkParts
<1>2. PICK p : p = SubSeq(data, 1, first)
  OBVIOUS
<1>3. PICK q : q = SubSeq(data, first + 1, n)
  OBVIOUS
<1>4. DOMAIN p = 1 .. first /\ \A i \in 1 .. first : p[i] = w + i
  BY <1>m, <1>0, <1>1, <1>2
<1>5. DOMAIN q = 1 .. n - first /\ \A i \in 1 .. n - first : q[i] = w + (first + i)
  <2>1. q \in Seq(Nat) /\ Len(q) = n - first /\ \A i \in 1 .. n - first : q[i] = data[first + i]
    BY <1>m, <1>0, <1>1, <1>3
  <2>2. \A i \in 1 .. n - first : first + i \in 1 .. n
    BY <1>0, <1>1
  <2> QED
    BY <1>m, <2>1, <2>2
<1>6. PICK g : g = copy(b, e, p)
  OBVIOUS
<1>7. g = [i \in Slots |-> IF i - e + 1 \in 1 .. first THEN w + (i - e + 1) ELSE b[i]]
  BY <1>4, <1>6 DEF copy
<1>8. f = [i \in Slots |-> IF i + 1 \in 1 .. n - first THEN w + (first + (i + 1)) ELSE g[i]]
  <2>1. f = copy(g, 0, q) /\ DOMAIN g = Slots
    BY <1>m, <1>f, <1>g, <1>1, <1>2, <1>3, <1>6, <1>7 DEF Spread
  <2>2. f = [i \in Slots |-> IF i - 0 + 1 \in 1 .. n - first THEN q[i - 0 + 1] ELSE g[i]]
    BY <2>1, <1>5 DEF copy
  <2>3. \A i \in Slots : i - 0 + 1 = i + 1
    BY <1>0 DEF Slots
  <2>4. \A i \in Slots : i + 1 \in 1 .. n - first => q[i + 1] = w + (first + (i + 1))
    BY <1>5
  <2>5. ASSUME NEW i \in Slots
        PROVE  (IF i - 0 + 1 \in 1 .. n - first THEN q[i - 0 + 1] ELSE g[i])
               = IF i + 1 \in 1 .. n - first THEN w + (first + (i + 1)) ELSE g[i]
    BY <2>3, <2>4
  <2> QED
    BY <2>2, <2>5, Zenon
<1>9. g \in [Slots -> Nat]
  BY <1>0, <1>1, <1>7 DEF Slots
<1>10. f \in [Slots -> Nat]
  <2>1. \A i \in Slots : w + (first + (i + 1)) \in Nat
    BY <1>0, <1>1 DEF Slots
  <2> QED
    BY <1>8, <1>9, <2>1
<1>p. /\ \A j \in 0 .. n - 1 :
                /\ Slot(e, j) \in Slots
                /\ \/ /\ Slot(e, j) - e + 1 \in 1 .. first /\ Slot(e, j) - e + 1 = j + 1
                      /\ ~(Slot(e, j) + 1 \in 1 .. n - first)
                   \/ /\ Slot(e, j) + 1 \in 1 .. n - first
                      /\ first + (Slot(e, j) + 1) = j + 1
      /\ \A k \in Slots :
                k - e + 1 \in 1 .. first \/ k + 1 \in 1 .. n - first =>
                    \E j \in 0 .. n - 1 : k = Slot(e, j)
  BY <1>m, <1>f, ChunkParts
<1>11. ASSUME NEW j \in 0 .. n - 1 PROVE f[Slot(e, j)] = w + (j + 1)
  <2>1. PICK k \in Slots : k = Slot(e, j)
    BY <1>p
  <2>2. CASE k - e + 1 \in 1 .. first /\ k - e + 1 = j + 1 /\ ~(k + 1 \in 1 .. n - first)
    BY <2>1, <2>2, <1>7, <1>8
  <2>3. CASE k + 1 \in 1 .. n - first /\ first + (k + 1) = j + 1
    BY <2>1, <2>3, <1>8
  <2> QED
    BY <2>1, <2>2, <2>3, <1>p
<1>12. ASSUME NEW k \in Slots, \A j \in 0 .. n - 1 : k # Slot(e, j) PROVE f[k] = b[k]
  BY <1>7, <1>8, <1>12, <1>p
<1>13. ASSUME NEW j \in 0 .. n - 1 PROVE w + (j + 1) = w + j + 1
  BY <1>0
<1> QED
  <2>1. Copied(f, b, w, e, n)
    BY <1>10, <1>11, <1>12, <1>13 DEF Copied
  <2> QED
    BY <2>1, <1>n, <1>g, Zenon

\* A position of the ring, computed by remainder.
LEMMA SlotIsRemainder ==
    ASSUME NEW x \in Slots, NEW i \in 0 .. TailLimit, NEW y, y = x + i
    PROVE  y % TailLimit = Slot(x, i) /\ Slot(x, i) \in Slots
<1>1. /\ TailLimit \in Nat \ {0} /\ y \in Nat /\ y < 2 * TailLimit
      /\ Slot(x, i) = IF y < TailLimit THEN y ELSE y - TailLimit
  BY TailAssumption DEF Slots, Slot
<1>2. y % TailLimit = IF y < TailLimit THEN y ELSE y - TailLimit
  BY <1>1, Wrap
<1>3. Slot(x, i) \in Slots
  BY TailAssumption DEF Slot, Slots
<1> QED
  BY <1>1, <1>2, <1>3, Zenon

\* Where a small chunk goes: positions of the ring before and after it.
LEMMA RingMoves ==
    ASSUME NEW start \in Slots, NEW l \in 0 .. TailLimit, NEW n \in 0 .. TailLimit - 1,
           NEW d, d = (IF l + n - TailLimit > 0 THEN l + n - TailLimit ELSE 0),
           NEW s, s = Slot(start, d), NEW e, e = Slot(s, l - d)
    PROVE  /\ \A i \in 0 .. l - d - 1 :
                /\ Slot(s, i) \in Slots /\ Slot(s, i) = Slot(start, d + i)
                /\ \A j \in 0 .. n - 1 : Slot(s, i) # Slot(e, j)
           /\ \A j \in 0 .. n - 1 : Slot(s, l - d + j) = Slot(e, j)
<1>0. /\ TailLimit \in Nat \ {0} /\ l \in Nat /\ l <= TailLimit /\ n \in Nat /\ n < TailLimit
      /\ start \in Nat /\ start < TailLimit
  BY TailAssumption DEF Slots
<1>1. d \in Nat /\ d <= l /\ d <= n /\ l - d + n <= TailLimit
  BY <1>0
<1>2. s \in Nat /\ s < TailLimit /\ e \in Nat /\ e < TailLimit
  BY <1>0, <1>1 DEF Slot
<1>4. ASSUME NEW i \in 0 .. l - d - 1
      PROVE  /\ Slot(s, i) \in Slots /\ Slot(s, i) = Slot(start, d + i)
             /\ \A j \in 0 .. n - 1 : Slot(s, i) # Slot(e, j)
  <2>1. Slot(s, i) \in Slots /\ Slot(s, i) = Slot(start, d + i)
    BY <1>0, <1>1, <1>2 DEF Slot, Slots
  <2>2. ASSUME NEW j \in 0 .. n - 1 PROVE Slot(s, i) # Slot(e, j)
    BY <1>0, <1>1, <1>2 DEF Slot
  <2> QED
    BY <2>1, <2>2
<1>5. ASSUME NEW j \in 0 .. n - 1 PROVE Slot(s, l - d + j) = Slot(e, j)
  BY <1>0, <1>1, <1>2 DEF Slot
<1> QED
  BY <1>4, <1>5

\* A chunk that fills the buffer keeps the invariant.
LEMMA LargeKeeps ==
    ASSUME TailInv, NEW data, Numbers(data, tail.written), Len(data) >= TailLimit, WriteLarge(data)
    PROVE  TailInv'
<1>l. PICK n, w, l : n = Len(data) /\ w = tail.written /\ l = tail.length
  OBVIOUS
<1>0. TailLimit \in Nat \ {0} /\ n \in Nat /\ n >= TailLimit
  BY <1>l, TailAssumption DEF Numbers
<1>t. /\ tail.truncated \in BOOLEAN /\ tail.marked \in BOOLEAN
      /\ tail.pc \in {"idle", "open", "done"} /\ tail.buffer \in [Slots -> Nat]
      /\ tail = [pc |-> tail.pc, buffer |-> tail.buffer, start |-> tail.start, length |-> l,
                 truncated |-> tail.truncated, written |-> w, marked |-> tail.marked]
  BY <1>l DEF TailInv, TailOK, TailTypes
<1>n. w \in Nat /\ l \in 0 .. TailLimit /\ l = IF w < TailLimit THEN w ELSE TailLimit
  BY <1>l DEF TailInv, TailOK, TailTypes
<1>i. tail.truncated <=> tail.marked \/ w > TailLimit
  BY <1>l DEF TailInv, TailOK
<1>1. PICK kept : kept = SubSeq(data, n - TailLimit + 1, n)
  OBVIOUS
<1>2. DOMAIN kept = 1 .. TailLimit /\ \A i \in 1 .. TailLimit : kept[i] = w + n - TailLimit + i
  <2>1. data \in Seq(Nat) /\ Len(data) = n /\ \A i \in 1 .. n : data[i] = w + i
    BY <1>l DEF Numbers
  <2>2. \A i \in 1 .. TailLimit :
            n - TailLimit + i \in 1 .. n /\ w + (n - TailLimit + i) = w + n - TailLimit + i
    BY <1>0, <1>n
  <2>3. /\ kept \in Seq(Nat) /\ Len(kept) = TailLimit
        /\ \A i \in 1 .. TailLimit : kept[i] = data[n - TailLimit + i]
    BY <2>1, <1>0, <1>1
  <2> QED
    BY <2>1, <2>2, <2>3
<1>3. PICK b : b = copy(tail.buffer, 0, kept)
  OBVIOUS
<1>4. b = [i \in Slots |-> w + n - TailLimit + (i + 1)] /\ b \in [Slots -> Nat]
  <2>1. b = [i \in Slots |->
               IF i - 0 + 1 \in 1 .. TailLimit THEN kept[i - 0 + 1] ELSE tail.buffer[i]]
    BY <1>2, <1>3, <1>t DEF copy
  <2>2. \A i \in Slots :
            i - 0 + 1 = i + 1 /\ i + 1 \in 1 .. TailLimit /\ w + n - TailLimit + (i + 1) \in Nat
    BY <1>0, <1>n DEF Slots
  <2>3. ASSUME NEW i \in Slots
        PROVE  (IF i - 0 + 1 \in 1 .. TailLimit THEN kept[i - 0 + 1] ELSE tail.buffer[i])
               = w + n - TailLimit + (i + 1)
    BY <2>2, <1>2
  <2>4. b = [i \in Slots |-> w + n - TailLimit + (i + 1)]
    BY <2>1, <2>3, Zenon
  <2> QED
    BY <2>2, <2>4
<1>x. (tail.truncated \/ n > TailLimit \/ l > 0) \in BOOLEAN
  OBVIOUS
<1>5. PICK x \in BOOLEAN : x = (tail.truncated \/ n > TailLimit \/ l > 0)
  BY <1>x, Zenon
<1>6. tail' = [pc |-> tail.pc, buffer |-> b, start |-> 0, length |-> TailLimit, truncated |-> x,
               written |-> w + n, marked |-> tail.marked]
  <2>1. tail' = [tail EXCEPT !.truncated = x, !.buffer = b, !.start = 0, !.length = TailLimit,
                             !.written = w + n]
    BY <1>l, <1>1, <1>3, <1>5, Zenon DEF WriteLarge
  <2> QED
    BY <2>1, <1>t
<1>7. w + n \in Nat /\ TailLimit = (IF w + n < TailLimit THEN w + n ELSE TailLimit)
      /\ 0 \in Slots /\ TailLimit \in 0 .. TailLimit
  BY <1>0, <1>n DEF Slots
<1>8. tail' \in TailTypes
  BY <1>4, <1>6, <1>7, <1>t DEF TailTypes
<1>9. x <=> tail.marked \/ w + n > TailLimit
  <2>1. (w > TailLimit \/ n > TailLimit \/ l > 0) <=> w + n > TailLimit
    BY <1>0, <1>n
  <2> QED
    BY <2>1, <1>5, <1>i, Zenon
<1>m. PICK ww : ww = w + n
  OBVIOUS
<1>10. \A i \in 0 .. TailLimit - 1 : b[Slot(0, i)] = ww - TailLimit + i + 1
  BY <1>0, <1>n, <1>m, <1>4 DEF Slot, Slots
<1>11. /\ tail'.buffer = b /\ tail'.start = 0 /\ tail'.length = TailLimit /\ tail'.written = w + n
  BY <1>6
<1>12. tail'.truncated = x /\ tail'.marked = tail.marked
  BY <1>6
<1>14. \A i \in 0 .. tail'.length - 1 :
          tail'.buffer[Slot(tail'.start, i)] = tail'.written - tail'.length + i + 1
  <2>1. tail'.buffer = b /\ tail'.start = 0 /\ tail'.length = TailLimit /\ tail'.written = ww
    BY <1>m, <1>11
  <2> QED
    BY <1>10, <2>1, Zenon
<1>15. tail'.truncated <=> tail'.marked \/ tail'.written > TailLimit
  BY <1>9, <1>11, <1>12, Zenon
<1>16. tail'.length = IF tail'.written < TailLimit THEN tail'.written ELSE TailLimit
  BY <1>7, <1>11
<1> QED
  BY <1>8, <1>14, <1>15, <1>16, Zenon DEF TailInv, TailOK

\* A smaller chunk does, whether it wraps around or not.
LEMMA SmallKeeps ==
    ASSUME TailInv, NEW data, Numbers(data, tail.written), Len(data) < TailLimit, WriteSmall(data)
    PROVE  TailInv'
<1>l. PICK n : n = Len(data)
  OBVIOUS
<1>0. TailLimit \in Nat \ {0} /\ Len(data) = n /\ n \in 0 .. TailLimit - 1 /\ n \in Nat
  BY <1>l, TailAssumption DEF Numbers
<1>f. PICK w, l, b, start :
          w = tail.written /\ l = tail.length /\ b = tail.buffer /\ start = tail.start
  OBVIOUS
<1>t. /\ tail.truncated \in BOOLEAN /\ tail.marked \in BOOLEAN
      /\ tail.pc \in {"idle", "open", "done"} /\ start \in Slots /\ b \in [Slots -> Nat]
      /\ tail = [pc |-> tail.pc, buffer |-> b, start |-> start, length |-> l,
                 truncated |-> tail.truncated, written |-> w, marked |-> tail.marked]
  BY <1>f DEF TailInv, TailOK, TailTypes
<1>n. w \in Nat /\ l \in 0 .. TailLimit /\ l = IF w < TailLimit THEN w ELSE TailLimit
  BY <1>f DEF TailInv, TailOK, TailTypes
<1>i. /\ \A i \in 0 .. l - 1 : b[Slot(start, i)] = w - l + i + 1
      /\ tail.truncated <=> tail.marked \/ w > TailLimit
  BY <1>f DEF TailInv, TailOK
<1>1. PICK d : d = Max({0, l + n - TailLimit})
  OBVIOUS
<1>d. /\ d = (IF l + n - TailLimit > 0 THEN l + n - TailLimit ELSE 0)
      /\ d \in 0 .. TailLimit /\ l - d \in 0 .. TailLimit
      /\ l - d + n \in 0 .. TailLimit /\ d \in Nat
  <2>1. /\ l \in Nat /\ l <= TailLimit /\ n \in Nat /\ n < TailLimit
        /\ l + n - TailLimit \in Int /\ 0 \in Int
    BY <1>0, <1>n
  <2>2. d = IF 0 >= l + n - TailLimit THEN 0 ELSE l + n - TailLimit
    BY <2>1, <1>1, MaxPair, Zenon
  <2> QED
    BY <2>1, <2>2, <1>0
<1>2. PICK s : s = (start + d) % TailLimit
  OBVIOUS
<1>3. PICK e : e = (s + l - d) % TailLimit
  OBVIOUS
<1>s. s = Slot(start, d) /\ s \in Slots
  BY <1>t, <1>d, <1>2, SlotIsRemainder, ZenonT(30)
<1>z. s + l - d = s + (l - d)
  BY <1>s, <1>d, <1>n, <1>0 DEF Slots
<1>e. e = Slot(s, l - d) /\ e \in Slots
  <2>1. PICK y : y = s + l - d
    OBVIOUS
  <2>2. y = s + (l - d) /\ e = y % TailLimit /\ s \in Slots /\ l - d \in 0 .. TailLimit
    BY <2>1, <1>s, <1>z, <1>d, <1>3
  <2> QED
    BY <2>2, SlotIsRemainder
<1>4. /\ \A i \in 0 .. l - d - 1 :
           /\ Slot(s, i) \in Slots /\ Slot(s, i) = Slot(start, d + i)
           /\ \A j \in 0 .. n - 1 : Slot(s, i) # Slot(e, j)
      /\ \A j \in 0 .. n - 1 : Slot(s, l - d + j) = Slot(e, j)
  <2>1. start \in Slots /\ l \in 0 .. TailLimit /\ n \in 0 .. TailLimit - 1
    BY <1>0, <1>n, <1>t
  <2>2. d = IF l + n - TailLimit > 0 THEN l + n - TailLimit ELSE 0
    BY <1>d
  <2> HIDE <1>0, <1>n, <1>t, <1>d
  <2> QED
    BY <2>1, <2>2, <1>s, <1>e, RingMoves
<1>5. PICK f : f = Spread(b, e, data)
  OBVIOUS
<1>6. Min({n, TailLimit - e}) = FirstPart(e, n)
  BY <1>0, <1>e, MinPair DEF Slots, FirstPart
<1>8. /\ f \in [Slots -> Nat]
      /\ \A j \in 0 .. n - 1 : f[Slot(e, j)] = w + j + 1
      /\ \A k \in Slots : (\A j \in 0 .. n - 1 : k # Slot(e, j)) => f[k] = b[k]
  <2>1. b \in [Slots -> Nat] /\ w \in Nat /\ n \in 0 .. TailLimit - 1 /\ e \in Slots
    BY <1>0, <1>n, <1>t, <1>e
  <2>2. Numbers(data, w) /\ Len(data) < TailLimit
    BY <1>f
  <2> QED
    <3>1. Copied(Spread(b, e, data), b, w, e, Len(data))
      BY <2>1, <2>2, RingCopy
    <3>2. Copied(f, b, w, e, n)
      BY <3>1, <1>0, <1>5, Zenon
    <3> QED
      BY <3>2 DEF Copied
<1>x. (tail.truncated \/ d > 0) \in BOOLEAN
  OBVIOUS
<1>9. PICK x \in BOOLEAN : x = (tail.truncated \/ d > 0)
  BY <1>x, Zenon
<1>10. tail' = [pc |-> tail.pc, buffer |-> f, start |-> s, length |-> l - d + n, truncated |-> x,
                written |-> w + n, marked |-> tail.marked]
  <2>1. tail' = [tail EXCEPT !.truncated = x, !.start = s, !.buffer = f,
                             !.length = l - d + n, !.written = w + n]
    BY <1>f, <1>0, <1>1, <1>2, <1>3, <1>5, <1>6, <1>9, Zenon DEF WriteSmall, Spread
  <2> QED
    BY <2>1, <1>t
<1>11. w + n \in Nat /\ l - d + n = IF w + n < TailLimit THEN w + n ELSE TailLimit
  BY <1>0, <1>d, <1>n
<1>12. tail' \in TailTypes
  BY <1>10, <1>d, <1>s, <1>8, <1>11, <1>t DEF TailTypes
<1>13. x <=> tail.marked \/ w + n > TailLimit
  <2>1. (w > TailLimit \/ d > 0) <=> w + n > TailLimit
    BY <1>0, <1>d, <1>n
  <2> QED
    BY <2>1, <1>9, <1>i, Zenon
<1>m. PICK ll, ww : ll = l - d + n /\ ww = w + n
  OBVIOUS
<1>14. ASSUME NEW i \in 0 .. ll - 1
       PROVE  f[Slot(s, i)] = ww - ll + i + 1
  <2>0. i \in Nat /\ l \in Nat
    BY <1>0, <1>d, <1>n, <1>m
  <2>1. CASE i < l - d
    <3>1. i \in 0 .. l - d - 1 /\ d + i \in 0 .. l - 1
      BY <2>0, <2>1, <1>d, <1>n, <1>0
    <3>2. f[Slot(s, i)] = b[Slot(start, d + i)]
      BY <3>1, <1>4, <1>8
    <3>3. b[Slot(start, d + i)] = w - l + (d + i) + 1
      BY <3>1, <1>i
    <3>4. w - l + (d + i) + 1 = ww - ll + i + 1
      BY <2>0, <1>0, <1>d, <1>n, <1>m
    <3> QED
      BY <3>2, <3>3, <3>4
  <2>2. CASE ~(i < l - d)
    <3>1. PICK j : j = i - (l - d)
      OBVIOUS
    <3>2. j \in 0 .. n - 1 /\ i = l - d + j
      BY <2>0, <2>2, <3>1, <1>0, <1>d, <1>m
    <3>3. f[Slot(s, i)] = w + j + 1
      BY <3>2, <1>4, <1>8
    <3> QED
      BY <3>1, <3>3, <2>0, <1>0, <1>d, <1>n, <1>m
  <2> QED
    BY <2>1, <2>2
<1>15. /\ tail'.buffer = f /\ tail'.start = s /\ tail'.length = l - d + n /\ tail'.written = w + n
  BY <1>10
<1>b. tail'.truncated = x /\ tail'.marked = tail.marked
  BY <1>10
<1>16. \A i \in 0 .. tail'.length - 1 :
           tail'.buffer[Slot(tail'.start, i)] = tail'.written - tail'.length + i + 1
  <2> SUFFICES ASSUME NEW i \in 0 .. tail'.length - 1
               PROVE  tail'.buffer[Slot(tail'.start, i)] = tail'.written - tail'.length + i + 1
    OBVIOUS
  <2>2. tail'.buffer = f /\ tail'.start = s /\ tail'.length = ll /\ tail'.written = ww
    BY <1>m, <1>15
  <2> QED
    BY <1>14, <2>2, Zenon
<1>17. tail'.truncated <=> tail'.marked \/ tail'.written > TailLimit
  BY <1>13, <1>15, <1>b, Zenon
<1>18. tail'.length = IF tail'.written < TailLimit THEN tail'.written ELSE TailLimit
  BY <1>11, <1>15
<1> QED
  BY <1>12, <1>16, <1>17, <1>18, Zenon DEF TailInv, TailOK

\* Every operation of the writer keeps the invariant.
LEMMA TailStep ==
    ASSUME TailInv, TailNext
    PROVE  TailInv'
<1>1. ASSUME NEW n \in 0 .. MaxOutput, Write(n) PROVE TailInv'
  <2>0. n \in Nat /\ TailLimit \in Nat /\ tail.written \in Nat
    BY TailAssumption DEF TailInv, TailOK, TailTypes
  <2>1. PICK data : data = [i \in 1 .. n |-> tail.written + i]
    OBVIOUS
  <2>2. Numbers(data, tail.written) /\ Len(data) = n
    BY <2>0, <2>1 DEF Numbers
  <2>3. (n >= TailLimit /\ WriteLarge(data)) \/ (n < TailLimit /\ WriteSmall(data))
    BY <2>0, <2>1, <1>1 DEF Write
  <2>4. (Len(data) >= TailLimit /\ WriteLarge(data)) \/ (Len(data) < TailLimit /\ WriteSmall(data))
    BY <2>2, <2>3
  <2> QED
    BY <2>2, <2>4, LargeKeeps, SmallKeeps
<1>2. CASE markTruncated
  BY <1>2 DEF markTruncated, TailInv, TailOK, TailTypes
<1>3. CASE TailCloses
  BY <1>3, FreshTail DEF TailCloses, TailInv
<1> QED
  BY <1>1, <1>2, <1>3 DEF TailNext

\* What snapshot returns of a ring that satisfies the invariant
LEMMA TailInvSuffices == TailInv => TailIsSuffix
<1> SUFFICES ASSUME TailInv PROVE TailIsSuffix
  OBVIOUS
<1>f. PICK w, l, b, start :
          w = tail.written /\ l = tail.length /\ b = tail.buffer /\ start = tail.start
  OBVIOUS
<1>0. /\ TailLimit \in Nat \ {0} /\ w \in Nat /\ l \in Nat /\ l <= TailLimit
      /\ start \in Nat /\ start < TailLimit
      /\ l = IF w < TailLimit THEN w ELSE TailLimit
  BY <1>f, TailAssumption DEF TailInv, TailOK, TailTypes, Slots
<1>1. Min({TailLimit, w}) = l
  BY <1>0, MinPair
<1>2. PICK first : first = Min({l, TailLimit - start})
  OBVIOUS
<1>3. first = IF l <= TailLimit - start THEN l ELSE TailLimit - start
  BY <1>0, <1>2, MinPair
<1>4. ASSUME NEW i \in 1 .. l
      PROVE  (IF i <= first THEN b[start + i - 1] ELSE b[i - first - 1]) = w - l + i
  <2>1. /\ i - 1 \in 0 .. l - 1
        /\ Slot(start, i - 1) = IF i <= first THEN start + i - 1 ELSE i - first - 1
    BY <1>0, <1>3 DEF Slot
  <2>2. b[Slot(start, i - 1)] = w - l + (i - 1) + 1
    BY <2>1, <1>f DEF TailInv, TailOK
  <2>3. w - l + (i - 1) + 1 = w - l + i
    BY <1>0
  <2> QED
    BY <2>1, <2>2, <2>3
<1>5. snapshot = [i \in 1 .. l |-> w - l + i]
  <2>1. snapshot = [i \in 1 .. l |-> IF i <= first THEN b[start + i - 1] ELSE b[i - first - 1]]
    BY <1>f, <1>2, Zenon DEF snapshot
  <2> QED
    BY <2>1, <1>4, Zenon
<1> QED
  BY <1>1, <1>5, <1>f, Zenon DEF TailIsSuffix, TailInv, TailOK

\* In whatever chunks a job's output arrives (tail.go:21-69), and for every size of
\* the buffer: a snapshot is the end of it, and flagged exactly when bytes are
\* missing.
THEOREM TailKeepsTheEnd == TailSpec => []TailIsSuffix
<1>1. tail = TailIdle => TailInv
  BY FreshTail DEF TailInv
<1>2. ASSUME TailInv, [TailNext \/ tail' \in {newTailWriter, TailIdle}]_tail PROVE TailInv'
  <2>1. CASE UNCHANGED tail
    BY <1>2, <2>1 DEF TailInv, TailOK
  <2>2. CASE tail' \in {newTailWriter, TailIdle}
    BY <2>2, FreshTail DEF TailInv
  <2> QED
    BY <1>2, <2>1, <2>2, TailStep
<1> QED
  BY <1>1, <1>2, TailInvSuffices, PTL DEF TailSpec
-----------------------------------------------------------------------------
(* workspaceinstructions: the bytes of a file and of a section              *)

\* A rune of a text has a width.
LEMMA RuneWidth ==
    ASSUME NEW runes \in Seq(Runes)
    PROVE  Len(runes) \in Nat /\ \A i \in 1 .. Len(runes) : runes[i].width \in Nat
<1>1. \A r \in Runes : r.width \in Nat
  BY DEF Runes
<1>2. Len(runes) \in Nat /\ \A i \in 1 .. Len(runes) : runes[i] \in Runes
  OBVIOUS
<1> QED
  BY <1>1, <1>2

\* So Widths are running sums.
LEMMA WidthsAreSums ==
    ASSUME NEW runes \in Seq(Runes), NEW w, w = [i \in DOMAIN runes |-> runes[i].width]
    PROVE  /\ w \in Seq(Nat) /\ Len(w) = Len(runes) /\ Widths(runes) = Totals(w)
           /\ \A i \in 1 .. Len(runes) : w[i] = runes[i].width
<1>1. DOMAIN runes = 1 .. Len(runes) /\ Len(runes) \in Nat
  OBVIOUS
<1>2. w \in [1 .. Len(runes) -> Nat]
  BY <1>1, RuneWidth
<1> QED
  BY <1>1, <1>2 DEF Widths

\* A longer prefix has no fewer bytes.
LEMMA WidthsRise ==
    ASSUME NEW runes \in Seq(Runes), NEW m \in 0 .. Len(runes), NEW n \in 0 .. m
    PROVE  /\ Widths(runes)[n] \in Nat /\ Widths(runes)[m] \in Nat
           /\ Widths(runes)[n] <= Widths(runes)[m]
<1>1. PICK w : w = [i \in DOMAIN runes |-> runes[i].width]
  OBVIOUS
<1>2. w \in Seq(Nat) /\ Len(w) = Len(runes) /\ Widths(runes) = Totals(w)
  BY <1>1, WidthsAreSums
<1> QED
  BY <1>2, TotalsRise

\* The bytes of a prefix are those the text has up to its end.
LEMMA WidthOfPrefix ==
    ASSUME NEW runes \in Seq(Runes), NEW m \in 0 .. Len(runes)
    PROVE  /\ SubSeq(runes, 1, m) \in Seq(Runes) /\ Len(SubSeq(runes, 1, m)) = m
           /\ Width(SubSeq(runes, 1, m)) = Widths(runes)[m]
<1>1. PICK s : s = SubSeq(runes, 1, m)
  OBVIOUS
<1>2. m \in Nat /\ m <= Len(runes) /\ Len(runes) \in Nat /\ m \in 0 .. m
  OBVIOUS
<1>3. s \in Seq(Runes) /\ Len(s) = m /\ \A n \in 1 .. m : s[n] = runes[n]
  BY <1>1, <1>2
<1>4. PICK v : v = [i \in DOMAIN s |-> s[i].width]
  OBVIOUS
<1>5. PICK w : w = [i \in DOMAIN runes |-> runes[i].width]
  OBVIOUS
<1>6. /\ v \in Seq(Nat) /\ Len(v) = m /\ Widths(s) = Totals(v)
      /\ \A i \in 1 .. m : v[i] = s[i].width
  BY <1>3, <1>4, WidthsAreSums
<1>7. /\ w \in Seq(Nat) /\ Len(w) = Len(runes) /\ Widths(runes) = Totals(w)
      /\ \A i \in 1 .. Len(runes) : w[i] = runes[i].width
  BY <1>5, WidthsAreSums
<1>8. ASSUME NEW i \in 1 .. m PROVE v[i] = w[i]
  <2>1. i \in 1 .. Len(runes)
    BY <1>2
  <2> QED
    BY <2>1, <1>3, <1>6, <1>7
<1>9. Totals(v)[m] = Totals(w)[m]
  BY <1>2, <1>6, <1>7, <1>8, TotalsAgree
<1> QED
  BY <1>1, <1>3, <1>6, <1>7, <1>9 DEF Width

\* trimRight keeps a prefix.
LEMMA TrimKeepsPrefix ==
    ASSUME NEW runes \in Seq(Runes)
    PROVE  \E m \in 0 .. Len(runes) : trimRight(runes) = SubSeq(runes, 1, m)
<1>1. PICK S : S = {0} \cup {i \in DOMAIN runes : runes[i].kind # "space"}
  OBVIOUS
<1>2. Len(runes) \in Nat /\ S # {} /\ S \subseteq 0 .. Len(runes)
  BY <1>1
<1>3. Max(S) \in 0 .. Len(runes)
  BY <1>2, MaxExists
<1> QED
  BY <1>1, <1>3 DEF trimRight

\* admitContent keeps its limit: never more than maxBytes bytes of a file.
LEMMA AdmittedFits ==
    ASSUME NEW runes \in Seq(Runes), NEW maxBytes \in Nat
    PROVE  /\ admitContent(runes, maxBytes).bytes \in 0 .. maxBytes
           /\ admitContent(runes, maxBytes).truncated \in BOOLEAN
<1> DEFINE truncated == Width(runes) > maxBytes
           length == Min({Width(runes), maxBytes})
           ends == {n \in 0 .. Len(runes) :
                       /\ Widths(runes)[n] \in Max({0, length - 3}) .. length
                       /\ ~Holds(SubSeq(runes, 1, n), "bad")}
           valid == {n \in ends : truncated \/ Widths(runes)[n] = length}
           data == SubSeq(runes, 1, Max(valid \cup {0}))
           bytes == IF valid = {} \/ Holds(data, "nul") THEN 0 ELSE Width(trimRight(data))
<1>a. admitContent(runes, maxBytes) = [bytes |-> bytes, truncated |-> truncated]
  BY DEF admitContent
<1>l. Len(runes) \in Nat
  OBVIOUS
<1>w. Width(runes) \in Nat /\ length \in Int /\ length <= maxBytes
  <2>1. Width(runes) \in Nat
    BY <1>l, WidthsRise DEF Width
  <2> QED
    BY <2>1, MinPair
<1>1. CASE valid = {}
  <2>1. bytes = 0
    BY <1>1
  <2> HIDE DEF bytes, truncated
  <2>2. admitContent(runes, maxBytes).bytes = 0
    BY <2>1, <1>a
  <2> QED
    BY <2>2, <1>a DEF truncated
<1>2. CASE valid # {}
  <2>1. PICK k : k = Max(valid \cup {0})
    OBVIOUS
  <2>2. k \in valid \cup {0} /\ k \in 0 .. Len(runes)
    <3>1. valid \cup {0} # {} /\ valid \cup {0} \subseteq 0 .. Len(runes)
      BY <1>l
    <3> HIDE DEF valid
    <3> QED
      BY <2>1, <3>1, <1>l, MaxExists
  <2>3. Widths(runes)[k] \in Nat /\ Widths(runes)[k] <= maxBytes
    <3>1. Widths(runes)[k] \in Nat
      BY <2>2, <1>l, WidthsRise
    <3>2. CASE k = 0
      <4>1. PICK w : w = [i \in DOMAIN runes |-> runes[i].width]
        OBVIOUS
      <4>2. Widths(runes)[0] = 0
        BY <4>1, WidthsAreSums, TotalsTable
      <4> QED
        BY <3>2, <4>2
    <3>3. CASE k \in valid
      <4>1. Widths(runes)[k] \in Max({0, length - 3}) .. length
        BY <3>3
      <4> HIDE DEF length
      <4>2. Max({0, length - 3}) \in Int
        <5>1. PICK low \in Int : low = length - 3
          BY <1>w
        <5>2. Max({0, low}) \in Int
          BY MaxPair
        <5> QED
          BY <5>1, <5>2
      <4> QED
        BY <3>1, <4>1, <4>2, <1>w
    <3> QED
      BY <2>2, <3>1, <3>2, <3>3
  <2>4. /\ data \in Seq(Runes) /\ Len(data) = k /\ Widths(data)[k] = Widths(runes)[k]
    BY <2>1, <2>2, WidthOfPrefix DEF Width
  <2>5. Width(trimRight(data)) \in 0 .. maxBytes
    <3> HIDE DEF data
    <3>1. PICK m \in 0 .. k : trimRight(data) = SubSeq(data, 1, m)
      BY <2>4, TrimKeepsPrefix
    <3>2. Width(trimRight(data)) = Widths(data)[m]
      BY <3>1, <2>4, WidthOfPrefix
    <3>3. Widths(data)[m] \in Nat /\ Widths(data)[m] <= Widths(data)[k]
      <4>1. k \in 0 .. Len(data)
        BY <2>2, <2>4
      <4> QED
        BY <3>1, <2>4, <4>1, WidthsRise
    <3> QED
      BY <3>2, <3>3, <2>3, <2>4
  <2>6. bytes \in 0 .. maxBytes
    <3> HIDE DEF valid, data
    <3> QED
      BY <2>5
  <2> HIDE DEF bytes, truncated
  <2>7. admitContent(runes, maxBytes).bytes = bytes
    BY <1>a
  <2> QED
    BY <2>6, <2>7, <1>a DEF truncated
<1> QED
  BY <1>1, <1>2

\* The lengths of the tags and markers are lengths.
LEMMA LayoutLengths ==
    /\ Layout.open \in Nat /\ Layout.close \in Nat /\ Layout.omitted \in Nat
    /\ Layout.frame \in Nat /\ Layout.truncated \in Nat
    /\ Layout.parent \in Nat /\ Layout.here \in Nat /\ Layout.here <= Layout.parent
<1>1. /\ Layout \in [{"open", "close", "omitted", "frame", "truncated", "parent", "here"} -> Nat]
      /\ Layout.here <= Layout.parent
  BY SectionAssumption
<1> QED
  BY <1>1

\* Limits are positive numbers.
LEMMA LimitNumbers ==
    ASSUME NEW limits \in SectionLimits
    PROVE  /\ limits.chain \in Nat \ {0} /\ limits.file \in Nat \ {0}
           /\ limits.section \in Nat \ {0}
<1>1. limits \in [chain : Nat \ {0}, file : Nat \ {0}, section : Nat \ {0}]
  BY SectionAssumption
<1> QED
  BY <1>1

\* There are names, each of some length.
LEMMA NameLengths ==
    /\ Len(FileNames) \in Nat /\ Len(FileNames) >= 1 /\ DOMAIN FileNames = 1 .. Len(FileNames)
    /\ \A k \in 1 .. Len(FileNames) : FileNames[k] \in Nat
<1>1. FileNames \in Seq(Nat) /\ FileNames # <<>>
  BY SectionAssumption
<1> QED
  BY <1>1

\* One of the configured names is the longest.
LEMMA LongestName ==
    \E n \in DOMAIN FileNames : \A k \in DOMAIN FileNames : FileNames[k] <= FileNames[n]
<1>l. /\ Len(FileNames) \in Nat /\ Len(FileNames) >= 1 /\ DOMAIN FileNames = 1 .. Len(FileNames)
      /\ \A k \in 1 .. Len(FileNames) : FileNames[k] \in Nat
  BY NameLengths, Zenon
<1>1. PICK S : S = {m \in Nat : m + 1 <= Len(FileNames) =>
                       \E n \in 1 .. m + 1 : \A k \in 1 .. m + 1 : FileNames[k] <= FileNames[n]}
  OBVIOUS
<1>2. 0 \in S
  <2>1. \A k \in 1 .. 0 + 1 : FileNames[k] <= FileNames[1]
    BY <1>l
  <2>2. 1 \in 1 .. 0 + 1
    OBVIOUS
  <2> QED
    BY <2>1, <2>2, <1>1
<1>3. ASSUME NEW m \in Nat, m \in S PROVE m + 1 \in S
  <2> SUFFICES ASSUME m + 1 + 1 <= Len(FileNames)
               PROVE  \E n \in 1 .. m + 1 + 1 :
                          \A k \in 1 .. m + 1 + 1 : FileNames[k] <= FileNames[n]
    BY <1>1
  <2>1. PICK n \in 1 .. m + 1 : \A k \in 1 .. m + 1 : FileNames[k] <= FileNames[n]
    BY <1>1, <1>3, <1>l
  <2>2. \A k \in 1 .. m + 1 + 1 : k \in 1 .. m + 1 \/ k = m + 1 + 1
    OBVIOUS
  <2>3. FileNames[n] \in Nat /\ FileNames[m + 1 + 1] \in Nat
    BY <1>l
  <2>4. CASE FileNames[m + 1 + 1] <= FileNames[n]
    <3>1. \A k \in 1 .. m + 1 + 1 : FileNames[k] <= FileNames[n]
      BY <2>1, <2>2, <2>4
    <3>2. n \in 1 .. m + 1 + 1
      OBVIOUS
    <3> QED
      BY <3>1, <3>2
  <2>5. CASE ~(FileNames[m + 1 + 1] <= FileNames[n])
    <3>1. \A k \in 1 .. m + 1 + 1 : FileNames[k] \in Nat
      BY <1>l
    <3>2. \A k \in 1 .. m + 1 + 1 : FileNames[k] <= FileNames[m + 1 + 1]
      BY <2>1, <2>2, <2>3, <2>5, <3>1
    <3>3. m + 1 + 1 \in 1 .. m + 1 + 1
      OBVIOUS
    <3> QED
      BY <3>2, <3>3
  <2> QED
    BY <2>4, <2>5
<1>4. Len(FileNames) - 1 \in Nat /\ Len(FileNames) - 1 + 1 = Len(FileNames)
  BY <1>l
<1>5. PICK m \in Nat : m = Len(FileNames) - 1
  BY <1>4
<1>6. m \in S /\ m + 1 = Len(FileNames) /\ m + 1 <= Len(FileNames)
  BY <1>2, <1>3, <1>4, <1>5, <1>l, EveryNatural
<1>7. \E n \in 1 .. m + 1 : \A k \in 1 .. m + 1 : FileNames[k] <= FileNames[n]
  BY <1>1, <1>6
<1> QED
  BY <1>6, <1>7, <1>l, Zenon

\* The part of a displayed path that precedes the name.
Climb(chainLength, index) ==
    IF index = chainLength THEN Layout.here ELSE Layout.parent * (chainLength - index)

\* The longest way up is the one from the end of the longest chain.
LEMMA ClimbBound ==
    ASSUME NEW most \in Nat \ {0}, NEW chain \in 1 .. most, NEW index \in Nat \ {0}
    PROVE  /\ Climb(chain, index) \in Int /\ Climb(most, 1) \in Nat
           /\ Climb(chain, index) <= Climb(most, 1)
<1>1. PICK p, h : p = Layout.parent /\ h = Layout.here
  OBVIOUS
<1>2. p \in Nat /\ h \in Nat /\ h <= p
  BY <1>1, LayoutLengths
<1>3. chain \in Nat /\ chain >= 1 /\ chain <= most
  OBVIOUS
<1>4. p * 1 = p /\ p * 0 = 0
  BY <1>2
<1>5. p * (chain - index) \in Int /\ p * (chain - index) <= p * (most - 1)
  BY <1>2, <1>3, Monotone
<1>6. most > 1 => p <= p * (most - 1)
  <2>1. most > 1 => p * 1 <= p * (most - 1)
    BY <1>2, Monotone
  <2> QED
    BY <2>1, <1>4
<1>7. p * (most - 1) \in Nat
  BY <1>2
<1>8. CASE most = 1
  <2>1. chain = 1 /\ Climb(most, 1) = h
    BY <1>1, <1>3, <1>8 DEF Climb
  <2>2. CASE index = 1
    BY <2>1, <2>2, <1>1, <1>2 DEF Climb
  <2>3. CASE index # 1
    <3>1. Climb(chain, index) = p * (chain - index) /\ chain - index <= 0 /\ chain - index \in Int
      BY <2>1, <2>3, <1>1 DEF Climb
    <3>2. p * (chain - index) <= p * 0
      BY <3>1, <1>2, Monotone
    <3> QED
      BY <2>1, <3>1, <3>2, <1>2, <1>4, <1>5
  <2> QED
    BY <2>2, <2>3
<1>9. CASE most > 1
  <2>1. Climb(most, 1) = p * (most - 1)
    BY <1>1, <1>9 DEF Climb
  <2>2. Climb(chain, index) = h \/ Climb(chain, index) = p * (chain - index)
    BY <1>1 DEF Climb
  <2>3. PICK a, b : a = p * (chain - index) /\ b = p * (most - 1)
    OBVIOUS
  <2> QED
    BY <2>1, <2>2, <2>3, <1>2, <1>5, <1>6, <1>7, <1>9
<1> QED
  BY <1>8, <1>9

LongestDisplay(limits) == Max({displayPath(limits.chain, 1, n) : n \in DOMAIN FileNames})

\* Discovery displays no path longer than the one minimumSectionBytes allows for.
LEMMA DisplayBound ==
    ASSUME NEW limits \in SectionLimits, NEW chain \in 1 .. limits.chain,
           NEW index \in Nat \ {0}, NEW name \in DOMAIN FileNames
    PROVE  /\ displayPath(chain, index, name) \in Int /\ LongestDisplay(limits) \in Nat
           /\ displayPath(chain, index, name) <= LongestDisplay(limits)
<1>1. PICK most \in Nat \ {0} : most = limits.chain
  BY LimitNumbers
<1>2. PICK up \in Nat : up = Climb(most, 1)
  BY ClimbBound
<1>n. \A n \in DOMAIN FileNames : FileNames[n] \in Nat
  BY NameLengths, Zenon
<1>3. PICK D : D = {displayPath(most, 1, n) : n \in DOMAIN FileNames}
  OBVIOUS
<1>4. \A n \in DOMAIN FileNames : displayPath(most, 1, n) = FileNames[n] + up
  BY <1>2 DEF displayPath, Climb
<1>5. PICK longest \in DOMAIN FileNames :
          \A k \in DOMAIN FileNames : FileNames[k] <= FileNames[longest]
  BY LongestName
<1>6. PICK bound \in Nat : bound = FileNames[longest] + up
  BY <1>n
<1>7. D \subseteq 0 .. bound /\ D # {} /\ bound \in D
  <2>1. ASSUME NEW n \in DOMAIN FileNames PROVE displayPath(most, 1, n) \in 0 .. bound
    BY <1>4, <1>5, <1>6, <1>n
  <2>2. displayPath(most, 1, longest) = bound
    BY <1>4, <1>6
  <2> QED
    BY <2>1, <2>2, <1>3
<1>8. Max(D) \in D /\ Max(D) >= bound
  BY <1>7, MaxExists
<1>9. LongestDisplay(limits) = Max(D)
  BY <1>1, <1>3 DEF LongestDisplay
<1>10. PICK c : c = Climb(chain, index)
  OBVIOUS
<1>11. c \in Int /\ c <= up
  <2>1. chain \in 1 .. most
    BY <1>1
  <2> QED
    BY <2>1, <1>2, <1>10, ClimbBound
<1>12. displayPath(chain, index, name) = FileNames[name] + c
  BY <1>10 DEF displayPath, Climb
<1>13. FileNames[name] \in Nat /\ FileNames[longest] \in Nat
       /\ FileNames[name] <= FileNames[longest]
  BY <1>5, <1>n
<1>14. Max(D) \in Nat
  <2>1. Max(D) \in 0 .. bound
    BY <1>7, <1>8
  <2> QED
    BY <2>1
<1> QED
  BY <1>6, <1>8, <1>9, <1>11, <1>12, <1>13, <1>14

\* What is left of a section's limit for files when the marker of omitted files
\* is to fit.
MarkerBudget(limit) == limit - Layout.omitted - Layout.close

\* Limits that pass validateLimits have room for any first file and the marker.
LEMMA FirstFileFits ==
    ASSUME NEW limits \in SectionLimits, validSectionLimits(limits),
           NEW chain \in 1 .. limits.chain, NEW index \in Nat \ {0},
           NEW name \in DOMAIN FileNames, NEW bytes \in 0 .. limits.file, NEW cut \in BOOLEAN
    PROVE  /\ renderedFileSize(displayPath(chain, index, name), bytes, cut) \in Int
           /\ Layout.open + renderedFileSize(displayPath(chain, index, name), bytes, cut)
                <= MarkerBudget(limits.section)
<1>1. PICK d, most : d = displayPath(chain, index, name) /\ most = LongestDisplay(limits)
  OBVIOUS
<1>2. d \in Int /\ most \in Nat /\ d <= most
  BY <1>1, DisplayBound
<1>3. limits.file \in Nat /\ limits.section \in Nat /\ bytes \in Nat /\ bytes <= limits.file
  BY LimitNumbers
<1>4. minimumSectionBytes(limits) = Layout.open + renderedFileSize(most, limits.file, TRUE)
                                    + Layout.omitted + Layout.close
  BY <1>1 DEF minimumSectionBytes, LongestDisplay
<1>5. PICK f, s : f = limits.file /\ s = limits.section
  OBVIOUS
<1>6. minimumSectionBytes(limits) = Layout.open + (Layout.frame + most + f + Layout.truncated)
                                    + Layout.omitted + Layout.close
  BY <1>4, <1>5 DEF renderedFileSize
<1>7. minimumSectionBytes(limits) \in Int /\ minimumSectionBytes(limits) <= s
  <2>1. minimumSectionBytes(limits) \in Int
    BY <1>2, <1>3, <1>5, <1>6, LayoutLengths
  <2> QED
    BY <2>1, <1>5, SectionAssumption DEF validSectionLimits
<1>8. renderedFileSize(d, bytes, cut) =
          Layout.frame + d + bytes + IF cut THEN Layout.truncated ELSE 0
  BY DEF renderedFileSize
<1>9. renderedFileSize(d, bytes, cut) \in Int
      /\ Layout.open + renderedFileSize(d, bytes, cut) <= s - Layout.omitted - Layout.close
  BY <1>2, <1>3, <1>5, <1>6, <1>7, <1>8, LayoutLengths
<1> QED
  BY <1>1, <1>5, <1>9 DEF MarkerBudget

ShownFiles == [file : DOMAIN Contents \ LinkTargets, bytes : Nat, truncated : BOOLEAN,
               display : Int]

SinkTypes == [length : Int, checkpoints : Seq(Int), shown : Seq(ShownFiles),
              started : BOOLEAN, omitted : BOOLEAN]

\* Where the first file of a section ends: the next checkpoint, or the end.
FirstEnd(sink) == IF Len(sink.checkpoints) = 1 THEN sink.length ELSE sink.checkpoints[2]

\* A section that is still open shows all that was offered, closes within the
\* limit and could say after the first file that others are omitted; one that was
\* cut shows the beginning of what was offered, the first file at least.
SinkOK(sink, offered, limit) ==
    /\ sink \in SinkTypes /\ offered \in Seq(ShownFiles)
    /\ Len(sink.checkpoints) = Len(sink.shown)
    /\ sink.started <=> offered # <<>>
    /\ sink.started => sink.shown # <<>>
    /\ ~sink.omitted => sink.shown = offered
    /\ sink.started /\ ~sink.omitted => /\ sink.length + Layout.close <= limit
                                        /\ FirstEnd(sink) <= MarkerBudget(limit)
    /\ sink.omitted => /\ sink.started
                       /\ Len(sink.shown) < Len(offered)
                       /\ \A i \in 1 .. Len(sink.shown) : sink.shown[i] = offered[i]
                       /\ sink.length <= MarkerBudget(limit)

\* The section of a walk that has shown nothing yet
LEMMA FreshSink ==
    ASSUME NEW limit
    PROVE  SinkOK(newSectionSink, <<>>, limit)
<1>1. <<>> \in Seq(ShownFiles) /\ <<>> \in Seq(Int) /\ Len(<<>>) = 0
  OBVIOUS
<1>2. newSectionSink \in SinkTypes
  BY <1>1 DEF newSectionSink, SinkTypes
<1> QED
  BY <1>1, <1>2 DEF newSectionSink, SinkOK

\* Within the budget, the marker and the closing tag fit.
LEMMA BudgetBound ==
    ASSUME NEW limit \in Int
    PROVE  /\ MarkerBudget(limit) \in Int
           /\ MarkerBudget(limit) + Layout.close <= limit
           /\ MarkerBudget(limit) + Layout.close + Layout.omitted = limit
<1>1. PICK o \in Nat, c \in Nat : o = Layout.omitted /\ c = Layout.close
  BY LayoutLengths
<1>2. limit - o - c \in Int /\ limit - o - c + c <= limit /\ limit - o - c + c + o = limit
  OBVIOUS
<1> QED
  BY <1>1, <1>2, Zenon DEF MarkerBudget

\* add on a section that is still open
LEMMA AddKeeps ==
    ASSUME NEW sink, NEW offered, NEW limit \in Int, SinkOK(sink, offered, limit), ~sink.omitted,
           NEW file \in ShownFiles,
           NEW size \in Int, size = renderedFileSize(file.display, file.bytes, file.truncated),
           offered = <<>> => Layout.open + size <= MarkerBudget(limit)
    PROVE  SinkOK(add(sink, limit, file), Append(offered, file), limit)
<1>l. /\ Layout.open \in Nat /\ Layout.close \in Nat /\ Layout.omitted \in Nat
      /\ MarkerBudget(limit) \in Int
      /\ MarkerBudget(limit) + Layout.close <= limit
      /\ MarkerBudget(limit) + Layout.close + Layout.omitted = limit
  BY BudgetBound, LayoutLengths, Zenon
<1>p. PICK c, n, shown : c = sink.checkpoints /\ n = Len(sink.checkpoints) /\ shown = sink.shown
  OBVIOUS
<1>t. /\ c \in Seq(Int) /\ n = Len(c) /\ n \in Nat /\ shown \in Seq(ShownFiles) /\ Len(shown) = n
      /\ sink.length \in Int /\ sink.started \in BOOLEAN /\ sink.omitted = FALSE
      /\ offered \in Seq(ShownFiles) /\ shown = offered
      /\ sink = [length |-> sink.length, checkpoints |-> c, shown |-> shown,
                 started |-> sink.started, omitted |-> FALSE]
  BY <1>p DEF SinkOK, SinkTypes
<1>s. /\ sink.started <=> offered # <<>>
      /\ sink.started => sink.length + Layout.close <= limit
      /\ sink.started => (IF n = 1 THEN sink.length ELSE c[2]) <= MarkerBudget(limit)
  BY <1>p DEF SinkOK, FirstEnd
<1>1. PICK length \in Int : length = IF sink.started THEN sink.length ELSE Layout.open
  BY <1>t, <1>l
<1>2. PICK ends : ends = Append(c, length)
  OBVIOUS
<1>e. /\ ends \in Seq(Int) /\ Len(ends) = n + 1
      /\ \A i \in 1 .. n + 1 : ends[i] = IF i <= n THEN c[i] ELSE length
  BY <1>t, <1>2
<1>x. n >= 1 => ends[2] = IF n = 1 THEN length ELSE c[2]
  <2> SUFFICES ASSUME n >= 1 PROVE ends[2] = IF n = 1 THEN length ELSE c[2]
    OBVIOUS
  <2>0. n \in Nat
    BY <1>t
  <2>1. 2 \in 1 .. n + 1 /\ (2 <= n <=> n # 1)
    BY <2>0
  <2>2. ends[2] = IF 2 <= n THEN c[2] ELSE length
    BY <2>1, <1>e
  <2> QED
    BY <2>1, <2>2
<1>3. PICK more : more = Append(offered, file)
  OBVIOUS
<1>m. /\ more \in Seq(ShownFiles) /\ more # <<>> /\ Len(more) = n + 1
      /\ \A i \in 1 .. n : more[i] = shown[i]
  BY <1>t, <1>3
<1>4. CASE length + size + Layout.close <= limit
  <2>0. sink.shown = offered
    BY <1>p, <1>t
  <2>1. add(sink, limit, file) = [sink EXCEPT !.started = TRUE, !.length = length + size,
                                              !.checkpoints = ends, !.shown = more]
    BY <2>0, <1>p, <1>1, <1>2, <1>3, <1>4, Zenon DEF add
  <2>2. add(sink, limit, file) = [length |-> length + size, checkpoints |-> ends, shown |-> more,
                                  started |-> TRUE, omitted |-> FALSE]
    BY <2>1, <1>t
  <2>3. PICK s : s = add(sink, limit, file)
    OBVIOUS
  <2>4. /\ s.length = length + size /\ s.checkpoints = ends /\ s.shown = more
        /\ s.started = TRUE /\ s.omitted = FALSE
    BY <2>2, <2>3
  <2>5. s \in SinkTypes
    BY <2>2, <2>3, <1>e, <1>m DEF SinkTypes
  <2>6. (IF Len(ends) = 1 THEN length + size ELSE ends[2]) <= MarkerBudget(limit)
    <3>1. CASE n = 0
      <4>1. offered = <<>> /\ length = Layout.open
        BY <3>1, <1>t, <1>s, <1>1
      <4> QED
        BY <3>1, <4>1, <1>e
    <3>2. CASE n # 0
      <4>1. offered # <<>>
        BY <3>2, <1>t
      <4>2. sink.started /\ length = sink.length
        BY <4>1, <1>s, <1>1
      <4>3. Len(ends) # 1 /\ ends[2] = IF n = 1 THEN length ELSE c[2]
        <5>1. n \in Nat /\ Len(ends) = n + 1
          BY <1>t, <1>e
        <5> QED
          BY <5>1, <3>2, <1>x
      <4> QED
        BY <4>2, <4>3, <1>s
    <3> QED
      BY <3>1, <3>2
  <2>7. SinkOK(s, more, limit)
    BY <2>4, <2>5, <2>6, <1>4, <1>e, <1>m DEF SinkOK, FirstEnd
  <2> QED
    BY <2>3, <2>7, <1>3
<1>5. CASE ~(length + size + Layout.close <= limit)
  <2>1. sink.started /\ offered # <<>> /\ length = sink.length /\ n >= 1
    <3>1. sink.started
      BY <1>1, <1>5, <1>l, <1>s
    <3> QED
      BY <3>1, <1>1, <1>s, <1>t
  <2>2. PICK S : S = {0} \cup {k \in 0 .. n : ends[k + 1] <= MarkerBudget(limit)}
    OBVIOUS
  <2>3. PICK kept : kept = Max(S)
    OBVIOUS
  <2>4. 1 \in S
    <3>1. ends[2] = IF n = 1 THEN length ELSE c[2]
      BY <2>1, <1>x
    <3>2. ends[2] <= MarkerBudget(limit)
      BY <2>1, <3>1, <1>s
    <3> QED
      BY <3>2, <2>1, <2>2, <1>t
  <2>5. kept \in S /\ kept >= 1 /\ kept \in 1 .. n
    <3>1. S \subseteq 0 .. n /\ S # {}
      BY <2>2, <1>t
    <3>2. kept \in S /\ kept >= 1
      BY <3>1, <2>3, <2>4, <1>t, MaxExists
    <3> QED
      BY <3>1, <3>2, <1>t
  <2>6. ends[kept + 1] \in Int /\ ends[kept + 1] <= MarkerBudget(limit)
    <3>1. kept \in Nat /\ kept # 0 /\ kept + 1 \in 1 .. n + 1
      BY <2>5, <1>t
    <3>2. ends \in Seq(Int) /\ Len(ends) = n + 1
      BY <1>e
    <3> QED
      BY <3>1, <3>2, <2>2, <2>5
  <2>7. PICK cut, few : cut = SubSeq(c, 1, kept) /\ few = SubSeq(shown, 1, kept)
    OBVIOUS
  <2>8. /\ cut \in Seq(Int) /\ Len(cut) = kept
    BY <2>5, <2>7, <1>t
  <2>9. few \in Seq(ShownFiles) /\ Len(few) = kept /\ few # <<>>
        /\ \A i \in 1 .. kept : few[i] = more[i]
    <3>1. few \in Seq(ShownFiles) /\ Len(few) = kept /\ \A i \in 1 .. kept : few[i] = shown[i]
      BY <2>5, <2>7, <1>t
    <3>2. few # <<>>
      BY <3>1, <2>5
    <3>3. \A i \in 1 .. kept : i \in 1 .. n
      BY <2>5, <1>t
    <3> QED
      BY <3>1, <3>2, <3>3, <1>m
  <2>10. add(sink, limit, file) = [sink EXCEPT !.started = TRUE, !.omitted = TRUE,
                                               !.length = ends[kept + 1],
                                               !.checkpoints = cut, !.shown = few]
    BY <1>p, <1>1, <1>2, <1>5, <2>2, <2>3, <2>7, Zenon DEF add, MarkerBudget
  <2>11. add(sink, limit, file) = [length |-> ends[kept + 1], checkpoints |-> cut, shown |-> few,
                                   started |-> TRUE, omitted |-> TRUE]
    BY <2>10, <1>t
  <2>12. PICK s : s = add(sink, limit, file)
    OBVIOUS
  <2>13. /\ s.length = ends[kept + 1] /\ s.checkpoints = cut /\ s.shown = few
         /\ s.started = TRUE /\ s.omitted = TRUE
    BY <2>11, <2>12
  <2>14. s \in SinkTypes
    BY <2>6, <2>8, <2>9, <2>11, <2>12 DEF SinkTypes
  <2>15. Len(few) < Len(more)
    BY <2>5, <2>9, <1>m, <1>t
  <2>16. SinkOK(s, more, limit)
    BY <2>6, <2>8, <2>9, <2>13, <2>14, <2>15, <1>m DEF SinkOK
  <2> QED
    BY <2>12, <2>16, <1>3
<1> QED
  BY <1>4, <1>5

-----------------------------------------------------------------------------
(* workspaceinstructions: the walk                                          *)

Files == DOMAIN Contents \cup {NoFile}

Results == {"none", "refused", "empty", "boundary", "canceled", "section"}

PromptTypes ==
    [pc : {"idle", "resolve", "boundary", "lstat", "open", "confirm", "finish", "section",
           "failed", "done"},
     limits : SectionLimits \cup {<<>>}, chain : Nat, at : Nat, entry : Entries,
     info : Files, read : Files, sink : SinkTypes, offered : Seq(ShownFiles), result : Results]

Visiting == {"lstat", "open", "confirm"}

\* The invariant of the walk over a workspace.
WalkOK(p) ==
    /\ p \in PromptTypes
    /\ p.pc \in Visiting \cup {"boundary", "finish", "section"} =>
           /\ p.limits \in SectionLimits /\ validSectionLimits(p.limits)
           /\ p.chain \in 1 .. p.limits.chain
           /\ SinkOK(p.sink, p.offered, p.limits.section)
    /\ p.pc \in Visiting => p.at \in Nat \ {0} /\ ~p.sink.omitted
    /\ p.pc \in {"resolve", "boundary"} => p.sink = newSectionSink /\ p.offered = <<>>
    /\ p.pc = "section" => (p.result = "section" <=> p.sink.started)

WalkInv == WalkOK(prompt)

\* What an entry of a directory may be
LEMMA EntryFile ==
    ASSUME NEW entry \in Entries
    PROVE  /\ entry.file \in Files
           /\ (entry.kind = "file" => entry.file \in DOMAIN Contents \ LinkTargets)
BY ContentsAssumption DEF Entries, Entry, Files, NoFile

\* Before, after and between the calls nothing was walked.
LEMMA NothingWalked ==
    ASSUME NEW pc \in {"idle", "resolve", "failed", "done"}, NEW result \in Results, NEW p,
           p \in {[PromptIdle EXCEPT !.pc = pc, !.result = result], [PromptIdle EXCEPT !.pc = pc],
                  PromptIdle}
    PROVE  WalkOK(p)
<1> DEFINE Unwalked(c, r) ==
              [pc |-> c, limits |-> <<>>, chain |-> 0, at |-> 0,
               entry |-> Entry("absent", NoFile), info |-> NoFile, read |-> NoFile,
               sink |-> newSectionSink, offered |-> <<>>, result |-> r]
<1>1. newSectionSink \in SinkTypes /\ <<>> \in Seq(ShownFiles)
  BY FreshSink DEF SinkOK
<1>2. Entry("absent", NoFile) \in Entries /\ NoFile \in Files
  BY DEF Entries, Files
<1>3. \/ p = Unwalked(pc, result) \/ p = Unwalked(pc, "none") \/ p = Unwalked("idle", "none")
  BY DEF PromptIdle
<1>4. PICK c \in {"idle", "resolve", "failed", "done"}, r \in Results : p = Unwalked(c, r)
  <2>1. "none" \in Results
    BY DEF Results
  <2> HIDE DEF Unwalked
  <2> QED
    BY <2>1, <1>3
<1>5. p \in PromptTypes
  BY <1>1, <1>2, <1>4 DEF PromptTypes
<1>6. p.pc = c /\ p.sink = newSectionSink /\ p.offered = <<>>
  BY <1>4
<1> QED
  BY <1>5, <1>6 DEF WalkOK, Visiting

\* A failed walk shows nothing.
LEMMA FailKeeps ==
    ASSUME NEW error \in Results, PromptFails(error)
    PROVE  WalkInv'
BY NothingWalked DEF PromptFails, WalkInv

\* A step of the walk leaves the limits, the chain and the section alone.
LEMMA WalkOn ==
    ASSUME WalkInv, prompt.pc \in Visiting, NEW pc \in Visiting,
           NEW at \in Nat \ {0}, NEW entry \in Entries, NEW info \in Files, NEW read \in Files,
           prompt' = [prompt EXCEPT !.pc = pc, !.at = at, !.entry = entry, !.info = info,
                                    !.read = read]
    PROVE  WalkInv'
<1>1. /\ prompt \in PromptTypes /\ prompt.limits \in SectionLimits
      /\ validSectionLimits(prompt.limits) /\ prompt.chain \in 1 .. prompt.limits.chain
      /\ SinkOK(prompt.sink, prompt.offered, prompt.limits.section) /\ ~prompt.sink.omitted
  BY DEF WalkInv, WalkOK
<1>2. prompt' \in PromptTypes
  BY <1>1 DEF PromptTypes, Visiting
<1>3. /\ prompt'.pc = pc /\ prompt'.limits = prompt.limits /\ prompt'.chain = prompt.chain
      /\ prompt'.sink = prompt.sink /\ prompt'.offered = prompt.offered /\ prompt'.at = at
  BY <1>1 DEF PromptTypes
<1> QED
  BY <1>1, <1>2, <1>3, Zenon DEF WalkInv, WalkOK, Visiting

\* The candidate that is examined has a directory of the chain and a name.
LEMMA Candidate ==
    ASSUME NEW at \in Nat \ {0}
    PROVE  /\ ((at - 1) \div Len(FileNames)) + 1 \in Nat \ {0}
           /\ ((at - 1) % Len(FileNames)) + 1 \in DOMAIN FileNames
<1>1. PICK n : n = Len(FileNames)
  OBVIOUS
<1>n. n \in Nat /\ n >= 1 /\ DOMAIN FileNames = 1 .. n
  BY <1>1, NameLengths, Zenon
<1>2. PICK a \in Nat : a = at - 1
  OBVIOUS
<1>3. a \div n \in Nat /\ a % n \in 0 .. n - 1
  <2>1. n \in Nat \ {0}
    BY <1>n
  <2> QED
    BY <2>1, SMT
<1>4. (a \div n) + 1 \in Nat \ {0} /\ (a % n) + 1 \in 1 .. n
  BY <1>n, <1>3
<1> QED
  BY <1>1, <1>2, <1>4, <1>n, Zenon

\* A file that is offered to the section
LEMMA VisitKeeps ==
    ASSUME WalkInv, prompt.pc = "confirm", NEW index \in Nat \ {0}, NEW name \in DOMAIN FileNames,
           NEW file \in ShownFiles, file.bytes <= prompt.limits.file,
           file.display = displayPath(prompt.chain, index, name), Visit(file)
    PROVE  WalkInv'
<1>1. /\ prompt \in PromptTypes /\ prompt.limits \in SectionLimits /\ prompt.at \in Nat \ {0}
      /\ validSectionLimits(prompt.limits) /\ prompt.chain \in 1 .. prompt.limits.chain
      /\ SinkOK(prompt.sink, prompt.offered, prompt.limits.section) /\ ~prompt.sink.omitted
  BY DEF WalkInv, WalkOK, Visiting
<1>2. PICK limit \in Int : limit = prompt.limits.section
  BY <1>1, LimitNumbers
<1>3. file.bytes \in 0 .. prompt.limits.file /\ file.truncated \in BOOLEAN
  <2>1. prompt.limits.file \in Nat
    BY <1>1, LimitNumbers
  <2> QED
    BY <2>1 DEF ShownFiles
<1>4. PICK size : size = renderedFileSize(file.display, file.bytes, file.truncated)
  OBVIOUS
<1>5. size \in Int /\ Layout.open + size <= MarkerBudget(limit)
  <2>1. PICK limits \in SectionLimits : limits = prompt.limits
    BY <1>1
  <2>2. PICK chain : chain = prompt.chain
    OBVIOUS
  <2>3. PICK bytes, cut : bytes = file.bytes /\ cut = file.truncated
    OBVIOUS
  <2>4. validSectionLimits(limits) /\ chain \in 1 .. limits.chain
        /\ bytes \in 0 .. limits.file /\ cut \in BOOLEAN
    BY <2>1, <2>2, <2>3, <1>1, <1>3
  <2>5. /\ renderedFileSize(displayPath(chain, index, name), bytes, cut) \in Int
        /\ Layout.open + renderedFileSize(displayPath(chain, index, name), bytes, cut)
             <= MarkerBudget(limits.section)
    BY <2>4, FirstFileFits
  <2> QED
    BY <2>1, <2>2, <2>3, <2>5, <1>2, <1>4, Zenon
<1>6. PICK sink, more : sink = add(prompt.sink, limit, file) /\ more = Append(prompt.offered, file)
  OBVIOUS
<1>7. SinkOK(sink, more, limit)
  BY <1>1, <1>2, <1>4, <1>5, <1>6, AddKeeps
<1>8. PICK pc : pc = IF sink.omitted THEN "finish" ELSE "lstat"
  OBVIOUS
<1>9. prompt' = [Skip EXCEPT !.sink = sink, !.offered = more, !.pc = pc]
  <2>1. Skip.offered = prompt.offered
    BY <1>1 DEF Skip, PromptTypes
  <2> QED
    BY <2>1, <1>2, <1>6, <1>8, Zenon DEF Visit
<1>10. prompt' = [prompt EXCEPT !.sink = sink, !.offered = more, !.pc = pc, !.at = prompt.at + 1,
                                !.info = NoFile, !.read = NoFile, !.entry = Entry("absent", NoFile)]
  BY <1>1, <1>9 DEF Skip, PromptTypes
<1>11. Entry("absent", NoFile) \in Entries /\ NoFile \in Files /\ prompt.at + 1 \in Nat \ {0}
  BY <1>1 DEF Entries, Files
<1>12. sink \in SinkTypes /\ more \in Seq(ShownFiles) /\ pc \in {"finish", "lstat"}
  BY <1>7, <1>8 DEF SinkOK
<1>13. prompt' \in PromptTypes
  BY <1>1, <1>10, <1>11, <1>12 DEF PromptTypes
<1>14. /\ prompt'.pc = pc /\ prompt'.limits = prompt.limits /\ prompt'.chain = prompt.chain
       /\ prompt'.sink = sink /\ prompt'.offered = more /\ prompt'.at = prompt.at + 1
  BY <1>1, <1>10 DEF PromptTypes
<1>15. pc = "lstat" => ~sink.omitted
  BY <1>8
<1> QED
  BY <1>1, <1>2, <1>7, <1>11, <1>12, <1>13, <1>14, <1>15, Zenon DEF WalkInv, WalkOK, Visiting

\* A candidate that is passed over
LEMMA SkipKeeps ==
    ASSUME WalkInv, prompt.pc \in Visiting, prompt' = Skip
    PROVE  WalkInv'
<1>1. prompt.at \in Nat \ {0}
  BY DEF WalkInv, WalkOK
<1>2. PICK at \in Nat \ {0} : at = prompt.at + 1
  BY <1>1
<1>3. Entry("absent", NoFile) \in Entries /\ NoFile \in Files /\ "lstat" \in Visiting
  BY DEF Entries, Files, Visiting
<1>e. PICK entry \in Entries, none \in Files, pc \in Visiting :
          entry = Entry("absent", NoFile) /\ none = NoFile /\ pc = "lstat"
  BY <1>3
<1>4. prompt' = [prompt EXCEPT !.pc = pc, !.at = at, !.entry = entry, !.info = none, !.read = none]
  <2>1. prompt \in PromptTypes
    BY DEF WalkInv, WalkOK
  <2> QED
    BY <2>1, <1>2, <1>e DEF Skip, PromptTypes
<1> QED
  BY <1>4, WalkOn

\* Whatever happens to the workspace, and whenever the context ends: a step keeps
\* the invariant.
LEMMA PromptStep ==
    ASSUME WalkInv, PromptNext
    PROVE  WalkInv'
<1>t. prompt \in PromptTypes
  BY DEF WalkInv, WalkOK
<1>1. ASSUME NEW limits \in SectionLimits, NEW chain \in 1 .. limits.chain + 1,
             PromptResolve(limits, chain)
      PROVE  WalkInv'
  <2>1. CASE ~validSectionLimits(limits) \/ chain > limits.chain
    BY <2>1, <1>1, FailKeeps DEF Results, PromptResolve
  <2>2. CASE validSectionLimits(limits) /\ ~(chain > limits.chain)
    <3>1. prompt.pc = "resolve"
          /\ prompt' = [prompt EXCEPT !.pc = "boundary", !.limits = limits, !.chain = chain]
      BY <2>2, <1>1 DEF PromptResolve
    <3>2. chain \in 1 .. limits.chain /\ chain \in Nat
      <4>1. limits.chain \in Nat
        BY LimitNumbers
      <4> QED
        BY <4>1, <2>2
    <3>3. prompt' \in PromptTypes
      BY <3>1, <3>2, <1>t DEF PromptTypes
    <3>4. prompt.sink = newSectionSink /\ prompt.offered = <<>>
      BY <3>1 DEF WalkInv, WalkOK
    <3>5. /\ prompt'.pc = "boundary" /\ prompt'.limits = limits /\ prompt'.chain = chain
          /\ prompt'.sink = prompt.sink /\ prompt'.offered = prompt.offered
      BY <3>1, <1>t DEF PromptTypes
    <3>6. SinkOK(prompt'.sink, prompt'.offered, prompt'.limits.section)
      BY <3>4, <3>5, FreshSink, Zenon
    <3> QED
      BY <2>2, <3>2, <3>3, <3>4, <3>5, <3>6, Zenon DEF WalkInv, WalkOK, Visiting
  <2> QED
    BY <2>1, <2>2
<1>2. CASE PromptUntrusted
  BY <1>2, FailKeeps DEF Results, PromptUntrusted
<1>3. CASE OpenBoundary
  <2>1. prompt.pc = "boundary" /\ prompt' = [prompt EXCEPT !.pc = "lstat", !.at = 1]
    BY <1>3 DEF OpenBoundary
  <2>2. prompt' \in PromptTypes
    BY <2>1, <1>t DEF PromptTypes
  <2>3. /\ prompt'.pc = "lstat" /\ prompt'.limits = prompt.limits /\ prompt'.chain = prompt.chain
        /\ prompt'.sink = prompt.sink /\ prompt'.offered = prompt.offered /\ prompt'.at = 1
    BY <2>1, <1>t DEF PromptTypes
  <2>4. /\ prompt.limits \in SectionLimits
        /\ validSectionLimits(prompt.limits) /\ prompt.chain \in 1 .. prompt.limits.chain
        /\ SinkOK(prompt.sink, prompt.offered, prompt.limits.section)
        /\ prompt.sink = newSectionSink
    BY <2>1 DEF WalkInv, WalkOK
  <2>5. ~newSectionSink.omitted /\ 1 \in Nat \ {0}
    BY DEF newSectionSink
  <2> QED
    BY <2>2, <2>3, <2>4, <2>5, Zenon DEF WalkInv, WalkOK, Visiting
<1>4. CASE OpenBoundaryFails
  BY <1>4, FailKeeps DEF Results, OpenBoundaryFails
<1>5. ASSUME NEW entry \in Entries, Lstat(entry) PROVE WalkInv'
  <2>1. prompt.pc = "lstat" /\ prompt.pc \in Visiting /\ "open" \in Visiting
    BY <1>5 DEF Lstat, Visiting
  <2>2. CASE prompt' = Skip
    BY <2>1, <2>2, SkipKeeps
  <2>3. CASE PromptFails("canceled")
    BY <2>3, FailKeeps DEF Results
  <2>4. CASE prompt' = [prompt EXCEPT !.pc = "open", !.entry = entry, !.info = entry.file]
    <3>1. PICK at \in Nat \ {0}, info \in Files, read \in Files :
              at = prompt.at /\ info = entry.file /\ read = prompt.read
      BY <2>1, <1>t, EntryFile DEF WalkInv, WalkOK, PromptTypes
    <3>2. prompt' = [prompt EXCEPT !.pc = "open", !.at = at, !.entry = entry, !.info = info,
                                   !.read = read]
      BY <2>4, <3>1, <1>t DEF PromptTypes
    <3> QED
      BY <2>1, <3>1, <3>2, WalkOn
  <2> QED
    BY <2>2, <2>3, <2>4, <1>5 DEF Lstat
<1>6. ASSUME NEW entry \in Entries, Swap(entry) PROVE WalkInv'
  <2>1. prompt.pc \in Visiting /\ prompt' = [prompt EXCEPT !.entry = entry]
    BY <1>6 DEF Swap, Visiting
  <2>2. PICK pc \in Visiting, at \in Nat \ {0}, info \in Files, read \in Files :
            pc = prompt.pc /\ at = prompt.at /\ info = prompt.info /\ read = prompt.read
    BY <2>1, <1>t DEF WalkInv, WalkOK, PromptTypes
  <2>3. prompt' = [prompt EXCEPT !.pc = pc, !.at = at, !.entry = entry, !.info = info,
                                 !.read = read]
    BY <2>1, <2>2, <1>t DEF PromptTypes
  <2>4. prompt.pc \in Visiting
    BY <2>1
  <2> QED
    BY <2>3, <2>4, WalkOn
<1>7. CASE ReadCandidate
  <2>1. prompt.pc \in Visiting /\ "confirm" \in Visiting
    BY <1>7 DEF ReadCandidate, Visiting
  <2>2. CASE prompt' = Skip
    BY <2>1, <2>2, SkipKeeps
  <2>3. CASE PromptFails("canceled")
    BY <2>3, FailKeeps DEF Results
  <2>4. CASE prompt' = [prompt EXCEPT !.pc = "confirm", !.read = prompt.entry.file]
    <3>1. PICK at \in Nat \ {0}, entry \in Entries, info \in Files, read \in Files :
              at = prompt.at /\ entry = prompt.entry /\ info = prompt.info
              /\ read = prompt.entry.file
      BY <2>1, <1>t, EntryFile DEF WalkInv, WalkOK, PromptTypes
    <3>2. prompt' = [prompt EXCEPT !.pc = "confirm", !.at = at, !.entry = entry, !.info = info,
                                   !.read = read]
      BY <2>4, <3>1, <1>t DEF PromptTypes
    <3> QED
      BY <2>1, <3>1, <3>2, WalkOn
  <2> QED
    BY <2>2, <2>3, <2>4, <1>7 DEF ReadCandidate
<1>8. CASE ReadFails
  <2>1. prompt.pc \in Visiting
    BY <1>8 DEF ReadFails, Visiting
  <2> QED
    BY <2>1, <1>8, FailKeeps, SkipKeeps DEF Results, ReadFails
<1>9. CASE Confirm
  <2>1. prompt.pc = "confirm" /\ prompt.pc \in Visiting
    BY <1>9 DEF Confirm, Visiting
  <2>2. CASE prompt' = Skip
    BY <2>1, <2>2, SkipKeeps
  <2>3. CASE prompt' # Skip
    <3>1. PICK admitted, index, name :
              /\ admitted = admitContent(Contents[prompt.read], prompt.limits.file)
              /\ index = ((prompt.at - 1) \div Len(FileNames)) + 1
              /\ name = ((prompt.at - 1) % Len(FileNames)) + 1
      OBVIOUS
    <3>2. PICK file : file = [file |-> prompt.read, bytes |-> admitted.bytes,
                              truncated |-> admitted.truncated,
                              display |-> displayPath(prompt.chain, index, name)]
      OBVIOUS
    <3>3. /\ prompt.entry.kind = "file" /\ prompt.read # NoFile /\ SameFile
          /\ Visit(file)
      BY <2>3, <3>1, <3>2, <1>9, Zenon DEF Confirm
    <3>4. prompt.read \in DOMAIN Contents \ LinkTargets
      <4>1. prompt.entry \in Entries
        BY <1>t DEF PromptTypes
      <4> QED
        BY <3>3, <4>1, EntryFile DEF SameFile
    <3>5. /\ prompt.limits \in SectionLimits /\ prompt.at \in Nat \ {0}
          /\ prompt.chain \in 1 .. prompt.limits.chain
      BY <2>1 DEF WalkInv, WalkOK, Visiting
    <3>6. index \in Nat \ {0} /\ name \in DOMAIN FileNames
      BY <3>1, <3>5, Candidate
    <3>7. PICK max \in Nat : max = prompt.limits.file
      BY <3>5, LimitNumbers
    <3>8. Contents[prompt.read] \in Seq(Runes)
      BY <3>4, ContentsAssumption
    <3>9. admitted.bytes \in 0 .. max /\ admitted.truncated \in BOOLEAN
      BY <3>1, <3>7, <3>8, AdmittedFits
    <3>10. displayPath(prompt.chain, index, name) \in Int
      BY <3>5, <3>6, DisplayBound
    <3>11. file \in ShownFiles
      BY <3>2, <3>4, <3>9, <3>10 DEF ShownFiles
    <3>12. file.bytes <= prompt.limits.file /\ file.display = displayPath(prompt.chain, index, name)
      BY <3>2, <3>7, <3>9
    <3> QED
      BY <2>1, <3>3, <3>6, <3>11, <3>12, VisitKeeps
  <2> QED
    BY <2>2, <2>3
<1>10. CASE RenderSection
  <2>1. PICK result \in Results : result = IF prompt.sink.started THEN "section" ELSE "empty"
    BY DEF Results
  <2>2. prompt.pc \in Visiting \cup {"finish"}
        /\ prompt' = [prompt EXCEPT !.pc = "section", !.result = result]
    BY <2>1, <1>10 DEF RenderSection, Visiting
  <2>3. prompt' \in PromptTypes
    BY <2>2, <1>t DEF PromptTypes
  <2>4. /\ prompt'.pc = "section" /\ prompt'.limits = prompt.limits /\ prompt'.chain = prompt.chain
        /\ prompt'.sink = prompt.sink /\ prompt'.offered = prompt.offered
        /\ prompt'.result = result
    BY <2>2, <1>t DEF PromptTypes
  <2>5. /\ prompt.limits \in SectionLimits
        /\ validSectionLimits(prompt.limits) /\ prompt.chain \in 1 .. prompt.limits.chain
        /\ SinkOK(prompt.sink, prompt.offered, prompt.limits.section)
    BY <2>2 DEF WalkInv, WalkOK, Visiting
  <2>6. result = "section" <=> prompt.sink.started
    BY <2>1
  <2> QED
    BY <2>3, <2>4, <2>5, <2>6, Zenon DEF WalkInv, WalkOK, Visiting
<1>11. CASE PromptDone
  <2>1. prompt' = [PromptIdle EXCEPT !.pc = "done"] /\ "none" \in Results
    BY <1>11 DEF PromptDone, Results
  <2> QED
    BY <2>1, NothingWalked DEF WalkInv
<1> QED
  BY <1>1, <1>2, <1>3, <1>4, <1>5, <1>6, <1>7, <1>8, <1>9, <1>10, <1>11 DEF PromptNext

\* The invariant holds from the call of the resolver on.
THEOREM WalkInvariance == PromptSpec => []WalkInv
<1>r. "none" \in Results
  BY DEF Results
<1>1. prompt = [PromptIdle EXCEPT !.pc = "resolve"] => WalkInv
  BY <1>r, NothingWalked DEF WalkInv
<1>2. ASSUME WalkInv, [PromptNext \/ prompt' = PromptIdle]_prompt PROVE WalkInv'
  <2>1. CASE UNCHANGED prompt
    BY <1>2, <2>1 DEF WalkInv
  <2>2. CASE prompt' = PromptIdle
    BY <1>r, <2>2, NothingWalked DEF WalkInv
  <2> QED
    BY <1>2, <2>1, <2>2, PromptStep
<1> QED
  BY <1>1, <1>2, PTL DEF PromptSpec

\* However directory entries are replaced while the walk examines them
\* (discover.go:34-52), no file is shown that only links lead to.
THEOREM StandingFilesOnly == PromptSpec => []OnlyStandingFilesAreShown
<1>1. ASSUME WalkInv PROVE OnlyStandingFilesAreShown
  <2>1. prompt.sink.shown \in Seq(ShownFiles)
    BY <1>1 DEF WalkInv, WalkOK, PromptTypes, SinkTypes
  <2>2. \A s \in ShownFiles : s.file \notin LinkTargets
    BY DEF ShownFiles
  <2>3. \A i \in DOMAIN prompt.sink.shown : prompt.sink.shown[i] \in ShownFiles
    BY <2>1
  <2> QED
    BY <2>2, <2>3 DEF OnlyStandingFilesAreShown
<1> QED
  BY <1>1, WalkInvariance, PTL

\* A section is whole for every limit that validateLimits accepts, all files and
\* names: it fits, shows a prefix of the admitted files and at least one, and
\* says so when it shows less (render.go:32-69).
THEOREM WholeSection == PromptSpec => []SectionIsWhole
<1>1. ASSUME WalkInv, prompt.pc = "section" PROVE SectionIsWhole
  <2>1. PICK sink, offered, limit :
            sink = prompt.sink /\ offered = prompt.offered /\ limit = prompt.limits.section
    OBVIOUS
  <2>2. SinkOK(sink, offered, limit) /\ (prompt.result = "section" <=> sink.started)
        /\ prompt.limits \in SectionLimits
    BY <1>1, <2>1 DEF WalkInv, WalkOK
  <2>3. limit \in Int /\ sink.length \in Int
    <3>1. prompt.limits.section \in Nat /\ sink \in SinkTypes
      BY <2>2, LimitNumbers DEF SinkOK
    <3> QED
      BY <3>1, <2>1 DEF SinkTypes
  <2>4. finish(sink) <= limit
    <3>1. Layout.open \in Nat /\ Layout.close \in Nat /\ Layout.omitted \in Nat
      BY LayoutLengths
    <3>2. CASE ~sink.started
      <4>1. limit \in Nat
        BY <2>1, <2>2, LimitNumbers
      <4> QED
        BY <3>2, <4>1 DEF finish
    <3>3. CASE sink.started /\ ~sink.omitted
      BY <3>1, <3>3, <2>2, <2>3 DEF finish, SinkOK
    <3>4. CASE sink.started /\ sink.omitted
      BY <3>1, <3>4, <2>2, <2>3 DEF finish, SinkOK, MarkerBudget
    <3> QED
      BY <3>2, <3>3, <3>4
  <2>5. /\ sink.shown \in Seq(ShownFiles) /\ offered \in Seq(ShownFiles)
        /\ sink.omitted \in BOOLEAN
        /\ ~sink.omitted => sink.shown = offered
        /\ sink.omitted => /\ Len(sink.shown) < Len(offered)
                           /\ \A i \in 1 .. Len(sink.shown) : sink.shown[i] = offered[i]
        /\ sink.started <=> offered # <<>>
        /\ sink.started => sink.shown # <<>>
    BY <2>2 DEF SinkOK, SinkTypes
  <2>6. PICK s : s = sink.shown
    OBVIOUS
  <2>7. IsPrefix(s, offered) /\ (sink.omitted <=> s # offered)
    <3>0. s \in Seq(ShownFiles) /\ offered \in Seq(ShownFiles)
      BY <2>5, <2>6
    <3>1. CASE ~sink.omitted
      BY <3>0, <3>1, <2>5, <2>6 DEF IsPrefix
    <3>2. CASE sink.omitted
      <4>1. Len(s) < Len(offered) /\ \A i \in 1 .. Len(s) : s[i] = offered[i]
        BY <3>2, <2>5, <2>6
      <4>2. PICK t : t = SubSeq(offered, 1, Len(s))
        OBVIOUS
      <4>3. t \in Seq(ShownFiles) /\ Len(t) = Len(s) /\ \A i \in 1 .. Len(s) : t[i] = offered[i]
        BY <3>0, <4>1, <4>2
      <4>4. t = s /\ SubSeq(s, 1, Len(s)) = s
        BY <3>0, <4>1, <4>3
      <4>5. s # offered /\ Len(s) <= Len(offered)
        BY <3>0, <4>1
      <4> QED
        BY <3>2, <4>2, <4>4, <4>5 DEF IsPrefix
    <3> QED
      BY <3>1, <3>2
  <2> QED
    BY <2>1, <2>2, <2>4, <2>5, <2>6, <2>7, Zenon DEF SectionIsWhole
<1>2. WalkInv => SectionIsWhole
  BY <1>1 DEF SectionIsWhole
<1> QED
  BY <1>2, WalkInvariance, PTL
-----------------------------------------------------------------------------
(* websearch: the arithmetic of the limits *)

\* The quotient is the number of times a divisor fits.
LEMMA QuotientFits ==
    ASSUME NEW a \in Nat \ {0}, NEW b \in Nat, b <= MaxInt \div a
    PROVE  a * b \in Nat /\ a * b <= MaxInt
<1>1. MaxInt \in Nat
  BY BoundsAssumption
<1>2. PICK q \in Nat : q = MaxInt \div a /\ a * q <= MaxInt
  BY <1>1, SMT
<1>3. a * b <= a * q
  BY <1>2, Monotone
<1>4. a * b \in Nat /\ a * q \in Nat
  BY <1>2
<1> QED
  BY <1>1, <1>2, <1>3, <1>4

\* A checked sum that is not refused is the sum, and no more than MaxInt.
LEMMA SumIsChecked ==
    ASSUME NEW a \in Int, NEW b \in Int
    PROVE  /\ checkedAdd(a, b) \in Int
           /\ checkedAdd(a, b) >= 0 =>
                a >= 0 /\ b >= 0 /\ checkedAdd(a, b) = a + b /\ a + b <= MaxInt
           /\ checkedAdd(a, b) # Refuse => checkedAdd(a, b) >= 0
BY BoundsAssumption DEF checkedAdd, Refuse

\* And so is a checked product.
LEMMA ProductIsChecked ==
    ASSUME NEW a \in Int, NEW b \in Int
    PROVE  /\ checkedMul(a, b) \in Int
           /\ checkedMul(a, b) >= 0 =>
                a >= 0 /\ b >= 0 /\ checkedMul(a, b) = a * b /\ a * b <= MaxInt
           /\ checkedMul(a, b) # Refuse => checkedMul(a, b) >= 0
<1>1. CASE a < 0 \/ b < 0 \/ (a # 0 /\ b > MaxInt \div a)
  BY <1>1 DEF checkedMul, Refuse
<1>2. CASE ~(a < 0 \/ b < 0 \/ (a # 0 /\ b > MaxInt \div a))
  <2>1. checkedMul(a, b) = a * b /\ a \in Nat /\ b \in Nat
    BY <1>2 DEF checkedMul
  <2>2. a * b \in Nat /\ a * b <= MaxInt
    <3>1. CASE a = 0
      BY <3>1, <2>1, BoundsAssumption
    <3>2. CASE a # 0
      <4>1. MaxInt \div a \in Int
        BY <2>1, <3>2, BoundsAssumption, SMT
      <4>2. b <= MaxInt \div a
        BY <1>2, <2>1, <3>2, <4>1
      <4> QED
        BY <2>1, <3>2, <4>2, QuotientFits
    <3> QED
      BY <3>1, <3>2
  <2> QED
    BY <2>1, <2>2
<1> QED
  BY <1>1, <1>2

\* Limits are numbers.
LEMMA LimitsAreNumbers ==
    ASSUME NEW l \in LimitChoices
    PROVE  l.results \in Int /\ l.title \in Int /\ l.url \in Int /\ l.snippet \in Int
BY BoundsAssumption DEF LimitFields

\* The bytes one source may need
SourceBytes(l) == EmptySource + (l.title + l.url + l.snippet) * 6

\* resultRetention promises room for two copies of the longest result.
LEMMA RetentionIsTwice ==
    ASSUME NEW l \in LimitChoices, resultRetention(l) # Refuse
    PROVE  /\ l.title \in Nat /\ l.url \in Nat /\ l.snippet \in Nat /\ l.results \in Nat \ {0}
           /\ SourceBytes(l) \in Nat
           /\ resultRetention(l)
                = (EmptyResult + SourceBytes(l) * l.results + (l.results - 1)) * 2
           /\ resultRetention(l) <= MaxInt
<1>1. PICK t \in Int, u \in Int, s \in Int, n \in Int :
         t = l.title /\ u = l.url /\ s = l.snippet /\ n = l.results
  BY LimitsAreNumbers
<1>a. PICK a \in Int : a = checkedAdd(t, u)
  BY SumIsChecked
<1>b. PICK b \in Int : b = checkedAdd(a, s)
  BY SumIsChecked
<1>c. PICK c \in Int : c = checkedMul(b, 6)
  BY ProductIsChecked
<1>d. PICK d \in Int : d = checkedAdd(EmptySource, c)
  BY SumIsChecked, BoundsAssumption
<1>e. PICK e \in Int : e = checkedMul(d, n)
  BY ProductIsChecked
<1>f. PICK f \in Int : f = checkedAdd(EmptyResult, e)
  BY SumIsChecked, BoundsAssumption
<1>g. PICK g \in Int : g = checkedAdd(f, n - 1)
  BY SumIsChecked
<1>h. PICK h \in Int : h = checkedMul(g, 2)
  BY ProductIsChecked
<1>2. resultRetention(l) = h
  BY <1>1, <1>a, <1>b, <1>c, <1>d, <1>e, <1>f, <1>g, <1>h, Zenon DEF resultRetention, worstCaseResultBytes
<1>3. g >= 0 /\ h = g * 2 /\ h <= MaxInt
  BY <1>2, <1>h, ProductIsChecked
<1>4. f >= 0 /\ n >= 1 /\ g = f + (n - 1)
  BY <1>3, <1>g, SumIsChecked
<1>5. e >= 0 /\ f = EmptyResult + e
  BY <1>4, <1>f, SumIsChecked, BoundsAssumption
<1>6. d >= 0 /\ e = d * n
  BY <1>5, <1>e, ProductIsChecked
<1>7. c >= 0 /\ d = EmptySource + c
  BY <1>6, <1>d, SumIsChecked, BoundsAssumption
<1>8. b >= 0 /\ c = b * 6
  BY <1>7, <1>c, ProductIsChecked
<1>9. a >= 0 /\ s >= 0 /\ b = a + s
  BY <1>8, <1>b, SumIsChecked
<1>10. t >= 0 /\ u >= 0 /\ a = t + u
  BY <1>9, <1>a, SumIsChecked
<1>11. d = SourceBytes(l)
  BY <1>1, <1>7, <1>8, <1>9, <1>10 DEF SourceBytes
<1> QED
  BY <1>1, <1>2, <1>3, <1>4, <1>5, <1>6, <1>9, <1>10, <1>11

-----------------------------------------------------------------------------
(* websearch: the bytes of a text *)

\* A character has a width and a cost.
LEMMA CharacterCost ==
    ASSUME NEW c \in Characters
    PROVE  /\ c.width \in Nat /\ c.cost \in Nat /\ Max({1, c.width}) \in Nat \ {0}
           /\ c.cost <= 6 * Max({1, c.width})
<1>1. c.width \in Nat /\ c.cost \in Nat /\ c.cost <= 6 * Max({1, c.width})
  BY DEF Characters
<1>2. Max({1, c.width}) = IF 1 >= c.width THEN 1 ELSE c.width
  BY <1>1, MaxPair
<1> QED
  BY <1>1, <1>2

\* The sizes of a text's characters are numbers.
LEMMA SizesAreNumbers ==
    ASSUME NEW text \in Seq(Characters)
    PROVE  /\ Sizes(text) \in Seq(Nat) /\ Len(Sizes(text)) = Len(text) /\ Len(text) \in Nat
           /\ \A i \in 1 .. Len(text) : Sizes(text)[i] = Max({1, text[i].width})
           /\ \A i \in 1 .. Len(text) : text[i] \in Characters
<1>1. Len(text) \in Nat /\ DOMAIN text = 1 .. Len(text) /\ \A i \in 1 .. Len(text) : text[i] \in Characters
  OBVIOUS
<1>2. \A i \in 1 .. Len(text) : Max({1, text[i].width}) \in Nat
  BY <1>1, CharacterCost
<1>3. Sizes(text) \in [1 .. Len(text) -> Nat]
  BY <1>1, <1>2 DEF Sizes
<1> QED
  BY <1>1, <1>3 DEF Sizes

\* A prefix has the bytes the text has so far.
LEMMA BytesOfPrefix ==
    ASSUME NEW text \in Seq(Characters), NEW m \in 0 .. Len(text)
    PROVE  /\ SubSeq(text, 1, m) \in Seq(Characters) /\ Len(SubSeq(text, 1, m)) = m
           /\ Bytes(SubSeq(text, 1, m)) = Totals(Sizes(text))[m]
<1>1. PICK s : s = SubSeq(text, 1, m)
  OBVIOUS
<1>2. m \in Nat /\ m <= Len(text) /\ Len(text) \in Nat
  OBVIOUS
<1>3. s \in Seq(Characters) /\ Len(s) = m /\ \A n \in 1 .. m : s[n] = text[n]
  BY <1>1, <1>2
<1>4. /\ Sizes(s) \in Seq(Nat) /\ Len(Sizes(s)) = m
      /\ Sizes(text) \in Seq(Nat) /\ Len(Sizes(text)) = Len(text)
      /\ \A n \in 1 .. m : Sizes(s)[n] = Sizes(text)[n]
  <2>1. /\ Sizes(s) \in Seq(Nat) /\ Len(Sizes(s)) = m
        /\ \A n \in 1 .. m : Sizes(s)[n] = Max({1, s[n].width})
    BY <1>3, SizesAreNumbers
  <2>2. /\ Sizes(text) \in Seq(Nat) /\ Len(Sizes(text)) = Len(text)
        /\ \A n \in 1 .. Len(text) : Sizes(text)[n] = Max({1, text[n].width})
    BY SizesAreNumbers
  <2>3. ASSUME NEW n \in 1 .. m PROVE n \in 1 .. Len(text) /\ s[n] = text[n]
    BY <1>2, <1>3
  <2> QED
    BY <2>1, <2>2, <2>3
<1>5. m \in 0 .. m /\ m <= Len(Sizes(text)) /\ m \in 0 .. Len(Sizes(s))
  BY <1>2, <1>4
<1>6. Totals(Sizes(s))[m] = Totals(Sizes(text))[m]
  BY <1>4, <1>5, TotalsAgree
<1> QED
  BY <1>1, <1>3, <1>4, <1>6 DEF Bytes, Total

\* json.Marshal never needs more than six times the bytes.
LEMMA EncodedAtMostSix ==
    ASSUME NEW text \in Seq(Characters)
    PROVE  Encoded(text) \in Nat /\ Bytes(text) \in Nat /\ Encoded(text) <= 6 * Bytes(text)
<1>1. PICK costs : costs = [i \in DOMAIN text |-> text[i].cost]
  OBVIOUS
<1>2. /\ Sizes(text) \in Seq(Nat) /\ Len(Sizes(text)) = Len(text) /\ Len(text) \in Nat
      /\ \A i \in 1 .. Len(text) : Sizes(text)[i] = Max({1, text[i].width})
      /\ \A i \in 1 .. Len(text) : text[i] \in Characters
  BY SizesAreNumbers
<1>3. \A i \in 1 .. Len(text) : text[i].cost \in Nat /\ text[i].cost <= 6 * Sizes(text)[i]
  BY <1>2, CharacterCost
<1>4. /\ costs \in Seq(Nat) /\ Len(costs) = Len(text)
      /\ \A i \in 1 .. Len(text) : costs[i] = text[i].cost
  <2>1. DOMAIN text = 1 .. Len(text)
    OBVIOUS
  <2>2. costs \in [1 .. Len(text) -> Nat]
    BY <1>1, <1>3, <2>1
  <2> QED
    BY <1>1, <1>2, <2>1, <2>2
<1>5. \A i \in 1 .. Len(costs) : costs[i] <= 6 * Sizes(text)[i]
  BY <1>3, <1>4
<1>6. Total(costs) \in Nat /\ Total(Sizes(text)) \in Nat /\ Total(costs) <= 6 * Total(Sizes(text))
  BY <1>2, <1>4, <1>5, TotalScaled
<1> QED
  BY <1>1, <1>6 DEF Encoded, Bytes

\* A text that grows by a character
LEMMA BytesAppend ==
    ASSUME NEW text \in Seq(Characters), NEW c \in Characters
    PROVE  Append(text, c) \in Seq(Characters) /\ Bytes(text) \in Nat
           /\ Bytes(Append(text, c)) = Bytes(text) + Max({1, c.width})
<1>1. PICK s : s = Append(text, c)
  OBVIOUS
<1>2. /\ s \in Seq(Characters) /\ Len(s) = Len(text) + 1 /\ s[Len(text) + 1] = c
      /\ Len(text) \in Nat /\ \A n \in 1 .. Len(text) : s[n] = text[n]
  BY <1>1
<1>3. PICK x \in Nat : x = Max({1, c.width})
  BY CharacterCost
<1>4. /\ Sizes(text) \in Seq(Nat) /\ Len(Sizes(text)) = Len(text)
      /\ \A n \in 1 .. Len(text) : Sizes(text)[n] = Max({1, text[n].width})
  BY SizesAreNumbers
<1>5. /\ Sizes(s) \in Seq(Nat) /\ Len(Sizes(s)) = Len(text) + 1
      /\ \A n \in 1 .. Len(text) + 1 : Sizes(s)[n] = Max({1, s[n].width})
  BY <1>2, SizesAreNumbers
<1>6. PICK a : a = Append(Sizes(text), x)
  OBVIOUS
<1>7. /\ a \in Seq(Nat) /\ Len(a) = Len(text) + 1 /\ a[Len(text) + 1] = x
      /\ \A n \in 1 .. Len(text) : a[n] = Sizes(text)[n]
  BY <1>4, <1>6
<1>8. ASSUME NEW n \in 1 .. Len(text) + 1 PROVE Sizes(s)[n] = a[n]
  <2>1. CASE n = Len(text) + 1
    BY <2>1, <1>2, <1>3, <1>5, <1>7
  <2>2. CASE n # Len(text) + 1
    <3>1. n \in 1 .. Len(text)
      BY <2>2, <1>2
    <3> QED
      BY <3>1, <1>2, <1>4, <1>5, <1>7
  <2> QED
    BY <2>1, <2>2
<1>9. Sizes(s) = a
  BY <1>5, <1>7, <1>8
<1> QED
  BY <1>1, <1>2, <1>3, <1>4, <1>6, <1>9, TotalAppend DEF Bytes

\* Leaving out what is not UTF-8 adds no bytes.
LEMMA KeptIsShorter ==
    ASSUME NEW text \in Seq(Characters), NEW kept, kept = Kept(LAMBDA r : ~Bad(r), text)
    PROVE  kept \in Seq(Characters) /\ Bytes(kept) \in Nat /\ Bytes(kept) <= Bytes(text)
<1> DEFINE Rec(g) == [n \in 0 .. Len(text) |->
                        IF n = 0 THEN <<>> ELSE IF ~Bad(text[n]) THEN Append(g[n - 1], text[n]) ELSE g[n - 1]]
<1>l. Len(text) \in Nat /\ \A n \in 1 .. Len(text) : text[n] \in Characters
  OBVIOUS
<1>1. PICK body : body = [n \in 1 .. Len(text) |-> [v \in Seq(Characters) |->
                            IF ~Bad(text[n]) THEN Append(v, text[n]) ELSE v]]
  OBVIOUS
<1>2. body \in [1 .. Len(text) -> [Seq(Characters) -> Seq(Characters)]]
  <2>1. ASSUME NEW n \in 1 .. Len(text), NEW v \in Seq(Characters)
        PROVE  (IF ~Bad(text[n]) THEN Append(v, text[n]) ELSE v) \in Seq(Characters)
    BY <1>l
  <2> QED
    BY <1>1, <2>1
<1>3. PICK g \in [0 .. Len(text) -> Seq(Characters)] : Steps(g, <<>>, body, Len(text))
  <2>1. <<>> \in Seq(Characters)
    OBVIOUS
  <2> QED
    BY <1>2, <1>l, <2>1, RoundsExist
<1>4. g = Rec(g)
  <2>1. ASSUME NEW n \in 0 .. Len(text), n # 0
        PROVE  g[n] = IF ~Bad(text[n]) THEN Append(g[n - 1], text[n]) ELSE g[n - 1]
    <3>1. n \in 1 .. Len(text) /\ n - 1 \in 0 .. Len(text)
      BY <2>1, <1>l
    <3>2. /\ g[n - 1] \in Seq(Characters)
          /\ body[n] = [v \in Seq(Characters) |-> IF ~Bad(text[n]) THEN Append(v, text[n]) ELSE v]
      BY <1>1, <3>1
    <3>3. g[n] = body[n][g[n - 1]]
      BY <1>3, <3>1 DEF Steps
    <3> QED
      BY <3>2, <3>3
  <2>2. g[0] = <<>>
    BY <1>3 DEF Steps
  <2> QED
    BY <2>1, <2>2
<1>5. PICK f : f = CHOOSE h : h = Rec(h)
  OBVIOUS
<1>6. kept = f[Len(text)]
  BY <1>5 DEF Kept, Loop, LoopStates
<1>7. f = Rec(f)
  BY <1>4, <1>5
<1>8. f[0] = <<>> /\ \A n \in 1 .. Len(text) :
                        f[n] = IF ~Bad(text[n]) THEN Append(f[n - 1], text[n]) ELSE f[n - 1]
  <2>1. ASSUME NEW n \in 0 .. Len(text)
        PROVE  f[n] = IF n = 0 THEN <<>> ELSE IF ~Bad(text[n]) THEN Append(f[n - 1], text[n]) ELSE f[n - 1]
    <3> HIDE DEF Bad
    <3> QED
      BY <1>7, Zenon
  <2>2. 0 \in 0 .. Len(text) /\ \A n \in 1 .. Len(text) : n \in 0 .. Len(text) /\ n # 0
    BY <1>l
  <2>3. f[0] = <<>>
    BY <2>1, <2>2, Zenon
  <2> QED
    BY <2>1, <2>2, <2>3, Zenon
<1>9. PICK T : T = Totals(Sizes(text))
  OBVIOUS
<1>10. /\ Len(text) \in 0 .. Len(text) /\ T[0] = 0 /\ T[Len(text)] = Bytes(text)
       /\ \A n \in 0 .. Len(text) : T[n] \in Nat
       /\ \A n \in 1 .. Len(text) : T[n] = T[n - 1] + Max({1, text[n].width})
  <2>1. PICK z : z = Sizes(text)
    OBVIOUS
  <2>2. z \in Seq(Nat) /\ Len(z) = Len(text) /\ \A n \in 1 .. Len(text) : z[n] = Max({1, text[n].width})
    BY <2>1, SizesAreNumbers
  <2>3. /\ T[0] = 0 /\ \A n \in 0 .. Len(text) : T[n] \in Nat
        /\ \A n \in 1 .. Len(text) : T[n] = T[n - 1] + z[n]
    BY <2>1, <2>2, <1>9, TotalsTable
  <2>4. T[Len(text)] = Bytes(text)
    BY <2>1, <2>2, <1>9 DEF Bytes, Total
  <2>5. Len(text) \in 0 .. Len(text)
    BY <1>l
  <2> QED
    BY <2>2, <2>3, <2>4, <2>5, Zenon
<1>11. PICK S : S = {n \in 0 .. Len(text) : f[n] \in Seq(Characters) /\ Bytes(f[n]) \in Nat /\ Bytes(f[n]) <= T[n]}
  OBVIOUS
<1>12. 0 \in S
  <2>1. Sizes(<<>>) = <<>> /\ <<>> \in Seq(Nat) /\ <<>> \in Seq(Characters) /\ Len(<<>>) = 0
    BY DEF Sizes
  <2>2. Bytes(<<>>) = 0
    BY <2>1, TotalsTable DEF Bytes, Total
  <2>3. f[0] \in Seq(Characters) /\ Bytes(f[0]) \in Nat /\ Bytes(f[0]) <= T[0]
    BY <2>1, <2>2, <1>8, <1>10
  <2> QED
    BY <2>3, <1>l, <1>11
<1>13. ASSUME NEW n \in 1 .. Len(text), n - 1 \in S PROVE n \in S
  <2>1. PICK v \in Seq(Characters), c \in Characters : v = f[n - 1] /\ c = text[n]
    BY <1>l, <1>11, <1>13
  <2>2. PICK a \in Nat, b \in Nat, x \in Nat :
          a = Bytes(v) /\ b = T[n - 1] /\ x = Max({1, c.width}) /\ a <= b /\ T[n] = b + x /\ n \in 0 .. Len(text)
    <3>1. n - 1 \in 0 .. Len(text) /\ n \in 0 .. Len(text)
      BY <1>l
    <3> QED
      BY <2>1, <3>1, <1>10, <1>11, <1>13, CharacterCost
  <2>3. CASE ~Bad(c)
    <3>1. f[n] = Append(v, c)
      BY <2>1, <2>3, <1>8
    <3>2. Append(v, c) \in Seq(Characters) /\ Bytes(Append(v, c)) = a + x
      BY <2>2, BytesAppend
    <3>3. a + x \in Nat /\ a + x <= T[n]
      BY <2>2
    <3>4. f[n] \in Seq(Characters) /\ Bytes(f[n]) \in Nat /\ Bytes(f[n]) <= T[n]
      BY <3>1, <3>2, <3>3, Zenon
    <3> QED
      BY <3>4, <2>2, <1>11
  <2>4. CASE Bad(c)
    <3>1. f[n] = v
      BY <2>1, <2>4, <1>8
    <3> QED
      BY <3>1, <2>2, <1>11
  <2> QED
    BY <2>3, <2>4
<1>14. \A n \in 0 .. Len(text) : n \in S
  BY <1>12, <1>13, <1>l, EveryRound
<1>15. Len(text) \in S
  BY <1>10, <1>14
<1> QED
  BY <1>6, <1>10, <1>11, <1>15

\* utf8Prefix keeps its limit.
LEMMA PrefixFits ==
    ASSUME NEW text \in Seq(Characters), NEW maximum \in Nat
    PROVE  /\ utf8Prefix(text, maximum) \in Seq(Characters)
           /\ Bytes(utf8Prefix(text, maximum)) \in Nat
           /\ Bytes(utf8Prefix(text, maximum)) <= maximum
<1>1. PICK fits : fits = {n \in 0 .. Len(text) : Bytes(SubSeq(text, 1, n)) <= maximum}
  OBVIOUS
<1>l. Len(text) \in Nat /\ 0 \in 0 .. Len(text)
  OBVIOUS
<1>2. 0 \in fits
  <2>1. Bytes(SubSeq(text, 1, 0)) = Totals(Sizes(text))[0]
    BY <1>l, BytesOfPrefix
  <2>2. Totals(Sizes(text))[0] = 0
    BY SizesAreNumbers, TotalsTable
  <2> QED
    BY <1>1, <1>l, <2>1, <2>2
<1>3. fits # {} /\ fits \subseteq 0 .. Len(text)
  BY <1>1, <1>2
<1>4. PICK m : m = Max(fits)
  OBVIOUS
<1>5. m \in fits /\ m \in 0 .. Len(text)
  BY <1>3, <1>4, <1>l, MaxExists
<1>6. PICK s : s = SubSeq(text, 1, m)
  OBVIOUS
<1>7. s \in Seq(Characters) /\ Bytes(s) <= maximum
  BY <1>1, <1>5, <1>6, BytesOfPrefix
<1>8. PICK kept : kept = Kept(LAMBDA r : ~Bad(r), s)
  OBVIOUS
<1>9. kept \in Seq(Characters) /\ Bytes(kept) \in Nat /\ Bytes(kept) <= Bytes(s)
  BY <1>7, <1>8, KeptIsShorter
<1>10. utf8Prefix(text, maximum) = kept
  BY <1>1, <1>4, <1>6, <1>8 DEF utf8Prefix
<1>11. Bytes(s) \in Nat
  BY <1>7, EncodedAtMostSix
<1> QED
  BY <1>7, <1>9, <1>10, <1>11

\* A source that keeps the limits
Fitting(l) ==
    {r \in Sources : Bytes(r.title) <= l.title /\ Bytes(r.url.text) <= l.url
                     /\ Bytes(r.snippet) <= l.snippet}

\* What boundSources keeps of a record
Bounded(r, l) == [title |-> utf8Prefix(r.title, l.title), url |-> r.url,
                  snippet |-> utf8Prefix(r.snippet, l.snippet)]

\* A record with a valid URL is cut to the limits.
LEMMA RecordFits ==
    ASSUME NEW r \in Sources, NEW l, l.title \in Nat, l.snippet \in Nat,
           validSourceURL(r.url, l.url)
    PROVE  Bounded(r, l) \in Fitting(l)
<1>1. r.title \in Seq(Characters) /\ r.snippet \in Seq(Characters)
      /\ r.url \in [ok : BOOLEAN, text : Seq(Characters)]
  BY DEF Sources
<1>2. PICK t \in Seq(Characters) : t = utf8Prefix(r.title, l.title) /\ Bytes(t) <= l.title
  BY <1>1, PrefixFits
<1>3. PICK s \in Seq(Characters) : s = utf8Prefix(r.snippet, l.snippet) /\ Bytes(s) <= l.snippet
  BY <1>1, PrefixFits
<1>4. Bounded(r, l) = [title |-> t, url |-> r.url, snippet |-> s]
  BY <1>2, <1>3 DEF Bounded
<1>5. Bounded(r, l) \in Sources
  BY <1>1, <1>4 DEF Sources
<1>6. Bytes(r.url.text) <= l.url
  BY DEF validSourceURL
<1> QED
  BY <1>2, <1>3, <1>4, <1>5, <1>6 DEF Fitting

\* boundSources returns at most MaxResults sources, each within the limits.
LEMMA BoundedFits ==
    ASSUME NEW records \in Seq(Sources), NEW l, l.title \in Nat, l.snippet \in Nat, l.results \in Nat
    PROVE  /\ boundSources(records, l) \in Seq(Fitting(l))
           /\ Len(boundSources(records, l)) <= l.results
<1>1. PICK count : count = Min({Len(records), l.results})
  OBVIOUS
<1>2. count \in Nat /\ count <= Len(records) /\ count <= l.results
  BY <1>1, MinPair
<1>3. PICK s : s = SubSeq(records, 1, count)
  OBVIOUS
<1>l. s \in Seq(Sources) /\ Len(s) = count /\ \A n \in 1 .. count : s[n] \in Sources
  BY <1>2, <1>3
<1> DEFINE V == Seq(Fitting(l))
           Rec(g) == [n \in 0 .. count |->
                        IF n = 0 THEN <<>>
                        ELSE IF ~validSourceURL(s[n].url, l.url) THEN g[n - 1]
                        ELSE Append(g[n - 1], Bounded(s[n], l))]
<1>4. PICK body : body = [n \in 1 .. count |-> [v \in V |->
                            IF ~validSourceURL(s[n].url, l.url) THEN v ELSE Append(v, Bounded(s[n], l))]]
  OBVIOUS
<1>5. body \in [1 .. count -> [V -> V]]
  <2>1. ASSUME NEW n \in 1 .. count, NEW v \in V
        PROVE  (IF ~validSourceURL(s[n].url, l.url) THEN v ELSE Append(v, Bounded(s[n], l))) \in V
    <3>1. validSourceURL(s[n].url, l.url) => Bounded(s[n], l) \in Fitting(l)
      BY <1>l, RecordFits
    <3> QED
      BY <3>1
  <2> QED
    BY <1>4, <2>1
<1>6. PICK g \in [0 .. count -> V] : Steps(g, <<>>, body, count)
  <2>1. <<>> \in V
    OBVIOUS
  <2> QED
    BY <1>2, <1>5, <2>1, RoundsExist
<1>7. g = Rec(g)
  <2>1. ASSUME NEW n \in 0 .. count, n # 0
        PROVE  g[n] = IF ~validSourceURL(s[n].url, l.url) THEN g[n - 1]
                      ELSE Append(g[n - 1], Bounded(s[n], l))
    <3>1. n \in 1 .. count /\ n - 1 \in 0 .. count
      BY <2>1, <1>2
    <3>2. /\ g[n - 1] \in V
          /\ body[n] = [v \in V |-> IF ~validSourceURL(s[n].url, l.url) THEN v ELSE Append(v, Bounded(s[n], l))]
      BY <1>4, <3>1
    <3>3. g[n] = body[n][g[n - 1]]
      BY <1>6, <3>1 DEF Steps
    <3> QED
      BY <3>2, <3>3
  <2>2. g[0] = <<>>
    BY <1>6 DEF Steps
  <2> QED
    BY <2>1, <2>2
<1>8. PICK f : f = CHOOSE h : h = Rec(h)
  OBVIOUS
<1>9. boundSources(records, l) = f[count]
  <2> HIDE DEF V
  <2>1. boundSources(records, l) = (CHOOSE h : h = Rec(h))[Len(s)]
    BY <1>1, <1>3, <1>l, Zenon DEF boundSources, Loop, LoopStates, Bounded
  <2> QED
    BY <2>1, <1>l, <1>8
<1>10. f = Rec(f)
  BY <1>7, <1>8
<1>11. f[0] = <<>> /\ \A n \in 1 .. count :
                        f[n] = IF ~validSourceURL(s[n].url, l.url) THEN f[n - 1]
                               ELSE Append(f[n - 1], Bounded(s[n], l))
  <2>1. ASSUME NEW n \in 0 .. count
        PROVE  f[n] = IF n = 0 THEN <<>>
                      ELSE IF ~validSourceURL(s[n].url, l.url) THEN f[n - 1]
                      ELSE Append(f[n - 1], Bounded(s[n], l))
    BY <1>10, Zenon
  <2>2. 0 \in 0 .. count /\ \A n \in 1 .. count : n \in 0 .. count /\ n # 0
    BY <1>2
  <2>3. f[0] = <<>>
    BY <2>1, <2>2, Zenon
  <2> QED
    BY <2>1, <2>2, <2>3, Zenon
<1>12. PICK S : S = {n \in 0 .. count : f[n] \in V /\ Len(f[n]) <= n}
  OBVIOUS
<1>13. 0 \in S
  <2>1. f[0] \in V /\ Len(f[0]) <= 0
    BY <1>11
  <2> QED
    BY <2>1, <1>2, <1>12
<1>14. ASSUME NEW n \in 1 .. count, n - 1 \in S PROVE n \in S
  <2>1. PICK v \in V : v = f[n - 1] /\ Len(v) <= n - 1
    BY <1>12, <1>14
  <2>2. n \in 0 .. count /\ s[n] \in Sources
    BY <1>2, <1>l
  <2>3. CASE validSourceURL(s[n].url, l.url)
    <3>1. PICK b \in Fitting(l) : b = Bounded(s[n], l)
      BY <2>2, <2>3, RecordFits
    <3>2. f[n] = Append(v, b)
      BY <2>1, <2>3, <3>1, <1>11
    <3>3. Append(v, b) \in V /\ Len(Append(v, b)) <= n
      BY <2>1, <2>2
    <3> QED
      BY <3>2, <3>3, <2>2, <1>12
  <2>4. CASE ~validSourceURL(s[n].url, l.url)
    <3>1. f[n] = v /\ Len(v) <= n
      BY <2>1, <2>4, <1>11
    <3> QED
      BY <3>1, <2>2, <1>12
  <2> QED
    BY <2>3, <2>4
<1>15. \A n \in 0 .. count : n \in S
  BY <1>13, <1>14, <1>2, EveryRound
<1>16. count \in S
  BY <1>2, <1>15
<1>17. f[count] \in V /\ Len(f[count]) <= count
  BY <1>12, <1>16
<1> QED
  BY <1>2, <1>9, <1>17

\* A source within the limits needs no more bytes than the limits allow for.
LEMMA SourceFits ==
    ASSUME NEW l, l.title \in Nat, l.url \in Nat, l.snippet \in Nat, NEW r \in Fitting(l)
    PROVE  EncodedSource(r) \in Nat /\ EncodedSource(r) <= SourceBytes(l)
<1>1. /\ r.title \in Seq(Characters) /\ r.snippet \in Seq(Characters)
      /\ r.url.text \in Seq(Characters)
      /\ Bytes(r.title) <= l.title /\ Bytes(r.url.text) <= l.url /\ Bytes(r.snippet) <= l.snippet
  BY DEF Fitting, Sources
<1>2. PICK a \in Nat, b \in Nat, c \in Nat :
        a = Encoded(r.title) /\ b = Encoded(r.url.text) /\ c = Encoded(r.snippet)
        /\ a <= 6 * l.title /\ b <= 6 * l.url /\ c <= 6 * l.snippet
  <2>1. ASSUME NEW text \in Seq(Characters), NEW m \in Nat, Bytes(text) <= m
        PROVE  Encoded(text) \in Nat /\ Encoded(text) <= 6 * m
    <3>1. PICK e \in Nat, n \in Nat : e = Encoded(text) /\ n = Bytes(text) /\ e <= 6 * n
      BY EncodedAtMostSix
    <3> QED
      BY <2>1, <3>1
  <2> QED
    BY <1>1, <2>1
<1>3. EncodedSource(r) = EmptySource + a + b + c
  BY <1>2 DEF EncodedSource
<1>4. EmptySource \in Nat
  BY BoundsAssumption
<1>5. SourceBytes(l) = EmptySource + (l.title + l.url + l.snippet) * 6
  BY DEF SourceBytes
<1> QED
  BY <1>2, <1>3, <1>4, <1>5

\* Two copies of a bounded result fit the retention.
LEMMA ResultFits ==
    ASSUME NEW l \in LimitChoices, resultRetention(l) # Refuse, NEW records \in Seq(Sources)
    PROVE  2 * EncodedResult(boundSources(records, l)) <= resultRetention(l)
<1>1. /\ l.title \in Nat /\ l.url \in Nat /\ l.snippet \in Nat /\ l.results \in Nat \ {0}
      /\ SourceBytes(l) \in Nat
      /\ resultRetention(l) = (EmptyResult + SourceBytes(l) * l.results + (l.results - 1)) * 2
  BY RetentionIsTwice
<1>2. PICK result : result = boundSources(records, l)
  OBVIOUS
<1>3. result \in Seq(Fitting(l)) /\ Len(result) \in Nat /\ Len(result) <= l.results
  <2>1. result \in Seq(Fitting(l)) /\ Len(result) <= l.results
    BY <1>1, <1>2, BoundedFits
  <2> QED
    BY <2>1
<1>4. PICK sizes : sizes = [i \in DOMAIN result |-> EncodedSource(result[i])]
  OBVIOUS
<1>5. \A i \in 1 .. Len(result) : /\ EncodedSource(result[i]) \in Nat
                                  /\ EncodedSource(result[i]) <= SourceBytes(l)
  <2>1. ASSUME NEW i \in 1 .. Len(result) PROVE result[i] \in Fitting(l)
    BY <1>3
  <2> QED
    BY <1>1, <2>1, SourceFits
<1>6. /\ sizes \in Seq(Nat) /\ Len(sizes) = Len(result)
      /\ \A i \in 1 .. Len(sizes) : sizes[i] <= SourceBytes(l)
  <2>1. DOMAIN result = 1 .. Len(result)
    BY <1>3
  <2>2. sizes \in [1 .. Len(result) -> Nat]
    BY <1>4, <1>5, <2>1
  <2> QED
    BY <1>3, <1>4, <1>5, <2>1, <2>2
<1>7. PICK total \in Nat, bound \in Nat, n \in Nat :
        total = Total(sizes) /\ bound = SourceBytes(l) /\ n = Len(result) /\ total <= bound * n
  <2>1. Total(sizes) \in Nat /\ Total(sizes) <= SourceBytes(l) * Len(sizes)
    BY <1>1, <1>6, TotalBounded
  <2> QED
    BY <1>1, <1>3, <1>6, <2>1
<1>8. PICK m \in Nat \ {0} : m = l.results
  BY <1>1
<1>9. bound * n <= bound * m /\ bound * n \in Int /\ bound * m \in Int
  <2>1. n <= m
    BY <1>3, <1>7, <1>8
  <2> QED
    BY <2>1, Monotone
<1>10. EncodedResult(result) = EmptyResult + total + Max({0, n - 1})
  BY <1>4, <1>7 DEF EncodedResult
<1>11. Max({0, n - 1}) \in Nat /\ Max({0, n - 1}) <= m - 1
  <2>1. PICK k \in Int : k = n - 1
    OBVIOUS
  <2>2. Max({0, k}) = IF 0 >= k THEN 0 ELSE k
    BY MaxPair
  <2>3. n <= m
    BY <1>3, <1>7, <1>8
  <2>4. (IF 0 >= k THEN 0 ELSE k) \in Nat /\ (IF 0 >= k THEN 0 ELSE k) <= m - 1
    BY <2>1, <2>3
  <2> QED
    BY <2>1, <2>2, <2>4
<1>12. PICK x \in Nat : x = Max({0, n - 1}) /\ x <= m - 1
  BY <1>11
<1>13. EncodedResult(result) = EmptyResult + total + x /\ EmptyResult \in Nat
  BY <1>10, <1>12, BoundsAssumption
<1>14. resultRetention(l) = (EmptyResult + bound * m + (m - 1)) * 2
  BY <1>1, <1>7, <1>8
<1>15. 2 * (EmptyResult + total + x) <= (EmptyResult + bound * m + (m - 1)) * 2
  <2>1. PICK p \in Int, q \in Int : p = bound * n /\ q = bound * m
    BY <1>9
  <2>2. total <= p /\ p <= q /\ x <= m - 1 /\ EmptyResult \in Nat
    BY <2>1, <1>7, <1>9, <1>12, <1>13
  <2>3. 2 * (EmptyResult + total + x) <= (EmptyResult + q + (m - 1)) * 2
    BY <2>2
  <2> QED
    BY <2>1, <2>3
<1> QED
  BY <1>2, <1>13, <1>14, <1>15

\* Between the mount and the end of a search there are limits that were
\* accepted, the retention they lead to and, once the searcher answered, what
\* boundSources makes of its answer.
AnswerTypes == [pc : {"idle", "mount", "search", "bounded", "done"},
                limits : LimitChoices \cup {<<>>}, retention : Int, result : Seq(Sources)]

AnswerOK(a) ==
    /\ a \in AnswerTypes
    /\ a.pc \in {"search", "bounded"} =>
         a.limits \in LimitChoices /\ resultRetention(a.limits) # Refuse
         /\ a.retention = resultRetention(a.limits)
    /\ a.pc = "bounded" => \E records \in Answers : a.result = boundSources(records, a.limits)

AnswerInv == AnswerOK(answer)

\* A search that is idle, starts or is over
LEMMA FreshAnswer ==
    ASSUME NEW a, a \in {AnswerIdle, [AnswerIdle EXCEPT !.pc = "mount"], [AnswerIdle EXCEPT !.pc = "done"]}
    PROVE  AnswerOK(a)
<1>1. PICK p \in {"idle", "mount", "done"} :
        a = [pc |-> p, limits |-> <<>>, retention |-> 0, result |-> <<>>]
  BY DEF AnswerIdle
<1>2. <<>> \in Seq(Sources)
  OBVIOUS
<1>3. a \in AnswerTypes
  BY <1>1, <1>2 DEF AnswerTypes
<1> QED
  BY <1>1, <1>3 DEF AnswerOK

\* A retention is a number.
LEMMA RetentionIsNumber ==
    ASSUME NEW l \in LimitChoices, resultRetention(l) # Refuse
    PROVE  resultRetention(l) \in Int
<1>1. PICK n \in Nat, b \in Nat :
        n = l.results /\ b = SourceBytes(l) /\ resultRetention(l) = (EmptyResult + b * n + (n - 1)) * 2
  BY RetentionIsTwice
<1>2. EmptyResult \in Nat
  BY BoundsAssumption
<1> QED
  BY <1>1, <1>2

\* Every step of a search keeps the invariant.
LEMMA BoundsStep ==
    ASSUME AnswerInv, BoundsNext
    PROVE  AnswerInv'
<1>t. AnswerOK(answer) /\ answer \in AnswerTypes
  BY DEF AnswerInv, AnswerOK
<1>f. PICK p, l, n, r : /\ answer = [pc |-> p, limits |-> l, retention |-> n, result |-> r]
                        /\ n \in Int /\ r \in Seq(Sources) /\ l \in LimitChoices \cup {<<>>}
  BY <1>t DEF AnswerTypes
<1>1. CASE BoundsMount
  <2>1. PICK m \in LimitChoices :
          IF validateLimits(m) /\ resultRetention(m) # Refuse
            THEN answer' = [answer EXCEPT !.pc = "search", !.limits = m,
                                          !.retention = resultRetention(m)]
            ELSE answer' = [answer EXCEPT !.pc = "done"]
    BY <1>1 DEF BoundsMount
  <2>2. CASE answer' = [answer EXCEPT !.pc = "done"]
    <3>1. answer' = [pc |-> "done", limits |-> l, retention |-> n, result |-> r]
      BY <2>2, <1>f
    <3>2. answer' \in AnswerTypes
      BY <3>1, <1>f DEF AnswerTypes
    <3> QED
      BY <3>1, <3>2 DEF AnswerInv, AnswerOK
  <2>3. CASE resultRetention(m) # Refuse
             /\ answer' = [answer EXCEPT !.pc = "search", !.limits = m,
                                         !.retention = resultRetention(m)]
    <3>1. PICK k \in Int : k = resultRetention(m)
      BY <2>3, RetentionIsNumber
    <3>2. answer' = [pc |-> "search", limits |-> m, retention |-> k, result |-> r]
      BY <2>3, <3>1, <1>f
    <3>3. answer' \in AnswerTypes
      BY <3>1, <3>2, <1>f DEF AnswerTypes
    <3>4. answer'.pc = "search" /\ answer'.limits = m /\ answer'.retention = resultRetention(m)
      BY <3>1, <3>2
    <3> QED
      BY <2>3, <3>3, <3>4 DEF AnswerInv, AnswerOK
  <2> QED
    BY <2>1, <2>2, <2>3
<1>2. CASE BoundsAnswer
  <2>1. PICK records \in Answers :
          answer' = [answer EXCEPT !.pc = "bounded", !.result = boundSources(records, answer.limits)]
    BY <1>2 DEF BoundsAnswer
  <2>2. /\ answer.limits \in LimitChoices /\ resultRetention(answer.limits) # Refuse
        /\ answer.retention = resultRetention(answer.limits)
    BY <1>2, <1>t DEF AnswerOK, BoundsAnswer
  <2>3. PICK b : b = boundSources(records, l)
    OBVIOUS
  <2>4. answer' = [pc |-> "bounded", limits |-> l, retention |-> n, result |-> b]
    BY <2>1, <2>3, <1>f
  <2>5. l = answer.limits /\ n = answer.retention
    BY <1>f
  <2>6. b \in Seq(Sources)
    <3>1. records \in Seq(Sources)
      BY BoundsAssumption
    <3>2. l.title \in Nat /\ l.snippet \in Nat /\ l.results \in Nat
      BY <2>2, <2>5, RetentionIsTwice
    <3>3. b \in Seq(Fitting(l))
      BY <2>3, <3>1, <3>2, BoundedFits
    <3>4. Fitting(l) \subseteq Sources
      BY DEF Fitting
    <3> QED
      BY <3>3, <3>4
  <2>7. answer' \in AnswerTypes
    BY <2>2, <2>4, <2>5, <2>6, <1>f DEF AnswerTypes
  <2>8. answer'.pc = "bounded" /\ answer'.limits = l /\ answer'.retention = n /\ answer'.result = b
    BY <2>4
  <2> QED
    BY <2>2, <2>3, <2>5, <2>7, <2>8 DEF AnswerInv, AnswerOK
<1>3. CASE BoundsDone
  BY <1>3, FreshAnswer DEF BoundsDone, AnswerInv
<1> QED
  BY <1>1, <1>2, <1>3 DEF BoundsNext

\* The invariant is what the property asks for.
LEMMA AnswerInvSuffices == AnswerInv => ResultFitsRetention
<1> SUFFICES ASSUME AnswerInv, answer.pc = "bounded"
             PROVE  /\ 2 * EncodedResult(answer.result) <= answer.retention
                    /\ answer.retention <= MaxInt
                    /\ \A i \in DOMAIN answer.result :
                          /\ Bytes(answer.result[i].title) <= answer.limits.title
                          /\ Bytes(answer.result[i].snippet) <= answer.limits.snippet
  BY DEF ResultFitsRetention
<1>1. PICK l \in LimitChoices : l = answer.limits
  BY DEF AnswerInv, AnswerOK
<1>2. resultRetention(l) # Refuse /\ answer.retention = resultRetention(l)
  BY <1>1 DEF AnswerInv, AnswerOK
<1>3. PICK records \in Answers : answer.result = boundSources(records, l)
  BY <1>1 DEF AnswerInv, AnswerOK
<1>4. records \in Seq(Sources)
  BY BoundsAssumption
<1>5. /\ l.title \in Nat /\ l.snippet \in Nat /\ l.results \in Nat /\ resultRetention(l) <= MaxInt
  BY <1>2, RetentionIsTwice
<1>6. 2 * EncodedResult(answer.result) <= answer.retention
  BY <1>2, <1>3, <1>4, ResultFits
<1>7. PICK result \in Seq(Fitting(l)) : result = answer.result
  BY <1>3, <1>4, <1>5, BoundedFits
<1>8. ASSUME NEW i \in DOMAIN result
      PROVE  Bytes(result[i].title) <= l.title /\ Bytes(result[i].snippet) <= l.snippet
  <2>1. result[i] \in Fitting(l)
    OBVIOUS
  <2> QED
    BY <2>1 DEF Fitting
<1> QED
  BY <1>1, <1>2, <1>5, <1>6, <1>7, <1>8

\* ResultRetained: for all limits and all answers, whatever the width of the
\* integers, limits a mount accepts promise a retention that two copies of the
\* bounded answer fit (bounds.go:11-109, config.go:203-218).
THEOREM ResultRetained == BoundsSpec => []ResultFitsRetention
<1>1. answer = AnswerIdle => AnswerInv
  BY FreshAnswer DEF AnswerInv
<1>2. AnswerInv /\ [BoundsNext \/ answer' \in {AnswerIdle, [AnswerIdle EXCEPT !.pc = "mount"]}]_answer
      => AnswerInv'
  <2> SUFFICES ASSUME AnswerInv,
                      [BoundsNext \/ answer' \in {AnswerIdle, [AnswerIdle EXCEPT !.pc = "mount"]}]_answer
               PROVE  AnswerInv'
    OBVIOUS
  <2>1. CASE UNCHANGED answer
    BY <2>1 DEF AnswerInv
  <2>2. CASE answer' \in {AnswerIdle, [AnswerIdle EXCEPT !.pc = "mount"]}
    BY <2>2, FreshAnswer DEF AnswerInv
  <2> QED
    BY <2>1, <2>2, BoundsStep
<1> QED
  BY <1>1, <1>2, AnswerInvSuffices, PTL DEF BoundsSpec

-----------------------------------------------------------------------------
(* rtkreducer: replacements in the order of their spans                     *)

\* t lists the numbers of P from the least to the greatest.
Lists(t, k, P) ==
    /\ t \in [1 .. k -> P]
    /\ \A i, j \in 1 .. k : i < j => t[i] < t[j]
    /\ \A x \in P : \E i \in 1 .. k : t[i] = x

\* Every bounded set of numbers has such a list.
LEMMA ListsExist ==
    ASSUME NEW N \in Nat, NEW Q \in SUBSET (1 .. N)
    PROVE  \E k \in Nat : \E t : Lists(t, k, Q)
<1>1. PICK S : S = {m \in Nat : \A P \in SUBSET (1 .. m) : \E k \in Nat : \E t : Lists(t, k, P)}
  OBVIOUS
<1>2. 0 \in S
  <2>1. ASSUME NEW P \in SUBSET (1 .. 0) PROVE \E k \in Nat : \E t : Lists(t, k, P)
    <3>1. PICK t : t = [i \in 1 .. 0 |-> 0]
      OBVIOUS
    <3>2. P = {} /\ 1 .. 0 = {}
      OBVIOUS
    <3>3. Lists(t, 0, P)
      BY <3>1, <3>2 DEF Lists
    <3> QED
      BY <3>3
  <2> QED
    BY <2>1, <1>1
<1>3. ASSUME NEW m \in Nat, m \in S PROVE m + 1 \in S
  <2>1. ASSUME NEW P \in SUBSET (1 .. m + 1) PROVE \E k \in Nat : \E t : Lists(t, k, P)
    <3>1. PICK R : R = P \ {m + 1}
      OBVIOUS
    <3>2. R \in SUBSET (1 .. m)
      BY <3>1
    <3>3. PICK k \in Nat : \E t : Lists(t, k, R)
      BY <3>2, <1>1, <1>3
    <3>4. PICK t : Lists(t, k, R)
      BY <3>3
    <3>5. CASE m + 1 \notin P
      <4>1. R = P
        BY <3>1, <3>5
      <4> QED
        BY <3>4, <4>1
    <3>6. CASE m + 1 \in P
      <4>1. PICK u : u = [i \in 1 .. k + 1 |-> IF i = k + 1 THEN m + 1 ELSE t[i]]
        OBVIOUS
      <4>2. \A i \in 1 .. k : t[i] \in R
        BY <3>4 DEF Lists
      <4>3. \A i \in 1 .. k + 1 : u[i] = IF i = k + 1 THEN m + 1 ELSE t[i]
        BY <4>1
      <4>4. \A i \in 1 .. k + 1 : i # k + 1 => i \in 1 .. k
        OBVIOUS
      <4>5. u \in [1 .. k + 1 -> P]
        <5>1. ASSUME NEW i \in 1 .. k + 1 PROVE (IF i = k + 1 THEN m + 1 ELSE t[i]) \in P
          BY <3>1, <3>6, <4>2, <4>4
        <5> QED
          BY <4>1, <5>1
      <4>6. ASSUME NEW i \in 1 .. k + 1, NEW j \in 1 .. k + 1, i < j PROVE u[i] < u[j]
        <5>1. i \in 1 .. k /\ u[i] = t[i] /\ t[i] \in R
          <6>1. i # k + 1
            BY <4>6
          <6> QED
            BY <6>1, <4>2, <4>3, <4>4
        <5>2. CASE j = k + 1
          <6>1. u[j] = m + 1
            BY <5>2, <4>3
          <6>2. PICK x : x = t[i]
            OBVIOUS
          <6>3. x \in 1 .. m
            BY <6>2, <5>1, <3>2
          <6>4. x < m + 1
            BY <6>3
          <6> QED
            BY <6>1, <6>2, <6>4, <5>1
        <5>3. CASE j # k + 1
          <6>1. j \in 1 .. k /\ u[j] = t[j]
            BY <5>3, <4>3, <4>4
          <6> QED
            BY <6>1, <5>1, <4>6, <3>4 DEF Lists
        <5> QED
          BY <5>2, <5>3
      <4>7. ASSUME NEW x \in P PROVE \E i \in 1 .. k + 1 : u[i] = x
        <5>1. CASE x = m + 1
          <6>1. k + 1 \in 1 .. k + 1
            OBVIOUS
          <6> QED
            BY <5>1, <6>1, <4>3
        <5>2. CASE x # m + 1
          <6>1. x \in R
            BY <5>2, <3>1
          <6>2. PICK i \in 1 .. k : t[i] = x
            BY <6>1, <3>4 DEF Lists
          <6>3. i \in 1 .. k + 1 /\ i # k + 1
            OBVIOUS
          <6> QED
            BY <6>2, <6>3, <4>3
        <5> QED
          BY <5>1, <5>2
      <4>8. Lists(u, k + 1, P)
        BY <4>5, <4>6, <4>7 DEF Lists
      <4>9. k + 1 \in Nat
        OBVIOUS
      <4> QED
        BY <4>8, <4>9
    <3> QED
      BY <3>5, <3>6
  <2>2. m + 1 \in Nat
    OBVIOUS
  <2> QED
    BY <2>1, <2>2, <1>1
<1>4. N \in S
  BY <1>2, <1>3, EveryNatural
<1> QED
  BY <1>1, <1>4

\* Replacements of different tokens of a document of N
Placed(reps, N) ==
    /\ Len(reps) \in Nat /\ reps \in [1 .. Len(reps) -> Range(reps)]
    /\ \A i \in 1 .. Len(reps) : reps[i].at \in 1 .. N
    /\ \A i, j \in 1 .. Len(reps) : i # j => reps[i].at # reps[j].at

InOrder(s, reps) ==
    /\ s \in [1 .. Len(reps) -> Range(reps)] /\ Range(s) = Range(reps)
    /\ \A i, j \in 1 .. Len(reps) : i < j => s[i].at < s[j].at

\* They can be sorted.
LEMMA SortedIsInOrder ==
    ASSUME NEW N \in Nat, NEW reps, Placed(reps, N)
    PROVE  InOrder(Sorted(reps), reps)
<1>1. PICK n \in Nat : n = Len(reps)
  BY DEF Placed
<1>2. /\ reps \in [1 .. n -> Range(reps)] /\ DOMAIN reps = 1 .. n
      /\ \A i \in 1 .. n : reps[i].at \in 1 .. N
      /\ \A i, j \in 1 .. n : i # j => reps[i].at # reps[j].at
  BY <1>1 DEF Placed
<1>3. PICK P : P = {reps[i].at : i \in 1 .. n}
  OBVIOUS
<1>4. P \in SUBSET (1 .. N)
  BY <1>2, <1>3
<1>5. PICK k \in Nat : \E t : Lists(t, k, P)
  BY <1>4, ListsExist
<1>6. PICK t : Lists(t, k, P)
  BY <1>5
<1>7. k = n
  <2>1. t \in Bijection(1 .. k, P)
    <3>1. t \in [1 .. k -> P] /\ \A x \in P : \E i \in 1 .. k : t[i] = x
      BY <1>6 DEF Lists
    <3>2. ASSUME NEW i \in 1 .. k, NEW j \in 1 .. k, t[i] = t[j] PROVE i = j
      <4>0. PICK x, y : x = t[i] /\ y = t[j]
        OBVIOUS
      <4>1. x \in Int /\ y \in Int /\ x = y
        BY <3>1, <1>4, <3>2, <4>0
      <4>2. i < j => x < y
        BY <1>6, <4>0 DEF Lists
      <4>3. j < i => y < x
        BY <1>6, <4>0 DEF Lists
      <4>4. i \in Int /\ j \in Int
        OBVIOUS
      <4>5. ~(x < y) /\ ~(y < x)
        BY <4>1
      <4>6. ~(i < j) /\ ~(j < i)
        BY <4>2, <4>3, <4>5
      <4> QED
        BY <4>4, <4>6
    <3> QED
      BY <3>1, <3>2 DEF Bijection, Injection, Surjection, IsInjective
  <2>2. PICK a : a = [i \in 1 .. n |-> reps[i].at]
    OBVIOUS
  <2>3. a \in Bijection(1 .. n, P)
    <3>1. a \in [1 .. n -> P] /\ \A x \in P : \E i \in 1 .. n : a[i] = x
      BY <2>2, <1>3
    <3>2. ASSUME NEW i \in 1 .. n, NEW j \in 1 .. n, a[i] = a[j] PROVE i = j
      BY <3>2, <2>2, <1>2
    <3> QED
      BY <3>1, <3>2 DEF Bijection, Injection, Surjection, IsInjective
  <2>4. ASSUME NEW m \in Nat PROVE IsFiniteSet(1 .. m) /\ Cardinality(1 .. m) = m
    <3>1. IsFiniteSet(1 .. m) /\ Cardinality(1 .. m) = IF 1 > m THEN 0 ELSE m - 1 + 1
      BY FS_Interval
    <3> QED
      BY <3>1
  <2>5. Cardinality(P) = k
    BY <2>1, <2>4, FS_Bijection DEF ExistsBijection
  <2>6. Cardinality(P) = n
    BY <2>3, <2>4, FS_Bijection DEF ExistsBijection
  <2> QED
    BY <2>5, <2>6
<1>8. PICK s : s = [i \in 1 .. n |-> CHOOSE r \in Range(reps) : r.at = t[i]]
  OBVIOUS
<1>9. ASSUME NEW i \in 1 .. n PROVE s[i] \in Range(reps) /\ s[i].at = t[i]
  <2>1. t[i] \in P
    BY <1>6, <1>7 DEF Lists
  <2>2. \E r \in Range(reps) : r.at = t[i]
    BY <2>1, <1>2, <1>3 DEF Range
  <2> QED
    BY <2>2, <1>8
<1>10. s \in [1 .. n -> Range(reps)] /\ DOMAIN s = 1 .. n
  BY <1>8, <1>9
<1>11. \A i, j \in 1 .. n : i < j => s[i].at < s[j].at
  BY <1>6, <1>7, <1>9 DEF Lists
<1>12. Range(s) = Range(reps)
  <2>1. ASSUME NEW r \in Range(reps) PROVE r \in Range(s)
    <3>1. PICK j \in 1 .. n : r = reps[j]
      BY <1>2 DEF Range
    <3>2. r.at \in P
      BY <3>1, <1>3
    <3>3. PICK i \in 1 .. n : t[i] = r.at
      BY <3>2, <1>6, <1>7 DEF Lists
    <3>4. s[i] \in Range(reps) /\ s[i].at = r.at
      BY <3>3, <1>9
    <3>5. PICK h \in 1 .. n : s[i] = reps[h]
      BY <3>4, <1>2 DEF Range
    <3>6. h = j
      BY <3>1, <3>4, <3>5, <1>2
    <3>7. s[i] = r
      BY <3>1, <3>5, <3>6
    <3> QED
      BY <3>7, <1>10 DEF Range
  <2>2. ASSUME NEW r \in Range(s) PROVE r \in Range(reps)
    BY <1>9, <1>10 DEF Range
  <2> QED
    BY <2>1, <2>2
<1>13. InOrder(s, reps)
  BY <1>1, <1>10, <1>11, <1>12 DEF InOrder
<1>14. \E x \in [DOMAIN reps -> Range(reps)] :
          Range(x) = Range(reps) /\ \A i, j \in DOMAIN x : i < j => x[i].at < x[j].at
  BY <1>2, <1>10, <1>11, <1>12
<1>15. PICK x : x = Sorted(reps)
  OBVIOUS
<1>16. x \in [DOMAIN reps -> Range(reps)] /\ Range(x) = Range(reps)
       /\ \A i, j \in DOMAIN x : i < j => x[i].at < x[j].at
  BY <1>14, <1>15, Zenon DEF Sorted
<1> QED
  BY <1>1, <1>2, <1>15, <1>16 DEF InOrder

-----------------------------------------------------------------------------
(* rtkreducer: what the loop over the replacements copies                   *)

\* What a replacement makes of its token
New(raw, r) == [raw[r.at] EXCEPT !.value = r.value]

\* A token with a new value keeps its other fields.
LEMMA ReplacedAt ==
    ASSUME NEW T, NEW raw \in Seq(T), NEW r, r.at \in 1 .. Len(raw)
    PROVE  Replaced(raw, r)[r.at] = New(raw, r)
<1>1. PICK a, v : a = r.at /\ v = r.value
  OBVIOUS
<1>2. a \in DOMAIN raw
  BY <1>1
<1>3. [raw EXCEPT ![a].value = v][a] = [raw[a] EXCEPT !.value = v]
  BY <1>2, Zenon
<1> QED
  BY <1>1, <1>3 DEF Replaced, New

\* One sequence after another
Joined(w, s, m, t, n, X) ==
    /\ w \in Seq(X) /\ Len(w) = m + n
    /\ \A i \in 1 .. m : w[i] = s[i]
    /\ \A i \in 1 .. n : w[m + i] = t[i]

\* The items of a concatenation are those of its parts, in order.
LEMMA Concat ==
    ASSUME NEW X, NEW s \in Seq(X), NEW t \in Seq(X), NEW m \in Nat, NEW n \in Nat,
           Len(s) = m, Len(t) = n, NEW w, w = s \o t
    PROVE  Joined(w, s, m, t, n, X)
<1>1. /\ w \in Seq(X) /\ Len(w) = Len(s) + Len(t)
      /\ \A i \in 1 .. Len(s) + Len(t) : w[i] = IF i <= Len(s) THEN s[i] ELSE t[i - Len(s)]
  BY ConcatProperties, Zenon
<1>2. \A i \in 1 .. m + n : w[i] = IF i <= m THEN s[i] ELSE t[i - m]
  BY <1>1, Zenon
<1>3. Len(w) = m + n
  BY <1>1, Zenon
<1>4. ASSUME NEW i \in 1 .. m PROVE w[i] = s[i]
  <2>1. i \in 1 .. m + n /\ i <= m
    OBVIOUS
  <2> QED
    BY <2>1, <1>2, Zenon
<1>5. ASSUME NEW i \in 1 .. n PROVE w[m + i] = t[i]
  <2>1. m + i \in 1 .. m + n /\ ~(m + i <= m) /\ (m + i) - m = i
    OBVIOUS
  <2> QED
    BY <2>1, <1>2, Zenon
<1> QED
  BY <1>1, <1>3, <1>4, <1>5, Zenon DEF Joined

\* The tokens copied so far, those up to the next replacement, and what takes its place
CopiedTo(w, X, raw, tokens, p, a, y) ==
    /\ w \in Seq(X) /\ Len(w) = a /\ w[a] = y
    /\ \A i \in 1 .. a - 1 : w[i] = IF i < p THEN tokens[i] ELSE raw[i]

\* Copying up to a replacement and appending its value puts every token in its place.
LEMMA CopiedOn ==
    ASSUME NEW X, NEW raw \in Seq(X), NEW tokens \in Seq(X), NEW p \in 1 .. Len(raw),
           Len(tokens) = p - 1, NEW a \in p .. Len(raw), NEW y \in X, NEW w,
           w = tokens \o SubSeq(raw, p, a - 1) \o <<y>>
    PROVE  CopiedTo(w, X, raw, tokens, p, a, y)
<1>1. Len(raw) \in Nat /\ p \in Nat /\ a \in Nat /\ 1 <= p /\ p <= a /\ a <= Len(raw)
  OBVIOUS
<1>2. PICK u : u = SubSeq(raw, p, a - 1)
  OBVIOUS
<1>3. \A i \in p .. a - 1 : raw[i] \in X
  BY <1>1
<1>4. /\ u \in Seq(X) /\ Len(u) = IF p <= a - 1 THEN a - 1 - p + 1 ELSE 0
      /\ \A i \in 1 .. a - 1 - p + 1 : u[i] = raw[p + i - 1]
  BY <1>1, <1>2, <1>3, SubSeqProperties
<1>5. Len(u) = a - p
  BY <1>1, <1>4
<1>6. PICK t : t = tokens \o u
  OBVIOUS
<1>7. p - 1 \in Nat /\ a - p \in Nat /\ a - 1 \in Nat /\ p - 1 + (a - p) = a - 1 /\ (a - 1) + 1 = a
      /\ 1 \in 1 .. 1 /\ 1 \in Nat
  BY <1>1
<1>8. /\ t \in Seq(X) /\ Len(t) = a - 1
      /\ \A i \in 1 .. p - 1 : t[i] = tokens[i]
      /\ \A i \in 1 .. a - p : t[p - 1 + i] = u[i]
  <2>0. PICK m \in Nat, k \in Nat : m = p - 1 /\ k = a - p
    BY <1>7
  <2>9. Len(tokens) = m /\ Len(u) = k /\ u \in Seq(X)
    BY <2>0, <1>4, <1>5
  <2>1. Joined(t, tokens, m, u, k, X)
    BY <1>6, <2>9, Concat, Zenon
  <2> QED
    BY <2>0, <2>1, <1>7, Zenon DEF Joined
<1>9. <<y>> \in Seq(X) /\ Len(<<y>>) = 1 /\ <<y>>[1] = y
  OBVIOUS
<1>10. /\ w \in Seq(X) /\ Len(w) = a /\ w[a] = y
       /\ \A i \in 1 .. a - 1 : w[i] = t[i]
  <2>1. w = t \o <<y>>
    BY <1>2, <1>6
  <2>0. PICK m, k, z : m \in Nat /\ k \in Nat /\ m = a - 1 /\ k = 1 /\ z = <<y>>
    BY <1>7
  <2>3. Len(t) = m /\ Len(z) = k /\ z \in Seq(X) /\ w = t \o z
    BY <2>0, <2>1, <1>8, <1>9
  <2>2. Joined(w, t, m, z, k, X)
    BY <2>0, <2>3, <1>8, Concat, Zenon
  <2> QED
    BY <2>0, <2>2, <1>7, <1>9, Zenon DEF Joined
<1>14. ASSUME NEW i \in 1 .. a - 1 PROVE w[i] = IF i < p THEN tokens[i] ELSE raw[i]
  <2>2. w[i] = t[i]
    BY <1>10
  <2>3. CASE i < p
    <3>1. i \in 1 .. p - 1
      BY <2>3, <1>1
    <3> QED
      BY <3>1, <2>2, <2>3, <1>8, Zenon
  <2>4. CASE ~(i < p)
    <3>0. PICK j : j = i - (p - 1)
      OBVIOUS
    <3>1. j \in 1 .. a - 1 - p + 1 /\ j \in 1 .. a - p /\ p + j - 1 = i /\ p - 1 + j = i
      BY <3>0, <2>4, <1>1
    <3>2. u[j] = raw[i]
      BY <3>1, <1>4
    <3>3. t[i] = u[j]
      BY <3>1, <1>8
    <3> QED
      BY <3>2, <3>3, <2>2, <2>4
  <2> QED
    BY <2>3, <2>4
<1> QED
  BY <1>10, <1>14 DEF CopiedTo

\* The rest of the document
CopiedAll(w, X, raw, tokens, p) ==
    /\ w \in Seq(X) /\ Len(w) = Len(raw)
    /\ \A i \in 1 .. Len(raw) : w[i] = IF i < p THEN tokens[i] ELSE raw[i]

\* Copying what is left puts every remaining token in its place.
LEMMA CopiedRest ==
    ASSUME NEW X, NEW raw \in Seq(X), NEW tokens \in Seq(X), NEW p \in 1 .. Len(raw) + 1,
           Len(tokens) = p - 1, NEW w, w = tokens \o SubSeq(raw, p, Len(raw))
    PROVE  CopiedAll(w, X, raw, tokens, p)
<1>1. PICK n \in Nat : n = Len(raw)
  OBVIOUS
<1>2. PICK u : u = SubSeq(raw, p, n)
  OBVIOUS
<1>p. p \in Nat /\ 1 <= p /\ p <= n + 1
  BY <1>1
<1>3. \A i \in p .. n : raw[i] \in X
  BY <1>1, <1>p
<1>4. /\ u \in Seq(X) /\ Len(u) = IF p <= n THEN n - p + 1 ELSE 0
      /\ \A i \in 1 .. n - p + 1 : u[i] = raw[p + i - 1]
  BY <1>p, <1>2, <1>3, SubSeqProperties
<1>5. Len(u) = n - p + 1
  BY <1>p, <1>4
<1>6. p - 1 \in Nat /\ n - p + 1 \in Nat /\ (p - 1) + (n - p + 1) = n
  BY <1>p
<1>7. /\ w \in Seq(X) /\ Len(w) = n
      /\ \A i \in 1 .. p - 1 : w[i] = tokens[i]
      /\ \A i \in 1 .. n - p + 1 : w[(p - 1) + i] = u[i]
  <2>1. w = tokens \o u
    BY <1>1, <1>2
  <2>0. PICK m \in Nat, k \in Nat : m = p - 1 /\ k = n - p + 1
    BY <1>6
  <2>3. Len(tokens) = m /\ Len(u) = k /\ u \in Seq(X)
    BY <2>0, <1>4, <1>5
  <2>2. Joined(w, tokens, m, u, k, X)
    BY <2>1, <2>3, Concat, Zenon
  <2> QED
    BY <2>0, <2>2, <1>6, Zenon DEF Joined
<1>8. ASSUME NEW i \in 1 .. n PROVE w[i] = IF i < p THEN tokens[i] ELSE raw[i]
  <2>2. CASE i < p
    <3>1. i \in 1 .. p - 1
      BY <2>2, <1>p
    <3> QED
      BY <3>1, <2>2, <1>7, Zenon
  <2>3. CASE ~(i < p)
    <3>0. PICK j : j = i - (p - 1)
      OBVIOUS
    <3>1. j \in 1 .. n - p + 1 /\ p + j - 1 = i /\ (p - 1) + j = i
      BY <3>0, <2>3, <1>p
    <3>2. u[j] = raw[i]
      BY <3>1, <1>4
    <3>3. w[i] = u[j]
      BY <3>1, <1>7
    <3> QED
      BY <3>2, <3>3, <2>3
  <2> QED
    BY <2>2, <2>3
<1> QED
  BY <1>1, <1>7, <1>8 DEF CopiedAll

\* x is the token of raw at i after the first k replacements.
After(raw, s, k, i, x) ==
    \/ \E j \in 1 .. k : s[j].at = i /\ x = New(raw, s[j])
    \/ x = raw[i] /\ \A j \in 1 .. k : s[j].at # i

Ascending(s, n, N) ==
    /\ \A j \in 1 .. n : s[j].at \in 1 .. N
    /\ \A i, j \in 1 .. n : i < j => s[i].at < s[j].at

\* Copying to any of the replacements is total.
CopyRound(w, X, raw, v, r) ==
    /\ w \in [tokens : Seq(X), position : Nat \ {0}]
    /\ w.tokens = v.tokens \o SubSeq(raw, v.position, r.at - 1) \o <<New(raw, r)>>
    /\ w.position = r.at + 1

\* A round of the copy appends the tokens before a replacement and its value.
LEMMA CopyToType ==
    ASSUME NEW X, NEW raw \in Seq(X), NEW r, r.at \in 1 .. Len(raw), New(raw, r) \in X,
           NEW v \in [tokens : Seq(X), position : Nat \ {0}]
    PROVE  CopyRound(CopyTo(raw, v, r), X, raw, v, r)
<1>1. PICK a \in Nat, p \in Nat, t \in Seq(X), y \in X :
        a = r.at /\ p = v.position /\ t = v.tokens /\ y = New(raw, r) /\ 1 <= p /\ 1 <= a /\ a <= Len(raw)
  <2>1. v.tokens \in Seq(X) /\ v.position \in Nat /\ v.position # 0
    OBVIOUS
  <2>2. PICK p \in Nat : p = v.position /\ p # 0
    BY <2>1
  <2>3. 1 <= p
    BY <2>2
  <2>4. PICK a : a = r.at
    OBVIOUS
  <2>5. a \in Nat /\ 1 <= a /\ a <= Len(raw)
    BY <2>4
  <2> QED
    BY <2>1, <2>2, <2>3, <2>4, <2>5
<1>2. Replaced(raw, r)[r.at] = y
  BY <1>1, ReplacedAt
<1>3. CopyTo(raw, v, r) = [tokens |-> t \o SubSeq(raw, p, a - 1) \o <<y>>, position |-> a + 1]
  BY <1>1, <1>2, Zenon DEF CopyTo
<1>4. SubSeq(raw, p, a - 1) \in Seq(X)
  <2>1. \A i \in p .. a - 1 : raw[i] \in X
    BY <1>1
  <2>2. p \in Int /\ a - 1 \in Int
    BY <1>1
  <2> QED
    BY <2>1, <2>2, SubSeqProperties, Zenon
<1>5. PICK z : z = t \o SubSeq(raw, p, a - 1) \o <<y>>
  OBVIOUS
<1>6. z \in Seq(X)
  BY <1>4, <1>5
<1>7. a + 1 \in Nat \ {0}
  BY <1>1
<1>8. CopyTo(raw, v, r) = [tokens |-> z, position |-> a + 1]
  BY <1>3, <1>5, Zenon
<1>9. CopyTo(raw, v, r) \in [tokens : Seq(X), position : Nat \ {0}]
  BY <1>6, <1>7, <1>8
<1>10. CopyTo(raw, v, r).tokens = z /\ CopyTo(raw, v, r).position = a + 1
  BY <1>8
<1> QED
  BY <1>1, <1>5, <1>9, <1>10, Zenon DEF CopyRound

\* The state after k rounds: the tokens before position, each in its place
CopyOK(v, raw, s, k, X) ==
    /\ v \in [tokens : Seq(X), position : Nat \ {0}]
    /\ v.position = IF k = 0 THEN 1 ELSE s[k].at + 1
    /\ v.position <= Len(raw) + 1
    /\ Len(v.tokens) = v.position - 1
    /\ \A i \in 1 .. v.position - 1 : After(raw, s, k, i, v.tokens[i])

\* One more replacement copied keeps token i in its place.
LEMMA CopyStep ==
    ASSUME NEW X, NEW raw \in Seq(X), NEW n \in Nat, NEW s, Ascending(s, n, Len(raw)),
           NEW k \in 1 .. n, New(raw, s[k]) \in X, NEW v, CopyOK(v, raw, s, k - 1, X)
    PROVE  CopyOK(CopyTo(raw, v, s[k]), raw, s, k, X)
<1>1. PICK w : w = CopyTo(raw, v, s[k])
  OBVIOUS
<1>2. PICK a \in Nat, p \in Nat, t \in Seq(X), y \in X :
        /\ a = s[k].at /\ p = v.position /\ t = v.tokens /\ y = New(raw, s[k])
        /\ 1 <= p /\ 1 <= a /\ a <= Len(raw) /\ Len(t) = p - 1
  <2>1. v.tokens \in Seq(X) /\ v.position \in Nat /\ v.position # 0 /\ Len(v.tokens) = v.position - 1
    BY DEF CopyOK
  <2>2. PICK p \in Nat : p = v.position /\ p # 0
    BY <2>1
  <2>3. 1 <= p
    BY <2>2
  <2>4. PICK a : a = s[k].at
    OBVIOUS
  <2>5. a \in Nat /\ 1 <= a /\ a <= Len(raw)
    BY <2>4 DEF Ascending
  <2> QED
    BY <2>1, <2>2, <2>3, <2>4, <2>5
<1>3. /\ w \in [tokens : Seq(X), position : Nat \ {0}]
      /\ w.tokens = t \o SubSeq(raw, p, a - 1) \o <<y>>
      /\ w.position = a + 1
  <2>1. s[k].at \in 1 .. Len(raw)
    BY DEF Ascending
  <2>2. v \in [tokens : Seq(X), position : Nat \ {0}]
    BY DEF CopyOK
  <2>3. CopyRound(w, X, raw, v, s[k])
    BY <1>1, <2>1, <2>2, CopyToType, Zenon
  <2> QED
    BY <1>2, <2>3, Zenon DEF CopyRound
<1>4. p <= a /\ \A j \in 1 .. k - 1 : s[j].at < p
  <2>1. CASE k = 1
    <3>1. p = 1 /\ 1 .. k - 1 = {}
      BY <2>1, <1>2 DEF CopyOK
    <3> QED
      BY <3>1, <1>2
  <2>2. CASE k # 1
    <3>1. k - 1 \in 1 .. n /\ k - 1 < k /\ k - 1 # 0
      BY <2>2
    <3>2. PICK b : b = s[k - 1].at
      OBVIOUS
    <3>3. b \in Nat /\ b < a
      BY <3>1, <3>2, <1>2 DEF Ascending
    <3>4. p = b + 1
      BY <3>1, <3>2, <1>2 DEF CopyOK
    <3>5. ASSUME NEW j \in 1 .. k - 1 PROVE s[j].at < p
      <4>1. PICK c : c = s[j].at
        OBVIOUS
      <4>2. j \in 1 .. n /\ (j = k - 1 \/ j < k - 1)
        BY <3>1
      <4>3. c \in Nat
        BY <4>1, <4>2 DEF Ascending
      <4>4. c = b \/ c < b
        BY <4>1, <4>2, <3>1, <3>2 DEF Ascending
      <4> QED
        BY <4>1, <4>3, <4>4, <3>3, <3>4
    <3> QED
      BY <3>3, <3>4, <3>5, <1>2
  <2> QED
    BY <2>1, <2>2
<1>5. p \in 1 .. Len(raw) /\ a \in p .. Len(raw)
  BY <1>2, <1>4
<1>6. PICK z : z = w.tokens
  OBVIOUS
<1>7. /\ z \in Seq(X) /\ Len(z) = a /\ z[a] = y
      /\ \A i \in 1 .. a - 1 : z[i] = IF i < p THEN t[i] ELSE raw[i]
  <2>1. z = t \o SubSeq(raw, p, a - 1) \o <<y>> /\ Len(t) = p - 1
    BY <1>2, <1>3, <1>6, Zenon
  <2>2. CopiedTo(z, X, raw, t, p, a, y)
    BY <2>1, <1>5, CopiedOn, Zenon
  <2> QED
    BY <2>2 DEF CopiedTo
<1>8. ASSUME NEW i \in 1 .. a PROVE After(raw, s, k, i, z[i])
  <2>1. CASE i = a
    <3>1. k \in 1 .. k /\ s[k].at = i /\ z[i] = New(raw, s[k])
      BY <2>1, <1>2, <1>7
    <3> QED
      BY <3>1 DEF After
  <2>2. CASE i < p
    <3>1. i \in 1 .. a - 1 /\ i \in 1 .. p - 1
      BY <2>2, <1>5
    <3>2. z[i] = t[i]
      BY <3>1, <2>2, <1>7
    <3>3. After(raw, s, k - 1, i, t[i])
      BY <3>1, <1>2 DEF CopyOK
    <3>4. s[k].at # i
      BY <2>2, <1>2, <1>4
    <3>5. \A j \in 1 .. k : j = k \/ j \in 1 .. k - 1
      OBVIOUS
    <3>6. \A j \in 1 .. k - 1 : j \in 1 .. k
      OBVIOUS
    <3> QED
      BY <3>2, <3>3, <3>4, <3>5, <3>6, Zenon DEF After
  <2>3. CASE i # a /\ ~(i < p)
    <3>1. i \in 1 .. a - 1 /\ i < a /\ p <= i
      BY <2>3, <1>5
    <3>2. z[i] = raw[i]
      BY <3>1, <2>3, <1>7
    <3>3. ASSUME NEW j \in 1 .. k PROVE s[j].at # i
      <4>1. PICK c : c = s[j].at
        OBVIOUS
      <4>2. j = k \/ j \in 1 .. k - 1
        OBVIOUS
      <4>3. c = a \/ c < p
        BY <4>1, <4>2, <1>2, <1>4
      <4>4. c \in Nat
        <5>1. j \in 1 .. n
          OBVIOUS
        <5> QED
          BY <5>1, <4>1 DEF Ascending
      <4>5. c # i
        BY <4>3, <4>4, <3>1, <1>2
      <4> QED
        BY <4>1, <4>5
    <3> QED
      BY <3>2, <3>3 DEF After
  <2> QED
    BY <2>1, <2>2, <2>3
<1>9. k # 0 /\ a + 1 <= Len(raw) + 1 /\ (a + 1) - 1 = a
  BY <1>2
<1> QED
  BY <1>1, <1>2, <1>3, <1>6, <1>7, <1>8, <1>9 DEF CopyOK

\* The document with the replacements, in the order of their spans
Patched(w, raw, s, n) ==
    /\ Len(w) = Len(raw) /\ DOMAIN w = 1 .. Len(raw)
    /\ \A i \in 1 .. Len(raw) : After(raw, s, n, i, w[i])

\* Splicing replaces the tokens of the spans and keeps every other in its place.
LEMMA SplicedTokens ==
    ASSUME NEW T, NEW raw \in Seq(T), NEW n \in Nat, NEW s, Len(s) = n, Ascending(s, n, Len(raw)),
           NEW w, w = Spliced(raw, s)
    PROVE  Patched(w, raw, s, n)
<1> DEFINE first == [tokens |-> <<>>, position |-> 1]
           Rec(g) == [k \in 0 .. Len(s) |-> IF k = 0 THEN first ELSE CopyTo(raw, g[k - 1], s[k])]
<1>1. PICK X : X = T \union {New(raw, s[j]) : j \in 1 .. n}
  OBVIOUS
<1>2. raw \in Seq(X) /\ \A j \in 1 .. n : New(raw, s[j]) \in X
  <2>1. Len(raw) \in Nat /\ raw \in [1 .. Len(raw) -> T]
    OBVIOUS
  <2>2. \A i \in 1 .. Len(raw) : raw[i] \in X
    BY <2>1, <1>1
  <2> QED
    BY <2>1, <2>2, <1>1
<1>3. PICK V : V = [tokens : Seq(X), position : Nat \ {0}]
  OBVIOUS
<1>4. first \in V
  BY <1>3
<1>5. PICK body : body = [k \in 1 .. n |-> [v \in V |-> CopyTo(raw, v, s[k])]]
  OBVIOUS
<1>6. ASSUME NEW k \in 1 .. n, NEW v \in V PROVE CopyTo(raw, v, s[k]) \in V
  <2>1. s[k].at \in 1 .. Len(raw) /\ New(raw, s[k]) \in X
    BY <1>2 DEF Ascending
  <2>2. CopyRound(CopyTo(raw, v, s[k]), X, raw, v, s[k])
    BY <2>1, <1>2, <1>3, CopyToType, Zenon
  <2> QED
    BY <2>2, <1>3, Zenon DEF CopyRound
<1>7. body \in [1 .. n -> [V -> V]]
  <2>1. ASSUME NEW k \in 1 .. n PROVE [v \in V |-> CopyTo(raw, v, s[k])] \in [V -> V]
    BY <1>6, Zenon
  <2> QED
    BY <1>5, <2>1, Zenon
<1> HIDE DEF first
<1>8. PICK g \in [0 .. n -> V] : Steps(g, first, body, n)
  BY <1>4, <1>7, RoundsExist
<1>9. g = Rec(g)
  <2>1. ASSUME NEW k \in 0 .. n, k # 0 PROVE g[k] = CopyTo(raw, g[k - 1], s[k])
    <3>1. k \in 1 .. n /\ k - 1 \in 0 .. n
      BY <2>1
    <3>2. g[k - 1] \in V /\ body[k] = [v \in V |-> CopyTo(raw, v, s[k])]
      BY <1>5, <3>1, Zenon
    <3>3. g[k] = body[k][g[k - 1]]
      BY <1>8, <3>1 DEF Steps
    <3> QED
      BY <3>2, <3>3, Zenon
  <2>2. g[0] = first
    BY <1>8 DEF Steps
  <2>3. ASSUME NEW k \in 0 .. n PROVE g[k] = IF k = 0 THEN first ELSE CopyTo(raw, g[k - 1], s[k])
    BY <2>1, <2>2, Zenon
  <2>4. g = [k \in 0 .. n |-> g[k]]
    OBVIOUS
  <2> QED
    BY <2>3, <2>4, Zenon
<1>10. PICK f : f = CHOOSE h : h = Rec(h)
  OBVIOUS
<1>11. f = Rec(f)
  BY <1>9, <1>10, Zenon
<1>12. f[0] = first /\ \A k \in 1 .. n : f[k] = CopyTo(raw, f[k - 1], s[k])
  <2>1. ASSUME NEW k \in 0 .. n PROVE f[k] = IF k = 0 THEN first ELSE CopyTo(raw, f[k - 1], s[k])
    BY <1>11, Zenon
  <2>2. 0 \in 0 .. n /\ \A k \in 1 .. n : k \in 0 .. n /\ k # 0
    OBVIOUS
  <2>3. f[0] = first
    BY <2>1, <2>2, Zenon
  <2> QED
    BY <2>1, <2>2, <2>3, Zenon
<1>13. PICK S : S = {k \in 0 .. n : CopyOK(f[k], raw, s, k, X)}
  OBVIOUS
<1>14. 0 \in S
  <2>1. first \in [tokens : Seq(X), position : Nat \ {0}] /\ first.position = 1 /\ Len(first.tokens) = 0
    BY DEF first
  <2>2. 1 <= Len(raw) + 1 /\ 1 .. 1 - 1 = {} /\ 0 = 1 - 1 /\ 0 \in 0 .. n
    OBVIOUS
  <2>3. CopyOK(first, raw, s, 0, X)
    BY <2>1, <2>2 DEF CopyOK
  <2> QED
    BY <2>2, <2>3, <1>12, <1>13, Zenon
<1>15. ASSUME NEW k \in 1 .. n, k - 1 \in S PROVE k \in S
  <2>1. CopyOK(f[k - 1], raw, s, k - 1, X) /\ New(raw, s[k]) \in X
    BY <1>2, <1>13, <1>15, Zenon
  <2>2. CopyOK(CopyTo(raw, f[k - 1], s[k]), raw, s, k, X)
    BY <2>1, <1>2, CopyStep, Zenon
  <2>3. k \in 0 .. n
    OBVIOUS
  <2> QED
    BY <2>2, <2>3, <1>12, <1>13, Zenon
<1>16. n \in S
  <2>1. \A k \in 0 .. n : k \in S
    BY <1>14, <1>15, EveryRound
  <2> QED
    BY <2>1
<1>17. PICK last : last = f[n]
  OBVIOUS
<1>18. CopyOK(last, raw, s, n, X)
  BY <1>13, <1>16, <1>17
<1>19. w = last.tokens \o SubSeq(raw, last.position, Len(raw))
  BY <1>10, <1>17 DEF Spliced, Loop, LoopStates, first
<1>20. PICK t, p : t = last.tokens /\ p = last.position
  OBVIOUS
<1>21. /\ t \in Seq(X) /\ p \in 1 .. Len(raw) + 1 /\ Len(t) = p - 1
       /\ \A i \in 1 .. p - 1 : After(raw, s, n, i, t[i])
  BY <1>18, <1>20 DEF CopyOK
<1>22. CopiedAll(w, X, raw, t, p)
  <2>1. w = t \o SubSeq(raw, p, Len(raw))
    BY <1>19, <1>20, Zenon
  <2> QED
    BY <1>2, <1>21, <2>1, CopiedRest, Zenon
<1>23. ASSUME NEW i \in 1 .. Len(raw) PROVE After(raw, s, n, i, w[i])
  <2>1. CASE i < p
    <3>1. i \in 1 .. p - 1 /\ w[i] = t[i]
      BY <2>1, <1>21, <1>22 DEF CopiedAll
    <3> QED
      BY <3>1, <1>21, Zenon
  <2>2. CASE ~(i < p)
    <3>1. w[i] = raw[i]
      BY <2>2, <1>21, <1>22 DEF CopiedAll
    <3>2. ASSUME NEW j \in 1 .. n PROVE s[j].at # i
      <4>1. n \in Nat /\ 1 <= n /\ n # 0 /\ n \in 1 .. n
        OBVIOUS
      <4>2. PICK b, c : b = s[n].at /\ c = s[j].at
        OBVIOUS
      <4>3. b \in Nat /\ c \in Nat /\ (j = n \/ j < n)
        BY <4>1, <4>2 DEF Ascending
      <4>4. c = b \/ c < b
        BY <4>1, <4>2, <4>3 DEF Ascending
      <4>5. p = b + 1
        BY <4>1, <4>2, <1>18, <1>20 DEF CopyOK
      <4>6. c # i
        BY <4>3, <4>4, <4>5, <2>2
      <4> QED
        BY <4>2, <4>6
    <3> QED
      BY <3>1, <3>2 DEF After
  <2> QED
    BY <2>1, <2>2
<1>24. w \in Seq(X) /\ Len(w) = Len(raw)
  BY <1>22 DEF CopiedAll
<1>25. DOMAIN w = 1 .. Len(raw)
  BY <1>24
<1> QED
  BY <1>23, <1>24, <1>25 DEF Patched

-----------------------------------------------------------------------------
(* rtkreducer: the fields of a binding and their reductions                 *)

\* A walk meets a set of positions first somewhere, or never.
LEMMA FirstExists ==
    ASSUME NEW N \in Nat, NEW Q
    PROVE  \E i \in 1 .. N + 1 : (i <= N => i \in Q) /\ \A j \in 1 .. i - 1 : j \notin Q
<1>1. PICK S : S = {m \in Nat : \E i \in 1 .. m + 1 : (i <= m => i \in Q) /\ \A j \in 1 .. i - 1 : j \notin Q}
  OBVIOUS
<1>2. 0 \in S
  <2>1. 1 \in 1 .. 0 + 1 /\ ~(1 <= 0) /\ 1 .. 1 - 1 = {}
    OBVIOUS
  <2> QED
    BY <1>1, <2>1
<1>3. ASSUME NEW m \in Nat, m \in S PROVE m + 1 \in S
  <2>1. PICK i \in 1 .. m + 1 : (i <= m => i \in Q) /\ \A j \in 1 .. i - 1 : j \notin Q
    BY <1>1, <1>3
  <2>2. CASE i \in Q
    <3>1. i \in 1 .. (m + 1) + 1 /\ m + 1 \in Nat
      OBVIOUS
    <3> QED
      BY <1>1, <2>1, <2>2, <3>1
  <2>3. CASE i \notin Q
    <3>1. i = m + 1
      BY <2>1, <2>3
    <3>2. ASSUME NEW j \in 1 .. (m + 2) - 1 PROVE j \notin Q
      <4>1. j = i \/ j \in 1 .. i - 1
        BY <3>1
      <4> QED
        BY <4>1, <2>1, <2>3
    <3>3. m + 2 \in 1 .. (m + 1) + 1 /\ ~(m + 2 <= m + 1) /\ m + 1 \in Nat
      OBVIOUS
    <3> QED
      BY <3>2, <3>3, <1>1
  <2> QED
    BY <2>2, <2>3
<1>4. N \in S
  BY <1>2, <1>3, EveryNatural
<1> QED
  BY <1>1, <1>4

\* The span of a field is a value of that name.
LEMMA SpanIsField ==
    ASSUME NEW doc, Len(doc) \in Nat, NEW name
    PROVE  /\ Span(doc, name) \in 1 .. Len(doc) + 1
           /\ Span(doc, name) <= Len(doc) => IsField(doc, Span(doc, name), name)
<1>1. PICK Q : Q = {i \in 1 .. Len(doc) + 1 : IsField(doc, i, name)}
  OBVIOUS
<1>2. PICK i \in 1 .. Len(doc) + 1 : (i <= Len(doc) => i \in Q) /\ \A j \in 1 .. i - 1 : j \notin Q
  BY FirstExists
<1>3. i <= Len(doc) => IsField(doc, i, name)
  BY <1>1, <1>2, Zenon
<1>4. ASSUME NEW j \in 1 .. i - 1 PROVE ~IsField(doc, j, name)
  <2>1. j \in 1 .. Len(doc) + 1
    BY <1>2
  <2> QED
    BY <2>1, <1>1, <1>2, Zenon
<1>5. Span(doc, name) = CHOOSE x \in 1 .. Len(doc) + 1 :
          (x <= Len(doc) => IsField(doc, x, name)) /\ \A j \in 1 .. x - 1 : ~IsField(doc, j, name)
  BY Zenon DEF Span, FirstAt
<1> QED
  BY <1>2, <1>3, <1>4, <1>5, Zenon

\* The size of a token is a number.
LEMMA TokenFacts ==
    ASSUME NEW t \in Tokens
    PROVE  t.value.encoded \in Nat /\ TokenSize(t) \in Nat
<1>1. t.value \in Strings
  BY DEF Tokens
<1>2. t.value.encoded \in Nat
  BY <1>1 DEF Strings
<1> QED
  BY <1>2 DEF TokenSize

\* Replacing the value of a token keeps what else it says.
LEMMA NewToken ==
    ASSUME NEW t \in Tokens, NEW v, NEW n, n = [t EXCEPT !.value = v]
    PROVE  /\ n.role = t.role /\ n.name = t.name /\ n.depth = t.depth /\ n.owner = t.owner
           /\ n.value = v
<1>1. DOMAIN t = {"role", "depth", "owner", "name", "value"}
  BY DEF Tokens
<1> QED
  BY <1>1

\* The encoded size of a marked text is a number.
LEMMA MarkedEncoding ==
    ASSUME NEW text, NEW reduced \in ReduceOutputs
    PROVE  Marked(text, reduced).encoded \in Nat
<1>1. MarkerBytes \in Nat /\ reduced.encoded \in Nat
  BY ReduceAssumption
<1>2. Marked(text, reduced).encoded = MarkerBytes + 1 + reduced.encoded
  BY DEF Marked
<1> QED
  BY <1>1, <1>2

\* x takes the place of the text of one of the first m fields of the binding.
RepOK(r, m, x) ==
    \E f \in 1 .. m, reduced \in ReduceOutputs :
        /\ x.at = Span(r.structured, r.fields[f])
        /\ x.value = Marked(r.structured[x.at].value, reduced)
        /\ x.value.encoded < r.structured[x.at].value.encoded

RepsOK(reps, r, m) ==
    /\ \E Y : reps \in Seq(Y)
    /\ \A i \in 1 .. Len(reps) : RepOK(r, m, reps[i])
    /\ \A i, j \in 1 .. Len(reps) : i # j => reps[i].at # reps[j].at

\* A request whose fields can be patched
Patchable(r) ==
    /\ r.structured \in Seq(Tokens) /\ r.fields \in Seq(STRING)
    /\ \A i, j \in 1 .. Len(r.fields) : i # j => r.fields[i] # r.fields[j]
    /\ Scanned(r.structured, Range(r.fields))
    /\ \A f \in 1 .. Len(r.fields) : Span(r.structured, r.fields[f]) <= Len(r.structured)

\* The span of a field is a string of the document, and no other field's.
LEMMA FieldSpan ==
    ASSUME NEW r, Patchable(r), NEW f \in 1 .. Len(r.fields), NEW p, p = Span(r.structured, r.fields[f])
    PROVE  /\ p \in 1 .. Len(r.structured) /\ r.structured[p] \in Tokens
           /\ r.structured[p].role = "string"
           /\ IsField(r.structured, p, r.fields[f]) /\ r.fields[f] \in Range(r.fields)
           /\ \A g \in 1 .. Len(r.fields) : Span(r.structured, r.fields[g]) = p => g = f
<1>1. PICK doc, fields : doc = r.structured /\ fields = r.fields
  OBVIOUS
<1>2. /\ doc \in Seq(Tokens) /\ fields \in Seq(STRING)
      /\ \A i, j \in 1 .. Len(fields) : i # j => fields[i] # fields[j]
      /\ Scanned(doc, Range(fields))
      /\ \A g \in 1 .. Len(fields) : Span(doc, fields[g]) <= Len(doc)
      /\ p = Span(doc, fields[f]) /\ f \in 1 .. Len(fields)
  BY <1>1, Zenon DEF Patchable
<1>3. Len(doc) \in Nat /\ DOMAIN doc = 1 .. Len(doc) /\ DOMAIN fields = 1 .. Len(fields)
  BY <1>2
<1>4. ASSUME NEW g \in 1 .. Len(fields), NEW q, q = Span(doc, fields[g])
      PROVE  q \in 1 .. Len(doc) /\ IsField(doc, q, fields[g])
  <2>1. PICK name : name = fields[g]
    OBVIOUS
  <2>2. q \in 1 .. Len(doc) + 1 /\ q <= Len(doc) /\ IsField(doc, q, name)
    BY <2>1, <1>2, <1>3, <1>4, SpanIsField, Zenon
  <2>3. q \in 1 .. Len(doc)
    BY <2>2, <1>3
  <2> QED
    BY <2>1, <2>2, <2>3
<1>5. p \in 1 .. Len(doc) /\ IsField(doc, p, fields[f])
  BY <1>2, <1>4
<1>6. doc[p] \in Tokens
  BY <1>2, <1>5
<1>7. fields[f] \in Range(fields)
  BY <1>2, <1>3 DEF Range
<1>8. doc[p].role = "string"
  BY <1>2, <1>3, <1>5, <1>7, Zenon DEF Scanned, NodeAdmitted
<1>9. ASSUME NEW g \in 1 .. Len(fields), Span(doc, fields[g]) = p PROVE g = f
  <2>1. IsField(doc, p, fields[g])
    BY <1>4, <1>9
  <2>2. fields[g] = fields[f]
    BY <2>1, <1>5 DEF IsField
  <2> QED
    BY <2>2, <1>2
<1> QED
  BY <1>1, <1>5, <1>6, <1>7, <1>8, <1>9, Zenon

PatchOK(w, r) ==
    /\ Len(w) = Len(r.structured)
    /\ \A i \in DOMAIN r.structured :
          \/ w[i] = r.structured[i]
          \/ /\ \E name \in Range(r.fields) : IsField(r.structured, i, name)
             /\ Reduces(w[i], r.structured[i])
    /\ Length(w) < Length(r.structured) /\ Length(w) \in Nat

\* What patch returns when there is something to replace
LEMMA PatchFaithful ==
    ASSUME NEW r, Patchable(r), NEW reps, RepsOK(reps, r, Len(r.fields)), reps # <<>>,
           NEW w, w = patch(r.structured, reps)
    PROVE  PatchOK(w, r)
<1>1. PICK doc : doc = r.structured
  OBVIOUS
<1>2. PICK N \in Nat : N = Len(doc)
  BY <1>1 DEF Patchable
<1>d. doc \in Seq(Tokens) /\ DOMAIN doc = 1 .. N /\ \A i \in 1 .. N : doc[i] \in Tokens
  <2>1. doc \in Seq(Tokens)
    BY <1>1 DEF Patchable
  <2> QED
    BY <2>1, <1>2
<1>3. PICK n \in Nat : n = Len(reps) /\ n # 0 /\ DOMAIN reps = 1 .. n
                       /\ reps \in [1 .. n -> Range(reps)]
  <2>1. PICK Y : reps \in Seq(Y)
    BY DEF RepsOK
  <2>2. PICK n : n = Len(reps)
    OBVIOUS
  <2>3. n \in Nat /\ reps \in [1 .. n -> Y] /\ n # 0
    BY <2>1, <2>2
  <2>4. reps \in [1 .. n -> Range(reps)]
    BY <2>3 DEF Range
  <2> QED
    BY <2>2, <2>3, <2>4
<1>4. ASSUME NEW x \in Range(reps)
      PROVE  /\ x.at \in 1 .. N /\ doc[x.at] \in Tokens /\ doc[x.at].role = "string"
             /\ \E name \in Range(r.fields) : IsField(doc, x.at, name)
             /\ \E reduced \in ReduceOutputs : x.value = Marked(doc[x.at].value, reduced)
             /\ x.value.encoded < doc[x.at].value.encoded
  <2>1. PICK h \in 1 .. n : x = reps[h]
    BY <1>3 DEF Range
  <2>2. RepOK(r, Len(r.fields), x)
    BY <2>1, <1>3 DEF RepsOK
  <2>3. PICK f \in 1 .. Len(r.fields), reduced \in ReduceOutputs :
          /\ x.at = Span(doc, r.fields[f]) /\ x.value = Marked(doc[x.at].value, reduced)
          /\ x.value.encoded < doc[x.at].value.encoded
    BY <2>2, <1>1, Zenon DEF RepOK
  <2>4. PICK p : p = x.at
    OBVIOUS
  <2>5. /\ p \in 1 .. N /\ doc[p] \in Tokens /\ doc[p].role = "string"
        /\ IsField(doc, p, r.fields[f]) /\ r.fields[f] \in Range(r.fields)
    <3>1. p = Span(r.structured, r.fields[f])
      BY <2>3, <2>4, <1>1, Zenon
    <3>2. /\ p \in 1 .. Len(r.structured) /\ r.structured[p] \in Tokens
          /\ r.structured[p].role = "string"
          /\ IsField(r.structured, p, r.fields[f]) /\ r.fields[f] \in Range(r.fields)
      BY <3>1, FieldSpan
    <3> QED
      BY <3>2, <1>1, <1>2, Zenon
  <2> QED
    BY <2>3, <2>4, <2>5, Zenon
<1>5. \A i \in 1 .. n : reps[i] \in Range(reps)
  BY <1>3, Zenon
<1>6. Placed(reps, N)
  <2>1. \A i \in 1 .. n : reps[i].at \in 1 .. N
    BY <1>4, <1>5, Zenon
  <2>2. \A i, j \in 1 .. n : i # j => reps[i].at # reps[j].at
    BY <1>3, Zenon DEF RepsOK
  <2> QED
    BY <2>1, <2>2, <1>3, Zenon DEF Placed
<1>7. PICK s : s = Sorted(reps)
  OBVIOUS
<1>8. InOrder(s, reps)
  BY <1>6, <1>7, SortedIsInOrder, Zenon
<1>9. /\ s \in [1 .. n -> Range(reps)] /\ Range(s) = Range(reps)
      /\ \A i, j \in 1 .. n : i < j => s[i].at < s[j].at
  BY <1>3, <1>8 DEF InOrder
<1>10. Len(s) = n /\ \A j \in 1 .. n : s[j] \in Range(reps)
  BY <1>9
<1>11. Ascending(s, n, Len(doc))
  <2>1. \A j \in 1 .. n : s[j].at \in 1 .. N
    BY <1>4, <1>10, Zenon
  <2> QED
    BY <2>1, <1>2, <1>9, Zenon DEF Ascending
<1>12. w = Spliced(doc, s)
  BY <1>1, <1>7, Zenon DEF patch
<1>13. /\ Len(w) = N /\ DOMAIN w = 1 .. N
       /\ \A i \in 1 .. N : After(doc, s, n, i, w[i])
  <2>1. Patched(w, doc, s, n)
    BY <1>d, <1>10, <1>11, <1>12, SplicedTokens, Zenon
  <2> QED
    BY <2>1, <1>2, Zenon DEF Patched
<1>14. ASSUME NEW i \in 1 .. N, NEW j \in 1 .. n, s[j].at = i, w[i] = New(doc, s[j])
       PROVE  /\ \E name \in Range(r.fields) : IsField(doc, i, name)
              /\ Reduces(w[i], doc[i])
              /\ TokenSize(w[i]) \in Nat /\ TokenSize(w[i]) < TokenSize(doc[i])
  <2>1. PICK x \in Range(reps) : x = s[j]
    BY <1>10
  <2>2. PICK t, v, u : t \in Tokens /\ t = doc[i] /\ v = x.value /\ u = w[i]
    BY <1>d
  <2>3. /\ t.role = "string" /\ \E name \in Range(r.fields) : IsField(doc, i, name)
        /\ v.encoded < t.value.encoded
    BY <1>4, <1>14, <2>1, <2>2, Zenon
  <2>4. PICK reduced \in ReduceOutputs : v = Marked(t.value, reduced)
    BY <1>4, <1>14, <2>1, <2>2, Zenon
  <2>5. u = [t EXCEPT !.value = v]
    <3>1. u = [doc[x.at] EXCEPT !.value = x.value] /\ x.at = i
      BY <1>14, <2>1, <2>2, Zenon DEF New
    <3> QED
      BY <3>1, <2>2
  <2>6. u.role = t.role /\ u.name = t.name /\ u.depth = t.depth /\ u.owner = t.owner /\ u.value = v
    BY <2>2, <2>5, NewToken
  <2>7. Reduces(u, t)
    BY <2>3, <2>4, <2>6, Zenon DEF Reduces
  <2>8. v.encoded \in Nat
    BY <2>4, MarkedEncoding, Zenon
  <2>9. TokenSize(u) = v.encoded /\ TokenSize(t) = t.value.encoded
    BY <2>3, <2>6, Zenon DEF TokenSize
  <2>10. TokenSize(u) \in Nat /\ TokenSize(u) < TokenSize(t)
    BY <2>3, <2>8, <2>9, Zenon
  <2> QED
    BY <2>2, <2>3, <2>7, <2>10, Zenon
<1>15. ASSUME NEW i \in 1 .. N
       PROVE  /\ \/ w[i] = doc[i]
                 \/ (\E name \in Range(r.fields) : IsField(doc, i, name)) /\ Reduces(w[i], doc[i])
              /\ TokenSize(w[i]) \in Nat /\ TokenSize(doc[i]) \in Nat
              /\ TokenSize(w[i]) <= TokenSize(doc[i])
  <2>1. TokenSize(doc[i]) \in Nat
    BY <1>d, TokenFacts, Zenon
  <2>2. CASE \E j \in 1 .. n : s[j].at = i /\ w[i] = New(doc, s[j])
    <3>1. /\ (\E name \in Range(r.fields) : IsField(doc, i, name)) /\ Reduces(w[i], doc[i])
          /\ TokenSize(w[i]) \in Nat /\ TokenSize(w[i]) < TokenSize(doc[i])
      BY <2>2, <1>14, Zenon
    <3>2. PICK a, b : a = TokenSize(w[i]) /\ b = TokenSize(doc[i])
      OBVIOUS
    <3>3. a <= b
      BY <3>1, <3>2, <2>1
    <3> QED
      BY <3>1, <3>2, <3>3, <2>1, Zenon
  <2>3. CASE w[i] = doc[i]
    <3>1. PICK b : b = TokenSize(doc[i])
      OBVIOUS
    <3>2. b <= b
      BY <3>1, <2>1
    <3> QED
      BY <3>1, <3>2, <2>1, <2>3, Zenon
  <2> QED
    BY <2>2, <2>3, <1>13, Zenon DEF After
<1>16. PICK a, b : a = [i \in 1 .. N |-> TokenSize(w[i])] /\ b = [i \in 1 .. N |-> TokenSize(doc[i])]
  OBVIOUS
<1>17. /\ a \in [1 .. N -> Nat] /\ b \in [1 .. N -> Nat]
       /\ \A i \in 1 .. N : a[i] = TokenSize(w[i]) /\ b[i] = TokenSize(doc[i])
  BY <1>15, <1>16, Zenon
<1>18. a \in Seq(Nat) /\ b \in Seq(Nat) /\ Len(a) = N /\ Len(b) = N
  BY <1>17
<1>19. PICK k \in 1 .. N : TokenSize(w[k]) < TokenSize(doc[k])
  <2>1. 1 \in 1 .. n
    BY <1>3
  <2>2. PICK i \in 1 .. N : i = s[1].at
    BY <2>1, <1>4, <1>10, Zenon
  <2>3. PICK j \in 1 .. n : s[j].at = i /\ w[i] = New(doc, s[j])
    BY <2>1, <2>2, <1>13, Zenon DEF After
  <2> QED
    BY <2>3, <1>14, Zenon
<1>20. Total(a) < Total(b)
  <2>1. a[k] < b[k] /\ \A i \in 1 .. N : a[i] <= b[i]
    BY <1>15, <1>17, <1>19, Zenon
  <2> QED
    BY <1>18, <1>19, <2>1, TotalSmaller, Zenon
<1>22. Total(a) \in Nat
  <2>1. Totals(a) \in [0 .. N -> Nat] /\ N \in 0 .. N
    BY <1>18, TotalsTable
  <2> QED
    BY <2>1, <1>18 DEF Total
<1>21. Length(w) = Total(a) /\ Length(doc) = Total(b)
  BY <1>d, <1>13, <1>16, Zenon DEF Length
<1> QED
  BY <1>1, <1>2, <1>d, <1>13, <1>15, <1>20, <1>21, <1>22, Zenon DEF PatchOK

\* Replacements for the first m fields are replacements for the first m + 1.
LEMMA RepsKeep ==
    ASSUME NEW r, NEW m \in Nat, NEW reps, RepsOK(reps, r, m)
    PROVE  RepsOK(reps, r, m + 1)
<1>1. \A f \in 1 .. m : f \in 1 .. m + 1
  OBVIOUS
<1>2. ASSUME NEW x, RepOK(r, m, x) PROVE RepOK(r, m + 1, x)
  BY <1>1, <1>2, Zenon DEF RepOK
<1> QED
  BY <1>2, Zenon DEF RepsOK

\* One more field: its span is none of those before it.
LEMMA RepsGrow ==
    ASSUME NEW r, Patchable(r), NEW f \in 1 .. Len(r.fields), NEW reps, RepsOK(reps, r, f - 1),
           NEW reduced \in ReduceOutputs, NEW p, p = Span(r.structured, r.fields[f]),
           NEW v, v = Marked(r.structured[p].value, reduced),
           ~(v.encoded >= r.structured[p].value.encoded),
           NEW x, x = [at |-> p, value |-> v]
    PROVE  RepsOK(Append(reps, x), r, f)
<1>1. PICK Y : reps \in Seq(Y)
  BY DEF RepsOK
<1>2. PICK n \in Nat : n = Len(reps)
  BY <1>1
<1>3. PICK z : z = Append(reps, x)
  OBVIOUS
<1>4. /\ z \in Seq(Y \union {x}) /\ Len(z) = n + 1 /\ z[n + 1] = x
      /\ \A i \in 1 .. n : z[i] = reps[i]
  <2>1. PICK Z : Z = Y \union {x}
    OBVIOUS
  <2>2. reps \in Seq(Z) /\ x \in Z
    <3>1. Len(reps) \in Nat /\ reps \in [1 .. Len(reps) -> Y]
      BY <1>1
    <3>2. \A i \in 1 .. Len(reps) : reps[i] \in Z
      BY <3>1, <2>1
    <3>3. reps = [i \in 1 .. Len(reps) |-> reps[i]]
      BY <3>1
    <3>4. reps \in [1 .. Len(reps) -> Z]
      BY <3>2, <3>3, Zenon
    <3>5. PICK k \in Nat : k = Len(reps)
      BY <3>1
    <3>6. reps \in [1 .. k -> Z]
      BY <3>4, <3>5
    <3>7. reps \in Seq(Z)
      BY <3>6
    <3> QED
      BY <3>7, <2>1
  <2>3. z \in Seq(Z) /\ Len(z) = n + 1 /\ z[n + 1] = x
    BY <2>2, <1>2, <1>3
  <2>4. ASSUME NEW i \in 1 .. n PROVE z[i] = reps[i]
    BY <2>2, <1>2, <1>3
  <2> QED
    BY <2>1, <2>3, <2>4, Zenon
<1>5. f \in 1 .. f /\ f - 1 \in Nat /\ (f - 1) + 1 = f /\ f \in Nat
      /\ \A g \in 1 .. f - 1 : g \in 1 .. f /\ g \in 1 .. Len(r.fields) /\ g # f
  BY DEF Patchable
<1>6. x.at = p /\ x.value = v
  OBVIOUS
<1>7. v.encoded < r.structured[p].value.encoded
  <2>1. PICK t \in Tokens : t = r.structured[p]
    BY FieldSpan
  <2>2. v.encoded \in Nat /\ t.value.encoded \in Nat
    BY TokenFacts, MarkedEncoding
  <2>3. PICK a \in Nat, b \in Nat : a = v.encoded /\ b = t.value.encoded
    BY <2>2
  <2>4. ~(a >= b)
    BY <2>1, <2>3, Zenon
  <2>5. a < b
    BY <2>4
  <2> QED
    BY <2>1, <2>3, <2>5, Zenon
<1>8. RepOK(r, f, x)
  BY <1>5, <1>6, <1>7, Zenon DEF RepOK
<1>9. ASSUME NEW i \in 1 .. n PROVE RepOK(r, f, z[i]) /\ z[i].at # p
  <2>1. PICK y : y = z[i]
    OBVIOUS
  <2>2. RepOK(r, f - 1, y)
    BY <2>1, <1>2, <1>4, Zenon DEF RepsOK
  <2>3. PICK g \in 1 .. f - 1, red \in ReduceOutputs :
          /\ y.at = Span(r.structured, r.fields[g])
          /\ y.value = Marked(r.structured[y.at].value, red)
          /\ y.value.encoded < r.structured[y.at].value.encoded
    BY <2>2, Zenon DEF RepOK
  <2>4. RepOK(r, f, y)
    BY <2>3, <1>5, Zenon DEF RepOK
  <2>5. \A h \in 1 .. Len(r.fields) : Span(r.structured, r.fields[h]) = p => h = f
    BY FieldSpan
  <2>6. y.at # p
    BY <2>3, <2>5, <1>5, Zenon
  <2> QED
    BY <2>1, <2>4, <2>6, Zenon
<1>10. \A i \in 1 .. n + 1 : i = n + 1 \/ i \in 1 .. n
  OBVIOUS
<1>11. \A i \in 1 .. n + 1 : RepOK(r, f, z[i])
  BY <1>4, <1>8, <1>9, <1>10, Zenon
<1>12. ASSUME NEW i \in 1 .. n + 1, NEW j \in 1 .. n + 1, i # j PROVE z[i].at # z[j].at
  <2>1. CASE i \in 1 .. n /\ j \in 1 .. n
    <3>1. reps[i].at # reps[j].at
      BY <2>1, <1>2, <1>12, Zenon DEF RepsOK
    <3> QED
      BY <2>1, <3>1, <1>4, Zenon
  <2>2. CASE i = n + 1 /\ j \in 1 .. n
    BY <2>2, <1>4, <1>6, <1>9, Zenon
  <2>3. CASE j = n + 1 /\ i \in 1 .. n
    BY <2>3, <1>4, <1>6, <1>9, Zenon
  <2> QED
    BY <2>1, <2>2, <2>3, <1>10, <1>12, Zenon
<1>13. RepsOK(z, r, f)
  <2>1. \E W : z \in Seq(W)
    BY <1>4, Zenon
  <2> QED
    BY <2>1, <1>4, <1>11, <1>12, Zenon DEF RepsOK
<1> QED
  BY <1>3, <1>13, Zenon

-----------------------------------------------------------------------------
(* rtkreducer: the stage                                                    *)

\* The result as ReductionIsFaithful wants it
FaithfulResult(d) ==
    IF ~d.changed
      THEN d.structured = d.request.structured /\ d.output = d.request.output
      ELSE \/ /\ d.request.mode = "text" /\ d.structured = <<>>
              /\ \E reduced \in ReduceOutputs : d.output = Marked(d.request.output, reduced)
              /\ d.output.size < d.request.output.size /\ d.output.size <= ReduceLimit.result
           \/ /\ d.request.mode = "json"
              /\ d.output = d.structured /\ PatchOK(d.structured, d.request)
              /\ 2 * Length(d.structured) <= ReduceLimit.result

\* The result is untouched until the stage ends, and what is to be patched
\* into it are shorter strings for different fields, all already looked at.
ReductionOK(d) ==
    /\ d = [pc |-> d.pc, request |-> d.request, at |-> d.at, replacements |-> d.replacements,
            structured |-> d.structured, output |-> d.output, changed |-> d.changed]
    /\ d.pc \in {"enter", "acquire", "text", "json"} =>
          /\ d.request \in ReduceRequests /\ d.changed = FALSE
          /\ d.structured = d.request.structured /\ d.output = d.request.output
    /\ d.pc = "acquire" => d.request.mode # "none"
    /\ d.pc \in {"enter", "acquire"} => d.replacements = <<>>
    /\ d.pc \in {"text", "json"} => Transformable(d.request) /\ d.request.mode = d.pc
    /\ d.pc = "json" => /\ d.at \in 1 .. Len(d.request.fields) + 1
                        /\ RepsOK(d.replacements, d.request, d.at - 1)
    /\ d.pc = "result" => FaithfulResult(d)

\* A request that passed the checks of transformJSON has what patching it needs.
LEMMA TransformableIsPatchable ==
    ASSUME NEW r \in ReduceRequests, r.mode = "json", Transformable(r)
    PROVE  Patchable(r)
<1>1. /\ r.structured \in Seq(Tokens) /\ r.fields \in Seq(STRING)
      /\ \A i, j \in DOMAIN r.fields : i # j => r.fields[i] # r.fields[j]
  BY ReduceAssumption, Zenon
<1>2. DOMAIN r.fields = 1 .. Len(r.fields)
  BY <1>1
<1>3. r.mode # "text"
  OBVIOUS
<1>4. /\ Scanned(r.structured, Range(r.fields))
      /\ \A i \in DOMAIN r.fields : Span(r.structured, r.fields[i]) <= Len(r.structured)
  BY <1>3, Zenon DEF Transformable
<1> QED
  BY <1>1, <1>2, <1>4, Zenon DEF Patchable

\* A result that is given back as it came
LEMMA OriginalIsFaithful ==
    ASSUME NEW d, ReductionOK(d), d.pc \in {"enter", "acquire", "text", "json"},
           NEW e, e = [d EXCEPT !.pc = "result"]
    PROVE  ReductionOK(e)
<1>1. d = [pc |-> d.pc, request |-> d.request, at |-> d.at, replacements |-> d.replacements,
           structured |-> d.structured, output |-> d.output, changed |-> d.changed]
  BY Zenon DEF ReductionOK
<1>2. e = [pc |-> "result", request |-> d.request, at |-> d.at, replacements |-> d.replacements,
           structured |-> d.structured, output |-> d.output, changed |-> d.changed]
  BY <1>1
<1>3. e.pc = "result" /\ e.request = d.request /\ e.structured = d.structured
      /\ e.output = d.output /\ e.changed = d.changed /\ e.at = d.at /\ e.replacements = d.replacements
  BY <1>2
<1>4. d.changed = FALSE /\ d.structured = d.request.structured /\ d.output = d.request.output
  BY Zenon DEF ReductionOK
<1>5. FaithfulResult(e)
  BY <1>3, <1>4, Zenon DEF FaithfulResult
<1>6. e.pc \notin {"enter", "acquire", "text", "json"} /\ e.pc \notin {"text", "json"} /\ e.pc # "json" /\ e.pc \notin {"enter", "acquire"}
  BY <1>3
<1> QED
  BY <1>2, <1>3, <1>5, <1>6, Zenon DEF ReductionOK

\* A state that is neither under way nor a result says nothing.
LEMMA IdleIsFaithful ==
    ASSUME NEW e, NEW pc \in {"idle", "done"}, e = [ReductionIdle EXCEPT !.pc = pc]
    PROVE  ReductionOK(e)
<1>1. e = [pc |-> pc, request |-> <<>>, at |-> 0, replacements |-> <<>>,
           structured |-> <<>>, output |-> <<>>, changed |-> FALSE]
  BY DEF ReductionIdle
<1>2. e.pc = pc /\ e.request = <<>> /\ e.at = 0 /\ e.replacements = <<>> /\ e.structured = <<>>
      /\ e.output = <<>> /\ e.changed = FALSE
  BY <1>1
<1>3. e.pc \notin {"enter", "acquire", "text", "json"} /\ e.pc \notin {"text", "json"}
      /\ e.pc # "json" /\ e.pc # "result" /\ e.pc \notin {"enter", "acquire"}
  BY <1>2
<1> QED
  BY <1>1, <1>2, <1>3, Zenon DEF ReductionOK

\* Going on to the next field keeps the invariant.
LEMMA FieldStep ==
    ASSUME NEW d, ReductionOK(d), d.pc = "json", NEW e, NEW reps,
           e = [d EXCEPT !.at = d.at + 1, !.replacements = reps],
           d.at <= Len(d.request.fields), RepsOK(reps, d.request, d.at)
    PROVE  ReductionOK(e)
<1>1. d = [pc |-> d.pc, request |-> d.request, at |-> d.at, replacements |-> d.replacements,
           structured |-> d.structured, output |-> d.output, changed |-> d.changed]
  BY Zenon DEF ReductionOK
<1>2. e = [pc |-> d.pc, request |-> d.request, at |-> d.at + 1, replacements |-> reps,
           structured |-> d.structured, output |-> d.output, changed |-> d.changed]
  BY <1>1
<1>3. e.pc = d.pc /\ e.request = d.request /\ e.structured = d.structured
      /\ e.output = d.output /\ e.changed = d.changed /\ e.at = d.at + 1 /\ e.replacements = reps
  BY <1>2
<1>4. d.at \in 1 .. Len(d.request.fields) + 1 /\ d.request \in ReduceRequests
  BY Zenon DEF ReductionOK
<1>5. Len(d.request.fields) \in Nat
  <2>1. d.request.fields \in Seq(STRING)
    BY <1>4, ReduceAssumption, Zenon
  <2> QED
    BY <2>1
<1>6. e.at \in 1 .. Len(e.request.fields) + 1 /\ e.at - 1 = d.at
  <2>1. PICK a \in Nat, n \in Nat : a = d.at /\ n = Len(d.request.fields)
    BY <1>4, <1>5
  <2>2. a + 1 \in 1 .. n + 1 /\ (a + 1) - 1 = a
    BY <2>1, <1>4
  <2> QED
    BY <2>1, <2>2, <1>3, Zenon
<1>7. e.pc = "json" /\ e.pc # "result" /\ e.pc \notin {"enter", "acquire"}
  BY <1>3
<1> QED
  BY <1>2, <1>3, <1>6, <1>7, Zenon DEF ReductionOK

\* Reducing one field of a document keeps the invariant.
LEMMA FieldIsFaithful ==
    ASSUME ReductionOK(reduction), NEW reduced \in ReduceOutputs, transformField(reduced)
    PROVE  ReductionOK(reduction')
<1>1. PICK d, r, p, text : d = reduction /\ r = d.request /\ p = Span(r.structured, r.fields[d.at])
                           /\ text = r.structured[p].value
  OBVIOUS
<1>2. d.pc = "json" /\ d.at <= Len(r.fields)
  BY <1>1, Zenon DEF transformField
<1>3. /\ r \in ReduceRequests /\ r.mode = "json" /\ Transformable(r)
      /\ d.at \in 1 .. Len(r.fields) + 1 /\ RepsOK(d.replacements, r, d.at - 1)
      /\ d = [pc |-> d.pc, request |-> d.request, at |-> d.at, replacements |-> d.replacements,
              structured |-> d.structured, output |-> d.output, changed |-> d.changed]
  BY <1>1, <1>2, Zenon DEF ReductionOK
<1>4. Patchable(r)
  BY <1>3, TransformableIsPatchable, Zenon
<1>5. PICK f \in 1 .. Len(r.fields) : f = d.at /\ f - 1 \in Nat /\ (f - 1) + 1 = f
  <2>1. Len(r.fields) \in Nat
    BY <1>4 DEF Patchable
  <2>2. PICK f : f = d.at
    OBVIOUS
  <2>3. f \in 1 .. Len(r.fields) /\ f - 1 \in Nat /\ (f - 1) + 1 = f
    BY <2>1, <2>2, <1>2, <1>3
  <2> QED
    BY <2>2, <2>3
<1>6. RepsOK(d.replacements, r, f)
  <2>1. RepsOK(d.replacements, r, (f - 1) + 1)
    BY <1>3, <1>5, RepsKeep, Zenon
  <2> QED
    BY <2>1, <1>5, Zenon
<1>7. CASE reduction' = [d EXCEPT !.at = @ + 1]
  <2>1. reduction' = [d EXCEPT !.at = d.at + 1, !.replacements = d.replacements]
    BY <1>3, <1>7
  <2> QED
    BY <2>1, <1>1, <1>2, <1>5, <1>6, FieldStep, Zenon
<1>8. CASE reduction' = [d EXCEPT !.pc = "result"]
  <2>1. d.pc \in {"enter", "acquire", "text", "json"}
    BY <1>2
  <2> QED
    BY <2>1, <1>1, <1>8, OriginalIsFaithful, Zenon
<1>9. ASSUME NEW v, v = Marked(text, reduced), NEW late, late \in BOOLEAN,
             ~late => ~(v.encoded >= text.encoded),
             reduction' = [d EXCEPT !.at = @ + 1, !.replacements =
                              IF late THEN @ ELSE Append(@, [at |-> p, value |-> v])]
      PROVE  ReductionOK(reduction')
  <2>1. PICK x : x = [at |-> p, value |-> v]
    OBVIOUS
  <2>2. PICK reps : reps = IF late THEN d.replacements ELSE Append(d.replacements, x)
    OBVIOUS
  <2>3. RepsOK(reps, r, f)
    <3>1. CASE late
      BY <3>1, <2>2, <1>6, Zenon
    <3>2. CASE ~late
      <4>1. /\ RepsOK(d.replacements, r, f - 1) /\ p = Span(r.structured, r.fields[f])
            /\ v = Marked(r.structured[p].value, reduced)
            /\ ~(v.encoded >= r.structured[p].value.encoded)
        BY <3>2, <1>1, <1>3, <1>5, <1>9, Zenon
      <4>2. RepsOK(Append(d.replacements, x), r, f)
        BY <4>1, <2>1, <1>4, RepsGrow, Zenon
      <4> QED
        BY <4>2, <3>2, <2>2, Zenon
    <3> QED
      BY <3>1, <3>2
  <2>4. reduction' = [d EXCEPT !.at = d.at + 1, !.replacements = reps]
    <3>1. reduction' = [d EXCEPT !.at = d.at + 1, !.replacements =
                              IF late THEN d.replacements ELSE Append(d.replacements, x)]
      BY <1>3, <1>9, <2>1
    <3> QED
      BY <3>1, <2>2, Zenon
  <2> QED
    BY <2>3, <2>4, <1>1, <1>2, <1>5, FieldStep, Zenon
<1>10. PICK late : late = (\/ reduced.same \/ ~Shorter(text, reduced)
                           \/ Marked(text, reduced).encoded >= text.encoded)
  OBVIOUS
<1>11. \/ reduction' = [d EXCEPT !.at = @ + 1]
       \/ reduction' = [d EXCEPT !.pc = "result"]
       \/ reduction' = [d EXCEPT !.at = @ + 1, !.replacements =
                          IF \/ reduced.same \/ ~Shorter(text, reduced)
                             \/ Marked(text, reduced).encoded >= text.encoded
                            THEN @ ELSE Append(@, [at |-> p, value |-> Marked(text, reduced)])]
  <2> HIDE DEF Shorter, Marked, Useless
  <2> QED
    BY <1>1 DEF transformField, Original
<1> QED
  BY <1>7, <1>8, <1>9, <1>10, <1>11, Zenon

\* Patching the document after its last field keeps the invariant.
LEMMA JsonIsFaithful ==
    ASSUME ReductionOK(reduction), transformJSON
    PROVE  ReductionOK(reduction')
<1>1. PICK d, r, w : d = reduction /\ r = d.request /\ w = patch(r.structured, d.replacements)
  OBVIOUS
<1>2. d.pc = "json" /\ d.at > Len(r.fields)
  BY <1>1, Zenon DEF transformJSON
<1>3. /\ r \in ReduceRequests /\ r.mode = "json" /\ Transformable(r)
      /\ d.at \in 1 .. Len(r.fields) + 1 /\ RepsOK(d.replacements, r, d.at - 1)
      /\ d = [pc |-> d.pc, request |-> d.request, at |-> d.at, replacements |-> d.replacements,
              structured |-> d.structured, output |-> d.output, changed |-> d.changed]
  BY <1>1, <1>2, Zenon DEF ReductionOK
<1>4. Patchable(r)
  BY <1>3, TransformableIsPatchable, Zenon
<1>5. d.at - 1 = Len(r.fields)
  <2>1. PICK n \in Nat : n = Len(r.fields)
    BY <1>4 DEF Patchable
  <2>2. PICK a : a = d.at
    OBVIOUS
  <2>3. a - 1 = n
    BY <2>1, <2>2, <1>2, <1>3
  <2> QED
    BY <2>1, <2>2, <2>3
<1>6. CASE reduction' = [d EXCEPT !.pc = "result"]
  <2>1. d.pc \in {"enter", "acquire", "text", "json"}
    BY <1>2
  <2> QED
    BY <2>1, <1>1, <1>6, OriginalIsFaithful, Zenon
<1>7. CASE /\ d.replacements # <<>> /\ boundedCombinedSize(Length(w), Length(w))
           /\ reduction' = [d EXCEPT !.pc = "result", !.changed = TRUE, !.structured = w, !.output = w]
  <2>1. PICK e : e = reduction'
    OBVIOUS
  <2>2. e = [pc |-> "result", request |-> d.request, at |-> d.at, replacements |-> d.replacements,
             structured |-> w, output |-> w, changed |-> TRUE]
    BY <1>3, <1>7, <2>1
  <2>3. e.pc = "result" /\ e.request = r /\ e.structured = w /\ e.output = w /\ e.changed = TRUE
        /\ e.at = d.at /\ e.replacements = d.replacements
    BY <2>2, <1>1
  <2>4. PatchOK(w, r)
    BY <1>1, <1>3, <1>4, <1>5, <1>7, PatchFaithful, Zenon
  <2>5. 2 * Length(w) <= ReduceLimit.result
    <3>1. Length(w) + Length(w) <= ReduceLimit.result
      BY <1>7, Zenon DEF boundedCombinedSize
    <3>2. Length(w) \in Int
      BY <2>4 DEF PatchOK
    <3>3. 2 * Length(w) = Length(w) + Length(w)
      BY <3>2
    <3> QED
      BY <3>1, <3>3, Zenon
  <2>6. r.mode # "text"
    BY <1>3
  <2>7. FaithfulResult(e)
    BY <2>3, <2>4, <2>5, <2>6, <1>3, Zenon DEF FaithfulResult
  <2>8. e.pc \notin {"enter", "acquire", "text", "json"} /\ e.pc \notin {"text", "json"} /\ e.pc # "json" /\ e.pc \notin {"enter", "acquire"}
    BY <2>3
  <2>9. e = [pc |-> e.pc, request |-> e.request, at |-> e.at, replacements |-> e.replacements,
             structured |-> e.structured, output |-> e.output, changed |-> e.changed]
    BY <2>2
  <2> QED
    BY <2>1, <2>7, <2>8, <2>9, Zenon DEF ReductionOK
<1>8. \/ reduction' = [d EXCEPT !.pc = "result"]
      \/ /\ d.replacements # <<>> /\ boundedCombinedSize(Length(w), Length(w))
         /\ reduction' = [d EXCEPT !.pc = "result", !.changed = TRUE, !.structured = w, !.output = w]
  BY <1>1, Zenon DEF transformJSON, Original
<1> QED
  BY <1>6, <1>7, <1>8, Zenon

\* Reducing a plain text keeps the invariant.
LEMMA TextIsFaithful ==
    ASSUME ReductionOK(reduction), NEW reduced \in ReduceOutputs, transformText(reduced)
    PROVE  ReductionOK(reduction')
<1>1. PICK d, r, v : d = reduction /\ r = d.request /\ v = Marked(r.output, reduced)
  OBVIOUS
<1>2. d.pc = "text"
  BY <1>1, Zenon DEF transformText
<1>3. /\ r \in ReduceRequests /\ r.mode = "text" /\ Transformable(r) /\ d.structured = r.structured
      /\ d = [pc |-> d.pc, request |-> d.request, at |-> d.at, replacements |-> d.replacements,
              structured |-> d.structured, output |-> d.output, changed |-> d.changed]
  <2>1. d.pc \in {"text", "json"} /\ d.pc \in {"enter", "acquire", "text", "json"}
    BY <1>2
  <2> QED
    BY <1>1, <1>2, <2>1, Zenon DEF ReductionOK
<1>4. CASE reduction' = [d EXCEPT !.pc = "result"]
  <2>1. d.pc \in {"enter", "acquire", "text", "json"}
    BY <1>2
  <2> QED
    BY <2>1, <1>1, <1>4, OriginalIsFaithful, Zenon
<1>5. CASE /\ Shorter(r.output, reduced) /\ boundedCombinedSize(v.size, 0)
           /\ reduction' = [d EXCEPT !.pc = "result", !.changed = TRUE, !.output = v]
  <2>1. PICK e : e = reduction'
    OBVIOUS
  <2>2. e = [pc |-> "result", request |-> d.request, at |-> d.at, replacements |-> d.replacements,
             structured |-> d.structured, output |-> v, changed |-> TRUE]
    BY <1>3, <1>5, <2>1
  <2>3. e.pc = "result" /\ e.request = r /\ e.structured = d.structured /\ e.output = v /\ e.changed = TRUE
        /\ e.at = d.at /\ e.replacements = d.replacements
    BY <2>2, <1>1
  <2>4. v.size = MarkerBytes + reduced.size
    BY <1>1 DEF Marked
  <2>5. v.size < r.output.size
    BY <2>4, <1>5, Zenon DEF Shorter
  <2>10. v.size \in Nat
    BY <2>4, ReduceAssumption
  <2>11. v.size <= ReduceLimit.result
    <3>1. v.size + 0 <= ReduceLimit.result
      BY <1>5, Zenon DEF boundedCombinedSize
    <3>2. v.size + 0 = v.size
      BY <2>10
    <3> QED
      BY <3>1, <3>2, Zenon
  <2>6. e.structured = <<>>
    BY <2>3, <1>3, Zenon DEF Transformable
  <2>7. FaithfulResult(e)
    BY <2>3, <2>5, <2>6, <2>11, <1>1, <1>3, Zenon DEF FaithfulResult
  <2>8. e.pc \notin {"enter", "acquire", "text", "json"} /\ e.pc \notin {"text", "json"} /\ e.pc # "json" /\ e.pc \notin {"enter", "acquire"}
    BY <2>3
  <2>9. e = [pc |-> e.pc, request |-> e.request, at |-> e.at, replacements |-> e.replacements,
             structured |-> e.structured, output |-> e.output, changed |-> e.changed]
    BY <2>2
  <2> QED
    BY <2>1, <2>7, <2>8, <2>9, Zenon DEF ReductionOK
<1>6. \/ reduction' = [d EXCEPT !.pc = "result"]
      \/ /\ Shorter(r.output, reduced) /\ boundedCombinedSize(v.size, 0)
         /\ reduction' = [d EXCEPT !.pc = "result", !.changed = TRUE, !.output = v]
  BY <1>1, Zenon DEF transformText, Original
<1> QED
  BY <1>4, <1>5, <1>6, Zenon

\* Looking at the request keeps the invariant.
LEMMA EnterIsFaithful ==
    ASSUME ReductionOK(reduction), TransformEnter
    PROVE  ReductionOK(reduction')
<1>1. PICK d : d = reduction
  OBVIOUS
<1>2. d.pc = "enter"
  BY <1>1, Zenon DEF TransformEnter
<1>p. d.pc \in {"enter", "acquire", "text", "json"}
  BY <1>2
<1>3. CASE reduction' = [d EXCEPT !.pc = "result"]
  BY <1>p, <1>1, <1>3, OriginalIsFaithful, Zenon
<1>4. CASE d.request.mode # "none" /\ reduction' = [d EXCEPT !.pc = "acquire"]
  <2>1. PICK e : e = reduction'
    OBVIOUS
  <2>2. d = [pc |-> d.pc, request |-> d.request, at |-> d.at, replacements |-> d.replacements,
             structured |-> d.structured, output |-> d.output, changed |-> d.changed]
    BY <1>1, Zenon DEF ReductionOK
  <2>3. e = [pc |-> "acquire", request |-> d.request, at |-> d.at, replacements |-> d.replacements,
             structured |-> d.structured, output |-> d.output, changed |-> d.changed]
    BY <2>1, <2>2, <1>4
  <2>4. e.pc = "acquire" /\ e.request = d.request /\ e.structured = d.structured
        /\ e.output = d.output /\ e.changed = d.changed /\ e.at = d.at /\ e.replacements = d.replacements
    BY <2>3
  <2>5. /\ d.request \in ReduceRequests /\ d.changed = FALSE
        /\ d.structured = d.request.structured /\ d.output = d.request.output
        /\ d.replacements = <<>>
    <3>1. d.pc \in {"enter", "acquire"}
      BY <1>2
    <3> QED
      BY <3>1, <1>p, <1>1, Zenon DEF ReductionOK
  <2>6. e.pc \notin {"text", "json"} /\ e.pc # "json" /\ e.pc # "result"
    BY <2>4
  <2> QED
    BY <2>1, <2>3, <2>4, <2>5, <2>6, <1>4, Zenon DEF ReductionOK
<1>5. \/ reduction' = [d EXCEPT !.pc = "result"]
      \/ d.request.mode # "none" /\ reduction' = [d EXCEPT !.pc = "acquire"]
  BY <1>1, Zenon DEF TransformEnter, Original
<1> QED
  BY <1>3, <1>4, <1>5, Zenon

\* Waiting for the lane keeps the invariant.
LEMMA AcquireIsFaithful ==
    ASSUME ReductionOK(reduction), TransformAcquire
    PROVE  ReductionOK(reduction')
<1>1. PICK d, r : d = reduction /\ r = d.request
  OBVIOUS
<1>2. d.pc = "acquire"
  BY <1>1, Zenon DEF TransformAcquire
<1>p. d.pc \in {"enter", "acquire", "text", "json"}
  BY <1>2
<1>3. CASE reduction' = [d EXCEPT !.pc = "result"]
  BY <1>p, <1>1, <1>3, OriginalIsFaithful, Zenon
<1>4. CASE Transformable(r) /\ reduction' = [d EXCEPT !.pc = r.mode, !.at = 1]
  <2>1. PICK e, mode : e = reduction' /\ mode = r.mode
    OBVIOUS
  <2>2. d = [pc |-> d.pc, request |-> d.request, at |-> d.at, replacements |-> d.replacements,
             structured |-> d.structured, output |-> d.output, changed |-> d.changed]
    BY <1>1, Zenon DEF ReductionOK
  <2>3. e = [pc |-> mode, request |-> d.request, at |-> 1, replacements |-> d.replacements,
             structured |-> d.structured, output |-> d.output, changed |-> d.changed]
    BY <2>1, <2>2, <1>4
  <2>4. e.pc = mode /\ e.request = d.request /\ e.structured = d.structured
        /\ e.output = d.output /\ e.changed = d.changed /\ e.at = 1 /\ e.replacements = d.replacements
    BY <2>3
  <2>5. /\ d.request \in ReduceRequests /\ d.changed = FALSE /\ d.request.mode # "none"
        /\ d.structured = d.request.structured /\ d.output = d.request.output
        /\ d.replacements = <<>>
    BY <1>p, <1>1, <1>2, Zenon DEF ReductionOK
  <2>6. mode \in {"text", "json"} /\ mode # "result" /\ mode # "acquire"
    <3>1. mode \in {"none", "text", "json"} /\ mode # "none"
      BY <2>1, <2>5, <1>1, ReduceAssumption, Zenon
    <3> QED
      BY <3>1
  <2>7. 1 \in 1 .. Len(d.request.fields) + 1 /\ 1 - 1 = 0
    <3>1. d.request.fields \in Seq(STRING)
      BY <2>5, ReduceAssumption, Zenon
    <3> QED
      BY <3>1
  <2>8. RepsOK(<<>>, d.request, 0)
    <3>1. <<>> \in Seq({}) /\ 1 .. Len(<<>>) = {}
      OBVIOUS
    <3> QED
      BY <3>1 DEF RepsOK
  <2>9. e.at \in 1 .. Len(e.request.fields) + 1 /\ RepsOK(e.replacements, e.request, e.at - 1)
    BY <2>4, <2>5, <2>7, <2>8, Zenon
  <2> QED
    BY <2>1, <2>3, <2>4, <2>5, <2>6, <2>9, <1>1, <1>4, Zenon DEF ReductionOK
<1>5. \/ reduction' = [d EXCEPT !.pc = "result"]
      \/ Transformable(r) /\ reduction' = [d EXCEPT !.pc = r.mode, !.at = 1]
  BY <1>1, Zenon DEF TransformAcquire, Original
<1> QED
  BY <1>3, <1>4, <1>5, Zenon

\* A result that arrives satisfies the invariant.
LEMMA ArrivesIsFaithful ==
    ASSUME NEW request \in ReduceRequests, ReductionArrives(request)
    PROVE  ReductionOK(reduction')
<1>1. PICK e, s, o : e = reduction' /\ s = request.structured /\ o = request.output
  OBVIOUS
<1>2. e = [pc |-> "enter", request |-> request, at |-> 0, replacements |-> <<>>,
           structured |-> s, output |-> o, changed |-> FALSE]
  BY <1>1 DEF ReductionArrives, ReductionIdle
<1>3. e.pc = "enter" /\ e.request = request /\ e.at = 0 /\ e.replacements = <<>> /\ e.structured = s
      /\ e.output = o /\ e.changed = FALSE
  BY <1>2
<1>4. e.pc \notin {"text", "json"} /\ e.pc # "json" /\ e.pc # "result" /\ e.pc # "acquire"
  BY <1>3
<1> QED
  BY <1>1, <1>2, <1>3, <1>4, Zenon DEF ReductionOK

ReductionInv == ReductionOK(reduction)

\* FaithfulReduction: whatever a binding, its limits and the process lane do,
\* the transform returns the result as it was or a shorter one within the limit in
\* which only the text, or the strings the binding names, were replaced, each by
\* the marked reduction of its own text (transform.go:44-189).
THEOREM FaithfulReduction == ReductionSpec => []ReductionIsFaithful
<1>1. reduction = ReductionIdle => ReductionInv
  <2>1. ReductionIdle = [ReductionIdle EXCEPT !.pc = "idle"]
    BY DEF ReductionIdle
  <2> QED
    BY <2>1, IdleIsFaithful DEF ReductionInv
<1>2. ReductionInv /\ [\/ ReductionNext \/ reduction' = ReductionIdle
                       \/ \E request \in ReduceRequests : ReductionArrives(request)]_reduction
      => ReductionInv'
  <2> SUFFICES ASSUME ReductionInv,
                      [\/ ReductionNext \/ reduction' = ReductionIdle
                       \/ \E request \in ReduceRequests : ReductionArrives(request)]_reduction
               PROVE  ReductionOK(reduction')
    BY DEF ReductionInv
  <2>0. ReductionOK(reduction)
    BY DEF ReductionInv
  <2>1. CASE TransformEnter
    BY <2>0, <2>1, EnterIsFaithful
  <2>2. CASE TransformAcquire
    BY <2>0, <2>2, AcquireIsFaithful
  <2>3. CASE TransformGivesUp
    <3>1. reduction.pc \in {"enter", "acquire", "text", "json"} /\ reduction' = [reduction EXCEPT !.pc = "result"]
      <4>1. reduction.pc \in {"acquire", "text", "json"} /\ reduction' = [reduction EXCEPT !.pc = "result"]
        BY <2>3, Zenon DEF TransformGivesUp, Original
      <4>2. reduction.pc \in {"enter", "acquire", "text", "json"}
        BY <4>1, Zenon
      <4> QED
        BY <4>1, <4>2
    <3> QED
      BY <2>0, <3>1, OriginalIsFaithful, Zenon
  <2>4. CASE transformJSON
    BY <2>0, <2>4, JsonIsFaithful
  <2>5. ASSUME NEW reduced \in ReduceOutputs, transformText(reduced) PROVE ReductionOK(reduction')
    BY <2>0, <2>5, TextIsFaithful
  <2>6. ASSUME NEW reduced \in ReduceOutputs, transformField(reduced) PROVE ReductionOK(reduction')
    BY <2>0, <2>6, FieldIsFaithful
  <2>7. CASE ReductionDone
    <3>1. reduction' = [ReductionIdle EXCEPT !.pc = "done"] /\ "done" \in {"idle", "done"}
      BY <2>7, Zenon DEF ReductionDone
    <3> QED
      BY <3>1, IdleIsFaithful, Zenon
  <2>8. CASE reduction' = ReductionIdle
    <3>1. ReductionIdle = [ReductionIdle EXCEPT !.pc = "idle"]
      BY DEF ReductionIdle
    <3> QED
      BY <2>8, <3>1, IdleIsFaithful
  <2>9. ASSUME NEW request \in ReduceRequests, ReductionArrives(request) PROVE ReductionOK(reduction')
    BY <2>9, ArrivesIsFaithful
  <2>10. CASE UNCHANGED reduction
    BY <2>0, <2>10, Zenon
  <2> QED
    BY <2>1, <2>2, <2>3, <2>4, <2>5, <2>6, <2>7, <2>8, <2>9, <2>10, Zenon DEF ReductionNext
<1>3. ReductionInv => ReductionIsFaithful
  <2> SUFFICES ASSUME ReductionInv, reduction.pc = "result" PROVE ReductionIsFaithful
    BY Zenon DEF ReductionIsFaithful
  <2>1. FaithfulResult(reduction)
    BY Zenon DEF ReductionInv, ReductionOK
  <2>2. CASE ~reduction.changed
    BY <2>1, <2>2, Zenon DEF FaithfulResult, ReductionIsFaithful
  <2>3. CASE reduction.changed
    <3>1. CASE reduction.request.mode = "text"
      <4>1. reduction.request.mode # "json"
        BY <3>1
      <4> QED
        BY <2>1, <2>3, <3>1, <4>1, Zenon DEF FaithfulResult, ReductionIsFaithful
    <3>2. CASE reduction.request.mode = "json"
      <4>1. reduction.request.mode # "text"
        BY <3>2
      <4> QED
        BY <2>1, <2>3, <3>2, <4>1, Zenon DEF FaithfulResult, PatchOK, ReductionIsFaithful
    <3> QED
      BY <2>1, <2>3, <3>1, <3>2, Zenon DEF FaithfulResult
  <2> QED
    BY <2>2, <2>3
<1> QED
  BY <1>1, <1>2, <1>3, PTL DEF ReductionSpec

-----------------------------------------------------------------------------
(* commandguard: what the functions on words return                         *)

\* What the functions that take words off a call return: words and an outcome.
Found(f) == f.args \in Seq(Words) /\ f.outcome \in Outcomes

\* The words of a call and their parts
LEMMA SomeWords ==
    ASSUME NEW args \in Seq(Words)
    PROVE  /\ Len(args) \in Nat /\ \A i \in 1 .. Len(args) : args[i] \in Words
           /\ args # <<>> => Len(args) >= 1 /\ Tail(args) \in Seq(Words)
           /\ \A m \in 1 .. Len(args) + 1 : SubSeq(args, m, Len(args)) \in Seq(Words)
<1>1. PICK W : W = Words
  OBVIOUS
<1>2. args \in Seq(W) /\ Len(args) \in Nat /\ \A i \in 1 .. Len(args) : args[i] \in W
  BY <1>1
<1>3. ASSUME args # <<>> PROVE Len(args) >= 1 /\ Tail(args) \in Seq(W)
  BY <1>2, <1>3
<1>4. ASSUME NEW m \in 1 .. Len(args) + 1 PROVE SubSeq(args, m, Len(args)) \in Seq(W)
  BY <1>2, <1>4
<1> QED
  BY <1>1, <1>2, <1>3, <1>4, Zenon

\* A refusal has no words and is an outcome.
LEMMA RefusedFound == Found(Refused)
BY DEF Found, Refused, Outcomes

\* What is left of the words is words.
LEMMA RestFound ==
    ASSUME NEW args \in Seq(Words)
    PROVE  Found(Rest(args))
<1>1. Rest(args).args = args /\ Rest(args).outcome = "abstain"
  BY DEF Rest
<1> QED
  BY <1>1 DEF Found, Outcomes

\* An option takes no more than two words.
LEMMA ConsumedType ==
    ASSUME NEW args, NEW specs
    PROVE  consumeOption(args, specs) \in {0, 1, 2}
BY DEF consumeOption

Scans == [args : Seq(Words), outcome : Outcomes, over : BOOLEAN]

\* A round of scanOptions leaves words and an outcome.
LEMMA ScanOptionType ==
    ASSUME NEW scan \in Scans, NEW specs
    PROVE  scanOption(scan, specs) \in Scans
<1>1. PICK args, consumed : args = scan.args /\ consumed = consumeOption(args, specs)
  OBVIOUS
<1>2. args \in Seq(Words) /\ consumed \in {0, 1, 2}
  BY <1>1, ConsumedType DEF Scans
<1> DEFINE Over(f) == [args |-> f.args, outcome |-> f.outcome, over |-> TRUE]
<1>3. ASSUME NEW f, Found(f) PROVE Over(f) \in Scans
  BY <1>3, Zenon DEF Found, Scans
<1>4. args # <<>> => Found(Rest(Tail(args)))
  BY <1>2, SomeWords, RestFound, Zenon
<1>5. Found(Rest(args)) /\ Found(Refused)
  BY <1>2, RestFound, RefusedFound
<1>6. args # <<>> => SubSeq(args, consumed + 1, Len(args)) \in Seq(Words)
  <2>1. PICK m : m = consumed + 1
    OBVIOUS
  <2>2. PICK W : W = Words
    OBVIOUS
  <2>3. m \in 1 .. 3 /\ args \in Seq(W)
    BY <1>2, <2>1, <2>2
  <2>4. args # <<>> => SubSeq(args, m, Len(args)) \in Seq(W)
    BY <2>3
  <2> QED
    BY <2>4, <2>1, <2>2
<1>7. ASSUME NEW rest \in Seq(Words) PROVE [scan EXCEPT !.args = rest] \in Scans
  <2>1. PICK W : W = Seq(Words)
    OBVIOUS
  <2>2. scan \in [args : W, outcome : Outcomes, over : BOOLEAN] /\ rest \in W
    BY <2>1 DEF Scans
  <2>3. [scan EXCEPT !.args = rest] \in [args : W, outcome : Outcomes, over : BOOLEAN]
    BY <2>2
  <2> QED
    BY <2>1, <2>3 DEF Scans
<1>8. scanOption(scan, specs) =
        IF scan.over \/ args = <<>> THEN scan
        ELSE IF ~args[1].known THEN Over(Refused)
        ELSE IF args[1].text = "--" THEN Over(Rest(Tail(args)))
        ELSE IF ~Dashed(args[1].text) THEN Over(Rest(args))
        ELSE IF consumed = 0 THEN Over(Refused)
        ELSE [scan EXCEPT !.args = SubSeq(args, consumed + 1, Len(args))]
  BY <1>1 DEF scanOption
<1>9. /\ Over(Refused) \in Scans /\ Over(Rest(args)) \in Scans
      /\ args # <<>> => Over(Rest(Tail(args))) \in Scans
  <2> HIDE DEF Over
  <2> QED
    BY <1>3, <1>4, <1>5, Zenon
<1>10. args # <<>> => [scan EXCEPT !.args = SubSeq(args, consumed + 1, Len(args))] \in Scans
  BY <1>6, <1>7, Zenon
<1> QED
  <2> HIDE DEF Over
  <2> QED
    BY <1>8, <1>9, <1>10, Zenon

\* scanOptions is a loop whose rounds take words off the front.
LEMMA ScanType ==
    ASSUME NEW args \in Seq(Words), NEW specs
    PROVE  Found(scanOptions(args, specs))
<1> DEFINE first == [args |-> args, outcome |-> "abstain", over |-> FALSE]
           Rec(g) == [n \in 0 .. Len(args) |-> IF n = 0 THEN first ELSE scanOption(g[n - 1], specs)]
<1>l. Len(args) \in Nat
  OBVIOUS
<1>0. first \in Scans
  BY DEF Scans, Outcomes
<1> HIDE DEF first
<1>1. PICK body : body = [n \in 1 .. Len(args) |-> [scan \in Scans |-> scanOption(scan, specs)]]
  OBVIOUS
<1>2. body \in [1 .. Len(args) -> [Scans -> Scans]]
  BY <1>1, ScanOptionType
<1>3. PICK g \in [0 .. Len(args) -> Scans] : Steps(g, first, body, Len(args))
  BY <1>0, <1>2, <1>l, RoundsExist
<1>4. g = Rec(g)
  <2>1. ASSUME NEW n \in 0 .. Len(args), n # 0 PROVE g[n] = scanOption(g[n - 1], specs)
    <3>1. n \in 1 .. Len(args) /\ n - 1 \in 0 .. Len(args)
      BY <2>1, <1>l
    <3>2. g[n - 1] \in Scans /\ body[n] = [scan \in Scans |-> scanOption(scan, specs)]
      BY <1>1, <3>1
    <3>3. g[n] = body[n][g[n - 1]]
      BY <1>3, <3>1 DEF Steps
    <3> QED
      BY <3>2, <3>3
  <2>2. g[0] = first
    BY <1>3 DEF Steps
  <2> QED
    BY <2>1, <2>2
<1>5. PICK f : f = CHOOSE h : h = Rec(h)
  OBVIOUS
<1>6. scanOptions(args, specs) = f[Len(args)]
  BY <1>5 DEF scanOptions, Loop, LoopStates, first
<1>7. f = Rec(f)
  BY <1>4, <1>5
<1>8. f[0] = first /\ \A n \in 1 .. Len(args) : f[n] = scanOption(f[n - 1], specs)
  <2>1. ASSUME NEW n \in 0 .. Len(args)
        PROVE  f[n] = IF n = 0 THEN first ELSE scanOption(f[n - 1], specs)
    BY <1>7, Zenon
  <2>2. 0 \in 0 .. Len(args) /\ \A n \in 1 .. Len(args) : n \in 0 .. Len(args) /\ n # 0
    BY <1>l
  <2> QED
    BY <2>1, <2>2, Zenon
<1>9. \A n \in 1 .. Len(args) : f[n - 1] \in Scans => f[n] \in Scans
  BY <1>8, ScanOptionType, Zenon
<1>10. \A n \in 0 .. Len(args) : f[n] \in Scans
  BY <1>0, <1>8, <1>9, <1>l, RoundsType
<1>11. f[Len(args)] \in Scans
  <2>1. Len(args) \in 0 .. Len(args)
    BY <1>l
  <2> QED
    BY <2>1, <1>10, Zenon
<1> QED
  <2>1. PICK v : v = f[Len(args)]
    OBVIOUS
  <2>2. PICK W : W = Seq(Words)
    OBVIOUS
  <2>3. v \in [args : W, outcome : Outcomes, over : BOOLEAN]
    BY <2>1, <2>2, <1>11 DEF Scans
  <2>4. v.args \in W /\ v.outcome \in Outcomes
    BY <2>3
  <2> QED
    BY <2>1, <2>2, <2>4, <1>6 DEF Found

\* assignmentOperands: the words before the command are dropped.
LEMMA OperandsType ==
    ASSUME NEW args \in Seq(Words)
    PROVE  Found(assignmentOperands(args))
<1> DEFINE Key(i) == Lex[args[i].text].key
           Assigns(i) == /\ args[i].known /\ Key(i) # NoKey
                         /\ validOperand(Key(i), "variable") /\ Key(i) \notin opaqueVariableTarget
<1>1. PICK at : at = FirstAt(args, LAMBDA i : ~Assigns(i))
  OBVIOUS
<1>2. at \in 1 .. Len(args) + 1
  <2>1. PICK Q : Q = {i \in 1 .. Len(args) + 1 : ~Assigns(i)}
    OBVIOUS
  <2> HIDE DEF Assigns
  <2>2. PICK k \in 1 .. Len(args) + 1 : (k <= Len(args) => k \in Q) /\ \A j \in 1 .. k - 1 : j \notin Q
    <3>1. Len(args) \in Nat
      OBVIOUS
    <3> QED
      BY <3>1, FirstExists
  <2>3. (k <= Len(args) => ~Assigns(k)) /\ \A j \in 1 .. k - 1 : ~(~Assigns(j))
    <3>1. \A j \in 1 .. k - 1 : j \in 1 .. Len(args) + 1
      BY <2>2
    <3> QED
      BY <2>1, <2>2, <3>1, Zenon
  <2> QED
    BY <1>1, <2>2, <2>3, Zenon DEF FirstAt
<1>3. Found(Rest(SubSeq(args, at, Len(args)))) /\ Found(Refused)
  BY <1>2, SomeWords, RestFound, RefusedFound, Zenon
<1>4. assignmentOperands(args) \in {Refused, Rest(SubSeq(args, at, Len(args)))}
  BY <1>1, Zenon DEF assignmentOperands
<1> QED
  BY <1>3, <1>4, Zenon

\* command and exec drop their own options from the front.
LEMMA PrefixType ==
    ASSUME NEW name, NEW args \in Seq(Words)
    PROVE  Found(builtinCommandPrefix(name, args))
<1>1. PICK rest : rest = IF name = "command" /\ args # <<>> /\ args[1] = Word("-p", TRUE)
                           THEN Tail(args) ELSE args
  OBVIOUS
<1>2. rest \in Seq(Words)
  BY <1>1, SomeWords, Zenon
<1>3. Found(Rest(rest)) /\ Found(Refused) /\ (rest # <<>> => Found(Rest(Tail(rest))))
  BY <1>2, SomeWords, RestFound, RefusedFound, Zenon
<1>4. builtinCommandPrefix(name, args) =
        CASE rest = <<>> -> Rest(rest)
          [] rest # <<>> /\ rest[1] = Word("--", TRUE) -> Rest(Tail(rest))
          [] OTHER -> IF ~rest[1].known \/ Dashed(rest[1].text) THEN Refused ELSE Rest(rest)
  BY <1>1 DEF builtinCommandPrefix
<1>5. \/ builtinCommandPrefix(name, args) = Rest(rest)
      \/ rest # <<>> /\ builtinCommandPrefix(name, args) = Rest(Tail(rest))
      \/ builtinCommandPrefix(name, args) = Refused
  BY <1>4
<1> QED
  BY <1>3, <1>5, Zenon

\* What a wrapper delegates to consists of words of its call.
LEMMA ArgumentsType ==
    ASSUME NEW name, NEW args \in Seq(Words)
    PROVE  Found(wrapperArguments(name, args))
<1>1. CASE name \in {"command", "exec"}
  BY <1>1, PrefixType DEF wrapperArguments
<1>2. CASE name \notin {"command", "exec"}
  <2>1. PICK scanned, operands : /\ scanned = scanOptions(args, wrapperOptions[name])
                                 /\ operands = assignmentOperands(scanned.args)
    OBVIOUS
  <2>2. Found(scanned) /\ scanned.args \in Seq(Words)
    BY <2>1, ScanType DEF Found
  <2>3. Found(operands) /\ Found(Refused)
    BY <2>1, <2>2, OperandsType, RefusedFound, Zenon
  <2>4. scanned.args # <<>> => Found(Rest(Tail(scanned.args)))
    BY <2>2, SomeWords, RestFound, Zenon
  <2>5. wrapperArguments(name, args) =
            CASE scanned.outcome # "abstain" -> scanned
              [] scanned.outcome = "abstain" /\ name = "timeout" ->
                    IF \/ scanned.args = <<>>
                       \/ ~scanned.args[1].known
                       \/ ~validOperand(scanned.args[1].text, "duration")
                      THEN Refused ELSE Rest(Tail(scanned.args))
              [] OTHER ->
                    IF name = "sudo" /\ operands.args # <<>> /\ Dashed(operands.args[1].text)
                      THEN Refused ELSE operands
    BY <1>2, <2>1 DEF wrapperArguments
  <2>6. \/ wrapperArguments(name, args) \in {scanned, operands, Refused}
        \/ scanned.args # <<>> /\ wrapperArguments(name, args) = Rest(Tail(scanned.args))
    BY <2>5
  <2> QED
    BY <2>2, <2>3, <2>4, <2>6, Zenon
<1> QED
  BY <1>1, <1>2

\* The script of sh -c is one of its words.
LEMMA ShellScriptType ==
    ASSUME NEW args \in Seq(Words)
    PROVE  /\ shellScript(args).outcome \in Outcomes
           /\ shellScript(args).outcome = "abstain" => shellScript(args).args[1] \in Words
<1> DEFINE Flag(i) == args[i].known /\ args[i].text \in {"-e", "-u", "-x"}
           Known(i) == i <= Len(args) /\ args[i].known
<1>1. PICK flag : flag = FirstAt(args, LAMBDA i : ~Flag(i))
  OBVIOUS
<1>2. flag \in 1 .. Len(args) + 1
  <2>1. PICK Q : Q = {i \in 1 .. Len(args) + 1 : ~Flag(i)}
    OBVIOUS
  <2> HIDE DEF Flag
  <2>2. PICK k \in 1 .. Len(args) + 1 : (k <= Len(args) => k \in Q) /\ \A j \in 1 .. k - 1 : j \notin Q
    <3>1. Len(args) \in Nat
      OBVIOUS
    <3> QED
      BY <3>1, FirstExists
  <2>3. (k <= Len(args) => ~Flag(k)) /\ \A j \in 1 .. k - 1 : ~(~Flag(j))
    <3>1. \A j \in 1 .. k - 1 : j \in 1 .. Len(args) + 1
      BY <2>2
    <3> QED
      BY <2>1, <2>2, <3>1, Zenon
  <2> QED
    BY <1>1, <2>2, <2>3, Zenon DEF FirstAt
<1>3. \/ shellScript(args) = Refused
      \/ Known(flag + 1) /\ shellScript(args) = Rest(<<args[flag + 1]>>)
  BY <1>1, Zenon DEF shellScript
<1>4. CASE shellScript(args) = Refused
  BY <1>4 DEF Refused, Outcomes
<1>5. CASE Known(flag + 1) /\ shellScript(args) = Rest(<<args[flag + 1]>>)
  <2>1. PICK x, W : x = args[flag + 1] /\ W = Words
    OBVIOUS
  <2>2. x \in W
    BY <1>2, <1>5, <2>1
  <2>3. shellScript(args).outcome = "abstain" /\ shellScript(args).args[1] = x
    BY <1>5, <2>1 DEF Rest
  <2> QED
    BY <2>1, <2>2, <2>3 DEF Outcomes
<1> QED
  BY <1>3, <1>4, <1>5

\* What a rule, a builtin and the loop over them conclude is an outcome.
LEMMA RuleType ==
    ASSUME NEW r \in [exe : STRING, prefix : Seq(STRING)], NEW name, NEW args
    PROVE  rule(r, name, args) \in Outcomes
<1> DEFINE Ends(i) == i > Len(args) \/ ~args[i].known \/ args[i].text # r.prefix[i]
<1>1. PICK at : at = FirstAt(r.prefix, Ends)
  OBVIOUS
<1>l. Len(r.prefix) \in Nat
  <2>1. r.prefix \in Seq(STRING)
    OBVIOUS
  <2> QED
    BY <2>1
<1>2. at \in 1 .. Len(r.prefix) + 1
  <2>1. PICK Q : Q = {i \in 1 .. Len(r.prefix) + 1 : Ends(i)}
    OBVIOUS
  <2> HIDE DEF Ends
  <2>2. PICK k \in 1 .. Len(r.prefix) + 1 : (k <= Len(r.prefix) => k \in Q) /\ \A j \in 1 .. k - 1 : j \notin Q
    BY <1>l, FirstExists
  <2>3. (k <= Len(r.prefix) => Ends(k)) /\ \A j \in 1 .. k - 1 : ~Ends(j)
    <3>1. \A j \in 1 .. k - 1 : j \in 1 .. Len(r.prefix) + 1
      BY <2>2, <1>l
    <3> QED
      BY <2>1, <2>2, <3>1, Zenon
  <2> QED
    BY <1>1, <2>2, <2>3, Zenon DEF FirstAt
<1>3. PICK n : n = Len(r.prefix)
  OBVIOUS
<1>4. at > n \/ at <= n
  BY <1>2, <1>3, <1>l
<1>5. rule(r, name, args) =
        CASE r.exe # name -> "abstain"
          [] r.exe = name /\ at > n -> "ruleMatch"
          [] r.exe = name /\ at <= n ->
                IF at <= Len(args) /\ ~args[at].known THEN "unanalysable" ELSE "abstain"
  BY <1>1, <1>3 DEF rule
<1>6. rule(r, name, args) \in {"abstain", "ruleMatch", "unanalysable"}
  BY <1>4, <1>5
<1> QED
  BY <1>6 DEF Outcomes

\* The first denial among outcomes is an outcome.
LEMMA DenialType ==
    ASSUME NEW outcomes \in Seq(Outcomes)
    PROVE  FirstDenial(outcomes) \in Outcomes
<1> DEFINE Denies(i) == outcomes[i] # "abstain"
<1>1. PICK at : at = FirstAt(outcomes, Denies)
  OBVIOUS
<1>2. at \in 1 .. Len(outcomes) + 1
  <2>1. PICK Q : Q = {i \in 1 .. Len(outcomes) + 1 : Denies(i)}
    OBVIOUS
  <2> HIDE DEF Denies
  <2>2. PICK k \in 1 .. Len(outcomes) + 1 : (k <= Len(outcomes) => k \in Q) /\ \A j \in 1 .. k - 1 : j \notin Q
    <3>1. Len(outcomes) \in Nat
      OBVIOUS
    <3> QED
      BY <3>1, FirstExists
  <2>3. (k <= Len(outcomes) => Denies(k)) /\ \A j \in 1 .. k - 1 : ~Denies(j)
    <3>1. \A j \in 1 .. k - 1 : j \in 1 .. Len(outcomes) + 1
      BY <2>2
    <3> QED
      BY <2>1, <2>2, <3>1, Zenon
  <2> QED
    BY <1>1, <2>2, <2>3, Zenon DEF FirstAt
<1>3. FirstDenial(outcomes) = IF at > Len(outcomes) THEN "abstain" ELSE outcomes[at]
  BY <1>1 DEF FirstDenial
<1>4. CASE at > Len(outcomes)
  BY <1>3, <1>4 DEF Outcomes
<1>5. CASE ~(at > Len(outcomes))
  <2>1. at \in 1 .. Len(outcomes)
    BY <1>2, <1>5
  <2>2. PICK S : S = Outcomes
    OBVIOUS
  <2>3. outcomes[at] \in S
    BY <2>1, <2>2
  <2> QED
    BY <1>3, <1>5, <2>2, <2>3
<1> QED
  BY <1>4, <1>5

\* The rules and the builtins together conclude an outcome.
LEMMA VerdictType ==
    ASSUME NEW name, NEW args
    PROVE  FirstDenial([i \in DOMAIN Rules |-> rule(Rules[i], name, args)]
                       \o <<builtin(name, args)>>) \in Outcomes
<1>1. PICK b, s, R : /\ b = builtin(name, args)
                     /\ s = [i \in DOMAIN Rules |-> rule(Rules[i], name, args)]
                     /\ R = [exe : STRING, prefix : Seq(STRING)]
  OBVIOUS
<1>2. b \in Outcomes
  BY <1>1 DEF builtin, Outcomes
<1>3. Rules \in Seq(R)
  BY <1>1, AnalysisAssumption
<1>4. s \in Seq(Outcomes)
  <2>1. \A i \in DOMAIN Rules : Rules[i] \in R
    BY <1>3
  <2>2. \A i \in DOMAIN Rules : rule(Rules[i], name, args) \in Outcomes
    BY <1>1, <2>1, RuleType
  <2>3. DOMAIN Rules = 1 .. Len(Rules) /\ Len(Rules) \in Nat
    BY <1>3
  <2>4. PICK n, S, t : n = Len(Rules) /\ S = Outcomes /\ t = [i \in 1 .. n |-> rule(Rules[i], name, args)]
    OBVIOUS
  <2>5. s = t /\ n \in Nat /\ \A i \in 1 .. n : t[i] \in S
    BY <1>1, <2>2, <2>3, <2>4
  <2>6. t \in [1 .. n -> S]
    BY <2>4, <2>5, Zenon
  <2>7. t \in Seq(S)
    BY <2>5, <2>6
  <2> QED
    BY <2>4, <2>5, <2>7
<1>5. s \o <<b>> \in Seq(Outcomes)
  <2>1. PICK S : S = Outcomes
    OBVIOUS
  <2>2. s \in Seq(S) /\ b \in S
    BY <1>2, <1>4, <2>1
  <2>3. s \o <<b>> \in Seq(S)
    BY <2>2
  <2> QED
    BY <2>1, <2>3
<1> QED
  BY <1>1, <1>5, DenialType

-----------------------------------------------------------------------------
(* commandguard: what an analysis may become                                *)

\* What the analysis does to its counters, step by step
Entered(a) == [a EXCEPT !.nodes = @ + 1]
WordCounted(a) == [a EXCEPT !.words = @ + 1]
Charged(a, n) == [a EXCEPT !.bytes = @ + n, !.parsed = Append(@, n)]
Deepened(a, n) == [a EXCEPT !.deepest = IF n > @ THEN n ELSE @]

\* A set of analyses that none of these steps leaves
Closed(W) ==
    /\ W \subseteq Analyses
    /\ \A a \in W, o \in Outcomes : Stop(a, o) \in W
    /\ \A a \in W : a.nodes < Bound.astNodes => Entered(a) \in W
    /\ \A a \in W : a.words < Bound.words => WordCounted(a) \in W
    /\ \A a \in W, n \in Nat : n <= Bound.analysisBytes - a.bytes => Charged(a, n) \in W
    /\ \A a \in W, n \in 0 .. Bound.wrapperDepth : Deepened(a, n) \in W

\* Such a set is not left by what judge answers either.
Judging(judge, W) == \A a \in W, words \in Seq(Words), depth \in Nat : judge[<<a, words, depth>>] \in W

\* A visit, to enter or to leave a node, does not leave a closed set.
LEMMA VisitKept ==
    ASSUME NEW W, Closed(W), NEW judge, Judging(judge, W), NEW a \in W, NEW visit \in Visits,
           NEW depth \in Nat
    PROVE  Visited(judge, a, visit, depth) \in W
<1>1. ASSUME NEW d PROVE inspectNode(a, visit, d) \in W
  <2>1. CASE a.nodes >= Bound.astNodes \/ d >= Bound.astDepth
    <3>1. inspectNode(a, visit, d) = Stop(a, "analysisLimit")
      BY <2>1 DEF inspectNode
    <3> QED
      BY <3>1 DEF Closed, Outcomes
  <2>2. CASE ~(a.nodes >= Bound.astNodes \/ d >= Bound.astDepth)
    <3>1. PICK b : b = Entered(a)
      OBVIOUS
    <3>2. b \in W
      <4>1. a \in Analyses
        BY DEF Closed
      <4>2. a.nodes \in Nat /\ Bound.astNodes \in Nat
        BY <4>1, AnalysisAssumption DEF Analyses
      <4>3. a.nodes < Bound.astNodes
        BY <2>2, <4>2
      <4> QED
        BY <3>1, <4>3 DEF Closed
    <3>3. inspectNode(a, visit, d) =
            CASE visit.kind = "opaque" -> Stop(b, "unanalysable")
              [] visit.kind = "word" -> IF b.words >= Bound.words
                                          THEN Stop(b, "analysisLimit") ELSE WordCounted(b)
              [] OTHER -> b
      BY <2>2, <3>1, Zenon DEF inspectNode, Entered, WordCounted
    <3>4. \/ inspectNode(a, visit, d) \in {Stop(b, "unanalysable"), Stop(b, "analysisLimit"), b}
          \/ ~(b.words >= Bound.words) /\ inspectNode(a, visit, d) = WordCounted(b)
      BY <3>3
    <3>5. Stop(b, "unanalysable") \in W /\ Stop(b, "analysisLimit") \in W
      BY <3>2 DEF Closed, Outcomes
    <3>6. ASSUME ~(b.words >= Bound.words) PROVE WordCounted(b) \in W
      <4>1. b \in Analyses
        BY <3>2 DEF Closed
      <4>2. b.words \in Nat /\ Bound.words \in Nat
        BY <4>1, AnalysisAssumption DEF Analyses
      <4>3. b.words < Bound.words
        BY <3>6, <4>2
      <4> QED
        BY <3>2, <4>3 DEF Closed
    <3> QED
      BY <3>2, <3>4, <3>5, <3>6, Zenon
  <2> QED
    BY <2>1, <2>2
<1>2. ASSUME NEW d \in Nat PROVE finishNode(judge, a, visit, d) \in W
  <2>1. PICK words : words = [i \in DOMAIN visit.words |-> decode(visit.words[i])]
    OBVIOUS
  <2>2. words \in Seq(Words)
    <3>1. PICK V, s, X : s = visit.words /\ X = DOMAIN Lex /\ V = [text : X, parts : SUBSET STRING]
      OBVIOUS
    <3>2. s \in Seq(V)
      BY <3>1 DEF Visits
    <3>3. ASSUME NEW i \in 1 .. Len(s) PROVE decode(s[i]) \in Words
      <4>1. PICK w : w = s[i]
        OBVIOUS
      <4>2. w \in V
        BY <3>2, <4>1
      <4>3. w.text \in X
        BY <4>2, <3>1
      <4>4. (w.parts \cap Opaque = {}) \in BOOLEAN
        OBVIOUS
      <4>5. decode(w) \in [text : X, known : BOOLEAN]
        BY <4>3, <4>4, Zenon DEF decode, Word
      <4> QED
        BY <3>1, <4>1, <4>5 DEF Words
    <3>4. PICK n, Y : n = Len(s) /\ Y = Words
      OBVIOUS
    <3>5. DOMAIN s = 1 .. n /\ n \in Nat
      BY <3>2, <3>4
    <3>6. words = [i \in 1 .. n |-> decode(s[i])]
      BY <2>1, <3>1, <3>5
    <3>7. words \in [1 .. n -> Y]
      BY <3>3, <3>4, <3>6, Zenon
    <3>8. words \in Seq(Y)
      BY <3>5, <3>7
    <3> QED
      BY <3>4, <3>8
  <2>3. judge[<<a, words, d>>] \in W /\ Stop(a, "analysisLimit") \in W
    BY <2>2 DEF Judging, Closed, Outcomes
  <2>4. finishNode(judge, a, visit, d) \in {Stop(a, "analysisLimit"), judge[<<a, words, d>>], a}
    <3>1. finishNode(judge, a, visit, d) =
            CASE visit.kind = "word" /\ Lex[visit.words[1].text].size > Bound.wordBytes
                    -> Stop(a, "analysisLimit")
              [] visit.kind = "call" /\ visit.words # <<>> -> judge[<<a, words, d>>]
              [] OTHER -> a
      BY <2>1 DEF finishNode
    <3> QED
      BY <3>1
  <2> QED
    BY <2>3, <2>4, Zenon
<1>3. depth + visit.depth + 1 \in Nat
  BY DEF Visits
<1>4. Visited(judge, a, visit, depth) \in
        {a, inspectNode(a, visit, depth + visit.depth), finishNode(judge, a, visit, depth + visit.depth + 1)}
  BY Zenon DEF Visited
<1> QED
  BY <1>1, <1>2, <1>3, <1>4, Zenon

\* Nor does a walk over a script: an induction over its visits.
LEMMA WalkKept ==
    ASSUME NEW W, Closed(W), NEW judge, Judging(judge, W), NEW a \in W, NEW visits \in Seq(Visits),
           NEW depth \in Nat
    PROVE  walk(judge, a, visits, depth) \in W
<1> DEFINE Rec(g) == [n \in 0 .. Len(visits) |->
                        IF n = 0 THEN a ELSE Visited(judge, g[n - 1], visits[n], depth)]
<1>l. Len(visits) \in Nat /\ \A n \in 1 .. Len(visits) : visits[n] \in Visits
  <2>1. PICK V : V = Visits
    OBVIOUS
  <2>2. visits \in Seq(V)
    BY <2>1
  <2>3. Len(visits) \in Nat /\ \A n \in 1 .. Len(visits) : visits[n] \in V
    BY <2>2
  <2> QED
    BY <2>1, <2>3
<1>0. \A v \in W, n \in 1 .. Len(visits) : Visited(judge, v, visits[n], depth) \in W
  BY <1>l, VisitKept
<1>1. PICK body : body = [n \in 1 .. Len(visits) |-> [v \in W |-> Visited(judge, v, visits[n], depth)]]
  OBVIOUS
<1>2. body \in [1 .. Len(visits) -> [W -> W]]
  BY <1>1, <1>0
<1>3. PICK g \in [0 .. Len(visits) -> W] : Steps(g, a, body, Len(visits))
  BY <1>2, <1>l, RoundsExist
<1>4. g = Rec(g)
  <2>1. ASSUME NEW n \in 0 .. Len(visits), n # 0 PROVE g[n] = Visited(judge, g[n - 1], visits[n], depth)
    <3>1. n \in 1 .. Len(visits) /\ n - 1 \in 0 .. Len(visits)
      BY <2>1, <1>l
    <3>2. g[n - 1] \in W /\ body[n] = [v \in W |-> Visited(judge, v, visits[n], depth)]
      BY <1>1, <3>1
    <3>3. g[n] = body[n][g[n - 1]]
      BY <1>3, <3>1 DEF Steps
    <3> QED
      BY <3>2, <3>3
  <2>2. g[0] = a
    BY <1>3 DEF Steps
  <2> QED
    BY <2>1, <2>2
<1>5. PICK f : f = CHOOSE h : h = Rec(h)
  OBVIOUS
<1>6. walk(judge, a, visits, depth) = f[Len(visits)]
  BY <1>5 DEF walk, Loop, LoopStates
<1>7. f = Rec(f)
  BY <1>4, <1>5
<1>8. f[0] = a /\ \A n \in 1 .. Len(visits) : f[n] = Visited(judge, f[n - 1], visits[n], depth)
  <2>1. ASSUME NEW n \in 0 .. Len(visits)
        PROVE  f[n] = IF n = 0 THEN a ELSE Visited(judge, f[n - 1], visits[n], depth)
    BY <1>7, Zenon
  <2>2. 0 \in 0 .. Len(visits) /\ \A n \in 1 .. Len(visits) : n \in 0 .. Len(visits) /\ n # 0
    BY <1>l
  <2> QED
    BY <2>1, <2>2, Zenon
<1>9. f[0] \in W /\ \A n \in 1 .. Len(visits) : f[n - 1] \in W => f[n] \in W
  BY <1>8, <1>0, Zenon
<1>10. \A n \in 0 .. Len(visits) : f[n] \in W
  BY <1>9, <1>l, RoundsType
<1>11. Len(visits) \in 0 .. Len(visits)
  BY <1>l
<1> QED
  BY <1>6, <1>10, <1>11, Zenon

\* script: the bytes are charged only where they are left.
LEMMA ScriptKept ==
    ASSUME NEW W, Closed(W), NEW judge, Judging(judge, W), NEW a \in W, NEW s \in Scripts,
           NEW depth \in Nat
    PROVE  script(judge, a, s, depth) \in W
<1>1. PICK b : b = Charged(a, s.size)
  OBVIOUS
<1>2. s.size \in Nat /\ s.visits \in Seq(Visits) /\ s.text \in {"ok", "invalidText", "noMask", "parseError"}
  <2>1. PICK V : V = Seq(Visits)
    OBVIOUS
  <2>2. s \in [size : Nat, text : {"ok", "invalidText", "noMask", "parseError"}, visits : V]
    BY <2>1 DEF Scripts
  <2>3. s.size \in Nat /\ s.visits \in V /\ s.text \in {"ok", "invalidText", "noMask", "parseError"}
    BY <2>2
  <2> QED
    BY <2>1, <2>3
<1>3. CASE s.size > Bound.commandBytes \/ s.size > Bound.analysisBytes - a.bytes \/ depth >= Bound.astDepth
  <2>1. script(judge, a, s, depth) = Stop(a, "analysisLimit")
    BY <1>3 DEF script
  <2> QED
    BY <2>1 DEF Closed, Outcomes
<1>4. CASE ~(s.size > Bound.commandBytes \/ s.size > Bound.analysisBytes - a.bytes \/ depth >= Bound.astDepth)
  <2>1. b \in W
    <3>1. a \in Analyses
      BY DEF Closed
    <3>2. a.bytes \in Nat /\ Bound.analysisBytes \in Nat
      BY <3>1, AnalysisAssumption DEF Analyses
    <3>3. s.size <= Bound.analysisBytes - a.bytes
      BY <1>2, <1>4, <3>2
    <3> QED
      BY <1>1, <1>2, <3>3 DEF Closed
  <2>2. script(judge, a, s, depth) =
          CASE s.text = "invalidText" -> Stop(a, "invalidCommand")
            [] s.text = "noMask" -> Stop(a, "unanalysable")
            [] s.text = "parseError" -> Stop(b, "invalidCommand")
            [] s.text = "ok" -> walk(judge, b, s.visits, depth)
    BY <1>1, <1>4, Zenon DEF script, Charged
  <2>3. script(judge, a, s, depth) \in
          {Stop(a, "invalidCommand"), Stop(a, "unanalysable"), Stop(b, "invalidCommand"),
           walk(judge, b, s.visits, depth)}
    BY <2>2, <1>2
  <2>4. walk(judge, b, s.visits, depth) \in W
    BY <2>1, <1>2, WalkKept
  <2>5. /\ Stop(a, "invalidCommand") \in W /\ Stop(a, "unanalysable") \in W
        /\ Stop(b, "invalidCommand") \in W
    BY <2>1 DEF Closed, Outcomes
  <2> QED
    BY <2>3, <2>4, <2>5, Zenon
<1> QED
  BY <1>3, <1>4

\* shell goes on with the counters it was given.
LEMMA ShellKept ==
    ASSUME NEW W, Closed(W), NEW judge, Judging(judge, W), NEW a \in W, NEW args \in Seq(Words),
           NEW depth \in Nat
    PROVE  shell(judge, a, args, depth) \in W
<1>1. PICK found : found = shellScript(args)
  OBVIOUS
<1>2. found.outcome \in Outcomes /\ (found.outcome = "abstain" => found.args[1] \in Words)
  BY <1>1, ShellScriptType
<1>3. CASE found.outcome # "abstain"
  <2>1. shell(judge, a, args, depth) = Stop(a, found.outcome)
    BY <1>1, <1>3 DEF shell
  <2> QED
    BY <1>2, <2>1 DEF Closed
<1>4. CASE found.outcome = "abstain"
  <2>1. PICK s : s = Inline[found.args[1].text]
    OBVIOUS
  <2>2. s \in Scripts
    <3>1. PICK w, X : w = found.args[1] /\ X = DOMAIN Lex
      OBVIOUS
    <3>2. w \in [text : X, known : BOOLEAN]
      BY <1>2, <1>4, <3>1 DEF Words
    <3>3. w.text \in X
      BY <3>2
    <3> QED
      BY <2>1, <3>1, <3>3, AnalysisAssumption, Zenon
  <2>3. shell(judge, a, args, depth) = script(judge, a, s, depth)
    BY <1>1, <1>4, <2>1 DEF shell
  <2> QED
    BY <2>2, <2>3, ScriptKept
<1> QED
  BY <1>3, <1>4

\* A wrapper with none left stops; any other counts itself and delegates.
LEMMA WrapperKept ==
    ASSUME NEW W, Closed(W), NEW left \in 0 .. Bound.wrapperDepth, NEW judge,
           left # 0 => Judging(judge, W), NEW a \in W, NEW name, NEW args \in Seq(Words), NEW depth \in Nat
    PROVE  wrapper(judge, left, a, name, args, depth) \in W
<1>0. Bound.wrapperDepth \in Nat
  BY AnalysisAssumption
<1>1. PICK found, wrappers, b : /\ found = wrapperArguments(name, args)
                                /\ wrappers = Bound.wrapperDepth - left + 1
                                /\ b = Deepened(a, wrappers)
  OBVIOUS
<1>2. wrapper(judge, left, a, name, args, depth) =
        IF name \notin Wrappers THEN a
        ELSE IF left = 0 \/ depth >= Bound.astDepth THEN Stop(a, "analysisLimit")
        ELSE IF name \in Shells THEN shell(judge, b, args, depth + 1)
        ELSE IF found.outcome # "abstain" THEN Stop(b, found.outcome)
        ELSE IF found.args # <<>> THEN judge[<<b, found.args, depth + 1>>]
        ELSE IF name = "env" THEN b ELSE Stop(b, "unanalysable")
  BY <1>1, Zenon DEF wrapper, Deepened
<1>3. Stop(a, "analysisLimit") \in W
  BY DEF Closed, Outcomes
<1>4. CASE left = 0
  BY <1>2, <1>3, <1>4, Zenon
<1>5. CASE left # 0
  <2>1. b \in W
    <3>1. wrappers \in 0 .. Bound.wrapperDepth
      BY <1>0, <1>1, <1>5
    <3> QED
      BY <1>1, <3>1, Zenon DEF Closed
  <2>2. depth + 1 \in Nat
    OBVIOUS
  <2>3. shell(judge, b, args, depth + 1) \in W
    BY <1>5, <2>1, <2>2, ShellKept
  <2>4. found.args \in Seq(Words) /\ found.outcome \in Outcomes
    BY <1>1, ArgumentsType, Zenon DEF Found
  <2>5. Stop(b, found.outcome) \in W /\ Stop(b, "unanalysable") \in W
    BY <2>1, <2>4 DEF Closed, Outcomes
  <2>6. judge[<<b, found.args, depth + 1>>] \in W
    BY <1>5, <2>1, <2>2, <2>4, Zenon DEF Judging
  <2> QED
    BY <1>2, <1>3, <2>1, <2>3, <2>5, <2>6, Zenon
<1> QED
  BY <1>4, <1>5

\* command: rules, builtins and wrappers do not leave a closed set.
LEMMA CommandKept ==
    ASSUME NEW W, Closed(W), NEW left \in 0 .. Bound.wrapperDepth, NEW judge,
           left # 0 => Judging(judge, W), NEW a \in W, NEW words \in Seq(Words), NEW depth \in Nat
    PROVE  command(judge, left, a, words, depth) \in W
<1>1. CASE words = <<>> \/ ~Head(words).known \/ Lex[Head(words).text].base = ""
  <2>1. command(judge, left, a, words, depth) = Stop(a, "unanalysable")
    BY <1>1 DEF command
  <2> QED
    BY <2>1 DEF Closed, Outcomes
<1>2. CASE ~(words = <<>> \/ ~Head(words).known \/ Lex[Head(words).text].base = "")
  <2>1. PICK name, args : name = Lex[Head(words).text].base /\ args = Tail(words)
    OBVIOUS
  <2>2. PICK verdict : verdict = FirstDenial([i \in DOMAIN Rules |-> rule(Rules[i], name, args)]
                                             \o <<builtin(name, args)>>)
    OBVIOUS
  <2>3. args \in Seq(Words)
    BY <1>2, <2>1, SomeWords, Zenon
  <2>4. verdict \in Outcomes
    BY <2>2, VerdictType
  <2>5. command(judge, left, a, words, depth) =
          IF verdict # "abstain" THEN Stop(a, verdict) ELSE wrapper(judge, left, a, name, args, depth)
    BY <1>2, <2>1, <2>2, Zenon DEF command
  <2>6. Stop(a, verdict) \in W
    BY <2>4 DEF Closed
  <2>7. wrapper(judge, left, a, name, args, depth) \in W
    BY <2>3, WrapperKept
  <2> QED
    BY <2>5, <2>6, <2>7, Zenon
<1> QED
  BY <1>1, <1>2

\* The fields of an analysis
LEMMA AnalysisFields ==
    ASSUME NEW a \in Analyses
    PROVE  /\ a.outcome \in Outcomes /\ a.bytes \in Nat /\ a.nodes \in Nat /\ a.words \in Nat
           /\ a.parsed \in Seq(Nat) /\ a.deepest \in Nat
           /\ a = [outcome |-> a.outcome, bytes |-> a.bytes, nodes |-> a.nodes, words |-> a.words,
                   parsed |-> a.parsed, deepest |-> a.deepest]
<1>1. PICK S, O : S = Seq(Nat) /\ O = Outcomes
  OBVIOUS
<1>2. a \in [outcome : O, bytes : Nat, nodes : Nat, words : Nat, parsed : S, deepest : Nat]
  BY <1>1 DEF Analyses
<1>3. /\ a.outcome \in O /\ a.bytes \in Nat /\ a.nodes \in Nat /\ a.words \in Nat
      /\ a.parsed \in S /\ a.deepest \in Nat
      /\ a = [outcome |-> a.outcome, bytes |-> a.bytes, nodes |-> a.nodes, words |-> a.words,
              parsed |-> a.parsed, deepest |-> a.deepest]
  BY <1>2
<1> QED
  BY <1>1, <1>3, Zenon

Record(o, b, n, w, p, d) == [outcome |-> o, bytes |-> b, nodes |-> n, words |-> w, parsed |-> p, deepest |-> d]

\* r is an analysis with these fields.
Has(r, o, b, n, w, p, d) ==
    /\ r \in Analyses /\ r.outcome = o /\ r.bytes = b /\ r.nodes = n /\ r.words = w
    /\ r.parsed = p /\ r.deepest = d

\* A record of such fields is an analysis.
LEMMA RecordHas ==
    ASSUME NEW o \in Outcomes, NEW b \in Nat, NEW n \in Nat, NEW w \in Nat, NEW p \in Seq(Nat), NEW d \in Nat
    PROVE  Has(Record(o, b, n, w, p, d), o, b, n, w, p, d)
<1>1. PICK S, O : S = Seq(Nat) /\ O = Outcomes
  OBVIOUS
<1>2. Record(o, b, n, w, p, d) \in [outcome : O, bytes : Nat, nodes : Nat, words : Nat, parsed : S, deepest : Nat]
  BY <1>1 DEF Record
<1>3. /\ Record(o, b, n, w, p, d).outcome = o /\ Record(o, b, n, w, p, d).bytes = b
      /\ Record(o, b, n, w, p, d).nodes = n /\ Record(o, b, n, w, p, d).words = w
      /\ Record(o, b, n, w, p, d).parsed = p /\ Record(o, b, n, w, p, d).deepest = d
  BY DEF Record
<1> QED
  BY <1>1, <1>2, <1>3, Zenon DEF Analyses, Has

\* The steps, field by field
LEMMA StopHas ==
    ASSUME NEW a \in Analyses, NEW o \in Outcomes
    PROVE  Has(Stop(a, o), o, a.bytes, a.nodes, a.words, a.parsed, a.deepest)
<1>1. Stop(a, o) = Record(o, a.bytes, a.nodes, a.words, a.parsed, a.deepest)
  BY AnalysisFields DEF Stop, Record
<1> QED
  BY <1>1, AnalysisFields, RecordHas, Zenon

\* inspectNode charges a node.
LEMMA EnteredHas ==
    ASSUME NEW a \in Analyses
    PROVE  Has(Entered(a), a.outcome, a.bytes, a.nodes + 1, a.words, a.parsed, a.deepest)
<1>1. Entered(a) = Record(a.outcome, a.bytes, a.nodes + 1, a.words, a.parsed, a.deepest)
  BY AnalysisFields DEF Entered, Record
<1>2. a.nodes + 1 \in Nat
  BY AnalysisFields
<1> QED
  BY <1>1, <1>2, AnalysisFields, RecordHas, Zenon

\* inspectNode charges a word.
LEMMA CountedHas ==
    ASSUME NEW a \in Analyses
    PROVE  Has(WordCounted(a), a.outcome, a.bytes, a.nodes, a.words + 1, a.parsed, a.deepest)
<1>1. WordCounted(a) = Record(a.outcome, a.bytes, a.nodes, a.words + 1, a.parsed, a.deepest)
  BY AnalysisFields DEF WordCounted, Record
<1>2. a.words + 1 \in Nat
  BY AnalysisFields
<1> QED
  BY <1>1, <1>2, AnalysisFields, RecordHas, Zenon

\* script charges the bytes it hands to the parser.
LEMMA ChargedHas ==
    ASSUME NEW a \in Analyses, NEW n \in Nat
    PROVE  Has(Charged(a, n), a.outcome, a.bytes + n, a.nodes, a.words, Append(a.parsed, n), a.deepest)
<1>1. PICK p, b : p = Append(a.parsed, n) /\ b = a.bytes + n
  OBVIOUS
<1>2. p \in Seq(Nat) /\ b \in Nat
  BY <1>1, AnalysisFields
<1>3. Charged(a, n) = [a EXCEPT !.bytes = b, !.parsed = p]
  <2>1. PICK c : c = [a EXCEPT !.bytes = b]
    OBVIOUS
  <2>2. c.parsed = a.parsed
    BY <2>1, AnalysisFields
  <2> QED
    BY <1>1, <2>1, <2>2, Zenon DEF Charged
<1>4. [a EXCEPT !.bytes = b, !.parsed = p] = Record(a.outcome, b, a.nodes, a.words, p, a.deepest)
  <2>1. PICK u, x, k, w, q, e : a = [outcome |-> u, bytes |-> x, nodes |-> k, words |-> w, parsed |-> q, deepest |-> e]
    BY AnalysisFields
  <2>2. PICK c : c = [a EXCEPT !.bytes = b]
    OBVIOUS
  <2>3. c = [outcome |-> u, bytes |-> b, nodes |-> k, words |-> w, parsed |-> q, deepest |-> e]
    BY <2>1, <2>2
  <2>4. [c EXCEPT !.parsed = p] = Record(u, b, k, w, p, e)
    BY <2>3 DEF Record
  <2>5. [a EXCEPT !.bytes = b, !.parsed = p] = [c EXCEPT !.parsed = p]
    BY <2>2, Zenon
  <2>6. a.outcome = u /\ a.nodes = k /\ a.words = w /\ a.deepest = e
    BY <2>1
  <2> QED
    BY <2>4, <2>5, <2>6, Zenon
<1>5. Has(Record(a.outcome, b, a.nodes, a.words, p, a.deepest), a.outcome, b, a.nodes, a.words, p, a.deepest)
  BY <1>2, AnalysisFields, RecordHas, Zenon
<1> QED
  BY <1>1, <1>3, <1>4, <1>5

\* wrapper records how deep it is.
LEMMA DeepenedHas ==
    ASSUME NEW a \in Analyses, NEW n \in Nat
    PROVE  Has(Deepened(a, n), a.outcome, a.bytes, a.nodes, a.words, a.parsed,
               IF n > a.deepest THEN n ELSE a.deepest)
<1>1. PICK d : d = IF n > a.deepest THEN n ELSE a.deepest
  OBVIOUS
<1>2. d \in Nat
  BY <1>1, AnalysisFields
<1>3. Deepened(a, n) = [a EXCEPT !.deepest = d]
  BY <1>1, Zenon DEF Deepened
<1>4. [a EXCEPT !.deepest = d] = Record(a.outcome, a.bytes, a.nodes, a.words, a.parsed, d)
  <2>1. PICK u, x, k, w, q, e : a = [outcome |-> u, bytes |-> x, nodes |-> k, words |-> w, parsed |-> q, deepest |-> e]
    BY AnalysisFields
  <2> QED
    BY <2>1 DEF Record
<1>5. Has(Record(a.outcome, a.bytes, a.nodes, a.words, a.parsed, d), a.outcome, a.bytes, a.nodes, a.words, a.parsed, d)
  BY <1>2, AnalysisFields, RecordHas, Zenon
<1> QED
  BY <1>1, <1>3, <1>4, <1>5, Zenon

\* What BudgetsAreGlobal says of an analysis, and what makes it inductive: bytes is the sum of
\* the sizes that were parsed.
InBudget(a) ==
    /\ Total(a.parsed) = a.bytes /\ a.bytes <= Bound.analysisBytes
    /\ a.nodes <= Bound.astNodes /\ a.words <= Bound.words /\ a.deepest <= Bound.wrapperDepth
Budgeted == {a \in Analyses : InBudget(a)}

\* The limits the counters are compared with
LEMMA BoundsAreNumbers ==
    /\ Bound.analysisBytes \in Nat /\ Bound.astNodes \in Nat /\ Bound.words \in Nat
    /\ Bound.wrapperDepth \in Nat
BY AnalysisAssumption

\* The steps preserve the type.
LEMMA StepsKeepType ==
    ASSUME NEW a \in Analyses
    PROVE  /\ \A o \in Outcomes : Stop(a, o) \in Analyses
           /\ Entered(a) \in Analyses /\ WordCounted(a) \in Analyses
           /\ \A n \in Nat : Charged(a, n) \in Analyses /\ Deepened(a, n) \in Analyses
<1>1. \A o \in Outcomes : Stop(a, o) \in Analyses
  BY StopHas, Zenon DEF Has
<1>2. Entered(a) \in Analyses
  BY EnteredHas, Zenon DEF Has
<1>3. WordCounted(a) \in Analyses
  BY CountedHas, Zenon DEF Has
<1>4. \A n \in Nat : Charged(a, n) \in Analyses
  BY ChargedHas, Zenon DEF Has
<1>5. \A n \in Nat : Deepened(a, n) \in Analyses
  BY DeepenedHas, Zenon DEF Has
<1> QED
  BY <1>1, <1>2, <1>3, <1>4, <1>5

\* All analyses together are closed: the type of the judges.
LEMMA AnalysesClosed == Closed(Analyses)
<1>1. \A n \in 0 .. Bound.wrapperDepth : n \in Nat
  BY BoundsAreNumbers
<1> QED
  BY <1>1, StepsKeepType, Zenon DEF Closed

\* Those within the budgets are closed: every charge is made only where it is left.
LEMMA BudgetedClosed == Closed(Budgeted)
<1>1. ASSUME NEW a \in Budgeted
      PROVE  /\ \A o \in Outcomes : Stop(a, o) \in Budgeted
             /\ a.nodes < Bound.astNodes => Entered(a) \in Budgeted
             /\ a.words < Bound.words => WordCounted(a) \in Budgeted
             /\ \A n \in Nat : n <= Bound.analysisBytes - a.bytes => Charged(a, n) \in Budgeted
             /\ \A n \in 0 .. Bound.wrapperDepth : Deepened(a, n) \in Budgeted
  <2>1. a \in Analyses /\ InBudget(a)
    BY DEF Budgeted
  <2>2. /\ a.outcome \in Outcomes /\ a.bytes \in Nat /\ a.nodes \in Nat /\ a.words \in Nat
        /\ a.parsed \in Seq(Nat) /\ a.deepest \in Nat /\ 0 \in Nat
    BY <2>1, AnalysisFields
  <2>3. /\ Total(a.parsed) = a.bytes /\ a.bytes <= Bound.analysisBytes
        /\ a.nodes <= Bound.astNodes /\ a.words <= Bound.words /\ a.deepest <= Bound.wrapperDepth
    BY <2>1 DEF InBudget
  <2>4. ASSUME NEW r \in Analyses, Total(r.parsed) = r.bytes, r.bytes <= Bound.analysisBytes,
               r.nodes <= Bound.astNodes, r.words <= Bound.words, r.deepest <= Bound.wrapperDepth
        PROVE  r \in Budgeted
    BY <2>4 DEF Budgeted, InBudget
  <2>5. ASSUME NEW o \in Outcomes PROVE Stop(a, o) \in Budgeted
    <3>1. PICK r : r = Stop(a, o)
      OBVIOUS
    <3>2. r \in Analyses /\ r.bytes = a.bytes /\ r.nodes = a.nodes /\ r.words = a.words
          /\ r.parsed = a.parsed /\ r.deepest = a.deepest
      BY <3>1, <2>1, StopHas, Zenon DEF Has
    <3> QED
      BY <3>1, <3>2, <2>3, <2>4
  <2>6. ASSUME a.nodes < Bound.astNodes PROVE Entered(a) \in Budgeted
    <3>1. PICK r : r = Entered(a)
      OBVIOUS
    <3>2. r \in Analyses /\ r.bytes = a.bytes /\ r.nodes = a.nodes + 1 /\ r.words = a.words
          /\ r.parsed = a.parsed /\ r.deepest = a.deepest
      BY <3>1, <2>1, EnteredHas, Zenon DEF Has
    <3>3. a.nodes + 1 <= Bound.astNodes
      BY <2>6, <2>2, BoundsAreNumbers
    <3> QED
      BY <3>1, <3>2, <3>3, <2>3, <2>4
  <2>7. ASSUME a.words < Bound.words PROVE WordCounted(a) \in Budgeted
    <3>1. PICK r : r = WordCounted(a)
      OBVIOUS
    <3>2. r \in Analyses /\ r.bytes = a.bytes /\ r.nodes = a.nodes /\ r.words = a.words + 1
          /\ r.parsed = a.parsed /\ r.deepest = a.deepest
      BY <3>1, <2>1, CountedHas, Zenon DEF Has
    <3>3. a.words + 1 <= Bound.words
      BY <2>7, <2>2, BoundsAreNumbers
    <3> QED
      BY <3>1, <3>2, <3>3, <2>3, <2>4
  <2>8. ASSUME NEW n \in Nat, n <= Bound.analysisBytes - a.bytes PROVE Charged(a, n) \in Budgeted
    <3>1. PICK r, q : r = Charged(a, n) /\ q = Append(a.parsed, n)
      OBVIOUS
    <3>2. r \in Analyses /\ r.bytes = a.bytes + n /\ r.nodes = a.nodes /\ r.words = a.words
          /\ r.parsed = q /\ r.deepest = a.deepest
      BY <3>1, <2>1, ChargedHas, Zenon DEF Has
    <3>3. Total(q) = a.bytes + n
      BY <3>1, <2>2, <2>3, TotalAppend
    <3>4. a.bytes + n <= Bound.analysisBytes
      BY <2>8, <2>2, BoundsAreNumbers
    <3> QED
      BY <3>1, <3>2, <3>3, <3>4, <2>3, <2>4
  <2>9. ASSUME NEW n \in 0 .. Bound.wrapperDepth PROVE Deepened(a, n) \in Budgeted
    <3>1. PICK r, d : r = Deepened(a, n) /\ d = IF n > a.deepest THEN n ELSE a.deepest
      OBVIOUS
    <3>2. n \in Nat /\ d <= Bound.wrapperDepth
      BY <3>1, <2>2, <2>3, BoundsAreNumbers
    <3>3. r \in Analyses /\ r.bytes = a.bytes /\ r.nodes = a.nodes /\ r.words = a.words
          /\ r.parsed = a.parsed /\ r.deepest = d
      BY <3>1, <3>2, <2>1, DeepenedHas, Zenon DEF Has
    <3> QED
      BY <3>1, <3>2, <3>3, <2>3, <2>4
  <2> QED
    BY <2>5, <2>6, <2>7, <2>8, <2>9
<1>2. Budgeted \subseteq Analyses
  BY DEF Budgeted
<1> QED
  BY <1>1, <1>2, Zenon DEF Closed

-----------------------------------------------------------------------------
(* commandguard: the judges, and an analysis as a whole                     *)

\* What a judge answers, given the judge for one wrapper less
Judged(judge, left, call) ==
    command(IF left = 0 THEN <<>> ELSE judge, left, call[1], call[2], call[3])

\* The answer of a judge, given the judge for one wrapper less
LEMMA JudgedKept ==
    ASSUME NEW W, Closed(W), NEW left \in 0 .. Bound.wrapperDepth, NEW judge,
           left # 0 => Judging(judge, W), NEW a \in W, NEW words \in Seq(Words), NEW depth \in Nat
    PROVE  Judged(judge, left, <<a, words, depth>>) \in W
<1>1. PICK j : j = IF left = 0 THEN <<>> ELSE judge
  OBVIOUS
<1>2. left # 0 => Judging(j, W)
  BY <1>1
<1>3. command(j, left, a, words, depth) \in W
  BY <1>2, CommandKept
<1>4. <<a, words, depth>>[1] = a /\ <<a, words, depth>>[2] = words /\ <<a, words, depth>>[3] = depth
  OBVIOUS
<1> QED
  BY <1>1, <1>3, <1>4, Zenon DEF Judged

\* The recursion on the wrappers left has a solution.
LEMMA JudgesTable ==
    \A left \in 0 .. Bound.wrapperDepth, call \in Calls :
        Judges[left][call] = Judged(Judges[left - 1], left, call)
<1> DEFINE N == Bound.wrapperDepth
           V == [Calls -> Analyses]
           Rec(g) == [left \in 0 .. Bound.wrapperDepth |->
                        [call \in Calls |-> command(IF left = 0 THEN <<>> ELSE g[left - 1], left,
                                                    call[1], call[2], call[3])]]
<1>l. N \in Nat
  BY BoundsAreNumbers
<1>0. ASSUME NEW v, NEW left \in 0 .. N, left # 0 => v \in V
      PROVE  [call \in Calls |-> Judged(v, left, call)] \in V
  <2>1. left # 0 => Judging(v, Analyses)
    <3>1. ASSUME left # 0, NEW a \in Analyses, NEW words \in Seq(Words), NEW depth \in Nat
          PROVE  v[<<a, words, depth>>] \in Analyses
      <4>1. <<a, words, depth>> \in Calls
        BY Zenon DEF Calls
      <4> QED
        BY <1>0, <3>1, <4>1
    <3> QED
      BY <3>1 DEF Judging
  <2>2. ASSUME NEW call \in Calls PROVE Judged(v, left, call) \in Analyses
    <3>1. PICK a \in Analyses, words \in Seq(Words), depth \in Nat : call = <<a, words, depth>>
      <4>1. PICK X, Y, Z : X = Analyses /\ Y = Seq(Words) /\ Z = Nat
        OBVIOUS
      <4>2. call \in X \X Y \X Z
        BY <4>1 DEF Calls
      <4>3. \E a \in X, words \in Y, depth \in Z : call = <<a, words, depth>>
        BY <4>2
      <4> QED
        BY <4>1, <4>3, Zenon
    <3> QED
      BY <2>1, <3>1, AnalysesClosed, JudgedKept
  <2> QED
    BY <2>2
<1>1. PICK first, body : /\ first = [call \in Calls |-> Judged(<<>>, 0, call)]
                         /\ body = [n \in 1 .. N |-> [v \in V |-> [call \in Calls |-> Judged(v, n, call)]]]
  OBVIOUS
<1>2. first \in V /\ body \in [1 .. N -> [V -> V]]
  <2>1. 0 \in 0 .. N /\ \A n \in 1 .. N : n \in 0 .. N /\ n # 0
    BY <1>l
  <2>2. first \in V
    <3>1. [call \in Calls |-> Judged(<<>>, 0, call)] \in V
      BY <1>0, <2>1
    <3> QED
      BY <1>1, <3>1
  <2>3. ASSUME NEW n \in 1 .. N, NEW v \in V PROVE [call \in Calls |-> Judged(v, n, call)] \in V
    BY <1>0, <2>1
  <2> HIDE DEF V
  <2> QED
    BY <1>1, <2>2, <2>3
<1> HIDE DEF V
<1>3. PICK g \in [0 .. N -> V] : Steps(g, first, body, N)
  BY <1>2, <1>l, RoundsExist
<1>4. g = Rec(g)
  <2>1. ASSUME NEW left \in 0 .. N
        PROVE  g[left] = [call \in Calls |-> command(IF left = 0 THEN <<>> ELSE g[left - 1], left,
                                                     call[1], call[2], call[3])]
    <3>1. CASE left = 0
      <4>1. g[left] = [call \in Calls |-> Judged(<<>>, 0, call)]
        BY <1>1, <1>3, <3>1 DEF Steps
      <4> QED
        BY <3>1, <4>1, Zenon DEF Judged
    <3>2. CASE left # 0
      <4>1. left \in 1 .. N /\ left - 1 \in 0 .. N
        BY <3>2, <1>l
      <4>2. g[left - 1] \in V /\ g[left] = body[left][g[left - 1]]
        BY <1>3, <4>1 DEF Steps
      <4>3. body[left] = [v \in V |-> [call \in Calls |-> Judged(v, left, call)]]
        BY <1>1, <4>1
      <4>4. g[left] = [call \in Calls |-> Judged(g[left - 1], left, call)]
        BY <4>2, <4>3
      <4> QED
        BY <3>2, <4>4, Zenon DEF Judged
    <3> QED
      BY <3>1, <3>2
  <2> QED
    BY <2>1
<1>5. PICK f : f = CHOOSE h : h = Rec(h)
  OBVIOUS
<1>6. Judges = f
  BY <1>5 DEF Judges
<1>7. f = Rec(f)
  BY <1>4, <1>5
<1>8. ASSUME NEW left \in 0 .. N, NEW call \in Calls
      PROVE  f[left][call] = command(IF left = 0 THEN <<>> ELSE f[left - 1], left, call[1], call[2], call[3])
  <2>1. f[left] = [c \in Calls |-> command(IF left = 0 THEN <<>> ELSE f[left - 1], left, c[1], c[2], c[3])]
    BY <1>7, Zenon
  <2>2. PICK F, j : F = f[left] /\ j = IF left = 0 THEN <<>> ELSE f[left - 1]
    OBVIOUS
  <2>3. F = [c \in Calls |-> command(j, left, c[1], c[2], c[3])]
    BY <2>1, <2>2, Zenon
  <2>4. F[call] = command(j, left, call[1], call[2], call[3])
    BY <2>3
  <2> QED
    BY <2>2, <2>4, Zenon
<1>9. ASSUME NEW left \in 0 .. N, NEW call \in Calls
      PROVE  f[left][call] = Judged(f[left - 1], left, call)
  <2>1. PICK j, v : j = f[left - 1] /\ v = f[left][call]
    OBVIOUS
  <2>2. v = command(IF left = 0 THEN <<>> ELSE j, left, call[1], call[2], call[3])
    BY <1>8, <2>1, Zenon
  <2> QED
    BY <2>1, <2>2, Zenon DEF Judged
<1> QED
  BY <1>6, <1>9, Zenon

\* No judge leaves a closed set: induction on the wrappers left.
LEMMA JudgesKeep ==
    ASSUME NEW W, Closed(W)
    PROVE  Judging(Judges[Bound.wrapperDepth], W)
<1>1. PICK S, N : N = Bound.wrapperDepth /\ S = {left \in 0 .. N : Judging(Judges[left], W)}
  OBVIOUS
<1>2. N \in Nat
  BY <1>1, BoundsAreNumbers
<1>3. ASSUME NEW left \in 0 .. N, left # 0 => Judging(Judges[left - 1], W) PROVE left \in S
  <2>1. ASSUME NEW a \in W, NEW words \in Seq(Words), NEW depth \in Nat
        PROVE  Judges[left][<<a, words, depth>>] \in W
    <3>1. <<a, words, depth>> \in Calls
      <4>1. a \in Analyses
        BY DEF Closed
      <4> QED
        BY <4>1, Zenon DEF Calls
    <3>2. Judges[left][<<a, words, depth>>] = Judged(Judges[left - 1], left, <<a, words, depth>>)
      BY <1>1, <3>1, JudgesTable, Zenon
    <3>3. Judged(Judges[left - 1], left, <<a, words, depth>>) \in W
      BY <1>1, <1>3, JudgedKept
    <3> QED
      BY <3>2, <3>3
  <2> QED
    BY <1>1, <2>1 DEF Judging
<1>4. 0 \in S
  <2>1. 0 \in 0 .. N
    BY <1>2
  <2> QED
    BY <2>1, <1>3
<1>5. ASSUME NEW left \in 1 .. N, left - 1 \in S PROVE left \in S
  <2>1. left \in 0 .. N /\ Judging(Judges[left - 1], W)
    BY <1>1, <1>2, <1>5
  <2> QED
    BY <2>1, <1>3
<1>6. \A left \in 0 .. N : left \in S
  BY <1>2, <1>4, <1>5, EveryRound
<1>7. N \in 0 .. N
  BY <1>2
<1>8. N \in S
  BY <1>6, <1>7, Zenon
<1> QED
  BY <1>1, <1>8

\* An analysis starts within its budgets.
LEMMA FreshBudgeted == Fresh \in Budgeted
<1>1. Fresh = Record("abstain", 0, 0, 0, <<>>, 0)
  BY DEF Fresh, Record
<1>2. "abstain" \in Outcomes /\ 0 \in Nat /\ <<>> \in Seq(Nat)
  BY DEF Outcomes
<1>3. Has(Fresh, "abstain", 0, 0, 0, <<>>, 0)
  BY <1>1, <1>2, RecordHas
<1>4. Total(<<>>) = 0
  <2>1. PICK s : s = <<>>
    OBVIOUS
  <2>2. s \in Seq(Nat) /\ Len(s) = 0
    BY <2>1
  <2>3. Totals(s)[0] = 0
    BY <2>2, TotalsTable
  <2> QED
    BY <2>1, <2>2, <2>3 DEF Total
<1>5. /\ Fresh \in Analyses /\ Fresh.bytes = 0 /\ Fresh.nodes = 0 /\ Fresh.words = 0
      /\ Fresh.parsed = <<>> /\ Fresh.deepest = 0
  BY <1>3, Zenon DEF Has
<1>6. InBudget(Fresh)
  BY <1>4, <1>5, BoundsAreNumbers DEF InBudget
<1> QED
  BY <1>5, <1>6 DEF Budgeted

Documents == Seq([role : STRING, depth : Nat, owner : Nat, name : STRING, value : Scripts])

\* Every node has an outcome.
LEMMA NodeOutcomeType ==
    ASSUME NEW doc, NEW i
    PROVE  NodeOutcome(doc, i) \in Outcomes
BY DEF NodeOutcome, Outcomes

\* A node that is not denied is no repeated key and, as the command, a string.
LEMMA NodeAbstains ==
    ASSUME NEW doc, NEW i, NodeOutcome(doc, i) = "abstain"
    PROVE  /\ ~(doc[i].role = "key" /\ Repeated(doc, i))
           /\ IsField(doc, i, CommandField) => doc[i].role = "string"
BY DEF NodeOutcome

\* The document has one field that holds the command, and it is a string.
Unambiguous(doc, i) ==
    /\ i \in DOMAIN doc /\ doc[i].role = "string"
    /\ {j \in DOMAIN doc : IsField(doc, j, CommandField)} = {i}

\* Two fields of one name are two keys of one object, and the later one is denied.
LEMMA FieldIsUnique ==
    ASSUME NEW doc, NEW N \in Nat, \A i \in 1 .. N : NodeOutcome(doc, i) = "abstain",
           NEW i \in 1 .. N, NEW j \in 1 .. N, i < j,
           IsField(doc, i, CommandField), IsField(doc, j, CommandField)
    PROVE  FALSE
<1>1. PICK k, m : k = i - 1 /\ m = j - 1
  OBVIOUS
<1>2. /\ doc[k].role = "key" /\ doc[k].owner = 1 /\ doc[k].name = CommandField
      /\ doc[m].role = "key" /\ doc[m].owner = 1 /\ doc[m].name = CommandField /\ i > 1
  BY <1>1 DEF IsField
<1>3. k \in 1 .. m - 1 /\ m \in 1 .. N
  BY <1>1, <1>2
<1>4. Repeated(doc, m)
  BY <1>2, <1>3, Zenon DEF Repeated
<1>5. NodeOutcome(doc, m) = "abstain"
  BY <1>3
<1> QED
  BY <1>2, <1>4, <1>5, NodeAbstains

\* input abstains only where the command is unambiguous, and returns that command.
LEMMA InputAdmits ==
    ASSUME NEW raw \in {"fits", "analysisLimit", "invalidCommand"}, NEW doc \in Documents
    PROVE  /\ input(raw, doc).outcome \in Outcomes
           /\ input(raw, doc).outcome = "abstain" =>
                \E i \in DOMAIN doc : Unambiguous(doc, i) /\ input(raw, doc).command = doc[i].value
<1> DEFINE Denies(i) == NodeOutcome(doc, i) # "abstain"
           IsCommand(i) == IsField(doc, i, CommandField)
<1>n. PICK N : N = Len(doc)
  OBVIOUS
<1>l. N \in Nat /\ DOMAIN doc = 1 .. N
  <2>1. PICK S : doc \in Seq(S)
    BY DEF Documents
  <2> QED
    BY <1>n, <2>1
<1>1. PICK denied, field : denied = FirstAt(doc, Denies) /\ field = FirstAt(doc, IsCommand)
  OBVIOUS
<1>2. input(raw, doc) =
        [outcome |-> CASE raw # "fits" -> raw
                       [] raw = "fits" /\ denied <= N -> NodeOutcome(doc, denied)
                       [] OTHER -> IF field > N THEN "invalidCommand" ELSE "abstain",
         command |-> doc[Min({field, N})].value]
  BY <1>n, <1>1, Zenon DEF input
<1> HIDE DEF Denies, IsCommand
<1>3. /\ denied \in 1 .. N + 1 /\ (denied <= N => Denies(denied))
      /\ \A j \in 1 .. denied - 1 : ~Denies(j)
  <2>1. PICK Q : Q = {i \in 1 .. N + 1 : Denies(i)}
    OBVIOUS
  <2>2. PICK k \in 1 .. N + 1 : (k <= N => k \in Q) /\ \A j \in 1 .. k - 1 : j \notin Q
    BY <1>l, FirstExists
  <2>3. (k <= N => Denies(k)) /\ \A j \in 1 .. k - 1 : ~Denies(j)
    <3>1. \A j \in 1 .. k - 1 : j \in 1 .. N + 1
      BY <1>l, <2>2
    <3> QED
      BY <2>1, <2>2, <3>1, Zenon
  <2> QED
    BY <1>n, <1>1, <2>2, <2>3, Zenon DEF FirstAt
<1>4. field \in 1 .. N + 1 /\ (field <= N => IsCommand(field))
  <2>1. PICK Q : Q = {i \in 1 .. N + 1 : IsCommand(i)}
    OBVIOUS
  <2>2. PICK k \in 1 .. N + 1 : (k <= N => k \in Q) /\ \A j \in 1 .. k - 1 : j \notin Q
    BY <1>l, FirstExists
  <2>3. (k <= N => IsCommand(k)) /\ \A j \in 1 .. k - 1 : ~IsCommand(j)
    <3>1. \A j \in 1 .. k - 1 : j \in 1 .. N + 1
      BY <1>l, <2>2
    <3> QED
      BY <2>1, <2>2, <3>1, Zenon
  <2> QED
    BY <1>n, <1>1, <2>2, <2>3, Zenon DEF FirstAt
<1>5. PICK o, x : o = NodeOutcome(doc, denied) /\ x = input(raw, doc).outcome
  OBVIOUS
<1>6. o \in Outcomes /\ (denied <= N => o # "abstain")
  BY <1>3, <1>5, NodeOutcomeType DEF Denies
<1>7. x = CASE raw # "fits" -> raw
            [] raw = "fits" /\ denied <= N -> o
            [] OTHER -> IF field > N THEN "invalidCommand" ELSE "abstain"
  BY <1>2, <1>5
<1>8. x \in Outcomes
  BY <1>6, <1>7 DEF Outcomes
<1>9. ASSUME x = "abstain"
      PROVE  Unambiguous(doc, field) /\ field \in DOMAIN doc /\ input(raw, doc).command = doc[field].value
  <2>1. ~(denied <= N) /\ ~(field > N)
    BY <1>6, <1>7, <1>9
  <2>2. field \in 1 .. N /\ denied = N + 1 /\ IsCommand(field)
    BY <2>1, <1>3, <1>4, <1>l
  <2>3. \A j \in 1 .. N : NodeOutcome(doc, j) = "abstain"
    <3>1. \A j \in 1 .. N : j \in 1 .. denied - 1
      BY <2>2, <1>l
    <3> QED
      BY <3>1, <1>3 DEF Denies
  <2>4. doc[field].role = "string"
    BY <2>2, <2>3, NodeAbstains DEF IsCommand
  <2>5. ASSUME NEW j \in 1 .. N, IsField(doc, j, CommandField) PROVE j = field
    <3>1. CASE j < field
      BY <3>1, <2>2, <2>3, <2>5, <1>l, FieldIsUnique DEF IsCommand
    <3>2. CASE field < j
      BY <3>2, <2>2, <2>3, <2>5, <1>l, FieldIsUnique DEF IsCommand
    <3> QED
      BY <3>1, <3>2, <2>2, <1>l
  <2>6. {j \in DOMAIN doc : IsField(doc, j, CommandField)} = {field}
    BY <2>2, <2>5, <1>l, Zenon DEF IsCommand
  <2>7. Unambiguous(doc, field)
    BY <2>2, <2>4, <2>6, <1>l DEF Unambiguous
  <2>8. Min({field, N}) = field
    BY <2>2, <1>l, MinPair
  <2>9. input(raw, doc).command = doc[field].value
    <3>1. PICK v : v = doc[Min({field, N})].value
      OBVIOUS
    <3>2. input(raw, doc).command = v
      BY <1>2, <3>1
    <3> QED
      BY <3>1, <3>2, <2>8
  <2> QED
    BY <2>2, <2>7, <2>9, <1>l
<1> QED
  BY <1>5, <1>8, <1>9

\* An analysis stays within its budgets, and abstains on nothing ambiguous.
LEMMA AnalysisOK ==
    ASSUME NEW raw \in {"fits", "analysisLimit", "invalidCommand"}, NEW doc \in Documents
    PROVE  /\ analyse(raw, doc) \in Budgeted
           /\ analyse(raw, doc).outcome = "abstain" => \E i \in DOMAIN doc : Unambiguous(doc, i)
<1>1. PICK found : found = input(raw, doc)
  OBVIOUS
<1>2. /\ found.outcome \in Outcomes
      /\ found.outcome = "abstain" =>
            \E i \in DOMAIN doc : Unambiguous(doc, i) /\ found.command = doc[i].value
  BY <1>1, InputAdmits, Zenon
<1>3. CASE found.outcome # "abstain"
  <2>1. analyse(raw, doc) = Stop(Fresh, found.outcome)
    BY <1>1, <1>3 DEF analyse
  <2>2. Stop(Fresh, found.outcome) \in Budgeted
    BY <1>2, FreshBudgeted, BudgetedClosed DEF Closed
  <2>3. Fresh \in Analyses
    BY FreshBudgeted DEF Budgeted
  <2>4. Stop(Fresh, found.outcome).outcome = found.outcome
    BY <1>2, <2>3, StopHas, Zenon DEF Has
  <2> QED
    BY <1>3, <2>1, <2>2, <2>4
<1>4. CASE found.outcome = "abstain"
  <2>1. PICK i \in DOMAIN doc : Unambiguous(doc, i) /\ found.command = doc[i].value
    BY <1>2, <1>4, Zenon
  <2>2. found.command \in Scripts
    <3>1. PICK S, R : S = Scripts /\ R = [role : STRING, depth : Nat, owner : Nat, name : STRING, value : S]
      OBVIOUS
    <3>2. doc \in Seq(R)
      BY <3>1 DEF Documents
    <3>3. doc[i] \in R
      BY <3>2
    <3>4. doc[i].value \in S
      BY <3>1, <3>3
    <3> QED
      BY <2>1, <3>1, <3>4
  <2>3. analyse(raw, doc) = script(Judges[Bound.wrapperDepth], Fresh, found.command, 0)
    BY <1>1, <1>4 DEF analyse
  <2>4. Judging(Judges[Bound.wrapperDepth], Budgeted) /\ 0 \in Nat
    BY BudgetedClosed, JudgesKeep
  <2>5. analyse(raw, doc) \in Budgeted
    BY <2>2, <2>3, <2>4, FreshBudgeted, BudgetedClosed, ScriptKept
  <2> QED
    BY <2>1, <2>5
<1> QED
  BY <1>3, <1>4

-----------------------------------------------------------------------------
(* commandguard: the permits                                                *)

GuardState(pc, call, a, permits, others, decision) ==
    [pc |-> pc, call |-> call, analysis |-> a, permits |-> permits, others |-> others,
     decision |-> decision]

Analysing == {"analyse", "answer"}

\* A permit is held while a call is analysed, whatever others do.
PermitsOK(pc, permits, others) ==
    /\ permits \in Nat /\ others \in Nat /\ permits <= MaxInFlight
    /\ permits = others + IF pc \in Analysing THEN 1 ELSE 0

\* What is being judged is a request, and the answer is its analysis.
CallOK(pc, call, a) ==
    /\ InBudget(a)
    /\ pc \in {"enter"} \cup Analysing => call \in GuardCalls
    /\ pc = "answer" => a = analyse(call.raw, call.doc)

GuardOK(g) ==
    \E pc, call, a, permits, others, decision :
        /\ g = GuardState(pc, call, a, permits, others, decision)
        /\ PermitsOK(pc, permits, others) /\ CallOK(pc, call, a)

GuardInv == GuardOK(guard)

\* What a request consists of
LEMMA CallTypes ==
    ASSUME NEW call \in GuardCalls
    PROVE  call.raw \in {"fits", "analysisLimit", "invalidCommand"} /\ call.doc \in Documents
<1>1. PICK R, D : R = {"fits", "analysisLimit", "invalidCommand"} /\ D = Documents
  OBVIOUS
<1>2. call \in [tool : STRING, raw : R, doc : D]
  BY <1>1, GuardAssumption, Zenon DEF Documents
<1>3. call.raw \in R /\ call.doc \in D
  BY <1>2
<1> QED
  BY <1>1, <1>3

\* Nothing has been charged at first.
LEMMA FreshInBudget == InBudget(Fresh)
BY FreshBudgeted DEF Budgeted

\* The guard starts without permits.
LEMMA IdleOK == GuardOK(GuardIdle)
<1>1. GuardIdle = GuardState("idle", NoCall, Fresh, 0, 0, "none")
  BY DEF GuardIdle, GuardState
<1>2. PermitsOK("idle", 0, 0)
  BY GuardAssumption DEF PermitsOK, Analysing
<1>3. CallOK("idle", NoCall, Fresh)
  BY FreshInBudget DEF CallOK, Analysing
<1> QED
  BY <1>1, <1>2, <1>3, Zenon DEF GuardOK

\* A call arrives while others hold permits.
LEMMA ArrivalOK ==
    ASSUME NEW call \in GuardCalls, NEW others \in 0 .. MaxInFlight, GuardArrives(call, others)
    PROVE  GuardInv'
<1>1. guard' = GuardState("enter", call, Fresh, others, others, "none")
  BY DEF GuardArrives, GuardIdle, GuardState
<1>2. PermitsOK("enter", others, others)
  BY GuardAssumption DEF PermitsOK, Analysing
<1>3. CallOK("enter", call, Fresh)
  BY FreshInBudget DEF CallOK, Analysing
<1> QED
  BY <1>1, <1>2, <1>3, Zenon DEF GuardOK, GuardInv

\* Every step of the guard preserves the invariant.
LEMMA GuardStep ==
    ASSUME GuardInv, GuardNext
    PROVE  GuardInv'
<1>1. PICK pc, call, a, permits, others, decision :
        /\ guard = GuardState(pc, call, a, permits, others, decision)
        /\ PermitsOK(pc, permits, others) /\ CallOK(pc, call, a)
  BY Zenon DEF GuardInv, GuardOK
<1>2. /\ guard.pc = pc /\ guard.call = call /\ guard.analysis = a /\ guard.permits = permits
      /\ guard.others = others /\ guard.decision = decision
  BY <1>1 DEF GuardState
<1>3. ASSUME NEW q, NEW b, NEW m, NEW k, NEW d, guard' = GuardState(q, call, b, m, k, d),
             PermitsOK(q, m, k), CallOK(q, call, b)
      PROVE  GuardInv'
  BY <1>3, Zenon DEF GuardInv, GuardOK
<1>4. ASSUME NEW d, pc \notin Analysing, GuardDecides(d) PROVE GuardInv'
  <2>1. guard' = GuardState("done", call, a, permits, others, d)
    BY <1>1, <1>4 DEF GuardDecides, GuardState
  <2>2. PermitsOK("done", permits, others)
    BY <1>1, <1>4 DEF PermitsOK, Analysing
  <2>3. CallOK("done", call, a)
    BY <1>1 DEF CallOK, Analysing
  <2> QED
    BY <2>1, <2>2, <2>3, <1>3, Zenon
<1>5. CASE GuardEnter
  <2>1. pc = "enter" /\ pc \notin Analysing
    BY <1>2, <1>5 DEF GuardEnter, Analysing
  <2>2. \/ \E d : GuardDecides(d)
        \/ ~(permits >= MaxInFlight) /\ guard' = [guard EXCEPT !.pc = "analyse", !.permits = @ + 1]
    BY <1>2, <1>5, Zenon DEF GuardEnter
  <2>3. CASE ~(permits >= MaxInFlight) /\ guard' = [guard EXCEPT !.pc = "analyse", !.permits = @ + 1]
    <3>1. guard' = GuardState("analyse", call, a, permits + 1, others, decision)
      BY <1>1, <2>3 DEF GuardState
    <3>2. PermitsOK("analyse", permits + 1, others)
      BY <1>1, <2>1, <2>3, GuardAssumption DEF PermitsOK, Analysing
    <3>3. CallOK("analyse", call, a)
      BY <1>1, <2>1 DEF CallOK, Analysing
    <3> QED
      BY <3>1, <3>2, <3>3, <1>3, Zenon
  <2> QED
    BY <2>1, <2>2, <2>3, <1>4, Zenon
<1>6. CASE GuardAnalyse
  <2>1. PICK b : b = analyse(call.raw, call.doc)
    OBVIOUS
  <2>2. pc = "analyse" /\ guard' = [guard EXCEPT !.pc = "answer", !.analysis = b]
    BY <1>2, <1>6, <2>1 DEF GuardAnalyse
  <2>3. guard' = GuardState("answer", call, b, permits, others, decision)
    BY <1>1, <2>2 DEF GuardState
  <2>4. PermitsOK("answer", permits, others)
    BY <1>1, <2>2 DEF PermitsOK, Analysing
  <2>5. call \in GuardCalls
    BY <1>1, <2>2 DEF CallOK, Analysing
  <2>6. InBudget(b)
    <3>1. b \in Budgeted
      BY <2>1, <2>5, CallTypes, AnalysisOK, Zenon
    <3> QED
      BY <3>1 DEF Budgeted
  <2>7. CallOK("answer", call, b)
    BY <2>1, <2>5, <2>6, Zenon DEF CallOK
  <2> QED
    BY <2>3, <2>4, <2>7, <1>3, Zenon
<1>7. ASSUME NEW d, pc \in Analysing, guard' = [guard EXCEPT !.pc = "done", !.permits = @ - 1, !.decision = d]
      PROVE  GuardInv'
  <2>1. guard' = GuardState("done", call, a, permits - 1, others, d)
    BY <1>1, <1>7 DEF GuardState
  <2>2. PermitsOK("done", permits - 1, others)
    BY <1>1, <1>7, GuardAssumption DEF PermitsOK, Analysing
  <2>3. CallOK("done", call, a)
    BY <1>1 DEF CallOK, Analysing
  <2> QED
    BY <2>1, <2>2, <2>3, <1>3, Zenon
<1>8. CASE GuardPanic
  <2>1. pc \in Analysing
    BY <1>2, <1>8 DEF GuardPanic, Analysing
  <2>2. \E d : guard' = [guard EXCEPT !.pc = "done", !.permits = @ - 1, !.decision = d]
    BY <1>8, Zenon DEF GuardPanic
  <2> QED
    BY <2>1, <2>2, <1>7, Zenon
<1>9. CASE GuardReturn
  <2>1. pc \in Analysing
    BY <1>2, <1>9 DEF GuardReturn, Analysing
  <2>2. \E d : guard' = [guard EXCEPT !.pc = "done", !.permits = @ - 1, !.decision = d]
    BY <1>9, Zenon DEF GuardReturn
  <2> QED
    BY <2>1, <2>2, <1>7, Zenon
<1>10. CASE OtherAcquire
  <2>1. permits < MaxInFlight /\ guard' = [guard EXCEPT !.permits = @ + 1, !.others = @ + 1]
    BY <1>2, <1>10 DEF OtherAcquire
  <2>2. guard' = GuardState(pc, call, a, permits + 1, others + 1, decision)
    BY <1>1, <2>1 DEF GuardState
  <2>3. PermitsOK(pc, permits + 1, others + 1)
    BY <1>1, <2>1, GuardAssumption DEF PermitsOK
  <2> QED
    BY <2>2, <2>3, <1>1, <1>3, Zenon
<1>11. CASE OtherRelease
  <2>1. others > 0 /\ guard' = [guard EXCEPT !.permits = @ - 1, !.others = @ - 1]
    BY <1>2, <1>11 DEF OtherRelease
  <2>2. guard' = GuardState(pc, call, a, permits - 1, others - 1, decision)
    BY <1>1, <2>1 DEF GuardState
  <2>3. PermitsOK(pc, permits - 1, others - 1)
    BY <1>1, <2>1, GuardAssumption DEF PermitsOK
  <2> QED
    BY <2>2, <2>3, <1>1, <1>3, Zenon
<1> QED
  BY <1>5, <1>6, <1>8, <1>9, <1>10, <1>11 DEF GuardNext

\* The invariant implies both properties.
LEMMA GuardInvSuffices == GuardInv => CommandIsUnambiguous /\ BudgetsAreGlobal
<1> SUFFICES ASSUME GuardInv PROVE CommandIsUnambiguous /\ BudgetsAreGlobal
  OBVIOUS
<1>1. PICK pc, call, a, permits, others, decision :
        /\ guard = GuardState(pc, call, a, permits, others, decision)
        /\ PermitsOK(pc, permits, others) /\ CallOK(pc, call, a)
  BY Zenon DEF GuardInv, GuardOK
<1>2. /\ guard.pc = pc /\ guard.call = call /\ guard.analysis = a /\ guard.permits = permits
      /\ guard.others = others
  BY <1>1 DEF GuardState
<1>3. CommandIsUnambiguous
  <2>1. SUFFICES ASSUME pc = "answer", a.outcome = "abstain"
                 PROVE  \E i \in DOMAIN call.doc : Unambiguous(call.doc, i)
    BY <1>2, Zenon DEF CommandIsUnambiguous, Admitted, Unambiguous
  <2>2. call \in GuardCalls /\ a = analyse(call.raw, call.doc)
    BY <1>1, <2>1 DEF CallOK, Analysing
  <2> QED
    BY <2>1, <2>2, CallTypes, AnalysisOK, Zenon
<1>4. BudgetsAreGlobal
  <2>1. /\ Total(a.parsed) = a.bytes /\ a.bytes <= Bound.analysisBytes
        /\ a.nodes <= Bound.astNodes /\ a.words <= Bound.words /\ a.deepest <= Bound.wrapperDepth
    BY <1>1 DEF CallOK, InBudget
  <2>2. permits = others + (IF pc \in {"analyse", "answer"} THEN 1 ELSE 0) /\ permits <= MaxInFlight
    BY <1>1 DEF PermitsOK, Analysing
  <2>3. Total(a.parsed) <= Bound.analysisBytes
    BY <2>1
  <2> QED
    BY <1>2, <2>1, <2>2, <2>3, Zenon DEF BudgetsAreGlobal
<1> QED
  BY <1>3, <1>4

\* The invariant holds in every behaviour of the guard.
LEMMA GuardInvHolds == GuardSpec => []GuardInv
<1>1. guard = GuardIdle => GuardInv
  BY IdleOK DEF GuardInv
<1>2. GuardInv /\ [\/ GuardNext \/ guard' = GuardIdle
                   \/ \E call \in GuardCalls, others \in 0 .. MaxInFlight : GuardArrives(call, others)]_guard
        => GuardInv'
  <2>1. ASSUME GuardInv, GuardNext PROVE GuardInv'
    BY <2>1, GuardStep
  <2>2. ASSUME guard' = GuardIdle PROVE GuardInv'
    BY <2>2, IdleOK DEF GuardInv
  <2>3. ASSUME NEW call \in GuardCalls, NEW others \in 0 .. MaxInFlight, GuardArrives(call, others)
        PROVE  GuardInv'
    BY <2>3, ArrivalOK
  <2>4. ASSUME GuardInv, UNCHANGED guard PROVE GuardInv'
    BY <2>4 DEF GuardInv
  <2> QED
    BY <2>1, <2>2, <2>3, <2>4
<1> QED
  BY <1>1, <1>2, PTL DEF GuardSpec

\* A call that the guard lets through names its command once, as a string, at the top level of
\* its input (input.go:58-91), whatever the rules, the limits and the requests.
THEOREM UnambiguousCommand == GuardSpec => []CommandIsUnambiguous
<1>1. GuardInv => CommandIsUnambiguous
  BY GuardInvSuffices
<1> QED
  BY <1>1, GuardInvHolds, PTL

\* The work of one call is bounded by the limits as a whole, through any nesting of wrappers and
\* inline scripts, and permits are those of the calls being analysed (parser.go:40-56,
\* guard.go:46-49, syntax_policy.go:34-42).
THEOREM GlobalBudgets == GuardSpec => []BudgetsAreGlobal
<1>1. GuardInv => BudgetsAreGlobal
  BY GuardInvSuffices
<1> QED
  BY <1>1, GuardInvHolds, PTL

-----------------------------------------------------------------------------
(* toolresultredactor: the matches that count                               *)

\* The matches of a text of a given length, and what a list of them covers
Spans(n) == {m \in Matches : m.start < m.end /\ m.end <= n}
In(m, p) == m.start <= p /\ p < m.end
Hits(ranges, p) == \E i \in 1 .. Len(ranges) : In(ranges[i], p)

\* A match is a pair of numbers, the second greater and within the text.
LEMMA SpanNumbers ==
    ASSUME NEW n, NEW m \in Spans(n)
    PROVE  m.start \in Nat /\ m.end \in Nat /\ m.start < m.end /\ m.end <= n /\ m \in Matches
BY DEF Spans, Matches

\* No expression finds more matches than there are bytes: each ends behind the one before.
LEMMA FewMatches ==
    ASSUME NEW n \in Nat, NEW t \in Seq(Spans(n)),
           \A i \in 1 .. Len(t) : i > 1 => t[i - 1].end <= t[i].start
    PROVE  Len(t) <= n
<1>l. Len(t) \in Nat /\ \A i \in 1 .. Len(t) : t[i] \in Spans(n)
  OBVIOUS
<1>1. PICK S : S = {k \in 0 .. Len(t) : k >= 1 => k <= t[k].end}
  OBVIOUS
<1>2. 0 \in S
  BY <1>1, <1>l
<1>3. ASSUME NEW k \in 1 .. Len(t), k - 1 \in S PROVE k \in S
  <2>1. PICK a \in Nat, b \in Nat : a = t[k].start /\ b = t[k].end /\ a < b
    BY <1>l, SpanNumbers
  <2>2. CASE k = 1
    BY <2>1, <2>2, <1>1, <1>l
  <2>3. CASE k > 1
    <3>1. k - 1 \in 1 .. Len(t) /\ k \in 0 .. Len(t) /\ k - 1 >= 1
      BY <2>3, <1>l
    <3>2. PICK c \in Nat : c = t[k - 1].end
      BY <3>1, <1>l, SpanNumbers
    <3>3. k - 1 <= c /\ c <= a
      BY <3>1, <3>2, <2>1, <2>3, <1>1, <1>3
    <3>4. k <= b
      BY <3>3, <2>1
    <3> QED
      BY <3>1, <3>4, <2>1, <1>1
  <2> QED
    BY <2>2, <2>3
<1>4. \A k \in 0 .. Len(t) : k \in S
  BY <1>2, <1>3, <1>l, EveryRound
<1>5. CASE Len(t) = 0
  BY <1>5
<1>6. CASE Len(t) > 0
  <2>1. Len(t) \in 1 .. Len(t) /\ Len(t) \in 0 .. Len(t)
    BY <1>6, <1>l
  <2>2. Len(t) <= t[Len(t)].end
    BY <2>1, <1>1, <1>4
  <2>3. t[Len(t)].end \in Nat /\ t[Len(t)].end <= n
    BY <2>1, <1>l, SpanNumbers
  <2> QED
    BY <2>2, <2>3, <1>l
<1> QED
  BY <1>5, <1>6, <1>l

\* A list of matches holds those of t whose number is in K.
Gathers(a, t, K, n) ==
    /\ a \in Seq(Spans(n)) /\ Len(a) = Cardinality(K)
    /\ \A p \in Nat : Hits(a, p) <=> \E i \in K : In(t[i], p)

\* What a list covers when a match is added
LEMMA HitsAppend ==
    ASSUME NEW n, NEW a \in Seq(Spans(n)), NEW m \in Spans(n), NEW p
    PROVE  Hits(Append(a, m), p) <=> Hits(a, p) \/ In(m, p)
<1>1. PICK b : b = Append(a, m)
  OBVIOUS
<1>2. Len(b) = Len(a) + 1 /\ Len(a) \in Nat /\ b[Len(a) + 1] = m /\ \A i \in 1 .. Len(a) : b[i] = a[i]
  BY <1>1
<1>3. 1 .. Len(b) = (1 .. Len(a)) \cup {Len(a) + 1}
  BY <1>2
<1>4. (\E i \in 1 .. Len(b) : In(b[i], p)) <=> (\E i \in 1 .. Len(a) : In(a[i], p)) \/ In(m, p)
  BY <1>2, <1>3, Zenon
<1> QED
  BY <1>1, <1>4 DEF Hits

Untouched(t) == Kept(LAMBDA m : ~m.touches, t)

\* The states of the loop that drops the matches that touch a longer word
LEMMA KeptTable ==
    ASSUME NEW n, NEW t \in Seq(Spans(n))
    PROVE  \E f : /\ Untouched(t) = f[Len(t)] /\ f[0] = <<>>
                  /\ \A k \in 0 .. Len(t) : f[k] \in Seq(Spans(n))
                  /\ \A k \in 1 .. Len(t) :
                        f[k] = IF ~t[k].touches THEN Append(f[k - 1], t[k]) ELSE f[k - 1]
<1> DEFINE Rec(g) == [k \in 0 .. Len(t) |->
                        IF k = 0 THEN <<>> ELSE IF ~t[k].touches THEN Append(g[k - 1], t[k]) ELSE g[k - 1]]
<1>0. PICK X : X = Spans(n)
  OBVIOUS
<1>l. Len(t) \in Nat /\ \A k \in 1 .. Len(t) : t[k] \in X
  BY <1>0
<1>1. PICK body : body = [k \in 1 .. Len(t) |-> [v \in Seq(X) |-> IF ~t[k].touches THEN Append(v, t[k]) ELSE v]]
  OBVIOUS
<1>t. \A k \in 1 .. Len(t), v \in Seq(X) : (IF ~t[k].touches THEN Append(v, t[k]) ELSE v) \in Seq(X)
  BY <1>l
<1>2. body \in [1 .. Len(t) -> [Seq(X) -> Seq(X)]]
  BY <1>1, <1>t
<1>e. <<>> \in Seq(X)
  OBVIOUS
<1>3. PICK g \in [0 .. Len(t) -> Seq(X)] : Steps(g, <<>>, body, Len(t))
  BY <1>2, <1>l, <1>e, RoundsExist
<1>4. g = Rec(g)
  <2>1. ASSUME NEW k \in 0 .. Len(t), k # 0
        PROVE  g[k] = IF ~t[k].touches THEN Append(g[k - 1], t[k]) ELSE g[k - 1]
    <3>1. k \in 1 .. Len(t) /\ k - 1 \in 0 .. Len(t)
      BY <2>1, <1>l
    <3>2. /\ g[k - 1] \in Seq(X)
          /\ body[k] = [v \in Seq(X) |-> IF ~t[k].touches THEN Append(v, t[k]) ELSE v]
      BY <1>1, <3>1
    <3>3. g[k] = body[k][g[k - 1]]
      BY <1>3, <3>1 DEF Steps
    <3> QED
      BY <3>2, <3>3
  <2>2. g[0] = <<>>
    BY <1>3 DEF Steps
  <2> QED
    BY <2>1, <2>2
<1>5. PICK f : f = CHOOSE h : h = Rec(h)
  OBVIOUS
<1>6. Untouched(t) = f[Len(t)]
  BY <1>5 DEF Untouched, Kept, Loop, LoopStates
<1>7. f = Rec(f)
  BY <1>4, <1>5
<1>8. f[0] = <<>> /\ \A k \in 1 .. Len(t) : f[k] = IF ~t[k].touches THEN Append(f[k - 1], t[k]) ELSE f[k - 1]
  <2>1. ASSUME NEW k \in 0 .. Len(t)
        PROVE  f[k] = IF k = 0 THEN <<>> ELSE IF ~t[k].touches THEN Append(f[k - 1], t[k]) ELSE f[k - 1]
    BY <1>7, Zenon
  <2>2. 0 \in 0 .. Len(t) /\ \A k \in 1 .. Len(t) : k \in 0 .. Len(t) /\ k # 0
    BY <1>l
  <2>3. f[0] = <<>>
    BY <2>1, <2>2, Zenon
  <2> QED
    BY <2>1, <2>2, <2>3, Zenon
<1>9. \A k \in 1 .. Len(t) : f[k - 1] \in Seq(X) => f[k] \in Seq(X)
  BY <1>8, <1>t, Zenon
<1>10. \A k \in 0 .. Len(t) : f[k] \in Seq(X)
  BY <1>8, <1>e, <1>9, <1>l, RoundsType
<1> QED
  BY <1>0, <1>6, <1>8, <1>10, Zenon

\* Numbers below the bound, one more
LEMMA CountUp ==
    ASSUME NEW Q, NEW k \in Nat \ {0}, NEW A, A = {i \in 1 .. k - 1 : i \in Q},
           NEW B, B = {i \in 1 .. k : i \in Q}
    PROVE  Cardinality(B) = Cardinality(A) + (IF k \in Q THEN 1 ELSE 0)
<1>2. IsFiniteSet(1 .. k - 1)
  BY FS_Interval
<1>3. IsFiniteSet(A)
  <2>1. A \subseteq 1 .. k - 1
    OBVIOUS
  <2> QED
    BY <1>2, <2>1, FS_Subset
<1>4. k \notin A
  OBVIOUS
<1>5. CASE k \in Q
  <2>1. B = A \cup {k}
    BY <1>5
  <2>2. Cardinality(A \cup {k}) = Cardinality(A) + 1
    BY <1>3, <1>4, FS_AddElement
  <2> QED
    BY <1>5, <2>1, <2>2
<1>6. CASE k \notin Q
  <2>1. B = A
    BY <1>6
  <2>2. Cardinality(A) \in Nat
    BY <1>3, FS_CardinalityType
  <2>3. PICK c \in Nat : c = Cardinality(A)
    BY <2>2
  <2>4. c + 0 = c
    OBVIOUS
  <2> QED
    BY <1>6, <2>1, <2>3, <2>4
<1> QED
  BY <1>5, <1>6

\* What is left are the matches that touch nothing.
LEMMA KeptGathers ==
    ASSUME NEW n, NEW t \in Seq(Spans(n))
    PROVE  Gathers(Untouched(t), t, {i \in 1 .. Len(t) : ~t[i].touches}, n)
<1>1. PICK f : /\ Untouched(t) = f[Len(t)] /\ f[0] = <<>>
               /\ \A k \in 0 .. Len(t) : f[k] \in Seq(Spans(n))
               /\ \A k \in 1 .. Len(t) :
                     f[k] = IF ~t[k].touches THEN Append(f[k - 1], t[k]) ELSE f[k - 1]
  BY KeptTable
<1>0. PICK X : X = Spans(n)
  OBVIOUS
<1>l. Len(t) \in Nat /\ \A k \in 1 .. Len(t) : t[k] \in X
  BY <1>0
<1>2. PICK Q : Q = {i \in 1 .. Len(t) : ~t[i].touches}
  OBVIOUS
<1>3. PICK S : S = {k \in 0 .. Len(t) : Gathers(f[k], t, {i \in 1 .. k : i \in Q}, n)}
  OBVIOUS
<1>4. 0 \in S
  <2>1. {i \in 1 .. 0 : i \in Q} = {} /\ 0 \in 0 .. Len(t) /\ Len(<<>>) = 0 /\ 1 .. 0 = {}
    BY <1>l
  <2>2. Cardinality({}) = 0
    BY FS_EmptySet
  <2>3. <<>> \in Seq(Spans(n))
    OBVIOUS
  <2>4. Gathers(<<>>, t, {}, n)
    BY <2>1, <2>2, <2>3, Zenon DEF Gathers, Hits
  <2>5. PICK Z : Z = {i \in 1 .. 0 : i \in Q}
    OBVIOUS
  <2>6. Gathers(f[0], t, Z, n)
    BY <1>1, <2>1, <2>4, <2>5, Zenon
  <2> QED
    BY <1>3, <2>1, <2>5, <2>6
<1>5. ASSUME NEW k \in 1 .. Len(t), k - 1 \in S PROVE k \in S
  <2>1. k \in 0 .. Len(t) /\ k - 1 \in 0 .. Len(t) /\ k \in Nat \ {0} /\ t[k] \in Spans(n)
    BY <1>l, <1>0
  <2>2. PICK A, B : A = {i \in 1 .. k - 1 : i \in Q} /\ B = {i \in 1 .. k : i \in Q}
    OBVIOUS
  <2>3. PICK v \in Seq(Spans(n)) : v = f[k - 1]
    BY <2>1, <1>1, Zenon
  <2>4. Gathers(v, t, A, n)
    BY <2>2, <2>3, <1>3, <1>5
  <2>5. Cardinality(B) = Cardinality(A) + (IF k \in Q THEN 1 ELSE 0)
    BY <2>1, <2>2, CountUp
  <2>c. Len(v) = Cardinality(A) /\ Len(v) \in Nat
    BY <2>4 DEF Gathers
  <2>6. CASE k \in Q
    <3>1. f[k] = Append(v, t[k])
      BY <2>3, <2>6, <1>1, <1>2
    <3>2. B = A \cup {k}
      BY <2>2, <2>6
    <3>3. PICK w : w = Append(v, t[k])
      OBVIOUS
    <3>4. w \in Seq(Spans(n)) /\ Len(w) = Len(v) + 1
      <4>1. PICK Y : Y = Spans(n)
        OBVIOUS
      <4>2. v \in Seq(Y) /\ t[k] \in Y
        BY <4>1, <2>1
      <4>3. w \in Seq(Y) /\ Len(w) = Len(v) + 1
        BY <4>2, <3>3
      <4> QED
        BY <4>1, <4>3
    <3>5. Len(w) = Cardinality(B)
      BY <3>4, <2>5, <2>6, <2>c
    <3>6. ASSUME NEW p \in Nat PROVE Hits(w, p) <=> \E i \in B : In(t[i], p)
      <4>1. Hits(w, p) <=> Hits(v, p) \/ In(t[k], p)
        BY <3>3, <2>1, HitsAppend
      <4>2. Hits(v, p) <=> \E i \in A : In(t[i], p)
        BY <2>4 DEF Gathers
      <4> QED
        BY <4>1, <4>2, <3>2, Zenon
    <3>7. Gathers(w, t, B, n)
      BY <3>4, <3>5, <3>6, Zenon DEF Gathers
    <3> QED
      BY <3>1, <3>3, <3>7, <2>1, <2>2, <1>3
  <2>7. CASE k \notin Q
    <3>1. f[k] = v
      BY <2>3, <2>7, <1>1, <1>2
    <3>2. B = A
      BY <2>2, <2>7
    <3> QED
      BY <3>1, <3>2, <2>1, <2>2, <2>4, <1>3
  <2> QED
    BY <2>6, <2>7
<1>6. \A k \in 0 .. Len(t) : k \in S
  BY <1>4, <1>5, <1>l, EveryRound
<1>7. Len(t) \in 0 .. Len(t)
  BY <1>l
<1>8. {i \in 1 .. Len(t) : i \in Q} = Q
  BY <1>2
<1>9. Gathers(f[Len(t)], t, Q, n)
  BY <1>3, <1>6, <1>7, <1>8
<1> QED
  BY <1>1, <1>2, <1>9, Zenon

\* Without a look at the bytes next to them all matches are left.
LEMMA AllGathered ==
    ASSUME NEW n, NEW t \in Seq(Spans(n))
    PROVE  Gathers(t, t, 1 .. Len(t), n)
<1>1. Len(t) \in Nat
  OBVIOUS
<1>2. Cardinality(1 .. Len(t)) = Len(t)
  <2>1. PICK k \in Nat : k = Len(t)
    BY <1>1
  <2>2. Cardinality(1 .. k) = IF 1 > k THEN 0 ELSE k - 1 + 1
    BY FS_Interval
  <2>3. Cardinality(1 .. k) = k
    BY <2>2
  <2> QED
    BY <2>1, <2>3
<1> QED
  BY <1>2, Zenon DEF Gathers, Hits

\* The numbers of the matches of a rule that count
Counting(value, r) == {i \in DOMAIN value.matches[r] : Counts(r, value.matches[r][i])}
Meets(value, r, p) == \E i \in Counting(value, r) : In(value.matches[r][i], p)

\* The parts of a text have their types.
LEMMA TextFacts ==
    ASSUME NEW value \in Texts
    PROVE  /\ value.length \in Nat /\ value.placeholder \in BOOLEAN /\ value.utf8 \in BOOLEAN
           /\ Len(value.matches) \in Nat /\ DOMAIN value.matches = 1 .. Len(value.matches)
           /\ \A r \in 1 .. Len(value.matches) : value.matches[r] \in Seq(Matches)
<1>1. value \in [length : Nat, utf8 : BOOLEAN, placeholder : BOOLEAN, matches : Seq(Seq(Matches))]
  BY DEF Texts
<1>2. PICK Y : Y = Seq(Matches)
  OBVIOUS
<1>3. value \in [length : Nat, utf8 : BOOLEAN, placeholder : BOOLEAN, matches : Seq(Y)]
  BY <1>1, <1>2
<1>4. /\ value.length \in Nat /\ value.placeholder \in BOOLEAN /\ value.utf8 \in BOOLEAN
      /\ value.matches \in Seq(Y)
  BY <1>3
<1>5. /\ Len(value.matches) \in Nat /\ DOMAIN value.matches = 1 .. Len(value.matches)
      /\ \A r \in 1 .. Len(value.matches) : value.matches[r] \in Y
  BY <1>4
<1> QED
  BY <1>2, <1>4, <1>5, Zenon

\* The matches of one rule lie within the text, and are no more than its bytes.
LEMMA RuleMatches ==
    ASSUME NEW value \in Texts, NEW r \in DOMAIN value.matches
    PROVE  value.matches[r] \in Seq(Spans(value.length)) /\ Len(value.matches[r]) <= value.length
<1>1. PICK t, n : t = value.matches[r] /\ n = value.length
  OBVIOUS
<1>2. t \in Seq(Matches) /\ n \in Nat
  BY <1>1, TextFacts
<1>3. \A i \in DOMAIN t : LET m == t[i] IN m.start < m.end /\ m.end <= n /\ (i > 1 => t[i - 1].end <= m.start)
  BY <1>1 DEF Texts
<1>4. PICK Y : Y = Matches
  OBVIOUS
<1>5. Len(t) \in Nat /\ DOMAIN t = 1 .. Len(t) /\ \A i \in 1 .. Len(t) : t[i] \in Y
  BY <1>2, <1>4
<1>6. \A i \in 1 .. Len(t) : t[i] \in Spans(n)
  BY <1>3, <1>4, <1>5, Zenon DEF Spans
<1>7. t \in Seq(Spans(n))
  <2>1. PICK X : X = Spans(n)
    OBVIOUS
  <2>2. \A i \in 1 .. Len(t) : t[i] \in X
    BY <1>6, <2>1
  <2>3. t \in Seq(X)
    BY <2>2, <1>2, <1>5
  <2> QED
    BY <2>1, <2>3
<1>8. \A i \in 1 .. Len(t) : i > 1 => t[i - 1].end <= t[i].start
  BY <1>3, <1>5
<1>9. Len(t) <= n
  BY <1>2, <1>7, <1>8, FewMatches
<1> QED
  BY <1>1, <1>7, <1>9

\* find returns all matches that count when there is room for them.
LEMMA FindGathers ==
    ASSUME NEW value \in Texts, NEW r \in DOMAIN value.matches, NEW room \in Nat, NEW found,
           found = find(r, value, IF room < value.length THEN room + 1 ELSE value.length)
    PROVE  /\ Cardinality(Counting(value, r)) \in Nat
           /\ Len(found) > room <=> Cardinality(Counting(value, r)) > room
           /\ Cardinality(Counting(value, r)) <= room
                => Gathers(found, value.matches[r], Counting(value, r), value.length)
<1>1. PICK t, n, K : t = value.matches[r] /\ n = value.length /\ K = Counting(value, r)
  OBVIOUS
<1>2. t \in Seq(Spans(n)) /\ Len(t) <= n
  BY <1>1, RuleMatches
<1>3. n \in Nat /\ Len(t) \in Nat /\ DOMAIN t = 1 .. Len(t)
  BY <1>1, <1>2, TextFacts
<1>4. PICK all : all = IF r \in BoundaryRules THEN Untouched(t) ELSE t
  OBVIOUS
<1>5. Gathers(all, t, K, n)
  <2>1. CASE r \in BoundaryRules
    <3>1. K = {i \in 1 .. Len(t) : ~t[i].touches}
      BY <1>1, <1>3, <2>1 DEF Counting, Counts
    <3> QED
      BY <3>1, <2>1, <1>2, <1>4, KeptGathers
  <2>2. CASE r \notin BoundaryRules
    <3>1. K = 1 .. Len(t)
      BY <1>1, <1>3, <2>2 DEF Counting, Counts
    <3> QED
      BY <3>1, <2>2, <1>2, <1>4, AllGathered
  <2> QED
    BY <2>1, <2>2
<1>6. PICK c \in Nat : c = Len(all) /\ c = Cardinality(K)
  BY <1>5 DEF Gathers
<1>7. c <= Len(t)
  <2>1. K \subseteq 1 .. Len(t)
    BY <1>1, <1>3 DEF Counting
  <2>2. IsFiniteSet(1 .. Len(t)) /\ Cardinality(1 .. Len(t)) = Len(t)
    <3>1. PICK k \in Nat : k = Len(t)
      BY <1>3
    <3>2. IsFiniteSet(1 .. k) /\ Cardinality(1 .. k) = IF 1 > k THEN 0 ELSE k - 1 + 1
      BY FS_Interval
    <3>3. Cardinality(1 .. k) = k
      BY <3>2
    <3> QED
      BY <3>1, <3>2, <3>3
  <2>3. Cardinality(K) <= Cardinality(1 .. Len(t))
    BY <2>1, <2>2, FS_Subset
  <2> QED
    BY <2>2, <2>3, <1>6
<1>8. PICK limit \in Nat : limit = IF room < n THEN room + 1 ELSE n
  BY <1>3
<1>9. found = SubSeq(all, 1, Min({limit, Len(all)}))
  BY <1>1, <1>4, <1>8, Zenon DEF find, Untouched
<1>10. PICK m \in Nat : m = Min({limit, Len(all)}) /\ m = (IF limit <= c THEN limit ELSE c)
  BY <1>6, MinPair
<1>11. Len(found) = m /\ (m = c => found = all)
  <2>1. PICK X : X = Spans(n)
    OBVIOUS
  <2>2. all \in Seq(X)
    BY <2>1, <1>5 DEF Gathers
  <2>m. m <= c
    BY <1>10
  <2>3. m <= Len(all) /\ 1 <= m + 1 /\ found = SubSeq(all, 1, m)
    <3>1. m <= Len(all) /\ 1 <= m + 1
      BY <2>m, <1>6
    <3>2. found = SubSeq(all, 1, m)
      BY <1>9, <1>10, Zenon
    <3> QED
      BY <3>1, <3>2
  <2>4. Len(found) = m
    BY <2>2, <2>3
  <2>5. ASSUME m = c PROVE found = all
    <3>1. found = SubSeq(all, 1, Len(all))
      BY <2>3, <2>5, <1>6
    <3> QED
      BY <2>2, <3>1, SubSeqFull
  <2> QED
    BY <2>4, <2>5
<1>a. c <= n
  BY <1>2, <1>3, <1>7
<1>b. (limit = IF room < n THEN room + 1 ELSE n) /\ (m = IF limit <= c THEN limit ELSE c)
  BY <1>8, <1>10
<1>12. Len(found) > room <=> c > room
  <2>1. m > room <=> c > room
    BY <1>3, <1>a, <1>b
  <2> QED
    BY <2>1, <1>11
<1>13. c <= room => m = c
  BY <1>3, <1>a, <1>b
<1> QED
  BY <1>1, <1>5, <1>6, <1>11, <1>12, <1>13

\* What collect has gathered: within the budget
Collection(s, a) == [state |-> s, ranges |-> a]
Collections(n) ==
    {Collection(s, a) : s \in {"unchanged", "unsafe"},
                        a \in {b \in Seq(Spans(n)) : Len(b) <= RedactLimit.matches}}

\* A state and few enough ranges make a collection.
LEMMA CollectionIn ==
    ASSUME NEW n, NEW s \in {"unchanged", "unsafe"}, NEW a \in Seq(Spans(n)), Len(a) <= RedactLimit.matches
    PROVE  Collection(s, a) \in Collections(n)
<1>1. PICK B : B = {b \in Seq(Spans(n)) : Len(b) <= RedactLimit.matches}
  OBVIOUS
<1>2. a \in B
  BY <1>1
<1>3. Collection(s, a) \in {Collection(x, b) : x \in {"unchanged", "unsafe"}, b \in B}
  BY <1>2
<1> QED
  BY <1>1, <1>3 DEF Collections

\* A rule stops the collection or adds all its matches that count.
CollectedRule(w, value, r, s, a) ==
    \/ /\ s = "unsafe" \/ Len(a) + Cardinality(Counting(value, r)) > RedactLimit.matches
       /\ w = Collection("unsafe", a)
    \/ /\ s # "unsafe" /\ Len(a) + Cardinality(Counting(value, r)) <= RedactLimit.matches
       /\ \E b : /\ Gathers(b, value.matches[r], Counting(value, r), value.length)
                 /\ w = Collection(s, a \o b)

\* One rule adds all its matches that count, or the budget is exceeded.
LEMMA CollectRule ==
    ASSUME NEW value \in Texts, NEW r \in DOMAIN value.matches, NEW s \in {"unchanged", "unsafe"},
           NEW a \in Seq(Spans(value.length)), Len(a) <= RedactLimit.matches
    PROVE  CollectedRule(collectRule(value, Collection(s, a), r), value, r, s, a)
<1>1. PICK acc : acc = Collection(s, a)
  OBVIOUS
<1>2. acc.state = s /\ acc.ranges = a
  BY <1>1 DEF Collection
<1>3. PICK l \in Nat, k \in Nat : l = RedactLimit.matches /\ k = Len(a) /\ k <= l
  BY RedactAssumption
<1>4. PICK room \in Nat : room = l - k
  BY <1>3
<1>5. PICK found : found = find(r, value, IF room < value.length THEN room + 1 ELSE value.length)
  OBVIOUS
<1>6. PICK c \in Nat : c = Cardinality(Counting(value, r))
  BY <1>5, FindGathers
<1>7. (Len(found) > room <=> c > room)
      /\ (c <= room => Gathers(found, value.matches[r], Counting(value, r), value.length))
  BY <1>5, <1>6, FindGathers
<1>8. collectRule(value, acc, r) = IF acc.state = "unsafe" \/ Len(found) > room
                                     THEN [acc EXCEPT !.state = "unsafe"]
                                     ELSE [acc EXCEPT !.ranges = @ \o found]
  <2>1. room = RedactLimit.matches - Len(acc.ranges)
    BY <1>2, <1>3, <1>4
  <2> QED
    BY <2>1, <1>5, Zenon DEF collectRule
<1>9. CASE s = "unsafe" \/ c > room
  <2>1. collectRule(value, acc, r) = [acc EXCEPT !.state = "unsafe"]
    BY <1>2, <1>7, <1>8, <1>9
  <2>2. [acc EXCEPT !.state = "unsafe"] = Collection("unsafe", a)
    BY <1>1 DEF Collection
  <2>3. s = "unsafe" \/ k + c > l
    BY <1>3, <1>4, <1>9
  <2> QED
    BY <2>1, <2>2, <2>3, <1>1, <1>3, <1>6 DEF CollectedRule
<1>10. CASE ~(s = "unsafe" \/ c > room)
  <2>1. collectRule(value, acc, r) = [acc EXCEPT !.ranges = @ \o found]
    BY <1>2, <1>7, <1>8, <1>10
  <2>2. PICK b : b = a \o found
    OBVIOUS
  <2>3. [acc EXCEPT !.ranges = b] = Collection(s, b)
    BY <1>1 DEF Collection
  <2>4. [acc EXCEPT !.ranges = @ \o found] = [acc EXCEPT !.ranges = b]
    BY <1>2, <2>2
  <2>5. k + c <= l /\ s # "unsafe" /\ c <= room
    BY <1>3, <1>4, <1>10
  <2>6. Gathers(found, value.matches[r], Counting(value, r), value.length)
    BY <2>5, <1>7
  <2> QED
    BY <2>1, <2>2, <2>3, <2>4, <2>5, <2>6, <1>1, <1>3, <1>6, Zenon DEF CollectedRule
<1> QED
  BY <1>9, <1>10

\* What two lists cover
LEMMA HitsConcat ==
    ASSUME NEW n, NEW a \in Seq(Spans(n)), NEW b \in Seq(Spans(n)), NEW p
    PROVE  Hits(a \o b, p) <=> Hits(a, p) \/ Hits(b, p)
<1>1. PICK w, x, y : w = a \o b /\ x = Len(a) /\ y = Len(b)
  OBVIOUS
<1>2. x \in Nat /\ y \in Nat
  BY <1>1
<1>3. Joined(w, a, x, b, y, Spans(n))
  BY <1>1, <1>2, Concat
<1>4. Len(w) = x + y /\ (\A i \in 1 .. x : w[i] = a[i]) /\ (\A i \in 1 .. y : w[x + i] = b[i])
  BY <1>3 DEF Joined
<1>5. ASSUME NEW i \in 1 .. Len(w), In(w[i], p) PROVE Hits(a, p) \/ Hits(b, p)
  <2>1. CASE i <= x
    <3>1. i \in 1 .. x
      BY <2>1, <1>2, <1>4
    <3>2. w[i] = a[i]
      BY <3>1, <1>4
    <3> QED
      BY <3>1, <3>2, <1>1, <1>5 DEF Hits
  <2>2. CASE i > x
    <3>1. PICK j \in 1 .. y : i = x + j
      <4>1. i - x \in 1 .. y /\ i = x + (i - x)
        BY <2>2, <1>2, <1>4
      <4> QED
        BY <4>1
    <3>2. w[i] = b[j]
      BY <3>1, <1>4
    <3> QED
      BY <3>1, <3>2, <1>1, <1>5 DEF Hits
  <2> QED
    BY <2>1, <2>2, <1>2
<1>6. ASSUME NEW i \in 1 .. x, In(a[i], p) PROVE Hits(w, p)
  <2>1. i \in 1 .. Len(w) /\ w[i] = a[i]
    BY <1>2, <1>4
  <2> QED
    BY <2>1, <1>6 DEF Hits
<1>7. ASSUME NEW i \in 1 .. y, In(b[i], p) PROVE Hits(w, p)
  <2>1. x + i \in 1 .. Len(w) /\ w[x + i] = b[i]
    BY <1>2, <1>4
  <2> QED
    BY <2>1, <1>7 DEF Hits
<1> QED
  BY <1>1, <1>5, <1>6, <1>7, Zenon DEF Hits

\* A rule keeps what is gathered within the budget.
LEMMA CollectType ==
    ASSUME NEW value \in Texts, NEW r \in DOMAIN value.matches, NEW acc \in Collections(value.length)
    PROVE  collectRule(value, acc, r) \in Collections(value.length)
<1>1. PICK s \in {"unchanged", "unsafe"}, a \in Seq(Spans(value.length)) :
          acc = Collection(s, a) /\ Len(a) <= RedactLimit.matches
  BY DEF Collections
<1>2. PICK w : w = collectRule(value, acc, r)
  OBVIOUS
<1>3. CollectedRule(w, value, r, s, a)
  BY <1>1, <1>2, CollectRule
<1>4. CASE w = Collection("unsafe", a)
  <2>1. "unsafe" \in {"unchanged", "unsafe"}
    OBVIOUS
  <2> QED
    BY <2>1, <1>1, <1>2, <1>4, CollectionIn
<1>5. CASE w # Collection("unsafe", a)
  <2>1. PICK b : /\ Gathers(b, value.matches[r], Counting(value, r), value.length)
                 /\ w = Collection(s, a \o b)
                 /\ Len(a) + Cardinality(Counting(value, r)) <= RedactLimit.matches
    BY <1>3, <1>5, Zenon DEF CollectedRule
  <2>2. b \in Seq(Spans(value.length)) /\ Len(b) = Cardinality(Counting(value, r))
    BY <2>1 DEF Gathers
  <2>3. PICK X, v : X = Spans(value.length) /\ v = a \o b
    OBVIOUS
  <2>4. v \in Seq(X) /\ Len(v) = Len(a) + Len(b)
    BY <2>2, <2>3, <1>1
  <2>5. Len(v) <= RedactLimit.matches
    BY <2>1, <2>2, <2>4
  <2> QED
    BY <2>1, <2>3, <2>4, <2>5, <1>1, <1>2, CollectionIn
<1> QED
  BY <1>4, <1>5

\* The states of the loop over the rules
LEMMA CollectTable ==
    ASSUME NEW value \in Texts
    PROVE  \E f : /\ collect(value) = f[Len(value.matches)] /\ f[0] = Collection("unchanged", <<>>)
                  /\ \A k \in 0 .. Len(value.matches) : f[k] \in Collections(value.length)
                  /\ \A k \in 1 .. Len(value.matches) : f[k] = collectRule(value, f[k - 1], k)
<1>0. PICK N \in Nat : N = Len(value.matches) /\ DOMAIN value.matches = 1 .. N
  BY TextFacts
<1> DEFINE first == Collection("unchanged", <<>>)
           V == Collections(value.length)
           Rec(g) == [k \in 0 .. N |-> IF k = 0 THEN first ELSE collectRule(value, g[k - 1], k)]
<1>1. first \in V
  <2>1. <<>> \in Seq(Spans(value.length)) /\ Len(<<>>) = 0 /\ 0 <= RedactLimit.matches
    BY RedactAssumption
  <2> QED
    BY <2>1, CollectionIn
<1>t. \A k \in 1 .. N, v \in V : collectRule(value, v, k) \in V
  BY <1>0, CollectType
<1> HIDE DEF V, first
<1>2. PICK body : body = [k \in 1 .. N |-> [v \in V |-> collectRule(value, v, k)]]
  OBVIOUS
<1>3. body \in [1 .. N -> [V -> V]]
  BY <1>2, <1>t
<1>4. PICK g \in [0 .. N -> V] : Steps(g, first, body, N)
  BY <1>1, <1>3, RoundsExist
<1>5. g = Rec(g)
  <2>1. ASSUME NEW k \in 0 .. N, k # 0 PROVE g[k] = collectRule(value, g[k - 1], k)
    <3>1. k \in 1 .. N /\ k - 1 \in 0 .. N
      BY <2>1
    <3>2. g[k - 1] \in V /\ body[k] = [v \in V |-> collectRule(value, v, k)]
      BY <1>2, <3>1
    <3>3. g[k] = body[k][g[k - 1]]
      BY <1>4, <3>1 DEF Steps
    <3> QED
      BY <3>2, <3>3
  <2>2. g[0] = first
    BY <1>4 DEF Steps
  <2> QED
    BY <2>1, <2>2
<1>6. PICK f : f = CHOOSE h : h = Rec(h)
  OBVIOUS
<1>7. collect(value) = f[N]
  <2>1. PICK s : s = [i \in DOMAIN value.matches |-> i]
    OBVIOUS
  <2>2. Len(s) = N /\ \A k \in 0 .. N : k # 0 => s[k] = k
    BY <1>0, <2>1
  <2>3. \A h : Rec(h) = [k \in 0 .. Len(s) |-> IF k = 0 THEN first ELSE collectRule(value, h[k - 1], s[k])]
    BY <2>2
  <2>4. f = CHOOSE h : h = [k \in 0 .. Len(s) |-> IF k = 0 THEN first ELSE collectRule(value, h[k - 1], s[k])]
    BY <1>6, <2>3
  <2>5. collect(value) = f[Len(s)]
    BY <2>1, <2>4 DEF collect, Loop, LoopStates, first, Collection
  <2> QED
    BY <2>2, <2>5
<1>8. f = Rec(f)
  BY <1>5, <1>6
<1>9. f[0] = first /\ \A k \in 1 .. N : f[k] = collectRule(value, f[k - 1], k)
  <2>1. ASSUME NEW k \in 0 .. N PROVE f[k] = IF k = 0 THEN first ELSE collectRule(value, f[k - 1], k)
    BY <1>8, Zenon
  <2>2. 0 \in 0 .. N /\ \A k \in 1 .. N : k \in 0 .. N /\ k # 0
    OBVIOUS
  <2> QED
    BY <2>1, <2>2, Zenon
<1>10. \A k \in 1 .. N : f[k - 1] \in V => f[k] \in V
  BY <1>9, <1>t, Zenon
<1>11. \A k \in 0 .. N : f[k] \in V
  BY <1>9, <1>1, <1>10, RoundsType
<1> QED
  BY <1>0, <1>7, <1>9, <1>11, Zenon DEF V, first

\* After k rules the budget is exceeded, or all their matches that count are there.
MatchCounts(value) == [r \in DOMAIN value.matches |-> Cardinality(Counting(value, r))]
Gathered(a, value, k) ==
    /\ Len(a) = Totals(MatchCounts(value))[k] /\ Len(a) <= RedactLimit.matches
    /\ \A p \in Nat : Hits(a, p) <=> \E r \in 1 .. k : Meets(value, r, p)
CollectOK(w, value, k) ==
    \E s, a : /\ w = Collection(s, a) /\ a \in Seq(Spans(value.length)) /\ Len(a) <= RedactLimit.matches
              /\ \/ s = "unsafe" /\ Totals(MatchCounts(value))[k] > RedactLimit.matches
                 \/ s = "unchanged" /\ Gathered(a, value, k)

\* The number of matches is the sum, rule by rule, of those that count.
LEMMA CountsTable ==
    ASSUME NEW value \in Texts, NEW N, N = Len(value.matches), NEW T, T = Totals(MatchCounts(value))
    PROVE  /\ T[0] = 0 /\ \A k \in 0 .. N : T[k] \in Nat
           /\ \A k \in 1 .. N : /\ T[k] = T[k - 1] + Cardinality(Counting(value, k))
                                /\ Cardinality(Counting(value, k)) \in Nat
           /\ T[N] = MatchCount(value)
<1>0. N \in Nat /\ DOMAIN value.matches = 1 .. N
  BY TextFacts
<1>1. PICK c : c = MatchCounts(value)
  OBVIOUS
<1>2. \A k \in 1 .. N : Cardinality(Counting(value, k)) \in Nat
  BY <1>0, FindGathers
<1>3. c = [r \in 1 .. N |-> Cardinality(Counting(value, r))]
  BY <1>0, <1>1 DEF MatchCounts
<1>4. c \in Seq(Nat) /\ Len(c) = N
  BY <1>0, <1>2, <1>3
<1>5. \A k \in 1 .. N : c[k] = Cardinality(Counting(value, k))
  BY <1>3
<1>6. T \in [0 .. N -> Nat] /\ T[0] = 0 /\ \A k \in 1 .. N : T[k] = T[k - 1] + c[k]
  BY <1>1, <1>4, TotalsTable
<1>7. MatchCount(value) = Total(c)
  BY <1>1, Zenon DEF MatchCount, MatchCounts, Counting
<1>8. T[N] = Total(c)
  BY <1>1, <1>4 DEF Total
<1> QED
  BY <1>2, <1>5, <1>6, <1>7, <1>8

\* One rule more
LEMMA CollectStep ==
    ASSUME NEW value \in Texts, NEW k \in 1 .. Len(value.matches), NEW w, CollectOK(w, value, k - 1)
    PROVE  CollectOK(collectRule(value, w, k), value, k)
<1>0. PICK N \in Nat : N = Len(value.matches) /\ DOMAIN value.matches = 1 .. N
  BY TextFacts
<1>1. PICK s, a : /\ w = Collection(s, a) /\ a \in Seq(Spans(value.length)) /\ Len(a) <= RedactLimit.matches
                  /\ \/ s = "unsafe" /\ Totals(MatchCounts(value))[k - 1] > RedactLimit.matches
                     \/ s = "unchanged" /\ Gathered(a, value, k - 1)
  BY DEF CollectOK
<1>2. PICK T : T = Totals(MatchCounts(value))
  OBVIOUS
<1>3. PICK x \in Nat, c \in Nat, l \in Nat :
          x = T[k - 1] /\ c = Cardinality(Counting(value, k)) /\ T[k] = x + c /\ l = RedactLimit.matches
  <2>1. k - 1 \in 0 .. N /\ k \in 1 .. N
    BY <1>0
  <2> QED
    <3>1. /\ \A i \in 0 .. N : T[i] \in Nat
          /\ \A i \in 1 .. N : /\ T[i] = T[i - 1] + Cardinality(Counting(value, i))
                               /\ Cardinality(Counting(value, i)) \in Nat
      BY <1>0, <1>2, CountsTable
    <3>2. T[k - 1] \in Nat /\ T[k] = T[k - 1] + Cardinality(Counting(value, k))
          /\ Cardinality(Counting(value, k)) \in Nat
      BY <2>1, <3>1
    <3> QED
      BY <3>2, RedactAssumption
<1>4. PICK v : v = collectRule(value, w, k)
  OBVIOUS
<1>5. CollectedRule(v, value, k, s, a)
  <2>1. s \in {"unchanged", "unsafe"} /\ k \in DOMAIN value.matches
    BY <1>0, <1>1
  <2> QED
    BY <2>1, <1>1, <1>4, CollectRule
<1>6. Gathered(a, value, k - 1) => Len(a) = x
  BY <1>2, <1>3 DEF Gathered
<1>7. CASE s = "unsafe" \/ Len(a) + c > l
  <2>1. v = Collection("unsafe", a)
    <3>1. s = "unsafe" \/ ~(Len(a) + c <= l)
      BY <1>1, <1>3, <1>7
    <3> QED
      BY <3>1, <1>3, <1>5, Zenon DEF CollectedRule
  <2>2. x > l \/ Len(a) = x
    BY <1>1, <1>2, <1>3, <1>6
  <2>3. x > l \/ x + c > l
    <3>1. CASE s = "unsafe"
      BY <3>1, <1>1, <1>2, <1>3
    <3>2. CASE Len(a) + c > l
      BY <3>2, <2>2
    <3> QED
      BY <3>1, <3>2, <1>7
  <2>4. x + c > l
    BY <2>3
  <2>5. Totals(MatchCounts(value))[k] > RedactLimit.matches
    BY <2>4, <1>2, <1>3
  <2> QED
    BY <2>1, <2>5, <1>1, <1>4 DEF CollectOK
<1>8. CASE ~(s = "unsafe" \/ Len(a) + c > l)
  <2>0. s = "unchanged" /\ Gathered(a, value, k - 1) /\ Len(a) = x
    BY <1>1, <1>6, <1>8
  <2>1. PICK b : Gathers(b, value.matches[k], Counting(value, k), value.length) /\ v = Collection(s, a \o b)
    <3>1. ~(s = "unsafe" \/ Len(a) + Cardinality(Counting(value, k)) > RedactLimit.matches)
      BY <1>3, <1>8
    <3>2. \E b : Gathers(b, value.matches[k], Counting(value, k), value.length) /\ v = Collection(s, a \o b)
      BY <3>1, <1>5 DEF CollectedRule
    <3> QED
      BY <3>2
  <2>2. b \in Seq(Spans(value.length)) /\ Len(b) = c
    BY <2>1, <1>3 DEF Gathers
  <2>3. PICK X, y : X = Spans(value.length) /\ y = a \o b
    OBVIOUS
  <2>a. a \in Seq(X) /\ b \in Seq(X)
    BY <2>2, <2>3, <1>1, Zenon
  <2>4. y \in Seq(X) /\ Len(y) = Len(a) + Len(b)
    BY <2>a, <2>3
  <2>5. Len(y) = T[k] /\ Len(y) <= RedactLimit.matches
    BY <2>0, <2>2, <2>4, <1>3, <1>8
  <2>6. ASSUME NEW p \in Nat PROVE Hits(y, p) <=> \E r \in 1 .. k : Meets(value, r, p)
    <3>1. Hits(y, p) <=> Hits(a, p) \/ Hits(b, p)
      BY <2>2, <2>3, <1>1, HitsConcat
    <3>2. Hits(a, p) <=> \E r \in 1 .. k - 1 : Meets(value, r, p)
      BY <2>0 DEF Gathered
    <3>3. Hits(b, p) <=> Meets(value, k, p)
      BY <2>1 DEF Gathers, Meets
    <3>4. 1 .. k = (1 .. k - 1) \cup {k}
      OBVIOUS
    <3> QED
      BY <3>1, <3>2, <3>3, <3>4, Zenon
  <2>7. Gathered(y, value, k)
    BY <2>5, <2>6, <1>2, Zenon DEF Gathered
  <2> QED
    BY <2>0, <2>1, <2>3, <2>4, <2>5, <2>7, <1>4, Zenon DEF CollectOK
<1> QED
  BY <1>7, <1>8

\* collect gathers every match that counts, or reports that they are too many.
CollectedAll(w, value) ==
    \E s, a : /\ w = Collection(s, a) /\ a \in Seq(Spans(value.length))
              /\ \/ s = "unsafe" /\ MatchCount(value) > RedactLimit.matches
                 \/ /\ s = "unchanged" /\ ~(MatchCount(value) > RedactLimit.matches)
                    /\ \A p \in Nat : Hits(a, p) <=> Covered(value, p)

\* With no more matches than the budget all of them are collected, otherwise the text is unsafe.
LEMMA CollectsAll ==
    ASSUME NEW value \in Texts
    PROVE  CollectedAll(collect(value), value)
<1>0. PICK N \in Nat : N = Len(value.matches) /\ DOMAIN value.matches = 1 .. N
  BY TextFacts
<1>1. PICK f : /\ collect(value) = f[N] /\ f[0] = Collection("unchanged", <<>>)
               /\ \A k \in 1 .. N : f[k] = collectRule(value, f[k - 1], k)
  BY <1>0, CollectTable
<1>2. PICK T : T = Totals(MatchCounts(value))
  OBVIOUS
<1>3. T[0] = 0 /\ T[N] = MatchCount(value) /\ T[N] \in Nat
  <2>1. N \in 0 .. N
    BY <1>0
  <2> QED
    BY <2>1, <1>0, <1>2, CountsTable
<1>4. PICK S : S = {k \in Nat : CollectOK(f[k], value, k)}
  OBVIOUS
<1>5. 0 \in S
  <2>1. PICK e : e = <<>>
    OBVIOUS
  <2>2. e \in Seq(Spans(value.length)) /\ Len(e) = 0 /\ 0 <= RedactLimit.matches /\ 1 .. 0 = {}
    BY <2>1, RedactAssumption
  <2>3. \A p \in Nat : ~Hits(e, p)
    BY <2>2 DEF Hits
  <2>4. Gathered(e, value, 0)
    BY <2>2, <2>3, <1>2, <1>3, Zenon DEF Gathered
  <2>5. Len(e) <= RedactLimit.matches
    BY <2>2
  <2>6. CollectOK(f[0], value, 0)
    BY <2>1, <2>2, <2>4, <2>5, <1>1, Zenon DEF CollectOK
  <2> QED
    BY <2>6, <1>4
<1>6. ASSUME NEW k \in 1 .. N, k - 1 \in S PROVE k \in S
  <2>1. CollectOK(f[k - 1], value, k - 1) /\ k \in Nat
    BY <1>4, <1>6
  <2>2. CollectOK(collectRule(value, f[k - 1], k), value, k)
    BY <2>1, <1>0, CollectStep
  <2> QED
    BY <2>1, <2>2, <1>1, <1>4
<1>7. N \in S
  <2>1. \A k \in 0 .. N : k \in S
    BY <1>5, <1>6, EveryRound
  <2>2. N \in 0 .. N
    OBVIOUS
  <2> QED
    BY <2>1, <2>2
<1>8. PICK s, a : /\ collect(value) = Collection(s, a) /\ a \in Seq(Spans(value.length))
                  /\ \/ s = "unsafe" /\ T[N] > RedactLimit.matches
                     \/ s = "unchanged" /\ Gathered(a, value, N)
  BY <1>1, <1>2, <1>4, <1>7 DEF CollectOK
<1>9. CASE s = "unsafe" /\ T[N] > RedactLimit.matches
  BY <1>3, <1>8, <1>9 DEF CollectedAll
<1>10. CASE s = "unchanged" /\ Gathered(a, value, N)
  <2>1. Len(a) = T[N] /\ Len(a) <= RedactLimit.matches
    BY <1>2, <1>10 DEF Gathered
  <2>2. ~(MatchCount(value) > RedactLimit.matches)
    BY <2>1, <1>3, RedactAssumption
  <2>3. ASSUME NEW p \in Nat PROVE Hits(a, p) <=> Covered(value, p)
    <3>1. Hits(a, p) <=> \E r \in 1 .. N : Meets(value, r, p)
      BY <1>10 DEF Gathered
    <3>2. Covered(value, p) <=> \E r \in 1 .. N : Meets(value, r, p)
      BY <1>0, Zenon DEF Covered, Meets, Counting, In
    <3> QED
      BY <3>1, <3>2
  <2> QED
    BY <2>2, <2>3, <1>8, <1>10, Zenon DEF CollectedAll
<1> QED
  BY <1>8, <1>9, <1>10

-----------------------------------------------------------------------------
(* toolresultredactor: sorting and merging                                  *)

\* The order of sort.Slice is asymmetric and transitive.
LEMMA BeforeOrders ==
    ASSUME NEW n, NEW x \in Spans(n), NEW y \in Spans(n), NEW z \in Spans(n), Before(x, y)
    PROVE  ~Before(y, x) /\ (Before(y, z) => Before(x, z))
<1>1. PICK a \in Nat, b \in Nat, c \in Nat, d \in Nat, e \in Nat, f \in Nat :
          a = x.start /\ b = x.end /\ c = y.start /\ d = y.end /\ e = z.start /\ f = z.end
  BY SpanNumbers
<1>2. a < c \/ (a = c /\ b < d)
  BY <1>1 DEF Before
<1>3. ~(c < a \/ (c = a /\ d < b)) /\ ((c < e \/ (c = e /\ d < f)) => (a < e \/ (a = e /\ b < f)))
  BY <1>2
<1> QED
  BY <1>1, <1>3 DEF Before

\* The first m of the ranges in order, each of them once
Order(p, a, m) ==
    /\ p \in [1 .. m -> 1 .. m] /\ \A k \in 1 .. m : \E i \in 1 .. m : p[i] = k
    /\ \A i, j \in 1 .. m : i < j => ~Before(a[p[j]], a[p[i]])

\* One more range is inserted before the first that comes after it.
LEMMA Insertion ==
    ASSUME NEW n, NEW m \in Nat, NEW a, \A i \in 1 .. m + 1 : a[i] \in Spans(n), NEW p, Order(p, a, m)
    PROVE  \E q : Order(q, a, m + 1)
<1>0. PICK z \in Nat : z = m + 1
  OBVIOUS
<1>1. /\ p \in [1 .. m -> 1 .. m] /\ \A k \in 1 .. m : \E i \in 1 .. m : p[i] = k
      /\ \A i, j \in 1 .. m : i < j => ~Before(a[p[j]], a[p[i]])
  BY DEF Order
<1>2. PICK Q : Q = {i \in 1 .. m : Before(a[z], a[p[i]])}
  OBVIOUS
<1>3. PICK h \in 1 .. m + 1 : (h <= m => h \in Q) /\ \A j \in 1 .. h - 1 : j \notin Q
  BY FirstExists
<1>4. PICK q : q = [j \in 1 .. z |-> IF j = h THEN z ELSE p[IF j < h THEN j ELSE j - 1]]
  OBVIOUS
<1>5. ASSUME NEW j \in 1 .. z, j # h
      PROVE  \E o \in 1 .. m : q[j] = p[o] /\ o = (IF j < h THEN j ELSE j - 1)
  <2>1. PICK o \in 1 .. m : o = IF j < h THEN j ELSE j - 1
    BY <1>0, <1>3, <1>5
  <2> QED
    BY <2>1, <1>4, <1>5
<1>6. q[h] = z /\ h \in 1 .. z /\ z \in 1 .. z
  BY <1>0, <1>3, <1>4
<1>7. q \in [1 .. z -> 1 .. z]
  <2>1. ASSUME NEW j \in 1 .. z PROVE q[j] \in 1 .. z
    <3>1. CASE j = h
      BY <3>1, <1>6
    <3>2. CASE j # h
      <4>1. PICK o \in 1 .. m : q[j] = p[o]
        BY <3>2, <1>5
      <4>2. p[o] \in 1 .. m
        BY <1>1
      <4> QED
        BY <4>1, <4>2, <1>0
    <3> QED
      BY <3>1, <3>2
  <2> QED
    BY <2>1, <1>4
<1>8. ASSUME NEW k \in 1 .. z PROVE \E i \in 1 .. z : q[i] = k
  <2>1. CASE k = z
    BY <2>1, <1>6
  <2>2. CASE k # z
    <3>1. k \in 1 .. m
      BY <2>2, <1>0
    <3>2. PICK o \in 1 .. m : p[o] = k
      BY <3>1, <1>1
    <3>3. PICK i \in 1 .. z : i = IF o < h THEN o ELSE o + 1
      BY <1>0
    <3>4. i # h /\ o = IF i < h THEN i ELSE i - 1
      BY <3>3, <1>3
    <3>5. q[i] = p[o]
      BY <3>4, <1>5
    <3> QED
      BY <3>2, <3>5
  <2> QED
    BY <2>1, <2>2
<1>9. ASSUME NEW i \in 1 .. z, NEW j \in 1 .. z, i < j PROVE ~Before(a[q[j]], a[q[i]])
  <2>1. CASE i # h /\ j # h
    <3>1. PICK x \in 1 .. m : q[i] = p[x] /\ x = (IF i < h THEN i ELSE i - 1)
      BY <2>1, <1>5
    <3>2. PICK y \in 1 .. m : q[j] = p[y] /\ y = (IF j < h THEN j ELSE j - 1)
      BY <2>1, <1>5
    <3>3. x < y
      BY <3>1, <3>2, <2>1, <1>9, <1>3, <1>0
    <3> QED
      BY <3>1, <3>2, <3>3, <1>1
  <2>2. CASE j = h
    <3>1. i \in 1 .. h - 1 /\ i \in 1 .. m /\ i # h /\ i < h
      BY <2>2, <1>9, <1>3, <1>0
    <3>2. i \notin Q
      BY <3>1, <1>3
    <3>3. q[i] = p[i]
      BY <3>1, <1>5
    <3> QED
      BY <3>1, <3>2, <3>3, <2>2, <1>2, <1>6
  <2>3. CASE i = h
    <3>1. h <= m /\ h \in 1 .. m /\ j # h /\ ~(j < h) /\ j - 1 \in 1 .. m /\ (j - 1 = h \/ h < j - 1)
      BY <2>3, <1>9, <1>3, <1>0
    <3>2. h \in Q
      BY <3>1, <1>3
    <3>3. q[j] = p[j - 1]
      BY <3>1, <1>5
    <3>4. PICK c \in Spans(n), d \in Spans(n), e \in Spans(n) : c = a[z] /\ d = a[p[h]] /\ e = a[p[j - 1]]
      <4>1. p[h] \in 1 .. m + 1 /\ p[j - 1] \in 1 .. m + 1 /\ z \in 1 .. m + 1
        <5>1. p[h] \in 1 .. m /\ p[j - 1] \in 1 .. m
          BY <3>1, <1>1, Zenon
        <5>2. \A x \in 1 .. m : x \in 1 .. m + 1
          OBVIOUS
        <5> QED
          BY <5>1, <5>2, <1>0
      <4>2. a[z] \in Spans(n) /\ a[p[h]] \in Spans(n) /\ a[p[j - 1]] \in Spans(n)
        BY <4>1, Zenon
      <4> QED
        BY <4>2, Zenon
    <3>5. Before(c, d)
      BY <3>2, <3>4, <1>2
    <3>6. e = d \/ ~Before(e, d)
      BY <3>1, <3>4, <1>1
    <3>7. ~Before(e, c)
      <4>1. ASSUME Before(e, c) PROVE FALSE
        <5>1. Before(e, d)
          BY <4>1, <3>5, BeforeOrders
        <5>2. ~Before(d, c)
          BY <3>5, BeforeOrders
        <5> QED
          BY <5>1, <5>2, <4>1, <3>6
      <4> QED
        BY <4>1
    <3> QED
      BY <3>3, <3>4, <3>7, <2>3, <1>6
  <2> QED
    BY <2>1, <2>2, <2>3
<1> QED
  BY <1>0, <1>7, <1>8, <1>9, Zenon DEF Order

\* The ranges can be sorted.
LEMMA OrderExists ==
    ASSUME NEW n, NEW a \in Seq(Spans(n))
    PROVE  \E p : Order(p, a, Len(a))
<1>1. PICK N \in Nat : N = Len(a)
  OBVIOUS
<1>2. \A i \in 1 .. N : a[i] \in Spans(n)
  BY <1>1
<1>3. PICK S : S = {m \in Nat : \E p : Order(p, a, m)}
  OBVIOUS
<1>4. 0 \in S
  <2>1. PICK p : p = [i \in 1 .. 0 |-> 0]
    OBVIOUS
  <2>2. Order(p, a, 0)
    BY <2>1 DEF Order
  <2> QED
    BY <2>2, <1>3
<1>5. ASSUME NEW k \in 1 .. N, k - 1 \in S PROVE k \in S
  <2>1. PICK m \in Nat : m = k - 1 /\ m + 1 = k
    BY <1>5
  <2>2. PICK p : Order(p, a, m)
    BY <2>1, <1>3, <1>5
  <2>3. \A i \in 1 .. m + 1 : a[i] \in Spans(n)
    BY <2>1, <1>2
  <2>4. \E q : Order(q, a, m + 1)
    BY <2>2, <2>3, Insertion
  <2> QED
    BY <2>1, <2>4, <1>3
<1>6. \A m \in 0 .. N : m \in S
  BY <1>4, <1>5, EveryRound
<1>7. N \in 0 .. N
  OBVIOUS
<1> QED
  BY <1>1, <1>3, <1>6, <1>7

\* What sorting leaves: the same ranges, by their start
SortedRanges(s, a, n) ==
    /\ s \in Seq(Spans(n)) /\ Len(s) = Len(a)
    /\ \A i, j \in 1 .. Len(s) : i < j => s[i].start <= s[j].start
    /\ \A p \in Nat : Hits(s, p) <=> Hits(a, p)

\* sortRanges returns the same ranges, by their start.
LEMMA SortsRanges ==
    ASSUME NEW n, NEW a \in Seq(Spans(n))
    PROVE  SortedRanges(sortRanges(a), a, n)
<1>1. PICK N \in Nat : N = Len(a) /\ DOMAIN a = 1 .. N
  OBVIOUS
<1>2. \A i \in 1 .. N : a[i] \in Spans(n)
  BY <1>1
<1>3. PICK p : p = CHOOSE q \in [DOMAIN a -> DOMAIN a] :
            /\ \A k \in DOMAIN a : \E i \in DOMAIN a : q[i] = k
            /\ \A i, j \in DOMAIN a : i < j => ~Before(a[q[j]], a[q[i]])
  OBVIOUS
<1>4. p \in [1 .. N -> 1 .. N] /\ (\A k \in 1 .. N : \E i \in 1 .. N : p[i] = k)
      /\ \A i, j \in 1 .. N : i < j => ~Before(a[p[j]], a[p[i]])
  <2>1. \E q : Order(q, a, N)
    BY <1>1, OrderExists
  <2>2. \E q \in [DOMAIN a -> DOMAIN a] :
            /\ \A k \in DOMAIN a : \E i \in DOMAIN a : q[i] = k
            /\ \A i, j \in DOMAIN a : i < j => ~Before(a[q[j]], a[q[i]])
    BY <2>1, <1>1, Zenon DEF Order
  <2> QED
    BY <2>2, <1>1, <1>3, Zenon
<1>5. PICK s : s = [i \in 1 .. N |-> a[p[i]]]
  OBVIOUS
<1>6. s = sortRanges(a)
  <2>1. sortRanges(a) = [i \in DOMAIN a |-> a[p[i]]]
    BY <1>3 DEF sortRanges
  <2> QED
    BY <2>1, <1>1, <1>5
<1>7. \A i \in 1 .. N : s[i] = a[p[i]] /\ s[i] \in Spans(n)
  BY <1>2, <1>4, <1>5
<1>8. s \in Seq(Spans(n)) /\ Len(s) = N
  <2>1. PICK X : X = Spans(n)
    OBVIOUS
  <2>2. \A i \in 1 .. N : a[p[i]] \in X
    BY <2>1, <1>7
  <2>3. s \in Seq(X) /\ Len(s) = N
    BY <2>2, <1>5
  <2> QED
    BY <2>1, <2>3
<1>9. ASSUME NEW i \in 1 .. N, NEW j \in 1 .. N, i < j PROVE s[i].start <= s[j].start
  <2>1. ~Before(s[j], s[i])
    BY <1>4, <1>7, <1>9
  <2>2. s[i].start \in Nat /\ s[j].start \in Nat
    BY <1>7, SpanNumbers
  <2> QED
    BY <2>1, <2>2 DEF Before
<1>10. ASSUME NEW x \in Nat PROVE Hits(s, x) <=> Hits(a, x)
  <2>1. ASSUME NEW i \in 1 .. N, In(s[i], x) PROVE \E k \in 1 .. N : In(a[k], x)
    <3>1. p[i] \in 1 .. N /\ s[i] = a[p[i]]
      BY <1>4, <1>7
    <3> QED
      BY <3>1, <2>1
  <2>2. ASSUME NEW k \in 1 .. N, In(a[k], x) PROVE \E i \in 1 .. N : In(s[i], x)
    <3>1. PICK i \in 1 .. N : p[i] = k
      BY <1>4
    <3>2. s[i] = a[k]
      BY <3>1, <1>7
    <3> QED
      BY <3>2, <2>2
  <2> QED
    BY <2>1, <2>2, <1>1, <1>8, Zenon DEF Hits
<1> QED
  BY <1>1, <1>6, <1>8, <1>9, <1>10, Zenon DEF SortedRanges

\* A range that reaches to the end of another
Widened(x, y) == [x EXCEPT !.end = Max({@, y.end})]

\* A widened range is still a range of the text, and covers what both cover and what lies between.
LEMMA WidenedSpan ==
    ASSUME NEW n, NEW x \in Spans(n), NEW y \in Spans(n)
    PROVE  /\ Widened(x, y) \in Spans(n) /\ Widened(x, y).start = x.start
           /\ Widened(x, y).end = IF x.end >= y.end THEN x.end ELSE y.end
<1>1. PICK w, e : w = Widened(x, y) /\ e = Max({x.end, y.end})
  OBVIOUS
<1>2. x \in [start : Nat, end : Nat, touches : BOOLEAN]
  BY SpanNumbers DEF Matches
<1>3. w = [x EXCEPT !.end = e]
  BY <1>1 DEF Widened
<1>4. PICK a \in Nat, b \in Nat : a = x.end /\ b = y.end /\ a <= n /\ b <= n /\ x.start < a /\ x.start \in Nat
  BY SpanNumbers
<1>5. Max({a, b}) = IF a >= b THEN a ELSE b
  BY MaxPair
<1>6. e \in Nat /\ (e = IF a >= b THEN a ELSE b)
  BY <1>1, <1>4, <1>5
<1>7. w \in [start : Nat, end : Nat, touches : BOOLEAN] /\ w.start = x.start /\ w.end = e
  BY <1>2, <1>3, <1>6
<1>8. e <= n /\ x.start < e
  BY <1>4, <1>6
<1>9. w \in Spans(n)
  BY <1>7, <1>8 DEF Spans, Matches
<1> QED
  BY <1>1, <1>4, <1>6, <1>7, <1>9

\* The range joins the last one or follows it.
Joins(w, merged, m, k) ==
    /\ k > 0 /\ m.start <= merged[k].end /\ Len(w) = k /\ w[k] = Widened(merged[k], m)
    /\ \A i \in 1 .. k - 1 : w[i] = merged[i]
Follows(w, merged, m, k) ==
    /\ k = 0 \/ ~(m.start <= merged[k].end)
    /\ w = Append(merged, m)

\* A range joins the last of the merged ones, or follows it.
LEMMA MergeCases ==
    ASSUME NEW n, NEW merged \in Seq(Spans(n)), NEW m \in Spans(n), NEW w, w = mergeRange(merged, m),
           NEW k, k = Len(merged)
    PROVE  w \in Seq(Spans(n)) /\ (Joins(w, merged, m, k) \/ Follows(w, merged, m, k))
<1>0. k \in Nat /\ DOMAIN merged = 1 .. k /\ (merged # <<>> <=> k > 0)
  OBVIOUS
<1>1. CASE k > 0 /\ m.start <= merged[k].end
  <2>1. w = [merged EXCEPT ![k].end = Max({@, m.end})]
    BY <1>0, <1>1, Zenon DEF mergeRange, Last
  <2>2. PICK v : v = Widened(merged[k], m)
    OBVIOUS
  <2>3. k \in 1 .. k
    BY <1>0, <1>1
  <2>4. w = [merged EXCEPT ![k] = v]
    BY <2>1, <2>2, <2>3, <1>0 DEF Widened
  <2>5. v \in Spans(n)
    <3>1. merged[k] \in Spans(n)
      BY <2>3
    <3> QED
      BY <3>1, <2>2, WidenedSpan
  <2>6. PICK X : X = Spans(n)
    OBVIOUS
  <2>7. merged \in Seq(X) /\ v \in X
    BY <2>5, <2>6
  <2>8. w \in Seq(X) /\ Len(w) = k /\ w[k] = v /\ \A i \in 1 .. k - 1 : w[i] = merged[i]
    BY <2>3, <2>4, <2>7, <1>0
  <2> QED
    BY <2>2, <2>6, <2>8, <1>1 DEF Joins
<1>2. CASE ~(k > 0 /\ m.start <= merged[k].end)
  <2>1. w = Append(merged, m)
    BY <1>0, <1>2, Zenon DEF mergeRange, Last
  <2>2. PICK X : X = Spans(n)
    OBVIOUS
  <2>3. merged \in Seq(X) /\ m \in X
    BY <2>2
  <2>4. w \in Seq(X)
    BY <2>1, <2>3
  <2>5. k = 0 \/ ~(m.start <= merged[k].end)
    BY <1>0, <1>2
  <2> QED
    BY <2>1, <2>2, <2>4, <2>5 DEF Follows
<1> QED
  BY <1>1, <1>2

\* The states of the loop over the sorted ranges
LEMMA MergeTable ==
    ASSUME NEW n, NEW s \in Seq(Spans(n))
    PROVE  \E f : /\ Loop(mergeRange, <<>>, s) = f[Len(s)] /\ f[0] = <<>>
                  /\ \A k \in 1 .. Len(s) : f[k] = mergeRange(f[k - 1], s[k])
<1>0. PICK N \in Nat : N = Len(s)
  OBVIOUS
<1> DEFINE V == Seq(Spans(n))
           Rec(g) == [k \in 0 .. N |-> IF k = 0 THEN <<>> ELSE mergeRange(g[k - 1], s[k])]
<1>1. <<>> \in V
  OBVIOUS
<1>l. \A k \in 1 .. N : s[k] \in Spans(n)
  BY <1>0
<1>t. \A k \in 1 .. N, v \in V : mergeRange(v, s[k]) \in V
  BY <1>l, MergeCases
<1> HIDE DEF V
<1>2. PICK body : body = [k \in 1 .. N |-> [v \in V |-> mergeRange(v, s[k])]]
  OBVIOUS
<1>3. body \in [1 .. N -> [V -> V]]
  BY <1>2, <1>t
<1>4. PICK g \in [0 .. N -> V] : Steps(g, <<>>, body, N)
  BY <1>1, <1>3, RoundsExist
<1>5. g = Rec(g)
  <2>1. ASSUME NEW k \in 0 .. N, k # 0 PROVE g[k] = mergeRange(g[k - 1], s[k])
    <3>1. k \in 1 .. N /\ k - 1 \in 0 .. N
      BY <2>1
    <3>2. g[k - 1] \in V /\ body[k] = [v \in V |-> mergeRange(v, s[k])]
      BY <1>2, <3>1
    <3>3. g[k] = body[k][g[k - 1]]
      BY <1>4, <3>1 DEF Steps
    <3> QED
      BY <3>2, <3>3
  <2>2. g[0] = <<>>
    BY <1>4 DEF Steps
  <2> QED
    BY <2>1, <2>2
<1>6. PICK f : f = CHOOSE h : h = Rec(h)
  OBVIOUS
<1>7. Loop(mergeRange, <<>>, s) = f[N]
  BY <1>0, <1>6 DEF Loop, LoopStates
<1>8. f = Rec(f)
  BY <1>5, <1>6
<1>9. f[0] = <<>> /\ \A k \in 1 .. N : f[k] = mergeRange(f[k - 1], s[k])
  <2>1. ASSUME NEW k \in 0 .. N PROVE f[k] = IF k = 0 THEN <<>> ELSE mergeRange(f[k - 1], s[k])
    BY <1>8, Zenon
  <2>2. 0 \in 0 .. N /\ \A k \in 1 .. N : k \in 0 .. N /\ k # 0
    OBVIOUS
  <2> QED
    BY <2>1, <2>2, Zenon
<1> QED
  BY <1>0, <1>7, <1>9, Zenon

\* Ranges from left to right, with bytes between them
Apart(w) == \A i, j \in 1 .. Len(w) : i < j => w[i].end < w[j].start
MergeOK(w, s, k, n) ==
    /\ w \in Seq(Spans(n)) /\ Apart(w)
    /\ k > 0 => Len(w) > 0 /\ w[Len(w)].start <= s[k].start
    /\ \A p \in Nat : Hits(w, p) <=> \E i \in 1 .. k : In(s[i], p)

\* One range merged in keeps the merged ones apart and adds what it covers.
LEMMA MergeStep ==
    ASSUME NEW n, NEW s \in Seq(Spans(n)), \A i, j \in 1 .. Len(s) : i < j => s[i].start <= s[j].start,
           NEW k \in 1 .. Len(s), NEW v, MergeOK(v, s, k - 1, n)
    PROVE  MergeOK(mergeRange(v, s[k]), s, k, n)
<1>0. Len(s) \in Nat /\ k \in Nat /\ k > 0
  OBVIOUS
<1>1. PICK m \in Spans(n) : m = s[k]
  OBVIOUS
<1>2. /\ v \in Seq(Spans(n)) /\ Apart(v) /\ (k - 1 > 0 => Len(v) > 0 /\ v[Len(v)].start <= s[k - 1].start)
      /\ \A p \in Nat : Hits(v, p) <=> \E i \in 1 .. k - 1 : In(s[i], p)
  BY DEF MergeOK
<1>3. PICK w : w = mergeRange(v, m)
  OBVIOUS
<1>4. PICK l \in Nat : l = Len(v)
  BY <1>2
<1>5. w \in Seq(Spans(n)) /\ (Joins(w, v, m, l) \/ Follows(w, v, m, l))
  BY <1>2, <1>3, <1>4, MergeCases
<1>6. \A i \in 1 .. l : v[i] \in Spans(n)
  BY <1>2, <1>4
<1>7. l > 0 => v[l].start <= m.start
  <2> SUFFICES ASSUME l > 0 PROVE v[l].start <= m.start
    OBVIOUS
  <2>1. l \in 1 .. l
    OBVIOUS
  <2>2. v[l].start \in Nat /\ m.start \in Nat
    BY <2>1, <1>6, SpanNumbers
  <2>3. k - 1 > 0
    <3>1. ASSUME ~(k - 1 > 0) PROVE FALSE
      <4>1. 1 .. k - 1 = {}
        BY <3>1, <1>0
      <4>2. PICK x \in Nat : x = v[l].start
        BY <2>2
      <4>3. In(v[l], x)
        BY <4>2, <2>1, <1>6, SpanNumbers DEF In
      <4>4. Hits(v, x)
        BY <4>3, <2>1, <1>4 DEF Hits
      <4> QED
        BY <4>1, <4>4, <1>2
    <3> QED
      BY <3>1
  <2>4. k - 1 \in 1 .. Len(s) /\ k - 1 < k
    BY <2>3, <1>0
  <2>5. s[k - 1].start <= m.start /\ s[k - 1].start \in Nat
    BY <2>4, <1>1, SpanNumbers
  <2>6. v[l].start <= s[k - 1].start
    BY <2>3, <1>2, <1>4
  <2> QED
    BY <2>2, <2>5, <2>6
<1>8. 1 .. k = (1 .. k - 1) \cup {k}
  BY <1>0
<1>9. PICK ms \in Nat, me \in Nat : ms = m.start /\ me = m.end /\ ms < me
  BY SpanNumbers
<1>10. CASE Joins(w, v, m, l)
  <2>1. /\ l > 0 /\ m.start <= v[l].end /\ Len(w) = l /\ w[l] = Widened(v[l], m)
        /\ \A i \in 1 .. l - 1 : w[i] = v[i]
    BY <1>10 DEF Joins
  <2>2. l \in 1 .. l /\ v[l] \in Spans(n) /\ 1 .. l = (1 .. l - 1) \cup {l}
    BY <2>1, <1>6
  <2>3. PICK vs \in Nat, ve \in Nat : vs = v[l].start /\ ve = v[l].end /\ vs < ve
    BY <2>2, SpanNumbers
  <2>4. w[l].start = vs /\ (w[l].end = IF ve >= me THEN ve ELSE me)
    BY <2>1, <2>2, <2>3, <1>9, WidenedSpan
  <2>5. vs <= ms /\ ms <= ve
    BY <2>1, <2>3, <1>7, <1>9
  <2>6. ASSUME NEW i \in 1 .. l, NEW j \in 1 .. l, i < j PROVE w[i].end < w[j].start
    <3>1. i \in 1 .. l - 1 /\ w[i] = v[i]
      BY <2>1, <2>6
    <3>2. w[j].start = v[j].start
      <4>1. CASE j = l
        BY <4>1, <2>3, <2>4
      <4>2. CASE j # l
        <5>1. j \in 1 .. l - 1
          BY <4>2
        <5> QED
          BY <5>1, <2>1
      <4> QED
        BY <4>1, <4>2
    <3>3. v[i].end < v[j].start
      BY <2>6, <1>2, <1>4 DEF Apart
    <3> QED
      BY <3>1, <3>2, <3>3
  <2>7. w[Len(w)].start <= s[k].start
    BY <2>1, <2>4, <2>5, <1>1, <1>9
  <2>8. ASSUME NEW p \in Nat PROVE Hits(w, p) <=> \E i \in 1 .. k : In(s[i], p)
    <3>1. In(w[l], p) <=> In(v[l], p) \/ In(m, p)
      <4>1. PICK we \in Nat : we = w[l].end /\ we = (IF ve >= me THEN ve ELSE me)
        BY <2>4
      <4>2. (vs <= p /\ p < we) <=> (vs <= p /\ p < ve) \/ (ms <= p /\ p < me)
        BY <4>1, <2>5, <1>9
      <4> QED
        BY <4>1, <4>2, <2>3, <2>4, <1>9 DEF In
    <3>2. Hits(w, p) <=> (\E i \in 1 .. l - 1 : In(v[i], p)) \/ In(w[l], p)
      BY <2>1, <2>2, Zenon DEF Hits
    <3>3. Hits(v, p) <=> (\E i \in 1 .. l - 1 : In(v[i], p)) \/ In(v[l], p)
      BY <2>2, <1>4, Zenon DEF Hits
    <3>4. Hits(v, p) <=> \E i \in 1 .. k - 1 : In(s[i], p)
      BY <1>2
    <3> QED
      BY <3>1, <3>2, <3>3, <3>4, <1>1, <1>8, Zenon
  <2>9. Apart(w)
    BY <2>1, <2>6 DEF Apart
  <2>a. Len(w) > 0
    BY <2>1
  <2> QED
    BY <2>7, <2>8, <2>9, <2>a, <1>1, <1>3, <1>5, Zenon DEF MergeOK
<1>11. CASE Follows(w, v, m, l)
  <2>1. (l = 0 \/ ~(m.start <= v[l].end)) /\ w = Append(v, m)
    BY <1>11 DEF Follows
  <2>2. Len(w) = l + 1 /\ w[l + 1] = m /\ \A i \in 1 .. l : w[i] = v[i]
    <3>1. PICK X : X = Spans(n)
      OBVIOUS
    <3>2. v \in Seq(X)
      BY <3>1, <1>2
    <3> QED
      BY <3>2, <2>1, <1>4
  <2>3. ASSUME NEW i \in 1 .. Len(w), NEW j \in 1 .. Len(w), i < j PROVE w[i].end < w[j].start
    <3>1. i \in 1 .. l /\ w[i] = v[i] /\ v[i] \in Spans(n)
      BY <2>2, <2>3, <1>6
    <3>2. CASE j # l + 1
      <4>1. j \in 1 .. l
        BY <3>2, <2>2
      <4> QED
        BY <4>1, <3>1, <2>2, <2>3, <1>2, <1>4 DEF Apart
    <3>3. CASE j = l + 1
      <4>1. l \in 1 .. l /\ l # 0
        BY <3>1
      <4>2. PICK ve \in Nat, vs \in Nat : ve = v[l].end /\ vs = v[l].start /\ vs < ve
        BY <4>1, <1>6, SpanNumbers
      <4>3. ve < ms
        BY <4>1, <4>2, <2>1, <1>9
      <4>4. PICK e \in Nat : e = v[i].end
        BY <3>1, SpanNumbers
      <4>5. e <= ve
        <5>1. CASE i = l
          BY <5>1, <4>2, <4>4
        <5>2. CASE i # l
          <6>1. i < l
            BY <5>2, <3>1
          <6>2. e < vs
            BY <6>1, <4>1, <4>2, <4>4, <3>1, <1>2, <1>4 DEF Apart
          <6> QED
            BY <6>2, <4>2
        <5> QED
          BY <5>1, <5>2
      <4>6. e < ms
        BY <4>3, <4>5
      <4> QED
        BY <4>4, <4>6, <3>1, <3>3, <2>2, <1>9
    <3> QED
      BY <3>2, <3>3
  <2>4. Apart(w)
    BY <2>3 DEF Apart
  <2>5. Len(w) > 0 /\ w[Len(w)].start <= s[k].start
    BY <2>2, <1>1, <1>9
  <2>6. ASSUME NEW p \in Nat PROVE Hits(w, p) <=> \E i \in 1 .. k : In(s[i], p)
    <3>1. Hits(w, p) <=> Hits(v, p) \/ In(m, p)
      BY <2>1, <1>2, HitsAppend
    <3>2. Hits(v, p) <=> \E i \in 1 .. k - 1 : In(s[i], p)
      BY <1>2
    <3> QED
      BY <3>1, <3>2, <1>1, <1>8, Zenon
  <2> QED
    BY <2>4, <2>5, <2>6, <1>1, <1>3, <1>5, Zenon DEF MergeOK
<1> QED
  BY <1>5, <1>10, <1>11

\* mergeRanges leaves ranges that are apart and cover what the matches cover.
Merges(w, a, n) ==
    /\ w \in Seq(Spans(n)) /\ Apart(w) /\ \A p \in Nat : Hits(w, p) <=> Hits(a, p)

\* mergeRanges returns ranges that are apart and cover what they covered before.
LEMMA MergesRanges ==
    ASSUME NEW n, NEW a \in Seq(Spans(n))
    PROVE  Merges(mergeRanges(a), a, n)
<1>1. PICK s : s = sortRanges(a)
  OBVIOUS
<1>2. /\ s \in Seq(Spans(n)) /\ \A i, j \in 1 .. Len(s) : i < j => s[i].start <= s[j].start
      /\ \A p \in Nat : Hits(s, p) <=> Hits(a, p)
  BY <1>1, SortsRanges DEF SortedRanges
<1>3. PICK N \in Nat : N = Len(s)
  BY <1>2
<1>4. PICK f : /\ Loop(mergeRange, <<>>, s) = f[N] /\ f[0] = <<>>
               /\ \A k \in 1 .. N : f[k] = mergeRange(f[k - 1], s[k])
  BY <1>2, <1>3, MergeTable
<1>5. mergeRanges(a) = f[N]
  BY <1>1, <1>4 DEF mergeRanges
<1>6. PICK S : S = {k \in Nat : MergeOK(f[k], s, k, n)}
  OBVIOUS
<1>7. 0 \in S
  <2>1. PICK e : e = <<>>
    OBVIOUS
  <2>2. e \in Seq(Spans(n)) /\ Len(e) = 0 /\ 1 .. 0 = {} /\ ~(0 > 0)
    BY <2>1
  <2>3. Apart(e)
    BY <2>2 DEF Apart
  <2>4. \A p \in Nat : ~Hits(e, p)
    BY <2>2 DEF Hits
  <2>5. MergeOK(e, s, 0, n)
    BY <2>2, <2>3, <2>4, Zenon DEF MergeOK
  <2> QED
    BY <2>1, <2>5, <1>4, <1>6
<1>8. ASSUME NEW k \in 1 .. N, k - 1 \in S PROVE k \in S
  <2>1. MergeOK(f[k - 1], s, k - 1, n) /\ k \in Nat
    BY <1>6, <1>8
  <2>2. MergeOK(mergeRange(f[k - 1], s[k]), s, k, n)
    BY <2>1, <1>2, <1>3, MergeStep
  <2> QED
    BY <2>1, <2>2, <1>4, <1>6
<1>9. N \in S
  <2>1. \A k \in 0 .. N : k \in S
    BY <1>7, <1>8, EveryRound
  <2>2. N \in 0 .. N
    OBVIOUS
  <2> QED
    BY <2>1, <2>2
<1>10. MergeOK(f[N], s, N, n)
  BY <1>6, <1>9
<1> QED
  BY <1>2, <1>3, <1>5, <1>10, Zenon DEF MergeOK, Merges, Hits

-----------------------------------------------------------------------------
(* toolresultredactor: cutting the ranges out of a text                     *)

\* What the bytes of a text become, one after another
ByteStates(E, value) ==
    /\ E[0] = <<>> /\ \A k \in 0 .. value.length : E[k] \in Seq(Int)
    /\ \A k \in 1 .. value.length : E[k] = WithByte(value, E[k - 1], k - 1)

\* The states of the loop that rewrites byte by byte
LEMMA ExactTable ==
    ASSUME NEW value \in Texts
    PROVE  \E E : ByteStates(E, value) /\ Exact(value) = E[value.length]
<1>0. PICK N \in Nat : N = value.length
  BY TextFacts
<1> DEFINE Rec(g) == [k \in 0 .. N |-> IF k = 0 THEN <<>> ELSE WithByte(value, g[k - 1], k - 1)]
<1>1. <<>> \in Seq(Int)
  OBVIOUS
<1>t. ASSUME NEW k \in 1 .. N, NEW v \in Seq(Int) PROVE WithByte(value, v, k - 1) \in Seq(Int)
  <2>1. Append(v, k - 1) \in Seq(Int) /\ Append(v, Placeholder) \in Seq(Int)
    BY DEF Placeholder
  <2> QED
    BY <2>1, Zenon DEF WithByte
<1>2. PICK body : body = [k \in 1 .. N |-> [v \in Seq(Int) |-> WithByte(value, v, k - 1)]]
  OBVIOUS
<1>3. body \in [1 .. N -> [Seq(Int) -> Seq(Int)]]
  BY <1>2, <1>t
<1>4. PICK g \in [0 .. N -> Seq(Int)] : Steps(g, <<>>, body, N)
  BY <1>1, <1>3, RoundsExist
<1>5. g = Rec(g)
  <2>1. ASSUME NEW k \in 0 .. N, k # 0 PROVE g[k] = WithByte(value, g[k - 1], k - 1)
    <3>1. k \in 1 .. N /\ k - 1 \in 0 .. N
      BY <2>1
    <3>2. g[k - 1] \in Seq(Int) /\ body[k] = [v \in Seq(Int) |-> WithByte(value, v, k - 1)]
      BY <1>2, <3>1
    <3>3. g[k] = body[k][g[k - 1]]
      BY <1>4, <3>1 DEF Steps
    <3> QED
      BY <3>2, <3>3
  <2>2. g[0] = <<>>
    BY <1>4 DEF Steps
  <2> QED
    BY <2>1, <2>2
<1>6. PICK f : f = CHOOSE h : h = Rec(h)
  OBVIOUS
<1>7. Exact(value) = f[N]
  <2>1. PICK s : s = Whole(value)
    OBVIOUS
  <2>2. Len(s) = N /\ \A k \in 0 .. N : k # 0 => s[k] = k - 1
    BY <1>0, <2>1 DEF Whole
  <2>3. \A h : Rec(h) = [k \in 0 .. Len(s) |-> IF k = 0 THEN <<>> ELSE WithByte(value, h[k - 1], s[k])]
    BY <2>2
  <2>4. f = CHOOSE h : h = [k \in 0 .. Len(s) |-> IF k = 0 THEN <<>> ELSE WithByte(value, h[k - 1], s[k])]
    BY <1>6, <2>3
  <2>5. Exact(value) = f[Len(s)]
    BY <2>1, <2>4 DEF Exact, Loop, LoopStates
  <2> QED
    BY <2>2, <2>5
<1>8. f = Rec(f)
  BY <1>5, <1>6
<1>9. f[0] = <<>> /\ \A k \in 1 .. N : f[k] = WithByte(value, f[k - 1], k - 1)
  <2>1. ASSUME NEW k \in 0 .. N PROVE f[k] = IF k = 0 THEN <<>> ELSE WithByte(value, f[k - 1], k - 1)
    BY <1>8, Zenon
  <2>2. 0 \in 0 .. N /\ \A k \in 1 .. N : k \in 0 .. N /\ k # 0
    OBVIOUS
  <2> QED
    BY <2>1, <2>2, Zenon
<1>10. \A k \in 1 .. N : f[k - 1] \in Seq(Int) => f[k] \in Seq(Int)
  BY <1>9, <1>t, Zenon
<1>11. \A k \in 0 .. N : f[k] \in Seq(Int)
  BY <1>9, <1>1, <1>10, RoundsType
<1> QED
  BY <1>0, <1>7, <1>9, <1>11, Zenon DEF ByteStates

\* A text that goes on with the d bytes from q
GoesOn(w, u, q, d) ==
    /\ Len(w) = Len(u) + d /\ \A i \in 1 .. Len(u) : w[i] = u[i]
    /\ \A i \in 1 .. d : w[Len(u) + i] = q + i - 1

\* A text that goes on with consecutive positions is the text and the stretch of them.
LEMMA GoesOnIsConcat ==
    ASSUME NEW w \in Seq(Int), NEW u \in Seq(Int), NEW q \in Nat, NEW to \in Nat, q <= to,
           GoesOn(w, u, q, to - q)
    PROVE  w = u \o Positions(q, to)
<1>1. PICK d \in Nat, l \in Nat : d = to - q /\ l = Len(u)
  <2>1. to - q \in Nat /\ Len(u) \in Nat
    OBVIOUS
  <2> QED
    BY <2>1, Zenon
<1>2. PICK t : t = Positions(q, to)
  OBVIOUS
<1>3. t \in Seq(Int) /\ Len(t) = d /\ \A i \in 1 .. d : t[i] = q + i - 1
  BY <1>1, <1>2 DEF Positions
<1>4. PICK v : v = u \o t
  OBVIOUS
<1>5. Joined(v, u, l, t, d, Int)
  BY <1>1, <1>3, <1>4, Concat
<1>6. /\ v \in Seq(Int) /\ Len(v) = l + d /\ (\A i \in 1 .. l : v[i] = u[i])
      /\ \A i \in 1 .. d : v[l + i] = t[i]
  BY <1>5 DEF Joined
<1>7. /\ Len(w) = l + d /\ (\A i \in 1 .. l : w[i] = u[i])
      /\ \A i \in 1 .. d : w[l + i] = q + i - 1
  BY <1>1 DEF GoesOn
<1>8. ASSUME NEW i \in 1 .. Len(w) PROVE w[i] = v[i]
  <2>1. CASE i <= l
    <3>1. i \in 1 .. l
      BY <2>1
    <3> QED
      BY <3>1, <1>6, <1>7
  <2>2. CASE i > l
    <3>1. PICK j \in 1 .. d : i = l + j
      <4>1. i - l \in 1 .. d /\ i = l + (i - l)
        BY <2>2, <1>7
      <4> QED
        BY <4>1
    <3> QED
      BY <3>1, <1>3, <1>6, <1>7
  <2> QED
    BY <2>1, <2>2
<1>9. w = v
  BY <1>6, <1>7, <1>8, SeqEqual
<1> QED
  BY <1>2, <1>4, <1>9

\* Bytes no match covers are kept.
LEMMA KeptStretch ==
    ASSUME NEW value \in Texts, NEW E, ByteStates(E, value), NEW q \in Nat, NEW to \in Nat,
           q <= to, to <= value.length, \A p \in q .. to - 1 : ~Covered(value, p)
    PROVE  GoesOn(E[to], E[q], q, to - q)
<1>0. PICK N \in Nat : N = value.length
  BY TextFacts
<1>1. (\A k \in 0 .. N : E[k] \in Seq(Int)) /\ \A k \in 1 .. N : E[k] = WithByte(value, E[k - 1], k - 1)
  BY <1>0 DEF ByteStates
<1>2. PICK m \in Nat : m = to - q
  OBVIOUS
<1>3. PICK u \in Seq(Int) : u = E[q]
  <2>1. q \in 0 .. N
    BY <1>0
  <2> QED
    BY <2>1, <1>1
<1>4. PICK S : S = {d \in Nat : GoesOn(E[q + d], u, q, d)}
  OBVIOUS
<1>5. 0 \in S
  <2>1. q + 0 = q
    OBVIOUS
  <2>2. GoesOn(u, u, q, 0)
    BY DEF GoesOn
  <2> QED
    BY <2>1, <2>2, <1>3, <1>4
<1>6. ASSUME NEW d \in 1 .. m, d - 1 \in S PROVE d \in S
  <2>1. PICK k \in 1 .. N : k = q + d /\ k - 1 = q + (d - 1) /\ k - 1 \in 0 .. N /\ k - 1 \in q .. to - 1
    BY <1>0, <1>2
  <2>2. PICK v \in Seq(Int) : v = E[k - 1]
    BY <2>1, <1>1
  <2>3. GoesOn(v, u, q, d - 1)
    BY <2>1, <2>2, <1>4, <1>6
  <2>4. E[k] = Append(v, k - 1)
    BY <2>1, <2>2, <1>1 DEF WithByte
  <2>5. PICK w : w = Append(v, k - 1)
    OBVIOUS
  <2>6. Len(w) = Len(v) + 1 /\ w[Len(v) + 1] = k - 1 /\ \A i \in 1 .. Len(v) : w[i] = v[i]
    BY <2>5
  <2>7. PICK l \in Nat, x \in Nat : l = Len(u) /\ x = Len(v) /\ x = l + (d - 1)
    BY <2>3 DEF GoesOn
  <2>8. Len(w) = l + d /\ \A i \in 1 .. l : w[i] = u[i]
    <3>1. \A i \in 1 .. l : v[i] = u[i] /\ i \in 1 .. x
      BY <2>3, <2>7 DEF GoesOn
    <3> QED
      BY <3>1, <2>6, <2>7
  <2>9. ASSUME NEW i \in 1 .. d PROVE w[l + i] = q + i - 1
    <3>1. CASE i = d
      BY <3>1, <2>1, <2>6, <2>7
    <3>2. CASE i # d
      <4>1. i \in 1 .. d - 1 /\ l + i \in 1 .. x
        BY <3>2, <2>7
      <4>2. v[l + i] = q + i - 1
        BY <4>1, <2>3, <2>7 DEF GoesOn
      <4> QED
        BY <4>1, <4>2, <2>6, <2>7
    <3> QED
      BY <3>1, <3>2
  <2>10. GoesOn(w, u, q, d)
    BY <2>7, <2>8, <2>9 DEF GoesOn
  <2> QED
    <3>1. d \in Nat /\ E[q + d] = w
      BY <2>1, <2>4, <2>5
    <3> QED
      BY <3>1, <2>10, <1>4
<1>7. m \in S
  <2>1. \A d \in 0 .. m : d \in S
    BY <1>5, <1>6, EveryRound
  <2>2. m \in 0 .. m
    OBVIOUS
  <2> QED
    BY <2>1, <2>2
<1>8. q + m = to
  BY <1>2
<1> QED
  BY <1>2, <1>3, <1>4, <1>7, <1>8

\* Bytes matches cover become one placeholder.
LEMMA CoveredStretch ==
    ASSUME NEW value \in Texts, NEW E, ByteStates(E, value), NEW a \in Nat, NEW b \in Nat,
           a < b, b <= value.length, \A p \in a .. b - 1 : Covered(value, p),
           E[a] = <<>> \/ Last(E[a]) # Placeholder
    PROVE  E[b] = Append(E[a], Placeholder)
<1>0. PICK N \in Nat : N = value.length
  BY TextFacts
<1>1. (\A k \in 0 .. N : E[k] \in Seq(Int)) /\ \A k \in 1 .. N : E[k] = WithByte(value, E[k - 1], k - 1)
  BY <1>0 DEF ByteStates
<1>2. PICK m \in Nat : m = b - a - 1
  OBVIOUS
<1>3. PICK u \in Seq(Int) : u = E[a]
  <2>1. a \in 0 .. N
    BY <1>0
  <2> QED
    BY <2>1, <1>1
<1>w. PICK w : w = Append(u, Placeholder)
  OBVIOUS
<1>l. w # <<>> /\ Last(w) = Placeholder
  BY <1>w DEF Last, Placeholder
<1>4. PICK S : S = {d \in Nat : E[a + d + 1] = w}
  OBVIOUS
<1>c. ASSUME NEW d \in 0 .. m PROVE E[a + d + 1] = WithByte(value, E[a + d], a + d) /\ Covered(value, a + d)
  <2>1. PICK k \in 1 .. N : k = a + d + 1 /\ k - 1 = a + d /\ k - 1 \in a .. b - 1
    BY <1>0, <1>2
  <2> QED
    BY <2>1, <1>1
<1>5. 0 \in S
  <2>1. a + 0 = a /\ 0 \in 0 .. m
    OBVIOUS
  <2>2. E[a + 0 + 1] = WithByte(value, E[a + 0], a + 0) /\ Covered(value, a + 0)
    BY <2>1, <1>c
  <2>3. E[a + 0 + 1] = WithByte(value, u, a) /\ Covered(value, a)
    BY <2>1, <2>2, <1>3
  <2>4. E[a + 0 + 1] = w
    BY <2>3, <1>3, <1>w, Zenon DEF WithByte
  <2> QED
    BY <2>4, <1>4
<1>6. ASSUME NEW d \in 1 .. m, d - 1 \in S PROVE d \in S
  <2>1. E[a + (d - 1) + 1] = w /\ a + (d - 1) + 1 = a + d /\ d \in 0 .. m
    BY <1>4, <1>6
  <2>2. E[a + d] = w
    BY <2>1
  <2>3. E[a + d + 1] = w
    BY <2>1, <2>2, <1>c, <1>l, Zenon DEF WithByte
  <2> QED
    BY <2>3, <1>4
<1>7. m \in S
  <2>1. \A d \in 0 .. m : d \in S
    BY <1>5, <1>6, EveryRound
  <2>2. m \in 0 .. m
    OBVIOUS
  <2> QED
    BY <2>1, <2>2
<1>8. a + m + 1 = b
  BY <1>2
<1> QED
  BY <1>3, <1>w, <1>4, <1>7, <1>8

\* The bytes between two ranges, and before the first and behind the last
GapStart(w, k) == IF k = 0 THEN 0 ELSE w[k].end
GapEnd(w, k, n) == IF k = Len(w) THEN n ELSE w[k + 1].start

\* The gaps between ranges that are apart are stretches of bytes no range covers.
LEMMA GapFacts ==
    ASSUME NEW n \in Nat, NEW w \in Seq(Spans(n)), Apart(w), NEW k \in 0 .. Len(w)
    PROVE  /\ GapStart(w, k) \in Nat /\ GapEnd(w, k, n) \in Nat
           /\ GapStart(w, k) <= GapEnd(w, k, n) /\ GapEnd(w, k, n) <= n
           /\ k # 0 /\ k # Len(w) => GapStart(w, k) < GapEnd(w, k, n)
           /\ \A p \in GapStart(w, k) .. GapEnd(w, k, n) - 1 : ~Hits(w, p)
<1>0. PICK N \in Nat : N = Len(w) /\ k \in 0 .. N /\ k \in Nat /\ k <= N
  OBVIOUS
<1>1. \A i \in 1 .. N : w[i] \in Spans(n)
  BY <1>0
<1>2. PICK a : a = GapStart(w, k)
  OBVIOUS
<1>3. PICK b : b = GapEnd(w, k, n)
  OBVIOUS
<1>4. a \in Nat /\ a <= n /\ (k = 0 => a = 0) /\ (k # 0 => a = w[k].end /\ k \in 1 .. N)
  <2>1. CASE k = 0
    BY <2>1, <1>2 DEF GapStart
  <2>2. CASE k # 0
    <3>1. k \in 1 .. N /\ a = w[k].end
      BY <2>2, <1>0, <1>2 DEF GapStart
    <3> QED
      BY <3>1, <2>2, <1>1, SpanNumbers
  <2> QED
    BY <2>1, <2>2
<1>5. b \in Nat /\ b <= n /\ (k = N => b = n) /\ (k # N => b = w[k + 1].start /\ k + 1 \in 1 .. N)
  <2>1. CASE k = N
    BY <2>1, <1>0, <1>3 DEF GapEnd
  <2>2. CASE k # N
    <3>1. k + 1 \in 1 .. N /\ b = w[k + 1].start
      BY <2>2, <1>0, <1>3 DEF GapEnd
    <3>2. PICK e \in Nat : e = w[k + 1].end /\ w[k + 1].start < e /\ e <= n /\ w[k + 1].start \in Nat
      BY <3>1, <1>1, SpanNumbers
    <3> QED
      BY <3>1, <3>2, <2>2
  <2> QED
    BY <2>1, <2>2
<1>6. k # 0 /\ k # N => a < b
  <2> SUFFICES ASSUME k # 0 /\ k # N PROVE a < b
    OBVIOUS
  <2>1. k \in 1 .. Len(w) /\ k + 1 \in 1 .. Len(w) /\ k < k + 1
    BY <1>0
  <2>2. w[k].end < w[k + 1].start
    BY <2>1 DEF Apart
  <2> QED
    BY <2>2, <1>4, <1>5
<1>7. a <= b
  BY <1>4, <1>5, <1>6
<1>8. ASSUME NEW p \in a .. b - 1, NEW i \in 1 .. N, In(w[i], p) PROVE FALSE
  <2>0. PICK s \in Nat, e \in Nat : s = w[i].start /\ e = w[i].end /\ s <= p /\ p < e /\ s < e
    BY <1>1, <1>8, SpanNumbers DEF In
  <2>1. CASE i <= k
    <3>1. k # 0 /\ k \in 1 .. N
      BY <2>1, <1>0
    <3>2. CASE i = k
      BY <3>1, <3>2, <2>0, <1>4, <1>8
    <3>3. CASE i # k
      <4>1. i < k
        BY <3>3, <2>1
      <4>2. w[i].end < w[k].start
        BY <4>1, <3>1, <1>0 DEF Apart
      <4>3. PICK x \in Nat : x = w[k].start /\ x < a
        BY <3>1, <1>1, <1>4, SpanNumbers
      <4> QED
        BY <4>2, <4>3, <2>0, <1>4, <1>8
    <3> QED
      BY <3>2, <3>3
  <2>2. CASE i > k
    <3>1. k # N /\ k + 1 \in 1 .. N /\ (i = k + 1 \/ k + 1 < i)
      BY <2>2, <1>0
    <3>2. CASE i = k + 1
      BY <3>1, <3>2, <2>0, <1>5, <1>8
    <3>3. CASE k + 1 < i
      <4>1. w[k + 1].end < w[i].start
        BY <3>1, <3>3, <1>0 DEF Apart
      <4>2. PICK x \in Nat : x = w[k + 1].end /\ b < x
        BY <3>1, <1>1, <1>5, SpanNumbers
      <4> QED
        BY <4>1, <4>2, <2>0, <1>5, <1>8
    <3> QED
      BY <3>1, <3>2, <3>3
  <2> QED
    BY <2>1, <2>2, <1>0
<1>9. \A p \in a .. b - 1 : ~Hits(w, p)
  BY <1>0, <1>8, Zenon DEF Hits
<1> QED
  BY <1>0, <1>2, <1>3, <1>4, <1>5, <1>6, <1>7, <1>9

\* Cutting keeps texts.
Cuts == [text : Seq(Int), position : Nat]

\* A stretch of positions is a text.
LEMMA PositionsType ==
    ASSUME NEW q \in Nat, NEW to \in Nat
    PROVE  Positions(q, to) \in Seq(Int)
<1>1. CASE q <= to
  <2>1. PICK d \in Nat : d = to - q
    BY <1>1
  <2>2. Positions(q, to) = [i \in 1 .. d |-> q + i - 1]
    BY <2>1 DEF Positions
  <2>3. [i \in 1 .. d |-> q + i - 1] \in Seq(Int)
    OBVIOUS
  <2> QED
    BY <2>2, <2>3
<1>2. CASE ~(q <= to)
  <2>1. 1 .. to - q = {} /\ 1 .. 0 = {}
    BY <1>2
  <2>2. Positions(q, to) = [i \in 1 .. 0 |-> q + i - 1]
    BY <2>1 DEF Positions
  <2>3. [i \in 1 .. 0 |-> q + i - 1] \in Seq(Int)
    OBVIOUS
  <2> QED
    BY <2>2, <2>3
<1> QED
  BY <1>1, <1>2

\* Cutting a range leaves a text and a position.
LEMMA CutType ==
    ASSUME NEW acc \in Cuts, NEW n, NEW m \in Spans(n)
    PROVE  cutRange(acc, m) \in Cuts
<1>1. PICK u \in Seq(Int), q \in Nat : u = acc.text /\ q = acc.position
  BY DEF Cuts
<1>2. PICK a \in Nat, b \in Nat : a = m.start /\ b = m.end
  BY SpanNumbers
<1>3. PICK t \in Seq(Int) : t = Positions(q, a)
  BY PositionsType
<1>4. Hidden \in Seq(Int)
  BY DEF Hidden, Placeholder
<1>5. u \o t \o Hidden \in Seq(Int)
  BY <1>4
<1>6. cutRange(acc, m) = [text |-> u \o t \o Hidden, position |-> b]
  BY <1>1, <1>2, <1>3 DEF cutRange
<1> QED
  BY <1>5, <1>6 DEF Cuts

NoCut == [text |-> <<>>, position |-> 0]

\* The states of the loop that cuts range by range
LEMMA CutTable ==
    ASSUME NEW n, NEW s \in Seq(Spans(n))
    PROVE  \E f : /\ Loop(cutRange, [text |-> <<>>, position |-> 0], s) = f[Len(s)] /\ f[0] = NoCut
                  /\ \A k \in 1 .. Len(s) : f[k] = cutRange(f[k - 1], s[k])
<1>0. PICK N \in Nat : N = Len(s)
  OBVIOUS
<1> DEFINE Rec(g) == [k \in 0 .. N |-> IF k = 0 THEN NoCut ELSE cutRange(g[k - 1], s[k])]
<1>1. NoCut \in Cuts
  <2>1. <<>> \in Seq(Int) /\ 0 \in Nat
    OBVIOUS
  <2> QED
    BY <2>1 DEF Cuts, NoCut
<1>l. \A k \in 1 .. N : s[k] \in Spans(n)
  BY <1>0
<1>t. \A k \in 1 .. N, v \in Cuts : cutRange(v, s[k]) \in Cuts
  BY <1>l, CutType
<1>2. PICK body : body = [k \in 1 .. N |-> [v \in Cuts |-> cutRange(v, s[k])]]
  OBVIOUS
<1>3. body \in [1 .. N -> [Cuts -> Cuts]]
  BY <1>2, <1>t
<1>4. PICK g \in [0 .. N -> Cuts] : Steps(g, NoCut, body, N)
  BY <1>1, <1>3, RoundsExist
<1>5. g = Rec(g)
  <2>1. ASSUME NEW k \in 0 .. N, k # 0 PROVE g[k] = cutRange(g[k - 1], s[k])
    <3>1. k \in 1 .. N /\ k - 1 \in 0 .. N
      BY <2>1
    <3>2. g[k - 1] \in Cuts /\ body[k] = [v \in Cuts |-> cutRange(v, s[k])]
      BY <1>2, <3>1
    <3>3. g[k] = body[k][g[k - 1]]
      BY <1>4, <3>1 DEF Steps
    <3> QED
      BY <3>2, <3>3
  <2>2. g[0] = NoCut
    BY <1>4 DEF Steps
  <2> QED
    BY <2>1, <2>2
<1>6. PICK f : f = CHOOSE h : h = Rec(h)
  OBVIOUS
<1>7. Loop(cutRange, [text |-> <<>>, position |-> 0], s) = f[N]
  BY <1>0, <1>6 DEF Loop, LoopStates, NoCut
<1>8. f = Rec(f)
  BY <1>5, <1>6
<1>9. f[0] = NoCut /\ \A k \in 1 .. N : f[k] = cutRange(f[k - 1], s[k])
  <2>1. ASSUME NEW k \in 0 .. N PROVE f[k] = IF k = 0 THEN NoCut ELSE cutRange(f[k - 1], s[k])
    BY <1>8, Zenon
  <2>2. 0 \in 0 .. N /\ \A k \in 1 .. N : k \in 0 .. N /\ k # 0
    OBVIOUS
  <2> QED
    BY <2>1, <2>2, Zenon
<1> QED
  BY <1>0, <1>7, <1>9, Zenon

\* After k ranges the text is what the bytes up to there have become.
CutOK(c, E, w, k) == c.position = GapStart(w, k) /\ c.text = E[GapStart(w, k)]
CoversText(w, value) == \A p \in Nat : Hits(w, p) <=> Covered(value, p)

\* Cutting one more range keeps the text equal to the one rewritten byte by byte.
LEMMA CutStep ==
    ASSUME NEW value \in Texts, NEW E, ByteStates(E, value), NEW w \in Seq(Spans(value.length)), Apart(w),
           CoversText(w, value), NEW k \in 1 .. Len(w), NEW c, CutOK(c, E, w, k - 1)
    PROVE  CutOK(cutRange(c, w[k]), E, w, k)
<1>0. PICK n \in Nat : n = value.length
  BY TextFacts
<1>1. PICK m \in Spans(n) : m = w[k]
  BY <1>0
<1>2. PICK a \in Nat, b \in Nat : a = m.start /\ b = m.end /\ a < b /\ b <= n
  BY SpanNumbers
<1>3. k - 1 \in 0 .. Len(w) /\ k - 1 # Len(w) /\ k # 0 /\ k - 1 + 1 = k
  OBVIOUS
<1>4. a = GapEnd(w, k - 1, n) /\ b = GapStart(w, k)
  BY <1>1, <1>2, <1>3 DEF GapStart, GapEnd
<1>5. PICK q \in Nat : q = GapStart(w, k - 1) /\ q <= a /\ (k - 1 # 0 => q < a) /\ (k - 1 = 0 => q = 0)
  <2>1. k - 1 = 0 => GapStart(w, k - 1) = 0
    BY DEF GapStart
  <2> QED
    BY <2>1, <1>0, <1>3, <1>4, GapFacts
<1>6. \A p \in q .. a - 1 : ~Covered(value, p)
  <2>1. \A p \in q .. a - 1 : p \in Nat
    OBVIOUS
  <2>2. w \in Seq(Spans(n))
    BY <1>0
  <2>3. \A p \in GapStart(w, k - 1) .. GapEnd(w, k - 1, n) - 1 : ~Hits(w, p)
    BY <2>2, <1>3, GapFacts
  <2>4. \A p \in q .. a - 1 : ~Hits(w, p)
    BY <2>3, <1>4, <1>5
  <2> QED
    BY <2>1, <2>4 DEF CoversText
<1>7. \A p \in a .. b - 1 : Covered(value, p)
  <2>1. ASSUME NEW p \in a .. b - 1 PROVE Covered(value, p)
    <3>1. p \in Nat /\ In(m, p)
      BY <1>2 DEF In
    <3>2. Hits(w, p)
      BY <3>1, <1>1 DEF Hits
    <3> QED
      BY <3>1, <3>2 DEF CoversText
  <2> QED
    BY <2>1
<1>8. PICK u \in Seq(Int), v \in Seq(Int) : u = E[q] /\ v = E[a]
  <2>1. q \in 0 .. n /\ a \in 0 .. n
    BY <1>2, <1>5
  <2> QED
    BY <2>1, <1>0 DEF ByteStates
<1>9. GoesOn(v, u, q, a - q)
  <2>1. a <= value.length
    BY <1>0, <1>2
  <2> QED
    BY <2>1, <1>5, <1>6, <1>8, KeptStretch
<1>10. v = u \o Positions(q, a)
  BY <1>5, <1>9, GoesOnIsConcat
<1>11. v = <<>> \/ Last(v) # Placeholder
  <2>1. CASE q = a
    <3>1. q = 0
      BY <2>1, <1>5
    <3> QED
      BY <3>1, <2>1, <1>8 DEF ByteStates
  <2>2. CASE q # a
    <3>1. PICK d \in Nat, l \in Nat : d = a - q /\ l = Len(u) /\ d \in 1 .. d
      <4>1. a - q \in Nat /\ a - q \in 1 .. (a - q) /\ Len(u) \in Nat
        BY <2>2, <1>5
      <4> QED
        BY <4>1
    <3>2. Len(v) = l + d /\ v[l + d] = q + d - 1
      BY <3>1, <1>9 DEF GoesOn
    <3>3. Last(v) = a - 1
      BY <3>1, <3>2 DEF Last
    <3> QED
      BY <3>1, <3>3 DEF Placeholder
  <2> QED
    BY <2>1, <2>2
<1>12. E[b] = Append(v, Placeholder)
  <2>1. b <= value.length
    BY <1>0, <1>2
  <2>2. a < b /\ (E[a] = <<>> \/ Last(E[a]) # Placeholder)
    BY <1>2, <1>8, <1>11
  <2>3. E[b] = Append(E[a], Placeholder)
    BY <2>1, <2>2, <1>7, CoveredStretch
  <2> QED
    BY <2>3, <1>8
<1>13. v \o Hidden = Append(v, Placeholder)
  BY DEF Hidden, Placeholder
<1>14. c.position = q /\ c.text = u
  BY <1>5, <1>8 DEF CutOK
<1>15. cutRange(c, m) = [text |-> v \o Hidden, position |-> b]
  BY <1>2, <1>10, <1>14 DEF cutRange
<1> QED
  BY <1>1, <1>4, <1>12, <1>13, <1>15 DEF CutOK

\* The text without its ranges is the text byte by byte.
LEMMA CutIsExact ==
    ASSUME NEW value \in Texts, NEW w \in Seq(Spans(value.length)), Apart(w), CoversText(w, value),
           NEW cut, cut = Loop(cutRange, [text |-> <<>>, position |-> 0], w)
    PROVE  cut.text \o Positions(cut.position, value.length) = Exact(value)
<1>0. PICK n \in Nat, N \in Nat : n = value.length /\ N = Len(w)
  BY TextFacts
<1>1. PICK E : ByteStates(E, value) /\ Exact(value) = E[n]
  BY <1>0, ExactTable
<1>2. PICK f : cut = f[N] /\ f[0] = NoCut /\ \A k \in 1 .. N : f[k] = cutRange(f[k - 1], w[k])
  BY <1>0, CutTable
<1>3. PICK S : S = {k \in Nat : CutOK(f[k], E, w, k)}
  OBVIOUS
<1>4. 0 \in S
  <2>1. CutOK(NoCut, E, w, 0)
    BY <1>1 DEF CutOK, NoCut, GapStart, ByteStates
  <2> QED
    BY <2>1, <1>2, <1>3
<1>5. ASSUME NEW k \in 1 .. N, k - 1 \in S PROVE k \in S
  <2>1. CutOK(f[k - 1], E, w, k - 1) /\ k \in Nat
    BY <1>3, <1>5
  <2>2. CutOK(cutRange(f[k - 1], w[k]), E, w, k)
    BY <2>1, <1>0, <1>1, CutStep
  <2> QED
    BY <2>1, <2>2, <1>2, <1>3
<1>6. N \in S
  <2>1. \A k \in 0 .. N : k \in S
    BY <1>4, <1>5, EveryRound
  <2>2. N \in 0 .. N
    OBVIOUS
  <2> QED
    BY <2>1, <2>2
<1>7. CutOK(cut, E, w, N)
  BY <1>2, <1>3, <1>6
<1>8. PICK q \in Nat : q = GapStart(w, N) /\ q <= n /\ \A p \in q .. n - 1 : ~Covered(value, p)
  <2>1. GapEnd(w, N, n) = n /\ N \in 0 .. Len(w)
    BY <1>0 DEF GapEnd
  <2>2. PICK q \in Nat : q = GapStart(w, N) /\ q <= n /\ \A p \in q .. n - 1 : ~Hits(w, p)
    BY <2>1, <1>0, GapFacts
  <2>3. \A p \in q .. n - 1 : p \in Nat
    OBVIOUS
  <2>4. \A p \in q .. n - 1 : ~Covered(value, p)
    BY <2>2, <2>3 DEF CoversText
  <2> QED
    BY <2>2, <2>4
<1>9. PICK u \in Seq(Int), v \in Seq(Int) : u = E[q] /\ v = E[n]
  <2>1. q \in 0 .. n /\ n \in 0 .. n
    BY <1>8
  <2> QED
    BY <2>1, <1>0, <1>1 DEF ByteStates
<1>10. GoesOn(v, u, q, n - q)
  <2>1. n <= value.length
    BY <1>0
  <2> QED
    BY <2>1, <1>1, <1>8, <1>9, KeptStretch
<1>11. v = u \o Positions(q, n)
  BY <1>8, <1>10, GoesOnIsConcat
<1> QED
  BY <1>0, <1>1, <1>7, <1>8, <1>9, <1>11 DEF CutOK

\* A text with a covered byte does not stay as it is.
LEMMA CoveredShows ==
    ASSUME NEW value \in Texts, NEW p \in 0 .. value.length - 1, Covered(value, p)
    PROVE  Exact(value) # Whole(value)
<1>0. PICK n \in Nat : n = value.length
  BY TextFacts
<1>1. PICK E : ByteStates(E, value) /\ Exact(value) = E[n]
  BY <1>0, ExactTable
<1>2. (\A k \in 0 .. n : E[k] \in Seq(Int)) /\ \A k \in 1 .. n : E[k] = WithByte(value, E[k - 1], k - 1)
  BY <1>0, <1>1 DEF ByteStates
<1>3. PICK S : S = {k \in 0 .. n : p < k => \E i \in 1 .. Len(E[k]) : E[k][i] = Placeholder}
  OBVIOUS
<1>4. 0 \in S
  BY <1>0, <1>3
<1>5. ASSUME NEW k \in 1 .. n, k - 1 \in S PROVE k \in S
  <2>1. k \in 0 .. n /\ k - 1 \in 0 .. n
    OBVIOUS
  <2>2. PICK v \in Seq(Int) : v = E[k - 1]
    BY <2>1, <1>2
  <2>3. E[k] = WithByte(value, v, k - 1)
    BY <2>2, <1>2
  <2>4. PICK w : w = E[k]
    OBVIOUS
  <2>5. ASSUME NEW x \in Int, w = Append(v, x), NEW i \in 1 .. Len(v), v[i] = Placeholder
        PROVE  \E j \in 1 .. Len(w) : w[j] = Placeholder
    <3>1. i \in 1 .. Len(w) /\ w[i] = v[i]
      BY <2>5
    <3> QED
      BY <3>1, <2>5
  <2>6. CASE p < k - 1
    <3>1. PICK i \in 1 .. Len(v) : v[i] = Placeholder
      BY <2>2, <2>6, <1>3, <1>5
    <3>2. w = v \/ w = Append(v, k - 1) \/ w = Append(v, Placeholder)
      BY <2>3, <2>4, Zenon DEF WithByte
    <3>3. k - 1 \in Int /\ Placeholder \in Int
      BY DEF Placeholder
    <3>4. \E j \in 1 .. Len(w) : w[j] = Placeholder
      BY <3>1, <3>2, <3>3, <2>5
    <3> QED
      BY <3>4, <2>1, <2>4, <1>3
  <2>7. CASE p = k - 1
    <3>1. (v # <<>> /\ Last(v) = Placeholder /\ w = v) \/ w = Append(v, Placeholder)
      BY <2>3, <2>4, <2>7, Zenon DEF WithByte
    <3>2. CASE v # <<>> /\ Last(v) = Placeholder /\ w = v
      <4>1. Len(v) \in 1 .. Len(v) /\ v[Len(v)] = Placeholder
        BY <3>2 DEF Last
      <4> QED
        BY <4>1, <3>2, <2>1, <2>4, <1>3
    <3>3. CASE w = Append(v, Placeholder)
      <4>1. Len(w) \in 1 .. Len(w) /\ w[Len(w)] = Placeholder
        BY <3>3 DEF Placeholder
      <4> QED
        BY <4>1, <2>1, <2>4, <1>3
    <3> QED
      BY <3>1, <3>2, <3>3
  <2>8. CASE ~(p < k)
    BY <2>1, <2>8, <1>3
  <2> QED
    BY <2>6, <2>7, <2>8
<1>6. n \in S
  <2>1. \A k \in 0 .. n : k \in S
    BY <1>4, <1>5, EveryRound
  <2>2. n \in 0 .. n
    OBVIOUS
  <2> QED
    BY <2>1, <2>2
<1>7. PICK i \in 1 .. Len(E[n]) : E[n][i] = Placeholder
  BY <1>0, <1>3, <1>6
<1>8. ASSUME E[n] = Whole(value) PROVE FALSE
  <2>1. PICK w : w = Whole(value)
    OBVIOUS
  <2>2. i \in 1 .. Len(w) /\ w[i] = Placeholder
    BY <2>1, <1>7, <1>8
  <2>3. Len(w) = n /\ \A j \in 1 .. n : w[j] = j - 1
    BY <2>1, <1>0 DEF Whole
  <2> QED
    BY <2>2, <2>3 DEF Placeholder
<1> QED
  BY <1>1, <1>8

\* A text with none does.
LEMMA UncoveredStays ==
    ASSUME NEW value \in Texts, \A p \in Nat : ~Covered(value, p)
    PROVE  Exact(value) = Whole(value)
<1>0. PICK n \in Nat : n = value.length
  BY TextFacts
<1>1. PICK E : ByteStates(E, value) /\ Exact(value) = E[n]
  BY <1>0, ExactTable
<1>2. PICK w \in Seq(Int) : w = E[n]
  <2>1. n \in 0 .. n
    OBVIOUS
  <2> QED
    BY <2>1, <1>0, <1>1 DEF ByteStates
<1>3. GoesOn(w, <<>>, 0, n)
  <2>1. 0 <= n /\ n <= value.length /\ n - 0 = n /\ \A p \in 0 .. n - 1 : p \in Nat
    BY <1>0
  <2>2. GoesOn(E[n], E[0], 0, n - 0)
    BY <2>1, <1>1, KeptStretch
  <2> QED
    BY <2>1, <2>2, <1>1, <1>2 DEF ByteStates
<1>4. Len(w) = n /\ \A i \in 1 .. n : w[i] = i - 1
  BY <1>3 DEF GoesOn
<1>5. PICK v : v = Whole(value)
  OBVIOUS
<1>6. v \in Seq(Int) /\ Len(v) = n /\ \A i \in 1 .. n : v[i] = i - 1
  <2>1. v = [i \in 1 .. n |-> i - 1]
    BY <1>0, <1>5 DEF Whole
  <2>2. \A i \in 1 .. n : i - 1 \in Int
    OBVIOUS
  <2> QED
    BY <2>1, <2>2
<1>7. w = v
  BY <1>4, <1>6, SeqEqual
<1> QED
  BY <1>1, <1>2, <1>5, <1>7

\* The placeholder is never what a text is when nothing is replaced.
LEMMA HiddenIsNotWhole ==
    ASSUME NEW value \in Texts
    PROVE  Hidden # Whole(value)
<1>0. PICK n \in Nat : n = value.length
  BY TextFacts
<1>1. PICK w : w = Whole(value)
  OBVIOUS
<1>2. Len(w) = n /\ \A i \in 1 .. n : w[i] = i - 1
  BY <1>0, <1>1 DEF Whole
<1>3. PICK h : h = Hidden
  OBVIOUS
<1>4. Len(h) = 1 /\ h[1] = -1
  BY <1>3 DEF Hidden, Placeholder
<1>5. ASSUME h = w PROVE FALSE
  <2>1. n = 1 /\ 1 \in 1 .. n
    BY <1>2, <1>4, <1>5
  <2>2. w[1] = 1 - 1
    BY <2>1, <1>2
  <2> QED
    BY <2>2, <1>4, <1>5
<1> QED
  BY <1>1, <1>3, <1>5

\* scanScalar returns what is expected, and says truly whether that is the text itself.
ScannedRight(r, value) ==
    r.text = Expected(value) /\ (r.state = "unchanged" <=> Clean(value))

\* scanScalar returns the exact text and the state that goes with it.
LEMMA ScanIsRight ==
    ASSUME NEW value \in Texts
    PROVE  ScannedRight(scanScalar(value), value)
<1>1. PICK s, a : /\ collect(value) = Collection(s, a) /\ a \in Seq(Spans(value.length))
                  /\ \/ s = "unsafe" /\ MatchCount(value) > RedactLimit.matches
                     \/ /\ s = "unchanged" /\ ~(MatchCount(value) > RedactLimit.matches)
                        /\ \A p \in Nat : Hits(a, p) <=> Covered(value, p)
  BY CollectsAll DEF CollectedAll
<1>2. PICK found, cut : /\ found = collect(value)
                        /\ cut = Loop(cutRange, [text |-> <<>>, position |-> 0], mergeRanges(found.ranges))
  OBVIOUS
<1>3. found.state = s /\ found.ranges = a
  BY <1>1, <1>2 DEF Collection
<1>4. PICK rest : rest = cut.text \o Positions(cut.position, value.length)
  OBVIOUS
<1>5. PICK r : r = scanScalar(value)
  OBVIOUS
<1>6. r = CASE value.placeholder -> [text |-> Whole(value), state |-> "unchanged"]
            [] ~value.placeholder /\ (value.length > RedactLimit.field \/ ~value.utf8)
                  -> [text |-> Hidden, state |-> "unsafe"]
            [] OTHER ->
                  CASE s = "unsafe" -> [text |-> Hidden, state |-> "unsafe"]
                    [] s # "unsafe" /\ a = <<>> -> [text |-> Whole(value), state |-> "unchanged"]
                    [] OTHER -> [text |-> rest, state |-> "changed"]
  BY <1>2, <1>3, <1>4, <1>5 DEF scanScalar
<1>7. PICK x : x = Expected(value)
  OBVIOUS
<1>8. x = CASE value.placeholder -> Whole(value)
            [] ~value.placeholder /\ \/ value.length > RedactLimit.field \/ ~value.utf8
                                     \/ MatchCount(value) > RedactLimit.matches
                  -> Hidden
            [] OTHER -> Exact(value)
  BY <1>7 DEF Expected
<1>9. CASE value.placeholder
  <2>1. r = [text |-> Whole(value), state |-> "unchanged"] /\ x = Whole(value)
    BY <1>6, <1>8, <1>9
  <2>2. r.text = Whole(value) /\ r.state = "unchanged"
    BY <2>1
  <2> QED
    BY <2>1, <2>2, <1>5, <1>7 DEF ScannedRight, Clean
<1>10. CASE ~value.placeholder /\ (value.length > RedactLimit.field \/ ~value.utf8 \/ s = "unsafe")
  <2>1. r = [text |-> Hidden, state |-> "unsafe"]
    BY <1>6, <1>10
  <2>2. x = Hidden
    BY <1>1, <1>8, <1>10
  <2>3. r.text = Hidden /\ r.state # "unchanged"
    BY <2>1
  <2> QED
    BY <2>2, <2>3, <1>5, <1>7, HiddenIsNotWhole DEF ScannedRight, Clean
<1>11. CASE ~value.placeholder /\ ~(value.length > RedactLimit.field) /\ value.utf8 /\ s # "unsafe"
  <2>1. ~(MatchCount(value) > RedactLimit.matches) /\ \A p \in Nat : Hits(a, p) <=> Covered(value, p)
    BY <1>1, <1>11
  <2>2. x = Exact(value)
    BY <2>1, <1>8, <1>11
  <2>3. CASE a = <<>>
    <3>1. r = [text |-> Whole(value), state |-> "unchanged"]
      BY <2>3, <1>6, <1>11
    <3>2. \A p \in Nat : ~Hits(a, p)
      BY <2>3 DEF Hits
    <3>3. Exact(value) = Whole(value)
      BY <3>2, <2>1, UncoveredStays
    <3>4. r.text = Whole(value) /\ r.state = "unchanged"
      BY <3>1
    <3> QED
      BY <3>3, <3>4, <2>2, <1>5, <1>7 DEF ScannedRight, Clean
  <2>4. CASE a # <<>>
    <3>1. r = [text |-> rest, state |-> "changed"]
      BY <2>4, <1>6, <1>11
    <3>2. PICK w : w = mergeRanges(a)
      OBVIOUS
    <3>3. w \in Seq(Spans(value.length)) /\ Apart(w) /\ \A p \in Nat : Hits(w, p) <=> Hits(a, p)
      BY <3>2, <1>1, MergesRanges DEF Merges
    <3>4. CoversText(w, value)
      BY <3>3, <2>1, Zenon DEF CoversText
    <3>5. cut = Loop(cutRange, [text |-> <<>>, position |-> 0], w)
      BY <3>2, <1>2, <1>3
    <3>6. rest = Exact(value)
      BY <3>3, <3>4, <3>5, <1>4, CutIsExact
    <3>7. 1 \in 1 .. Len(a) /\ a[1] \in Spans(value.length)
      BY <2>4, <1>1
    <3>8. PICK p \in Nat : p = a[1].start /\ In(a[1], p) /\ p \in 0 .. value.length - 1
      <4>1. PICK b \in Nat, e \in Nat : b = a[1].start /\ e = a[1].end /\ b < e /\ e <= value.length
        BY <3>7, SpanNumbers
      <4>2. value.length \in Nat
        BY TextFacts
      <4>3. b \in 0 .. value.length - 1 /\ In(a[1], b)
        BY <4>1, <4>2 DEF In
      <4> QED
        BY <4>1, <4>3
    <3>9. Covered(value, p)
      BY <3>7, <3>8, <2>1 DEF Hits
    <3>10. Exact(value) # Whole(value)
      BY <3>8, <3>9, CoveredShows
    <3>11. r.text = rest /\ r.state # "unchanged"
      BY <3>1
    <3> QED
      BY <3>6, <3>10, <3>11, <2>2, <1>5, <1>7 DEF ScannedRight, Clean
  <2> QED
    BY <2>3, <2>4
<1> QED
  BY <1>9, <1>10, <1>11, TextFacts

-----------------------------------------------------------------------------
(* toolresultredactor: the parts of a result                                *)

\* What a document and a list of attachments must become
StructuredExact(doc, got) ==
    IF \E i \in DOMAIN doc :
          \/ doc[i].role = "broken" \/ i > RedactLimit.nodes
          \/ doc[i].role = "key" /\ ~Clean(doc[i].value)
          \/ /\ doc[i].role # "key"
             /\ doc[i].depth > RedactLimit.depth
      THEN got = structuredPlaceholder
      ELSE /\ Len(got) = Len(doc)
           /\ \A i \in DOMAIN doc :
                 doc[i].role \in {"key", "string"} => got[i] = Expected(doc[i].value)
AttachmentsExact(list, got) ==
    IF Len(list) > RedactLimit.attachments THEN got = attachmentPlaceholder
    ELSE \A i \in DOMAIN list :
            /\ \A f \in DOMAIN list[i].fields : got[i].fields[f] = Expected(list[i].fields[f])
            /\ ExpectedEntries(list[i].metadata, got[i].metadata)

Nodes == [role : STRING, depth : Nat, owner : Nat, name : STRING, value : Texts]

\* A document comes out hidden whole or with every string exact.
LEMMA StructuredIsExact ==
    ASSUME NEW doc \in Seq(Nodes)
    PROVE  StructuredExact(doc, scanStructured(doc))
<1>1. ASSUME NEW i \in DOMAIN doc PROVE doc[i].value \in Texts
  <2>1. doc[i] \in Nodes
    BY <1>1
  <2> QED
    BY <2>1 DEF Nodes
<1>2. \A i \in DOMAIN doc : /\ scanScalar(doc[i].value).text = Expected(doc[i].value)
                            /\ scanScalar(doc[i].value).state = "unchanged" <=> Clean(doc[i].value)
  BY <1>1, ScanIsRight DEF ScannedRight
<1>4. (\E i \in DOMAIN doc : NodeUnsafe(doc, i))
        <=> \E i \in DOMAIN doc : \/ doc[i].role = "broken" \/ i > RedactLimit.nodes
                                  \/ doc[i].role = "key" /\ ~Clean(doc[i].value)
                                  \/ doc[i].role # "key" /\ doc[i].depth > RedactLimit.depth
  BY <1>2, Zenon DEF NodeUnsafe
<1>5. PICK got : got = scanStructured(doc)
  OBVIOUS
<1>6. CASE \E i \in DOMAIN doc : NodeUnsafe(doc, i)
  <2>1. got = structuredPlaceholder
    BY <1>5, <1>6 DEF scanStructured
  <2> QED
    BY <2>1, <1>4, <1>5, <1>6, Zenon DEF StructuredExact
<1>7. CASE ~\E i \in DOMAIN doc : NodeUnsafe(doc, i)
  <2>1. got = [i \in DOMAIN doc |->
                  IF doc[i].role \in {"key", "string"} THEN scanScalar(doc[i].value).text ELSE Nothing]
    BY <1>5, <1>7, Zenon DEF scanStructured
  <2>2. Len(got) = Len(doc)
    <3>1. DOMAIN got = DOMAIN doc /\ DOMAIN doc = 1 .. Len(doc) /\ Len(doc) \in Nat
      BY <2>1
    <3>2. PICK F : F = [i \in 1 .. Len(doc) |-> got[i]]
      OBVIOUS
    <3>3. got = F
      BY <3>1, <3>2, <2>1
    <3>4. Len(F) = Len(doc)
      BY <3>1, <3>2
    <3> QED
      BY <3>3, <3>4
  <2>3. ASSUME NEW i \in DOMAIN doc, doc[i].role \in {"key", "string"}
        PROVE  got[i] = Expected(doc[i].value)
    <3>1. got[i] = IF doc[i].role \in {"key", "string"} THEN scanScalar(doc[i].value).text ELSE Nothing
      BY <2>1, Zenon
    <3> QED
      BY <3>1, <2>3, <1>2
  <2> QED
    BY <2>2, <2>3, <1>4, <1>5, <1>7, Zenon DEF StructuredExact
<1> QED
  BY <1>6, <1>7

\* A map comes out hidden whole or with every value exact.
LEMMA MetadataIsExact ==
    ASSUME NEW entries \in Seq(Texts \X Texts)
    PROVE  ExpectedEntries(entries, scanMetadata(entries))
<1>1. \A i \in DOMAIN entries : entries[i][1] \in Texts /\ entries[i][2] \in Texts
  <2>1. ASSUME NEW i \in DOMAIN entries PROVE entries[i] \in Texts \X Texts
    BY <2>1
  <2> QED
    BY <2>1
<1>2. \A i \in DOMAIN entries : /\ scanScalar(entries[i][2]).text = Expected(entries[i][2])
                                /\ scanScalar(entries[i][1]).state = "unchanged" <=> Clean(entries[i][1])
  BY <1>1, ScanIsRight DEF ScannedRight
<1>3. (\E i \in DOMAIN entries : scanScalar(entries[i][1]).state # "unchanged")
        <=> \E i \in DOMAIN entries : ~Clean(entries[i][1])
  BY <1>2
<1>4. [i \in DOMAIN entries |-> <<Whole(entries[i][1]), scanScalar(entries[i][2]).text>>]
        = [i \in DOMAIN entries |-> <<Whole(entries[i][1]), Expected(entries[i][2])>>]
  BY <1>2
<1> QED
  BY <1>3, <1>4, Zenon DEF ExpectedEntries, scanMetadata

Attachments == [fields : Seq(Texts), metadata : Seq(Texts \X Texts)]

\* A list of attachments comes out hidden whole or with every field exact.
LEMMA AttachmentsAreExact ==
    ASSUME NEW list \in Seq(Attachments)
    PROVE  AttachmentsExact(list, scanAttachments(list))
<1>1. PICK got : got = scanAttachments(list)
  OBVIOUS
<1>2. CASE Len(list) > RedactLimit.attachments
  BY <1>1, <1>2, Zenon DEF AttachmentsExact, scanAttachments
<1>3. CASE ~(Len(list) > RedactLimit.attachments)
  <2>1. got = [i \in DOMAIN list |->
                 [fields |-> [f \in DOMAIN list[i].fields |-> scanScalar(list[i].fields[f]).text],
                  metadata |-> scanMetadata(list[i].metadata)]]
    BY <1>1, <1>3, Zenon DEF scanAttachments
  <2>2. ASSUME NEW i \in DOMAIN list
        PROVE  /\ \A f \in DOMAIN list[i].fields : got[i].fields[f] = Expected(list[i].fields[f])
               /\ ExpectedEntries(list[i].metadata, got[i].metadata)
    <3>1. PICK F, M : F = Seq(Texts) /\ M = Seq(Texts \X Texts)
      OBVIOUS
    <3>2. list[i] \in [fields : F, metadata : M]
      <4>1. PICK A : A = Attachments
        OBVIOUS
      <4>2. list \in Seq(A)
        BY <4>1
      <4>3. list[i] \in A
        BY <4>2, <2>2
      <4> QED
        BY <3>1, <4>1, <4>3, Zenon DEF Attachments
    <3>3. PICK u, v : u = list[i].fields /\ v = list[i].metadata
      OBVIOUS
    <3>4. u \in Seq(Texts) /\ v \in Seq(Texts \X Texts)
      BY <3>1, <3>2, <3>3
    <3>5. PICK x, y : x = [f \in DOMAIN u |-> scanScalar(u[f]).text] /\ y = scanMetadata(v)
      OBVIOUS
    <3>6. got[i] = [fields |-> x, metadata |-> y]
      <4>1. got[i] = [fields |-> [f \in DOMAIN list[i].fields |-> scanScalar(list[i].fields[f]).text],
                      metadata |-> scanMetadata(list[i].metadata)]
        BY <2>1, Zenon
      <4> QED
        BY <4>1, <3>3, <3>5
    <3>7. got[i].fields = x /\ got[i].metadata = y
      BY <3>6
    <3>8. ASSUME NEW f \in DOMAIN u PROVE x[f] = Expected(u[f])
      <4>1. u[f] \in Texts
        BY <3>4, <3>8
      <4>2. scanScalar(u[f]).text = Expected(u[f])
        BY <4>1, ScanIsRight DEF ScannedRight
      <4> QED
        BY <4>2, <3>5, <3>8, Zenon
    <3>9. ExpectedEntries(v, y)
      BY <3>4, <3>5, MetadataIsExact
    <3> QED
      BY <3>3, <3>7, <3>8, <3>9, Zenon
  <2> QED
    BY <2>2, <1>1, <1>3, Zenon DEF AttachmentsExact
<1> QED
  BY <1>2, <1>3

\* The state of the stage
RedactState(pc, in, out, gaveUp) == [pc |-> pc, input |-> in, output |-> out, gaveUp |-> gaveUp]
Parts(o, s, m, a) == [output |-> o, structured |-> s, metadata |-> m, attachments |-> a]

\* Which parts have been scanned at each phase
PartsScanned(pc, in, out) ==
    \E o, s, m, a :
        /\ out = Parts(o, s, m, a)
        /\ pc \in {"structured", "metadata", "attachments", "last"} => o = Expected(in.output)
        /\ pc \in {"metadata", "attachments", "last"} => StructuredExact(in.structured, s)
        /\ pc \in {"attachments", "last"} => ExpectedEntries(in.metadata, m)
        /\ pc = "last" => AttachmentsExact(in.attachments, a)
Scanning == {"enter", "structured", "metadata", "attachments", "last"}

ScanOK(pc, in, out, gaveUp) ==
    /\ pc \in Scanning => in \in RedactInputs /\ gaveUp = FALSE /\ PartsScanned(pc, in, out)
    /\ pc = "result" => \/ gaveUp = TRUE /\ out = fullyPlaceholderized(in)
                        \/ gaveUp = FALSE /\ PartsScanned("last", in, out)
RedactionOK(d) ==
    \E pc, in, out, gaveUp : d = RedactState(pc, in, out, gaveUp) /\ ScanOK(pc, in, out, gaveUp)
RedactionInv == RedactionOK(redaction)

\* The stage begins without a result.
LEMMA IdleScan == RedactionOK(RedactionIdle)
<1>1. RedactionIdle = RedactState("idle", <<>>, NoOutput, FALSE)
  BY DEF RedactionIdle, RedactState
<1>2. ScanOK("idle", <<>>, NoOutput, FALSE)
  BY DEF ScanOK, Scanning
<1> QED
  BY <1>1, <1>2, Zenon DEF RedactionOK

\* The parts of a result have their types.
LEMMA InputTypes ==
    ASSUME NEW in \in RedactInputs
    PROVE  /\ in.output \in Texts /\ in.structured \in Seq(Nodes) /\ in.metadata \in Seq(Texts \X Texts)
           /\ in.attachments \in Seq(Attachments)
BY RedactAssumption, Zenon DEF Nodes, Attachments

\* A result that arrives has no part scanned.
LEMMA ArrivalScan ==
    ASSUME NEW in \in RedactInputs, RedactionArrives(in)
    PROVE  RedactionInv'
<1>1. redaction' = RedactState("enter", in, NoOutput, FALSE)
  BY DEF RedactionArrives, RedactionIdle, RedactState
<1>2. NoOutput = Parts(Nothing, Nothing, Nothing, Nothing)
  BY DEF NoOutput, Parts
<1>3. "enter" \notin {"structured", "metadata", "attachments", "last"}
  OBVIOUS
<1>4. PartsScanned("enter", in, NoOutput)
  <2>1. "enter" # "last" /\ "enter" \notin {"metadata", "attachments", "last"}
        /\ "enter" \notin {"attachments", "last"}
    OBVIOUS
  <2> QED
    BY <2>1, <1>2, <1>3, Zenon DEF PartsScanned
<1>5. ScanOK("enter", in, NoOutput, FALSE)
  BY <1>4 DEF ScanOK
<1> QED
  BY <1>1, <1>5, Zenon DEF RedactionInv, RedactionOK

\* Every step of the redactor preserves the invariant.
LEMMA RedactionStep ==
    ASSUME RedactionInv, RedactionNext
    PROVE  RedactionInv'
<1>1. PICK pc, in, out, gaveUp : redaction = RedactState(pc, in, out, gaveUp) /\ ScanOK(pc, in, out, gaveUp)
  BY Zenon DEF RedactionInv, RedactionOK
<1>2. redaction.pc = pc /\ redaction.input = in /\ redaction.output = out /\ redaction.gaveUp = gaveUp
  BY <1>1 DEF RedactState
<1>3. ASSUME NEW q, NEW x, NEW g, redaction' = RedactState(q, in, x, g), ScanOK(q, in, x, g)
      PROVE  RedactionInv'
  BY <1>3, Zenon DEF RedactionInv, RedactionOK
<1>4. ASSUME GiveUp PROVE RedactionInv'
  <2>1. PICK x : x = fullyPlaceholderized(in)
    OBVIOUS
  <2>2. redaction' = [redaction EXCEPT !.pc = "result", !.gaveUp = TRUE, !.output = x]
    BY <2>1, <1>2, <1>4 DEF GiveUp
  <2>3. redaction' = RedactState("result", in, x, TRUE)
    BY <2>2, <1>1 DEF RedactState
  <2>4. ScanOK("result", in, x, TRUE)
    BY <2>1 DEF ScanOK, Scanning
  <2> QED
    BY <2>3, <2>4, <1>3, Zenon
<1>5. ASSUME pc \in Scanning
      PROVE  /\ in \in RedactInputs /\ gaveUp = FALSE
             /\ \E o, s, m, a :
                  /\ out = Parts(o, s, m, a)
                  /\ pc \in {"structured", "metadata", "attachments", "last"} => o = Expected(in.output)
                  /\ pc \in {"metadata", "attachments", "last"} => StructuredExact(in.structured, s)
                  /\ pc \in {"attachments", "last"} => ExpectedEntries(in.metadata, m)
                  /\ pc = "last" => AttachmentsExact(in.attachments, a)
  BY <1>1, <1>5, Zenon DEF ScanOK, PartsScanned
<1>6. CASE RedactExcluded
  <2>1. redaction' = RedactState("done", in, out, gaveUp)
    BY <1>1, <1>6 DEF RedactExcluded, RedactState
  <2>2. ScanOK("done", in, out, gaveUp)
    BY DEF ScanOK, Scanning
  <2> QED
    BY <2>1, <2>2, <1>3, Zenon
<1>7. CASE RedactOutput
  <2>1. PICK v : v = scanScalar(in.output).text
    OBVIOUS
  <2>2. pc = "enter" /\ (GiveUp \/ redaction' = [redaction EXCEPT !.pc = "structured", !.output["output"] = v])
    BY <2>1, <1>2, <1>7 DEF RedactOutput, Phase
  <2>3. PICK o, s, m, a : out = Parts(o, s, m, a) /\ in \in RedactInputs /\ gaveUp = FALSE
    BY <2>2, <1>5 DEF Scanning
  <2>4. CASE redaction' = [redaction EXCEPT !.pc = "structured", !.output["output"] = v]
    <3>1. PICK x : x = [out EXCEPT !.output = v]
      OBVIOUS
    <3>2. redaction' = RedactState("structured", in, x, gaveUp)
      BY <3>1, <2>4, <1>1 DEF RedactState
    <3>3. x = Parts(v, s, m, a)
      BY <3>1, <2>3 DEF Parts
    <3>4. v = Expected(in.output)
      BY <2>1, <2>3, InputTypes, ScanIsRight DEF ScannedRight
    <3>5. "structured" \notin {"metadata", "attachments", "last"} /\ "structured" \notin {"attachments", "last"}
          /\ "structured" # "last"
      OBVIOUS
    <3>6. PartsScanned("structured", in, x)
      BY <3>3, <3>4, <3>5, Zenon DEF PartsScanned
    <3>7. ScanOK("structured", in, x, gaveUp)
      BY <3>6, <2>3 DEF ScanOK
    <3> QED
      BY <3>2, <3>7, <1>3, Zenon
  <2> QED
    BY <2>2, <2>4, <1>4
<1>8. CASE RedactStructured
  <2>1. PICK v : v = scanStructured(in.structured)
    OBVIOUS
  <2>2. pc = "structured"
        /\ (GiveUp \/ redaction' = [redaction EXCEPT !.pc = "metadata", !.output["structured"] = v])
    BY <2>1, <1>2, <1>8 DEF RedactStructured, Phase
  <2>3. PICK o, s, m, a : out = Parts(o, s, m, a) /\ in \in RedactInputs /\ gaveUp = FALSE
                          /\ o = Expected(in.output)
    BY <2>2, <1>5 DEF Scanning
  <2>4. CASE redaction' = [redaction EXCEPT !.pc = "metadata", !.output["structured"] = v]
    <3>1. PICK x : x = [out EXCEPT !.structured = v]
      OBVIOUS
    <3>2. redaction' = RedactState("metadata", in, x, gaveUp)
      BY <3>1, <2>4, <1>1 DEF RedactState
    <3>3. x = Parts(o, v, m, a)
      BY <3>1, <2>3 DEF Parts
    <3>4. StructuredExact(in.structured, v)
      BY <2>1, <2>3, InputTypes, StructuredIsExact
    <3>5. "metadata" \notin {"attachments", "last"} /\ "metadata" # "last"
      OBVIOUS
    <3>6. PartsScanned("metadata", in, x)
      BY <3>3, <3>4, <3>5, <2>3, Zenon DEF PartsScanned
    <3>7. ScanOK("metadata", in, x, gaveUp)
      BY <3>6, <2>3 DEF ScanOK
    <3> QED
      BY <3>2, <3>7, <1>3, Zenon
  <2> QED
    BY <2>2, <2>4, <1>4
<1>9. CASE RedactMetadata
  <2>1. PICK v : v = scanMetadata(in.metadata)
    OBVIOUS
  <2>2. pc = "metadata"
        /\ (GiveUp \/ redaction' = [redaction EXCEPT !.pc = "attachments", !.output["metadata"] = v])
    BY <2>1, <1>2, <1>9 DEF RedactMetadata, Phase
  <2>3. PICK o, s, m, a : out = Parts(o, s, m, a) /\ in \in RedactInputs /\ gaveUp = FALSE
                          /\ o = Expected(in.output) /\ StructuredExact(in.structured, s)
    BY <2>2, <1>5 DEF Scanning
  <2>4. CASE redaction' = [redaction EXCEPT !.pc = "attachments", !.output["metadata"] = v]
    <3>1. PICK x : x = [out EXCEPT !.metadata = v]
      OBVIOUS
    <3>2. redaction' = RedactState("attachments", in, x, gaveUp)
      BY <3>1, <2>4, <1>1 DEF RedactState
    <3>3. x = Parts(o, s, v, a)
      BY <3>1, <2>3 DEF Parts
    <3>4. ExpectedEntries(in.metadata, v)
      BY <2>1, <2>3, InputTypes, MetadataIsExact
    <3>5. "attachments" # "last"
      OBVIOUS
    <3>6. PartsScanned("attachments", in, x)
      BY <3>3, <3>4, <3>5, <2>3, Zenon DEF PartsScanned
    <3>7. ScanOK("attachments", in, x, gaveUp)
      BY <3>6, <2>3 DEF ScanOK
    <3> QED
      BY <3>2, <3>7, <1>3, Zenon
  <2> QED
    BY <2>2, <2>4, <1>4
<1>10. CASE RedactAttachments
  <2>1. PICK v : v = scanAttachments(in.attachments)
    OBVIOUS
  <2>2. pc = "attachments"
        /\ (GiveUp \/ redaction' = [redaction EXCEPT !.pc = "last", !.output["attachments"] = v])
    BY <2>1, <1>2, <1>10 DEF RedactAttachments, Phase
  <2>3. PICK o, s, m, a : out = Parts(o, s, m, a) /\ in \in RedactInputs /\ gaveUp = FALSE
                          /\ o = Expected(in.output) /\ StructuredExact(in.structured, s)
                          /\ ExpectedEntries(in.metadata, m)
    BY <2>2, <1>5 DEF Scanning
  <2>4. CASE redaction' = [redaction EXCEPT !.pc = "last", !.output["attachments"] = v]
    <3>1. PICK x : x = [out EXCEPT !.attachments = v]
      OBVIOUS
    <3>2. redaction' = RedactState("last", in, x, gaveUp)
      BY <3>1, <2>4, <1>1 DEF RedactState
    <3>3. x = Parts(o, s, m, v)
      BY <3>1, <2>3 DEF Parts
    <3>4. AttachmentsExact(in.attachments, v)
      BY <2>1, <2>3, InputTypes, AttachmentsAreExact
    <3>5. PartsScanned("last", in, x)
      BY <3>3, <3>4, <2>3, Zenon DEF PartsScanned
    <3>6. ScanOK("last", in, x, gaveUp)
      BY <3>5, <2>3 DEF ScanOK
    <3> QED
      BY <3>2, <3>6, <1>3, Zenon
  <2> QED
    BY <2>2, <2>4, <1>4
<1>11. CASE RedactReturn
  <2>1. pc = "last" /\ (GiveUp \/ redaction' = [redaction EXCEPT !.pc = "result"])
    BY <1>2, <1>11 DEF RedactReturn
  <2>2. CASE redaction' = [redaction EXCEPT !.pc = "result"]
    <3>1. redaction' = RedactState("result", in, out, gaveUp)
      BY <2>2, <1>1 DEF RedactState
    <3>2. gaveUp = FALSE /\ PartsScanned("last", in, out)
      BY <2>1, <1>1 DEF ScanOK, Scanning
    <3>3. ScanOK("result", in, out, gaveUp)
      BY <3>2 DEF ScanOK, Scanning
    <3> QED
      BY <3>1, <3>3, <1>3, Zenon
  <2> QED
    BY <2>1, <2>2, <1>4
<1>12. CASE RedactPanic
  BY <1>4, <1>12 DEF RedactPanic
<1>13. CASE RedactionDone
  <2>1. redaction' = RedactState("done", <<>>, NoOutput, FALSE)
    BY <1>13 DEF RedactionDone, RedactionIdle, RedactState
  <2>2. ScanOK("done", <<>>, NoOutput, FALSE)
    BY DEF ScanOK, Scanning
  <2> QED
    BY <2>1, <2>2, Zenon DEF RedactionInv, RedactionOK
<1> QED
  BY <1>6, <1>7, <1>8, <1>9, <1>10, <1>11, <1>12, <1>13 DEF RedactionNext

\* The invariant implies what a result must be when it leaves.
LEMMA RedactionInvSuffices == RedactionInv => RedactionIsExact
<1> SUFFICES ASSUME RedactionInv PROVE RedactionIsExact
  OBVIOUS
<1>1. PICK pc, in, out, gaveUp : redaction = RedactState(pc, in, out, gaveUp) /\ ScanOK(pc, in, out, gaveUp)
  BY Zenon DEF RedactionInv, RedactionOK
<1>2. redaction.pc = pc /\ redaction.input = in /\ redaction.output = out /\ redaction.gaveUp = gaveUp
  BY <1>1 DEF RedactState
<1>3. ASSUME PartsScanned("last", in, out)
      PROVE  /\ out.output = Expected(in.output) /\ StructuredExact(in.structured, out.structured)
             /\ ExpectedEntries(in.metadata, out.metadata) /\ AttachmentsExact(in.attachments, out.attachments)
  <2>1. PICK o, s, m, a : /\ out = Parts(o, s, m, a) /\ o = Expected(in.output)
                          /\ StructuredExact(in.structured, s) /\ ExpectedEntries(in.metadata, m)
                          /\ AttachmentsExact(in.attachments, a)
    BY <1>3 DEF PartsScanned
  <2>2. out.output = o /\ out.structured = s /\ out.metadata = m /\ out.attachments = a
    BY <2>1 DEF Parts
  <2> QED
    BY <2>1, <2>2
<1>4. CASE pc # "result"
  BY <1>2, <1>4 DEF RedactionIsExact
<1>5. CASE pc = "result"
  <2>1. \/ gaveUp = TRUE /\ out = fullyPlaceholderized(in)
        \/ gaveUp = FALSE /\ PartsScanned("last", in, out)
    BY <1>1, <1>5 DEF ScanOK
  <2>2. CASE gaveUp = TRUE /\ out = fullyPlaceholderized(in)
    BY <2>2, <1>2, Zenon DEF RedactionIsExact
  <2>3. CASE gaveUp = FALSE /\ PartsScanned("last", in, out)
    BY <2>3, <1>2, <1>3, Zenon DEF RedactionIsExact, StructuredExact, AttachmentsExact
  <2> QED
    BY <2>1, <2>2, <2>3
<1> QED
  BY <1>4, <1>5

\* The invariant holds of every result the stage is handed.
LEMMA RedactionInvHolds == RedactionSpec => []RedactionInv
<1>1. redaction = RedactionIdle => RedactionInv
  BY IdleScan DEF RedactionInv
<1>2. RedactionInv /\ [\/ RedactionNext \/ redaction' = RedactionIdle
                       \/ \E in \in RedactInputs : RedactionArrives(in)]_redaction
        => RedactionInv'
  <2>1. ASSUME RedactionInv, RedactionNext PROVE RedactionInv'
    BY <2>1, RedactionStep
  <2>2. ASSUME redaction' = RedactionIdle PROVE RedactionInv'
    BY <2>2, IdleScan DEF RedactionInv
  <2>3. ASSUME NEW in \in RedactInputs, RedactionArrives(in) PROVE RedactionInv'
    BY <2>3, ArrivalScan
  <2>4. ASSUME RedactionInv, UNCHANGED redaction PROVE RedactionInv'
    BY <2>4 DEF RedactionInv
  <2> QED
    BY <2>1, <2>2, <2>3, <2>4
<1> QED
  BY <1>1, <1>2, PTL DEF RedactionSpec

\* A result leaves the redactor with every byte of every match gone and every other byte kept, or
\* hidden whole when it could not be scanned to its end (redact.go:53-219), whatever the rules,
\* their matches, the limits and the moment the context ends.
THEOREM ExactRedaction == RedactionSpec => []RedactionIsExact
<1>1. RedactionInv => RedactionIsExact
  BY RedactionInvSuffices
<1> QED
  BY <1>1, RedactionInvHolds, PTL
=============================================================================
