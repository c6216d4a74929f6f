------------------------ MODULE BridgeContractProofs ------------------------
(***************************************************************************)
(* Theorems about the bridge contract, for any number of deposits and      *)
(* withdrawals and any depth of re-entry.                                  *)
(***************************************************************************)
EXTENDS BridgeContract, SequenceTheorems, FiniteSetTheorems, WellFoundedInduction, TLAPS

(***************************************************************************)
(* n is the total of the first k values of v.  The witness f holds the     *)
(* running totals, which saves an induction over the values.               *)
(***************************************************************************)
IsTotal(v, k, n) ==
    \E f \in [0 .. k -> Nat] :
        /\ f[0] = 0
        /\ f[k] = n
        /\ \A i \in 1 .. k : f[i] = f[i - 1] + v[i]
        /\ \A i, j \in 0 .. k : i <= j => f[i] <= f[j]

\* No values add up to zero.
LEMMA TotalOfNone == ASSUME NEW v PROVE IsTotal(v, 0, 0)
<1> DEFINE f == [i \in 0 .. 0 |-> 0]
<1>1. /\ f \in [0 .. 0 -> Nat]
      /\ f[0] = 0
      /\ \A i \in 1 .. 0 : f[i] = f[i - 1] + v[i]
      /\ \A i, j \in 0 .. 0 : i <= j => f[i] <= f[j]
  OBVIOUS
<1>2. QED
  BY <1>1 DEF IsTotal

\* One more value adds to the total.
LEMMA TotalOfMore ==
    ASSUME NEW k \in Nat, NEW n \in Nat,
           NEW v \in [1 .. k -> Nat], NEW w \in [1 .. (k + 1) -> Nat],
           \A i \in 1 .. k : w[i] = v[i],
           IsTotal(v, k, n)
    PROVE  IsTotal(w, k + 1, n + w[k + 1])
<1>1. PICK f \in [0 .. k -> Nat] :
        /\ f[0] = 0
        /\ f[k] = n
        /\ \A i \in 1 .. k : f[i] = f[i - 1] + v[i]
        /\ \A i, j \in 0 .. k : i <= j => f[i] <= f[j]
  BY DEF IsTotal
<1> DEFINE g == [i \in 0 .. (k + 1) |-> IF i <= k THEN f[i] ELSE n + w[k + 1]]
<1>2. w[k + 1] \in Nat
  OBVIOUS
<1>3. g \in [0 .. (k + 1) -> Nat] /\ g[0] = 0 /\ g[k + 1] = n + w[k + 1]
  BY <1>1, <1>2
<1>4. ASSUME NEW i \in 1 .. (k + 1) PROVE g[i] = g[i - 1] + w[i]
  <2>1. CASE i <= k
    BY <1>1, <2>1
  <2>2. CASE i = k + 1
    BY <1>1, <2>2
  <2>3. QED
    BY <2>1, <2>2
<1>5. ASSUME NEW i \in 0 .. (k + 1), NEW j \in 0 .. (k + 1), i <= j
      PROVE  g[i] <= g[j]
  <2>1. CASE j <= k
    BY <1>1, <1>5, <2>1
  <2>2. CASE j = k + 1 /\ i <= k
    <3>1. f[i] <= f[k] /\ f[i] \in Nat
      BY <1>1, <2>2
    <3>2. QED
      BY <1>1, <1>2, <2>2, <3>1
  <2>3. CASE j = k + 1 /\ i = k + 1
    BY <1>3, <2>3, <1>2
  <2>4. QED
    BY <1>5, <2>1, <2>2, <2>3
<1>6. QED
  <2> HIDE DEF g
  <2> QED BY <1>3, <1>4, <1>5 DEF IsTotal

\* A value is at most the total, and clearing it takes it off the total.
LEMMA TotalOfLess ==
    ASSUME NEW k \in Nat, NEW n \in Nat, NEW p \in 1 .. k,
           NEW v \in [1 .. k -> Nat], NEW w \in [1 .. k -> Nat],
           w[p] = 0, \A i \in 1 .. k : i # p => w[i] = v[i],
           IsTotal(v, k, n)
    PROVE  v[p] <= n /\ IsTotal(w, k, n - v[p])
<1>1. PICK f \in [0 .. k -> Nat] :
        /\ f[0] = 0
        /\ f[k] = n
        /\ \A i \in 1 .. k : f[i] = f[i - 1] + v[i]
        /\ \A i, j \in 0 .. k : i <= j => f[i] <= f[j]
  BY DEF IsTotal
<1>2. v[p] \in Nat /\ f[p] \in Nat /\ f[p - 1] \in Nat /\ f[p] = f[p - 1] + v[p]
  BY <1>1
<1>3. \A j \in p .. k : f[j] \in Nat /\ f[p] <= f[j]
  BY <1>1
<1>4. \A j \in p .. k : v[p] <= f[j]
  BY <1>2, <1>3
<1> DEFINE g == [j \in 0 .. k |-> IF j < p THEN f[j] ELSE f[j] - v[p]]
<1>5. g \in [0 .. k -> Nat] /\ g[0] = 0 /\ g[k] = n - v[p]
  <2>1. ASSUME NEW j \in 0 .. k PROVE g[j] \in Nat
    <3>1. CASE j < p
      BY <3>1
    <3>2. CASE j >= p
      <4>1. f[j] \in Nat /\ v[p] <= f[j]
        BY <1>3, <1>4, <3>2
      <4>2. g[j] = f[j] - v[p]
        BY <3>2
      <4>3. f[j] - v[p] \in Nat
        <5>1. \A x, y \in Nat : y <= x => x - y \in Nat
          OBVIOUS
        <5> HIDE DEF g
        <5>2. QED
          BY <1>2, <4>1, <5>1
      <4>4. QED
        BY <4>2, <4>3
    <3>3. QED
      BY <3>1, <3>2
  <2>2. g[0] = 0
    BY <1>1
  <2>3. g[k] = n - v[p]
    BY <1>1
  <2>4. QED
    BY <2>1, <2>2, <2>3
<1>6. ASSUME NEW i \in 1 .. k PROVE g[i] = g[i - 1] + w[i]
  <2>0. f[i] \in Nat /\ f[i - 1] \in Nat /\ v[i] \in Nat
        /\ f[i] = f[i - 1] + v[i]
    BY <1>1
  <2>1. CASE i < p
    BY <2>0, <2>1
  <2>2. CASE i = p
    BY <2>0, <2>2
  <2>3. CASE i > p
    BY <1>2, <2>0, <2>3
  <2>4. QED
    BY <2>1, <2>2, <2>3
<1>7. ASSUME NEW i \in 0 .. k, NEW j \in 0 .. k, i <= j PROVE g[i] <= g[j]
  <2>0. f[i] \in Nat /\ f[j] \in Nat /\ f[i] <= f[j]
    BY <1>1, <1>7
  <2>1. CASE j < p
    BY <1>7, <2>0, <2>1
  <2>4. CASE i >= p
    <3>1. g[i] = f[i] - v[p] /\ g[j] = f[j] - v[p]
      BY <1>7, <2>4
    <3>2. QED
      BY <1>2, <2>0, <3>1
  <2>2. CASE i < p /\ j >= p
    <3>1. f[i] <= f[p - 1] /\ f[p] <= f[j]
      <4>1. p - 1 \in 0 .. k /\ p \in 0 .. k /\ i <= p - 1 /\ p <= j
        BY <2>2
      <4> HIDE DEF g
      <4>2. QED
        BY <1>1, <4>1
    <3>2. QED
      BY <1>2, <2>0, <2>2, <3>1
  <2>5. QED
    BY <2>1, <2>2, <2>4
<1>8. v[p] <= n
  BY <1>1, <1>4
<1>9. QED
  <2> HIDE DEF g
  <2> QED BY <1>5, <1>6, <1>7, <1>8 DEF IsTotal

-----------------------------------------------------------------------------
(***************************************************************************)
(* The running totals are what the library's SumFunction adds up, one      *)
(* chosen index after the other.  Where an induction is needed, a smallest *)
(* counterexample is refuted.                                              *)
(***************************************************************************)
LEMMA SmallestOf ==
    ASSUME NEW S \in SUBSET Nat, S # {}
    PROVE  \E n \in S : \A m \in S : n <= m
<1> DEFINE R == {ss \in Nat \X Nat : ss[1] < ss[2]}
<1>1. IsWellFoundedOn(R, Nat)
  BY NatLessThanWellFounded DEF OpToRel
<1> HIDE DEF R
<1>2. PICK n \in S : \A m \in S : <<m, n>> \notin R
  BY <1>1, WFMin
<1>3. ASSUME NEW m \in S PROVE n <= m
  <2>1. m \in Nat /\ n \in Nat /\ <<m, n>> \notin R
    BY <1>2
  <2>2. ~ (m < n)
    BY <2>1 DEF R
  <2>3. QED
    BY <2>1, <2>2
<1>4. QED
  BY <1>3

\* Every list of values has a total.
LEMMA TotalExists ==
    ASSUME NEW k \in Nat, NEW v \in [1 .. k -> Nat]
    PROVE  \E n \in Nat : IsTotal(v, k, n)
<1> DEFINE first(j) == [i \in 1 .. j |-> v[i]]
           S == {j \in 0 .. k : ~ \E n \in Nat : IsTotal(first(j), j, n)}
<1>1. ASSUME S # {} PROVE FALSE
  <2>1. PICK j \in S : \A m \in S : j <= m
    <3>1. S \in SUBSET Nat
      OBVIOUS
    <3> HIDE DEF S
    <3>2. QED
      BY <1>1, <3>1, SmallestOf
  <2>2. j \in 0 .. k /\ ~ \E n \in Nat : IsTotal(first(j), j, n)
    OBVIOUS
  <2>3. j # 0
    BY <2>2, TotalOfNone
  <2>4. j - 1 \in 0 .. k /\ j - 1 \in Nat /\ (j - 1) + 1 = j /\ ~ (j <= j - 1)
    BY <2>2, <2>3
  <2>5. j - 1 \notin S
    <3> HIDE DEF S
    <3>1. QED
      BY <2>1, <2>4
  <2>6. PICK n \in Nat : IsTotal(first(j - 1), j - 1, n)
    BY <2>4, <2>5
  <2>7. /\ first(j - 1) \in [1 .. (j - 1) -> Nat] /\ first(j) \in [1 .. ((j - 1) + 1) -> Nat]
        /\ \A i \in 1 .. (j - 1) : first(j)[i] = first(j - 1)[i]
        /\ first(j)[j] \in Nat
    BY <2>2, <2>3, <2>4
  <2> HIDE DEF first
  <2>8. IsTotal(first(j), (j - 1) + 1, n + first(j)[(j - 1) + 1])
    BY <2>4, <2>6, <2>7, TotalOfMore
  <2>9. IsTotal(first(j), j, n + first(j)[j]) /\ n + first(j)[j] \in Nat
    BY <2>4, <2>6, <2>7, <2>8
  <2>10. QED
    BY <2>2, <2>9
<1>2. k \in 0 .. k /\ first(k) = v
  OBVIOUS
<1>3. QED
  BY <1>1, <1>2

\* A list of values has one total.
LEMMA TotalIsUnique ==
    ASSUME NEW k \in Nat, NEW v \in [1 .. k -> Nat], NEW m, NEW n,
           IsTotal(v, k, m), IsTotal(v, k, n)
    PROVE  m = n
<1>1. PICK f \in [0 .. k -> Nat] :
        f[0] = 0 /\ f[k] = m /\ \A i \in 1 .. k : f[i] = f[i - 1] + v[i]
  BY DEF IsTotal
<1>2. PICK g \in [0 .. k -> Nat] :
        g[0] = 0 /\ g[k] = n /\ \A i \in 1 .. k : g[i] = g[i - 1] + v[i]
  BY DEF IsTotal
<1> DEFINE S == {j \in 0 .. k : f[j] # g[j]}
<1>3. ASSUME S # {} PROVE FALSE
  <2>1. PICK j \in S : \A i \in S : j <= i
    <3>1. S \in SUBSET Nat
      OBVIOUS
    <3> HIDE DEF S
    <3>2. QED
      BY <1>3, <3>1, SmallestOf
  <2>2. j \in 0 .. k /\ f[j] # g[j] /\ j # 0
    BY <1>1, <1>2
  <2>3. j \in 1 .. k /\ j - 1 \in 0 .. k /\ ~ (j <= j - 1)
    BY <2>2
  <2>4. f[j - 1] = g[j - 1]
    BY <2>1, <2>3
  <2>5. QED
    BY <1>1, <1>2, <2>2, <2>3, <2>4
<1>4. f[k] = g[k]
  <2>1. S = {}
    <3> HIDE DEF S
    <3>1. QED
      BY <1>3
  <2>2. k \in 0 .. k
    OBVIOUS
  <2>3. QED
    BY <2>1, <2>2
<1>5. QED
  BY <1>1, <1>2, <1>4

\* The values at the indices of s.
Masked(v, k, s) == [i \in 1 .. k |-> IF i \in s THEN v[i] ELSE 0]
TotalOver(v, k, s) == CHOOSE n \in Nat : IsTotal(Masked(v, k, s), k, n)

LEMMA TotalOverIs ==
    ASSUME NEW k \in Nat, NEW v \in [1 .. k -> Nat], NEW s \in SUBSET (1 .. k)
    PROVE  /\ Masked(v, k, s) \in [1 .. k -> Nat]
           /\ TotalOver(v, k, s) \in Nat /\ IsTotal(Masked(v, k, s), k, TotalOver(v, k, s))
<1>1. Masked(v, k, s) \in [1 .. k -> Nat]
  BY DEF Masked
<1>2. \E n \in Nat : IsTotal(Masked(v, k, s), k, n)
  BY <1>1, TotalExists
<1>3. QED
  BY <1>1, <1>2 DEF TotalOver

\* Nothing adds up to nothing, and an index adds its value.
LEMMA TotalOverStep ==
    ASSUME NEW k \in Nat, NEW v \in [1 .. k -> Nat]
    PROVE  /\ TotalOver(v, k, {}) = 0
           /\ \A s \in SUBSET (1 .. k) : \A x \in s :
                 TotalOver(v, k, s) = v[x] + TotalOver(v, k, s \ {x})
<1>1. TotalOver(v, k, {}) = 0
  <2> DEFINE f == [i \in 0 .. k |-> 0]
             w == Masked(v, k, {})
  <2>1. /\ f \in [0 .. k -> Nat] /\ f[0] = 0 /\ f[k] = 0
        /\ \A i \in 1 .. k : f[i] = f[i - 1] + w[i]
        /\ \A i, j \in 0 .. k : i <= j => f[i] <= f[j]
    BY DEF Masked
  <2> HIDE DEF f
  <2>2. IsTotal(w, k, 0)
    BY <2>1 DEF IsTotal
  <2>3. {} \in SUBSET (1 .. k)
    OBVIOUS
  <2>4. QED
    BY <2>2, <2>3, TotalOverIs, TotalIsUnique
<1>2. ASSUME NEW s \in SUBSET (1 .. k), NEW x \in s
      PROVE  TotalOver(v, k, s) = v[x] + TotalOver(v, k, s \ {x})
  <2> DEFINE a == Masked(v, k, s)
             b == Masked(v, k, s \ {x})
             n == TotalOver(v, k, s)
             m == TotalOver(v, k, s \ {x})
  <2>1. x \in 1 .. k /\ s \ {x} \in SUBSET (1 .. k) /\ v[x] \in Nat
    OBVIOUS
  <2>2. /\ a \in [1 .. k -> Nat] /\ b \in [1 .. k -> Nat] /\ n \in Nat /\ m \in Nat
        /\ IsTotal(a, k, n) /\ IsTotal(b, k, m)
    BY <2>1, TotalOverIs
  <2>3. b[x] = 0 /\ a[x] = v[x] /\ \A i \in 1 .. k : i # x => b[i] = a[i]
    BY <2>1 DEF Masked
  <2> HIDE DEF a, b, n, m
  <2>4. a[x] <= n /\ IsTotal(b, k, n - a[x])
    BY <2>1, <2>2, <2>3, TotalOfLess
  <2>5. n - a[x] = m
    BY <2>2, <2>4, TotalIsUnique
  <2>6. n = v[x] + m
    BY <2>1, <2>2, <2>3, <2>5
  <2>7. QED
    BY <2>6 DEF n, m
<1>3. QED
  BY <1>1, <1>2

\* SumFunction is the total.
LEMMA SumIsTotal ==
    ASSUME NEW k \in Nat, NEW v \in [1 .. k -> Nat], NEW n \in Nat, IsTotal(v, k, n)
    PROVE  SumFunction(v) = n
<1> DEFINE pick(s) == CHOOSE x \in s : TRUE
           F(g) == [s \in SUBSET (1 .. k) |->
                       IF s = {} THEN 0 ELSE v[pick(s)] + g[s \ {pick(s)}]]
           iter == CHOOSE g : g = F(g)
           T(s) == TotalOver(v, k, s)
           h == [s \in SUBSET (1 .. k) |-> T(s)]
<1>1. SumFunction(v) = iter[1 .. k]
  <2>1. DOMAIN v = 1 .. k
    OBVIOUS
  <2>2. QED
    BY <2>1 DEF SumFunction, SumFunctionOnSet, FoldFunctionOnSet, MapThenFoldSet
<1>2. ASSUME NEW s \in SUBSET (1 .. k), s # {}
      PROVE  pick(s) \in s /\ s \ {pick(s)} \in SUBSET (1 .. k)
  BY <1>2
<1> HIDE DEF pick
<1>3. T({}) = 0 /\ \A s \in SUBSET (1 .. k) : \A x \in s : T(s) = v[x] + T(s \ {x})
  BY TotalOverStep
<1> HIDE DEF T
<1>4. h = F(h)
  <2>1. ASSUME NEW s \in SUBSET (1 .. k)
        PROVE  h[s] = IF s = {} THEN 0 ELSE v[pick(s)] + h[s \ {pick(s)}]
    BY <1>2, <1>3
  <2> HIDE DEF h
  <2>2. h = [s \in SUBSET (1 .. k) |-> h[s]]
    BY DEF h
  <2>3. QED
    BY <2>1, <2>2
<1>5. iter = F(iter)
  <2> HIDE DEF F, h
  <2>1. QED
    BY <1>4
<1>6. \A s \in SUBSET (1 .. k) :
          iter[s] = IF s = {} THEN 0 ELSE v[pick(s)] + iter[s \ {pick(s)}]
  <2> HIDE DEF iter
  <2>1. iter = F(iter)
    BY <1>5
  <2>2. QED
    BY <2>1
<1> HIDE DEF iter, F, h
<1>7. \A s \in SUBSET (1 .. k) : iter[s] = T(s)
  <2> DEFINE S == {c \in Nat : \E s \in SUBSET (1 .. k) : Cardinality(s) = c /\ iter[s] # T(s)}
  <2>1. ASSUME NEW s \in SUBSET (1 .. k) PROVE IsFiniteSet(s) /\ Cardinality(s) \in Nat
    <3>1. IsFiniteSet(1 .. k)
      BY FS_Interval
    <3>2. IsFiniteSet(s)
      BY <3>1, FS_Subset
    <3>3. QED
      BY <3>2, FS_CardinalityType
  <2>2. ASSUME S # {} PROVE FALSE
    <3>1. PICK c \in S : \A i \in S : c <= i
      <4>1. S \in SUBSET Nat
        OBVIOUS
      <4> HIDE DEF S
      <4>2. QED
        BY <2>2, <4>1, SmallestOf
    <3>2. PICK s \in SUBSET (1 .. k) : Cardinality(s) = c /\ iter[s] # T(s)
      OBVIOUS
    <3>3. s # {}
      BY <1>3, <1>6, <3>2
    <3> DEFINE r == s \ {pick(s)}
    <3>4. pick(s) \in s /\ r \in SUBSET (1 .. k)
      BY <1>2, <3>3
    <3>5. Cardinality(r) = Cardinality(s) - 1 /\ Cardinality(s) \in Nat /\ Cardinality(r) \in Nat
      BY <2>1, <3>4, FS_RemoveElement
    <3>6. iter[r] = T(r)
      BY <3>1, <3>2, <3>4, <3>5
    <3>7. QED
      BY <1>3, <1>6, <3>2, <3>3, <3>4, <3>6
  <2>3. QED
    BY <2>1, <2>2
<1>8. T(1 .. k) = n
  <2>1. Masked(v, k, 1 .. k) = v /\ 1 .. k \in SUBSET (1 .. k)
    BY DEF Masked
  <2>2. QED
    BY <2>1, TotalOverIs, TotalIsUnique DEF T
<1>9. QED
  BY <1>1, <1>7, <1>8

-----------------------------------------------------------------------------
\* The books of one state of the storage balance: the ether equals the
\* recorded total and covers what is owed to depositors and withdrawers and
\* what circulates as tokens.
Books(s) ==
    /\ s.balance = s.totalDeposited
    /\ \E m, n \in Nat :
          /\ IsTotal(Unprocessed(s), Len(s.deposits), m)
          /\ IsTotal(Pending(s), Len(s.withdrawals), n)
          /\ m + s.totalMinted + n <= s.balance

\* A withdrawal is paid in full if and only if it is completed.
PaidIfCompleted(s) ==
    \A id \in DOMAIN s.withdrawals :
        LET w == s.withdrawals[id]
        IN  /\ w.paid = IF w.completed THEN w.amount ELSE 0
            /\ ~ (w.completed /\ w.challenged)

\* A deposit or a withdrawal is worth a natural number.
LEMMA AmountTypes ==
    /\ \A d \in Deposit : d.amount \in Nat /\ d.processed \in BOOLEAN
    /\ \A w \in Withdrawal : w.amount \in Nat /\ w.paid \in Nat
                             /\ w.completed \in BOOLEAN /\ w.challenged \in BOOLEAN
  BY BridgeAssumption DEF Deposit, Withdrawal

\* What the books are kept over.
LEMMA LedgerTypes ==
    ASSUME NEW s \in Store
    PROVE  /\ s.totalDeposited \in Nat /\ s.totalMinted \in Nat
           /\ s.balance \in Nat
           /\ Len(s.deposits) \in Nat
           /\ DOMAIN s.deposits = 1 .. Len(s.deposits)
           /\ \A i \in DOMAIN s.deposits :
                 s.deposits[i] \in Deposit /\ s.deposits[i].amount \in Nat
           /\ Len(s.withdrawals) \in Nat
           /\ DOMAIN s.withdrawals = 1 .. Len(s.withdrawals)
           /\ \A i \in DOMAIN s.withdrawals :
                 s.withdrawals[i] \in Withdrawal
                 /\ s.withdrawals[i].amount \in Nat
           /\ Unprocessed(s) \in [1 .. Len(s.deposits) -> Nat]
           /\ Pending(s) \in [1 .. Len(s.withdrawals) -> Nat]
<1>1. /\ s.deposits \in Seq(Deposit) /\ s.withdrawals \in Seq(Withdrawal)
      /\ s.totalDeposited \in Nat /\ s.totalMinted \in Nat
      /\ s.balance \in Nat
  BY DEF Store
<1>2. /\ Len(s.deposits) \in Nat /\ DOMAIN s.deposits = 1 .. Len(s.deposits)
      /\ \A i \in DOMAIN s.deposits : s.deposits[i] \in Deposit
  BY <1>1
<1>3. /\ Len(s.withdrawals) \in Nat
      /\ DOMAIN s.withdrawals = 1 .. Len(s.withdrawals)
      /\ \A i \in DOMAIN s.withdrawals : s.withdrawals[i] \in Withdrawal
  BY <1>1
<1>4. /\ \A i \in DOMAIN s.deposits : s.deposits[i].amount \in Nat
      /\ \A i \in DOMAIN s.withdrawals : s.withdrawals[i].amount \in Nat
  BY <1>2, <1>3, AmountTypes
<1>5. Unprocessed(s) \in [1 .. Len(s.deposits) -> Nat]
  BY <1>2, <1>4 DEF Unprocessed
<1>6. Pending(s) \in [1 .. Len(s.withdrawals) -> Nat]
  BY <1>3, <1>4 DEF Pending
<1>7. QED
  BY <1>1, <1>2, <1>3, <1>4, <1>5, <1>6

\* The ledgers depend on nothing but the two lists.
LEMMA LedgersAreLocal ==
    ASSUME NEW s, NEW t
    PROVE  /\ s.deposits = t.deposits => Unprocessed(s) = Unprocessed(t)
           /\ s.withdrawals = t.withdrawals => Pending(s) = Pending(t)
  BY DEF Unprocessed, Pending

\* deposit: what is owed to depositors grows by the ether received.
LEMMA DepositKeepsBooks ==
    ASSUME NEW s \in Store, NEW t \in Store, NEW d \in Deposit,
           Books(s), ~ d.processed,
           t.deposits = Append(s.deposits, d),
           t.withdrawals = s.withdrawals,
           t.totalDeposited = s.totalDeposited + d.amount,
           t.balance = s.balance + d.amount,
           t.totalMinted = s.totalMinted
    PROVE  Books(t)
<1> DEFINE k == Len(s.deposits)
<1>1. PICK m \in Nat, n \in Nat :
        /\ IsTotal(Unprocessed(s), k, m)
        /\ IsTotal(Pending(s), Len(s.withdrawals), n)
        /\ m + s.totalMinted + n <= s.balance
  BY DEF Books
<1>2. k \in Nat /\ Len(t.deposits) = k + 1 /\ d.amount \in Nat
  <2>1. s.deposits \in Seq(Deposit)
    BY DEF Store
  <2>2. QED
    BY <2>1, LedgerTypes, AmountTypes
<1>3. /\ \A i \in 1 .. k : Unprocessed(t)[i] = Unprocessed(s)[i]
      /\ Unprocessed(t)[k + 1] = d.amount
  BY LedgerTypes, <1>2 DEF Unprocessed
<1>4. IsTotal(Unprocessed(t), k + 1, m + d.amount)
  <2>1. IsTotal(Unprocessed(t), k + 1, m + Unprocessed(t)[k + 1])
    <3> HIDE DEF k
    <3> QED
      BY <1>1, <1>2, <1>3, LedgerTypes, TotalOfMore DEF k
  <2>2. QED
    BY <1>3, <2>1
<1>5. Pending(t) = Pending(s)
  BY LedgersAreLocal
<1>6. (m + d.amount) + t.totalMinted + n <= t.balance
  <2>1. /\ m + s.totalMinted + n <= s.balance
        /\ s.totalMinted \in Nat /\ s.balance \in Nat /\ d.amount \in Nat
    BY <1>1, <1>2, LedgerTypes
  <2>2. QED
    BY <2>1
<1>7. m + d.amount \in Nat
  BY <1>2
<1>8. t.balance = t.totalDeposited
  BY DEF Books
<1>9. QED
  BY <1>1, <1>2, <1>4, <1>5, <1>6, <1>7, <1>8 DEF Books

\* markDepositProcessed: what was owed to a depositor now circulates.
LEMMA MarkKeepsBooks ==
    ASSUME NEW s \in Store, NEW t \in Store, NEW p \in DOMAIN s.deposits,
           Books(s), ~ s.deposits[p].processed,
           Len(t.deposits) = Len(s.deposits),
           t.deposits[p].processed,
           \A i \in DOMAIN s.deposits : i # p => t.deposits[i] = s.deposits[i],
           t.withdrawals = s.withdrawals,
           t.totalDeposited = s.totalDeposited,
           t.balance = s.balance,
           t.totalMinted = s.totalMinted + s.deposits[p].amount
    PROVE  Books(t)
<1> DEFINE k == Len(s.deposits)
           a == s.deposits[p].amount
<1>1. PICK m \in Nat, n \in Nat :
        /\ IsTotal(Unprocessed(s), k, m)
        /\ IsTotal(Pending(s), Len(s.withdrawals), n)
        /\ m + s.totalMinted + n <= s.balance
  BY DEF Books
<1>2. k \in Nat /\ p \in 1 .. k /\ a \in Nat
  BY LedgerTypes
<1>3. /\ Unprocessed(s)[p] = a
      /\ Unprocessed(t)[p] = 0
      /\ \A i \in 1 .. k : i # p => Unprocessed(t)[i] = Unprocessed(s)[i]
  BY LedgerTypes, <1>2 DEF Unprocessed
<1>4. a <= m /\ IsTotal(Unprocessed(t), k, m - a)
  <2> HIDE DEF k, a
  <2>1. Unprocessed(s)[p] <= m
        /\ IsTotal(Unprocessed(t), k, m - Unprocessed(s)[p])
    BY <1>1, <1>2, <1>3, LedgerTypes, TotalOfLess DEF k
  <2>2. QED
    BY <1>3, <2>1
<1>5. Pending(t) = Pending(s)
  BY LedgersAreLocal
<1>6. m - a \in Nat /\ (m - a) + t.totalMinted + n <= t.balance
  <2>1. t.totalMinted = s.totalMinted + a /\ s.totalMinted \in Nat
        /\ s.balance \in Nat
    BY LedgerTypes
  <2>2. m + s.totalMinted + n <= s.balance /\ a <= m /\ a \in Nat
    BY <1>1, <1>2, <1>4
  <2> HIDE DEF a, k
  <2>3. QED
    BY <2>1, <2>2
<1>7. QED
  <2> HIDE DEF a
  <2> QED BY <1>1, <1>4, <1>5, <1>6 DEF Books

\* initiateWithdrawal: what circulated is now owed to a withdrawer.
LEMMA InitiateKeepsBooks ==
    ASSUME NEW s \in Store, NEW t \in Store, NEW w \in Withdrawal,
           Books(s), IsPending(w), w.amount <= s.totalMinted,
           t.withdrawals = Append(s.withdrawals, w),
           t.deposits = s.deposits,
           t.totalDeposited = s.totalDeposited,
           t.balance = s.balance,
           t.totalMinted = s.totalMinted - w.amount
    PROVE  Books(t)
<1> DEFINE k == Len(s.withdrawals)
<1>1. PICK m \in Nat, n \in Nat :
        /\ IsTotal(Unprocessed(s), Len(s.deposits), m)
        /\ IsTotal(Pending(s), k, n)
        /\ m + s.totalMinted + n <= s.balance
  BY DEF Books
<1>2. k \in Nat /\ Len(t.withdrawals) = k + 1 /\ w.amount \in Nat
  <2>1. s.withdrawals \in Seq(Withdrawal)
    BY DEF Store
  <2>2. QED
    BY <2>1, LedgerTypes, AmountTypes
<1>3. /\ \A i \in 1 .. k : Pending(t)[i] = Pending(s)[i]
      /\ Pending(t)[k + 1] = w.amount
  BY LedgerTypes, <1>2 DEF Pending
<1>4. IsTotal(Pending(t), k + 1, n + w.amount)
  <2>1. IsTotal(Pending(t), k + 1, n + Pending(t)[k + 1])
    <3> HIDE DEF k
    <3> QED
      BY <1>1, <1>2, <1>3, LedgerTypes, TotalOfMore DEF k
  <2>2. QED
    BY <1>3, <2>1
<1>5. Unprocessed(t) = Unprocessed(s)
  BY LedgersAreLocal
<1>6. n + w.amount \in Nat /\ m + t.totalMinted + (n + w.amount) <= t.balance
  <2>1. /\ m + s.totalMinted + n <= s.balance
        /\ s.totalMinted \in Nat /\ s.balance \in Nat /\ w.amount \in Nat
    BY <1>1, <1>2, LedgerTypes
  <2>2. QED
    BY <2>1
<1>7. QED
  BY <1>1, <1>2, <1>4, <1>5, <1>6 DEF Books

\* Arithmetic of a settlement: a leaves n, and b - c drops by a.
LEMMA SettleArithmetic ==
    ASSUME NEW m \in Nat, NEW n \in Nat, NEW a \in Nat,
           NEW b \in Nat, NEW c \in Nat, NEW b1 \in Nat, NEW c1 \in Nat,
           m + c + n <= b, a <= n, b1 + c + a = b + c1
    PROVE  n - a \in Nat /\ m + c1 + (n - a) <= b1
  OBVIOUS

\* completeWithdrawal and challengeWithdrawal: the withdrawal is settled, and
\* its amount leaves the bridge or circulates again.
LEMMA SettleKeepsBooks ==
    ASSUME NEW s \in Store, NEW t \in Store, NEW p \in DOMAIN s.withdrawals,
           Books(s), IsPending(s.withdrawals[p]),
           Len(t.withdrawals) = Len(s.withdrawals),
           ~ IsPending(t.withdrawals[p]),
           \A i \in DOMAIN s.withdrawals :
              i # p => t.withdrawals[i] = s.withdrawals[i],
           t.deposits = s.deposits,
           t.totalDeposited = t.balance,
           t.balance + s.totalMinted + s.withdrawals[p].amount =
              s.balance + t.totalMinted
    PROVE  Books(t)
<1> DEFINE k == Len(s.withdrawals)
           a == s.withdrawals[p].amount
<1>1. PICK m \in Nat, n \in Nat :
        /\ IsTotal(Unprocessed(s), Len(s.deposits), m)
        /\ IsTotal(Pending(s), k, n)
        /\ m + s.totalMinted + n <= s.balance
  BY DEF Books
<1>2. k \in Nat /\ p \in 1 .. k /\ a \in Nat
  BY LedgerTypes
<1>3. /\ Pending(s)[p] = a
      /\ Pending(t)[p] = 0
      /\ \A i \in 1 .. k : i # p => Pending(t)[i] = Pending(s)[i]
  BY LedgerTypes, <1>2 DEF Pending
<1>4. a <= n /\ IsTotal(Pending(t), k, n - a)
  <2> HIDE DEF k, a
  <2>1. Pending(s)[p] <= n /\ IsTotal(Pending(t), k, n - Pending(s)[p])
    BY <1>1, <1>2, <1>3, LedgerTypes, TotalOfLess DEF k
  <2>2. QED
    BY <1>3, <2>1
<1>5. Unprocessed(t) = Unprocessed(s)
  BY LedgersAreLocal
<1>6. n - a \in Nat /\ m + t.totalMinted + (n - a) <= t.balance
  <2>1. /\ t.balance + s.totalMinted + a = s.balance + t.totalMinted
        /\ s.totalMinted \in Nat /\ s.balance \in Nat
        /\ t.totalMinted \in Nat /\ t.balance \in Nat
    BY LedgerTypes
  <2>2. m + s.totalMinted + n <= s.balance /\ a <= n /\ a \in Nat
    BY <1>1, <1>2, <1>4
  <2> HIDE DEF a, k
  <2>3. QED
    BY <2>1, <2>2, SettleArithmetic
<1>7. QED
  <2> HIDE DEF a
  <2> QED BY <1>1, <1>4, <1>5, <1>6 DEF Books

\* With balanced books every pending withdrawal is covered on its own.
LEMMA BooksCoverPending ==
    ASSUME NEW s \in Store, Books(s), NEW p \in DOMAIN s.withdrawals,
           IsPending(s.withdrawals[p])
    PROVE  /\ s.withdrawals[p].amount <= s.balance
           /\ s.withdrawals[p].amount <= s.totalDeposited
<1> DEFINE k == Len(s.withdrawals)
           w == [Pending(s) EXCEPT ![p] = 0]
<1>1. PICK m \in Nat, n \in Nat :
        /\ IsTotal(Pending(s), k, n)
        /\ m + s.totalMinted + n <= s.balance
  BY DEF Books
<1>2. k \in Nat /\ p \in 1 .. k
  BY LedgerTypes
<1>3. Pending(s)[p] = s.withdrawals[p].amount
  BY DEF Pending
<1>4. /\ w \in [1 .. k -> Nat] /\ w[p] = 0
      /\ \A i \in 1 .. k : i # p => w[i] = Pending(s)[i]
  BY <1>2, LedgerTypes
<1>5. Pending(s)[p] <= n
  <2> HIDE DEF w, k
  <2> QED BY <1>1, <1>2, <1>4, LedgerTypes, TotalOfLess DEF k
<1>6. s.withdrawals[p].amount \in Nat
  BY LedgerTypes
<1>7. s.totalMinted \in Nat /\ s.balance \in Nat /\ s.balance = s.totalDeposited
  BY LedgerTypes DEF Books
<1>8. \A x, y, z, b \in Nat : x + y + z <= b => z <= b
  OBVIOUS
<1>9. n <= s.balance
  <2> HIDE DEF k
  <2> QED BY <1>1, <1>7, <1>8
<1>10. s.withdrawals[p].amount <= s.balance
  <2> HIDE DEF k, w
  <2> QED BY <1>3, <1>5, <1>6, <1>7, <1>9
<1>11. QED
  BY <1>7, <1>10
-----------------------------------------------------------------------------
\* Storage is always well-formed: no total goes below zero, at any depth of
\* re-entry and after any roll back.
THEOREM StorageWellFormed == Spec => []TypeOK
<1>1. Init => TypeOK
  BY BridgeAssumption DEF Init, TypeOK, Store
<1>2. TypeOK /\ [Next]_vars => TypeOK'
  <2> SUFFICES ASSUME TypeOK, [Next]_vars PROVE TypeOK'
    OBVIOUS
  <2> DEFINE Frame == [id : Nat, saved : Store]
  <2>0. /\ store \in Store /\ calls \in Seq(Frame)
        /\ store.deposits \in Seq(Deposit)
        /\ store.withdrawals \in Seq(Withdrawal)
        /\ now \in Nat
    BY BridgeAssumption DEF TypeOK, Store
  <2>1. ASSUME NEW a \in Amounts, NEW h \in TicketHashes, DepositEther(a, h)
        PROVE  TypeOK'
    <3> DEFINE d == [amount |-> a, ticketHash |-> h, processed |-> FALSE]
    <3>1. d \in Deposit /\ a \in Nat
      BY BridgeAssumption DEF Deposit
    <3> HIDE DEF d
    <3>2. Append(store.deposits, d) \in Seq(Deposit)
      BY <2>0, <3>1
    <3>3. store' \in Store
      BY <2>0, <2>1, <3>1, <3>2, LedgerTypes DEF DepositEther, Store, d
    <3>4. QED
      BY <2>1, <3>3 DEF DepositEther, TypeOK
  <2>2. ASSUME NEW a \in Amounts, Receive(a)
        PROVE  TypeOK'
    <3>1. a \in Nat
      BY BridgeAssumption
    <3>2. store' \in Store
      BY <2>0, <2>2, <3>1, LedgerTypes DEF Receive, Store
    <3>3. QED
      BY <2>2, <3>2 DEF Receive, TypeOK
  <2>3. ASSUME NEW c \in Addresses, NEW id \in DOMAIN store.deposits,
               markDepositProcessed(c, id)
        PROVE  TypeOK'
    <3> DEFINE dep == store.deposits[id]
               d == [amount |-> dep.amount, ticketHash |-> dep.ticketHash,
                     processed |-> TRUE]
    <3>1. dep \in Deposit /\ dep.amount \in Nat
      BY <2>0, LedgerTypes
    <3>2. d \in Deposit
      BY <3>1 DEF Deposit
    <3> HIDE DEF d
    <3>3. [store.deposits EXCEPT ![id] = d] \in Seq(Deposit)
      BY <2>0, <3>2, ExceptSeq
    <3>4. store' \in Store
      BY <2>0, <2>3, <3>1, <3>3, LedgerTypes DEF markDepositProcessed, Store, d
    <3>5. QED
      BY <2>3, <3>4 DEF markDepositProcessed, TypeOK
  <2>4. ASSUME NEW c \in Addresses, NEW r \in Addresses, NEW a \in Amounts,
               initiateWithdrawal(c, r, a)
        PROVE  TypeOK'
    <3> DEFINE w == [recipient |-> r, amount |-> a, initiatedAt |-> now,
                     completed |-> FALSE, challenged |-> FALSE, paid |-> 0]
    <3>1. w \in Withdrawal /\ a \in Nat
      BY <2>0, BridgeAssumption DEF Withdrawal
    <3> HIDE DEF w
    <3>2. Append(store.withdrawals, w) \in Seq(Withdrawal)
      BY <2>0, <3>1
    <3>3. store.totalMinted - a \in Nat
      BY <2>0, <2>4, <3>1, LedgerTypes DEF initiateWithdrawal
    <3>4. store' \in Store
      BY <2>0, <2>4, <3>2, <3>3, LedgerTypes DEF initiateWithdrawal, Store, w
    <3>5. QED
      BY <2>4, <3>4 DEF initiateWithdrawal, TypeOK
  <2>5. ASSUME NEW id \in DOMAIN store.withdrawals, completeWithdrawal(id)
        PROVE  TypeOK'
    <3> DEFINE v == store.withdrawals[id]
               w == [recipient |-> v.recipient, amount |-> v.amount,
                     initiatedAt |-> v.initiatedAt, completed |-> TRUE,
                     challenged |-> FALSE, paid |-> v.paid + v.amount]
    <3>1. v \in Withdrawal /\ v.amount \in Nat
      BY <2>0, LedgerTypes
    <3>2. w \in Withdrawal
      BY <3>1 DEF Withdrawal
    <3>3. /\ store.totalDeposited - v.amount \in Nat
          /\ store.balance - v.amount \in Nat
      BY <2>0, <2>5, <3>1, LedgerTypes DEF completeWithdrawal
    <3>4. id \in Nat
      BY <2>0
    <3> HIDE DEF w
    <3>5. [store.withdrawals EXCEPT ![id] = w] \in Seq(Withdrawal)
      BY <2>0, <3>2, ExceptSeq
    <3>6. store' \in Store
      BY <2>0, <2>5, <3>3, <3>5, LedgerTypes DEF completeWithdrawal, Store, w
    <3>7. calls' \in Seq(Frame)
      <4>1. calls' = Append(calls, [id |-> id, saved |-> store])
        BY <2>5 DEF completeWithdrawal
      <4>2. [id |-> id, saved |-> store] \in Frame
        BY <2>0, <3>4
      <4> HIDE DEF Frame
      <4>3. QED
        BY <2>0, <4>1, <4>2
    <3>8. QED
      BY <2>5, <3>6, <3>7 DEF completeWithdrawal, TypeOK
  <2>6. ASSUME NEW id \in DOMAIN store.withdrawals, challengeWithdrawal(id)
        PROVE  TypeOK'
    <3> DEFINE v == store.withdrawals[id]
               w == [recipient |-> v.recipient, amount |-> v.amount,
                     initiatedAt |-> v.initiatedAt, completed |-> FALSE,
                     challenged |-> TRUE, paid |-> v.paid]
    <3>1. v \in Withdrawal /\ v.amount \in Nat
      BY <2>0, LedgerTypes
    <3>2. w \in Withdrawal
      BY <3>1 DEF Withdrawal
    <3> HIDE DEF w
    <3>3. [store.withdrawals EXCEPT ![id] = w] \in Seq(Withdrawal)
      BY <2>0, <3>2, ExceptSeq
    <3>4. store' \in Store
      BY <2>0, <2>6, <3>1, <3>3, LedgerTypes DEF challengeWithdrawal, Store, w
    <3>5. QED
      BY <2>6, <3>4 DEF challengeWithdrawal, TypeOK
  <2>7. CASE CallSucceeds \/ CallFails
    <3>1. /\ calls # <<>>
          /\ calls' = SubSeq(calls, 1, Len(calls) - 1)
          /\ store' = store \/ store' = calls[Len(calls)].saved
      BY <2>7 DEF CallSucceeds, CallFails
    <3>2. Len(calls) \in DOMAIN calls /\ calls[Len(calls)] \in Frame
      <4> HIDE DEF Frame
      <4> QED BY <2>0, <3>1
    <3>3. store' \in Store
      BY <2>0, <3>1, <3>2
    <3>4. calls' \in Seq(Frame)
      <4> HIDE DEF Frame
      <4> QED BY <2>0, <3>1
    <3>5. QED
      BY <2>7, <3>3, <3>4 DEF CallSucceeds, CallFails, TypeOK
  <2>8. ASSUME NEW c \in Addresses, NEW n \in EpochNums, NEW h \in DataHashes,
               publishEpoch(c, n, h)
        PROVE  TypeOK'
    <3>1. n \in Nat
      BY BridgeAssumption
    <3>2. [published |-> TRUE, dataHash |-> h, challenged |-> FALSE]
             \in EpochCommitment
      BY DEF EpochCommitment
    <3>3. QED
      BY <2>8, <3>1, <3>2 DEF publishEpoch, TypeOK
  <2>9. ASSUME NEW n \in EpochNums, challengeEpoch(n)
        PROVE  TypeOK'
    <3> DEFINE e == [epochs[n] EXCEPT !.challenged = TRUE]
    <3>1. epochs[n] \in EpochCommitment
      BY <2>9 DEF challengeEpoch, TypeOK
    <3>2. e \in EpochCommitment
      BY <3>1 DEF EpochCommitment
    <3>3. epochs' = [epochs EXCEPT ![n] = e]
      BY <2>9 DEF challengeEpoch
    <3> HIDE DEF e
    <3>4. QED
      BY <2>9, <3>2, <3>3 DEF challengeEpoch, TypeOK
  <2>10. ASSUME NEW c \in Addresses, NEW new \in Addresses,
                transferOperator(c, new)
         PROVE  TypeOK'
    BY <2>10 DEF transferOperator, TypeOK
  <2>11. CASE Tick
    BY <2>11, BridgeAssumption DEF Tick, TypeOK
  <2>12. CASE UNCHANGED vars
    BY <2>12 DEF vars, TypeOK
  <2>13. QED
    BY <2>1, <2>2, <2>3, <2>4, <2>5, <2>6, <2>7, <2>8, <2>9, <2>10, <2>11,
       <2>12 DEF Next, OperatorStep, PublicStep
<1>3. QED
  BY <1>1, <1>2, PTL DEF Spec

(***************************************************************************)
(* The inductive invariant.  A failing call falls back to the storage kept *)
(* in its frame, so the books have to balance in every frame as well.      *)
(***************************************************************************)
GoodStore(s) == Books(s) /\ PaidIfCompleted(s)

GoodEverywhere ==
    /\ GoodStore(store)
    /\ \A k \in DOMAIN calls : GoodStore(calls[k].saved)

\* The books balance in the storage and in all that it can fall back to.
THEOREM BooksAlwaysBalance == Spec => []GoodEverywhere
<1>1. Init => GoodEverywhere
  <2> SUFFICES ASSUME Init PROVE GoodEverywhere
    OBVIOUS
  <2>1. /\ store.deposits = <<>> /\ store.withdrawals = <<>>
        /\ store.totalDeposited = 0 /\ store.totalMinted = 0
        /\ store.balance = 0 /\ calls = <<>>
    BY DEF Init
  <2>2. IsTotal(Unprocessed(store), 0, 0) /\ IsTotal(Pending(store), 0, 0)
    BY TotalOfNone
  <2>3. Books(store)
    <3>1. Len(store.deposits) = 0 /\ Len(store.withdrawals) = 0
      BY <2>1
    <3>2. 0 + store.totalMinted + 0 <= store.balance
      BY <2>1
    <3>3. QED
      BY <2>1, <2>2, <3>1, <3>2 DEF Books
  <2>4. QED
    BY <2>1, <2>3 DEF GoodEverywhere, GoodStore, PaidIfCompleted
<1>2. TypeOK /\ TypeOK' /\ GoodEverywhere /\ [Next]_vars => GoodEverywhere'
  <2> SUFFICES ASSUME TypeOK, TypeOK', GoodEverywhere, [Next]_vars
               PROVE  GoodEverywhere'
    OBVIOUS
  <2>0. /\ store \in Store /\ store' \in Store
        /\ store.deposits \in Seq(Deposit)
        /\ store.withdrawals \in Seq(Withdrawal)
        /\ Books(store) /\ PaidIfCompleted(store)
    BY DEF TypeOK, Store, GoodEverywhere, GoodStore
  <2>1. ASSUME calls' = calls, Books(store'), PaidIfCompleted(store')
        PROVE  GoodEverywhere'
    BY <2>1 DEF GoodEverywhere, GoodStore
  <2>2. ASSUME NEW a \in Amounts, NEW h \in TicketHashes, DepositEther(a, h)
        PROVE  GoodEverywhere'
    <3> DEFINE d == [amount |-> a, ticketHash |-> h, processed |-> FALSE]
    <3>1. d \in Deposit /\ ~ d.processed /\ d.amount = a
      BY DEF Deposit
    <3> HIDE DEF d
    <3>2. /\ store'.deposits = Append(store.deposits, d)
          /\ store'.withdrawals = store.withdrawals
          /\ store'.totalDeposited = store.totalDeposited + a
          /\ store'.totalMinted = store.totalMinted
          /\ store'.balance = store.balance + a
          /\ calls' = calls
      BY <2>2 DEF DepositEther, d
    <3>3. Books(store')
      BY <2>0, <3>1, <3>2, DepositKeepsBooks
    <3>4. PaidIfCompleted(store')
      BY <2>0, <3>2 DEF PaidIfCompleted
    <3>5. QED
      BY <2>1, <3>2, <3>3, <3>4
  <2>3. ASSUME NEW a \in Amounts, Receive(a)
        PROVE  GoodEverywhere'
    <3>1. /\ store'.deposits = store.deposits
          /\ store'.withdrawals = store.withdrawals
          /\ store'.totalDeposited = store.totalDeposited + a
          /\ store'.totalMinted = store.totalMinted
          /\ store'.balance = store.balance + a
          /\ calls' = calls
          /\ a \in Nat
      BY <2>3, BridgeAssumption DEF Receive
    <3>2. /\ Unprocessed(store') = Unprocessed(store)
          /\ Pending(store') = Pending(store)
      BY <3>1, LedgersAreLocal
    <3>3. PICK m \in Nat, n \in Nat :
            /\ IsTotal(Unprocessed(store), Len(store.deposits), m)
            /\ IsTotal(Pending(store), Len(store.withdrawals), n)
            /\ m + store.totalMinted + n <= store.balance
      BY <2>0 DEF Books
    <3>4. store.totalMinted \in Nat /\ store.balance \in Nat
          /\ store.balance = store.totalDeposited
      BY <2>0, LedgerTypes DEF Books
    <3>5. m + store'.totalMinted + n <= store'.balance
          /\ store'.balance = store'.totalDeposited
      BY <3>1, <3>3, <3>4
    <3>6. Books(store')
      BY <3>1, <3>2, <3>3, <3>5 DEF Books
    <3>7. PaidIfCompleted(store')
      BY <2>0, <3>1 DEF PaidIfCompleted
    <3>8. QED
      BY <2>1, <3>1, <3>6, <3>7
  <2>4. ASSUME NEW c \in Addresses, NEW id \in DOMAIN store.deposits,
               markDepositProcessed(c, id)
        PROVE  GoodEverywhere'
    <3> DEFINE dep == store.deposits[id]
               d == [amount |-> dep.amount, ticketHash |-> dep.ticketHash,
                     processed |-> TRUE]
    <3>1. d.processed
      OBVIOUS
    <3> HIDE DEF d
    <3>2. /\ ~ store.deposits[id].processed
          /\ store'.deposits = [store.deposits EXCEPT ![id] = d]
          /\ store'.withdrawals = store.withdrawals
          /\ store'.totalDeposited = store.totalDeposited
          /\ store'.totalMinted = store.totalMinted + store.deposits[id].amount
          /\ store'.balance = store.balance
          /\ calls' = calls
      BY <2>4 DEF markDepositProcessed, d
    <3>3. /\ Len(store'.deposits) = Len(store.deposits)
          /\ store'.deposits[id].processed
          /\ \A i \in DOMAIN store.deposits :
                i # id => store'.deposits[i] = store.deposits[i]
      BY <2>0, <3>1, <3>2
    <3>4. Books(store')
      BY <2>0, <3>2, <3>3, MarkKeepsBooks
    <3>5. PaidIfCompleted(store')
      BY <2>0, <3>2 DEF PaidIfCompleted
    <3>6. QED
      BY <2>1, <3>2, <3>4, <3>5
  <2>5. ASSUME NEW c \in Addresses, NEW r \in Addresses, NEW a \in Amounts,
               initiateWithdrawal(c, r, a)
        PROVE  GoodEverywhere'
    <3> DEFINE w == [recipient |-> r, amount |-> a, initiatedAt |-> now,
                     completed |-> FALSE, challenged |-> FALSE, paid |-> 0]
    <3>1. /\ w \in Withdrawal /\ IsPending(w) /\ w.amount = a
          /\ w.paid = 0 /\ ~ w.completed
      BY BridgeAssumption DEF TypeOK, Withdrawal, IsPending
    <3> HIDE DEF w
    <3>2. /\ a <= store.totalMinted
          /\ store'.deposits = store.deposits
          /\ store'.withdrawals = Append(store.withdrawals, w)
          /\ store'.totalDeposited = store.totalDeposited
          /\ store'.totalMinted = store.totalMinted - a
          /\ store'.balance = store.balance
          /\ calls' = calls
      BY <2>0, <2>5, BridgeAssumption, LedgerTypes DEF initiateWithdrawal, w
    <3>3. Books(store')
      BY <2>0, <3>1, <3>2, InitiateKeepsBooks
    <3>4. PaidIfCompleted(store')
      BY <2>0, <3>1, <3>2 DEF PaidIfCompleted
    <3>5. QED
      BY <2>1, <3>2, <3>3, <3>4
  <2>6. ASSUME NEW id \in DOMAIN store.withdrawals, challengeWithdrawal(id)
        PROVE  GoodEverywhere'
    <3> DEFINE v == store.withdrawals[id]
               w == [recipient |-> v.recipient, amount |-> v.amount,
                     initiatedAt |-> v.initiatedAt, completed |-> FALSE,
                     challenged |-> TRUE, paid |-> v.paid]
    <3>1. ~ IsPending(w) /\ w.paid = v.paid /\ ~ w.completed
      BY DEF IsPending
    <3> HIDE DEF w
    <3>2. /\ IsPending(store.withdrawals[id])
          /\ store'.deposits = store.deposits
          /\ store'.withdrawals = [store.withdrawals EXCEPT ![id] = w]
          /\ store'.totalDeposited = store.totalDeposited
          /\ store'.totalMinted = store.totalMinted + v.amount
          /\ store'.balance = store.balance
          /\ calls' = calls
      BY <2>6 DEF challengeWithdrawal, w
    <3>3. /\ Len(store'.withdrawals) = Len(store.withdrawals)
          /\ store'.withdrawals[id] = w
          /\ \A i \in DOMAIN store.withdrawals :
                i # id => store'.withdrawals[i] = store.withdrawals[i]
          /\ DOMAIN store'.withdrawals = DOMAIN store.withdrawals
      BY <2>0, <3>2
    <3>4. /\ store'.totalDeposited = store'.balance
          /\ store'.balance + store.totalMinted + v.amount
               = store.balance + store'.totalMinted
      <4>1. /\ store.totalMinted \in Nat /\ store.balance \in Nat
            /\ v.amount \in Nat /\ store.balance = store.totalDeposited
        BY <2>0, LedgerTypes DEF Books
      <4> HIDE DEF v
      <4>2. QED
        BY <3>2, <4>1
    <3>5. Books(store')
      BY <2>0, <3>1, <3>2, <3>3, <3>4, SettleKeepsBooks
    <3>6. PaidIfCompleted(store')
      BY <2>0, <3>1, <3>2, <3>3 DEF PaidIfCompleted, IsPending
    <3>7. QED
      BY <2>1, <3>2, <3>5, <3>6
  <2>7. ASSUME NEW id \in DOMAIN store.withdrawals, completeWithdrawal(id)
        PROVE  GoodEverywhere'
    <3> DEFINE v == store.withdrawals[id]
               w == [recipient |-> v.recipient, amount |-> v.amount,
                     initiatedAt |-> v.initiatedAt, completed |-> TRUE,
                     challenged |-> FALSE, paid |-> v.paid + v.amount]
               frame == [id |-> id, saved |-> store]
    <3>1. ~ IsPending(w) /\ w.paid = v.paid + v.amount /\ w.completed
          /\ w.amount = v.amount /\ ~ w.challenged
      BY DEF IsPending
    <3> HIDE DEF w
    <3>2. /\ IsPending(store.withdrawals[id])
          /\ store.balance >= v.amount
          /\ store'.deposits = store.deposits
          /\ store'.withdrawals = [store.withdrawals EXCEPT ![id] = w]
          /\ store'.totalDeposited = store.totalDeposited - v.amount
          /\ store'.totalMinted = store.totalMinted
          /\ store'.balance = store.balance - v.amount
          /\ calls' = Append(calls, frame)
      BY <2>7 DEF completeWithdrawal, w
    <3>3. /\ Len(store'.withdrawals) = Len(store.withdrawals)
          /\ store'.withdrawals[id] = w
          /\ \A i \in DOMAIN store.withdrawals :
                i # id => store'.withdrawals[i] = store.withdrawals[i]
          /\ DOMAIN store'.withdrawals = DOMAIN store.withdrawals
      BY <2>0, <3>2
    <3>4. v.amount \in Nat /\ v.paid = 0
      <4>1. v.amount \in Nat
        BY <2>0, LedgerTypes
      <4>2. v.paid = 0
        BY <2>0, <3>2 DEF PaidIfCompleted, IsPending
      <4>3. QED
        BY <4>1, <4>2
    <3>5. /\ store'.totalDeposited = store'.balance
          /\ store'.balance + store.totalMinted + v.amount
               = store.balance + store'.totalMinted
      <4>1. /\ store.totalMinted \in Nat /\ store.balance \in Nat
            /\ store.balance = store.totalDeposited
        BY <2>0, LedgerTypes DEF Books
      <4> HIDE DEF v
      <4>2. QED
        BY <3>2, <3>4, <4>1
    <3>6. Books(store')
      BY <2>0, <3>1, <3>2, <3>3, <3>5, SettleKeepsBooks
    <3>7. PaidIfCompleted(store')
      BY <2>0, <3>1, <3>3, <3>4 DEF PaidIfCompleted
    <3>8. \A k \in DOMAIN calls' : GoodStore(calls'[k].saved)
      <4>1. GoodStore(frame.saved)
        BY <2>0 DEF GoodStore
      <4>2. \A k \in DOMAIN calls : GoodStore(calls[k].saved)
        BY DEF GoodEverywhere
      <4>3. calls \in Seq([id : Nat, saved : Store])
        BY DEF TypeOK
      <4> HIDE DEF frame
      <4>4. \A k \in DOMAIN calls' :
               (k \in DOMAIN calls /\ calls'[k] = calls[k]) \/ calls'[k] = frame
        BY <3>2, <4>3
      <4>5. QED
        BY <4>1, <4>2, <4>4
    <3>9. QED
      BY <3>6, <3>7, <3>8 DEF GoodEverywhere, GoodStore
  <2>8. CASE CallSucceeds \/ CallFails
    <3>1. /\ calls # <<>>
          /\ calls' = SubSeq(calls, 1, Len(calls) - 1)
          /\ store' = store \/ store' = calls[Len(calls)].saved
      BY <2>8 DEF CallSucceeds, CallFails
    <3> DEFINE Frame == [id : Nat, saved : Store]
    <3>2. calls \in Seq(Frame)
      BY DEF TypeOK
    <3> HIDE DEF Frame
    <3>3. /\ Len(calls) \in DOMAIN calls
          /\ \A k \in DOMAIN calls' : k \in DOMAIN calls /\ calls'[k] = calls[k]
      BY <3>1, <3>2
    <3>4. GoodStore(store')
      BY <3>1, <3>3 DEF GoodEverywhere
    <3>5. \A k \in DOMAIN calls' : GoodStore(calls'[k].saved)
      BY <3>3 DEF GoodEverywhere
    <3>6. QED
      BY <3>4, <3>5 DEF GoodEverywhere
  <2>9. ASSUME store' = store, calls' = calls
        PROVE  GoodEverywhere'
    BY <2>9 DEF GoodEverywhere
  <2>10. CASE \/ \E n \in EpochNums : challengeEpoch(n)
              \/ \E c \in Addresses :
                    \/ \E n \in EpochNums, h \in DataHashes :
                          publishEpoch(c, n, h)
                    \/ \E new \in Addresses : transferOperator(c, new)
              \/ Tick
    BY <2>9, <2>10 DEF challengeEpoch, publishEpoch, transferOperator, Tick
  <2>11. CASE UNCHANGED vars
    BY <2>9, <2>11 DEF vars
  <2>12. QED
    BY <2>2, <2>3, <2>4, <2>5, <2>6, <2>7, <2>8, <2>10, <2>11
       DEF Next, OperatorStep, PublicStep
<1>3. QED
  BY <1>1, <1>2, StorageWellFormed, PTL DEF Spec

\* The books in terms of what they add up.
LEMMA BooksAreSums ==
    ASSUME NEW s \in Store, Books(s)
    PROVE  SumFunction(Unprocessed(s)) + s.totalMinted + SumFunction(Pending(s)) <= s.balance
BY SumIsTotal, LedgerTypes DEF Books

\* The contract's ether always covers what it owes: the deposits to be minted, the tokens
\* in circulation and the withdrawals in their challenge period, re-entry included.
THEOREM AlwaysSolvent == Spec => []Solvent
<1>1. TypeOK /\ GoodEverywhere => Solvent
  BY BooksAreSums DEF TypeOK, GoodEverywhere, GoodStore, Solvent
<1>2. QED
  BY <1>1, StorageWellFormed, BooksAlwaysBalance, PTL

\* A withdrawal that nobody challenged can always be paid.
THEOREM WithdrawalsArePayable == Spec => []PendingIsPayable
<1>1. TypeOK /\ GoodEverywhere => PendingIsPayable
  BY BooksCoverPending DEF TypeOK, GoodEverywhere, GoodStore, PendingIsPayable
<1>2. QED
  BY <1>1, StorageWellFormed, BooksAlwaysBalance, PTL

\* No withdrawal is paid twice, or both paid and cancelled.
THEOREM NoDoublePayment == Spec => []PaidExactlyOnce
<1>1. GoodEverywhere => PaidExactlyOnce
  BY DEF GoodEverywhere, GoodStore, PaidIfCompleted, PaidExactlyOnce
<1>2. QED
  BY <1>1, BooksAlwaysBalance, PTL

\* No epoch is ever published behind the latest one.
THEOREM EpochsMoveForward == Spec => []LatestEpochIsNewest
<1>1. Init => LatestEpochIsNewest
  BY DEF Init, LatestEpochIsNewest
<1>2. TypeOK /\ LatestEpochIsNewest /\ [Next]_vars => LatestEpochIsNewest'
  <2> SUFFICES ASSUME TypeOK, LatestEpochIsNewest, [Next]_vars
               PROVE  LatestEpochIsNewest'
    OBVIOUS
  <2>1. ASSUME NEW c \in Addresses, NEW n \in EpochNums, NEW h \in DataHashes,
               publishEpoch(c, n, h)
        PROVE  LatestEpochIsNewest'
    <3>1. \A i \in EpochNums : i # n => epochs'[i] = epochs[i]
      BY <2>1 DEF publishEpoch, TypeOK
    <3>2. latestEpoch' = n /\ (n > latestEpoch \/ latestEpoch = 0)
      BY <2>1 DEF publishEpoch
    <3>3. \A i \in EpochNums : i \in Nat
      BY BridgeAssumption
    <3>4. latestEpoch \in Nat
      BY DEF TypeOK
    <3>5. ASSUME NEW i \in EpochNums, epochs'[i] # NoEpoch
          PROVE  i <= latestEpoch'
      <4>1. CASE i = n
        BY <3>2, <3>3, <4>1
      <4>2. CASE i # n
        <5>1. i <= latestEpoch
          BY <3>1, <3>5, <4>2 DEF LatestEpochIsNewest
        <5>2. QED
          BY <3>2, <3>3, <3>4, <5>1
      <4>3. QED
        BY <4>1, <4>2
    <3>6. QED
      BY <3>5 DEF LatestEpochIsNewest
  <2>2. ASSUME NEW n \in EpochNums, challengeEpoch(n)
        PROVE  LatestEpochIsNewest'
    <3>1. /\ \A i \in EpochNums : i # n => epochs'[i] = epochs[i]
          /\ epochs[n] # NoEpoch
          /\ latestEpoch' = latestEpoch
      BY <2>2 DEF challengeEpoch, TypeOK
    <3>2. QED
      BY <3>1 DEF LatestEpochIsNewest
  <2>3. CASE UNCHANGED <<epochs, latestEpoch>>
    BY <2>3 DEF LatestEpochIsNewest
  <2>4. QED
    BY <2>1, <2>2, <2>3
       DEF Next, OperatorStep, PublicStep, vars, DepositEther, Receive,
           markDepositProcessed, initiateWithdrawal, completeWithdrawal,
           challengeWithdrawal, CallSucceeds, CallFails, transferOperator, Tick
<1>3. QED
  BY <1>1, <1>2, StorageWellFormed, PTL DEF Spec
=============================================================================
