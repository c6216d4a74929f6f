------------------------ MODULE WalletNetworkProofs ------------------------
(***************************************************************************)
(* Theorems about wallets and the servers they trade with, for every set   *)
(* of users, tokens and swap handlers and for every number of operations.  *)
(***************************************************************************)
EXTENDS WalletNetwork, SequenceTheorems, FiniteSetTheorems, WellFoundedInduction, TLAPS

(***************************************************************************)
(* Numbers and sequences.                                                  *)
(***************************************************************************)
\* A non-empty set of naturals has a least element.
LEMMA LeastNatural ==
    ASSUME NEW S \in SUBSET Nat, S # {}
    PROVE  \E n \in S : \A m \in S : n <= m
<1> DEFINE R == {ss \in Nat \X Nat : ss[1] < ss[2]}
<1>1. IsWellFoundedOn(R, Nat)
  BY NatLessThanWellFounded DEF OpToRel
<1> HIDE DEF R
<1>2. PICK n \in S : \A m \in S : <<m, n>> \notin R
  BY <1>1, WFMin
<1>3. ASSUME NEW m \in S PROVE n <= m
  <2>1. m \in Nat /\ n \in Nat /\ <<m, n>> \notin R
    BY <1>2
  <2>2. ~ (m < n)
    BY <2>1 DEF R
  <2>3. QED
    BY <2>1, <2>2
<1>4. QED
  BY <1>3

\* A non-empty set of positions has a greatest element, which Max picks.
LEMMA GreatestPosition ==
    ASSUME NEW n \in Nat, NEW S \in SUBSET (1 .. n), S # {}
    PROVE  Max(S) \in S
<1> DEFINE D == {n - i : i \in S}
<1>1. D \in SUBSET Nat /\ D # {}
  <2>1. \A i \in 1 .. n : n - i \in Nat
    OBVIOUS
  <2>2. \A i \in S : n - i \in Nat
    BY <2>1
  <2>3. QED
    BY <2>2
<1>2. PICK d \in D : \A m \in D : d <= m
  <2> HIDE DEF D
  <2> QED BY <1>1, LeastNatural
<1>3. PICK i \in S : d = n - i
  OBVIOUS
<1>4. ASSUME NEW j \in S PROVE i >= j
  <2>1. n - j \in D
    OBVIOUS
  <2>2. n - i <= n - j
    BY <1>2, <1>3, <2>1
  <2>3. i \in Nat /\ j \in Nat
    OBVIOUS
  <2>4. QED
    BY <2>2, <2>3
<1>5. \E x \in S : \A y \in S : x >= y
  BY <1>4
<1>6. QED
  BY <1>5 DEF Max

\* The positions up to a number, counted.
LEMMA RankOfNumber ==
    ASSUME NEW S \in SUBSET Nat, IsFiniteSet(S), NEW i \in S
    PROVE  Cardinality({j \in S : j <= i}) \in 1 .. Cardinality(S)
<1> DEFINE T == {j \in S : j <= i}
<1>1. T \in SUBSET S /\ i \in T
  OBVIOUS
<1> HIDE DEF T
<1>2. IsFiniteSet(T) /\ Cardinality(T) <= Cardinality(S)
  BY <1>1, FS_Subset
<1>3. Cardinality(T) \in Nat /\ Cardinality(S) \in Nat /\ Cardinality(T) # 0
  BY <1>1, <1>2, FS_CardinalityType, FS_EmptySet
<1>4. Cardinality(T) \in 1 .. Cardinality(S)
  BY <1>2, <1>3
<1>5. QED
  BY <1>4 DEF T

\* A greater number has more before it.
LEMMA RankGrows ==
    ASSUME NEW S \in SUBSET Nat, IsFiniteSet(S), NEW i \in S, NEW k \in S, i < k
    PROVE  Cardinality({j \in S : j <= i}) # Cardinality({j \in S : j <= k})
<1> DEFINE T == {j \in S : j <= i}
           U == {j \in S : j <= k}
<1>1. T \in SUBSET U /\ U \in SUBSET S /\ k \in U /\ k \notin T
  <2>1. \A a, b, c \in Nat : a <= b /\ b < c => a <= c
    OBVIOUS
  <2>2. \A a, b \in Nat : a < b => ~ (b <= a)
    OBVIOUS
  <2>3. \A j \in S : j \in Nat
    OBVIOUS
  <2>4. T \in SUBSET U
    BY <2>1, <2>3
  <2>5. k \in U
    BY <2>3
  <2>6. k \notin T
    BY <2>2, <2>3
  <2>7. QED
    BY <2>4, <2>5, <2>6
<1> HIDE DEF T, U
<1>2. IsFiniteSet(U)
  BY <1>1, FS_Subset
<1>3. Cardinality(U) = Cardinality(T) => U = T
  BY <1>1, <1>2, FS_Subset
<1>4. Cardinality(U) # Cardinality(T)
  BY <1>1, <1>3
<1>5. QED
  BY <1>4 DEF T, U

\* InOrder lists the elements of a set of numbers, each once.
LEMMA InOrderLists ==
    ASSUME NEW S \in SUBSET Nat, IsFiniteSet(S)
    PROVE  /\ Cardinality(S) \in Nat
           /\ InOrder(S) \in [1 .. Cardinality(S) -> S]
           /\ \A k, l \in 1 .. Cardinality(S) : InOrder(S)[k] = InOrder(S)[l] => k = l
<1> DEFINE n == Cardinality(S)
           rank == [i \in S |-> Cardinality({j \in S : j <= i})]
<1>1. n \in Nat
  BY FS_CardinalityType
<1>2. rank \in [S -> 1 .. n]
  BY RankOfNumber
<1>3. ASSUME NEW i \in S, NEW k \in S, rank[i] = rank[k] PROVE i = k
  <2>1. i \in Nat /\ k \in Nat
    OBVIOUS
  <2>2. ~ (i < k)
    BY <1>3, RankGrows
  <2>3. ~ (k < i)
    BY <1>3, RankGrows
  <2>4. QED
    BY <2>1, <2>2, <2>3
<1>4. \A k \in 1 .. n : \E i \in S : Cardinality({j \in S : j <= i}) = k
  <2> HIDE DEF rank
  <2>1. rank \in Injection(S, 1 .. n)
    BY <1>2, <1>3 DEF Injection, IsInjective
  <2>2. IsFiniteSet(1 .. n) /\ Cardinality(1 .. n) = n
    BY <1>1, FS_Interval
  <2>3. rank \in Surjection(S, 1 .. n)
    <3> HIDE DEF n
    <3>1. Cardinality(S) = Cardinality(1 .. n)
      BY <2>2 DEF n
    <3>2. QED
      BY <2>1, <2>2, <3>1, FS_Injection
  <2>4. \A k \in 1 .. n : \E i \in S : rank[i] = k
    BY <2>3 DEF Surjection
  <2>5. QED
    BY <2>4 DEF rank
<1>5. ASSUME NEW k \in 1 .. n
      PROVE  /\ InOrder(S)[k] \in S
             /\ Cardinality({j \in S : j <= InOrder(S)[k]}) = k
  <2>1. InOrder(S)[k] = CHOOSE i \in S : Cardinality({j \in S : j <= i}) = k
    BY DEF InOrder
  <2>2. QED
    BY <1>4, <2>1
<1>6. InOrder(S) \in [1 .. n -> S]
  <2> DEFINE e(k) == CHOOSE i \in S : Cardinality({j \in S : j <= i}) = k
  <2>1. \A k \in 1 .. n : e(k) \in S
    BY <1>4
  <2>2. [k \in 1 .. n |-> e(k)] \in [1 .. n -> S]
    <3> HIDE DEF e
    <3> QED BY <2>1
  <2>3. InOrder(S) = [k \in 1 .. n |-> e(k)]
    BY DEF InOrder
  <2>4. QED
    BY <2>2, <2>3
<1>7. ASSUME NEW k \in 1 .. n, NEW l \in 1 .. n, InOrder(S)[k] = InOrder(S)[l]
      PROVE  k = l
  BY <1>5, <1>7
<1>8. QED
  BY <1>1, <1>6, <1>7
-----------------------------------------------------------------------------
(***************************************************************************)
(* Tokens and tickets.                                                     *)
(***************************************************************************)
\* One token is a later version of another: its history continues the other's.
Later(x, y) == /\ x.id = y.id
               /\ Len(y.chain) <= Len(x.chain)
               /\ \A i \in 1 .. Len(y.chain) : x.chain[i] = y.chain[i]

LEMMA TokenFields ==
    ASSUME NEW t \in Tokens
    PROVE  /\ t.id \in 1 .. MaxId /\ t.id \in Nat
           /\ t.chain \in Seq(Links) /\ Len(t.chain) \in Nat \ {0}
           /\ DOMAIN t.chain = 1 .. Len(t.chain)
           /\ \A i \in 1 .. Len(t.chain) : t.chain[i] \in Links
<1>1. t.id \in 1 .. MaxId /\ t.chain \in Seq(Links) /\ t.chain # <<>>
  BY DEF Tokens
<1>2. MaxId \in Nat
  BY WalletNetworkAssumption
<1>3. t.id \in Nat
  BY <1>1, <1>2
<1>4. Len(t.chain) \in Nat \ {0} /\ DOMAIN t.chain = 1 .. Len(t.chain)
  BY <1>1, EmptySeq, LenProperties
<1>5. \A i \in 1 .. Len(t.chain) : t.chain[i] \in Links
  BY <1>1, ElementOfSeq
<1>6. QED
  BY <1>1, <1>3, <1>4, <1>5

LEMMA LaterThanItself ==
    ASSUME NEW t \in Tokens
    PROVE  Later(t, t)
BY TokenFields DEF Later

LEMMA LaterStill ==
    ASSUME NEW x \in Tokens, NEW y \in Tokens, NEW z \in Tokens, Later(x, y), Later(y, z)
    PROVE  Later(x, z)
<1>1. Len(x.chain) \in Nat /\ Len(y.chain) \in Nat /\ Len(z.chain) \in Nat
  BY TokenFields
<1>2. Len(z.chain) <= Len(y.chain) /\ Len(y.chain) <= Len(x.chain)
  BY DEF Later
<1>3. Len(z.chain) <= Len(x.chain)
  BY <1>1, <1>2
<1>4. ASSUME NEW i \in 1 .. Len(z.chain) PROVE x.chain[i] = z.chain[i]
  <2>1. i \in 1 .. Len(y.chain)
    BY <1>1, <1>2
  <2>2. QED
    BY <2>1 DEF Later
<1>5. QED
  BY <1>3, <1>4 DEF Later

LEMMA LinkFields ==
    ASSUME NEW e \in Links
    PROVE  e.to \in Tickets
BY DEF Links

\* A ticket of the clerk decodes.
LEMMA TicketsDecode ==
    ASSUME NEW ticket \in Tickets
    PROVE  ticket # Malformed
BY DEF Tickets, Malformed

LEMMA CurrentTicketIsTicket ==
    ASSUME NEW t \in Tokens
    PROVE  CurrentTicket(t) \in Tickets
<1>1. t.chain[Len(t.chain)] \in Links
  <2>1. Len(t.chain) \in 1 .. Len(t.chain)
    BY TokenFields
  <2>2. QED
    BY <2>1, TokenFields
<1>2. QED
  BY <1>1, LinkFields DEF CurrentTicket, Last

\* Whoever a swap pays has a ticket that decodes.
LEMMA SenderDecodes ==
    ASSUME NEW t \in Tokens
    PROVE  Sender(t) \in Tickets
<1>1. t.chain[1] \in Links
  <2>1. 1 \in 1 .. Len(t.chain)
    BY TokenFields
  <2>2. QED
    BY <2>1, TokenFields
<1>2. t.chain[1].to \in Tickets
  BY <1>1, LinkFields
<1>3. QED
  BY <1>2, CurrentTicketIsTicket DEF Sender

\* What the clerk issues now.
LEMMA TicketIsTicket ==
    ASSUME NEW o \in Owners, now \in Nat \ {0}
    PROVE  Ticket(o) \in Tickets
<1>1. Lifetime \in Nat \ {0}
  BY WalletNetworkAssumption
<1>2. now - 1 \in Nat /\ now - 1 + Lifetime \in Nat /\ now - 1 < now - 1 + Lifetime
  BY <1>1
<1>3. QED
  BY <1>2 DEF Ticket, Tickets

LEMMA MintedIsToken ==
    ASSUME NEW id \in 1 .. MaxId, NEW ticket \in Tickets
    PROVE  Minted(id, ticket) \in Tokens /\ Minted(id, ticket).id = id
<1> DEFINE e == [to |-> ticket, by |-> Mint, sig |-> 0]
<1>1. e \in Links
  BY DEF Links
<1> HIDE DEF e
<1>2. <<e>> \in Seq(Links) /\ <<e>> # <<>>
  BY <1>1
<1>3. [id |-> id, chain |-> <<e>>] \in Tokens
  BY <1>2 DEF Tokens
<1>4. Minted(id, ticket) = [id |-> id, chain |-> <<e>>]
  BY DEF Minted, e
<1>5. QED
  BY <1>3, <1>4

\* A transfer makes a later version of the token.
LEMMA TransferredIsLater ==
    ASSUME NEW t \in Tokens, NEW ticket \in Tickets, NEW key \in Owners, NEW sig \in Nat
    PROVE  /\ Transferred(t, ticket, key, sig) \in Tokens
           /\ Later(Transferred(t, ticket, key, sig), t)
<1> DEFINE e == [to |-> ticket, by |-> key, sig |-> sig]
           x == Transferred(t, ticket, key, sig)
<1>1. e \in Links
  BY DEF Links
<1>2. x = [t EXCEPT !.chain = Append(@, e)]
  BY DEF Transferred
<1> HIDE DEF e, x
<1>3. /\ Append(t.chain, e) \in Seq(Links) /\ Append(t.chain, e) # <<>>
      /\ Len(Append(t.chain, e)) = Len(t.chain) + 1
      /\ \A i \in 1 .. Len(t.chain) : Append(t.chain, e)[i] = t.chain[i]
  BY <1>1, TokenFields, AppendProperties
<1>4. x \in Tokens /\ x.id = t.id /\ x.chain = Append(t.chain, e)
  BY <1>2, <1>3 DEF Tokens
<1>5. Later(x, t)
  <2>1. Len(t.chain) \in Nat
    BY TokenFields
  <2>2. Len(t.chain) <= Len(x.chain)
    BY <1>3, <1>4, <2>1
  <2>3. QED
    BY <1>3, <1>4, <2>2 DEF Later
<1>6. QED
  BY <1>4, <1>5 DEF x
-----------------------------------------------------------------------------
(***************************************************************************)
(* Wallets: what the operators of module Wallet keep.                      *)
(***************************************************************************)
\* No two tokens of a sequence, of two sets, have one id, unless it is one of R.
Unique(R, s) == \A i, j \in DOMAIN s : s[i].id = s[j].id /\ s[i].id \notin R => i = j
Apart(R, A, B) == \A x \in A, y \in B : x.id # y.id \/ x.id \in R

OnePerId(R, A) == \A x, y \in A : x.id = y.id => x = y \/ x.id \in R

Has(w) == Range(w.tokens) \cup Range(w.pending)

\* A wallet has no token twice, but for those of R.
Distinct(R, w) == Unique(R, w.tokens) /\ Unique(R, w.pending) /\ Apart(R, Range(w.tokens), Range(w.pending))

\* Every token of one set is a later version of one of the other.
Derived(A, B) == \A x \in A : \E y \in B : Later(x, y)

LEMMA WalletFields ==
    ASSUME NEW k, NEW w \in Wallets(k)
    PROVE  /\ w.key = k
           /\ w.tokens \in Seq(Tokens) /\ w.pending \in Seq(Tokens) /\ w.tickets \in Seq(Tickets)
           /\ Len(w.tokens) \in Nat /\ Len(w.pending) \in Nat /\ Len(w.tickets) \in Nat
           /\ DOMAIN w.tokens = 1 .. Len(w.tokens) /\ DOMAIN w.pending = 1 .. Len(w.pending)
           /\ DOMAIN w.tickets = 1 .. Len(w.tickets)
           /\ Range(w.tokens) \subseteq Tokens /\ Range(w.pending) \subseteq Tokens
           /\ Has(w) \subseteq Tokens
<1>1. /\ w.key = k
      /\ w.tokens \in Seq(Tokens) /\ w.pending \in Seq(Tokens) /\ w.tickets \in Seq(Tickets)
  BY DEF Wallets
<1>2. /\ Len(w.tokens) \in Nat /\ Len(w.pending) \in Nat /\ Len(w.tickets) \in Nat
      /\ DOMAIN w.tokens = 1 .. Len(w.tokens) /\ DOMAIN w.pending = 1 .. Len(w.pending)
      /\ DOMAIN w.tickets = 1 .. Len(w.tickets)
  BY <1>1, LenProperties
<1>3. Range(w.tokens) \subseteq Tokens /\ Range(w.pending) \subseteq Tokens
  BY <1>1, RangeOfSeq
<1>4. QED
  BY <1>1, <1>2, <1>3 DEF Has

LEMMA LaterIsDerived ==
    ASSUME NEW A \in SUBSET Tokens
    PROVE  Derived(A, A)
BY LaterThanItself DEF Derived

LEMMA DerivedStill ==
    ASSUME NEW A \in SUBSET Tokens, NEW B \in SUBSET Tokens, NEW C \in SUBSET Tokens,
           Derived(A, B), Derived(B, C)
    PROVE  Derived(A, C)
<1> SUFFICES ASSUME NEW x \in A PROVE \E z \in C : Later(x, z)
  BY DEF Derived
<1>1. PICK y \in B : Later(x, y)
  BY DEF Derived
<1>2. PICK z \in C : Later(y, z)
  BY DEF Derived
<1>3. QED
  BY <1>1, <1>2, LaterStill

\* Later versions of tokens that are apart are apart.
LEMMA DerivedApart ==
    ASSUME NEW R, NEW A, NEW B, NEW C, Derived(A, B), Apart(R, B, C)
    PROVE  Apart(R, A, C)
<1> SUFFICES ASSUME NEW x \in A, NEW z \in C PROVE x.id # z.id \/ x.id \in R
  BY DEF Apart
<1>1. PICK y \in B : Later(x, y)
  BY DEF Derived
<1>2. QED
  BY <1>1 DEF Later, Apart

LEMMA ConcatUnique ==
    ASSUME NEW R, NEW s \in Seq(Tokens), NEW t \in Seq(Tokens), Unique(R, s), Unique(R, t),
           Apart(R, Range(s), Range(t))
    PROVE  Unique(R, s \o t)
<1>1. /\ Len(s) \in Nat /\ Len(t) \in Nat
      /\ DOMAIN s = 1 .. Len(s) /\ DOMAIN t = 1 .. Len(t)
  BY LenProperties
<1>2. /\ s \o t \in Seq(Tokens) /\ Len(s \o t) = Len(s) + Len(t)
      /\ \A i \in 1 .. Len(s) + Len(t) :
            (s \o t)[i] = IF i <= Len(s) THEN s[i] ELSE t[i - Len(s)]
  BY ConcatProperties
<1>3. DOMAIN (s \o t) = 1 .. Len(s) + Len(t)
  BY <1>2, LenProperties
<1> SUFFICES ASSUME NEW i \in 1 .. Len(s) + Len(t), NEW j \in 1 .. Len(s) + Len(t),
                    (s \o t)[i].id = (s \o t)[j].id, (s \o t)[i].id \notin R
             PROVE  i = j
  BY <1>3 DEF Unique
<1>4. \A k \in 1 .. Len(s) + Len(t) :
        \/ k <= Len(s) /\ k \in DOMAIN s
        \/ ~ (k <= Len(s)) /\ k - Len(s) \in DOMAIN t
  BY <1>1
<1>5. ASSUME NEW k \in DOMAIN s, NEW l \in DOMAIN t PROVE s[k].id # t[l].id \/ s[k].id \in R
  BY DEF Apart, Range
<1>6. CASE i <= Len(s) /\ j <= Len(s)
  BY <1>2, <1>4, <1>6 DEF Unique
<1>7. CASE i <= Len(s) /\ ~ (j <= Len(s))
  BY <1>2, <1>4, <1>5, <1>7
<1>8. CASE ~ (i <= Len(s)) /\ j <= Len(s)
  BY <1>2, <1>4, <1>5, <1>8
<1>9. CASE ~ (i <= Len(s)) /\ ~ (j <= Len(s))
  <2>1. i - Len(s) \in DOMAIN t /\ j - Len(s) \in DOMAIN t
    BY <1>4, <1>9
  <2>2. t[i - Len(s)].id = t[j - Len(s)].id /\ t[i - Len(s)].id \notin R
    BY <1>2, <1>9
  <2>3. i - Len(s) = j - Len(s)
    BY <2>1, <2>2 DEF Unique
  <2>4. QED
    BY <1>1, <2>3
<1>10. QED
  BY <1>6, <1>7, <1>8, <1>9

\* T has later versions of different tokens of s, at the positions f.
Picks(T, s, f) == /\ f \in [DOMAIN T -> DOMAIN s]
                  /\ \A i, j \in DOMAIN T : f[i] = f[j] => i = j
                  /\ \A i \in DOMAIN T : Later(T[i], s[f[i]])

NoneInBoth(f, g) == \A i \in DOMAIN f, j \in DOMAIN g : f[i] # g[j]

\* T and P have later versions of different tokens of s.
Splits(s, T, P) ==
    /\ Derived(Range(T), Range(s)) /\ Derived(Range(P), Range(s))
    /\ \A R : Unique(R, s) => Unique(R, T) /\ Unique(R, P) /\ Apart(R, Range(T), Range(P))

LEMMA Picked ==
    ASSUME NEW s, NEW T, NEW P, NEW f, NEW g,
           Picks(T, s, f), Picks(P, s, g), NoneInBoth(f, g)
    PROVE  Splits(s, T, P)
<1>1. Derived(Range(T), Range(s))
  BY DEF Derived, Range, Picks
<1>2. Derived(Range(P), Range(s))
  BY DEF Derived, Range, Picks
<1>3. \A i \in DOMAIN T : T[i].id = s[f[i]].id /\ f[i] \in DOMAIN s
  BY DEF Later, Picks
<1>4. \A i \in DOMAIN P : P[i].id = s[g[i]].id /\ g[i] \in DOMAIN s
  BY DEF Later, Picks
<1>5. ASSUME NEW R, Unique(R, s) PROVE Unique(R, T) /\ Unique(R, P) /\ Apart(R, Range(T), Range(P))
  <2>1. Unique(R, T)
    BY <1>3, <1>5 DEF Unique, Picks
  <2>2. Unique(R, P)
    BY <1>4, <1>5 DEF Unique, Picks
  <2>3. ASSUME NEW i \in DOMAIN T, NEW j \in DOMAIN P PROVE T[i].id # P[j].id \/ T[i].id \in R
    <3>1. f[i] # g[j]
      BY DEF NoneInBoth, Picks
    <3>2. QED
      BY <1>3, <1>4, <1>5, <3>1 DEF Unique
  <2>4. Apart(R, Range(T), Range(P))
    BY <2>3 DEF Apart, Range
  <2>5. QED
    BY <2>1, <2>2, <2>4
<1>6. QED
  BY <1>1, <1>2, <1>5 DEF Splits

\* What a wallet operator keeps: the key, whole tokens and tickets; every token
\* continues one that was there, and none is there twice that was not.
Keeps(k, w, v) == /\ v \in Wallets(k)
                  /\ Derived(Has(v), Has(w))
                  /\ \A R : Distinct(R, w) => Distinct(R, v)

LEMMA KeptSame ==
    ASSUME NEW k, NEW w \in Wallets(k)
    PROVE  Keeps(k, w, w)
BY WalletFields, LaterIsDerived DEF Keeps

LEMMA KeptStill ==
    ASSUME NEW k, NEW w \in Wallets(k), NEW v, NEW x, Keeps(k, w, v), Keeps(k, v, x)
    PROVE  Keeps(k, w, x)
<1>1. v \in Wallets(k) /\ x \in Wallets(k)
  BY DEF Keeps
<1>2. Has(w) \subseteq Tokens /\ Has(v) \subseteq Tokens /\ Has(x) \subseteq Tokens
  BY <1>1, WalletFields
<1>3. Derived(Has(x), Has(w))
  BY <1>2, DerivedStill DEF Keeps
<1>4. QED
  BY <1>1, <1>3 DEF Keeps

\* Tokens move to the pending ones.
Moved(w, T, P) == [w EXCEPT !.tokens = T, !.pending = @ \o P]

LEMMA MovedToPending ==
    ASSUME NEW k, NEW w \in Wallets(k), NEW T \in Seq(Tokens), NEW P \in Seq(Tokens),
           Splits(w.tokens, T, P)
    PROVE  /\ Keeps(k, w, Moved(w, T, P)) /\ Moved(w, T, P).tickets = w.tickets
           /\ Len(Moved(w, T, P).pending) = Len(w.pending) + Len(P)
<1> DEFINE v == Moved(w, T, P)
           Q == w.pending \o P
<1>1. w.pending \in Seq(Tokens)
  BY WalletFields
<1>2. Q \in Seq(Tokens) /\ Len(Q) = Len(w.pending) + Len(P)
  BY <1>1, ConcatProperties
<1>3. Range(Q) = Range(w.pending) \cup Range(P)
  BY <1>1, RangeConcatenation
<1>4. v \in Wallets(k) /\ v.tokens = T /\ v.pending = Q /\ v.tickets = w.tickets
  <2> HIDE DEF Q
  <2>1. v = [w EXCEPT !.tokens = T, !.pending = Q]
    BY DEF Q, Moved
  <2> HIDE DEF v
  <2>2. QED
    BY <1>2, <2>1 DEF Wallets
<1> HIDE DEF v, Q
<1>5. Derived(Has(v), Has(w))
  <2>1. Range(w.pending) \subseteq Tokens
    BY WalletFields
  <2>2. \A x \in Range(w.pending) : Later(x, x)
    BY <2>1, LaterThanItself
  <2>3. QED
    BY <1>3, <1>4, <2>2 DEF Derived, Has, Splits
<1>6. ASSUME NEW R, Distinct(R, w) PROVE Distinct(R, v)
  <2>1. Unique(R, T) /\ Unique(R, P) /\ Apart(R, Range(T), Range(P))
    BY <1>6 DEF Distinct, Splits
  <2>2. Apart(R, Range(T), Range(w.pending)) /\ Apart(R, Range(P), Range(w.pending))
    BY <1>6, DerivedApart DEF Distinct, Splits
  <2>3. Unique(R, Q)
    <3>1. Apart(R, Range(w.pending), Range(P))
      BY <2>2 DEF Apart
    <3>2. QED
      BY <1>1, <1>6, <2>1, <3>1, ConcatUnique DEF Distinct, Q
  <2>4. Apart(R, Range(T), Range(Q))
    BY <1>3, <2>1, <2>2 DEF Apart
  <2>5. QED
    BY <1>4, <2>1, <2>3, <2>4 DEF Distinct
<1>7. QED
  BY <1>2, <1>4, <1>5, <1>6 DEF Keeps, v

\* transfer_inner
LEMMA TransferInnerKeeps ==
    ASSUME NEW k \in Owners, NEW w \in Wallets(k), NEW amount \in Nat,
           NEW recipient \in Tickets \cup {Malformed}, NEW refused \in 0 .. amount,
           NEW sig \in Nat
    PROVE  LET r == TransferInner(w, amount, recipient, refused, sig)
           IN  /\ r.ok \in BOOLEAN /\ Keeps(k, w, r.w) /\ r.w.tickets = w.tickets
               /\ Len(r.w.pending) >= Len(w.pending)
               /\ r.ok /\ recipient # Malformed =>
                    Len(r.w.pending) = Len(w.pending) + amount
<1> DEFINE r == TransferInner(w, amount, recipient, refused, sig)
           n == Len(w.tokens)
           sent == IF refused = 0 THEN amount ELSE refused - 1
           rest == IF refused = 0 THEN n - amount - 1 ELSE n - refused
           P == [i \in 1 .. sent |-> Transferred(w.tokens[n + 1 - i], recipient, w.key, sig)]
           T == SubSeq(w.tokens, 1, rest)
<1>1. /\ w.key = k /\ w.tokens \in Seq(Tokens) /\ w.pending \in Seq(Tokens)
      /\ n \in Nat /\ Len(w.pending) \in Nat /\ DOMAIN w.tokens = 1 .. n
  BY WalletFields
<1>2. CASE n < amount
  <2>1. r = [ok |-> FALSE, w |-> w]
    BY <1>2 DEF TransferInner
  <2>2. r.ok = FALSE /\ r.w = w
    BY <2>1
  <2>3. Keeps(k, w, w)
    BY KeptSame
  <2>4. Len(w.pending) >= Len(w.pending)
    BY <1>1
  <2> HIDE DEF r
  <2>5. QED
    BY <2>2, <2>3, <2>4 DEF r
<1>3. CASE n >= amount /\ recipient = Malformed
  <2>1. ~ (n < amount)
    BY <1>1, <1>3
  <2>2. r = [ok |-> TRUE, w |-> w]
    BY <1>3, <2>1 DEF TransferInner
  <2>3. r.ok = TRUE /\ r.w = w
    BY <2>2
  <2>4. Keeps(k, w, w)
    BY KeptSame
  <2>5. Len(w.pending) >= Len(w.pending)
    BY <1>1
  <2> HIDE DEF r
  <2>6. QED
    BY <1>3, <2>3, <2>4, <2>5 DEF r
<1>4. CASE n >= amount /\ recipient # Malformed
  <2>1. ~ (n < amount)
    BY <1>1, <1>4
  <2>2. r = [ok |-> refused = 0, w |-> [w EXCEPT !.tokens = T, !.pending = @ \o P]]
    BY <1>4, <2>1 DEF TransferInner
  <2>3. /\ sent \in Nat /\ rest \in Int /\ sent <= n /\ rest <= n - sent
        /\ sent <= amount /\ (refused = 0 => sent = amount)
    BY <1>1, <1>4
  <2> DEFINE v == Moved(w, T, P)
  <2>4. r.ok = (refused = 0) /\ r.w = v
    BY <2>2 DEF Moved
  <2> HIDE DEF r, v, n, sent, rest
  <2>5. recipient \in Tickets
    BY <1>4
  <2>6. \A i \in 1 .. sent : n + 1 - i \in 1 .. n
    BY <1>1, <2>3
  <2>7. ASSUME NEW i \in 1 .. sent
        PROVE  /\ w.tokens[n + 1 - i] \in Tokens
               /\ P[i] = Transferred(w.tokens[n + 1 - i], recipient, w.key, sig)
               /\ P[i] \in Tokens /\ Later(P[i], w.tokens[n + 1 - i])
    <3>1. n + 1 - i \in 1 .. Len(w.tokens)
      BY <2>6 DEF n
    <3>2. w.tokens[n + 1 - i] \in Tokens
      BY <1>1, <3>1, ElementOfSeq
    <3>3. QED
      BY <1>1, <2>5, <3>2, TransferredIsLater
  <2>8. P \in Seq(Tokens) /\ Len(P) = sent /\ DOMAIN P = 1 .. sent
    BY <2>3, <2>7
  <2>9. \A i \in 1 .. rest : i \in 1 .. n /\ w.tokens[i] \in Tokens
    <3>1. \A i \in 1 .. rest : i \in 1 .. n
      BY <1>1, <2>3
    <3>2. QED
      BY <1>1, <3>1, ElementOfSeq DEF n
  <2>10. /\ T \in Seq(Tokens) /\ DOMAIN T = 1 .. rest
         /\ \A i \in 1 .. rest : T[i] = w.tokens[i]
    <3>1. /\ T \in Seq(Tokens) /\ Len(T) = IF 1 <= rest THEN rest - 1 + 1 ELSE 0
          /\ \A i \in 1 .. rest - 1 + 1 : T[i] = w.tokens[1 + i - 1]
      BY <2>3, <2>9, SubSeqProperties
    <3>2. DOMAIN T = 1 .. Len(T)
      BY <3>1, LenProperties
    <3>3. 1 .. Len(T) = 1 .. rest
      BY <2>3, <3>1
    <3>4. ASSUME NEW i \in 1 .. rest PROVE T[i] = w.tokens[i]
      <4>1. i \in 1 .. rest - 1 + 1 /\ 1 + i - 1 = i
        BY <2>3
      <4>2. QED
        BY <3>1, <4>1
    <3>5. QED
      BY <3>1, <3>2, <3>3, <3>4
  <2> HIDE DEF P, T
  <2>11. Splits(w.tokens, T, P)
    <3> DEFINE f == [i \in DOMAIN T |-> i]
               g == [i \in DOMAIN P |-> n + 1 - i]
    <3>1. f \in [DOMAIN T -> DOMAIN w.tokens] /\ \A i \in DOMAIN T : f[i] = i
      BY <1>1, <2>9, <2>10
    <3>2. g \in [DOMAIN P -> DOMAIN w.tokens] /\ \A i \in DOMAIN P : g[i] = n + 1 - i
      BY <1>1, <2>6, <2>8
    <3> HIDE DEF f, g
    <3>3. \A i, j \in DOMAIN T : f[i] = f[j] => i = j
      BY <3>1
    <3>4. \A i, j \in DOMAIN P : g[i] = g[j] => i = j
      <4>1. \A i, j \in 1 .. sent : n + 1 - i = n + 1 - j => i = j
        BY <1>1, <2>3
      <4>2. QED
        BY <2>8, <3>2, <4>1
    <3>5. NoneInBoth(f, g)
      <4>1. \A i \in 1 .. rest, j \in 1 .. sent : i # n + 1 - j
        BY <1>1, <2>3
      <4>2. QED
        BY <2>8, <2>10, <3>1, <3>2, <4>1 DEF NoneInBoth
    <3>6. \A i \in DOMAIN T : Later(T[i], w.tokens[f[i]])
      BY <2>9, <2>10, <3>1, LaterThanItself
    <3>7. \A i \in DOMAIN P : Later(P[i], w.tokens[g[i]])
      BY <2>7, <2>8, <3>2
    <3>8. Picks(T, w.tokens, f)
      BY <3>1, <3>3, <3>6 DEF Picks
    <3>9. Picks(P, w.tokens, g)
      BY <3>2, <3>4, <3>7 DEF Picks
    <3>10. QED
      BY <3>5, <3>8, <3>9, Picked
  <2>12. /\ Keeps(k, w, v) /\ v.tickets = w.tickets
         /\ Len(v.pending) = Len(w.pending) + Len(P)
    <3>1. P \in Seq(Tokens) /\ T \in Seq(Tokens)
      BY <2>8, <2>10
    <3>2. QED
      BY <2>11, <3>1, MovedToPending DEF v
  <2>13. Len(v.pending) >= Len(w.pending)
    BY <1>1, <2>3, <2>8, <2>12
  <2>14. QED
    BY <2>3, <2>4, <2>8, <2>12, <2>13 DEF r
<1>5. QED
  <2>1. n < amount \/ n >= amount
    BY <1>1
  <2>2. QED
    BY <1>2, <1>3, <1>4, <2>1

\* transfer_with_swap_retry
LEMMA TransferWithSwapRetryKeeps ==
    ASSUME NEW k \in Owners, NEW w \in Wallets(k), NEW amount \in Nat \ {0},
           NEW recipient \in Tickets \cup {Malformed}, NEW refused \in 0 .. amount,
           NEW again \in 0 .. amount, NEW authorized \in BOOLEAN, NEW sig \in Nat
    PROVE  LET r == TransferWithSwapRetry(w, amount, recipient, refused, again, authorized, sig)
           IN  r.ok \in BOOLEAN /\ Keeps(k, w, r.w)
<1> DEFINE first == TransferInner(w, amount, recipient, refused, sig)
           second == TransferInner(first.w, amount, recipient, again, sig)
           r == TransferWithSwapRetry(w, amount, recipient, refused, again, authorized, sig)
<1>1. r = first \/ r = second
  BY DEF TransferWithSwapRetry
<1> HIDE DEF r
<1>2. first.ok \in BOOLEAN /\ Keeps(k, w, first.w)
  BY TransferInnerKeeps
<1>3. second.ok \in BOOLEAN /\ Keeps(k, first.w, second.w)
  <2> HIDE DEF first
  <2>1. first.w \in Wallets(k)
    BY <1>2 DEF Keeps
  <2>2. QED
    BY <2>1, TransferInnerKeeps
<1> HIDE DEF first, second
<1>4. Keeps(k, w, second.w)
  BY <1>2, <1>3, KeptStill
<1>5. QED
  BY <1>1, <1>2, <1>3, <1>4 DEF r

\* Only the tickets change.
LEMMA OtherTickets ==
    ASSUME NEW k, NEW w \in Wallets(k), NEW tickets \in Seq(Tickets)
    PROVE  Keeps(k, w, [w EXCEPT !.tickets = tickets])
<1> DEFINE v == [w EXCEPT !.tickets = tickets]
<1>1. v \in Wallets(k) /\ v.tokens = w.tokens /\ v.pending = w.pending
  BY DEF Wallets
<1> HIDE DEF v
<1>2. Has(v) = Has(w) /\ \A R : Distinct(R, w) => Distinct(R, v)
  BY <1>1 DEF Has, Distinct
<1>3. Derived(Has(v), Has(w))
  BY <1>2, WalletFields, LaterIsDerived
<1>4. QED
  BY <1>1, <1>2, <1>3 DEF Keeps, v

\* Replies of the clerk.
Replies == [ticket : Tickets, signed : BOOLEAN]

\* get_tickets
LEMMA GetTicketsKeeps ==
    ASSUME NEW k, NEW w \in Wallets(k), NEW reply \in Seq(Replies)
    PROVE  GetTickets(w, reply).ok \in BOOLEAN /\ Keeps(k, w, GetTickets(w, reply).w)
<1> DEFINE bad == {i \in DOMAIN reply : ~ VerifySignatureAndKey(reply[i])}
           n == IF bad = {} THEN Len(reply) ELSE Min(bad) - 1
           got == [i \in 1 .. n |-> reply[i].ticket]
<1>1. Len(reply) \in Nat /\ DOMAIN reply = 1 .. Len(reply)
  BY LenProperties
<1>2. n \in 0 .. Len(reply)
  <2>1. bad \in SUBSET (1 .. Len(reply)) /\ bad \in SUBSET Nat
    BY <1>1
  <2> HIDE DEF bad
  <2>2. ASSUME bad # {} PROVE Min(bad) \in bad
    <3>1. \E x \in bad : \A y \in bad : x <= y
      BY <2>1, <2>2, LeastNatural
    <3>2. QED
      BY <3>1 DEF Min
  <2>3. CASE bad = {}
    BY <1>1, <2>3
  <2>4. CASE bad # {}
    <3>1. Min(bad) \in 1 .. Len(reply) /\ n = Min(bad) - 1
      BY <2>1, <2>2, <2>4
    <3> HIDE DEF n
    <3>2. QED
      BY <1>1, <3>1
  <2>5. QED
    BY <2>3, <2>4
<1> HIDE DEF n
<1>3. ASSUME NEW i \in 1 .. n PROVE reply[i].ticket \in Tickets
  <2>1. i \in 1 .. Len(reply)
    BY <1>1, <1>2
  <2>2. reply[i] \in Replies
    BY <2>1, ElementOfSeq
  <2>3. QED
    BY <2>2 DEF Replies
<1>4. got \in Seq(Tickets)
  BY <1>1, <1>2, <1>3
<1>5. w.tickets \o got \in Seq(Tickets)
  BY <1>4, WalletFields, ConcatProperties
<1> HIDE DEF got
<1>6. Keeps(k, w, [w EXCEPT !.tickets = w.tickets \o got])
  BY <1>5, OtherTickets
<1>7. GetTickets(w, reply) = [ok |-> bad = {}, w |-> [w EXCEPT !.tickets = w.tickets \o got]]
  BY DEF GetTickets, got, n
<1>8. QED
  BY <1>6, <1>7

\* refresh_tickets
LEMMA RefreshTicketsKeeps ==
    ASSUME NEW k, NEW w \in Wallets(k), NEW m \in Nat, NEW indices,
           DOMAIN indices = 1 .. m, NEW reply \in [1 .. m -> Replies]
    PROVE  Keeps(k, w, RefreshTickets(w, indices, reply))
<1> DEFINE Hits(j) == {i \in DOMAIN indices :
                          VerifySignatureAndKey(reply[i]) /\ indices[i] = j}
           fresh == [j \in DOMAIN w.tickets |->
                       IF Hits(j) = {} THEN w.tickets[j] ELSE reply[Max(Hits(j))].ticket]
<1>1. /\ w.tickets \in Seq(Tickets) /\ Len(w.tickets) \in Nat
      /\ DOMAIN w.tickets = 1 .. Len(w.tickets)
  BY WalletFields
<1>2. ASSUME NEW j \in DOMAIN w.tickets PROVE fresh[j] \in Tickets
  <2>1. w.tickets[j] \in Tickets
    BY <1>1, ElementOfSeq
  <2>2. ASSUME Hits(j) # {} PROVE reply[Max(Hits(j))].ticket \in Tickets
    <3>1. Hits(j) \in SUBSET (1 .. m)
      OBVIOUS
    <3>2. Max(Hits(j)) \in 1 .. m
      <4> HIDE DEF Hits
      <4> QED BY <2>2, <3>1, GreatestPosition
    <3>3. QED
      <4> HIDE DEF Hits
      <4> QED BY <3>2 DEF Replies
  <2> HIDE DEF Hits
  <2>3. QED
    BY <2>1, <2>2
<1>3. fresh \in Seq(Tickets)
  <2>1. fresh \in [1 .. Len(w.tickets) -> Tickets]
    <3>1. DOMAIN fresh = 1 .. Len(w.tickets) /\ fresh = [j \in 1 .. Len(w.tickets) |-> fresh[j]]
      BY <1>1
    <3> HIDE DEF fresh
    <3>2. QED
      BY <1>1, <1>2, <3>1
  <2> HIDE DEF fresh
  <2>2. QED
    BY <1>1, <2>1
<1>4. \/ RefreshTickets(w, indices, reply) = w
      \/ RefreshTickets(w, indices, reply) = [w EXCEPT !.tickets = fresh]
  BY DEF RefreshTickets
<1> HIDE DEF fresh
<1>5. QED
  BY <1>3, <1>4, OtherTickets, KeptSame

\* The ticket that self_transfer_expired pays to.
LEMMA EarliestTicket ==
    ASSUME NEW tickets \in Seq(Tickets), NEW valid \in SUBSET DOMAIN tickets, valid # {}
    PROVE  \E i \in valid :
              \A j \in valid : \/ tickets[i].expires < tickets[j].expires
                               \/ tickets[i].expires = tickets[j].expires /\ i <= j
<1>1. Len(tickets) \in Nat /\ DOMAIN tickets = 1 .. Len(tickets)
  BY LenProperties
<1>2. \A i \in valid : i \in Nat /\ tickets[i] \in Tickets
  BY <1>1, ElementOfSeq
<1>3. \A i \in valid : tickets[i].expires \in Nat
  BY <1>2 DEF Tickets
<1> DEFINE E == {tickets[i].expires : i \in valid}
<1>4. E \in SUBSET Nat /\ E # {}
  BY <1>3
<1>5. PICK e \in E : \A x \in E : e <= x
  <2> HIDE DEF E
  <2> QED BY <1>4, LeastNatural
<1> DEFINE I == {i \in valid : tickets[i].expires = e}
<1>6. I \in SUBSET Nat /\ I # {}
  BY <1>2
<1>7. PICK i \in I : \A j \in I : i <= j
  <2> HIDE DEF I
  <2> QED BY <1>6, LeastNatural
<1>8. i \in valid /\ tickets[i].expires = e
  OBVIOUS
<1>9. ASSUME NEW j \in valid
      PROVE  \/ e < tickets[j].expires
             \/ e = tickets[j].expires /\ i <= j
  <2>1. e <= tickets[j].expires
    BY <1>5
  <2>2. e \in Nat /\ tickets[j].expires \in Nat
    BY <1>3, <1>8
  <2>3. CASE e = tickets[j].expires
    <3>1. j \in I
      BY <2>3
    <3>2. QED
      BY <1>7, <2>3, <3>1
  <2>4. CASE e # tickets[j].expires
    BY <2>1, <2>2, <2>4
  <2>5. QED
    BY <2>3, <2>4
<1>10. QED
  BY <1>8, <1>9

\* Tokens are rearranged.
LEMMA TokensRearranged ==
    ASSUME NEW k, NEW w \in Wallets(k), NEW T \in Seq(Tokens), NEW P \in Seq(Tokens),
           Splits(w.tokens, T, P)
    PROVE  Keeps(k, w, [w EXCEPT !.tokens = T \o P])
<1> DEFINE Q == T \o P
           v == [w EXCEPT !.tokens = Q]
<1>1. Q \in Seq(Tokens) /\ Range(Q) = Range(T) \cup Range(P)
  BY ConcatProperties, RangeConcatenation
<1>2. v \in Wallets(k) /\ v.tokens = Q /\ v.pending = w.pending
  <2> HIDE DEF Q
  <2> QED BY <1>1 DEF Wallets
<1>3. ASSUME NEW R, Unique(R, w.tokens) PROVE Unique(R, Q)
  BY <1>3, ConcatUnique DEF Splits
<1> HIDE DEF v, Q
<1>4. Derived(Range(Q), Range(w.tokens))
  BY <1>1 DEF Derived, Splits
<1>5. Derived(Has(v), Has(w))
  <2>1. Range(w.pending) \subseteq Tokens
    BY WalletFields
  <2>2. \A x \in Range(w.pending) : Later(x, x)
    BY <2>1, LaterThanItself
  <2>3. QED
    BY <1>2, <1>4, <2>2 DEF Derived, Has
<1>6. ASSUME NEW R, Distinct(R, w) PROVE Distinct(R, v)
  <2>1. Apart(R, Range(Q), Range(w.pending))
    BY <1>4, <1>6, DerivedApart DEF Distinct
  <2>2. QED
    BY <1>2, <1>3, <1>6, <2>1 DEF Distinct
<1>7. QED
  BY <1>2, <1>5, <1>6 DEF Keeps, v, Q

\* self_transfer_expired
LEMMA SelfTransferExpiredKeeps ==
    ASSUME NEW k \in Owners, NEW w \in Wallets(k), NEW time \in Nat, NEW sig \in Nat
    PROVE  Keeps(k, w, SelfTransferExpired(w, time, sig))
<1> DEFINE valid == {i \in DOMAIN w.tickets : w.tickets[i].expires > time}
           dest == CHOOSE i \in valid :
                     \A j \in valid : \/ w.tickets[i].expires < w.tickets[j].expires
                                      \/ w.tickets[i].expires = w.tickets[j].expires /\ i <= j
           expired == {i \in DOMAIN w.tokens : CurrentTicket(w.tokens[i]).expires < time}
           fresh == DOMAIN w.tokens \ expired
           f == InOrder(fresh)
           g == Reverse(InOrder(expired))
           T == [i \in DOMAIN f |-> w.tokens[f[i]]]
           P == [i \in DOMAIN g |-> Transferred(w.tokens[g[i]], w.tickets[dest], w.key, sig)]
<1>1. /\ w.key = k /\ w.tokens \in Seq(Tokens) /\ w.tickets \in Seq(Tickets)
      /\ Len(w.tokens) \in Nat /\ DOMAIN w.tokens = 1 .. Len(w.tokens)
      /\ Len(w.tickets) \in Nat /\ DOMAIN w.tickets = 1 .. Len(w.tickets)
  BY WalletFields
<1>2. \/ SelfTransferExpired(w, time, sig) = w
      \/ valid # {} /\ SelfTransferExpired(w, time, sig) = [w EXCEPT !.tokens = T \o P]
  BY DEF SelfTransferExpired
<1>3. CASE SelfTransferExpired(w, time, sig) = w
  BY <1>3, KeptSame
<1>4. CASE /\ valid # {}
           /\ SelfTransferExpired(w, time, sig) = [w EXCEPT !.tokens = T \o P]
  <2>1. w.tickets[dest] \in Tickets
    <3>1. valid \in SUBSET DOMAIN w.tickets
      OBVIOUS
    <3>2. dest \in valid
      <4> HIDE DEF valid
      <4>1. \E i \in valid :
               \A j \in valid : \/ w.tickets[i].expires < w.tickets[j].expires
                                \/ w.tickets[i].expires = w.tickets[j].expires /\ i <= j
        BY <1>1, <1>4, <3>1, EarliestTicket
      <4>2. QED
        BY <4>1
    <3> HIDE DEF dest, valid
    <3>3. QED
      BY <1>1, <3>1, <3>2, ElementOfSeq
  <2>2. /\ expired \in SUBSET (1 .. Len(w.tokens)) /\ fresh \in SUBSET (1 .. Len(w.tokens))
        /\ fresh \cap expired = {}
    BY <1>1
  <2> HIDE DEF expired, fresh, dest
  <2>3. /\ expired \in SUBSET Nat /\ fresh \in SUBSET Nat
        /\ IsFiniteSet(expired) /\ IsFiniteSet(fresh)
    <3>1. IsFiniteSet(1 .. Len(w.tokens))
      BY <1>1, FS_Interval
    <3>2. IsFiniteSet(expired) /\ IsFiniteSet(fresh)
      BY <2>2, <3>1, FS_Subset
    <3>3. \A i \in 1 .. Len(w.tokens) : i \in Nat
      BY <1>1
    <3>4. QED
      BY <2>2, <3>2, <3>3
  <2> DEFINE nf == Cardinality(fresh)
             ne == Cardinality(expired)
  <2>4. /\ nf \in Nat /\ f \in [1 .. nf -> fresh]
        /\ \A a, b \in 1 .. nf : f[a] = f[b] => a = b
    BY <2>3, InOrderLists
  <2>5. /\ ne \in Nat /\ InOrder(expired) \in [1 .. ne -> expired]
        /\ \A a, b \in 1 .. ne : InOrder(expired)[a] = InOrder(expired)[b] => a = b
    BY <2>3, InOrderLists
  <2> HIDE DEF nf, ne, f
  <2>6. /\ g \in [1 .. ne -> expired]
        /\ \A a, b \in 1 .. ne : g[a] = g[b] => a = b
    <3> DEFINE o == InOrder(expired)
    <3> HIDE DEF o
    <3>1. o \in [1 .. ne -> expired] /\ \A a, b \in 1 .. ne : o[a] = o[b] => a = b
      BY <2>5 DEF o
    <3>2. Len(o) = ne
      BY <2>5, <3>1
    <3>3. g = [i \in 1 .. ne |-> o[(ne - i) + 1]]
      BY <3>2 DEF Reverse, o
    <3>4. \A i \in 1 .. ne : (ne - i) + 1 \in 1 .. ne
      BY <2>5
    <3>5. \A a, b \in 1 .. ne : (ne - a) + 1 = (ne - b) + 1 => a = b
      BY <2>5
    <3> HIDE DEF g
    <3>6. QED
      BY <3>1, <3>3, <3>4, <3>5
  <2> HIDE DEF g
  <2>7. ASSUME NEW i \in DOMAIN f
        PROVE  /\ f[i] \in DOMAIN w.tokens /\ T[i] = w.tokens[f[i]]
               /\ T[i] \in Tokens /\ Later(T[i], w.tokens[f[i]])
    <3>1. f[i] \in 1 .. Len(w.tokens) /\ T[i] = w.tokens[f[i]]
      BY <2>2, <2>4
    <3>2. w.tokens[f[i]] \in Tokens
      BY <1>1, <3>1, ElementOfSeq
    <3>3. QED
      BY <1>1, <3>1, <3>2, LaterThanItself
  <2>8. ASSUME NEW i \in DOMAIN g
        PROVE  /\ g[i] \in DOMAIN w.tokens
               /\ P[i] \in Tokens /\ Later(P[i], w.tokens[g[i]])
    <3>1. /\ g[i] \in 1 .. Len(w.tokens)
          /\ P[i] = Transferred(w.tokens[g[i]], w.tickets[dest], w.key, sig)
      BY <2>2, <2>6
    <3>2. w.tokens[g[i]] \in Tokens
      BY <1>1, <3>1, ElementOfSeq
    <3>3. QED
      BY <1>1, <2>1, <3>1, <3>2, TransferredIsLater
  <2>9. T \in Seq(Tokens) /\ DOMAIN T = DOMAIN f
    <3>1. T \in [1 .. nf -> Tokens]
      BY <2>4, <2>7
    <3>2. QED
      BY <2>4, <3>1
  <2>10. P \in Seq(Tokens) /\ DOMAIN P = DOMAIN g
    <3>1. P \in [1 .. ne -> Tokens]
      BY <2>5, <2>6, <2>8
    <3>2. QED
      BY <2>5, <2>6, <3>1
  <2> HIDE DEF T, P
  <2>11. Picks(T, w.tokens, f)
    BY <2>4, <2>7, <2>9 DEF Picks
  <2>12. Picks(P, w.tokens, g)
    BY <2>6, <2>8, <2>10 DEF Picks
  <2>13. NoneInBoth(f, g)
    BY <2>2, <2>4, <2>6 DEF NoneInBoth
  <2>14. Splits(w.tokens, T, P)
    BY <2>11, <2>12, <2>13, Picked
  <2>15. T \in Seq(Tokens) /\ P \in Seq(Tokens)
    BY <2>9, <2>10
  <2>16. Keeps(k, w, [w EXCEPT !.tokens = T \o P])
    BY <2>14, <2>15, TokensRearranged
  <2>17. QED
    BY <1>4, <2>16
<1>5. QED
  BY <1>2, <1>3, <1>4

\* Tokens from elsewhere are added: a withdrawal, or an import.
LEMMA TokensAdded ==
    ASSUME NEW k, NEW w \in Wallets(k), NEW new \in Seq(Tokens), NEW tickets \in Seq(Tickets)
    PROVE  LET v == [w EXCEPT !.tickets = tickets, !.tokens = @ \o new]
           IN  /\ v \in Wallets(k) /\ Has(v) = Has(w) \cup Range(new)
               /\ \A R : Distinct(R, w) /\ Unique(R, new) /\ Apart(R, Range(new), Has(w))
                           => Distinct(R, v)
<1> DEFINE Q == w.tokens \o new
           v == [w EXCEPT !.tickets = tickets, !.tokens = Q]
<1>1. w.tokens \in Seq(Tokens)
  BY WalletFields
<1>2. Q \in Seq(Tokens) /\ Range(Q) = Range(w.tokens) \cup Range(new)
  BY <1>1, ConcatProperties, RangeConcatenation
<1>3. v \in Wallets(k) /\ v.tokens = Q /\ v.pending = w.pending
  <2> HIDE DEF Q
  <2> QED BY <1>2 DEF Wallets
<1>4. Has(v) = Has(w) \cup Range(new)
  <2> HIDE DEF v, Q
  <2> QED BY <1>2, <1>3 DEF Has
<1>5. ASSUME NEW R, Distinct(R, w), Unique(R, new), Apart(R, Range(new), Has(w))
      PROVE  Distinct(R, v)
  <2>1. Apart(R, Range(w.tokens), Range(new)) /\ Apart(R, Range(new), Range(w.pending))
    BY <1>5 DEF Apart, Has
  <2>2. Unique(R, Q)
    BY <1>1, <1>5, <2>1, ConcatUnique DEF Distinct
  <2> HIDE DEF v, Q
  <2>3. Apart(R, Range(Q), Range(w.pending))
    BY <1>2, <1>5, <2>1 DEF Apart, Distinct
  <2>4. QED
    BY <1>3, <1>5, <2>2, <2>3 DEF Distinct
<1>6. QED
  BY <1>3, <1>4, <1>5
-----------------------------------------------------------------------------
(***************************************************************************)
(* What the operations of a client come to.                                *)
(***************************************************************************)
\* An operation that only works on its copy of the wallet, and its result.
Ended(u, s, v) == \/ Fail(u, s) \/ Succeed(u, s, v)
                  \/ ~ Cli(u) /\ Goto(u, s, "publish", v, {})

Worked(u, s, v) ==
    /\ Open(u, s) /\ Keeps(u, Copy(u, s), v) /\ Ended(u, s, v)
    /\ Elsewhere /\ UNCHANGED <<wire, minted>>
    /\ tracked' = tracked \/ tracked' = tracked \cup Range(Copy(u, s).tokens)

Withdrew(u, s) == \E n \in 1 .. 2 : \E outcome \in [1 .. n -> Outcomes] :
                     Open(u, s) /\ withdraw(u, s, outcome)

Received(u, s) == \E token \in wire : ReceiveTokens(u, s, token)

Lifecycle(u, s) == \/ Begin(u, s) \/ Publish(u, s) \/ Save(u, s) \/ HandOver(u, s)
                   \/ Output(u, s) \/ SaveFile(u, s)

LEMMA TypeOfUser ==
    ASSUME TypeOK, NEW u \in Users
    PROVE  /\ u \in Owners /\ app[u] \in Wallets(u) /\ disk[u] \in Wallets(u)
           /\ Stored(u) \in Wallets(u)
           /\ \A s \in Slots : op[u][s] \in Operations(u)
BY DEF TypeOK, Owners, Stored

\* What an operation under way has.
LEMMA TypeOfOperation ==
    ASSUME NEW u, NEW o \in Operations(u)
    PROVE  /\ o.pc \in {"idle", "open", "publish", "save", "handover", "output", "file"}
           /\ o.pc = "idle" => o = Idle
           /\ o.pc = "open" => o.w \in Wallets(u) /\ o.sig \in Nat
           /\ o.pc \in {"publish", "save", "handover", "output", "file"} =>
                 o.w \in Wallets(u) /\ o.out \in SUBSET Tokens
BY DEF Operations, Idle

LEMMA TypeOfCopy ==
    ASSUME TypeOK, NEW u \in Users, NEW s \in Slots, Open(u, s)
    PROVE  /\ u \in Owners /\ Copy(u, s) \in Wallets(u) /\ op[u][s].sig \in Nat
           /\ now \in Nat \ {0} /\ Ticket(u) \in Tickets
<1>1. op[u][s] \in Operations(u) /\ u \in Owners
  BY TypeOfUser
<1>2. now \in Nat \ {0}
  BY DEF TypeOK
<1>3. Copy(u, s) \in Wallets(u) /\ op[u][s].sig \in Nat
  BY <1>1, TypeOfOperation DEF Open, Copy
<1>4. QED
  BY <1>1, <1>2, <1>3, TicketIsTicket

\* Whoever is paid has a ticket of the clerk, or bytes that do not decode.
LEMMA RecipientsType ==
    ASSUME TypeOK
    PROVE  Recipients \subseteq Tickets \cup {Malformed}
<1>1. SwapDestination \in Tickets
  <2>1. swapper \in Wallets(Swapper) /\ swapper.tickets # <<>>
    BY DEF TypeOK
  <2>2. swapper.tickets \in Seq(Tickets)
    BY <2>1, WalletFields
  <2>3. QED
    BY <2>1, <2>2 DEF SwapDestination
<1>2. ASSUME NEW u \in Users, Stored(u).tickets # <<>> PROVE Head(Stored(u).tickets) \in Tickets
  <2>1. Stored(u) \in Wallets(u)
    BY TypeOfUser
  <2>2. Stored(u).tickets \in Seq(Tickets)
    BY <2>1, WalletFields
  <2>3. QED
    BY <1>2, <2>2
<1>3. QED
  BY <1>1, <1>2 DEF Recipients

\* An operation that leaves everything else alone.
LEMMA AloneWorks ==
    ASSUME NEW u, NEW s, NEW v, Open(u, s), Keeps(u, Copy(u, s), v), Ended(u, s, v), Alone
    PROVE  Worked(u, s, v)
BY DEF Worked, Alone

LEMMA RefreshedKeeps ==
    ASSUME TypeOK, NEW u \in Users, NEW s \in Slots, Open(u, s), NEW m \in Nat, NEW indices,
           DOMAIN indices = 1 .. m, NEW signed \in BOOLEAN
    PROVE  Keeps(u, Copy(u, s), Refreshed(u, s, indices, signed))
<1> DEFINE e == [ticket |-> Ticket(u), signed |-> signed]
           reply == [i \in DOMAIN indices |-> e]
<1>1. e \in Replies
  BY TypeOfCopy DEF Replies
<1> HIDE DEF e
<1>2. reply \in [1 .. m -> Replies]
  BY <1>1
<1>3. Copy(u, s) \in Wallets(u)
  BY TypeOfCopy
<1> HIDE DEF reply
<1>4. Keeps(u, Copy(u, s), RefreshTickets(Copy(u, s), indices, reply))
  BY <1>2, <1>3, RefreshTicketsKeeps
<1>5. QED
  BY <1>4 DEF Refreshed, reply, e

LEMMA GetTicketsWorks ==
    ASSUME TypeOK, NEW u \in Users, NEW s \in Slots, Open(u, s), NEW signed \in BOOLEAN
    PROVE  Keeps(u, Copy(u, s),
                 GetTickets(Copy(u, s), <<[ticket |-> Ticket(u), signed |-> signed]>>).w)
<1> DEFINE e == [ticket |-> Ticket(u), signed |-> signed]
<1>1. e \in Replies
  BY TypeOfCopy DEF Replies
<1> HIDE DEF e
<1>2. <<e>> \in Seq(Replies)
  BY <1>1
<1>3. Copy(u, s) \in Wallets(u)
  BY TypeOfCopy
<1>4. Keeps(u, Copy(u, s), GetTickets(Copy(u, s), <<e>>).w)
  BY <1>2, <1>3, GetTicketsKeeps
<1>5. QED
  BY <1>4 DEF e

\* Every operation of a client is one of these.
LEMMA OperationEffect ==
    ASSUME TypeOK, NEW u \in Users, NEW s \in Slots, Operation(u, s)
    PROVE  \/ Lifecycle(u, s) \/ Withdrew(u, s) \/ Received(u, s)
           \/ \E v : Worked(u, s, v)
<1> DEFINE w == Copy(u, s)
           sig == op[u][s].sig
<1>1. CASE \/ Begin(u, s) \/ Publish(u, s) \/ Save(u, s) \/ HandOver(u, s)
           \/ Output(u, s) \/ SaveFile(u, s)
  BY <1>1 DEF Lifecycle
<1>2. CASE Refused(u, s)
  <2>1. Open(u, s) /\ Fail(u, s) /\ Alone
    BY <1>2 DEF Refused
  <2>2. Keeps(u, w, w)
    BY <2>1, TypeOfCopy, KeptSame
  <2>3. QED
    BY <2>1, <2>2, AloneWorks DEF Ended
<1>3. CASE \E n \in 1 .. 2 : \E outcome \in [1 .. n -> Outcomes] :
             Withdraw(u, s, outcome) \/ CmdWithdraw(u, s, outcome)
  BY <1>3 DEF Withdrew, Withdraw, CmdWithdraw, Client, Command
<1>4. CASE \E amount \in 1 .. 2, recipient \in Recipients :
             Transfer(u, s, amount, recipient) \/ CmdSend(u, s, amount, recipient)
  <2>1. PICK amount \in 1 .. 2, recipient \in Recipients :
             Transfer(u, s, amount, recipient) \/ CmdSend(u, s, amount, recipient)
    BY <1>4
  <2> DEFINE r == TransferInner(w, amount, recipient, 0, sig)
  <2>2. Open(u, s) /\ Succeed(u, s, r.w) /\ Alone
    BY <2>1 DEF Transfer, CmdSend, Client, Command
  <2>3. Keeps(u, w, r.w)
    <3>1. /\ amount \in Nat \ {0} /\ 0 \in 0 .. amount
          /\ recipient \in Tickets \cup {Malformed}
      BY RecipientsType
    <3>2. u \in Owners /\ w \in Wallets(u) /\ sig \in Nat
      BY <2>2, TypeOfCopy
    <3> HIDE DEF w, sig
    <3>3. QED
      BY <3>1, <3>2, TransferInnerKeeps
  <2>4. QED
    BY <2>2, <2>3, AloneWorks DEF Ended
<1>5. CASE /\ Open(u, s) /\ kind[u] = "card"
           /\ \E amount \in 1 .. 2, recipient \in Recipients, authorized \in BOOLEAN :
                 \E refused, again \in 0 .. amount :
                    TransferWithCard(u, s, amount, recipient, refused, again, authorized)
  <2>1. PICK amount \in 1 .. 2, recipient \in Recipients, authorized \in BOOLEAN :
               \E refused, again \in 0 .. amount :
                  TransferWithCard(u, s, amount, recipient, refused, again, authorized)
    BY <1>5
  <2>2. PICK refused \in 0 .. amount, again \in 0 .. amount :
               TransferWithCard(u, s, amount, recipient, refused, again, authorized)
    BY <2>1
  <2> DEFINE r == TransferWithSwapRetry(w, amount, recipient, refused, again, authorized, sig)
  <2>3. /\ Open(u, s) /\ kind[u] = "card" /\ Alone
        /\ IF r.ok THEN Succeed(u, s, r.w) ELSE Goto(u, s, "publish", r.w, {})
    BY <2>2 DEF TransferWithCard
  <2>4. Keeps(u, w, r.w)
    <3>1. /\ amount \in Nat \ {0}
          /\ recipient \in Tickets \cup {Malformed}
      BY RecipientsType
    <3>2. u \in Owners /\ w \in Wallets(u) /\ sig \in Nat
      BY <2>3, TypeOfCopy
    <3> HIDE DEF w, sig
    <3>3. QED
      BY <3>1, <3>2, TransferWithSwapRetryKeeps
  <2>5. Ended(u, s, r.w)
    <3>1. ~ Cli(u)
      BY <2>3 DEF Cli
    <3>2. QED
      BY <2>3, <3>1 DEF Ended
  <2>6. QED
    BY <2>3, <2>4, <2>5, AloneWorks
<1>6. CASE \E token \in wire : ReceiveTokens(u, s, token)
  BY <1>6 DEF Received
<1>7. CASE \E signed \in BOOLEAN : RequestTickets(u, s, signed) \/ Refresh(u, s, 1, signed)
  <2>1. PICK signed \in BOOLEAN : RequestTickets(u, s, signed) \/ Refresh(u, s, 1, signed)
    BY <1>7
  <2>2. CASE RequestTickets(u, s, signed)
    <3> DEFINE v == GetTickets(w, <<[ticket |-> Ticket(u), signed |-> signed]>>).w
    <3>1. Open(u, s) /\ Alone /\ Ended(u, s, v)
      BY <2>2 DEF RequestTickets, Client, Ended
    <3>2. Keeps(u, w, v)
      BY <3>1, GetTicketsWorks
    <3>3. QED
      BY <3>1, <3>2, AloneWorks
  <2>3. CASE Refresh(u, s, 1, signed)
    <3> DEFINE v == Refreshed(u, s, <<1>>, signed)
    <3>1. Open(u, s) /\ Alone /\ Ended(u, s, v)
      BY <2>3 DEF Refresh, Client, Ended
    <3>2. DOMAIN <<1>> = 1 .. 1 /\ 1 \in Nat
      OBVIOUS
    <3>3. Keeps(u, w, v)
      BY <3>1, <3>2, RefreshedKeeps
    <3>4. QED
      BY <3>1, <3>3, AloneWorks
  <2>4. QED
    BY <2>1, <2>2, <2>3
<1>8. CASE SelfTransfer(u, s)
  <2> DEFINE v == SelfTransferExpired(w, now, sig)
  <2>1. Open(u, s) /\ Alone /\ Ended(u, s, v)
    BY <1>8 DEF SelfTransfer, Client, Ended
  <2>2. Keeps(u, w, v)
    <3>1. u \in Owners /\ w \in Wallets(u) /\ sig \in Nat /\ now \in Nat
      BY <2>1, TypeOfCopy
    <3> HIDE DEF w, sig
    <3>2. QED
      BY <3>1, SelfTransferExpiredKeeps
  <2>3. QED
    BY <2>1, <2>2, AloneWorks
<1>9. CASE Validate(u, s) \/ CmdValidate(u, s)
  <2>1. /\ Open(u, s) /\ Elsewhere /\ UNCHANGED <<wire, minted>>
        /\ tracked' = tracked \cup Range(w.tokens)
    BY <1>9 DEF Validate, CmdValidate, Client, Command, validate, ValidateTokens
  <2>2. Ended(u, s, w)
    BY <1>9 DEF Validate, CmdValidate, Ended
  <2>3. Keeps(u, w, w)
    BY <2>1, TypeOfCopy, KeptSame
  <2>4. QED
    BY <2>1, <2>2, <2>3 DEF Worked
<1>10. CASE CmdTickets(u, s)
  <2> DEFINE v == GetTickets(w, <<[ticket |-> Ticket(u), signed |-> TRUE]>>).w
  <2>1. Open(u, s) /\ Alone /\ Ended(u, s, v)
    BY <1>10 DEF CmdTickets, Command, Ended
  <2>2. Keeps(u, w, v)
    BY <2>1, GetTicketsWorks
  <2>3. QED
    BY <2>1, <2>2, AloneWorks
<1>11. CASE CmdRefresh(u, s, 0)
  <2> DEFINE due == {i \in DOMAIN w.tickets : w.tickets[i].expires <= now + 0}
             v == Refreshed(u, s, InOrder(due), TRUE)
  <2>1. Open(u, s) /\ Alone /\ Ended(u, s, v)
    BY <1>11 DEF CmdRefresh, Command, Ended
  <2>2. Keeps(u, w, v)
    <3>1. w \in Wallets(u)
      BY <2>1, TypeOfCopy
    <3>2. Len(w.tickets) \in Nat /\ DOMAIN w.tickets = 1 .. Len(w.tickets)
      BY <3>1, WalletFields
    <3>3. due \in SUBSET (1 .. Len(w.tickets))
      BY <3>2
    <3> HIDE DEF due
    <3>4. IsFiniteSet(1 .. Len(w.tickets)) /\ 1 .. Len(w.tickets) \subseteq Nat
      BY <3>2, FS_Interval
    <3>5. IsFiniteSet(due) /\ due \in SUBSET Nat
      BY <3>3, <3>4, FS_Subset
    <3>6. Cardinality(due) \in Nat /\ DOMAIN InOrder(due) = 1 .. Cardinality(due)
      BY <3>5, InOrderLists
    <3>7. QED
      BY <2>1, <3>6, RefreshedKeeps
  <2>3. QED
    BY <2>1, <2>2, AloneWorks
<1>12. QED
  BY <1>1, <1>2, <1>3, <1>4, <1>5, <1>6, <1>7, <1>8, <1>9, <1>10, <1>11 DEF Operation

\* Tokens that join a wallet.
Joined(u, w, v, new) ==
    /\ v \in Wallets(u) /\ Has(v) = Has(w) \cup new
    /\ \A R : Distinct(R, w) /\ Apart(R, new, Has(w)) => Distinct(R, v)

\* The mint made the tokens `made`, of which `new` reach the wallet.
WithdrewTokens(u, s, made, new) ==
    /\ Open(u, s) /\ Elsewhere /\ UNCHANGED wire
    /\ minted' \in minted .. MaxId
    /\ made \in SUBSET Tokens /\ new \subseteq made
    /\ \A x \in made : x.id > minted /\ x.id <= minted'
    /\ \A x, y \in made : x.id = y.id => x = y
    /\ tracked' = tracked \cup made
    /\ Fail(u, s) \/ \E v : Joined(u, Copy(u, s), v, new) /\ Succeed(u, s, v)

LEMMA WithdrewEffect ==
    ASSUME TypeOK, NEW u \in Users, NEW s \in Slots, Withdrew(u, s)
    PROVE  \E made, new : WithdrewTokens(u, s, made, new)
<1>1. PICK n \in 1 .. 2 : \E outcome \in [1 .. n -> Outcomes] :
             Open(u, s) /\ withdraw(u, s, outcome)
  BY DEF Withdrew
<1>2. PICK outcome \in [1 .. n -> Outcomes] : Open(u, s) /\ withdraw(u, s, outcome)
  BY <1>1
<1> DEFINE w == Copy(u, s)
           ticket == Last(w.tickets)
           kept == InOrder(Kept(outcome))
           reply == [k \in DOMAIN kept |-> Minted(minted + kept[k], ticket)]
           tried == {i \in DOMAIN outcome : outcome[i] # "untracked"}
           made == {Minted(minted + i, ticket) : i \in tried}
<1>3. /\ w.tickets # <<>> /\ minted + Len(outcome) <= MaxId
      /\ minted' = minted + Len(outcome) /\ tracked' = tracked \cup made
      /\ Fail(u, s) \/ Succeed(u, s, Withdrawn(w, reply))
      /\ Elsewhere /\ UNCHANGED wire
  BY <1>2 DEF withdraw, GetTokens, GetTokensReply
<1>4. /\ w \in Wallets(u) /\ w.tickets \in Seq(Tickets)
      /\ Len(w.tickets) \in Nat \ {0} /\ ticket \in Tickets
  <2>1. w \in Wallets(u)
    BY <1>2, TypeOfCopy
  <2>2. w.tickets \in Seq(Tickets)
    BY <2>1, WalletFields
  <2>3. Len(w.tickets) \in Nat \ {0}
    BY <1>3, <2>2, EmptySeq
  <2>4. Len(w.tickets) \in 1 .. Len(w.tickets)
    BY <2>3
  <2>5. w.tickets[Len(w.tickets)] \in Tickets
    BY <2>2, <2>4, ElementOfSeq
  <2>6. QED
    BY <2>1, <2>2, <2>3, <2>5 DEF Last
<1> HIDE DEF w, ticket
<1>5. Len(outcome) = n /\ DOMAIN outcome = 1 .. n /\ n \in Nat
  OBVIOUS
<1>6. minted \in Nat /\ MaxId \in Nat
  BY WalletNetworkAssumption DEF TypeOK
<1>7. \A i \in 1 .. n : /\ minted + i \in 1 .. MaxId
                        /\ Minted(minted + i, ticket) \in Tokens
                        /\ Minted(minted + i, ticket).id = minted + i
  <2>1. \A i \in 1 .. n : minted + i \in 1 .. MaxId
    BY <1>3, <1>5, <1>6
  <2>2. QED
    BY <1>4, <2>1, MintedIsToken
<1>8. Kept(outcome) \subseteq tried /\ tried \subseteq 1 .. n
  <2>1. "released" # "untracked"
    OBVIOUS
  <2>2. QED
    BY <1>5, <2>1 DEF Kept
<1>9. /\ made \in SUBSET Tokens
      /\ \A x \in made : x.id > minted /\ x.id <= minted'
      /\ \A x, y \in made : x.id = y.id => x = y
  <2>1. \A x \in made : \E i \in 1 .. n : x = Minted(minted + i, ticket)
    BY <1>8
  <2> HIDE DEF made
  <2>2. \A x \in made : x \in Tokens
    BY <1>7, <2>1
  <2>3. ASSUME NEW x \in made PROVE x.id > minted /\ x.id <= minted'
    <3>1. PICK i \in 1 .. n : x = Minted(minted + i, ticket)
      BY <2>1
    <3>2. x.id = minted + i
      BY <1>7, <3>1
    <3>3. QED
      BY <1>3, <1>5, <1>6, <3>2
  <2>4. ASSUME NEW x \in made, NEW y \in made, x.id = y.id PROVE x = y
    <3>1. PICK i \in 1 .. n : x = Minted(minted + i, ticket)
      BY <2>1
    <3>2. PICK j \in 1 .. n : y = Minted(minted + j, ticket)
      BY <2>1
    <3>3. minted + i = minted + j
      BY <1>7, <2>4, <3>1, <3>2
    <3>4. QED
      BY <3>1, <3>2, <3>3
  <2>5. QED
    BY <2>2, <2>3, <2>4
<1>10. /\ Cardinality(Kept(outcome)) \in Nat
       /\ kept \in [1 .. Cardinality(Kept(outcome)) -> Kept(outcome)]
       /\ \A k, l \in DOMAIN kept : kept[k] = kept[l] => k = l
  <2>1. IsFiniteSet(1 .. n) /\ 1 .. n \subseteq Nat
    BY <1>5, FS_Interval
  <2>2. IsFiniteSet(Kept(outcome)) /\ Kept(outcome) \in SUBSET Nat
    BY <1>8, <2>1, FS_Subset
  <2>3. /\ Cardinality(Kept(outcome)) \in Nat
        /\ kept \in [1 .. Cardinality(Kept(outcome)) -> Kept(outcome)]
        /\ \A k, l \in 1 .. Cardinality(Kept(outcome)) : kept[k] = kept[l] => k = l
    BY <2>2, InOrderLists
  <2> HIDE DEF kept
  <2>4. QED
    BY <2>3
<1> HIDE DEF kept
<1>11. \A k \in DOMAIN kept : /\ kept[k] \in tried /\ kept[k] \in 1 .. n
                              /\ reply[k] = Minted(minted + kept[k], ticket)
  BY <1>8, <1>10
<1> HIDE DEF tried
<1>12. reply \in Seq(Tokens) /\ DOMAIN reply = DOMAIN kept
  <2>1. \A k \in DOMAIN kept : Minted(minted + kept[k], ticket) \in Tokens
    BY <1>7, <1>11
  <2>2. reply \in [1 .. Cardinality(Kept(outcome)) -> Tokens]
    BY <1>10, <2>1
  <2>3. QED
    BY <1>10, <2>2
<1> HIDE DEF reply
<1>13. Range(reply) \subseteq made
  BY <1>11, <1>12 DEF Range
<1>14. \A R : Unique(R, reply)
  <2> SUFFICES ASSUME NEW k \in DOMAIN kept, NEW l \in DOMAIN kept, reply[k].id = reply[l].id
               PROVE  k = l
    BY <1>12 DEF Unique
  <2>1. minted + kept[k] = minted + kept[l]
    BY <1>7, <1>11
  <2>2. kept[k] \in Nat /\ kept[l] \in Nat
    BY <1>5, <1>11
  <2>3. kept[k] = kept[l]
    BY <1>6, <2>1, <2>2
  <2>4. QED
    BY <1>10, <2>3
<1>15. Joined(u, w, Withdrawn(w, reply), Range(reply))
  <2> DEFINE front == Front(w.tickets)
             v == [w EXCEPT !.tickets = front, !.tokens = @ \o reply]
  <2>1. front \in Seq(Tickets)
    BY <1>4 DEF Front
  <2>2. Withdrawn(w, reply) = v
    BY DEF Withdrawn
  <2> HIDE DEF front
  <2>3. /\ v \in Wallets(u) /\ Has(v) = Has(w) \cup Range(reply)
        /\ \A R : Distinct(R, w) /\ Unique(R, reply) /\ Apart(R, Range(reply), Has(w))
                    => Distinct(R, v)
    BY <1>4, <1>12, <2>1, TokensAdded
  <2> HIDE DEF v
  <2>4. QED
    BY <1>14, <2>2, <2>3 DEF Joined
<1>16. minted' \in minted .. MaxId
  BY <1>3, <1>5, <1>6
<1> HIDE DEF made
<1>17. WithdrewTokens(u, s, made, Range(reply))
  <2>1. Fail(u, s) \/ \E v : Joined(u, w, v, Range(reply)) /\ Succeed(u, s, v)
    BY <1>3, <1>15
  <2>2. QED
    BY <1>2, <1>3, <1>9, <1>13, <1>16, <2>1 DEF WithdrewTokens, w
<1>18. QED
  BY <1>17

\* A token is taken from the wire.
ReceivedToken(u, s, token) ==
    /\ Open(u, s) /\ token \in wire /\ Elsewhere /\ UNCHANGED <<tracked, minted>>
    /\ wire' = (IF Redelivery THEN wire ELSE wire \ {token})
    /\ \E v : Joined(u, Copy(u, s), v, {token}) /\ Succeed(u, s, v)

LEMMA ReceivedEffect ==
    ASSUME TypeOK, NEW u \in Users, NEW s \in Slots, Received(u, s)
    PROVE  \E token : ReceivedToken(u, s, token)
<1>1. PICK token \in wire : ReceiveTokens(u, s, token)
  BY DEF Received
<1> DEFINE w == Copy(u, s)
           v == [w EXCEPT !.tokens = Append(@, token)]
<1>2. /\ Open(u, s) /\ token \in wire /\ Elsewhere /\ UNCHANGED <<tracked, minted>>
      /\ wire' = (IF Redelivery THEN wire ELSE wire \ {token})
      /\ Succeed(u, s, v)
  BY <1>1 DEF ReceiveTokens, Client
<1>3. w \in Wallets(u) /\ token \in Tokens
  BY <1>2, TypeOfCopy DEF TypeOK
<1>4. Joined(u, w, v, {token})
  <2>1. w.tokens \in Seq(Tokens) /\ w.tickets \in Seq(Tickets) /\ w.tickets = w.tickets
    BY <1>3, WalletFields
  <2>2. <<token>> \in Seq(Tokens) /\ Range(<<token>>) = {token}
    BY <1>3 DEF Range
  <2>2a. \A R : Unique(R, <<token>>)
    BY DEF Unique
  <2> DEFINE x == [w EXCEPT !.tickets = w.tickets, !.tokens = @ \o <<token>>]
  <2>3. v = x
    <3> HIDE DEF w
    <3>1. Append(w.tokens, token) = w.tokens \o <<token>>
      BY <1>3, <2>1, AppendIsConcat
    <3>2. [w EXCEPT !.tickets = w.tickets] = w
      BY <1>3 DEF Wallets
    <3>3. QED
      BY <1>3, <3>1 DEF Wallets
  <2>4. /\ x \in Wallets(u) /\ Has(x) = Has(w) \cup Range(<<token>>)
        /\ \A R : Distinct(R, w) /\ Unique(R, <<token>>) /\ Apart(R, Range(<<token>>), Has(w))
                    => Distinct(R, x)
    <3> HIDE DEF w
    <3> QED BY <1>3, <2>1, <2>2, TokensAdded
  <2> HIDE DEF v, x, w
  <2>5. QED
    BY <2>2, <2>2a, <2>3, <2>4 DEF Joined
<1> HIDE DEF v
<1>5. ReceivedToken(u, s, token)
  BY <1>2, <1>4 DEF ReceivedToken
<1>6. QED
  BY <1>5
-----------------------------------------------------------------------------
(***************************************************************************)
(* Types.                                                                  *)
(***************************************************************************)
OperationsOK == DOMAIN op = Users /\ \A v \in Users : op[v] \in [Slots -> Operations(v)]

\* One operation takes a step.
LEMMA OneOperation ==
    ASSUME TypeOK, NEW u \in Users, NEW s \in Slots, NEW o \in Operations(u),
           op' = [op EXCEPT ![u][s] = o]
    PROVE  /\ OperationsOK'
           /\ \A v \in Users, r \in Slots :
                 op'[v][r] = IF v = u /\ r = s THEN o ELSE op[v][r]
<1>1. DOMAIN op = Users /\ \A v \in Users : op[v] \in [Slots -> Operations(v)]
  BY DEF TypeOK
<1>2. DOMAIN op' = Users /\ op'[u] = [op[u] EXCEPT ![s] = o]
  BY <1>1
<1>3. \A v \in Users : v # u => op'[v] = op[v]
  BY <1>1
<1>4. op'[u] \in [Slots -> Operations(u)] /\ \A r \in Slots : op'[u][r] = IF r = s THEN o ELSE op[u][r]
  BY <1>1, <1>2
<1>5. QED
  BY <1>1, <1>2, <1>3, <1>4 DEF OperationsOK

\* The records that an operation passes through.
LEMMA OperationRecords ==
    ASSUME NEW u, NEW w \in Wallets(u)
    PROVE  /\ Idle \in Operations(u)
           /\ \A n \in Nat : [pc |-> "open", w |-> w, sig |-> n] \in Operations(u)
           /\ \A pc \in {"publish", "save", "handover", "output", "file"}, out \in SUBSET Tokens :
                 [pc |-> pc, w |-> w, out |-> out] \in Operations(u)
BY DEF Operations

\* How an operation ends.
LEMMA EndedRecord ==
    ASSUME NEW u, NEW s, NEW v \in Wallets(u), Ended(u, s, v)
    PROVE  \/ Fail(u, s)
           \/ \E o \in Operations(u) :
                 /\ op' = [op EXCEPT ![u][s] = o]
                 /\ o.pc = IF Cli(u) THEN "output" ELSE "publish"
                 /\ o.w \in Wallets(u) /\ o.out \in SUBSET Tokens
                 /\ Has(o.w) \subseteq Has(v) /\ o.out \subseteq Has(v)
                 /\ \A R : Distinct(R, v) =>
                      Distinct(R, o.w) /\ Apart(R, Has(o.w), o.out) /\ OnePerId(R, o.out)
<1>1. CASE Succeed(u, s, v)
  <2> DEFINE x == [v EXCEPT !.pending = <<>>]
             out == Range(v.pending)
             pc == IF Cli(u) THEN "output" ELSE "publish"
             o == [pc |-> pc, w |-> x, out |-> out]
  <2>1. op' = [op EXCEPT ![u][s] = o]
    BY <1>1 DEF Succeed, Goto
  <2>2. x \in Wallets(u) /\ x.tokens = v.tokens /\ x.pending = <<>>
    <3>1. \A e \in Seq(Tokens) : LET y == [v EXCEPT !.pending = e]
                                 IN  y \in Wallets(u) /\ y.tokens = v.tokens /\ y.pending = e
      BY DEF Wallets
    <3>2. <<>> \in Seq(Tokens)
      BY EmptySeq
    <3>3. QED
      BY <3>1, <3>2
  <2>3. out \in SUBSET Tokens
    BY WalletFields
  <2>4. Has(x) = Range(v.tokens) /\ Has(v) = Range(v.tokens) \cup out
    <3>1. Range(<<>>) = {}
      BY DEF Range
    <3> HIDE DEF x
    <3>2. QED
      BY <2>2, <3>1 DEF Has
  <2> HIDE DEF x
  <2>5. o \in Operations(u)
    BY <2>2, <2>3, OperationRecords
  <2>6. ASSUME NEW R, Distinct(R, v)
        PROVE  Distinct(R, x) /\ Apart(R, Has(x), out) /\ OnePerId(R, out)
    <3>1. Unique(R, <<>>) /\ Range(<<>>) = {}
      BY DEF Unique, Range
    <3>2. Distinct(R, x)
      BY <2>2, <2>6, <3>1 DEF Distinct, Apart
    <3>3. Apart(R, Has(x), out)
      BY <2>4, <2>6 DEF Distinct
    <3>4. OnePerId(R, out)
      BY <2>6 DEF Distinct, Unique, Range, OnePerId
    <3>5. QED
      BY <3>2, <3>3, <3>4
  <2>7. o.pc = pc /\ o.w = x /\ o.out = out
    OBVIOUS
  <2> HIDE DEF o, out
  <2>8. QED
    BY <2>1, <2>2, <2>3, <2>4, <2>5, <2>6, <2>7
<1>2. CASE ~ Cli(u) /\ Goto(u, s, "publish", v, {})
  <2> DEFINE o == [pc |-> "publish", w |-> v, out |-> {}]
  <2>1. op' = [op EXCEPT ![u][s] = o]
    BY <1>2 DEF Goto
  <2>2. o \in Operations(u)
    BY OperationRecords
  <2>3. o.pc = "publish" /\ o.w = v /\ o.out = {}
    OBVIOUS
  <2> HIDE DEF o
  <2>4. QED
    BY <1>2, <2>1, <2>2, <2>3 DEF Apart, OnePerId
<1>3. QED
  BY <1>1, <1>2 DEF Ended

LEMMA TypeCarries ==
    ASSUME TypeOK, OperationsOK',
           UNCHANGED <<kind, app, disk, handed, now, unsaved, swapper, poisoned, swap, swaps, ops>>,
           wire' \in SUBSET Tokens, tracked' \in SUBSET Tokens, minted' \in 0 .. MaxId
    PROVE  TypeOK'
BY DEF TypeOK, OperationsOK

LEMMA TypeInit == Init => TypeOK
<1> SUFFICES ASSUME Init PROVE TypeOK
  OBVIOUS
<1>1. now = 1
  BY DEF Init
<1>2. \A o \in Owners : Ticket(o) \in Tickets
  BY <1>1, TicketIsTicket
<1>3. ASSUME NEW o \in Owners, NEW ids \in Seq(1 .. MaxId)
      PROVE  Endowed(o, ids) \in Wallets(o) /\ Endowed(o, ids).tickets # <<>>
  <2> DEFINE T == [i \in DOMAIN ids |-> Minted(ids[i], Ticket(o))]
  <2>1. Len(ids) \in Nat /\ DOMAIN ids = 1 .. Len(ids)
    BY LenProperties
  <2>2. ASSUME NEW i \in DOMAIN ids PROVE Minted(ids[i], Ticket(o)) \in Tokens
    <3>1. ids[i] \in 1 .. MaxId
      BY <2>1, ElementOfSeq
    <3>2. QED
      BY <1>2, <3>1, MintedIsToken
  <2>3. T \in Seq(Tokens)
    BY <2>1, <2>2
  <2>4. <<Ticket(o)>> \in Seq(Tickets) /\ <<Ticket(o)>> # <<>>
    BY <1>2
  <2>5. NewWallet(o) \in Wallets(o)
    <3>1. <<>> \in Seq(Tokens) /\ <<>> \in Seq(Tickets)
      BY EmptySeq
    <3>2. QED
      BY <3>1 DEF NewWallet, Wallets
  <2>6. ASSUME NEW w \in Wallets(o), NEW t \in Seq(Tickets), NEW S \in Seq(Tokens)
        PROVE  /\ [w EXCEPT !.tickets = t, !.tokens = S] \in Wallets(o)
               /\ [w EXCEPT !.tickets = t, !.tokens = S].tickets = t
    BY DEF Wallets
  <2>7. Endowed(o, ids) = [NewWallet(o) EXCEPT !.tickets = <<Ticket(o)>>, !.tokens = T]
    BY DEF Endowed
  <2> HIDE DEF T
  <2>8. /\ [NewWallet(o) EXCEPT !.tickets = <<Ticket(o)>>, !.tokens = T] \in Wallets(o)
        /\ [NewWallet(o) EXCEPT !.tickets = <<Ticket(o)>>, !.tokens = T].tickets = <<Ticket(o)>>
    BY <2>3, <2>4, <2>5, <2>6
  <2>9. QED
    BY <2>4, <2>7, <2>8
<1>4. \A u \in Users : app[u] \in Wallets(u)
  BY <1>3, WalletNetworkAssumption DEF Init, Owners
<1>5. swapper \in Wallets(Swapper) /\ swapper.tickets # <<>>
  BY <1>3, WalletNetworkAssumption DEF Init, Owners
<1>6. DOMAIN app = Users /\ disk = app /\ kind \in [Users -> ClientKinds]
  BY WalletNetworkAssumption DEF Init
<1>7. DOMAIN op = Users /\ \A u \in Users : op[u] \in [Slots -> Operations(u)]
  BY DEF Init, Operations
<1>8. tracked \in SUBSET Tokens
  <2>1. \A w \in Range(app) \cup {swapper} : Range(w.tokens) \subseteq Tokens
    BY <1>4, <1>5, <1>6, WalletFields DEF Range
  <2>2. tracked = UNION {Range(w.tokens) : w \in Range(app) \cup {swapper}}
    BY DEF Init
  <2>3. QED
    BY <2>1, <2>2
<1>9. minted \in 0 .. MaxId
  <2>1. PICK n \in 0 .. MaxId : Issued = 1 .. n
    BY IssuedOnce
  <2>2. n \in Nat
    BY WalletNetworkAssumption
  <2>3. Cardinality(1 .. n) = n
    BY <2>2, FS_Interval
  <2>4. QED
    BY <2>1, <2>3 DEF Init
<1>10. /\ {wire, handed, tracked} \subseteq SUBSET Tokens /\ unsaved \subseteq 1 .. MaxId
       /\ poisoned \in BOOLEAN /\ swap \in [Handlers -> Swaps]
       /\ swaps \in Nat /\ ops \in [Users -> Nat]
  BY <1>8 DEF Init, Swaps
<1>11. now \in Nat \ {0}
  BY <1>1
<1>12. \A u \in Users : disk[u] \in Wallets(u)
  BY <1>4, <1>6
<1>13. QED
  BY <1>4, <1>5, <1>6, <1>7, <1>9, <1>10, <1>11, <1>12 DEF TypeOK

\* The pc of an operation moves on.
LEMMA AdvanceRecord ==
    ASSUME NEW u, NEW o \in Operations(u), o.pc \in {"publish", "save", "output"},
           NEW pc \in {"save", "handover", "file"}
    PROVE  /\ [o EXCEPT !.pc = pc] \in Operations(u)
           /\ [o EXCEPT !.pc = pc].pc = pc
           /\ [o EXCEPT !.pc = pc].w = o.w /\ [o EXCEPT !.pc = pc].out = o.out
<1>1. o \in [pc : {"publish", "save", "handover", "output", "file"}, w : Wallets(u),
              out : SUBSET Tokens]
  BY DEF Operations, Idle
<1>2. QED
  BY <1>1 DEF Operations

LEMMA OneWallet ==
    ASSUME NEW W, DOMAIN W = Users, \A v \in Users : W[v] \in Wallets(v),
           NEW u \in Users, NEW w \in Wallets(u)
    PROVE  /\ DOMAIN [W EXCEPT ![u] = w] = Users
           /\ \A v \in Users : /\ [W EXCEPT ![u] = w][v] \in Wallets(v)
                                /\ [W EXCEPT ![u] = w][v] = IF v = u THEN w ELSE W[v]
OBVIOUS

LEMMA OperationType ==
    ASSUME TypeOK, NEW u \in Users, NEW s \in Slots, Operation(u, s)
    PROVE  TypeOK'
<1> DEFINE o == op[u][s]
<1>1. /\ u \in Owners /\ o \in Operations(u) /\ Stored(u) \in Wallets(u)
      /\ DOMAIN app = Users /\ DOMAIN disk = Users
      /\ \A v \in Users : app[v] \in Wallets(v) /\ disk[v] \in Wallets(v)
  BY TypeOfUser DEF TypeOK
<1>2. Idle \in Operations(u)
  BY DEF Operations
<1>3. CASE Begin(u, s)
  <2> DEFINE x == [pc |-> "open", w |-> Stored(u), sig |-> ops[u] + 1]
  <2>1. ops \in [Users -> Nat] /\ ops[u] + 1 \in Nat
    BY DEF TypeOK
  <2>2. x \in Operations(u)
    BY <1>1, <2>1, OperationRecords
  <2>3. op' = [op EXCEPT ![u][s] = x] /\ ops' = [ops EXCEPT ![u] = @ + 1]
    BY <1>3 DEF Begin
  <2> HIDE DEF x
  <2>4. OperationsOK'
    BY <2>2, <2>3, OneOperation
  <2>5. ops' \in [Users -> Nat]
    BY <2>1, <2>3
  <2>6. QED
    BY <1>3, <2>4, <2>5 DEF Begin, aside, TypeOK, OperationsOK
<1>4. CASE Publish(u, s)
  <2>1. o.pc = "publish" /\ op' = [op EXCEPT ![u][s] = [o EXCEPT !.pc = "save"]]
    BY <1>4 DEF Publish
  <2>2. o.w \in Wallets(u)
    BY <1>1, <2>1, TypeOfOperation
  <2>3. [o EXCEPT !.pc = "save"] \in Operations(u)
    BY <1>1, <2>1, AdvanceRecord
  <2>4. OperationsOK'
    BY <2>1, <2>3, OneOperation
  <2>5. DOMAIN app' = Users /\ \A v \in Users : app'[v] \in Wallets(v)
    BY <1>1, <1>4, <2>2, OneWallet DEF Publish
  <2>6. QED
    BY <1>4, <2>4, <2>5 DEF Publish, aside, TypeOK, OperationsOK
<1>5. CASE Save(u, s)
  <2>1. o.pc = "save" /\ op' = [op EXCEPT ![u][s] = [o EXCEPT !.pc = "handover"]]
    BY <1>5 DEF Save
  <2>2. o.w \in Wallets(u)
    BY <1>1, <2>1, TypeOfOperation
  <2>3. [o EXCEPT !.pc = "handover"] \in Operations(u)
    BY <1>1, <2>1, AdvanceRecord
  <2>4. OperationsOK'
    BY <2>1, <2>3, OneOperation
  <2>5. DOMAIN disk' = Users /\ \A v \in Users : disk'[v] \in Wallets(v)
    BY <1>1, <1>5, <2>2, OneWallet DEF Save
  <2>6. QED
    BY <1>5, <2>4, <2>5 DEF Save, aside, TypeOK, OperationsOK
<1>6. CASE HandOver(u, s)
  <2>1. o.pc = "handover" /\ op' = [op EXCEPT ![u][s] = Idle]
    BY <1>6 DEF HandOver, Fail
  <2>2. o.out \in SUBSET Tokens
    BY <1>1, <2>1, TypeOfOperation
  <2>3. OperationsOK'
    BY <1>2, <2>1, OneOperation
  <2>4. wire' \in SUBSET Tokens /\ handed' \in SUBSET Tokens
    BY <1>6, <2>2 DEF HandOver, Leaves, TypeOK
  <2>5. QED
    BY <1>6, <2>3, <2>4 DEF HandOver, aside, TypeOK, OperationsOK
<1>7. CASE Output(u, s)
  <2>1. o.pc = "output" /\ op' = [op EXCEPT ![u][s] = [o EXCEPT !.pc = "file"]]
    BY <1>7 DEF Output
  <2>2. o.out \in SUBSET Tokens
    BY <1>1, <2>1, TypeOfOperation
  <2>3. [o EXCEPT !.pc = "file"] \in Operations(u)
    BY <1>1, <2>1, AdvanceRecord
  <2>4. OperationsOK'
    BY <2>1, <2>3, OneOperation
  <2>5. wire' \in SUBSET Tokens /\ handed' \in SUBSET Tokens
    BY <1>7, <2>2 DEF Output, Leaves, TypeOK
  <2>6. QED
    BY <1>7, <2>4, <2>5 DEF Output, aside, TypeOK, OperationsOK
<1>8. CASE SaveFile(u, s)
  <2>1. o.pc = "file" /\ op' = [op EXCEPT ![u][s] = Idle]
    BY <1>8 DEF SaveFile, Fail
  <2>2. o.w \in Wallets(u)
    BY <1>1, <2>1, TypeOfOperation
  <2>3. OperationsOK'
    BY <1>2, <2>1, OneOperation
  <2>4. DOMAIN disk' = Users /\ \A v \in Users : disk'[v] \in Wallets(v)
    BY <1>1, <1>8, <2>2, OneWallet DEF SaveFile
  <2>5. QED
    BY <1>8, <2>3, <2>4 DEF SaveFile, aside, TypeOK, OperationsOK
<1>9. ASSUME NEW v \in Wallets(u), Ended(u, s, v) PROVE OperationsOK'
  <2>1. CASE Fail(u, s)
    BY <1>2, <2>1, OneOperation DEF Fail
  <2>2. CASE ~ Fail(u, s)
    <3>1. PICK x \in Operations(u) : op' = [op EXCEPT ![u][s] = x]
      BY <1>9, <2>2, EndedRecord
    <3>2. QED
      BY <3>1, OneOperation
  <2>3. QED
    BY <2>1, <2>2
<1>10. {wire, handed, tracked} \subseteq SUBSET Tokens /\ minted \in 0 .. MaxId
  BY DEF TypeOK
<1>11. ASSUME NEW v, Worked(u, s, v) PROVE TypeOK'
  <2>1. v \in Wallets(u) /\ Ended(u, s, v)
    BY <1>11 DEF Worked, Keeps
  <2>2. OperationsOK'
    BY <1>9, <2>1
  <2>3. Range(Copy(u, s).tokens) \subseteq Tokens
    BY <1>11, TypeOfCopy, WalletFields DEF Worked
  <2>4. /\ wire' \in SUBSET Tokens /\ tracked' \in SUBSET Tokens /\ minted' \in 0 .. MaxId
    BY <1>10, <1>11, <2>3 DEF Worked
  <2>5. UNCHANGED <<kind, app, disk, handed, now, unsaved, swapper, poisoned, swap, swaps, ops>>
    BY <1>11 DEF Worked, Elsewhere, aside
  <2>6. QED
    BY <2>2, <2>4, <2>5, TypeCarries
<1>12. ASSUME Withdrew(u, s) PROVE TypeOK'
  <2>1. PICK made, new : WithdrewTokens(u, s, made, new)
    BY <1>12, WithdrewEffect
  <2>2. OperationsOK'
    <3>1. CASE Fail(u, s)
      BY <1>2, <3>1, OneOperation DEF Fail
    <3>2. ASSUME NEW v, Joined(u, Copy(u, s), v, new), Succeed(u, s, v) PROVE OperationsOK'
      BY <1>9, <3>2 DEF Joined, Ended
    <3>3. QED
      BY <2>1, <3>1, <3>2 DEF WithdrewTokens
  <2>3. /\ wire' \in SUBSET Tokens /\ tracked' \in SUBSET Tokens /\ minted' \in 0 .. MaxId
    <3>1. minted' \in minted .. MaxId /\ MaxId \in Nat
      BY <2>1, WalletNetworkAssumption DEF WithdrewTokens
    <3>2. minted' \in 0 .. MaxId
      BY <1>10, <3>1
    <3>3. QED
      BY <1>10, <2>1, <3>2 DEF WithdrewTokens
  <2>4. UNCHANGED <<kind, app, disk, handed, now, unsaved, swapper, poisoned, swap, swaps, ops>>
    BY <2>1 DEF WithdrewTokens, Elsewhere, aside
  <2>5. QED
    BY <2>2, <2>3, <2>4, TypeCarries
<1>13. ASSUME Received(u, s) PROVE TypeOK'
  <2>1. PICK token : ReceivedToken(u, s, token)
    BY <1>13, ReceivedEffect
  <2>2. PICK v : Joined(u, Copy(u, s), v, {token}) /\ Succeed(u, s, v)
    BY <2>1 DEF ReceivedToken
  <2>3. OperationsOK'
    BY <1>9, <2>2 DEF Joined, Ended
  <2>4. /\ wire' \in SUBSET Tokens /\ tracked' \in SUBSET Tokens /\ minted' \in 0 .. MaxId
    BY <1>10, <2>1 DEF ReceivedToken
  <2>5. UNCHANGED <<kind, app, disk, handed, now, unsaved, swapper, poisoned, swap, swaps, ops>>
    BY <2>1 DEF ReceivedToken, Elsewhere, aside
  <2>6. QED
    BY <2>3, <2>4, <2>5, TypeCarries
<1>14. QED
  BY <1>3, <1>4, <1>5, <1>6, <1>7, <1>8, <1>11, <1>12, <1>13, OperationEffect DEF Lifecycle

LEMMA CrashType ==
    ASSUME TypeOK, NEW u \in Users, Crash(u)
    PROVE  TypeOK'
<1>1. /\ DOMAIN app = Users /\ disk[u] \in Wallets(u)
      /\ \A v \in Users : app[v] \in Wallets(v)
  BY DEF TypeOK
<1>2. DOMAIN app' = Users /\ \A v \in Users : app'[v] \in Wallets(v)
  BY <1>1, OneWallet DEF Crash
<1>3. OperationsOK'
  <2>1. DOMAIN op = Users /\ \A v \in Users : op[v] \in [Slots -> Operations(v)]
    BY DEF TypeOK
  <2>2. op' = [op EXCEPT ![u] = [s \in Slots |-> Idle]]
    BY DEF Crash
  <2>3. [s \in Slots |-> Idle] \in [Slots -> Operations(u)]
    BY DEF Operations
  <2>4. QED
    BY <2>1, <2>2, <2>3 DEF OperationsOK
<1>4. unsaved' \subseteq 1 .. MaxId
  <2>1. ASSUME NEW t \in Printed(u) PROVE t.id \in 1 .. MaxId
    <3>1. PICK s \in Slots : op[u][s].pc = "file" /\ t \in op[u][s].out
      BY DEF Printed
    <3>2. op[u][s] \in Operations(u)
      BY DEF TypeOK
    <3>3. t \in Tokens
      BY <3>1, <3>2, TypeOfOperation
    <3>4. QED
      BY <3>3 DEF Tokens
  <2>2. unsaved' = unsaved \cup {t.id : t \in Printed(u)} /\ unsaved \subseteq 1 .. MaxId
    BY DEF Crash, TypeOK
  <2>3. QED
    BY <2>1, <2>2
<1>5. QED
  BY <1>2, <1>3, <1>4 DEF Crash, TypeOK, OperationsOK

\* A handler takes a step.
LEMMA OneHandler ==
    ASSUME TypeOK, NEW h \in Handlers, NEW x \in Swaps, Handle(h, x)
    PROVE  /\ swap' \in [Handlers -> Swaps]
           /\ \A g \in Handlers : swap'[g] = IF g = h THEN x ELSE swap[g]
BY DEF TypeOK, Handle

LEMMA SwapTokensType ==
    ASSUME TypeOK, NEW h \in Handlers, NEW token \in handed, SwapTokens(h, token)
    PROVE  /\ TypeOK' /\ tracked' = tracked \cup {token} /\ wire' = wire \ {token}
           /\ swap'[h].pc # "pop" /\ \A g \in Handlers : g # h => swap'[g] = swap[g]
<1>1. token \in Tokens
  BY DEF TypeOK
<1>2. tracked' = tracked \cup {token} /\ wire' = wire \ {token} /\ swaps' = swaps + 1
  BY DEF SwapTokens, ValidateTokens
<1> DEFINE x == IF Clean({token}) /\ CurrentTicket(token).owner = Swapper
                THEN [pc |-> "transfer", token |-> token] ELSE Idle
<1>3. x \in Swaps /\ x.pc # "pop"
  <2>1. [pc |-> "transfer", token |-> token] \in Swaps /\ Idle \in Swaps
    BY <1>1 DEF Swaps
  <2>2. Idle.pc # "pop" /\ [pc |-> "transfer", token |-> token].pc # "pop"
    BY DEF Idle
  <2>3. QED
    BY <2>1, <2>2
<1>4. Handle(h, x)
  BY DEF SwapTokens
<1> HIDE DEF x
<1>5. /\ swap' \in [Handlers -> Swaps]
      /\ \A g \in Handlers : swap'[g] = IF g = h THEN x ELSE swap[g]
  BY <1>3, <1>4, OneHandler
<1>6. TypeOK'
  BY <1>1, <1>2, <1>5 DEF TypeOK, SwapTokens, Clients
<1>7. QED
  BY <1>2, <1>3, <1>5, <1>6

\* A swap of a token of whole value pays at least one token, and every swap keeps
\* what the swapper has.
LEMMA SwapTransferType ==
    ASSUME TypeOK, NEW h \in Handlers, SwapTransfer(h)
    PROVE  /\ TypeOK' /\ Keeps(Swapper, swapper, swapper')
           /\ Len(swapper'.pending) >= Len(swapper.pending)
           /\ swap'[h].pc = "pop" /\ Value[swap[h].token.id] # 0 =>
                Len(swapper'.pending) >= Len(swapper.pending) + 1
           /\ \A g \in Handlers : g # h => swap'[g] = swap[g]
           /\ swap[h].pc = "transfer" /\ swap'[h].pc # "transfer"
<1> DEFINE token == swap[h].token
           amount == Value[token.id]
           r == TransferInner(swapper, amount, Sender(token), 0, swaps)
           x == IF r.ok THEN [pc |-> "pop"] ELSE Idle
<1>1. swap[h].pc = "transfer" /\ swapper' = r.w /\ Handle(h, x)
  BY DEF SwapTransfer
<1>2. token \in Tokens
  <2>1. swap[h] \in Swaps
    BY DEF TypeOK
  <2>2. QED
    BY <1>1, <2>1 DEF Swaps, Idle
<1> HIDE DEF token
<1>3. amount \in Nat /\ 0 \in 0 .. amount
  BY <1>2, TokenFields, WalletNetworkAssumption
<1>4. Sender(token) \in Tickets /\ Sender(token) # Malformed
  BY <1>2, SenderDecodes, TicketsDecode
<1>5. /\ swapper \in Wallets(Swapper) /\ Swapper \in Owners /\ swaps \in Nat
      /\ swapper.tickets # <<>>
  BY DEF TypeOK, Owners
<1> HIDE DEF amount
<1>6. /\ r.ok \in BOOLEAN /\ Keeps(Swapper, swapper, r.w) /\ r.w.tickets = swapper.tickets
      /\ Len(r.w.pending) >= Len(swapper.pending)
      /\ r.ok => Len(r.w.pending) = Len(swapper.pending) + amount
  BY <1>3, <1>4, <1>5, TransferInnerKeeps
<1> HIDE DEF r
<1>7. Len(swapper.pending) \in Nat
  BY <1>5, WalletFields
<1>8. r.ok /\ amount # 0 => Len(r.w.pending) >= Len(swapper.pending) + 1
  BY <1>3, <1>6, <1>7
<1>9. x \in Swaps /\ (~ r.ok => x.pc # "pop") /\ x.pc # "transfer"
  BY DEF Swaps, Idle
<1> HIDE DEF x
<1>10. /\ swap' \in [Handlers -> Swaps]
       /\ \A g \in Handlers : swap'[g] = IF g = h THEN x ELSE swap[g]
  BY <1>1, <1>9, OneHandler
<1>11. swapper' \in Wallets(Swapper) /\ swapper'.tickets # <<>>
  BY <1>1, <1>5, <1>6 DEF Keeps
<1>12. TypeOK'
  BY <1>10, <1>11 DEF TypeOK, SwapTransfer, Clients
<1>13. amount = Value[swap[h].token.id]
  BY DEF amount, token
<1>14. QED
  BY <1>1, <1>6, <1>8, <1>9, <1>10, <1>12, <1>13

\* What a pop does when there is something to pop.
LEMMA SwapPopType ==
    ASSUME TypeOK, NEW h \in Handlers, SwapPop(h)
    PROVE  /\ TypeOK'
           /\ swap[h].pc = "pop" /\ swap'[h].pc # "pop"
           /\ \A g \in Handlers : g # h => swap'[g] = swap[g]
           /\ swapper.pending = <<>> => UNCHANGED <<swapper, wire>>
           /\ swapper.pending # <<>> =>
                /\ poisoned' = poisoned
                /\ swapper'.tokens = swapper.tokens
                /\ swapper'.pending = Front(swapper.pending)
                /\ Len(swapper'.pending) = Len(swapper.pending) - 1
                /\ \A i \in DOMAIN swapper'.pending :
                      i \in DOMAIN swapper.pending /\ i # Len(swapper.pending)
                      /\ swapper'.pending[i] = swapper.pending[i]
                /\ Len(swapper.pending) \in DOMAIN swapper.pending
                /\ wire' = wire \cup {swapper.pending[Len(swapper.pending)]}
<1>1. swap[h].pc = "pop" /\ Handle(h, Idle)
  BY DEF SwapPop
<1>2. Idle \in Swaps /\ Idle.pc # "pop"
  BY DEF Swaps, Idle
<1>3. /\ swap' \in [Handlers -> Swaps]
      /\ \A g \in Handlers : swap'[g] = IF g = h THEN Idle ELSE swap[g]
  BY <1>1, <1>2, OneHandler
<1>4. /\ swapper \in Wallets(Swapper) /\ swapper.tickets # <<>>
      /\ wire \in SUBSET Tokens /\ poisoned \in BOOLEAN
  BY DEF TypeOK
<1>5. CASE swapper.pending = <<>>
  <2>1. poisoned' = TRUE /\ UNCHANGED <<swapper, wire>>
    BY <1>5 DEF SwapPop
  <2>2. TypeOK'
    BY <1>3, <2>1 DEF TypeOK, SwapPop, Clients
  <2>3. QED
    BY <1>1, <1>2, <1>3, <1>5, <2>1, <2>2
<1>6. CASE swapper.pending # <<>>
  <2> DEFINE q == swapper.pending
             n == Len(q)
             f == Front(q)
  <2>1. /\ swapper' = [swapper EXCEPT !.pending = f]
        /\ wire' = wire \cup {q[n]} /\ poisoned' = poisoned
    BY <1>6 DEF SwapPop, Last
  <2>2. q \in Seq(Tokens) /\ n \in Nat \ {0} /\ DOMAIN q = 1 .. n
    BY <1>4, <1>6, WalletFields, EmptySeq
  <2>3. \A i \in 1 .. n - 1 : i \in 1 .. n /\ q[i] \in Tokens
    <3>1. \A i \in 1 .. n - 1 : i \in 1 .. n
      BY <2>2
    <3>2. QED
      BY <2>2, <3>1, ElementOfSeq
  <2> HIDE DEF q
  <2>4. /\ f \in Seq(Tokens) /\ Len(f) = n - 1 /\ DOMAIN f = 1 .. n - 1
        /\ \A i \in 1 .. n - 1 : f[i] = q[i]
    BY <2>2, <2>3 DEF Front
  <2>5. n \in DOMAIN q /\ q[n] \in Tokens
    <3>1. n \in 1 .. Len(q)
      BY <2>2
    <3>2. QED
      BY <2>2, <3>1, ElementOfSeq
  <2> HIDE DEF n, f
  <2>6. /\ swapper' \in Wallets(Swapper) /\ swapper'.pending = f
        /\ swapper'.tokens = swapper.tokens /\ swapper'.tickets = swapper.tickets
    BY <1>4, <2>1, <2>4 DEF Wallets
  <2>7. wire' \in SUBSET Tokens
    BY <1>4, <2>1, <2>5
  <2>8. TypeOK'
    BY <1>3, <1>4, <2>1, <2>6, <2>7 DEF TypeOK, SwapPop, Clients
  <2>9. \A i \in DOMAIN f : i \in DOMAIN q /\ i # n /\ f[i] = q[i]
    BY <2>2, <2>4
  <2>10. QED
    BY <1>1, <1>2, <1>3, <1>6, <2>1, <2>2, <2>4, <2>5, <2>6, <2>8, <2>9 DEF q, n, f
<1>7. QED
  BY <1>5, <1>6

LEMMA SwapPanicType ==
    ASSUME TypeOK, NEW h \in Handlers, SwapPanic(h)
    PROVE  /\ TypeOK' /\ swap'[h] = Idle
           /\ \A g \in Handlers : g # h => swap'[g] = swap[g]
<1>1. Idle \in Swaps /\ Handle(h, Idle)
  BY DEF Swaps, SwapPanic
<1>2. /\ swap' \in [Handlers -> Swaps]
      /\ \A g \in Handlers : swap'[g] = IF g = h THEN Idle ELSE swap[g]
  BY <1>1, OneHandler
<1>3. TypeOK'
  BY <1>2 DEF TypeOK, SwapPanic, Clients
<1>4. QED
  BY <1>2, <1>3

LEMMA TypeNext == TypeOK /\ [Next]_vars => TypeOK'
<1> SUFFICES ASSUME TypeOK, [Next]_vars PROVE TypeOK'
  OBVIOUS
<1>1. ASSUME NEW u \in Users, Crash(u) PROVE TypeOK'
  BY <1>1, CrashType
<1>2. ASSUME NEW u \in Users, NEW s \in Slots, Operation(u, s) PROVE TypeOK'
  BY <1>2, OperationType
<1>3. ASSUME NEW h \in Handlers, NEW token \in handed, SwapTokens(h, token) PROVE TypeOK'
  BY <1>3, SwapTokensType
<1>4. ASSUME NEW h \in Handlers, SwapTransfer(h) PROVE TypeOK'
  BY <1>4, SwapTransferType
<1>5. ASSUME NEW h \in Handlers, SwapPop(h) PROVE TypeOK'
  BY <1>5, SwapPopType
<1>5a. ASSUME NEW h \in Handlers, SwapPanic(h) PROVE TypeOK'
  BY <1>5a, SwapPanicType
<1>6. CASE Tick
  <2>1. now' \in Nat \ {0}
    BY <1>6, WalletNetworkAssumption DEF Tick, TypeOK
  <2>2. QED
    BY <1>6, <2>1 DEF Tick, TypeOK, aside
<1>7. CASE UNCHANGED vars
  BY <1>7 DEF vars, TypeOK
<1>8. QED
  BY <1>1, <1>2, <1>3, <1>4, <1>5, <1>5a, <1>6, <1>7 DEF Next, Rest

\* Whatever transfers, self transfers, withdrawals, refreshes, crashes and swaps
\* make of them, wallets in memory, on disk and in the hands of an operation hold
\* whole tokens and tickets that decode, and the swapper keeps a ticket to be paid
\* to (src/src/wallet/src/lib.rs, src/src/swapper/src/server.rs).
THEOREM TypesHold == Spec => []TypeOK
BY TypeInit, TypeNext, PTL DEF Spec
-----------------------------------------------------------------------------
(***************************************************************************)
(* The swapper: a token is pending for every handler that is about to pop, *)
(* unless a token without whole value was sent to it.                      *)
(***************************************************************************)
Popping == {h \in Handlers : swap[h].pc = "pop"}

PopsCovered == /\ ~ poisoned
               /\ IsFiniteSet(Popping) /\ Cardinality(Popping) <= Len(swapper.pending)

\* What a handler transfers for was handed to the swapper.
SwapsHanded ==
    \A h \in Handlers :
       swap[h].pc = "transfer" => /\ swap[h].token \in handed
                                  /\ CurrentTicket(swap[h].token).owner = Swapper

LEMMA PopsCoveredStays ==
    ASSUME PopsCovered, UNCHANGED <<swapper, poisoned>>, Popping' = Popping
    PROVE  PopsCovered'
BY DEF PopsCovered

\* What left a client has left it for good.
LEMMA HandedGrows == TypeOK /\ [Next]_vars => handed \subseteq handed'
<1> SUFFICES ASSUME TypeOK, [Next]_vars PROVE handed \subseteq handed'
  OBVIOUS
<1>1. ASSUME NEW u \in Users, NEW s \in Slots, Operation(u, s) PROVE handed \subseteq handed'
  <2>1. CASE Lifecycle(u, s)
    BY <2>1 DEF Lifecycle, Begin, Publish, Save, HandOver, Output, SaveFile, Leaves
  <2>2. CASE Withdrew(u, s)
    BY <2>2, WithdrewEffect DEF WithdrewTokens, Elsewhere
  <2>3. CASE Received(u, s)
    BY <2>3, ReceivedEffect DEF ReceivedToken, Elsewhere
  <2>4. ASSUME NEW v, Worked(u, s, v) PROVE handed \subseteq handed'
    BY <2>4 DEF Worked, Elsewhere
  <2>5. QED
    BY <1>1, <2>1, <2>2, <2>3, <2>4, OperationEffect
<1>2. ASSUME NEW u \in Users, Crash(u) PROVE handed \subseteq handed'
  BY <1>2 DEF Crash
<1>3. ASSUME NEW h \in Handlers, \/ \E token \in handed : SwapTokens(h, token)
                                 \/ SwapTransfer(h) \/ SwapPop(h) \/ SwapPanic(h)
      PROVE  handed \subseteq handed'
  BY <1>3 DEF SwapTokens, SwapTransfer, SwapPop, SwapPanic, Clients
<1>4. CASE Tick \/ UNCHANGED vars
  BY <1>4 DEF Tick, vars
<1>5. QED
  BY <1>1, <1>2, <1>3, <1>4 DEF Next, Rest

\* What a killed command line did not save stays so.
LEMMA UnsavedGrows == TypeOK /\ [Next]_vars => unsaved \subseteq unsaved'
<1> SUFFICES ASSUME TypeOK, [Next]_vars PROVE unsaved \subseteq unsaved'
  OBVIOUS
<1>1. ASSUME NEW u \in Users, NEW s \in Slots, Operation(u, s) PROVE unsaved' = unsaved
  <2>1. CASE Lifecycle(u, s)
    BY <2>1 DEF Lifecycle, Begin, Publish, Save, HandOver, Output, SaveFile, aside
  <2>2. CASE Withdrew(u, s)
    BY <2>2, WithdrewEffect DEF WithdrewTokens, Elsewhere, aside
  <2>3. CASE Received(u, s)
    BY <2>3, ReceivedEffect DEF ReceivedToken, Elsewhere, aside
  <2>4. ASSUME NEW v, Worked(u, s, v) PROVE unsaved' = unsaved
    BY <2>4 DEF Worked, Elsewhere, aside
  <2>5. QED
    BY <1>1, <2>1, <2>2, <2>3, <2>4, OperationEffect
<1>2. ASSUME NEW u \in Users, Crash(u) PROVE unsaved \subseteq unsaved'
  BY <1>2 DEF Crash
<1>3. ASSUME NEW h \in Handlers, \/ \E token \in handed : SwapTokens(h, token)
                                 \/ SwapTransfer(h) \/ SwapPop(h) \/ SwapPanic(h)
      PROVE  unsaved' = unsaved
  BY <1>3 DEF SwapTokens, SwapTransfer, SwapPop, SwapPanic, Clients
<1>4. CASE Tick \/ UNCHANGED vars
  BY <1>4 DEF Tick, aside, vars
<1>5. QED
  BY <1>1, <1>2, <1>3, <1>4 DEF Next, Rest

LEMMA SwapsHandedNext == TypeOK /\ SwapsHanded /\ [Next]_vars => SwapsHanded'
<1> SUFFICES ASSUME TypeOK, SwapsHanded, [Next]_vars PROVE SwapsHanded'
  OBVIOUS
<1>1. handed \subseteq handed'
  BY HandedGrows
<1>2. CASE swap' = swap
  BY <1>1, <1>2 DEF SwapsHanded
<1>3. ASSUME NEW h \in Handlers, \A g \in Handlers : g # h => swap'[g] = swap[g],
             swap'[h].pc = "transfer" => /\ swap'[h].token \in handed
                                         /\ CurrentTicket(swap'[h].token).owner = Swapper
      PROVE  SwapsHanded'
  <2> SUFFICES ASSUME NEW g \in Handlers, swap'[g].pc = "transfer"
               PROVE  /\ swap'[g].token \in handed'
                      /\ CurrentTicket(swap'[g].token).owner = Swapper
    BY DEF SwapsHanded
  <2>1. CASE g = h
    BY <1>1, <1>3, <2>1
  <2>2. CASE g # h
    BY <1>1, <1>3, <2>2 DEF SwapsHanded
  <2>3. QED
    BY <2>1, <2>2
<1>4. ASSUME NEW u \in Users, NEW s \in Slots, Operation(u, s) PROVE swap' = swap
  <2>1. CASE Lifecycle(u, s)
    BY <2>1 DEF Lifecycle, Begin, Publish, Save, HandOver, Output, SaveFile, aside
  <2>2. CASE Withdrew(u, s)
    BY <2>2, WithdrewEffect DEF WithdrewTokens, Elsewhere, aside
  <2>3. CASE Received(u, s)
    BY <2>3, ReceivedEffect DEF ReceivedToken, Elsewhere, aside
  <2>4. ASSUME NEW v, Worked(u, s, v) PROVE swap' = swap
    BY <2>4 DEF Worked, Elsewhere, aside
  <2>5. QED
    BY <1>4, <2>1, <2>2, <2>3, <2>4, OperationEffect
<1>5. ASSUME NEW h \in Handlers, NEW token \in handed, SwapTokens(h, token)
      PROVE  SwapsHanded'
  <2> DEFINE x == IF Clean({token}) /\ CurrentTicket(token).owner = Swapper
                  THEN [pc |-> "transfer", token |-> token] ELSE Idle
  <2>1. x.pc = "transfer" => x.token = token /\ CurrentTicket(token).owner = Swapper
    BY DEF Idle
  <2>2. Handle(h, x)
    BY <1>5 DEF SwapTokens
  <2> HIDE DEF x
  <2>3. swap'[h] = x /\ \A g \in Handlers : g # h => swap'[g] = swap[g]
    BY <2>2 DEF Handle, TypeOK
  <2>4. QED
    BY <1>3, <2>1, <2>3
<1>6. ASSUME NEW h \in Handlers, SwapTransfer(h) PROVE SwapsHanded'
  BY <1>3, <1>6, SwapTransferType
<1>7. ASSUME NEW h \in Handlers, SwapPop(h) PROVE SwapsHanded'
  <2>1. swap'[h] = Idle /\ \A g \in Handlers : g # h => swap'[g] = swap[g]
    BY <1>7 DEF SwapPop, Handle, TypeOK
  <2>2. QED
    BY <1>3, <2>1 DEF Idle
<1>8. ASSUME NEW h \in Handlers, SwapPanic(h) PROVE SwapsHanded'
  BY <1>3, <1>8, SwapPanicType DEF Idle
<1>9. ASSUME (\E u \in Users : Crash(u)) \/ Tick \/ UNCHANGED vars PROVE swap' = swap
  BY <1>9 DEF Crash, Tick, aside, vars
<1>10. QED
  BY <1>2, <1>4, <1>5, <1>6, <1>7, <1>8, <1>9 DEF Next, Rest

LEMMA PopsCoveredNext ==
    TypeOK /\ SwapsHanded /\ PopsCovered /\ [Next]_vars => WorthlessPaid' \/ PopsCovered'
<1> SUFFICES ASSUME TypeOK, SwapsHanded, PopsCovered, [Next]_vars, ~ WorthlessPaid'
             PROVE  PopsCovered'
  OBVIOUS
<1>1. Len(swapper.pending) \in Nat
  <2>1. swapper \in Wallets(Swapper)
    BY DEF TypeOK
  <2>2. QED
    BY <2>1, WalletFields
<1>2. IsFiniteSet(Popping) /\ Cardinality(Popping) <= Len(swapper.pending)
      /\ Cardinality(Popping) \in Nat
  BY FS_CardinalityType DEF PopsCovered
<1>3. CASE UNCHANGED <<swapper, poisoned, swap>>
  BY <1>3, PopsCoveredStays DEF Popping
<1>4. ASSUME NEW u \in Users, NEW s \in Slots, Operation(u, s) PROVE PopsCovered'
  <2>1. CASE Lifecycle(u, s)
    BY <1>3, <2>1 DEF Lifecycle, Begin, Publish, Save, HandOver, Output, SaveFile, aside
  <2>2. ASSUME Withdrew(u, s) PROVE PopsCovered'
    BY <1>3, <2>2, WithdrewEffect DEF WithdrewTokens, Elsewhere, aside
  <2>3. ASSUME Received(u, s) PROVE PopsCovered'
    BY <1>3, <2>3, ReceivedEffect DEF ReceivedToken, Elsewhere, aside
  <2>4. ASSUME NEW v, Worked(u, s, v) PROVE PopsCovered'
    BY <1>3, <2>4 DEF Worked, Elsewhere, aside
  <2>5. QED
    BY <1>4, <2>1, <2>2, <2>3, <2>4, OperationEffect
<1>5. ASSUME NEW u \in Users, Crash(u) PROVE PopsCovered'
  BY <1>3, <1>5 DEF Crash
<1>6. ASSUME NEW h \in Handlers, NEW token \in handed, SwapTokens(h, token)
      PROVE  PopsCovered'
  <2>1. swap'[h].pc # "pop" /\ \A g \in Handlers : g # h => swap'[g] = swap[g]
    BY <1>6, SwapTokensType
  <2>2. swap[h].pc # "pop"
    BY <1>6 DEF SwapTokens, Idle
  <2>3. Popping' = Popping
    BY <2>1, <2>2 DEF Popping
  <2>4. QED
    BY <1>6, <2>3, PopsCoveredStays DEF SwapTokens
<1>7. ASSUME NEW h \in Handlers, SwapTransfer(h) PROVE PopsCovered'
  <2>1. /\ TypeOK'
        /\ Len(swapper'.pending) >= Len(swapper.pending)
        /\ swap'[h].pc = "pop" /\ Value[swap[h].token.id] # 0 =>
             Len(swapper'.pending) >= Len(swapper.pending) + 1
        /\ \A g \in Handlers : g # h => swap'[g] = swap[g]
        /\ swap[h].pc = "transfer"
    BY <1>7, SwapTransferType
  <2>2. Len(swapper'.pending) \in Nat
    <3>1. swapper' \in Wallets(Swapper)
      BY <2>1 DEF TypeOK
    <3>2. QED
      BY <3>1, WalletFields
  <2>3. poisoned' = poisoned
    BY <1>7 DEF SwapTransfer
  <2>3a. Value[swap[h].token.id] # 0
    <3>1. swap[h].token \in handed /\ CurrentTicket(swap[h].token).owner = Swapper
      BY <2>1 DEF SwapsHanded
    <3>2. handed' = handed
      BY <1>7 DEF SwapTransfer, Clients
    <3>3. QED
      BY <3>1, <3>2 DEF WorthlessPaid
  <2>4. CASE swap'[h].pc = "pop"
    <3>1. Popping' = Popping \cup {h} /\ h \notin Popping
      BY <2>1, <2>4 DEF Popping
    <3>2. IsFiniteSet(Popping') /\ Cardinality(Popping') = Cardinality(Popping) + 1
      BY <1>2, <3>1, FS_AddElement
    <3>3. Cardinality(Popping') <= Len(swapper'.pending)
      BY <1>1, <1>2, <2>1, <2>2, <2>3a, <2>4, <3>2
    <3>4. QED
      BY <2>3, <3>2, <3>3 DEF PopsCovered
  <2>5. CASE swap'[h].pc # "pop"
    <3>1. Popping' = Popping
      BY <2>1, <2>5 DEF Popping
    <3>2. Cardinality(Popping) <= Len(swapper'.pending)
      BY <1>1, <1>2, <2>1, <2>2
    <3>3. QED
      BY <1>2, <2>3, <3>1, <3>2 DEF PopsCovered
  <2>6. QED
    BY <2>4, <2>5
<1>8. ASSUME NEW h \in Handlers, SwapPop(h) PROVE PopsCovered'
  <2>1. /\ swap[h].pc = "pop" /\ swap'[h].pc # "pop"
        /\ \A g \in Handlers : g # h => swap'[g] = swap[g]
        /\ swapper.pending # <<>> =>
             poisoned' = poisoned /\ Len(swapper'.pending) = Len(swapper.pending) - 1
    BY <1>8, SwapPopType
  <2>2. Popping' = Popping \ {h} /\ h \in Popping
    BY <2>1 DEF Popping
  <2>3. IsFiniteSet(Popping') /\ Cardinality(Popping') = Cardinality(Popping) - 1
    BY <1>2, <2>2, FS_RemoveElement
  <2>4. swapper.pending # <<>>
    <3>1. Cardinality(Popping) # 0
      BY <1>2, <2>2, FS_EmptySet
    <3>2. Len(swapper.pending) # 0
      BY <1>1, <1>2, <3>1
    <3>3. QED
      BY <3>2
  <2>5. Cardinality(Popping') <= Len(swapper'.pending)
    BY <1>1, <1>2, <2>1, <2>3, <2>4
  <2>6. QED
    BY <2>1, <2>3, <2>4, <2>5 DEF PopsCovered
<1>8a. ASSUME NEW h \in Handlers, SwapPanic(h) PROVE FALSE
  BY <1>8a DEF SwapPanic, PopsCovered
<1>9. CASE Tick
  BY <1>3, <1>9 DEF Tick, aside
<1>10. CASE UNCHANGED vars
  BY <1>3, <1>10 DEF vars
<1>11. QED
  BY <1>4, <1>5, <1>6, <1>7, <1>8, <1>8a, <1>9, <1>10 DEF Next, Rest

LEMMA PopsCoveredInit == Init => SwapsHanded /\ PopsCovered
<1> SUFFICES ASSUME Init PROVE SwapsHanded /\ PopsCovered
  OBVIOUS
<1>1. Popping = {}
  BY DEF Init, Popping, Idle
<1>2. Len(swapper.pending) \in Nat
  <2>1. swapper \in Wallets(Swapper)
    BY TypeInit DEF TypeOK
  <2>2. QED
    BY <2>1, WalletFields
<1>3. IsFiniteSet(Popping) /\ Cardinality(Popping) <= Len(swapper.pending)
  BY <1>1, <1>2, FS_EmptySet
<1>4. QED
  BY <1>3 DEF Init, PopsCovered, SwapsHanded, Idle

SwapperInv == SwapsHanded /\ (WorthlessPaid \/ PopsCovered)

\* However many swap requests are handled at once, and however often they pay with
\* the same token, a handler that has transferred tokens of the swapper finds one to
\* pop.  pop().unwrap() in swap_tokens_impl panics with the wallet's lock held only
\* if a token without whole value was sent to the swapper, for which transfer(0) is
\* true with nothing pending (src/src/swapper/src/server.rs,
\* src/src/wallet/src/lib.rs).
THEOREM SwapperNeverPoisoned == Spec => []SwapperNotPoisoned
<1>1. Init => TypeOK /\ SwapperInv
  BY TypeInit, PopsCoveredInit DEF SwapperInv
<1>2. TypeOK /\ SwapperInv /\ [Next]_vars => (TypeOK /\ SwapperInv)'
  <2> SUFFICES ASSUME TypeOK, SwapperInv, [Next]_vars PROVE TypeOK' /\ SwapperInv'
    OBVIOUS
  <2>1. WorthlessPaid => WorthlessPaid'
    BY HandedGrows DEF WorthlessPaid
  <2>2. QED
    BY <2>1, TypeNext, SwapsHandedNext, PopsCoveredNext DEF SwapperInv
<1>3. TypeOK /\ SwapperInv => SwapperNotPoisoned
  BY DEF SwapperInv, PopsCovered, SwapperNotPoisoned
<1>4. QED
  BY <1>1, <1>2, <1>3, PTL DEF Spec
-----------------------------------------------------------------------------
(***************************************************************************)
(* Custody: H[p] are the tokens of an owner p, W those on the wire, S those *)
(* that others have seen, m the number of tokens minted.  Nobody has what  *)
(* another has, and what somebody has is the latest version of it, but for *)
(* the ids of R.                                                           *)
(***************************************************************************)
Newest(R, A, S) == \A x \in A, y \in S : x.id = y.id => Later(x, y) \/ x.id \in R

Numbered(R, A, m) == \A x \in A : x.id <= m \/ x.id \in R

Comparable(R, S) ==
    \A x, y \in S : x.id = y.id => Later(x, y) \/ Later(y, x) \/ x.id \in R

Custody(R, H, W, S, m) ==
    /\ \A p, q \in Owners : p # q => Apart(R, H[p], H[q])
    /\ \A p \in Owners : Apart(R, H[p], W) /\ Numbered(R, H[p], m) /\ Newest(R, H[p], S)
    /\ OnePerId(R, W) /\ Numbered(R, W, m) /\ Newest(R, W, S)
    /\ Numbered(R, S, m) /\ Comparable(R, S)

\* The sets of tokens that custody is about.
CustodyType(H, W, S, m) ==
    /\ \A p \in Owners : H[p] \in SUBSET Tokens
    /\ W \in SUBSET Tokens /\ S \in SUBSET Tokens /\ m \in Nat

\* All owners but one have what they had.
OnlyChange(p, H, G) == \A q \in Owners : q # p => G[q] = H[q]

LEMMA DerivedNewest ==
    ASSUME NEW R, NEW A \in SUBSET Tokens, NEW B \in SUBSET Tokens, NEW S \in SUBSET Tokens,
           Derived(A, B), Newest(R, B, S)
    PROVE  Newest(R, A, S)
<1> SUFFICES ASSUME NEW x \in A, NEW y \in S, x.id = y.id, x.id \notin R PROVE Later(x, y)
  BY DEF Newest
<1>1. PICK z \in B : Later(x, z)
  BY DEF Derived
<1>2. z.id = y.id /\ z.id \notin R
  BY <1>1 DEF Later
<1>3. Later(z, y)
  BY <1>2 DEF Newest
<1>4. QED
  BY <1>1, <1>3, LaterStill

LEMMA DerivedNumbered ==
    ASSUME NEW R, NEW A, NEW B, NEW m, Derived(A, B), Numbered(R, B, m)
    PROVE  Numbered(R, A, m)
BY DEF Derived, Numbered, Later

\* An owner works on its tokens, and may show some as they are.
LEMMA CustodyWorks ==
    ASSUME NEW R, NEW H, NEW W, NEW S, NEW m, Custody(R, H, W, S, m), CustodyType(H, W, S, m),
           NEW p \in Owners, NEW G, OnlyChange(p, H, G), G[p] \in SUBSET Tokens,
           Derived(G[p], H[p]),
           NEW shown, shown \subseteq H[p], OnePerId(R, shown), Newest(R, G[p], shown)
    PROVE  Custody(R, G, W, S \cup shown, m)
<1>1. /\ H[p] \in SUBSET Tokens /\ W \in SUBSET Tokens /\ S \in SUBSET Tokens
      /\ \A q \in Owners : q # p => G[q] = H[q]
  BY DEF CustodyType, OnlyChange
<1>2. ASSUME NEW q \in Owners, q # p PROVE Apart(R, G[p], G[q]) /\ Apart(R, G[q], G[p])
  <2>1. Apart(R, H[p], H[q])
    BY <1>2 DEF Custody
  <2>2. Apart(R, G[p], H[q])
    BY <2>1, DerivedApart
  <2>3. QED
    BY <1>1, <1>2, <2>2 DEF Apart
<1>3. \A q, r \in Owners : q # r => Apart(R, G[q], G[r])
  BY <1>1, <1>2 DEF Custody
<1>4. Apart(R, G[p], W) /\ Numbered(R, G[p], m) /\ Newest(R, G[p], S)
  <2>1. Apart(R, H[p], W) /\ Numbered(R, H[p], m) /\ Newest(R, H[p], S)
    BY DEF Custody
  <2>2. QED
    BY <1>1, <2>1, DerivedApart, DerivedNumbered, DerivedNewest
<1>5. ASSUME NEW q \in Owners
      PROVE  Apart(R, G[q], W) /\ Numbered(R, G[q], m) /\ Newest(R, G[q], S \cup shown)
  <2>1. CASE q = p
    BY <1>4, <2>1 DEF Newest
  <2>2. CASE q # p
    <3>1. G[q] = H[q] /\ Apart(R, H[q], H[p])
      BY <1>1, <2>2 DEF Custody
    <3>2. Apart(R, H[q], W) /\ Numbered(R, H[q], m) /\ Newest(R, H[q], S)
      BY DEF Custody
    <3>3. Newest(R, H[q], shown)
      BY <3>1 DEF Newest, Apart
    <3>4. QED
      BY <3>1, <3>2, <3>3 DEF Newest
  <2>3. QED
    BY <2>1, <2>2
<1>6. OnePerId(R, W) /\ Numbered(R, W, m) /\ Newest(R, W, S \cup shown)
  <2>1. Apart(R, H[p], W) /\ OnePerId(R, W) /\ Numbered(R, W, m) /\ Newest(R, W, S)
    BY DEF Custody
  <2>2. Newest(R, W, shown)
    BY <2>1 DEF Newest, Apart
  <2>3. QED
    BY <2>1, <2>2 DEF Newest
<1>7. Numbered(R, S \cup shown, m)
  BY DEF Custody, Numbered
<1>8. Comparable(R, S \cup shown)
  <2>1. Newest(R, H[p], S) /\ Comparable(R, S)
    BY DEF Custody
  <2>2. \A x \in shown, y \in S : x.id = y.id => Later(x, y) \/ x.id \in R
    BY <2>1 DEF Newest
  <2>3. \A x, y \in shown : x.id = y.id => Later(x, y) \/ x.id \in R
    BY <1>1, LaterThanItself DEF OnePerId
  <2>4. QED
    BY <2>1, <2>2, <2>3 DEF Comparable
<1>9. QED
  BY <1>3, <1>5, <1>6, <1>7, <1>8 DEF Custody

\* One set is in another, but for the ids of R.
Within(R, A, B) == \A x \in A : x \in B \/ x.id \in R

\* An owner has no more than it had.
LEMMA CustodyShrinks ==
    ASSUME NEW R, NEW H, NEW W, NEW S, NEW m, Custody(R, H, W, S, m),
           CustodyType(H, W, S, m), NEW p \in Owners, NEW G, OnlyChange(p, H, G),
           G[p] \in SUBSET Tokens, Within(R, G[p], H[p])
    PROVE  Custody(R, G, W, S, m)
<1>1. \A q \in Owners : q # p => G[q] = H[q]
  BY DEF OnlyChange
<1>2. \A q \in Owners : Apart(R, H[q], W) /\ Numbered(R, H[q], m) /\ Newest(R, H[q], S)
  BY DEF Custody
<1>3. Apart(R, G[p], W) /\ Numbered(R, G[p], m) /\ Newest(R, G[p], S)
  <2>1. Apart(R, G[p], W)
    BY <1>2 DEF Apart, Within
  <2>2. Numbered(R, G[p], m)
    BY <1>2 DEF Numbered, Within
  <2>3. Newest(R, G[p], S)
    BY <1>2 DEF Newest, Within
  <2>4. QED
    BY <2>1, <2>2, <2>3
<1>4. ASSUME NEW q \in Owners, q # p PROVE Apart(R, G[p], G[q]) /\ Apart(R, G[q], G[p])
  <2>1. G[q] = H[q] /\ Apart(R, H[p], H[q])
    BY <1>1, <1>4 DEF Custody
  <2>2. QED
    BY <2>1 DEF Apart, Within
<1>5. \A q, z \in Owners : q # z => Apart(R, G[q], G[z])
  BY <1>1, <1>4 DEF Custody
<1>6. \A q \in Owners : /\ Apart(R, G[q], W) /\ Numbered(R, G[q], m)
                        /\ Newest(R, G[q], S)
  BY <1>1, <1>2, <1>3
<1>7. QED
  BY <1>5, <1>6 DEF Custody

\* Fewer tokens are on the wire.
LEMMA CustodyLoses ==
    ASSUME NEW R, NEW H, NEW W, NEW S, NEW m, Custody(R, H, W, S, m), NEW V, V \subseteq W
    PROVE  Custody(R, H, V, S, m)
BY DEF Custody, Apart, OnePerId, Numbered, Newest

\* An owner gives tokens away, for others to see or not.
LEMMA CustodyGives ==
    ASSUME NEW R, NEW H, NEW W, NEW S, NEW m, Custody(R, H, W, S, m), CustodyType(H, W, S, m),
           NEW p \in Owners, NEW G, OnlyChange(p, H, G), G[p] \subseteq H[p],
           NEW given, given \subseteq H[p], OnePerId(R, given), Apart(R, given, G[p]),
           NEW Z, Z = S \/ Z = S \cup given
    PROVE  Custody(R, G, W \cup given, Z, m)
<1>1. /\ H[p] \in SUBSET Tokens /\ W \in SUBSET Tokens /\ S \in SUBSET Tokens
      /\ \A q \in Owners : q # p => G[q] = H[q]
  BY DEF CustodyType, OnlyChange
<1>2. \A q, r \in Owners : q # r => Apart(R, G[q], G[r])
  <2>1. ASSUME NEW q \in Owners PROVE G[q] \subseteq H[q]
    BY <1>1
  <2>2. QED
    BY <2>1 DEF Custody, Apart
<1>3. Apart(R, H[p], W) /\ Numbered(R, H[p], m) /\ Newest(R, H[p], S)
  BY DEF Custody
<1>4. \A x, y \in given : x.id = y.id => Later(x, y) \/ x.id \in R
  BY <1>1, LaterThanItself DEF OnePerId
<1>5. ASSUME NEW q \in Owners
      PROVE  Apart(R, G[q], W \cup given) /\ Numbered(R, G[q], m) /\ Newest(R, G[q], Z)
  <2>1. Apart(R, H[q], W) /\ Numbered(R, H[q], m) /\ Newest(R, H[q], S)
    BY DEF Custody
  <2>2. G[q] \subseteq H[q] /\ Apart(R, G[q], given)
    <3>1. CASE q = p
      BY <3>1 DEF Apart
    <3>2. CASE q # p
      <4>1. Apart(R, H[q], H[p]) /\ G[q] = H[q]
        BY <1>1, <3>2 DEF Custody
      <4>2. QED
        BY <4>1 DEF Apart
    <3>3. QED
      BY <3>1, <3>2
  <2>3. Newest(R, G[q], S \cup given) /\ Newest(R, G[q], S)
    BY <2>1, <2>2 DEF Newest, Apart
  <2>4. Apart(R, G[q], W \cup given) /\ Numbered(R, G[q], m)
    BY <2>1, <2>2 DEF Apart, Numbered
  <2>5. QED
    BY <2>3, <2>4
<1>6. OnePerId(R, W \cup given)
  <2>1. OnePerId(R, W)
    BY DEF Custody
  <2>2. QED
    BY <1>3, <2>1 DEF OnePerId, Apart
<1>7. Numbered(R, W \cup given, m) /\ Numbered(R, Z, m)
  BY DEF Custody, Numbered
<1>8. Newest(R, W \cup given, S \cup given) /\ Newest(R, W \cup given, S)
  <2>1. Newest(R, W, S)
    BY DEF Custody
  <2>2. Newest(R, given, S)
    BY <1>3 DEF Newest
  <2>3. Newest(R, W, given)
    BY <1>3 DEF Newest, Apart
  <2>4. Newest(R, given, given)
    BY <1>4 DEF Newest
  <2>5. QED
    BY <2>1, <2>2, <2>3, <2>4 DEF Newest
<1>9. Newest(R, W \cup given, Z)
  BY <1>8
<1>10. Comparable(R, Z)
  <2>1. Comparable(R, S)
    BY DEF Custody
  <2>2. Comparable(R, S \cup given)
    BY <1>3, <1>4, <2>1 DEF Comparable, Newest
  <2>3. QED
    BY <2>1, <2>2
<1>11. QED
  BY <1>2, <1>5, <1>6, <1>7, <1>9, <1>10 DEF Custody

\* An owner takes a token from the wire.
LEMMA CustodyTakes ==
    ASSUME NEW R, NEW H, NEW W, NEW S, NEW m, Custody(R, H, W, S, m), CustodyType(H, W, S, m),
           NEW p \in Owners, NEW G, OnlyChange(p, H, G),
           NEW token \in W, G[p] \subseteq H[p] \cup {token}
    PROVE  Custody(R, G, W \ {token}, S, m)
<1>1. \A q \in Owners : q # p => G[q] = H[q]
  BY DEF OnlyChange
<1>2. \A q \in Owners : Apart(R, H[q], W) /\ Numbered(R, H[q], m) /\ Newest(R, H[q], S)
  BY DEF Custody
<1>3. OnePerId(R, W) /\ Numbered(R, W, m) /\ Newest(R, W, S)
  BY DEF Custody
<1>4. Custody(R, H, W \ {token}, S, m)
  BY CustodyLoses
<1>5. Apart(R, G[p], W \ {token}) /\ Numbered(R, G[p], m) /\ Newest(R, G[p], S)
  <2>1. Apart(R, G[p], W \ {token})
    BY <1>2, <1>3 DEF Apart, OnePerId
  <2>2. Numbered(R, G[p], m)
    BY <1>2, <1>3 DEF Numbered
  <2>3. Newest(R, G[p], S)
    BY <1>2, <1>3 DEF Newest
  <2>4. QED
    BY <2>1, <2>2, <2>3
<1>6. ASSUME NEW q \in Owners, q # p PROVE Apart(R, G[p], G[q]) /\ Apart(R, G[q], G[p])
  <2>1. G[q] = H[q] /\ Apart(R, H[p], H[q]) /\ Apart(R, H[q], W)
    BY <1>1, <1>2, <1>6 DEF Custody
  <2>2. QED
    BY <2>1 DEF Apart
<1>7. \A q, r \in Owners : q # r => Apart(R, G[q], G[r])
  BY <1>1, <1>6 DEF Custody
<1>8. \A q \in Owners : /\ Apart(R, G[q], W \ {token}) /\ Numbered(R, G[q], m)
                        /\ Newest(R, G[q], S)
  BY <1>1, <1>4, <1>5 DEF Custody
<1>9. QED
  BY <1>4, <1>7, <1>8 DEF Custody

\* The mint makes tokens and an owner may get some of them.
LEMMA CustodyMakes ==
    ASSUME NEW R, NEW H, NEW W, NEW S, NEW m, Custody(R, H, W, S, m), CustodyType(H, W, S, m),
           NEW p \in Owners, NEW G, OnlyChange(p, H, G),
           NEW made \in SUBSET Tokens, OnePerId(R, made), G[p] \subseteq H[p] \cup made,
           NEW k \in Nat, m <= k, \A x \in made : x.id > m /\ x.id <= k
    PROVE  Custody(R, G, W, S \cup made, k)
<1>1. /\ \A q \in Owners : q # p => G[q] = H[q]
      /\ \A q \in Owners : H[q] \subseteq Tokens
      /\ W \subseteq Tokens /\ S \subseteq Tokens /\ m \in Nat
  BY DEF OnlyChange, CustodyType
<1>2. ASSUME NEW A \in SUBSET Tokens, Numbered(R, A, m)
      PROVE  Apart(R, A, made) /\ Apart(R, made, A) /\ Numbered(R, A, k)
  <2>1. ASSUME NEW x \in A, NEW y \in made PROVE x.id # y.id \/ x.id \in R
    <3>1. x.id \in Nat /\ y.id \in Nat /\ (x.id <= m \/ x.id \in R) /\ y.id > m
      BY <1>2, TokenFields DEF Numbered
    <3>2. QED
      BY <1>1, <3>1
  <2>2. ASSUME NEW x \in A PROVE x.id <= k \/ x.id \in R
    <3>1. x.id \in Nat /\ (x.id <= m \/ x.id \in R)
      BY <1>2, TokenFields DEF Numbered
    <3>2. QED
      BY <1>1, <3>1
  <2>3. QED
    BY <2>1, <2>2 DEF Apart, Numbered
<1>3. \A q \in Owners : Apart(R, H[q], W) /\ Numbered(R, H[q], m) /\ Newest(R, H[q], S)
  BY DEF Custody
<1>4. OnePerId(R, W) /\ Numbered(R, W, m) /\ Newest(R, W, S) /\ Numbered(R, S, m) /\ Comparable(R, S)
  BY DEF Custody
<1>5. \A q \in Owners : Apart(R, H[q], made) /\ Apart(R, made, H[q]) /\ Numbered(R, H[q], k)
  BY <1>1, <1>2, <1>3
<1>6. Apart(R, W, made) /\ Apart(R, made, W) /\ Numbered(R, W, k)
  BY <1>1, <1>2, <1>4
<1>7. Apart(R, S, made) /\ Apart(R, made, S) /\ Numbered(R, S, k)
  BY <1>1, <1>2, <1>4
<1>8. Numbered(R, made, k) /\ Newest(R, made, made)
  BY LaterThanItself DEF Numbered, Newest, OnePerId
<1>9. ASSUME NEW q \in Owners
      PROVE  Apart(R, G[q], W) /\ Numbered(R, G[q], k) /\ Newest(R, G[q], S \cup made)
  <2>1. G[q] \subseteq H[q] \cup made
    BY <1>1
  <2>2. Apart(R, G[q], W)
    BY <1>3, <1>6, <2>1 DEF Apart
  <2>3. Numbered(R, G[q], k)
    BY <1>5, <1>8, <2>1 DEF Numbered
  <2>4. Newest(R, H[q], S \cup made)
    BY <1>3, <1>5 DEF Newest, Apart
  <2>5. Newest(R, made, S \cup made)
    BY <1>7, <1>8 DEF Newest, Apart
  <2>6. Newest(R, G[q], S \cup made)
    BY <2>1, <2>4, <2>5 DEF Newest
  <2>7. QED
    BY <2>2, <2>3, <2>6
<1>10. ASSUME NEW q \in Owners, q # p PROVE Apart(R, G[p], G[q]) /\ Apart(R, G[q], G[p])
  <2>1. G[q] = H[q] /\ Apart(R, H[p], H[q])
    BY <1>1, <1>10 DEF Custody
  <2>2. QED
    BY <1>5, <2>1 DEF Apart
<1>11. \A q, r \in Owners : q # r => Apart(R, G[q], G[r])
  BY <1>1, <1>10 DEF Custody
<1>12. Newest(R, W, S \cup made)
  BY <1>4, <1>6 DEF Newest, Apart
<1>13. Numbered(R, S \cup made, k)
  BY <1>7, <1>8 DEF Numbered
<1>14. Comparable(R, S \cup made)
  BY <1>4, <1>7, <1>8 DEF Comparable, Newest, Apart
<1>15. QED
  BY <1>4, <1>6, <1>9, <1>11, <1>12, <1>13, <1>14 DEF Custody
-----------------------------------------------------------------------------
(***************************************************************************)
(* One user, one operation at a time: a and d are the wallets in memory    *)
(* and on disk, o the operation under way.                                 *)
(***************************************************************************)
Outgoing == {"publish", "save", "handover", "output"}

\* What is left of a wallet without the tokens that are in a set.
Without(d, A) == {x \in Has(d) : \A y \in A : x.id # y.id}

\* Every token that the user may still come to hold: what is on disk counts, but
\* for the tokens that the command line has printed.
Live(cli, a, d, o) ==
    (IF o.pc = "file" THEN Without(d, o.out) ELSE Has(d)) \cup (IF cli THEN {} ELSE Has(a))
    \cup (IF o.pc = "idle" THEN {} ELSE Has(o.w))
    \cup (IF o.pc \in Outgoing THEN o.out ELSE {})

\* Which wallets agree when, and that none has a token twice, but for those of R.
Sound(R, cli, a, d, o) ==
    /\ Distinct(R, d)
    /\ o.pc # "idle" => Distinct(R, o.w)
    /\ o.pc \in Outgoing => Apart(R, Has(o.w), o.out) /\ OnePerId(R, o.out)
    /\ o.pc \in {"idle", "open", "publish"} => cli \/ a = d
    /\ o.pc = "open" => o.w = IF cli THEN d ELSE a
    /\ o.pc \in {"publish", "save", "handover"} => ~ cli
    /\ o.pc \in {"save", "handover"} => a = o.w
    /\ o.pc = "handover" => d = o.w
    /\ o.pc \in {"output", "file"} => cli

LEMMA SoundIdle ==
    ASSUME NEW R, NEW cli \in BOOLEAN, NEW a, NEW d, Distinct(R, d), cli \/ a = d
    PROVE  Sound(R, cli, a, d, Idle) /\ Live(cli, a, d, Idle) = Has(d)
<1>1. Idle.pc = "idle" /\ "idle" \notin Outgoing
  BY DEF Idle, Outgoing
<1>2. Live(cli, a, d, Idle) = Has(d)
  BY <1>1 DEF Live
<1>3. QED
  BY <1>1, <1>2 DEF Sound

LEMMA SoundBegins ==
    ASSUME NEW R, NEW cli \in BOOLEAN, NEW a, NEW d, Sound(R, cli, a, d, Idle), NEW sig
    PROVE  LET o == [pc |-> "open", w |-> IF cli THEN d ELSE a, sig |-> sig]
           IN  /\ Sound(R, cli, a, d, o)
               /\ Live(cli, a, d, o) = Live(cli, a, d, Idle)
<1> DEFINE x == IF cli THEN d ELSE a
           o == [pc |-> "open", w |-> x, sig |-> sig]
<1>1. Idle.pc = "idle" /\ "idle" \notin Outgoing /\ "open" \notin Outgoing
  BY DEF Idle, Outgoing
<1>2. o.pc = "open" /\ o.w = x
  OBVIOUS
<1>3. Distinct(R, d) /\ (cli \/ a = d)
  BY <1>1 DEF Sound
<1>4. x = d
  BY <1>3
<1> HIDE DEF o, x
<1>5. Sound(R, cli, a, d, o)
  BY <1>1, <1>2, <1>3, <1>4 DEF Sound, x
<1>6. Live(cli, a, d, o) = Has(d)
  BY <1>1, <1>2, <1>3, <1>4 DEF Live
<1>7. Live(cli, a, d, Idle) = Has(d)
  BY <1>3, SoundIdle
<1>8. QED
  BY <1>5, <1>6, <1>7 DEF o, x

\* An open operation works on all that the user has.
LEMMA SoundOpen ==
    ASSUME NEW R, NEW cli \in BOOLEAN, NEW a, NEW d, NEW o, Sound(R, cli, a, d, o), o.pc = "open"
    PROVE  /\ o.w = d /\ Distinct(R, d) /\ Live(cli, a, d, o) = Has(d)
           /\ cli \/ a = d
           /\ Sound(R, cli, a, d, Idle) /\ Live(cli, a, d, Idle) = Has(d)
<1>1. "open" \notin Outgoing
  BY DEF Outgoing
<1>2. Distinct(R, d) /\ (cli \/ a = d) /\ o.w = d
  BY DEF Sound
<1>3. Live(cli, a, d, o) = Has(d)
  BY <1>1, <1>2 DEF Live
<1>4. QED
  BY <1>2, <1>3, SoundIdle

LEMMA SoundEnds ==
    ASSUME NEW R, NEW cli \in BOOLEAN, NEW a, NEW d, Distinct(R, d), cli \/ a = d,
           NEW o, o.pc = IF cli THEN "output" ELSE "publish",
           Distinct(R, o.w), Apart(R, Has(o.w), o.out), OnePerId(R, o.out)
    PROVE  /\ Sound(R, cli, a, d, o)
           /\ Live(cli, a, d, o) = Has(d) \cup Has(o.w) \cup o.out
<1>1. CASE cli
  <2>1. o.pc = "output" /\ "output" \in Outgoing
    BY <1>1 DEF Outgoing
  <2>2. Sound(R, cli, a, d, o)
    BY <1>1, <2>1 DEF Sound
  <2>3. QED
    BY <1>1, <2>1, <2>2 DEF Live
<1>2. CASE ~ cli
  <2>1. o.pc = "publish" /\ "publish" \in Outgoing
    BY <1>2 DEF Outgoing
  <2>2. Sound(R, cli, a, d, o)
    BY <1>2, <2>1 DEF Sound
  <2>3. QED
    BY <1>2, <2>1, <2>2 DEF Live
<1>3. QED
  BY <1>1, <1>2

LEMMA SoundPublishes ==
    ASSUME NEW R, NEW cli \in BOOLEAN, NEW a, NEW d, NEW o, Sound(R, cli, a, d, o), o.pc = "publish",
           NEW x, x.pc = "save", x.w = o.w, x.out = o.out
    PROVE  Sound(R, cli, o.w, d, x) /\ Live(cli, o.w, d, x) \subseteq Live(cli, a, d, o)
<1>1. "publish" \in Outgoing /\ "save" \in Outgoing
  BY DEF Outgoing
<1>2. /\ Distinct(R, d) /\ Distinct(R, o.w) /\ Apart(R, Has(o.w), o.out) /\ OnePerId(R, o.out)
      /\ ~ cli
  BY <1>1 DEF Sound
<1>3. Sound(R, cli, o.w, d, x)
  BY <1>2 DEF Sound
<1>4. QED
  BY <1>1, <1>2, <1>3 DEF Live

LEMMA SoundSaves ==
    ASSUME NEW R, NEW cli \in BOOLEAN, NEW a, NEW d, NEW o, Sound(R, cli, a, d, o), o.pc = "save",
           NEW x, x.pc = "handover", x.w = o.w, x.out = o.out
    PROVE  Sound(R, cli, a, o.w, x) /\ Live(cli, a, o.w, x) \subseteq Live(cli, a, d, o)
<1>1. "handover" \in Outgoing /\ "save" \in Outgoing
  BY DEF Outgoing
<1>2. /\ Distinct(R, o.w) /\ Apart(R, Has(o.w), o.out) /\ OnePerId(R, o.out)
      /\ ~ cli /\ a = o.w
  BY <1>1 DEF Sound
<1>3. Sound(R, cli, a, o.w, x)
  BY <1>2 DEF Sound
<1>4. QED
  BY <1>1, <1>2, <1>3 DEF Live

\* What a client hands over is in none of its wallets.
LEMMA SoundHandsOver ==
    ASSUME NEW R, NEW cli \in BOOLEAN, NEW a, NEW d, NEW o, Sound(R, cli, a, d, o), o.pc = "handover"
    PROVE  /\ Sound(R, cli, a, d, Idle) /\ Live(cli, a, d, Idle) \subseteq Live(cli, a, d, o)
           /\ o.out \subseteq Live(cli, a, d, o) /\ OnePerId(R, o.out)
           /\ Apart(R, o.out, Live(cli, a, d, Idle))
<1>1. "handover" \in Outgoing
  BY DEF Outgoing
<1>2. /\ Distinct(R, d) /\ Apart(R, Has(o.w), o.out) /\ OnePerId(R, o.out)
      /\ a = d /\ d = o.w
  BY <1>1 DEF Sound
<1>3. Sound(R, cli, a, d, Idle) /\ Live(cli, a, d, Idle) = Has(d)
  BY <1>2, SoundIdle
<1>4. Has(d) \subseteq Live(cli, a, d, o) /\ o.out \subseteq Live(cli, a, d, o)
  BY <1>1 DEF Live
<1>5. Apart(R, o.out, Has(d))
  BY <1>2 DEF Apart
<1>6. QED
  BY <1>2, <1>3, <1>4, <1>5

LEMMA SoundOutputs ==
    ASSUME NEW R, NEW cli \in BOOLEAN, NEW a, NEW d, NEW o, Sound(R, cli, a, d, o), o.pc = "output",
           NEW x, x.pc = "file", x.w = o.w, x.out = o.out
    PROVE  /\ Sound(R, cli, a, d, x) /\ Live(cli, a, d, x) \subseteq Live(cli, a, d, o)
           /\ o.out \subseteq Live(cli, a, d, o) /\ OnePerId(R, o.out)
           /\ Apart(R, o.out, Live(cli, a, d, x))
<1>1. "output" \in Outgoing /\ "file" \notin Outgoing
  BY DEF Outgoing
<1>2. /\ Distinct(R, d) /\ Distinct(R, o.w) /\ Apart(R, Has(o.w), o.out)
      /\ OnePerId(R, o.out) /\ cli
  BY <1>1 DEF Sound
<1>3. Sound(R, cli, a, d, x)
  BY <1>1, <1>2 DEF Sound
<1>4. Live(cli, a, d, x) = Without(d, o.out) \cup Has(o.w)
  BY <1>1, <1>2 DEF Live
<1>5. /\ Without(d, o.out) \cup Has(o.w) \subseteq Live(cli, a, d, o)
      /\ o.out \subseteq Live(cli, a, d, o)
  BY <1>1 DEF Live, Without
<1>6. Apart(R, o.out, Without(d, o.out) \cup Has(o.w))
  BY <1>2 DEF Apart, Without
<1>7. QED
  BY <1>2, <1>3, <1>4, <1>5, <1>6

LEMMA SoundSavesFile ==
    ASSUME NEW R, NEW cli \in BOOLEAN, NEW a, NEW d, NEW o, Sound(R, cli, a, d, o), o.pc = "file"
    PROVE  Sound(R, cli, a, o.w, Idle) /\ Live(cli, a, o.w, Idle) \subseteq Live(cli, a, d, o)
<1>1. Distinct(R, o.w) /\ cli
  BY DEF Sound
<1>2. Sound(R, cli, a, o.w, Idle)
  BY <1>1, SoundIdle
<1>3. Live(cli, a, o.w, Idle) = Has(o.w) /\ Has(o.w) \subseteq Live(cli, a, d, o)
  BY <1>1 DEF Live, Idle, Outgoing
<1>4. QED
  BY <1>2, <1>3

\* After a crash the user has what is on disk, which is what it had but for what a
\* command line had printed.
LEMMA SoundCrashes ==
    ASSUME NEW R, NEW cli \in BOOLEAN, NEW a, NEW d, NEW o, Sound(R, cli, a, d, o),
           o.pc = "file" => \A x \in o.out : x.id \in R
    PROVE  Sound(R, cli, d, d, Idle) /\ Within(R, Live(cli, d, d, Idle), Live(cli, a, d, o))
<1>1. Distinct(R, d)
  BY DEF Sound
<1>2. Sound(R, cli, d, d, Idle) /\ Live(cli, d, d, Idle) = Has(d)
  BY <1>1, SoundIdle
<1>3. CASE o.pc = "file"
  <2>1. Without(d, o.out) \subseteq Live(cli, a, d, o)
    BY <1>3 DEF Live
  <2>2. \A x \in Has(d) : x \in Without(d, o.out) \/ x.id \in R
    BY <1>3 DEF Without
  <2>3. QED
    BY <1>2, <2>1, <2>2 DEF Within
<1>4. CASE o.pc # "file"
  <2>1. Has(d) \subseteq Live(cli, a, d, o)
    BY <1>4 DEF Live
  <2>2. QED
    BY <1>2, <2>1 DEF Within
<1>5. QED
  BY <1>3, <1>4
-----------------------------------------------------------------------------
(***************************************************************************)
(* Users that run one operation at a time and import a token once.         *)
(***************************************************************************)
OneAtATime == (\E s : Slots = {s}) /\ ~ Redelivery

Slot == CHOOSE s : Slots = {s}

LEMMA OneSlot ==
    ASSUME OneAtATime
    PROVE  Slots = {Slot}
BY DEF OneAtATime, Slot

\* What an owner may still come to hold.
Held == [p \in Owners |-> IF p = Swapper THEN Has(swapper)
                          ELSE Live(Cli(p), app[p], disk[p], op[p][Slot])]

Honest(R) == /\ \A u \in Users : Sound(R, Cli(u), app[u], disk[u], op[u][Slot])
          /\ Distinct(R, swapper)
          /\ Custody(R, Held, wire, handed \cup tracked, minted)

LEMMA HeldBy ==
    /\ Held[Swapper] = Has(swapper)
    /\ \A u \in Users : u \in Owners /\ Held[u] = Live(Cli(u), app[u], disk[u], op[u][Slot])
BY WalletNetworkAssumption DEF Held, Owners

LEMMA HeldByNext ==
    /\ Held'[Swapper] = Has(swapper')
    /\ \A u \in Users : Held'[u] = Live(Cli(u)', app'[u], disk'[u], op'[u][Slot])
BY WalletNetworkAssumption DEF Held, Owners

LEMMA LiveType ==
    ASSUME NEW u, NEW cli \in BOOLEAN, NEW a \in Wallets(u), NEW d \in Wallets(u),
           NEW o \in Operations(u)
    PROVE  Live(cli, a, d, o) \in SUBSET Tokens
<1>1. Has(a) \subseteq Tokens /\ Has(d) \subseteq Tokens /\ Without(d, o.out) \subseteq Has(d)
  BY WalletFields DEF Without
<1>2. o.pc # "idle" => Has(o.w) \subseteq Tokens
  BY TypeOfOperation, WalletFields
<1>3. o.pc \in Outgoing => o.out \subseteq Tokens
  BY TypeOfOperation DEF Outgoing
<1>4. QED
  BY <1>1, <1>2, <1>3 DEF Live

LEMMA HeldType ==
    ASSUME OneAtATime, TypeOK
    PROVE  /\ CustodyType(Held, wire, handed \cup tracked, minted)
           /\ \A u \in Users : Cli(u) \in BOOLEAN
<1>1. \A u \in Users : Cli(u) \in BOOLEAN
  BY DEF Cli
<1>2. Slot \in Slots
  BY OneSlot
<1>3. ASSUME NEW u \in Users PROVE Held[u] \in SUBSET Tokens
  <2>1. app[u] \in Wallets(u) /\ disk[u] \in Wallets(u) /\ op[u][Slot] \in Operations(u)
    BY <1>2, TypeOfUser
  <2>2. QED
    BY <1>1, <2>1, LiveType, HeldBy
<1>4. Held[Swapper] \in SUBSET Tokens
  <2>1. swapper \in Wallets(Swapper)
    BY DEF TypeOK
  <2>2. QED
    BY <2>1, WalletFields, HeldBy
<1>5. {wire, handed, tracked} \subseteq SUBSET Tokens /\ minted \in Nat
  BY WalletNetworkAssumption DEF TypeOK
<1>6. QED
  BY <1>1, <1>3, <1>4, <1>5 DEF CustodyType, Owners

\* A step of one user.
OnlyUser(u) ==
    /\ UNCHANGED <<kind, swapper>>
    /\ \A v \in Users : v # u => app'[v] = app[v] /\ disk'[v] = disk[v] /\ op'[v] = op[v]

LEMMA OnlyUserChanges ==
    ASSUME NEW u \in Users, OnlyUser(u)
    PROVE  /\ OnlyChange(u, Held, Held')
           /\ Held'[u] = Live(Cli(u), app'[u], disk'[u], op'[u][Slot])
<1>1. \A v \in Users : Cli(v)' = Cli(v)
  BY DEF OnlyUser, Cli
<1>2. Held'[Swapper] = Held[Swapper]
  BY HeldBy, HeldByNext DEF OnlyUser
<1>3. ASSUME NEW v \in Users, v # u PROVE Held'[v] = Held[v]
  BY <1>1, <1>3, HeldBy, HeldByNext DEF OnlyUser
<1>4. QED
  BY <1>1, <1>2, <1>3, HeldByNext DEF OnlyChange, Owners

LEMMA HonestUser ==
    ASSUME NEW R, Honest(R), NEW u \in Users, OnlyUser(u),
           Sound(R, Cli(u), app'[u], disk'[u], op'[u][Slot]),
           Custody(R, Held', wire', handed' \cup tracked', minted')
    PROVE  Honest(R)'
<1>1. \A v \in Users : Cli(v)' = Cli(v)
  BY DEF OnlyUser, Cli
<1>2. Distinct(R, swapper)'
  BY DEF Honest, OnlyUser
<1>3. ASSUME NEW v \in Users PROVE Sound(R, Cli(v), app[v], disk[v], op[v][Slot])'
  <2>1. CASE v = u
    BY <1>1, <2>1
  <2>2. CASE v # u
    BY <1>1, <2>2 DEF Honest, OnlyUser
  <2>3. QED
    BY <2>1, <2>2
<1>4. QED
  BY <1>2, <1>3 DEF Honest

\* A user works on what it has.
LEMMA HonestWorks ==
    ASSUME NEW R, OneAtATime, TypeOK, TypeOK', Honest(R), NEW u \in Users, OnlyUser(u),
           Sound(R, Cli(u), app'[u], disk'[u], op'[u][Slot]), Derived(Held'[u], Held[u]),
           UNCHANGED <<wire, minted>>,
           NEW shown, shown \subseteq Held[u], OnePerId(R, shown), Newest(R, Held'[u], shown),
           handed' \cup tracked' = (handed \cup tracked) \cup shown
    PROVE  Honest(R)'
<1>1. CustodyType(Held, wire, handed \cup tracked, minted) /\ u \in Owners
  BY HeldType, HeldBy
<1>2. app'[u] \in Wallets(u) /\ disk'[u] \in Wallets(u) /\ op'[u][Slot] \in Operations(u)
  BY OneSlot DEF TypeOK
<1>3. Held'[u] \in SUBSET Tokens
  BY <1>2, HeldType, LiveType, OnlyUserChanges
<1>4. Custody(R, Held, wire, handed \cup tracked, minted)
  BY DEF Honest
<1>5. OnlyChange(u, Held, Held')
  BY OnlyUserChanges
<1>6. Custody(R, Held', wire, (handed \cup tracked) \cup shown, minted)
  BY <1>1, <1>3, <1>4, <1>5, CustodyWorks
<1>7. QED
  BY <1>6, HonestUser

\* A user comes to hold no more than it did.
LEMMA HonestShrinks ==
    ASSUME NEW R, OneAtATime, TypeOK, TypeOK', Honest(R), NEW u \in Users, OnlyUser(u),
           Sound(R, Cli(u), app'[u], disk'[u], op'[u][Slot]),
           Live(Cli(u), app'[u], disk'[u], op'[u][Slot])
             \subseteq Live(Cli(u), app[u], disk[u], op[u][Slot]),
           UNCHANGED <<wire, handed, tracked, minted>>
    PROVE  Honest(R)'
<1>1. Held'[u] \subseteq Held[u]
  BY HeldBy, OnlyUserChanges
<1>2. Held[u] \in SUBSET Tokens
  BY HeldType, HeldBy DEF CustodyType
<1>3. Derived(Held'[u], Held[u])
  BY <1>1, <1>2, LaterThanItself DEF Derived
<1>4. OnePerId(R, {}) /\ Newest(R, Held'[u], {}) /\ {} \subseteq Held[u]
  BY DEF OnePerId, Newest
<1>5. handed' \cup tracked' = (handed \cup tracked) \cup {}
  OBVIOUS
<1>6. QED
  BY <1>3, <1>4, <1>5, HonestWorks

\* A user sends tokens.
LEMMA HonestGives ==
    ASSUME NEW R, OneAtATime, TypeOK, Honest(R), NEW u \in Users, OnlyUser(u),
           Sound(R, Cli(u), app'[u], disk'[u], op'[u][Slot]),
           Live(Cli(u), app'[u], disk'[u], op'[u][Slot])
             \subseteq Live(Cli(u), app[u], disk[u], op[u][Slot]),
           NEW given, given \subseteq Live(Cli(u), app[u], disk[u], op[u][Slot]),
           OnePerId(R, given), Apart(R, given, Live(Cli(u), app'[u], disk'[u], op'[u][Slot])),
           Leaves(given), UNCHANGED <<tracked, minted>>
    PROVE  Honest(R)'
<1>1. CustodyType(Held, wire, handed \cup tracked, minted) /\ u \in Owners
  BY HeldType, HeldBy
<1>2. Custody(R, Held, wire, handed \cup tracked, minted)
  BY DEF Honest
<1>3. /\ OnlyChange(u, Held, Held') /\ Held'[u] \subseteq Held[u]
      /\ given \subseteq Held[u] /\ Apart(R, given, Held'[u])
  BY HeldBy, OnlyUserChanges
<1>4. Custody(R, Held', wire \cup given, (handed \cup tracked) \cup given, minted)
  BY <1>1, <1>2, <1>3, CustodyGives
<1>5. wire' = wire \cup given /\ handed' \cup tracked' = (handed \cup tracked) \cup given
  BY DEF Leaves
<1>6. QED
  BY <1>4, <1>5, HonestUser

LEMMA OnlyOperation ==
    ASSUME OneAtATime, TypeOK, NEW u \in Users, NEW s \in Slots, NEW x,
           op' = [op EXCEPT ![u][s] = x]
    PROVE  s = Slot /\ op'[u][Slot] = x /\ \A v \in Users : v # u => op'[v] = op[v]
<1>1. s = Slot
  BY OneSlot
<1>2. DOMAIN op = Users /\ op[u] \in [Slots -> Operations(u)]
  BY DEF TypeOK
<1>3. QED
  BY <1>1, <1>2

LEMMA HonestLifecycle ==
    ASSUME NEW R, OneAtATime, TypeOK, TypeOK', Honest(R), NEW u \in Users, NEW s \in Slots,
           Lifecycle(u, s)
    PROVE  Honest(R)'
<1> DEFINE cli == Cli(u)
           a == app[u]
           d == disk[u]
           o == op[u][Slot]
<1>1. /\ s = Slot /\ cli \in BOOLEAN /\ o \in Operations(u)
      /\ DOMAIN app = Users /\ DOMAIN disk = Users
  BY OneSlot, HeldType, TypeOfUser DEF TypeOK
<1>2. Sound(R, cli, a, d, o)
  BY DEF Honest
<1>3. CASE Begin(u, s)
  <2> DEFINE x == [pc |-> "open", w |-> IF cli THEN d ELSE a, sig |-> ops[u] + 1]
  <2>1. op' = [op EXCEPT ![u][s] = x] /\ o = Idle
    BY <1>1, <1>3 DEF Begin, Stored
  <2>2. Sound(R, cli, a, d, x) /\ Live(cli, a, d, x) = Live(cli, a, d, o)
    BY <1>1, <1>2, <2>1, SoundBegins
  <2> HIDE DEF x
  <2>3. op'[u][Slot] = x /\ \A v \in Users : v # u => op'[v] = op[v]
    BY <2>1, OnlyOperation
  <2>4. UNCHANGED <<kind, swapper, app, disk, wire, handed, tracked, minted>>
    BY <1>3 DEF Begin, aside
  <2>5. OnlyUser(u)
    BY <2>3, <2>4 DEF OnlyUser
  <2>6. QED
    BY <2>2, <2>3, <2>4, <2>5, HonestShrinks
<1>4. CASE Publish(u, s)
  <2> DEFINE x == [o EXCEPT !.pc = "save"]
  <2>1. op' = [op EXCEPT ![u][s] = x] /\ o.pc = "publish" /\ app' = [app EXCEPT ![u] = o.w]
    BY <1>1, <1>4 DEF Publish
  <2>2. x.pc = "save" /\ x.w = o.w /\ x.out = o.out
    BY <1>1, <2>1, AdvanceRecord
  <2> HIDE DEF x
  <2>3. Sound(R, cli, o.w, d, x) /\ Live(cli, o.w, d, x) \subseteq Live(cli, a, d, o)
    BY <1>1, <1>2, <2>1, <2>2, SoundPublishes
  <2>4. op'[u][Slot] = x /\ \A v \in Users : v # u => op'[v] = op[v]
    BY <2>1, OnlyOperation
  <2>5. UNCHANGED <<kind, swapper, disk, wire, handed, tracked, minted>>
    BY <1>4 DEF Publish, aside
  <2>6. app'[u] = o.w /\ \A v \in Users : v # u => app'[v] = app[v]
    BY <1>1, <2>1
  <2>7. OnlyUser(u)
    BY <2>4, <2>5, <2>6 DEF OnlyUser
  <2>8. QED
    BY <2>3, <2>4, <2>5, <2>6, <2>7, HonestShrinks
<1>5. CASE Save(u, s)
  <2> DEFINE x == [o EXCEPT !.pc = "handover"]
  <2>1. op' = [op EXCEPT ![u][s] = x] /\ o.pc = "save" /\ disk' = [disk EXCEPT ![u] = o.w]
    BY <1>1, <1>5 DEF Save
  <2>2. x.pc = "handover" /\ x.w = o.w /\ x.out = o.out
    BY <1>1, <2>1, AdvanceRecord
  <2> HIDE DEF x
  <2>3. Sound(R, cli, a, o.w, x) /\ Live(cli, a, o.w, x) \subseteq Live(cli, a, d, o)
    BY <1>1, <1>2, <2>1, <2>2, SoundSaves
  <2>4. op'[u][Slot] = x /\ \A v \in Users : v # u => op'[v] = op[v]
    BY <2>1, OnlyOperation
  <2>5. UNCHANGED <<kind, swapper, app, wire, handed, tracked, minted>>
    BY <1>5 DEF Save, aside
  <2>6. disk'[u] = o.w /\ \A v \in Users : v # u => disk'[v] = disk[v]
    BY <1>1, <2>1
  <2>7. OnlyUser(u)
    BY <2>4, <2>5, <2>6 DEF OnlyUser
  <2>8. QED
    BY <2>3, <2>4, <2>5, <2>6, <2>7, HonestShrinks
<1>6. CASE HandOver(u, s)
  <2>1. op' = [op EXCEPT ![u][s] = Idle] /\ o.pc = "handover" /\ Leaves(o.out)
    BY <1>1, <1>6 DEF HandOver, Fail
  <2>2. /\ Sound(R, cli, a, d, Idle) /\ Live(cli, a, d, Idle) \subseteq Live(cli, a, d, o)
        /\ o.out \subseteq Live(cli, a, d, o) /\ OnePerId(R, o.out)
        /\ Apart(R, o.out, Live(cli, a, d, Idle))
    BY <1>1, <1>2, <2>1, SoundHandsOver
  <2>3. op'[u][Slot] = Idle /\ \A v \in Users : v # u => op'[v] = op[v]
    BY <2>1, OnlyOperation
  <2>4. UNCHANGED <<kind, swapper, app, disk, tracked, minted>>
    BY <1>6 DEF HandOver, aside
  <2>5. OnlyUser(u)
    BY <2>3, <2>4 DEF OnlyUser
  <2>6. QED
    BY <2>1, <2>2, <2>3, <2>4, <2>5, HonestGives
<1>7. CASE Output(u, s)
  <2> DEFINE x == [o EXCEPT !.pc = "file"]
  <2>1. op' = [op EXCEPT ![u][s] = x] /\ o.pc = "output" /\ Leaves(o.out)
    BY <1>1, <1>7 DEF Output
  <2>2. x.pc = "file" /\ x.w = o.w /\ x.out = o.out
    BY <1>1, <2>1, AdvanceRecord
  <2> HIDE DEF x
  <2>3. /\ Sound(R, cli, a, d, x) /\ Live(cli, a, d, x) \subseteq Live(cli, a, d, o)
        /\ o.out \subseteq Live(cli, a, d, o) /\ OnePerId(R, o.out)
        /\ Apart(R, o.out, Live(cli, a, d, x))
    BY <1>1, <1>2, <2>1, <2>2, SoundOutputs
  <2>4. op'[u][Slot] = x /\ \A v \in Users : v # u => op'[v] = op[v]
    BY <2>1, OnlyOperation
  <2>5. UNCHANGED <<kind, swapper, app, disk, tracked, minted>>
    BY <1>7 DEF Output, aside
  <2>6. OnlyUser(u)
    BY <2>4, <2>5 DEF OnlyUser
  <2>7. QED
    BY <2>1, <2>3, <2>4, <2>5, <2>6, HonestGives
<1>8. CASE SaveFile(u, s)
  <2>1. op' = [op EXCEPT ![u][s] = Idle] /\ o.pc = "file" /\ disk' = [disk EXCEPT ![u] = o.w]
    BY <1>1, <1>8 DEF SaveFile, Fail
  <2>2. Sound(R, cli, a, o.w, Idle) /\ Live(cli, a, o.w, Idle) \subseteq Live(cli, a, d, o)
    BY <1>1, <1>2, <2>1, SoundSavesFile
  <2>3. op'[u][Slot] = Idle /\ \A v \in Users : v # u => op'[v] = op[v]
    BY <2>1, OnlyOperation
  <2>4. UNCHANGED <<kind, swapper, app, wire, handed, tracked, minted>>
    BY <1>8 DEF SaveFile, aside
  <2>5. disk'[u] = o.w /\ \A v \in Users : v # u => disk'[v] = disk[v]
    BY <1>1, <2>1
  <2>6. OnlyUser(u)
    BY <2>3, <2>4, <2>5 DEF OnlyUser
  <2>7. QED
    BY <2>2, <2>3, <2>4, <2>5, <2>6, HonestShrinks
<1>9. QED
  BY <1>3, <1>4, <1>5, <1>6, <1>7, <1>8 DEF Lifecycle

LEMMA HonestCrash ==
    ASSUME NEW R, OneAtATime, TypeOK, TypeOK', Honest(R), NEW u \in Users, Crash(u),
           unsaved' \subseteq R
    PROVE  Honest(R)'
<1> DEFINE cli == Cli(u)
           a == app[u]
           d == disk[u]
           o == op[u][Slot]
<1>1. /\ Slot \in Slots /\ cli \in BOOLEAN /\ DOMAIN app = Users /\ DOMAIN op = Users
      /\ d \in Wallets(u) /\ Idle \in Operations(u)
  BY OneSlot, HeldType DEF TypeOK, Operations
<1>2. Sound(R, cli, a, d, o)
  BY DEF Honest
<1>3. o.pc = "file" => \A x \in o.out : x.id \in R
  BY <1>1 DEF Crash, Printed
<1>4. Sound(R, cli, d, d, Idle) /\ Within(R, Live(cli, d, d, Idle), Live(cli, a, d, o))
  BY <1>1, <1>2, <1>3, SoundCrashes
<1>5. app'[u] = d /\ \A v \in Users : v # u => app'[v] = app[v]
  BY <1>1 DEF Crash
<1>6. op'[u][Slot] = Idle /\ \A v \in Users : v # u => op'[v] = op[v]
  BY <1>1 DEF Crash
<1>7. UNCHANGED <<kind, swapper, disk, wire, handed, tracked, minted>>
  BY DEF Crash
<1>8. OnlyUser(u)
  BY <1>5, <1>6, <1>7 DEF OnlyUser
<1>9. /\ OnlyChange(u, Held, Held') /\ Within(R, Held'[u], Held[u])
      /\ Held'[u] \in SUBSET Tokens
  <2>1. Held'[u] = Live(cli, d, d, Idle)
    BY <1>5, <1>6, <1>7, <1>8, OnlyUserChanges
  <2>2. QED
    BY <1>1, <1>4, <1>8, <2>1, HeldBy, LiveType, OnlyUserChanges
<1>10. /\ CustodyType(Held, wire, handed \cup tracked, minted) /\ u \in Owners
       /\ Custody(R, Held, wire, handed \cup tracked, minted)
  BY HeldType, HeldBy DEF Honest
<1>11. Custody(R, Held', wire, handed \cup tracked, minted)
  BY <1>9, <1>10, CustodyShrinks
<1>12. QED
  BY <1>4, <1>5, <1>6, <1>7, <1>8, <1>11, HonestUser

\* An open operation works on all that its user has.
LEMMA OpenHolds ==
    ASSUME NEW R, OneAtATime, TypeOK, Honest(R), NEW u \in Users, NEW s \in Slots, Open(u, s)
    PROVE  /\ s = Slot /\ Copy(u, s) = disk[u]
           /\ Held[u] = Has(Copy(u, s)) /\ Distinct(R, Copy(u, s))
           /\ Cli(u) \/ app[u] = disk[u]
           /\ Sound(R, Cli(u), app[u], disk[u], Idle)
           /\ Live(Cli(u), app[u], disk[u], Idle) = Held[u]
<1>1. s = Slot /\ Cli(u) \in BOOLEAN
  BY OneSlot, HeldType
<1>2. Sound(R, Cli(u), app[u], disk[u], op[u][Slot]) /\ op[u][Slot].pc = "open"
  BY <1>1 DEF Honest, Open
<1>3. /\ op[u][Slot].w = disk[u] /\ Distinct(R, disk[u]) /\ (Cli(u) \/ app[u] = disk[u])
      /\ Live(Cli(u), app[u], disk[u], op[u][Slot]) = Has(disk[u])
      /\ Sound(R, Cli(u), app[u], disk[u], Idle)
      /\ Live(Cli(u), app[u], disk[u], Idle) = Has(disk[u])
  BY <1>1, <1>2, SoundOpen
<1>4. QED
  BY <1>1, <1>3, HeldBy DEF Copy

\* How it leaves the user.
LEMMA EndsHonest ==
    ASSUME NEW R, OneAtATime, TypeOK, Honest(R), NEW u \in Users, NEW s \in Slots, Open(u, s),
           NEW v \in Wallets(u), Distinct(R, v), Ended(u, s, v), UNCHANGED <<kind, swapper, app, disk>>
    PROVE  /\ OnlyUser(u) /\ Sound(R, Cli(u), app'[u], disk'[u], op'[u][Slot])
           /\ Held'[u] \subseteq Held[u] \cup Has(v)
<1> DEFINE cli == Cli(u)
           a == app[u]
           d == disk[u]
<1>1. /\ s = Slot /\ cli \in BOOLEAN /\ Held[u] = Has(d) /\ Distinct(R, d) /\ (cli \/ a = d)
      /\ Sound(R, cli, a, d, Idle) /\ Live(cli, a, d, Idle) = Held[u]
  BY HeldType, OpenHolds
<1>2. CASE Fail(u, s)
  <2>1. op'[u][Slot] = Idle /\ \A w \in Users : w # u => op'[w] = op[w]
    BY <1>2, OnlyOperation DEF Fail
  <2>2. OnlyUser(u)
    BY <2>1 DEF OnlyUser
  <2>3. Held'[u] = Live(cli, a, d, Idle)
    BY <2>1, <2>2, OnlyUserChanges
  <2>4. QED
    BY <1>1, <2>1, <2>2, <2>3
<1>3. CASE ~ Fail(u, s)
  <2>1. PICK o \in Operations(u) :
              /\ op' = [op EXCEPT ![u][s] = o]
              /\ o.pc = IF Cli(u) THEN "output" ELSE "publish"
              /\ Has(o.w) \subseteq Has(v) /\ o.out \subseteq Has(v)
              /\ Distinct(R, o.w) /\ Apart(R, Has(o.w), o.out) /\ OnePerId(R, o.out)
    BY <1>3, EndedRecord
  <2>2. op'[u][Slot] = o /\ \A w \in Users : w # u => op'[w] = op[w]
    BY <2>1, OnlyOperation
  <2>3. OnlyUser(u)
    BY <2>2 DEF OnlyUser
  <2>4. Sound(R, cli, a, d, o) /\ Live(cli, a, d, o) = Has(d) \cup Has(o.w) \cup o.out
    BY <1>1, <2>1, SoundEnds
  <2>5. Held'[u] = Live(cli, a, d, o)
    BY <2>2, <2>3, OnlyUserChanges
  <2>6. QED
    BY <1>1, <2>1, <2>2, <2>3, <2>4, <2>5
<1>4. QED
  BY <1>2, <1>3

LEMMA HonestWorked ==
    ASSUME NEW R, OneAtATime, TypeOK, TypeOK', Honest(R), NEW u \in Users, NEW s \in Slots,
           NEW v, Worked(u, s, v)
    PROVE  Honest(R)'
<1> DEFINE w == Copy(u, s)
           T == Range(w.tokens)
<1>1. /\ Open(u, s) /\ Keeps(u, w, v) /\ Ended(u, s, v)
      /\ UNCHANGED <<kind, swapper, app, disk, wire, handed, minted>>
      /\ tracked' = tracked \/ tracked' = tracked \cup T
  BY DEF Worked, Elsewhere, aside
<1>2. w \in Wallets(u) /\ Has(w) \subseteq Tokens /\ T \subseteq Has(w)
  BY <1>1, TypeOfCopy, WalletFields DEF Has
<1>3. Held[u] = Has(w) /\ Distinct(R, w)
  BY <1>1, OpenHolds
<1> HIDE DEF w
<1>4. v \in Wallets(u) /\ Derived(Has(v), Has(w)) /\ Distinct(R, v)
  BY <1>1, <1>3 DEF Keeps
<1>5. /\ OnlyUser(u) /\ Sound(R, Cli(u), app'[u], disk'[u], op'[u][Slot])
      /\ Held'[u] \subseteq Held[u] \cup Has(v)
  BY <1>1, <1>4, EndsHonest
<1>6. Derived(Held'[u], Held[u])
  BY <1>2, <1>3, <1>4, <1>5, LaterThanItself DEF Derived
<1>7. OnePerId(R, Has(w))
  BY <1>3 DEF OnePerId, Distinct, Unique, Apart, Has, Range
<1>8. Newest(R, Held'[u], Has(w))
  <2> SUFFICES ASSUME NEW x \in Held'[u], NEW y \in Has(w), x.id = y.id, x.id \notin R
               PROVE  Later(x, y)
    BY DEF Newest
  <2>1. PICK z \in Has(w) : Later(x, z)
    BY <1>3, <1>6 DEF Derived
  <2>2. z = y
    BY <1>7, <2>1 DEF OnePerId, Later
  <2>3. QED
    BY <2>1, <2>2
<1>9. CASE tracked' = tracked
  <2>1. OnePerId(R, {}) /\ Newest(R, Held'[u], {}) /\ {} \subseteq Held[u]
    BY DEF OnePerId, Newest
  <2>2. handed' \cup tracked' = (handed \cup tracked) \cup {}
    BY <1>1, <1>9
  <2>3. QED
    BY <1>1, <1>5, <1>6, <2>1, <2>2, HonestWorks
<1>10. CASE tracked' = tracked \cup T
  <2>1. OnePerId(R, T) /\ Newest(R, Held'[u], T) /\ T \subseteq Held[u]
    BY <1>2, <1>3, <1>7, <1>8 DEF OnePerId, Newest
  <2>2. handed' \cup tracked' = (handed \cup tracked) \cup T
    BY <1>1, <1>10
  <2>3. QED
    BY <1>1, <1>5, <1>6, <2>1, <2>2, HonestWorks
<1>11. QED
  BY <1>1, <1>9, <1>10

LEMMA HonestReceived ==
    ASSUME NEW R, OneAtATime, TypeOK, TypeOK', Honest(R), NEW u \in Users, NEW s \in Slots,
           Received(u, s)
    PROVE  Honest(R)'
<1>1. PICK token : ReceivedToken(u, s, token)
  BY ReceivedEffect
<1>2. /\ Open(u, s) /\ token \in wire /\ wire' = wire \ {token}
      /\ UNCHANGED <<kind, swapper, app, disk, handed, tracked, minted>>
  BY <1>1 DEF ReceivedToken, Elsewhere, aside, OneAtATime
<1>3. PICK v : Joined(u, Copy(u, s), v, {token}) /\ Succeed(u, s, v)
  BY <1>1 DEF ReceivedToken
<1>4. Held[u] = Has(Copy(u, s)) /\ Distinct(R, Copy(u, s))
  BY <1>2, OpenHolds
<1>5. Custody(R, Held, wire, handed \cup tracked, minted) /\ u \in Owners
  BY HeldBy DEF Honest
<1>6. Apart(R, {token}, Held[u])
  BY <1>2, <1>5 DEF Custody, Apart
<1>7. v \in Wallets(u) /\ Has(v) = Held[u] \cup {token} /\ Distinct(R, v)
  BY <1>3, <1>4, <1>6 DEF Joined
<1>8. /\ OnlyUser(u) /\ Sound(R, Cli(u), app'[u], disk'[u], op'[u][Slot])
      /\ Held'[u] \subseteq Held[u] \cup {token}
  BY <1>2, <1>3, <1>7, EndsHonest DEF Ended
<1>9. CustodyType(Held, wire, handed \cup tracked, minted) /\ OnlyChange(u, Held, Held')
  BY <1>8, HeldType, OnlyUserChanges
<1>10. Custody(R, Held', wire \ {token}, handed \cup tracked, minted)
  BY <1>2, <1>5, <1>8, <1>9, CustodyTakes
<1>11. QED
  BY <1>2, <1>8, <1>10, HonestUser

LEMMA HonestWithdrew ==
    ASSUME NEW R, OneAtATime, TypeOK, TypeOK', Honest(R), NEW u \in Users, NEW s \in Slots,
           Withdrew(u, s)
    PROVE  Honest(R)'
<1>1. PICK made, new : WithdrewTokens(u, s, made, new)
  BY WithdrewEffect
<1>2. /\ Open(u, s) /\ made \in SUBSET Tokens /\ new \subseteq made
      /\ UNCHANGED <<kind, swapper, app, disk, handed, wire>>
      /\ tracked' = tracked \cup made /\ minted' \in minted .. MaxId
      /\ \A x \in made : x.id > minted /\ x.id <= minted'
      /\ \A x, y \in made : x.id = y.id => x = y
  BY <1>1 DEF WithdrewTokens, Elsewhere, aside
<1>3. /\ Held[u] = Has(Copy(u, s)) /\ Distinct(R, Copy(u, s)) /\ Copy(u, s) \in Wallets(u)
  BY <1>2, OpenHolds, TypeOfCopy
<1>4. /\ Custody(R, Held, wire, handed \cup tracked, minted) /\ u \in Owners
      /\ CustodyType(Held, wire, handed \cup tracked, minted)
  BY HeldBy, HeldType DEF Honest
<1>5. minted \in Nat /\ minted' \in Nat /\ minted <= minted'
  <2>1. minted \in 0 .. MaxId /\ MaxId \in Nat
    BY WalletNetworkAssumption DEF TypeOK
  <2>2. QED
    BY <1>2, <2>1
<1>6. Apart(R, new, Held[u])
  <2> SUFFICES ASSUME NEW x \in new, NEW y \in Held[u], y.id \notin R PROVE x.id # y.id
    BY DEF Apart
  <2>1. x \in Tokens /\ y \in Tokens /\ x.id > minted /\ y.id <= minted
    BY <1>2, <1>4 DEF Custody, CustodyType, Numbered
  <2>2. x.id \in Nat /\ y.id \in Nat
    BY <2>1, TokenFields
  <2>3. QED
    BY <1>5, <2>1, <2>2
<1>7. /\ OnlyUser(u) /\ Sound(R, Cli(u), app'[u], disk'[u], op'[u][Slot])
      /\ Held'[u] \subseteq Held[u] \cup made
  <2>1. CASE Fail(u, s)
    <3>1. Ended(u, s, Copy(u, s))
      BY <2>1 DEF Ended
    <3>2. QED
      BY <1>2, <1>3, <3>1, EndsHonest
  <2>2. CASE ~ Fail(u, s)
    <3>1. PICK v : Joined(u, Copy(u, s), v, new) /\ Succeed(u, s, v)
      BY <1>1, <2>2 DEF WithdrewTokens
    <3>2. v \in Wallets(u) /\ Has(v) = Held[u] \cup new /\ Distinct(R, v)
      BY <1>3, <1>6, <3>1 DEF Joined
    <3>3. QED
      BY <1>2, <3>1, <3>2, EndsHonest DEF Ended
  <2>3. QED
    BY <2>1, <2>2
<1>8. OnlyChange(u, Held, Held') /\ OnePerId(R, made)
  BY <1>2, <1>7, OnlyUserChanges DEF OnePerId
<1>9. Custody(R, Held', wire, (handed \cup tracked) \cup made, minted')
  BY <1>2, <1>4, <1>5, <1>7, <1>8, CustodyMakes
<1>10. handed' \cup tracked' = (handed \cup tracked) \cup made
  BY <1>2
<1>11. QED
  BY <1>2, <1>7, <1>9, <1>10, HonestUser

\* The users do nothing.
LEMMA HonestServers ==
    ASSUME NEW R, Honest(R), UNCHANGED <<kind, app, disk, op>>, Distinct(R, swapper'),
           Custody(R, Held', wire', handed' \cup tracked', minted')
    PROVE  Honest(R)'
<1>1. \A u \in Users : Sound(R, Cli(u), app[u], disk[u], op[u][Slot])'
  BY DEF Honest, Cli
<1>2. QED
  BY <1>1 DEF Honest

LEMMA SwapperChanges ==
    ASSUME UNCHANGED <<kind, app, disk, op>>
    PROVE  /\ OnlyChange(Swapper, Held, Held')
           /\ Held'[Swapper] = Has(swapper') /\ Swapper \in Owners
           /\ swapper' = swapper => Held' = Held
<1>1. \A u \in Users : Held'[u] = Held[u]
  BY HeldBy, HeldByNext DEF Cli
<1>2. swapper' = swapper => Held' = Held
  BY DEF Held, Cli
<1>3. QED
  BY <1>1, <1>2, HeldByNext DEF OnlyChange, Owners

LEMMA HonestSwapTokens ==
    ASSUME NEW R, OneAtATime, TypeOK, Honest(R), NEW h \in Handlers, NEW token \in handed,
           SwapTokens(h, token)
    PROVE  Honest(R)'
<1>1. UNCHANGED <<kind, app, disk, op, handed, minted, swapper>>
  BY DEF SwapTokens, Clients
<1>2. tracked' = tracked \cup {token} /\ wire' = wire \ {token}
  BY DEF SwapTokens, ValidateTokens
<1>3. handed' \cup tracked' = handed \cup tracked /\ wire' \subseteq wire /\ Held' = Held
  BY <1>1, <1>2, SwapperChanges
<1>4. Custody(R, Held, wire', handed \cup tracked, minted) /\ Distinct(R, swapper)
  BY <1>3, CustodyLoses DEF Honest
<1>5. QED
  BY <1>1, <1>3, <1>4, HonestServers

LEMMA HonestSwapTransfer ==
    ASSUME NEW R, OneAtATime, TypeOK, Honest(R), NEW h \in Handlers, SwapTransfer(h)
    PROVE  Honest(R)'
<1>1. UNCHANGED <<kind, app, disk, op, handed, minted, wire, tracked>>
  BY DEF SwapTransfer, Clients
<1>2. Keeps(Swapper, swapper, swapper') /\ Distinct(R, swapper)
  BY SwapTransferType DEF Honest
<1>3. /\ swapper' \in Wallets(Swapper) /\ Derived(Has(swapper'), Has(swapper))
      /\ Distinct(R, swapper')
  BY <1>2 DEF Keeps
<1>4. /\ OnlyChange(Swapper, Held, Held') /\ Swapper \in Owners
      /\ Held'[Swapper] = Has(swapper') /\ Held[Swapper] = Has(swapper)
  BY <1>1, SwapperChanges, HeldBy
<1>5. Held'[Swapper] \in SUBSET Tokens /\ Derived(Held'[Swapper], Held[Swapper])
  BY <1>3, <1>4, WalletFields
<1>6. /\ CustodyType(Held, wire, handed \cup tracked, minted)
      /\ Custody(R, Held, wire, handed \cup tracked, minted)
  BY HeldType DEF Honest
<1>7. OnePerId(R, {}) /\ Newest(R, Held'[Swapper], {}) /\ {} \subseteq Held[Swapper]
  BY DEF OnePerId, Newest
<1>8. Custody(R, Held', wire, (handed \cup tracked) \cup {}, minted)
  BY <1>4, <1>5, <1>6, <1>7, CustodyWorks
<1>9. handed' \cup tracked' = (handed \cup tracked) \cup {}
  BY <1>1
<1>10. QED
  BY <1>1, <1>3, <1>8, <1>9, HonestServers

LEMMA HonestSwapPop ==
    ASSUME NEW R, OneAtATime, TypeOK, Honest(R), NEW h \in Handlers, SwapPop(h)
    PROVE  Honest(R)'
<1>1. UNCHANGED <<kind, app, disk, op, handed, minted, tracked>>
  BY DEF SwapPop, Clients
<1>2. Distinct(R, swapper) /\ Custody(R, Held, wire, handed \cup tracked, minted)
  BY DEF Honest
<1>3. CASE swapper.pending = <<>>
  <2>1. UNCHANGED <<swapper, wire>> /\ Held' = Held
    BY <1>1, <1>3, SwapPopType, SwapperChanges
  <2>2. QED
    BY <1>1, <1>2, <2>1, HonestServers
<1>4. CASE swapper.pending # <<>>
  <2> DEFINE q == swapper.pending
             r == swapper'.pending
             n == Len(q)
             given == {q[n]}
  <2>1. /\ swapper'.tokens = swapper.tokens
        /\ \A i \in DOMAIN r : i \in DOMAIN q /\ i # n /\ r[i] = q[i]
        /\ n \in DOMAIN q /\ wire' = wire \cup given
    BY <1>4, SwapPopType
  <2> HIDE DEF q, r, n
  <2>2. Unique(R, swapper.tokens) /\ Unique(R, q) /\ Apart(R, Range(swapper.tokens), Range(q))
    BY <1>2 DEF Distinct, q
  <2>3. Range(r) \subseteq Range(q) /\ q[n] \in Range(q)
    BY <2>1 DEF Range
  <2>4. Unique(R, r) /\ Apart(R, given, Range(r))
    BY <2>1, <2>2 DEF Unique, Apart, Range
  <2>5. Apart(R, Range(swapper.tokens), Range(r)) /\ Apart(R, given, Range(swapper.tokens))
    BY <2>2, <2>3 DEF Apart
  <2>6. Distinct(R, swapper')
    BY <2>1, <2>2, <2>4, <2>5 DEF Distinct, r
  <2>7. /\ Has(swapper') = Range(swapper.tokens) \cup Range(r)
        /\ Has(swapper) = Range(swapper.tokens) \cup Range(q)
    BY <2>1 DEF Has, q, r
  <2>8. /\ OnlyChange(Swapper, Held, Held') /\ Swapper \in Owners
        /\ Held'[Swapper] = Has(swapper') /\ Held[Swapper] = Has(swapper)
    BY <1>1, SwapperChanges, HeldBy
  <2>9. /\ Held'[Swapper] \subseteq Held[Swapper] /\ given \subseteq Held[Swapper]
        /\ Apart(R, given, Held'[Swapper]) /\ OnePerId(R, given)
    BY <2>3, <2>4, <2>5, <2>7, <2>8 DEF Apart, OnePerId
  <2>10. CustodyType(Held, wire, handed \cup tracked, minted)
    BY HeldType
  <2> HIDE DEF given
  <2>11. Custody(R, Held', wire \cup given, handed \cup tracked, minted)
    BY <1>2, <2>8, <2>9, <2>10, CustodyGives
  <2>12. QED
    BY <1>1, <2>1, <2>6, <2>11, HonestServers
<1>5. QED
  BY <1>3, <1>4

LEMMA HonestNext ==
    ASSUME NEW R, OneAtATime, TypeOK, Honest(R), unsaved' \subseteq R, [Next]_vars
    PROVE  Honest(R)'
<1>1. TypeOK'
  BY TypeNext
<1>2. ASSUME NEW u \in Users, Crash(u) PROVE Honest(R)'
  BY <1>1, <1>2, HonestCrash
<1>3. ASSUME NEW u \in Users, NEW s \in Slots, Operation(u, s) PROVE Honest(R)'
  <2>1. ASSUME NEW v, Worked(u, s, v) PROVE Honest(R)'
    BY <1>1, <2>1, HonestWorked
  <2>2. Lifecycle(u, s) \/ Withdrew(u, s) \/ Received(u, s) \/ \E v : Worked(u, s, v)
    BY <1>3, OperationEffect
  <2>3. QED
    BY <1>1, <2>1, <2>2, HonestLifecycle, HonestWithdrew, HonestReceived
<1>4. ASSUME NEW h \in Handlers, NEW token \in handed, SwapTokens(h, token) PROVE Honest(R)'
  BY <1>4, HonestSwapTokens
<1>5. ASSUME NEW h \in Handlers, SwapTransfer(h) \/ SwapPop(h) PROVE Honest(R)'
  BY <1>5, HonestSwapTransfer, HonestSwapPop
<1>6. CASE Tick \/ UNCHANGED vars \/ \E h \in Handlers : SwapPanic(h)
  <2>1. UNCHANGED <<kind, app, disk, op, wire, handed, tracked, minted, swapper>>
    BY <1>6 DEF Tick, aside, vars, SwapPanic, Clients
  <2>2. Held' = Held
    BY <2>1, SwapperChanges
  <2>3. Custody(R, Held', wire', handed' \cup tracked', minted') /\ Distinct(R, swapper')
    BY <2>1, <2>2 DEF Honest
  <2>4. QED
    BY <2>1, <2>3, HonestServers
<1>7. QED
  BY <1>2, <1>3, <1>4, <1>5, <1>6 DEF Next, Rest

\* The ids of the tokens that an owner has at first.
First(p) == IF p = Swapper THEN Float ELSE Purse[p]

\* A wallet with the tokens of a first withdrawal has each of them once.
LEMMA EndowedHas ==
    ASSUME NEW R, now = 1, NEW p \in Owners, NEW ids \in Seq(1 .. MaxId),
           \A i, j \in DOMAIN ids : ids[i] = ids[j] => i = j
    PROVE  /\ Distinct(R, Endowed(p, ids))
           /\ Has(Endowed(p, ids)) = Range(Endowed(p, ids).tokens)
           /\ \A x \in Has(Endowed(p, ids)) : x \in Tokens /\ x.id \in Range(ids)
           /\ OnePerId(R, Has(Endowed(p, ids)))
<1> DEFINE w == Endowed(p, ids)
           T == [i \in DOMAIN ids |-> Minted(ids[i], Ticket(p))]
<1>1. w.tokens = T /\ w.pending = <<>>
  <2>1. ASSUME NEW k, NEW x \in Wallets(k), NEW t, NEW S
        PROVE  /\ [x EXCEPT !.tickets = t, !.tokens = S].tokens = S
               /\ [x EXCEPT !.tickets = t, !.tokens = S].pending = x.pending
    BY DEF Wallets
  <2>2. NewWallet(p) \in Wallets(p) /\ NewWallet(p).pending = <<>>
    <3>1. <<>> \in Seq(Tokens) /\ <<>> \in Seq(Tickets)
      BY EmptySeq
    <3>2. QED
      BY <3>1 DEF NewWallet, Wallets
  <2>3. w = [NewWallet(p) EXCEPT !.tickets = <<Ticket(p)>>, !.tokens = T]
    BY DEF Endowed
  <2> HIDE DEF T, w
  <2>4. QED
    BY <2>1, <2>2, <2>3
<1>2. ASSUME NEW i \in DOMAIN ids PROVE T[i] \in Tokens /\ T[i].id = ids[i]
  <2>1. ids[i] \in 1 .. MaxId
    BY LenProperties, ElementOfSeq
  <2>2. Ticket(p) \in Tickets
    BY TicketIsTicket
  <2>3. QED
    BY <2>1, <2>2, MintedIsToken
<1>3. DOMAIN T = DOMAIN ids
  OBVIOUS
<1> HIDE DEF T, w
<1>4. Range(<<>>) = {} /\ Unique(R, <<>>)
  BY DEF Range, Unique
<1>5. Unique(R, T)
  BY <1>2, <1>3 DEF Unique
<1>6. Has(w) = Range(T)
  BY <1>1, <1>4 DEF Has
<1>7. \A x \in Range(T) : x \in Tokens /\ x.id \in Range(ids)
  BY <1>2, <1>3 DEF Range
<1>8. OnePerId(R, Range(T))
  BY <1>5 DEF OnePerId, Unique, Range
<1>9. Distinct(R, w)
  BY <1>1, <1>4, <1>5 DEF Distinct, Apart
<1>10. QED
  BY <1>1, <1>6, <1>7, <1>8, <1>9 DEF w

LEMMA HonestInit ==
    ASSUME NEW R, OneAtATime, Init
    PROVE  Honest(R)
<1>1. /\ now = 1 /\ disk = app /\ app = [u \in Users |-> Endowed(u, Purse[u])]
      /\ op = [u \in Users |-> [s \in Slots |-> Idle]]
      /\ swapper = Endowed(Swapper, Float) /\ wire = {} /\ handed = {}
      /\ tracked = UNION {Range(w.tokens) : w \in Range(app) \cup {swapper}}
      /\ minted = Cardinality(Issued)
  BY DEF Init
<1>2. ASSUME NEW p \in Owners
      PROVE  /\ First(p) \in Seq(1 .. MaxId) /\ Range(First(p)) \subseteq Issued
             /\ \A i, j \in DOMAIN First(p) : First(p)[i] = First(p)[j] => i = j
  <2>1. CASE p = Swapper
    <3>1. First(p) = Float
      BY <2>1 DEF First
    <3>2. Float \in Seq(1 .. MaxId)
      BY WalletNetworkAssumption
    <3>3. Range(Float) \subseteq Issued
      BY DEF Issued
    <3>4. \A i, j \in DOMAIN Float : Float[i] = Float[j] => i = j
      BY IssuedOnce
    <3>5. QED
      BY <3>1, <3>2, <3>3, <3>4
  <2>2. CASE p # Swapper
    <3>1. p \in Users /\ First(p) = Purse[p]
      BY <2>2 DEF First, Owners
    <3>2. Purse[p] \in Seq(1 .. MaxId) /\ Range(Purse[p]) \subseteq Issued
      BY <3>1, WalletNetworkAssumption DEF Issued
    <3>3. \A i, j \in DOMAIN Purse[p] : Purse[p][i] = Purse[p][j] => i = j
      BY <3>1, IssuedOnce
    <3>4. QED
      BY <3>1, <3>2, <3>3
  <2>3. QED
    BY <2>1, <2>2
<1>3. ASSUME NEW p \in Owners, NEW q \in Owners, p # q PROVE Range(First(p)) \cap Range(First(q)) = {}
  <2>1. CASE p = Swapper \/ q = Swapper
    BY <1>3, <2>1, IssuedOnce DEF First, Owners
  <2>2. CASE p # Swapper /\ q # Swapper
    <3>1. p \in Users /\ q \in Users /\ First(p) = Purse[p] /\ First(q) = Purse[q]
      BY <2>2 DEF First, Owners
    <3>2. \A i \in DOMAIN Purse[p], j \in DOMAIN Purse[q] : Purse[p][i] # Purse[q][j]
      BY <1>3, <3>1, IssuedOnce
    <3>3. QED
      BY <3>1, <3>2 DEF Range
  <2>3. QED
    BY <2>1, <2>2
<1> DEFINE w(p) == Endowed(p, First(p))
<1>4. ASSUME NEW p \in Owners
      PROVE  /\ Distinct(R, w(p)) /\ Has(w(p)) = Range(w(p).tokens) /\ OnePerId(R, Has(w(p)))
             /\ \A x \in Has(w(p)) : x \in Tokens /\ x.id \in Range(First(p))
  BY <1>1, <1>2, EndowedHas
<1>5. swapper = w(Swapper) /\ \A u \in Users : app[u] = w(u) /\ disk[u] = w(u) /\ op[u][Slot] = Idle
  BY <1>1, OneSlot, WalletNetworkAssumption DEF First
<1>6. ASSUME NEW u \in Users
      PROVE  /\ Sound(R, Cli(u), app[u], disk[u], op[u][Slot]) /\ Held[u] = Has(w(u))
  <2>1. Distinct(R, w(u)) /\ u \in Owners /\ Cli(u) \in BOOLEAN
    BY <1>4 DEF Owners, Cli
  <2> HIDE DEF w
  <2>2. QED
    BY <1>5, <2>1, SoundIdle, HeldBy
<1>7. Distinct(R, swapper) /\ Held[Swapper] = Has(w(Swapper))
  BY <1>4, <1>5, HeldBy DEF Owners
<1>8. \A p \in Owners : Held[p] = Has(w(p))
  BY <1>6, <1>7 DEF Owners
<1>9. ASSUME NEW y \in handed \cup tracked PROVE \E q \in Owners : y \in Held[q]
  <2>1. PICK v \in Range(app) \cup {swapper} : y \in Range(v.tokens)
    BY <1>1, <1>9
  <2>2. \E q \in Owners : v = w(q)
    BY <1>1, <1>5, <2>1 DEF Range, Owners
  <2>3. QED
    BY <1>4, <1>8, <2>1, <2>2
<1> HIDE DEF w
<1>10. ASSUME NEW p \in Owners, NEW q \in Owners, NEW x \in Held[p], NEW y \in Held[q], x.id = y.id
       PROVE  p = q /\ (x = y \/ x.id \in R)
  <2>1. x.id \in Range(First(p)) /\ y.id \in Range(First(q)) /\ OnePerId(R, Held[p])
    BY <1>4, <1>8
  <2>2. p = q
    BY <1>3, <1>10, <2>1
  <2>3. QED
    BY <1>10, <2>1, <2>2 DEF OnePerId
<1>11. \A p \in Owners : \A x \in Held[p] : x \in Tokens /\ Later(x, x) /\ x.id <= minted
  <2>1. PICK n \in 0 .. MaxId : Issued = 1 .. n
    BY IssuedOnce
  <2>2. n \in Nat /\ Cardinality(1 .. n) = n
    BY WalletNetworkAssumption, FS_Interval
  <2>3. minted = n
    BY <1>1, <2>1, <2>2
  <2>4. ASSUME NEW p \in Owners, NEW x \in Held[p] PROVE x \in Tokens /\ Later(x, x) /\ x.id <= minted
    <3>1. x \in Tokens /\ x.id \in 1 .. n
      BY <1>2, <1>4, <1>8, <2>1, <2>4
    <3>2. QED
      BY <2>2, <2>3, <3>1, LaterThanItself
  <2>5. QED
    BY <2>4
<1>12. \A p, q \in Owners : p # q => Apart(R, Held[p], Held[q])
  BY <1>10 DEF Apart
<1>13. ASSUME NEW p \in Owners
       PROVE  Apart(R, Held[p], {}) /\ Numbered(R, Held[p], minted) /\ Newest(R, Held[p], handed \cup tracked)
  <2>1. Apart(R, Held[p], {}) /\ Numbered(R, Held[p], minted)
    BY <1>11 DEF Apart, Numbered
  <2>2. Newest(R, Held[p], handed \cup tracked)
    BY <1>9, <1>10, <1>11 DEF Newest
  <2>3. QED
    BY <2>1, <2>2
<1>14. OnePerId(R, {}) /\ Numbered(R, {}, minted) /\ Newest(R, {}, handed \cup tracked)
  BY DEF OnePerId, Numbered, Newest
<1>15. Numbered(R, handed \cup tracked, minted)
  BY <1>9, <1>11 DEF Numbered
<1>16. Comparable(R, handed \cup tracked)
  BY <1>9, <1>10, <1>11 DEF Comparable
<1>17. Custody(R, Held, wire, handed \cup tracked, minted)
  BY <1>1, <1>12, <1>13, <1>14, <1>15, <1>16 DEF Custody
<1>18. QED
  BY <1>6, <1>7, <1>17 DEF Honest
-----------------------------------------------------------------------------
(***************************************************************************)
(* One holder, and no double spend.                                        *)
(***************************************************************************)
LEMMA LaterHistory ==
    ASSUME NEW x \in Tokens, NEW y \in Tokens, Later(x, y)
    PROVE  IsPrefix(y.chain, x.chain)
<1> DEFINE s == y.chain
           t == x.chain
           n == Len(s)
<1>1. /\ s \in Seq(Links) /\ t \in Seq(Links) /\ n \in Nat /\ Len(t) \in Nat /\ n <= Len(t)
      /\ \A i \in 1 .. n : t[i] = s[i]
  BY TokenFields DEF Later
<1> HIDE DEF s, t
<1>2. SubSeq(s, 1, n) = [i \in 1 .. n |-> s[i]]
  BY <1>1
<1>3. SubSeq(t, 1, n) = [i \in 1 .. n |-> t[i]]
  BY <1>1
<1>4. SubSeq(s, 1, n) = SubSeq(t, 1, n)
  BY <1>1, <1>2, <1>3
<1>5. IsPrefix(s, t)
  BY <1>1, <1>4 DEF IsPrefix
<1>6. QED
  BY <1>5 DEF s, t

\* What custody says of the tokens that others see.
LEMMA CustodyNoFork ==
    ASSUME OneAtATime, TypeOK, Honest(unsaved)
    PROVE  HonestNeverFlagged
<1> DEFINE S == handed \cup tracked
<1>1. /\ Comparable(unsaved, S) /\ Newest(unsaved, wire, S) /\ OnePerId(unsaved, wire)
      /\ wire \subseteq Tokens /\ S \subseteq Tokens
  BY DEF Honest, Custody, TypeOK
<1>2. ASSUME NEW t \in S \cup wire, NEW k \in S \cup wire, t.id = k.id, t.id \notin unsaved
      PROVE  Later(t, k) \/ Later(k, t)
  <2>1. CASE t \in S /\ k \in S
    BY <1>1, <1>2, <2>1 DEF Comparable
  <2>2. CASE t \in wire /\ k \in S
    BY <1>1, <1>2, <2>2 DEF Newest
  <2>3. CASE t \in S /\ k \in wire
    BY <1>1, <1>2, <2>3 DEF Newest
  <2>4. CASE t \in wire /\ k \in wire
    BY <1>1, <1>2, <2>4, LaterThanItself DEF OnePerId
  <2>5. QED
    BY <2>1, <2>2, <2>3, <2>4
<1>3. ASSUME NEW t \in S \cup wire, NEW k \in S \cup wire, t.id \notin unsaved
      PROVE  ~ Fork(t, k)
  <2> SUFFICES ASSUME t.id = k.id
               PROVE  IsPrefix(t.chain, k.chain) \/ IsPrefix(k.chain, t.chain)
    BY DEF Fork
  <2>1. t \in Tokens /\ k \in Tokens
    BY <1>1
  <2>2. QED
    BY <1>2, <1>3, <2>1, LaterHistory
<1>4. QED
  BY <1>3 DEF HonestNeverFlagged

\* The places of one owner.
Holding(p, T, P, O) ==
    At(<<p, "tokens">>, T) \cup At(<<p, "pending">>, P) \cup In(<<p, "out">>, O)

LEMMA HoldingOnce ==
    ASSUME NEW R, NEW p, NEW T, NEW P, NEW O, Unique(R, T), Unique(R, P), Apart(R, Range(T), Range(P)),
           Apart(R, Range(T) \cup Range(P), O), OnePerId(R, O)
    PROVE  /\ \A x \in Holding(p, T, P, O) : x[3] \in Range(T) \cup Range(P) \cup O
           /\ \A x, y \in Holding(p, T, P, O) : x[3].id = y[3].id => x = y \/ x[3].id \in R
<1>1. ASSUME NEW place, NEW s, NEW x \in At(place, s)
      PROVE  x[3] \in Range(s) /\ \E i \in DOMAIN s : x = <<place, i, s[i]>> /\ x[3] = s[i]
  BY DEF At, Range
<1>2. ASSUME NEW place, NEW A, NEW x \in In(place, A)
      PROVE  x = <<place, 0, x[3]>> /\ x[3] \in A
  BY DEF In
<1>3. \A x \in Holding(p, T, P, O) : x[3] \in Range(T) \cup Range(P) \cup O
  BY <1>1, <1>2 DEF Holding
<1>4. ASSUME NEW place, NEW s, Unique(R, s), NEW x \in At(place, s), NEW y \in At(place, s),
             x[3].id = y[3].id, x[3].id \notin R
      PROVE  x = y
  <2>1. PICK i \in DOMAIN s : x = <<place, i, s[i]>> /\ x[3] = s[i]
    BY <1>1
  <2>2. PICK j \in DOMAIN s : y = <<place, j, s[j]>> /\ y[3] = s[j]
    BY <1>1
  <2>3. i = j
    BY <1>4, <2>1, <2>2 DEF Unique
  <2>4. QED
    BY <2>1, <2>2, <2>3
<1>5. ASSUME NEW x \in Holding(p, T, P, O), NEW y \in Holding(p, T, P, O), x[3].id = y[3].id,
             x[3].id \notin R
      PROVE  x = y
  <2> DEFINE A == At(<<p, "tokens">>, T)
             B == At(<<p, "pending">>, P)
             C == In(<<p, "out">>, O)
  <2>1. \A z \in A : z[3] \in Range(T)
    BY <1>1
  <2>2. \A z \in B : z[3] \in Range(P)
    BY <1>1
  <2>3. \A z \in C : z[3] \in O /\ z = <<<<p, "out">>, 0, z[3]>>
    BY <1>2
  <2>4. x \in A \cup B \cup C /\ y \in A \cup B \cup C
    BY DEF Holding
  <2>5. \A z, v \in A : z[3].id = v[3].id => z = v \/ z[3].id \in R
    BY <1>4
  <2>6. \A z, v \in B : z[3].id = v[3].id => z = v \/ z[3].id \in R
    BY <1>4
  <2>7. \A z, v \in C : z[3].id = v[3].id => z = v \/ z[3].id \in R
    BY <2>3 DEF OnePerId
  <2> HIDE DEF A, B, C
  <2>8. QED
    BY <1>5, <2>1, <2>2, <2>3, <2>4, <2>5, <2>6, <2>7 DEF Apart
<1>6. QED
  BY <1>3, <1>5

\* The wallet that a user's next operation works on, and what is on its way out.
NextWallet(cli, a, d, o) == IF o.pc = "file" THEN o.w ELSE IF cli THEN d ELSE a
Departing(o) == IF o.pc \in {"save", "handover"} THEN o.out ELSE {}

LEMMA SoundPlaces ==
    ASSUME NEW R, NEW u, NEW cli \in BOOLEAN, NEW a, NEW d, NEW o \in Operations(u),
           Sound(R, cli, a, d, o)
    PROVE  /\ Distinct(R, NextWallet(cli, a, d, o))
           /\ Apart(R, Has(NextWallet(cli, a, d, o)), Departing(o)) /\ OnePerId(R, Departing(o))
           /\ Has(NextWallet(cli, a, d, o)) \cup Departing(o) \subseteq Live(cli, a, d, o)
<1> DEFINE w == NextWallet(cli, a, d, o)
<1>1. o.pc \in {"idle", "open", "publish", "save", "handover", "output", "file"}
  BY TypeOfOperation
<1>2. \A A : Apart(R, A, {}) /\ OnePerId(R, {})
  BY DEF Apart, OnePerId
<1>3. CASE o.pc = "file"
  <2>1. w = o.w /\ Departing(o) = {} /\ Distinct(R, o.w)
    BY <1>3 DEF NextWallet, Departing, Sound
  <2>2. Has(o.w) \subseteq Live(cli, a, d, o)
    BY <1>3 DEF Live
  <2>3. QED
    BY <1>2, <2>1, <2>2
<1>4. CASE o.pc \in {"save", "handover"}
  <2>1. o.pc \in Outgoing
    BY <1>4 DEF Outgoing
  <2>2. w = o.w /\ Departing(o) = o.out
    BY <1>4 DEF NextWallet, Departing, Sound
  <2>3. Distinct(R, o.w) /\ Apart(R, Has(o.w), o.out) /\ OnePerId(R, o.out)
    BY <1>4, <2>1 DEF Sound
  <2>4. Has(o.w) \cup o.out \subseteq Live(cli, a, d, o)
    BY <1>4, <2>1 DEF Live
  <2>5. QED
    BY <2>2, <2>3, <2>4
<1>5. CASE o.pc \in {"idle", "open", "publish", "output"}
  <2>1. Distinct(R, d) /\ (cli \/ a = d)
    BY <1>5 DEF Sound
  <2>2. w = d /\ Departing(o) = {}
    BY <1>5, <2>1 DEF NextWallet, Departing
  <2>3. Has(d) \subseteq Live(cli, a, d, o)
    BY <1>5 DEF Live
  <2>4. QED
    BY <1>2, <2>1, <2>2, <2>3
<1>6. QED
  BY <1>1, <1>3, <1>4, <1>5

\* Every place is one of a user, one of the swapper or the wire.
LEMMA PlacesOfUser ==
    ASSUME NEW R, OneAtATime, TypeOK, Honest(R), NEW u \in Users
    PROVE  LET Places == Holding(u, Current(u).tokens, Current(u).pending, Departing(op[u][Slot]))
           IN  /\ \A x \in Places : x[3] \in Held[u]
               /\ \A x, y \in Places : x[3].id = y[3].id => x = y \/ x[3].id \in R
<1> DEFINE o == op[u][Slot]
           w == NextWallet(Cli(u), app[u], disk[u], o)
<1>1. Slots = {Slot} /\ o \in Operations(u) /\ Cli(u) \in BOOLEAN
  BY OneSlot, TypeOfUser, HeldType
<1>2. Current(u) = w
  <2>1. CASE o.pc = "file"
    <3>1. (CHOOSE s \in Slots : op[u][s].pc = "file") = Slot
      BY <1>1, <2>1
    <3>2. QED
      BY <1>1, <2>1, <3>1 DEF Current, NextWallet
  <2>2. CASE o.pc # "file"
    BY <1>1, <2>2 DEF Current, NextWallet, Stored
  <2>3. QED
    BY <2>1, <2>2
<1>3. Sound(R, Cli(u), app[u], disk[u], o) /\ Held[u] = Live(Cli(u), app[u], disk[u], o)
  BY HeldBy DEF Honest
<1>4. /\ Distinct(R, w) /\ Apart(R, Has(w), Departing(o)) /\ OnePerId(R, Departing(o))
      /\ Has(w) \cup Departing(o) \subseteq Held[u]
  BY <1>1, <1>3, SoundPlaces
<1> HIDE DEF w, o
<1>5. /\ Unique(R, w.tokens) /\ Unique(R, w.pending) /\ Apart(R, Range(w.tokens), Range(w.pending))
      /\ Apart(R, Range(w.tokens) \cup Range(w.pending), Departing(o))
      /\ Range(w.tokens) \cup Range(w.pending) \cup Departing(o) \subseteq Held[u]
  BY <1>4 DEF Distinct, Has
<1> DEFINE Places == Holding(u, w.tokens, w.pending, Departing(o))
<1>6. /\ \A x \in Places : x[3] \in Range(w.tokens) \cup Range(w.pending) \cup Departing(o)
      /\ \A x, y \in Places : x[3].id = y[3].id => x = y \/ x[3].id \in R
  BY <1>4, <1>5, HoldingOnce
<1> HIDE DEF Places
<1>7. \A x \in Places : x[3] \in Held[u]
  BY <1>5, <1>6
<1>8. QED
  BY <1>2, <1>6, <1>7 DEF Places, o

LEMMA PlacesOfSwapper ==
    ASSUME NEW R, OneAtATime, TypeOK, Honest(R)
    PROVE  LET Places == Holding(Swapper, swapper.tokens, swapper.pending, {})
           IN  /\ \A x \in Places : x[3] \in Held[Swapper]
               /\ \A x, y \in Places : x[3].id = y[3].id => x = y \/ x[3].id \in R
<1>1. /\ Unique(R, swapper.tokens) /\ Unique(R, swapper.pending)
      /\ Apart(R, Range(swapper.tokens), Range(swapper.pending))
  BY DEF Honest, Distinct
<1>2. Apart(R, Range(swapper.tokens) \cup Range(swapper.pending), {}) /\ OnePerId(R, {})
  BY DEF Apart, OnePerId
<1>3. Held[Swapper] = Range(swapper.tokens) \cup Range(swapper.pending)
  BY HeldBy DEF Has
<1> DEFINE Places == Holding(Swapper, swapper.tokens, swapper.pending, {})
<1>4. /\ \A x \in Places : x[3] \in Range(swapper.tokens) \cup Range(swapper.pending) \cup {}
      /\ \A x, y \in Places : x[3].id = y[3].id => x = y \/ x[3].id \in R
  BY <1>1, <1>2, HoldingOnce
<1> HIDE DEF Places
<1>5. QED
  BY <1>3, <1>4 DEF Places

\* The places of an owner, and of the wire.
PlacesOf(p) ==
    IF p = Swapper THEN Holding(Swapper, swapper.tokens, swapper.pending, {})
    ELSE Holding(p, Current(p).tokens, Current(p).pending, Departing(op[p][Slot]))

LEMMA WhereaboutsCovered ==
    ASSUME OneAtATime, NEW x \in Whereabouts
    PROVE  (\E p \in Owners : x \in PlacesOf(p)) \/ x \in In(<<Swapper, "wire">>, wire)
<1> DEFINE A(u) == At(<<u, "tokens">>, Current(u).tokens)
           B(u) == At(<<u, "pending">>, Current(u).pending)
           C(u, s) == IF Published(u, s) THEN In(<<u, "out">>, op[u][s].out) ELSE {}
           W == In(<<Swapper, "wire">>, wire)
           T == At(<<Swapper, "tokens">>, swapper.tokens)
           P == At(<<Swapper, "pending">>, swapper.pending)
<1>1. /\ Slots = {Slot} /\ Swapper \notin Users
      /\ Swapper \in Owners /\ Users \subseteq Owners
  BY OneSlot, WalletNetworkAssumption DEF Owners
<1>2. Whereabouts = UNION ({A(u) : u \in Users} \cup {B(u) : u \in Users}
                            \cup {C(u, s) : u \in Users, s \in Slots} \cup {W, T, P})
  BY DEF Whereabouts
<1>3. ASSUME NEW u \in Users PROVE A(u) \cup B(u) \cup C(u, Slot) \subseteq PlacesOf(u)
  <2>1. PlacesOf(u) = A(u) \cup B(u) \cup In(<<u, "out">>, Departing(op[u][Slot]))
    BY <1>1 DEF PlacesOf, Holding
  <2>2. C(u, Slot) \subseteq In(<<u, "out">>, Departing(op[u][Slot]))
    BY DEF Published, Departing
  <2>3. QED
    BY <2>1, <2>2
<1>4. T \cup P \subseteq PlacesOf(Swapper)
  BY DEF PlacesOf, Holding
<1> HIDE DEF A, B, C, W, T, P
<1>5. \/ \E u \in Users : x \in A(u)
      \/ \E u \in Users : x \in B(u)
      \/ \E u \in Users, s \in Slots : x \in C(u, s)
      \/ x \in W \/ x \in T \/ x \in P
  BY <1>2
<1>6. (\E p \in Owners : x \in PlacesOf(p)) \/ x \in W
  BY <1>1, <1>3, <1>4, <1>5
<1>7. QED
  BY <1>6 DEF W

\* What custody says of places.
LEMMA CustodyOneHolder ==
    ASSUME OneAtATime, TypeOK, Honest(unsaved)
    PROVE  OneHolder
<1> DEFINE W == In(<<Swapper, "wire">>, wire)
<1>1. Custody(unsaved, Held, wire, handed \cup tracked, minted)
  BY DEF Honest
<1>2. ASSUME NEW p \in Owners
      PROVE  /\ \A x \in PlacesOf(p) : x[3] \in Held[p]
             /\ \A x, y \in PlacesOf(p) : x[3].id = y[3].id => x = y \/ x[3].id \in unsaved
  <2>1. CASE p = Swapper
    BY <2>1, PlacesOfSwapper DEF PlacesOf
  <2>2. CASE p # Swapper
    <3>1. p \in Users
      BY <2>2 DEF Owners
    <3>2. QED
      BY <2>2, <3>1, PlacesOfUser DEF PlacesOf
  <2>3. QED
    BY <2>1, <2>2
<1>3. ASSUME NEW x \in W PROVE x = <<<<Swapper, "wire">>, 0, x[3]>> /\ x[3] \in wire
  BY DEF In
<1>4. \A x, y \in W : x[3].id = y[3].id => x = y \/ x[3].id \in unsaved
  BY <1>1, <1>3 DEF Custody, OnePerId
<1>5. \A x \in W : x[3] \in wire
  BY <1>3
<1> SUFFICES ASSUME NEW x \in Whereabouts, NEW y \in Whereabouts, x[3].id = y[3].id,
                    x[3].id \notin unsaved
             PROVE  x = y
  BY DEF OneHolder
<1> HIDE DEF W
<1>6. (\E p \in Owners : x \in PlacesOf(p)) \/ x \in W
  BY WhereaboutsCovered DEF W
<1>7. (\E p \in Owners : y \in PlacesOf(p)) \/ y \in W
  BY WhereaboutsCovered DEF W
<1>8. ASSUME NEW p \in Owners, NEW q \in Owners, x \in PlacesOf(p), y \in PlacesOf(q)
      PROVE  x = y
  <2>1. x[3] \in Held[p] /\ y[3] \in Held[q]
    BY <1>2, <1>8
  <2>2. p = q
    BY <1>1, <2>1 DEF Custody, Apart
  <2>3. QED
    BY <1>2, <1>8, <2>2
<1>9. ASSUME NEW p \in Owners, NEW z \in PlacesOf(p), NEW v \in W PROVE z[3].id # v[3].id \/ z[3].id \in unsaved
  <2>1. z[3] \in Held[p] /\ v[3] \in wire
    BY <1>2, <1>5
  <2>2. QED
    BY <1>1, <2>1 DEF Custody, Apart
<1>10. QED
  BY <1>4, <1>6, <1>7, <1>8, <1>9

\* Custody holds whatever ids are left out of it, those that are not saved among them.
AlwaysHonest == \A R \in SUBSET (1 .. MaxId) : unsaved \subseteq R => Honest(R)

LEMMA AlwaysHonestInit ==
    ASSUME OneAtATime, Init
    PROVE  TypeOK /\ AlwaysHonest
BY TypeInit, HonestInit DEF AlwaysHonest

LEMMA AlwaysHonestNext ==
    ASSUME OneAtATime, TypeOK, AlwaysHonest, [Next]_vars
    PROVE  TypeOK' /\ AlwaysHonest'
<1>1. TypeOK' /\ unsaved \subseteq unsaved'
  BY TypeNext, UnsavedGrows
<1>2. ASSUME NEW R \in SUBSET (1 .. MaxId), unsaved' \subseteq R PROVE Honest(R)'
  <2>1. Honest(R)
    BY <1>1, <1>2 DEF AlwaysHonest
  <2>2. QED
    BY <1>2, <2>1, HonestNext
<1>3. QED
  BY <1>1, <1>2 DEF AlwaysHonest

LEMMA HonestNow ==
    ASSUME TypeOK, AlwaysHonest
    PROVE  Honest(unsaved)
BY DEF TypeOK, AlwaysHonest

\* While users run one operation at a time and import a token once, no token is in
\* two wallets, twice in one, or both on the wire and in a wallet: not after a
\* transfer, a self transfer, a withdrawal, a failed or a lost call, a swap, or a
\* crash wherever it comes (src/src/integration/src/lib.rs, src/src/wallet/src/lib.rs
\* and cli.rs, src/src/swapper/src/server.rs).  The only tokens left out are those
\* that a command line printed before it was killed and did not save as sent
\* (cli.rs, 406-413): they do have two holders.
THEOREM TokensHaveOneHolder == OneAtATime => (Spec => []OneHolder)
<1> SUFFICES ASSUME OneAtATime PROVE Spec => []OneHolder
  OBVIOUS
<1>1. Init => TypeOK /\ AlwaysHonest
  BY AlwaysHonestInit
<1>2. TypeOK /\ AlwaysHonest /\ [Next]_vars => (TypeOK /\ AlwaysHonest)'
  BY AlwaysHonestNext
<1>3. TypeOK /\ AlwaysHonest => OneHolder
  BY HonestNow, CustodyOneHolder
<1>4. QED
  BY <1>1, <1>2, <1>3, PTL DEF Spec

\* Then of all the histories that clients hand out and servers are told of no two
\* fork, so that the token map's double-spend rule (src/src/tokenmap/src/server.rs)
\* never flags an honest client's token, unless its command line printed that token,
\* was killed before it saved, and may have paid with it again.
THEOREM HonestUsersNeverFlagged == OneAtATime => (Spec => []HonestNeverFlagged)
<1> SUFFICES ASSUME OneAtATime PROVE Spec => []HonestNeverFlagged
  OBVIOUS
<1>1. Init => TypeOK /\ AlwaysHonest
  BY AlwaysHonestInit
<1>2. TypeOK /\ AlwaysHonest /\ [Next]_vars => (TypeOK /\ AlwaysHonest)'
  BY AlwaysHonestNext
<1>3. TypeOK /\ AlwaysHonest => HonestNeverFlagged
  BY HonestNow, CustodyNoFork
<1>4. QED
  BY <1>1, <1>2, <1>3, PTL DEF Spec
=============================================================================
