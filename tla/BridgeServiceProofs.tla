------------------------ MODULE BridgeServiceProofs ------------------------
(***************************************************************************)
(* Theorems about the bridge service, for any number of deposits,          *)
(* withdrawals, faults, reorganizations and crashes, and for any units.    *)
(***************************************************************************)
EXTENDS BridgeService, SequenceTheorems, WellFoundedInduction, TLAPS

-----------------------------------------------------------------------------
(* Amounts *)

Amount == [whole : Nat, micros : Nat]

LEMMA Units ==
    /\ MicrosPerWhole \in Nat \ {0} /\ PerMicro \in Nat \ {0} /\ Word \in Nat \ {0}
    /\ PerWhole = MicrosPerWhole * PerMicro /\ PerWhole \in Nat \ {0}
BY UnitsAssumption DEF PerWhole

LEMMA DivMod ==
    ASSUME NEW n \in Nat, NEW k \in Nat \ {0}
    PROVE  \E q, r \in Nat : /\ q = n \div k /\ r = n % k
                             /\ k * q + r = n /\ r <= n /\ k * q <= n
<1>1. PICK q \in Nat, r \in 0 .. k - 1 : q = n \div k /\ r = n % k /\ q * k + r = n
  OBVIOUS
<1>2. q * k \in Nat /\ q * k = k * q
  OBVIOUS
<1>3. k * q + r = n /\ r <= n /\ k * q <= n /\ r \in Nat
  BY <1>1, <1>2
<1>4. QED
  BY <1>1, <1>3

\* What is converted is worth at most what it was.
LEMMA ConversionNeverGains ==
    ASSUME NEW n \in Nat
    PROVE  /\ FromWei(n) \in Amount /\ Value(FromWei(n)) <= n
           /\ FromSats(n) \in Amount /\ Value(FromSats(n)) <= n
<1> DEFINE w == n \div PerWhole
           r == n % PerWhole
           m == r \div PerMicro
<1>1. w \in Nat /\ r \in Nat /\ PerWhole * w + r = n
  BY Units, DivMod
<1>2. /\ m \in Nat /\ PerMicro * m <= r
  BY <1>1, Units, DivMod
<1> HIDE DEF w, r, m
<1>3. /\ w * PerWhole \in Nat /\ w * PerWhole = PerWhole * w
      /\ m * PerMicro \in Nat /\ m * PerMicro = PerMicro * m
  BY <1>1, <1>2, Units
<1>4. w * PerWhole + m * PerMicro <= n
  BY <1>1, <1>2, <1>3
<1>5. QED
  BY <1>1, <1>2, <1>4 DEF FromWei, FromSats, Value, Amount, w, r, m

\* Amount::add loses and makes nothing.
LEMMA AddIsExact ==
    ASSUME NEW a \in Amount, NEW b \in Amount
    PROVE  /\ AddAmount(a, b) \in Amount
           /\ Value(AddAmount(a, b)) = Value(a) + Value(b)
<1> DEFINE m == a.micros + b.micros
           q == m \div MicrosPerWhole
           r == m % MicrosPerWhole
<1>1. /\ a.whole \in Nat /\ a.micros \in Nat /\ b.whole \in Nat /\ b.micros \in Nat
      /\ m \in Nat
  BY DEF Amount
<1>2. q \in Nat /\ r \in Nat /\ MicrosPerWhole * q + r = m
  BY <1>1, Units, DivMod
<1>3. AddAmount(a, b) = [whole |-> a.whole + b.whole + q, micros |-> r]
  BY DEF AddAmount
<1>4. m = a.micros + b.micros
  OBVIOUS
<1> HIDE DEF m, q, r
<1>5. m * PerMicro = q * PerWhole + r * PerMicro
  <2>1. \A x, y, z, t \in Nat : (x * y + z) * t = y * (x * t) + z * t
    OBVIOUS
  <2>2. QED
    BY <1>2, <2>1, Units
<1>6. m * PerMicro = a.micros * PerMicro + b.micros * PerMicro
  <2>1. \A x, y, z \in Nat : (x + y) * z = x * z + y * z
    OBVIOUS
  <2>2. QED
    BY <1>1, <1>4, <2>1, Units
<1>7. (a.whole + b.whole + q) * PerWhole = a.whole * PerWhole + b.whole * PerWhole + q * PerWhole
  <2>1. \A x, y, z, t \in Nat : (x + y + z) * t = x * t + y * t + z * t
    OBVIOUS
  <2>2. QED
    BY <1>1, <1>2, <2>1, Units
<1>8. /\ a.whole * PerWhole \in Nat /\ b.whole * PerWhole \in Nat /\ q * PerWhole \in Nat
      /\ a.micros * PerMicro \in Nat /\ b.micros * PerMicro \in Nat /\ r * PerMicro \in Nat
  BY <1>1, <1>2, Units
<1>9. QED
  BY <1>1, <1>2, <1>3, <1>5, <1>6, <1>7, <1>8 DEF Value, Amount

\* 64-bit arithmetic that wraps around only loses.
LEMMA WrappingOnlyLoses ==
    ASSUME NEW a \in Amount
    PROVE  ToWei(a) \in Nat /\ ToWei(a) <= Value(a)
<1> DEFINE w == a.whole * PerWhole
           m == a.micros * PerMicro
<1>1. w \in Nat /\ m \in Nat
  BY Units DEF Amount
<1> HIDE DEF w, m
<1>2. w % Word \in Nat /\ w % Word <= w /\ m % Word \in Nat /\ m % Word <= m
  BY <1>1, Units, DivMod
<1>3. (w % Word) + (m % Word) \in Nat
  BY <1>2
<1>4. /\ ((w % Word) + (m % Word)) % Word \in Nat
      /\ ((w % Word) + (m % Word)) % Word <= (w % Word) + (m % Word)
  BY <1>3, Units, DivMod
<1>5. QED
  BY <1>1, <1>2, <1>4 DEF ToWei, Value, w, m

\* withdraw_to_l1 adds the tokens up exactly.
LEMMA SumOfTwo ==
    ASSUME NEW a \in Amount, NEW b \in Amount
    PROVE  LET total == FoldSeq(AddAmount, [whole |-> 0, micros |-> 0], <<a, b>>)
           IN  total \in Amount /\ Value(total) = Value(a) + Value(b)
<1> DEFINE zero == [whole |-> 0, micros |-> 0]
           t == <<a, b>>
           pick(s) == CHOOSE x \in s : TRUE
           F(g) == [s \in SUBSET {1, 2} |->
                       IF s = {} THEN zero ELSE AddAmount(t[pick(s)], g[s \ {pick(s)}])]
           iter == CHOOSE g : g = F(g)
<1>0. /\ pick({1}) = 1 /\ pick({2}) = 2 /\ pick({1, 2}) \in {1, 2}
      /\ {1, 2} \ {1} = {2} /\ {1, 2} \ {2} = {1}
  <2>1. pick({1}) = 1 /\ pick({2}) = 2
    OBVIOUS
  <2>2. pick({1, 2}) \in {1, 2}
    OBVIOUS
  <2>3. {1, 2} \ {1} = {2} /\ {1, 2} \ {2} = {1}
    OBVIOUS
  <2>4. QED
    BY <2>1, <2>2, <2>3
<1>1. FoldSeq(AddAmount, zero, t) = iter[{1, 2}]
  <2>1. DOMAIN t = {1, 2}
    OBVIOUS
  <2>2. QED
    BY <2>1 DEF FoldSeq, FoldFunction, FoldFunctionOnSet, MapThenFoldSet
<1>2. iter = F(iter)
  <2> DEFINE one(i) == AddAmount(t[i], zero)
             h == [s \in SUBSET {1, 2} |->
                       IF s = {} THEN zero
                       ELSE IF s = {1} THEN one(1)
                       ELSE IF s = {2} THEN one(2)
                       ELSE IF pick({1, 2}) = 1 THEN AddAmount(t[1], one(2))
                       ELSE AddAmount(t[2], one(1))]
  <2>2. ASSUME NEW s \in SUBSET {1, 2}
        PROVE  h[s] = IF s = {} THEN zero ELSE AddAmount(t[pick(s)], h[s \ {pick(s)}])
    <3>1. s = {} \/ s = {1} \/ s = {2} \/ s = {1, 2}
      OBVIOUS
    <3> HIDE DEF pick, zero, t
    <3>2. QED
      BY <1>0, <3>1
  <2>3. h = F(h)
    BY <2>2
  <2> HIDE DEF h, F
  <2>4. QED
    BY <2>3
<1>3. /\ zero \in Amount /\ Value(zero) = 0
  BY Units DEF Amount, Value
<1> DEFINE p == pick({1, 2})
           q == IF p = 1 THEN 2 ELSE 1
<1>4. /\ p \in {1, 2} /\ {1, 2} \ {p} = {q} /\ pick({q}) = q /\ {q} \ {q} = {}
  <2> HIDE DEF pick
  <2>1. QED
    BY <1>0
<1>5. /\ iter[{1, 2}] = AddAmount(t[p], iter[{q}])
      /\ iter[{q}] = AddAmount(t[q], iter[{}])
      /\ iter[{}] = zero
  <2> HIDE DEF iter, zero, t
  <2>1. iter = F(iter)
    BY <1>2
  <2>2. {1, 2} \in SUBSET {1, 2} /\ {q} \in SUBSET {1, 2} /\ {} \in SUBSET {1, 2}
    BY <1>4
  <2>3. \A s \in SUBSET {1, 2} :
            iter[s] = IF s = {} THEN zero ELSE AddAmount(t[pick(s)], iter[s \ {pick(s)}])
    BY <2>1
  <2>4. {1, 2} # {} /\ {q} # {}
    OBVIOUS
  <2>5. p = pick({1, 2})
    OBVIOUS
  <2> HIDE DEF F, pick, p, q
  <2>6. iter[{}] = zero
    BY <2>2, <2>3
  <2>7. iter[{1, 2}] = AddAmount(t[p], iter[{1, 2} \ {p}])
    BY <2>2, <2>3, <2>4, <2>5
  <2>8. iter[{q}] = AddAmount(t[q], iter[{q} \ {q}])
    BY <2>2, <2>3, <2>4, <1>4
  <2>9. QED
    BY <2>6, <2>7, <2>8, <1>4
<1>6. t[p] \in Amount /\ t[q] \in Amount /\ Value(t[p]) + Value(t[q]) = Value(a) + Value(b)
  <2>1. Value(a) \in Nat /\ Value(b) \in Nat
    BY Units DEF Value, Amount
  <2>2. (p = 1 /\ q = 2) \/ (p = 2 /\ q = 1)
    BY <1>4
  <2>3. t[1] = a /\ t[2] = b
    OBVIOUS
  <2> HIDE DEF p, q, t
  <2>4. QED
    BY <2>1, <2>2, <2>3
<1>7. \A x \in Amount : Value(x) \in Nat
  BY Units DEF Value, Amount
<1> HIDE DEF p, q, t, zero, iter
<1>8. /\ iter[{q}] \in Amount /\ Value(iter[{q}]) = Value(t[q])
  BY <1>3, <1>5, <1>6, <1>7, AddIsExact
<1>9. /\ iter[{1, 2}] \in Amount /\ Value(iter[{1, 2}]) = Value(a) + Value(b)
  BY <1>5, <1>6, <1>8, AddIsExact
<1>10. QED
  BY <1>1, <1>9 DEF zero, t
-----------------------------------------------------------------------------
(* The invariant *)

\* The shapes of what TypeOK leaves open.
ShapesOK ==
    /\ DOMAIN proc = {"at", "pending", "cursor"}
    /\ DOMAIN loader = {"at", "got", "since"}
    /\ left \in [faults : Nat, crashes : Nat]
    /\ minted \in Seq(Seq(Amount)) /\ excused \in Seq(Nat)

\* The deposit whose tokens have been minted and that is being marked.
Marking(id) == proc.at = "mark" /\ id = First

\* What this poll has left to do, and what a later poll may find.
Open(id) ==
    \/ id \in proc.pending
    \/ IF Bitcoin THEN D(id).height >= proc.cursor ELSE ~ D(id).processed

\* Only a deposit with tokens is marked.
MintComesFirst == proc.at = "mark" => minted[First + 1] # <<>>

\* A deposit that may still be minted for has been minted for only with an excuse, but for
\* the one being marked.
OpenIsUnspent ==
    \A id \in Ids : Open(id) /\ ~ Marking(id) => Len(minted[id + 1]) <= excused[id + 1]

\* What is minted for, or about to be, is out of a reorganization's reach.
OutOfReach ==
    \A id \in Ids :
        /\ id \in proc.pending \/ minted[id + 1] # <<>> =>
              ~ D(id).gone /\ (Bitcoin => Confirmations(id) >= MinConfirmations)
        /\ ~ Bitcoin => ~ D(id).gone

ServiceInv ==
    /\ TypeOK /\ ShapesOK
    /\ MintComesFirst /\ MarkedDepositsAreMinted
    /\ MintsExplained /\ OpenIsUnspent
    /\ OutOfReach /\ ConversionsNeverGain

\* A deposit that is pending comes first.
LEMMA FirstIsPending ==
    ASSUME ServiceInv, proc.at # "idle"
    PROVE  First \in proc.pending /\ First \in Ids
<1> DEFINE S == proc.pending
           R == {ss \in Nat \X Nat : ss[1] < ss[2]}
<1>1. S # {} /\ S \subseteq Ids /\ S \subseteq Nat
  BY DEF ServiceInv, TypeOK, Ids
<1>2. IsWellFoundedOn(R, Nat)
  BY NatLessThanWellFounded DEF OpToRel
<1> HIDE DEF R, S
<1>3. PICK n \in S : \A m \in S : <<m, n>> \notin R
  BY <1>1, <1>2, WFMin
<1>4. ASSUME NEW m \in S PROVE n <= m
  <2>1. m \in Nat /\ n \in Nat /\ <<m, n>> \notin R
    BY <1>1, <1>3
  <2>2. ~ (m < n)
    BY <2>1 DEF R
  <2>3. QED
    BY <2>1, <2>2
<1>5. Min(S) \in S
  BY <1>4 DEF Min
<1>6. QED
  BY <1>1, <1>5 DEF First, S

\* The facts about one deposit.
LEMMA DepositFacts ==
    ASSUME ServiceInv, NEW id \in Ids
    PROVE  /\ id \in Nat /\ id + 1 \in 1 .. Len(deposits) /\ id + 1 \in DOMAIN deposits
           /\ D(id) \in [amount : Amounts, ticket : Tickets, height : 0 .. MaxTip,
                         processed : BOOLEAN, gone : BOOLEAN]
           /\ minted[id + 1] \in Seq(Amount) /\ excused[id + 1] \in Nat
           /\ id + 1 \in DOMAIN minted /\ id + 1 \in DOMAIN excused
           /\ Len(minted[id + 1]) \in Nat
<1>1. /\ id \in Nat /\ id + 1 \in 1 .. Len(deposits) /\ id + 1 \in DOMAIN deposits
      /\ DOMAIN minted = DOMAIN deposits /\ DOMAIN excused = DOMAIN deposits
      /\ minted \in Seq(Seq(Amount)) /\ excused \in Seq(Nat)
  BY DEF ServiceInv, TypeOK, ShapesOK, Ids
<1> DEFINE S == [amount : Amounts, ticket : Tickets, height : 0 .. MaxTip,
                 processed : BOOLEAN, gone : BOOLEAN]
<1>2. D(id) \in S
  <2>1. deposits \in Seq(S)
    BY DEF ServiceInv, TypeOK
  <2> HIDE DEF S
  <2>2. QED
    BY <1>1, <2>1, ElementOfSeq DEF D
<1>3. minted[id + 1] \in Seq(Amount) /\ excused[id + 1] \in Nat
  <2>1. id + 1 \in DOMAIN minted /\ id + 1 \in DOMAIN excused
    BY <1>1
  <2>2. QED
    BY <1>1, <2>1, ElementOfSeq
<1>4. QED
  BY <1>1, <1>2, <1>3

\* A step that does not touch the deposits and what is done for them.
LEMMA FrameKeeps ==
    ASSUME ServiceInv, UNCHANGED <<scene, tip, deposits, landing, proc, minted, excused>>,
           ConversionsNeverGain',
           registry' \subseteq Tickets, DOMAIN loader' = {"at", "got", "since"},
           loader'.at \in {"idle", "ttc", "mint", "ticket", "version", "done"},
           left' \in [faults : Nat, crashes : Nat]
    PROVE  ServiceInv'
<1>1. /\ Ids' = Ids /\ First' = First /\ Bitcoin' = Bitcoin
      /\ \A id : D(id)' = D(id) /\ Confirmations(id)' = Confirmations(id)
  BY DEF Ids, First, Bitcoin, D, Confirmations
<1>2. TypeOK'
  BY <1>1 DEF ServiceInv, TypeOK
<1>3. ShapesOK'
  BY DEF ServiceInv, ShapesOK
<1>4. MintComesFirst' /\ MarkedDepositsAreMinted' /\ MintsExplained'
  BY <1>1 DEF ServiceInv, MintComesFirst, MarkedDepositsAreMinted, MintsExplained
<1>5. OpenIsUnspent'
  BY <1>1 DEF ServiceInv, OpenIsUnspent, Open, Marking
<1>6. OutOfReach'
  BY <1>1 DEF ServiceInv, OutOfReach
<1>7. QED
  BY <1>2, <1>3, <1>4, <1>5, <1>6 DEF ServiceInv
-----------------------------------------------------------------------------
(* The chain *)

LEMMA DepositKeeps ==
    ASSUME ServiceInv, NEW a \in scene.amounts, NEW t \in scene.tickets, Deposit(a, t)
    PROVE  ServiceInv'
<1>0. PICK n : n = Len(deposits)
  OBVIOUS
<1> DEFINE d == [amount |-> a, ticket |-> t, height |-> tip, processed |-> FALSE, gone |-> FALSE]
           S == [amount : Amounts, ticket : Tickets, height : 0 .. MaxTip,
                 processed : BOOLEAN, gone : BOOLEAN]
<1>1. /\ scene \in Scenes /\ a \in Amounts /\ t \in Tickets /\ scene.deposits \in 0 .. MaxDeposits
      /\ tip \in 0 .. MaxTip /\ n < scene.deposits
      /\ deposits' = Append(deposits, d) /\ minted' = Append(minted, <<>>)
      /\ excused' = Append(excused, 0)
      /\ UNCHANGED <<scene, tip, landing, proc, registry, loader, paid, left>>
  BY <1>0, SceneAssumption DEF ServiceInv, TypeOK, Deposit, keyVars
<1>2. /\ d \in S /\ deposits \in Seq(S) /\ n \in Nat
      /\ minted \in Seq(Seq(Amount)) /\ excused \in Seq(Nat) /\ <<>> \in Seq(Amount) /\ 0 \in Nat
      /\ Len(minted) = n /\ Len(excused) = n
  BY <1>0, <1>1 DEF ServiceInv, TypeOK, ShapesOK
<1>3. d.amount = a /\ d.height = tip /\ d.processed = FALSE /\ d.gone = FALSE
  OBVIOUS
<1> HIDE DEF S, d
<1>4. /\ deposits' \in Seq(S) /\ Len(deposits') = n + 1 /\ deposits'[n + 1] = d
      /\ \A i \in 1 .. n : deposits'[i] = deposits[i]
  BY <1>0, <1>1, <1>2, AppendProperties
<1>5. /\ minted' \in Seq(Seq(Amount)) /\ Len(minted') = n + 1 /\ minted'[n + 1] = <<>>
      /\ \A i \in 1 .. n : minted'[i] = minted[i]
  BY <1>0, <1>1, <1>2, AppendProperties
<1>6. /\ excused' \in Seq(Nat) /\ Len(excused') = n + 1 /\ excused'[n + 1] = 0
      /\ \A i \in 1 .. n : excused'[i] = excused[i]
  BY <1>0, <1>1, <1>2, AppendProperties
<1>7. /\ Ids' = Ids \cup {n} /\ n \notin Ids /\ Bitcoin' = Bitcoin /\ First' = First
      /\ proc.pending \subseteq Ids /\ landing \subseteq Ids
  <2>1. Ids = 0 .. n - 1 /\ Ids' = 0 .. n
    BY <1>0, <1>2, <1>4 DEF Ids
  <2>2. Ids' = Ids \cup {n} /\ n \notin Ids
    BY <1>2, <2>1
  <2>3. Bitcoin' = Bitcoin /\ First' = First
    BY <1>1 DEF Bitcoin, First
  <2>4. QED
    BY <2>2, <2>3 DEF ServiceInv, TypeOK
<1>8. ASSUME NEW id \in Ids
      PROVE  /\ id + 1 \in 1 .. n
             /\ D(id)' = D(id) /\ minted'[id + 1] = minted[id + 1] /\ excused'[id + 1] = excused[id + 1]
             /\ Confirmations(id)' = Confirmations(id)
  BY <1>0, <1>1, <1>2, <1>4, <1>5, <1>6 DEF D, Ids, Confirmations
<1>9. D(n)' = d /\ minted'[n + 1] = <<>> /\ excused'[n + 1] = 0
  BY <1>4, <1>5, <1>6 DEF D
<1>10. TypeOK'
  <2>1. Len(deposits') <= MaxDeposits
    BY <1>1, <1>2, <1>4, SceneAssumption
  <2>2. DOMAIN minted' = DOMAIN deposits' /\ DOMAIN excused' = DOMAIN deposits'
    BY <1>4, <1>5, <1>6, <1>2
  <2>3. QED
    BY <1>1, <1>4, <1>7, <2>1, <2>2 DEF ServiceInv, TypeOK, S
<1>11. ShapesOK'
  BY <1>1, <1>5, <1>6 DEF ServiceInv, ShapesOK
<1>12. MintComesFirst'
  <2>1. proc.at = "mark" => First \in Ids
    BY FirstIsPending
  <2>2. QED
    BY <1>1, <1>7, <1>8, <2>1 DEF ServiceInv, MintComesFirst
<1>13. MarkedDepositsAreMinted'
  BY <1>1, <1>3, <1>7, <1>8, <1>9 DEF ServiceInv, MarkedDepositsAreMinted
<1>14. MintsExplained'
  BY <1>7, <1>8, <1>9, EmptySeq DEF ServiceInv, MintsExplained
<1>15. OpenIsUnspent'
  <2>1. Len(minted'[n + 1]) <= excused'[n + 1]
    BY <1>9
  <2>2. ASSUME NEW id \in Ids, Open(id)', ~ Marking(id)'
        PROVE  Len(minted'[id + 1]) <= excused'[id + 1]
    <3>1. Open(id) /\ ~ Marking(id)
      BY <1>1, <1>7, <1>8, <2>2 DEF Open, Marking
    <3>2. QED
      BY <1>8, <3>1 DEF ServiceInv, OpenIsUnspent
  <2>3. QED
    BY <1>7, <2>1, <2>2 DEF OpenIsUnspent
<1>16. OutOfReach'
  BY <1>1, <1>3, <1>7, <1>8, <1>9 DEF ServiceInv, OutOfReach
<1>17. ConversionsNeverGain'
  <2>1. DOMAIN <<>> = {}
    OBVIOUS
  <2>2. QED
    BY <1>1, <1>7, <1>8, <1>9, <2>1 DEF ServiceInv, ConversionsNeverGain, Value
<1>18. QED
  BY <1>10, <1>11, <1>12, <1>13, <1>14, <1>15, <1>16, <1>17 DEF ServiceInv

LEMMA MineKeeps ==
    ASSUME ServiceInv, Mine
    PROVE  ServiceInv'
<1>1. /\ tip \in 0 .. MaxTip /\ MaxTip \in Nat /\ tip < MaxTip /\ tip' = tip + 1
      /\ MinConfirmations \in Nat
      /\ UNCHANGED <<scene, deposits, landing, proc, registry, minted, excused, loader, paid, left>>
  BY SceneAssumption DEF ServiceInv, TypeOK, Mine, keyVars
<1>2. /\ Ids' = Ids /\ First' = First /\ Bitcoin' = Bitcoin /\ \A id : D(id)' = D(id)
  BY <1>1 DEF Ids, First, Bitcoin, D
<1>3. ASSUME NEW id \in Ids PROVE Confirmations(id)' \in Int /\ Confirmations(id) <= Confirmations(id)'
                                /\ Confirmations(id) \in Int
  BY <1>1, <1>2, DepositFacts DEF Confirmations
<1>4. TypeOK' /\ ShapesOK'
  BY <1>1, <1>2 DEF ServiceInv, TypeOK, ShapesOK
<1>5. MintComesFirst' /\ MarkedDepositsAreMinted' /\ MintsExplained' /\ OpenIsUnspent'
  BY <1>1, <1>2 DEF ServiceInv, MintComesFirst, MarkedDepositsAreMinted, MintsExplained,
                    OpenIsUnspent, Open, Marking
<1>6. OutOfReach'
  BY <1>1, <1>2, <1>3 DEF ServiceInv, OutOfReach
<1>7. ConversionsNeverGain'
  BY <1>1, <1>2 DEF ServiceInv, ConversionsNeverGain
<1>8. QED
  BY <1>4, <1>5, <1>6, <1>7 DEF ServiceInv

LEMMA ReorganizeKeeps ==
    ASSUME ServiceInv, NEW k \in Ids, Reorganize(k)
    PROVE  ServiceInv'
<1> DEFINE S == [amount : Amounts, ticket : Tickets, height : 0 .. MaxTip,
                 processed : BOOLEAN, gone : BOOLEAN]
<1>1. /\ Bitcoin /\ ~ (Confirmations(k) >= MinConfirmations)
      /\ deposits' = [deposits EXCEPT ![k + 1].gone = TRUE]
      /\ UNCHANGED <<scene, tip, landing, proc, registry, minted, excused, loader, paid, left>>
  <2>1. Confirmations(k) \in Int /\ MinConfirmations \in Int
    BY DepositFacts, SceneAssumption DEF Confirmations, ServiceInv, TypeOK
  <2>2. QED
    BY <2>1 DEF Reorganize, keyVars
<1>2. /\ deposits \in Seq(S) /\ k + 1 \in 1 .. Len(deposits) /\ D(k) \in S /\ D(k) = deposits[k + 1]
  BY DepositFacts DEF ServiceInv, TypeOK, D
<1>3. [D(k) EXCEPT !.gone = TRUE] \in S
  BY <1>2
<1>4. deposits' = [deposits EXCEPT ![k + 1] = [D(k) EXCEPT !.gone = TRUE]]
  BY <1>1, <1>2
<1>5. ASSUME NEW id \in Ids
      PROVE  /\ D(id)'.amount = D(id).amount /\ D(id)'.height = D(id).height
             /\ D(id)'.processed = D(id).processed
             /\ id # k => D(id)'.gone = D(id).gone
  <2>0. id + 1 \in 1 .. Len(deposits) /\ D(id) \in S /\ D(id) = deposits[id + 1]
    BY DepositFacts DEF D
  <2>1. id # k => id + 1 # k + 1
    BY DepositFacts
  <2>2. D(id)' = IF id = k THEN [D(k) EXCEPT !.gone = TRUE] ELSE D(id)
    BY <1>2, <1>4, <2>0, <2>1 DEF D
  <2>3. QED
    BY <1>2, <2>2
<1> HIDE DEF S
<1>6. deposits' \in Seq(S) /\ Len(deposits') = Len(deposits) /\ DOMAIN deposits' = DOMAIN deposits
  BY <1>2, <1>3, <1>4
<1>7. /\ Ids' = Ids /\ First' = First /\ Bitcoin' = Bitcoin
      /\ \A id \in Ids : Confirmations(id)' = Confirmations(id)
  BY <1>1, <1>5, <1>6 DEF Ids, First, Bitcoin, Confirmations
<1>8. TypeOK' /\ ShapesOK'
  BY <1>1, <1>6, <1>7 DEF ServiceInv, TypeOK, ShapesOK, S
<1>9. MintComesFirst' /\ MarkedDepositsAreMinted' /\ MintsExplained'
  BY <1>1, <1>5, <1>7 DEF ServiceInv, MintComesFirst, MarkedDepositsAreMinted, MintsExplained
<1>10. OpenIsUnspent'
  BY <1>1, <1>5, <1>7 DEF ServiceInv, OpenIsUnspent, Open, Marking
<1>11. OutOfReach'
  BY <1>1, <1>5, <1>7 DEF ServiceInv, OutOfReach
<1>12. ConversionsNeverGain'
  BY <1>1, <1>5, <1>7 DEF ServiceInv, ConversionsNeverGain
<1>13. QED
  BY <1>8, <1>9, <1>10, <1>11, <1>12 DEF ServiceInv

\* A deposit with tokens is marked on the chain.
LEMMA MarkedOnChain ==
    ASSUME ServiceInv, NEW k \in Ids, deposits' = [deposits EXCEPT ![k + 1].processed = TRUE]
    PROVE  /\ deposits' \in Seq([amount : Amounts, ticket : Tickets, height : 0 .. MaxTip,
                                 processed : BOOLEAN, gone : BOOLEAN])
           /\ Len(deposits') = Len(deposits) /\ DOMAIN deposits' = DOMAIN deposits /\ Ids' = Ids
           /\ \A id \in Ids : /\ D(id)'.amount = D(id).amount /\ D(id)'.height = D(id).height
                              /\ D(id)'.gone = D(id).gone
                              /\ D(id)'.processed <=> D(id).processed \/ id = k
<1> DEFINE S == [amount : Amounts, ticket : Tickets, height : 0 .. MaxTip,
                 processed : BOOLEAN, gone : BOOLEAN]
<1>2. /\ deposits \in Seq(S) /\ k + 1 \in 1 .. Len(deposits) /\ D(k) \in S /\ D(k) = deposits[k + 1]
  BY DepositFacts DEF ServiceInv, TypeOK, D
<1>3. [D(k) EXCEPT !.processed = TRUE] \in S
  BY <1>2
<1>4. deposits' = [deposits EXCEPT ![k + 1] = [D(k) EXCEPT !.processed = TRUE]]
  BY <1>2
<1>5. ASSUME NEW id \in Ids
      PROVE  /\ D(id)'.amount = D(id).amount /\ D(id)'.height = D(id).height
             /\ D(id)'.gone = D(id).gone
             /\ D(id)'.processed <=> D(id).processed \/ id = k
  <2>0. id + 1 \in 1 .. Len(deposits) /\ D(id) \in S /\ D(id) = deposits[id + 1]
    BY DepositFacts DEF D
  <2>1. id # k => id + 1 # k + 1
    BY DepositFacts
  <2>2. D(id)' = IF id = k THEN [D(k) EXCEPT !.processed = TRUE] ELSE D(id)
    BY <1>2, <1>4, <2>0, <2>1 DEF D
  <2>3. CASE id = k
    BY <1>2, <2>2, <2>3
  <2>4. CASE id # k
    BY <2>2, <2>4
  <2>5. QED
    BY <2>3, <2>4
<1>6. deposits' \in Seq(S) /\ Len(deposits') = Len(deposits) /\ DOMAIN deposits' = DOMAIN deposits
  <2> HIDE DEF S
  <2>1. QED
    BY <1>2, <1>3, <1>4
<1>7. QED
  BY <1>5, <1>6 DEF Ids

LEMMA LandKeeps ==
    ASSUME ServiceInv, NEW k \in Ids, Land(k)
    PROVE  ServiceInv'
<1>1. /\ k \in landing /\ landing' = landing \ {k}
      /\ deposits' = [deposits EXCEPT ![k + 1].processed = TRUE]
      /\ UNCHANGED <<scene, tip, proc, registry, minted, excused, loader, paid, left>>
  BY DEF Land, keyVars
<1>2. /\ deposits' \in Seq([amount : Amounts, ticket : Tickets, height : 0 .. MaxTip,
                            processed : BOOLEAN, gone : BOOLEAN])
      /\ Len(deposits') = Len(deposits) /\ DOMAIN deposits' = DOMAIN deposits /\ Ids' = Ids
      /\ \A id \in Ids : /\ D(id)'.amount = D(id).amount /\ D(id)'.height = D(id).height
                         /\ D(id)'.gone = D(id).gone
                         /\ D(id)'.processed <=> D(id).processed \/ id = k
  BY <1>1, MarkedOnChain
<1>7. /\ First' = First /\ Bitcoin' = Bitcoin
      /\ \A id \in Ids : Confirmations(id)' = Confirmations(id)
  BY <1>1, <1>2 DEF First, Bitcoin, Confirmations
<1>8. TypeOK' /\ ShapesOK'
  BY <1>1, <1>2 DEF ServiceInv, TypeOK, ShapesOK
<1>9. MintComesFirst' /\ MarkedDepositsAreMinted' /\ MintsExplained'
  BY <1>1, <1>2, <1>7 DEF ServiceInv, MintComesFirst, MarkedDepositsAreMinted, MintsExplained
<1>10. OpenIsUnspent'
  BY <1>1, <1>2, <1>7 DEF ServiceInv, OpenIsUnspent, Open, Marking
<1>11. OutOfReach'
  BY <1>1, <1>2, <1>7 DEF ServiceInv, OutOfReach
<1>12. ConversionsNeverGain'
  BY <1>1, <1>2 DEF ServiceInv, ConversionsNeverGain
<1>13. QED
  BY <1>8, <1>9, <1>10, <1>11, <1>12 DEF ServiceInv
-----------------------------------------------------------------------------
(* The deposit processor *)

LEMMA PollKeeps ==
    ASSUME ServiceInv, PollEthereum \/ PollBitcoin
    PROVE  ServiceInv'
<1>1. PICK found \in SUBSET Ids :
        /\ found # {} /\ proc.at = "idle" /\ proc' = [proc EXCEPT !.at = "mint", !.pending = found]
        /\ \A id \in found :
              /\ IF Bitcoin THEN D(id).height >= proc.cursor ELSE ~ D(id).processed
              /\ Bitcoin => ~ D(id).gone /\ Confirmations(id) >= MinConfirmations
        /\ UNCHANGED <<scene, tip, deposits, landing, registry, minted, excused, loader, paid, left>>
  <2>1. CASE PollEthereum
    <3>1. EthereumDeposits \subseteq Ids
      BY DEF EthereumDeposits
    <3>2. \A id \in EthereumDeposits : ~ D(id).processed
      BY DEF EthereumDeposits
    <3>3. QED
      BY <2>1, <3>1, <3>2 DEF PollEthereum, Poll, keyVars
  <2>2. CASE PollBitcoin
    <3>1. BitcoinDeposits \subseteq Ids
      BY DEF BitcoinDeposits
    <3>2. \A id \in BitcoinDeposits : /\ D(id).height >= proc.cursor /\ ~ D(id).gone
                                      /\ Confirmations(id) >= MinConfirmations
      BY DEF BitcoinDeposits
    <3>3. QED
      BY <2>2, <3>1, <3>2 DEF PollBitcoin, Poll, keyVars
  <2>3. QED
    BY <2>1, <2>2
<1>2. DOMAIN proc = {"at", "pending", "cursor"} /\ proc.pending = {} /\ proc.cursor \in Nat
  BY <1>1 DEF ServiceInv, TypeOK, ShapesOK
<1>3. /\ proc'.at = "mint" /\ proc'.pending = found /\ proc'.cursor = proc.cursor
      /\ DOMAIN proc' = {"at", "pending", "cursor"}
  BY <1>1, <1>2
<1>4. /\ Ids' = Ids /\ Bitcoin' = Bitcoin
      /\ \A id : D(id)' = D(id) /\ Confirmations(id)' = Confirmations(id)
  BY <1>1 DEF Ids, Bitcoin, D, Confirmations
<1>5. TypeOK' /\ ShapesOK'
  BY <1>1, <1>2, <1>3, <1>4 DEF ServiceInv, TypeOK, ShapesOK
<1>6. MintComesFirst' /\ MarkedDepositsAreMinted' /\ MintsExplained'
  BY <1>1, <1>3, <1>4 DEF ServiceInv, MintComesFirst, MarkedDepositsAreMinted, MintsExplained
<1>7. OpenIsUnspent'
  <2>1. ASSUME NEW id \in Ids, Open(id)' PROVE Open(id) /\ ~ Marking(id)
    BY <1>1, <1>3, <1>4, <2>1 DEF Open, Marking
  <2>2. QED
    BY <1>1, <1>4, <2>1 DEF ServiceInv, OpenIsUnspent
<1>8. OutOfReach'
  BY <1>1, <1>3, <1>4 DEF ServiceInv, OutOfReach
<1>9. ConversionsNeverGain'
  BY <1>1, <1>4 DEF ServiceInv, ConversionsNeverGain
<1>10. QED
  BY <1>5, <1>6, <1>7, <1>8, <1>9 DEF ServiceInv

\* What the processor is left with when it is done with a deposit.
LEMMA AdvanceFacts ==
    ASSUME ServiceInv, proc.at # "idle", NEW c \in Nat
    PROVE  /\ DOMAIN Advance(c) = {"at", "pending", "cursor"}
           /\ Advance(c).at \in {"idle", "mint"} /\ Advance(c).cursor = c
           /\ Advance(c).pending = proc.pending \ {First}
           /\ (Advance(c).at = "idle") = (Advance(c).pending = {})
BY DEF Advance

\* The tokens of one more mint are added to a deposit.
LEMMA MintAppends ==
    ASSUME ServiceInv, NEW k \in Ids, NEW x \in Amount, Value(x) <= D(k).amount,
           minted' = [minted EXCEPT ![k + 1] = Append(@, x)]
    PROVE  /\ minted' \in Seq(Seq(Amount)) /\ DOMAIN minted' = DOMAIN minted
           /\ \A id \in Ids : id # k => minted'[id + 1] = minted[id + 1]
           /\ minted'[k + 1] # <<>> /\ Len(minted'[k + 1]) = Len(minted[k + 1]) + 1
           /\ \A i \in DOMAIN minted'[k + 1] : Value(minted'[k + 1][i]) <= D(k).amount
<1>1. /\ k + 1 \in DOMAIN minted /\ minted[k + 1] \in Seq(Amount) /\ minted \in Seq(Seq(Amount))
      /\ Len(minted[k + 1]) \in Nat
  BY DepositFacts DEF ServiceInv, ShapesOK
<1> DEFINE old == minted[k + 1]
           new == Append(old, x)
<1>2. /\ new \in Seq(Amount) /\ Len(new) = Len(old) + 1 /\ new[Len(old) + 1] = x
      /\ \A i \in 1 .. Len(old) : new[i] = old[i]
  BY <1>1, AppendProperties
<1>3. minted' = [minted EXCEPT ![k + 1] = new]
  OBVIOUS
<1>4. \A i \in DOMAIN old : Value(old[i]) <= D(k).amount
  BY DEF ServiceInv, ConversionsNeverGain
<1>5. DOMAIN old = 1 .. Len(old) /\ DOMAIN new = 1 .. Len(old) + 1
  BY <1>1, <1>2
<1> HIDE DEF new, old
<1>6. \A i \in DOMAIN new : Value(new[i]) <= D(k).amount
  <2>1. SUFFICES ASSUME NEW i \in 1 .. Len(old) + 1 PROVE Value(new[i]) <= D(k).amount
    BY <1>5
  <2>2. Len(old) \in Nat
    BY <1>1 DEF old
  <2>3. i \in 1 .. Len(old) \/ i = Len(old) + 1
    BY <2>2
  <2>4. QED
    BY <1>2, <1>4, <1>5, <2>3
<1>7. minted'[k + 1] = new /\ DOMAIN minted' = DOMAIN minted
  BY <1>1, <1>3
<1>8. minted' \in Seq(Seq(Amount))
  <2> DEFINE T == Seq(Amount)
  <2>1. minted \in Seq(T) /\ new \in T /\ k + 1 \in DOMAIN minted
    BY <1>1, <1>2
  <2> HIDE DEF T
  <2>2. minted' \in Seq(T)
    <3>1. k + 1 \in 1 .. Len(minted)
      BY <2>1
    <3>2. [minted EXCEPT ![k + 1] = new] \in Seq(T)
      BY <2>1, <3>1, ExceptSeq
    <3>3. QED
      BY <1>3, <3>2
  <2>3. QED
    BY <2>2 DEF T
<1>9. \A id \in Ids : id # k => minted'[id + 1] = minted[id + 1]
  <2>1. \A id \in Ids : id \in Nat /\ id + 1 \in DOMAIN minted
    BY DepositFacts
  <2>2. k \in Nat
    BY DepositFacts
  <2>3. QED
    BY <1>3, <2>1, <2>2
<1>10. new # <<>>
  BY <1>1, <1>2 DEF old
<1>11. Len(new) = Len(minted[k + 1]) + 1
  BY <1>2 DEF old
<1>12. QED
  BY <1>6, <1>7, <1>8, <1>9, <1>10, <1>11

\* One more excuse for a deposit.
LEMMA ExcusedOnce ==
    ASSUME ServiceInv, NEW k \in Ids, excused' = [excused EXCEPT ![k + 1] = @ + 1]
    PROVE  /\ excused' \in Seq(Nat) /\ DOMAIN excused' = DOMAIN excused
           /\ \A id \in Ids : id # k => excused'[id + 1] = excused[id + 1]
           /\ excused'[k + 1] = excused[k + 1] + 1
<1>1. /\ \A id \in Ids : id \in Nat /\ id + 1 \in DOMAIN excused
      /\ excused[k + 1] \in Nat /\ k \in Nat
  BY DepositFacts
<1>2. excused \in Seq(Nat)
  BY DEF ServiceInv, ShapesOK
<1>3. \A id \in Ids : id # k => id + 1 # k + 1
  BY <1>1
<1>4. excused' \in Seq(Nat) /\ DOMAIN excused' = DOMAIN excused
  BY <1>1, <1>2
<1>5. QED
  BY <1>1, <1>3, <1>4

\* Tokens are minted only for what is open; a lost answer is an excuse.
LEMMA MintKeeps ==
    ASSUME ServiceInv, NEW outcome, MintEthereum(outcome) \/ MintBitcoin(outcome)
    PROVE  ServiceInv'
<1>1. PICK k : k = First
  OBVIOUS
<1>2. proc.at = "mint"
  BY DEF MintEthereum, MintBitcoin
<1>3. /\ k \in Ids /\ k \in proc.pending /\ k \in Nat
      /\ D(k).amount \in Nat /\ minted[k + 1] \in Seq(Amount) /\ excused[k + 1] \in Nat
      /\ k + 1 \in DOMAIN excused /\ Len(minted[k + 1]) \in Nat
  BY <1>1, <1>2, FirstIsPending, DepositFacts, SceneAssumption
<1>4. PICK x \in Amount : Value(x) <= D(k).amount /\ MintTokens(outcome, x)
  <2>1. CASE MintEthereum(outcome)
    BY <1>1, <1>3, <2>1, ConversionNeverGains DEF MintEthereum
  <2>2. CASE MintBitcoin(outcome)
    BY <1>1, <1>3, <2>2, ConversionNeverGains DEF MintBitcoin
  <2>3. QED
    BY <2>1, <2>2
<1> DEFINE makes == D(k).ticket \in registry /\ scene.mints /\ outcome # "refused"
           answered == AnswerHasTokens(makes, outcome)
<1>5. /\ minted' = IF makes THEN [minted EXCEPT ![k + 1] = Append(@, x)] ELSE minted
      /\ answered => makes
      /\ answered => proc' = [proc EXCEPT !.at = "mark"] /\ UNCHANGED excused
      /\ ~ answered => /\ proc' = Advance(proc.cursor)
                       /\ excused' = IF makes THEN [excused EXCEPT ![k + 1] = @ + 1] ELSE excused
      /\ UNCHANGED left \/ Fault
      /\ UNCHANGED <<scene, tip, deposits, landing, registry, loader, paid>>
  BY <1>1, <1>4 DEF MintTokens, AnswerHasTokens, keyVars
<1>6. /\ Ids' = Ids /\ Bitcoin' = Bitcoin
      /\ \A id : D(id)' = D(id) /\ Confirmations(id)' = Confirmations(id)
  BY <1>5 DEF Ids, Bitcoin, D, Confirmations
<1>7. left' \in [faults : Nat, crashes : Nat]
  <2>1. left \in [faults : Nat, crashes : Nat]
    BY DEF ServiceInv, TypeOK, ShapesOK
  <2>2. left' = left \/ Fault
    BY <1>5
  <2>3. QED
    BY <2>1, <2>2 DEF Fault
<1> HIDE DEF makes, answered
<1>8. /\ minted' \in Seq(Seq(Amount)) /\ DOMAIN minted' = DOMAIN minted
      /\ \A id \in Ids : id # k => minted'[id + 1] = minted[id + 1]
      /\ makes => minted'[k + 1] # <<>> /\ Len(minted'[k + 1]) = Len(minted[k + 1]) + 1
      /\ ~ makes => minted'[k + 1] = minted[k + 1]
      /\ \A i \in DOMAIN minted'[k + 1] : Value(minted'[k + 1][i]) <= D(k).amount
  <2>1. CASE makes
    <3>1. minted' = [minted EXCEPT ![k + 1] = Append(@, x)]
      BY <1>5, <2>1
    <3>2. QED
      BY <1>3, <1>4, <2>1, <3>1, MintAppends
  <2>2. CASE ~ makes
    BY <1>3, <1>5, <2>2 DEF ServiceInv, ShapesOK, ConversionsNeverGain
  <2>3. QED
    BY <2>1, <2>2
<1>9. /\ excused' \in Seq(Nat) /\ DOMAIN excused' = DOMAIN excused
      /\ \A id \in Ids : id # k => excused'[id + 1] = excused[id + 1]
      /\ excused'[k + 1] = IF makes /\ ~ answered THEN excused[k + 1] + 1 ELSE excused[k + 1]
  <2>1. \A id \in Ids : id \in Nat /\ id + 1 \in DOMAIN excused
    BY DepositFacts
  <2>2. excused \in Seq(Nat)
    BY DEF ServiceInv, ShapesOK
  <2>3. CASE makes /\ ~ answered
    BY <1>3, <1>5, <2>3, ExcusedOnce
  <2>4. CASE ~ (makes /\ ~ answered)
    BY <1>5, <2>2, <2>4
  <2>5. QED
    BY <2>3, <2>4
<1>10. /\ DOMAIN proc' = {"at", "pending", "cursor"} /\ proc'.cursor = proc.cursor /\ proc.cursor \in Nat
       /\ answered => proc'.at = "mark" /\ proc'.pending = proc.pending /\ First' = k
       /\ ~ answered => proc'.at \in {"idle", "mint"} /\ proc'.pending = proc.pending \ {k}
       /\ (proc'.at = "idle") = (proc'.pending = {})
  <2>1. DOMAIN proc = {"at", "pending", "cursor"} /\ proc.cursor \in Nat
    BY DEF ServiceInv, TypeOK, ShapesOK
  <2>2. CASE answered
    <3>1. proc'.at = "mark" /\ proc'.pending = proc.pending /\ proc'.cursor = proc.cursor
          /\ DOMAIN proc' = DOMAIN proc
      BY <1>5, <2>1, <2>2
    <3>2. First' = k
      BY <1>1, <3>1 DEF First
    <3>3. QED
      BY <1>3, <2>1, <2>2, <3>1, <3>2
  <2>3. CASE ~ answered
    BY <1>1, <1>2, <1>5, <2>1, <2>3, AdvanceFacts
  <2>4. QED
    BY <2>2, <2>3
<1>11. TypeOK' /\ ShapesOK'
  BY <1>5, <1>6, <1>7, <1>8, <1>9, <1>10 DEF ServiceInv, TypeOK, ShapesOK
<1>12. MintComesFirst'
  BY <1>5, <1>8, <1>10 DEF MintComesFirst
<1>13. MarkedDepositsAreMinted'
  BY <1>5, <1>6, <1>8 DEF ServiceInv, MarkedDepositsAreMinted
<1>14. Len(minted[k + 1]) <= excused[k + 1]
  BY <1>2, <1>3 DEF ServiceInv, OpenIsUnspent, Open, Marking
<1>15. MintsExplained'
  <2>1. Len(minted'[k + 1]) <= 1 + excused'[k + 1]
    <3>1. Len(minted'[k + 1]) <= Len(minted[k + 1]) + 1
      BY <1>3, <1>8
    <3>2. excused[k + 1] <= excused'[k + 1] /\ excused'[k + 1] \in Nat
      BY <1>3, <1>9
    <3>3. Len(minted'[k + 1]) \in Nat
      BY <1>3, <1>8
    <3>4. QED
      BY <1>3, <1>14, <3>1, <3>2, <3>3
  <2>2. QED
    BY <1>6, <1>8, <1>9, <2>1 DEF ServiceInv, MintsExplained
<1>16. OpenIsUnspent'
  <2>1. ASSUME NEW id \in Ids, Open(id)', ~ Marking(id)'
        PROVE  Len(minted'[id + 1]) <= excused'[id + 1]
    <3>1. CASE id = k
      <4>1. ~ answered
        BY <1>10, <2>1, <3>1 DEF Marking
      <4>2. QED
        BY <1>3, <1>8, <1>9, <1>14, <3>1, <4>1
    <3>2. CASE id # k
      <4>1. Open(id) /\ ~ Marking(id)
        BY <1>2, <1>6, <1>10, <2>1 DEF Open, Marking
      <4>2. QED
        BY <1>8, <1>9, <3>2, <4>1 DEF ServiceInv, OpenIsUnspent
    <3>3. QED
      BY <3>1, <3>2
  <2>2. QED
    BY <1>6, <2>1 DEF OpenIsUnspent
<1>17. OutOfReach'
  <2>1. proc'.pending \subseteq proc.pending
    BY <1>10
  <2>2. QED
    BY <1>3, <1>6, <1>8, <2>1 DEF ServiceInv, OutOfReach
<1>18. ConversionsNeverGain'
  <2>1. ASSUME NEW id \in Ids, NEW i \in DOMAIN minted'[id + 1]
        PROVE  Value(minted'[id + 1][i]) <= D(id).amount
    BY <1>8 DEF ServiceInv, ConversionsNeverGain
  <2>2. QED
    BY <1>5, <1>6, <2>1 DEF ServiceInv, ConversionsNeverGain
<1>19. QED
  BY <1>11, <1>12, <1>13, <1>15, <1>16, <1>17, <1>18 DEF ServiceInv

\* After the marking the deposit is marked, or there is an excuse for another mint.
LEMMA MarkEthereumKeeps ==
    ASSUME ServiceInv, NEW outcome \in {"ok", "reverted", "failed", "unheard", "late"},
           MarkEthereum(outcome)
    PROVE  ServiceInv'
<1>1. PICK k : k = First
  OBVIOUS
<1>2. proc.at = "mark" /\ ~ Bitcoin
  BY DEF MarkEthereum
<1>3. /\ k \in Ids /\ k \in proc.pending /\ k \in Nat /\ excused[k + 1] \in Nat
      /\ Len(minted[k + 1]) \in Nat /\ minted[k + 1] # <<>> /\ proc.cursor \in Nat
      /\ Len(minted[k + 1]) <= 1 + excused[k + 1]
  BY <1>1, <1>2, FirstIsPending, DepositFacts
     DEF ServiceInv, TypeOK, MintComesFirst, MintsExplained
<1>4. /\ outcome = "reverted" <=> D(k).processed
      /\ deposits' = IF outcome \in {"ok", "unheard"}
                     THEN [deposits EXCEPT ![k + 1].processed = TRUE] ELSE deposits
      /\ landing' = IF outcome = "late" THEN landing \cup {k} ELSE landing
      /\ registry' = IF outcome = "ok" THEN registry \ {D(k).ticket} ELSE registry
      /\ proc' = Advance(IF outcome = "ok" THEN CursorPast(k) ELSE proc.cursor)
      /\ IF outcome \in {"ok", "reverted"} THEN UNCHANGED <<excused, left>>
         ELSE excused' = [excused EXCEPT ![k + 1] = @ + 1] /\ Fault
      /\ UNCHANGED <<scene, tip, minted, loader, paid>>
  BY <1>1 DEF MarkEthereum, keyVars
<1>5. /\ deposits' \in Seq([amount : Amounts, ticket : Tickets, height : 0 .. MaxTip,
                            processed : BOOLEAN, gone : BOOLEAN])
      /\ Len(deposits') = Len(deposits) /\ DOMAIN deposits' = DOMAIN deposits /\ Ids' = Ids
      /\ \A id \in Ids : /\ D(id)'.amount = D(id).amount /\ D(id)'.height = D(id).height
                         /\ D(id)'.gone = D(id).gone
                         /\ D(id)'.processed <=> D(id).processed
                                \/ (id = k /\ outcome \in {"ok", "unheard"})
  <2>1. CASE outcome \in {"ok", "unheard"}
    BY <1>3, <1>4, <2>1, MarkedOnChain
  <2>2. CASE outcome \notin {"ok", "unheard"}
    <3>1. deposits' = deposits
      BY <1>4, <2>2
    <3>2. QED
      BY <2>2, <3>1 DEF ServiceInv, TypeOK, Ids, D
  <2>3. QED
    BY <2>1, <2>2
<1>6. /\ excused' \in Seq(Nat) /\ DOMAIN excused' = DOMAIN excused
      /\ \A id \in Ids : id # k => excused'[id + 1] = excused[id + 1]
      /\ excused'[k + 1] = IF outcome \in {"ok", "reverted"} THEN excused[k + 1] ELSE excused[k + 1] + 1
  <2>1. CASE outcome \in {"ok", "reverted"}
    BY <1>4, <2>1 DEF ServiceInv, ShapesOK
  <2>2. CASE outcome \notin {"ok", "reverted"}
    BY <1>3, <1>4, <2>2, ExcusedOnce
  <2>3. QED
    BY <2>1, <2>2
<1>7. left' \in [faults : Nat, crashes : Nat]
  BY <1>4 DEF Fault, ServiceInv, ShapesOK
<1>8. PICK c \in Nat : proc' = Advance(c)
  BY <1>3, <1>4 DEF CursorPast
<1>9. /\ DOMAIN proc' = {"at", "pending", "cursor"} /\ proc'.cursor \in Nat
      /\ proc'.at \in {"idle", "mint"} /\ proc'.pending = proc.pending \ {k}
      /\ (proc'.at = "idle") = (proc'.pending = {})
  BY <1>1, <1>2, <1>8, AdvanceFacts
<1>10. Bitcoin' = Bitcoin /\ \A id \in Ids : Confirmations(id)' = Confirmations(id)
  BY <1>4, <1>5 DEF Bitcoin, Confirmations
<1>11. TypeOK' /\ ShapesOK'
  <2>1. landing' \subseteq Ids /\ registry' \subseteq Tickets
    BY <1>3, <1>4 DEF ServiceInv, TypeOK
  <2>2. QED
    BY <1>4, <1>5, <1>6, <1>7, <1>9, <2>1 DEF ServiceInv, TypeOK, ShapesOK
<1>12. MintComesFirst'
  BY <1>9 DEF MintComesFirst
<1>13. MarkedDepositsAreMinted'
  BY <1>3, <1>4, <1>5 DEF ServiceInv, MarkedDepositsAreMinted
<1>14. MintsExplained'
  <2>1. Len(minted[k + 1]) <= 1 + excused'[k + 1]
    BY <1>3, <1>6
  <2>2. QED
    BY <1>4, <1>5, <1>6, <2>1 DEF ServiceInv, MintsExplained
<1>15. OpenIsUnspent'
  <2>1. ASSUME NEW id \in Ids, Open(id)' PROVE Len(minted[id + 1]) <= excused'[id + 1]
    <3>1. CASE id = k
      <4>1. ~ D(k)'.processed
        BY <1>2, <1>9, <1>10, <2>1, <3>1 DEF Open
      <4>2. outcome \notin {"ok", "reverted"}
        BY <1>3, <1>4, <1>5, <4>1
      <4>3. QED
        BY <1>3, <1>6, <3>1, <4>2
    <3>2. CASE id # k
      <4>1. Open(id) /\ ~ Marking(id)
        BY <1>1, <1>2, <1>5, <1>9, <1>10, <2>1, <3>2 DEF Open, Marking
      <4>2. QED
        BY <1>6, <3>2, <4>1 DEF ServiceInv, OpenIsUnspent
    <3>3. QED
      BY <3>1, <3>2
  <2>2. QED
    BY <1>4, <1>5, <2>1 DEF OpenIsUnspent
<1>16. OutOfReach'
  BY <1>4, <1>5, <1>9, <1>10 DEF ServiceInv, OutOfReach
<1>17. ConversionsNeverGain'
  BY <1>4, <1>5 DEF ServiceInv, ConversionsNeverGain
<1>18. QED
  BY <1>11, <1>12, <1>13, <1>14, <1>15, <1>16, <1>17 DEF ServiceInv

\* On Bitcoin the cursor moves past the deposit's block.
LEMMA MarkBitcoinKeeps ==
    ASSUME ServiceInv, MarkBitcoin
    PROVE  ServiceInv'
<1>1. PICK k : k = First
  OBVIOUS
<1>2. /\ proc.at = "mark" /\ Bitcoin
      /\ registry' \subseteq registry /\ proc' = Advance(CursorPast(D(k).height))
      /\ UNCHANGED <<scene, tip, deposits, landing, minted, excused, loader, paid, left>>
  BY <1>1 DEF MarkBitcoin, keyVars
<1>3. k \in Ids /\ k \in proc.pending /\ D(k).height \in Nat /\ proc.cursor \in Nat
  <2>1. k \in Ids /\ k \in proc.pending /\ proc.cursor \in Nat
    BY <1>1, <1>2, FirstIsPending DEF ServiceInv, TypeOK
  <2>2. D(k).height \in 0 .. MaxTip
    BY <2>1, DepositFacts
  <2>3. QED
    BY <2>1, <2>2, SceneAssumption
<1>4. PICK c \in Nat : c = CursorPast(D(k).height) /\ c > D(k).height /\ c >= proc.cursor
  BY <1>3 DEF CursorPast
<1>5. /\ DOMAIN proc' = {"at", "pending", "cursor"} /\ proc'.cursor = c
      /\ proc'.at \in {"idle", "mint"} /\ proc'.pending = proc.pending \ {k}
      /\ (proc'.at = "idle") = (proc'.pending = {})
  BY <1>1, <1>2, <1>4, AdvanceFacts
<1>6. /\ Ids' = Ids /\ Bitcoin' = Bitcoin
      /\ \A id : D(id)' = D(id) /\ Confirmations(id)' = Confirmations(id)
  BY <1>2 DEF Ids, Bitcoin, D, Confirmations
<1>7. TypeOK' /\ ShapesOK'
  BY <1>2, <1>4, <1>5, <1>6 DEF ServiceInv, TypeOK, ShapesOK
<1>8. MintComesFirst' /\ MarkedDepositsAreMinted' /\ MintsExplained'
  BY <1>2, <1>5, <1>6 DEF ServiceInv, MintComesFirst, MarkedDepositsAreMinted, MintsExplained
<1>9. OpenIsUnspent'
  <2>1. ASSUME NEW id \in Ids, Open(id)' PROVE Open(id) /\ ~ Marking(id)
    <3>1. D(id).height \in Nat
      BY DepositFacts, SceneAssumption
    <3>2. id # k
      BY <1>2, <1>3, <1>4, <1>5, <1>6, <2>1 DEF Open
    <3>3. QED
      BY <1>1, <1>2, <1>3, <1>4, <1>5, <1>6, <2>1, <3>1, <3>2 DEF Open, Marking
  <2>2. QED
    BY <1>2, <1>6, <2>1 DEF ServiceInv, OpenIsUnspent
<1>10. OutOfReach'
  BY <1>2, <1>5, <1>6 DEF ServiceInv, OutOfReach
<1>11. ConversionsNeverGain'
  BY <1>2, <1>6 DEF ServiceInv, ConversionsNeverGain
<1>12. QED
  BY <1>7, <1>8, <1>9, <1>10, <1>11 DEF ServiceInv

\* A crash forgets the cursor; it is an excuse for what was being marked and, on Bitcoin,
\* for everything.
LEMMA CrashKeeps ==
    ASSUME ServiceInv, Crash
    PROVE  ServiceInv'
<1> DEFINE excuse(i) == IF Bitcoin \/ (proc.at = "mark" /\ First = i - 1)
                        THEN excused[i] + 1 ELSE excused[i]
<1>1. /\ proc' = IdleProc /\ registry' = {} /\ loader' = IdleLoader(0)
      /\ left.crashes > 0 /\ left' = [left EXCEPT !.crashes = @ - 1]
      /\ excused' = [i \in DOMAIN excused |-> excuse(i)]
      /\ UNCHANGED <<scene, tip, deposits, landing, minted, paid>>
  BY DEF Crash
<1>2. excused \in Seq(Nat) /\ DOMAIN excused = 1 .. Len(excused) /\ Len(excused) \in Nat
  BY DEF ServiceInv, ShapesOK
<1>3. \A i \in DOMAIN excused : excuse(i) \in Nat /\ excused[i] <= excuse(i) /\ excused[i] \in Nat
  BY <1>2
<1> HIDE DEF excuse
<1>4. excused' \in Seq(Nat) /\ DOMAIN excused' = DOMAIN excused
  BY <1>1, <1>2, <1>3
<1>5. /\ Ids' = Ids /\ Bitcoin' = Bitcoin
      /\ \A id : D(id)' = D(id) /\ Confirmations(id)' = Confirmations(id)
  BY <1>1 DEF Ids, Bitcoin, D, Confirmations
<1>6. /\ proc'.at = "idle" /\ proc'.pending = {} /\ proc'.cursor = 0
      /\ DOMAIN proc' = {"at", "pending", "cursor"}
      /\ DOMAIN loader' = {"at", "got", "since"} /\ loader'.at = "idle"
  BY <1>1 DEF IdleProc, IdleLoader
<1>7. left' \in [faults : Nat, crashes : Nat]
  <2>1. left \in [faults : Nat, crashes : Nat] /\ left.crashes - 1 \in Nat
    BY <1>1 DEF ServiceInv, ShapesOK
  <2>2. QED
    BY <1>1, <2>1
<1>8. TypeOK' /\ ShapesOK'
  BY <1>1, <1>4, <1>5, <1>6, <1>7 DEF ServiceInv, TypeOK, ShapesOK
<1>9. ASSUME NEW id \in Ids
      PROVE  /\ excused'[id + 1] \in Nat /\ excused[id + 1] \in Nat /\ Len(minted[id + 1]) \in Nat
             /\ excused[id + 1] <= excused'[id + 1]
             /\ Bitcoin \/ Marking(id) => excused'[id + 1] = excused[id + 1] + 1
  <2>1. id \in Nat /\ id + 1 \in DOMAIN excused /\ (id + 1) - 1 = id /\ Len(minted[id + 1]) \in Nat
    BY DepositFacts
  <2>2. excused'[id + 1] = excuse(id + 1)
    BY <1>1, <2>1
  <2>3. QED
    BY <1>3, <2>1, <2>2 DEF excuse, Marking
<1>10. MintComesFirst' /\ MarkedDepositsAreMinted'
  BY <1>1, <1>5, <1>6 DEF ServiceInv, MintComesFirst, MarkedDepositsAreMinted
<1>11. MintsExplained'
  <2>1. ASSUME NEW id \in Ids PROVE Len(minted[id + 1]) <= 1 + excused'[id + 1]
    <3>1. Len(minted[id + 1]) <= 1 + excused[id + 1]
      BY DEF ServiceInv, MintsExplained
    <3>2. QED
      BY <1>9, <3>1
  <2>2. QED
    BY <1>1, <1>5, <2>1 DEF MintsExplained
<1>12. OpenIsUnspent'
  <2>1. ASSUME NEW id \in Ids, Open(id)' PROVE Len(minted[id + 1]) <= excused'[id + 1]
    <3>1. CASE Bitcoin \/ Marking(id)
      BY <1>9, <3>1 DEF ServiceInv, MintsExplained
    <3>2. CASE ~ Bitcoin /\ ~ Marking(id)
      <4>1. Open(id)
        BY <1>5, <1>6, <2>1, <3>2 DEF Open
      <4>2. QED
        BY <1>9, <3>2, <4>1 DEF ServiceInv, OpenIsUnspent
    <3>3. QED
      BY <3>1, <3>2
  <2>2. QED
    BY <1>1, <1>5, <2>1 DEF OpenIsUnspent
<1>13. OutOfReach'
  BY <1>1, <1>5, <1>6 DEF ServiceInv, OutOfReach
<1>14. ConversionsNeverGain'
  BY <1>1, <1>5 DEF ServiceInv, ConversionsNeverGain
<1>15. QED
  BY <1>8, <1>10, <1>11, <1>12, <1>13, <1>14 DEF ServiceInv
-----------------------------------------------------------------------------
(* Keys and withdrawals *)

LEMMA KeysKeep ==
    ASSUME ServiceInv,
           \/ \E which \in {"ttc", "mint", "ticket"} : ChangeKey(which)
           \/ \E t \in scene.tickets : RegisterTicket(t)
           \/ LoadStart \/ LoadRead \/ LoadFails \/ LoadDone \/ Rest
    PROVE  ServiceInv'
<1>1. /\ DOMAIN loader = {"at", "got", "since"}
      /\ loader.at \in {"idle", "ttc", "mint", "ticket", "version", "done"}
      /\ left \in [faults : Nat, crashes : Nat] /\ registry \subseteq Tickets
      /\ scene.tickets \subseteq Tickets
  BY SceneAssumption DEF ServiceInv, TypeOK, ShapesOK
<1>2. UNCHANGED <<scene, tip, deposits, landing, proc, minted, excused, paid>>
  BY DEF ChangeKey, RegisterTicket, LoadStart, LoadRead, LoadFails, LoadDone, Rest, keyVars, vars
<1>3. ConversionsNeverGain'
  BY <1>2 DEF ServiceInv, ConversionsNeverGain, Ids, D
<1>4. registry' \subseteq Tickets
  BY <1>1 DEF ChangeKey, RegisterTicket, LoadStart, LoadRead, LoadFails, LoadDone, Rest, keyVars, vars
<1>5. left' \in [faults : Nat, crashes : Nat]
  <2>1. CASE LoadFails
    <3>1. left' = [left EXCEPT !.faults = @ - 1] /\ left.faults - 1 \in Nat
      BY <1>1, <2>1 DEF LoadFails, Fault
    <3>2. QED
      BY <1>1, <3>1
  <2>2. CASE ~ LoadFails
    BY <1>1, <2>2 DEF ChangeKey, RegisterTicket, LoadStart, LoadRead, LoadDone, Rest, vars
  <2>3. QED
    BY <2>1, <2>2
<1>6. /\ DOMAIN loader' = {"at", "got", "since"}
      /\ loader'.at \in {"idle", "ttc", "mint", "ticket", "version", "done"}
  <2>1. CASE LoadStart
    BY <1>1, <2>1 DEF LoadStart
  <2>2. CASE LoadRead
    <3> DEFINE next == [ttc |-> "mint", mint |-> "ticket", ticket |-> "version", version |-> "done"]
    <3>1. loader' = [loader EXCEPT !.at = next[loader.at], !.got[loader.at] = ReadChain(loader.at)]
      BY <2>2 DEF LoadRead
    <3>2. loader.at \in {"ttc", "mint", "ticket", "version"}
      BY <1>1, <2>2 DEF LoadRead
    <3>3. next[loader.at] \in {"mint", "ticket", "version", "done"}
      BY <3>2
    <3> HIDE DEF next
    <3>4. QED
      BY <1>1, <3>1, <3>3
  <2>3. CASE LoadFails \/ LoadDone
    BY <2>3 DEF LoadFails, LoadDone, IdleLoader
  <2>4. CASE ~ (LoadStart \/ LoadRead \/ LoadFails \/ LoadDone)
    BY <1>1, <2>4 DEF ChangeKey, RegisterTicket, Rest, keyVars, vars
  <2>5. QED
    BY <2>1, <2>2, <2>3, <2>4
<1>7. QED
  BY <1>2, <1>3, <1>4, <1>5, <1>6, FrameKeeps

\* A withdrawal pays at most what its tokens are worth.
LEMMA WithdrawKeeps ==
    ASSUME ServiceInv, NEW a \in scene.amounts, NEW b \in scene.amounts,
           NEW currency, NEW k, NEW lands,
           WithdrawToL1(<<FromWei(a), FromWei(b)>>, currency, k, lands)
    PROVE  ServiceInv'
<1> DEFINE x == FromWei(a)
           y == FromWei(b)
           total == FoldSeq(AddAmount, [whole |-> 0, micros |-> 0], <<x, y>>)
           wei == ToWei(total)
           p == [id |-> Cardinality(paid), wei |-> wei, tokens |-> <<x, y>>]
<1>1. a \in Nat /\ b \in Nat
  BY SceneAssumption DEF ServiceInv, TypeOK
<1>2. x \in Amount /\ y \in Amount
  BY <1>1, ConversionNeverGains
<1>3. wei <= Value(x) + Value(y)
  <2> HIDE DEF x, y
  <2>1. total \in Amount /\ Value(total) = Value(x) + Value(y)
    BY <1>2, SumOfTwo
  <2> HIDE DEF total
  <2>2. QED
    BY <2>1, WrappingOnlyLoses
<1>4. /\ paid' = IF lands THEN paid \cup {p} ELSE paid
      /\ UNCHANGED left \/ Fault
      /\ UNCHANGED <<scene, tip, deposits, landing, proc, registry, minted, excused, loader>>
  BY DEF WithdrawToL1, InitiateWithdrawal, keyVars
<1>5. p.wei = wei /\ p.tokens[1] = x /\ p.tokens[2] = y
  <2> HIDE DEF x, y, wei
  <2>1. QED
    OBVIOUS
<1> HIDE DEF x, y, wei, p
<1>6. ConversionsNeverGain'
  <2>1. \A q \in paid' : q.wei <= Value(q.tokens[1]) + Value(q.tokens[2])
    BY <1>3, <1>4, <1>5 DEF ServiceInv, ConversionsNeverGain
  <2>2. QED
    BY <1>4, <2>1 DEF ServiceInv, ConversionsNeverGain, Ids, D
<1>7. left' \in [faults : Nat, crashes : Nat]
  BY <1>4 DEF Fault, ServiceInv, ShapesOK
<1>8. /\ registry' \subseteq Tickets /\ DOMAIN loader' = {"at", "got", "since"}
      /\ loader'.at \in {"idle", "ttc", "mint", "ticket", "version", "done"}
  BY <1>4 DEF ServiceInv, TypeOK, ShapesOK
<1>9. QED
  BY <1>4, <1>6, <1>7, <1>8, FrameKeeps
-----------------------------------------------------------------------------
LEMMA InitEstablishes == Init => ServiceInv
<1> SUFFICES ASSUME Init PROVE ServiceInv
  OBVIOUS
<1>1. /\ scene \in Scenes /\ tip = 0 /\ deposits = <<>> /\ landing = {} /\ registry = {}
      /\ proc.at = "idle" /\ proc.pending = {} /\ proc.cursor = 0
      /\ DOMAIN proc = {"at", "pending", "cursor"}
      /\ loader.at = "idle" /\ DOMAIN loader = {"at", "got", "since"}
      /\ minted = <<>> /\ excused = <<>> /\ paid = {}
      /\ left = [faults |-> scene.faults, crashes |-> scene.crashes]
  BY DEF Init, IdleProc, IdleLoader
<1>2. Ids = {}
  BY <1>1 DEF Ids
<1>3. scene.faults \in Nat /\ scene.crashes \in Nat /\ MaxTip \in Nat /\ MaxDeposits \in Nat
  BY <1>1, SceneAssumption
<1>4. /\ \A S : <<>> \in Seq(S)
      /\ Len(<<>>) = 0
  OBVIOUS
<1>5. left \in [faults : Nat, crashes : Nat]
  BY <1>1, <1>3
<1>6. TypeOK
  BY <1>1, <1>2, <1>3, <1>4, <1>5 DEF TypeOK
<1>7. ShapesOK
  BY <1>1, <1>4, <1>5 DEF ShapesOK
<1>8. /\ MintComesFirst /\ MarkedDepositsAreMinted /\ MintsExplained /\ OpenIsUnspent
      /\ OutOfReach /\ ConversionsNeverGain
  BY <1>1, <1>2 DEF MintComesFirst, MarkedDepositsAreMinted, MintsExplained, OpenIsUnspent,
                    OutOfReach, ConversionsNeverGain
<1>9. QED
  BY <1>6, <1>7, <1>8 DEF ServiceInv

LEMMA NextKeeps == ServiceInv /\ [Next]_vars => ServiceInv'
<1> SUFFICES ASSUME ServiceInv, [Next]_vars PROVE ServiceInv'
  OBVIOUS
<1>1. ASSUME NEW a \in scene.amounts, NEW t \in scene.tickets, Deposit(a, t) PROVE ServiceInv'
  BY <1>1, DepositKeeps
<1>2. CASE Mine
  BY <1>2, MineKeeps
<1>3. CASE PollEthereum \/ PollBitcoin
  BY <1>3, PollKeeps
<1>4. CASE MarkBitcoin
  BY <1>4, MarkBitcoinKeeps
<1>5. CASE Crash
  BY <1>5, CrashKeeps
<1>6. ASSUME NEW id \in Ids, Reorganize(id) \/ Land(id) PROVE ServiceInv'
  BY <1>6, ReorganizeKeeps, LandKeeps
<1>7. CASE \/ \E which \in {"ttc", "mint", "ticket"} : ChangeKey(which)
           \/ \E t \in scene.tickets : RegisterTicket(t)
           \/ LoadStart \/ LoadRead \/ LoadFails \/ LoadDone \/ Rest
  BY <1>7, KeysKeep
<1>8. ASSUME NEW outcome, MintEthereum(outcome) \/ MintBitcoin(outcome) PROVE ServiceInv'
  BY <1>8, MintKeeps
<1>9. ASSUME NEW outcome \in {"ok", "reverted", "failed", "unheard", "late"}, MarkEthereum(outcome)
      PROVE  ServiceInv'
  BY <1>9, MarkEthereumKeeps
<1>10. ASSUME NEW a \in scene.amounts, NEW b \in scene.amounts, NEW currency, NEW k, NEW lands,
              WithdrawToL1(<<FromWei(a), FromWei(b)>>, currency, k, lands)
       PROVE  ServiceInv'
  BY <1>10, WithdrawKeeps
<1>11. CASE UNCHANGED vars
  BY <1>11, KeysKeep DEF Rest
<1>12. QED
  BY <1>1, <1>2, <1>3, <1>4, <1>5, <1>6, <1>7, <1>8, <1>9, <1>10, <1>11 DEF Next

\* The state of the bridge service is always of its type.
THEOREM ServiceWellFormed == Spec => []TypeOK
<1>1. ServiceInv => TypeOK
  BY DEF ServiceInv
<1>2. QED
  BY InitEstablishes, NextKeeps, <1>1, PTL DEF Spec

\* Whatever calls fail, are lost or late, whatever is reorganized and wherever the service
\* crashes: a deposit is marked only after its tokens were minted, minted for no more
\* often than once and once more for each lost answer, lost mark or crash of its own, never
\* minted for when a reorganization can still remove it, and no single conversion gains
\* value (process_single_deposit, withdraw_to_l1_impl).
THEOREM EveryMintHasACause == Spec => []MintsHaveCause
<1>1. ServiceInv => MintsHaveCause
  BY DEF ServiceInv, MintsHaveCause, OutOfReach, NoMintForReorganized
<1>2. QED
  BY InitEstablishes, NextKeeps, <1>1, PTL DEF Spec
=============================================================================
