--------------------------- MODULE TokenMapProofs ---------------------------
(***************************************************************************)
(* Theorems about the TokenMap, for every set of tokens, credentials,      *)
(* histories and concurrent requests.                                      *)
(***************************************************************************)
EXTENDS TokenMap, SequenceTheorems, FiniteSetTheorems, WellFoundedInduction,
        TLAPS

USE DEF faults

\* A non-empty set of naturals has a least element, and First picks it.
LEMMA FirstIsLeast ==
    ASSUME NEW S \in SUBSET Nat, S # {}
    PROVE  /\ First(S) \in S
           /\ \A m \in S : First(S) <= m
<1> DEFINE R == {ss \in Nat \X Nat : ss[1] < ss[2]}
<1>1. OpToRel(<, Nat) = R
  BY DEF OpToRel
<1>2. IsWellFoundedOn(R, Nat)
  BY <1>1, NatLessThanWellFounded
<1>3. \E n \in S : \A m \in S : ~ (<<m, n>> \in R)
  <2> HIDE DEF R
  <2> QED BY <1>2, WFMin
<1>4. \E n \in S : \A m \in S : n <= m
  <2>1. PICK n \in S : \A m \in S : ~ (<<m, n>> \in R)
    BY <1>3
  <2>2. ASSUME NEW m \in S PROVE n <= m
    <3>1. m \in Nat /\ n \in Nat /\ <<m, n>> \notin R
      BY <2>1
    <3>2. ~ (m < n)
      BY <3>1
    <3>3. QED BY <3>1, <3>2
  <2>3. QED BY <2>2
<1>5. QED
  BY <1>4 DEF First
-----------------------------------------------------------------------------
(***************************************************************************)
(* Lemmas about the functions that compare histories.                      *)
(***************************************************************************)
\* Differing does not depend on the order of the two histories.
LEMMA DifferencesSymmetric ==
    ASSUME NEW s, NEW t
    PROVE  Differences(s, t) = Differences(t, s)
BY DEF Differences

\* Differences are positions, hence natural numbers.
LEMMA DifferencesNat ==
    ASSUME NEW s \in History, NEW t \in History
    PROVE  Differences(s, t) \in SUBSET Nat
BY DEF Differences, History

\* What token_is_extension returns: a history that the candidate continues.
LEMMA ExtensionContinues ==
    ASSUME NEW cand \in History, NEW tokens \in Seq(History),
           token_is_extension(cand, tokens) # 0
    PROVE  token_is_extension(cand, tokens) \in Continued(cand, tokens)
<1> DEFINE C == Continued(cand, tokens)
<1>1. C # {} /\ token_is_extension(cand, tokens) = First(C)
  BY DEF token_is_extension
<1>2. C \in SUBSET Nat
  BY DEF Continued
<1>3. QED
  BY <1>1, <1>2, FirstIsLeast

\* A verified history that is neither known nor an extension departs from
\* every history on record: this is why `expect` in update_impl is safe.
LEMMA DepartsFromAll ==
    ASSUME NEW cand \in History, Verified(cand),
           NEW tokens \in Seq(History),
           ~ token_is_known(cand, tokens),
           token_is_extension(cand, tokens) = 0
    PROVE  \A k \in DOMAIN tokens : Differences(tokens[k], cand) # {}
<1> DEFINE C == Continued(cand, tokens)
<1>1. C = {}
  <2> SUFFICES ASSUME C # {} PROVE FALSE
    OBVIOUS
  <2>1. C \in SUBSET Nat /\ 0 \notin C
    BY DEF Continued
  <2>2. First(C) # 0
    BY <2>1, FirstIsLeast
  <2>3. Inflated(cand, Len(tokens[First(C)]))
    BY <2>2 DEF token_is_extension
  <2>4. PICK i \in DOMAIN cand : cand[i].split > Value
    BY <2>3 DEF Inflated
  <2>5. cand[i].split \in Int /\ cand[i].split <= Value
    <3>1. cand[i] \in Link
      BY DEF History
    <3>2. cand[i].split \in Int
      BY <3>1 DEF Link
    <3>3. QED
      BY <3>2 DEF Verified
  <2>6. QED
    BY <2>4, <2>5, ValueAssumption
<1>2. ASSUME NEW k \in DOMAIN tokens, Differences(tokens[k], cand) = {}
      PROVE  FALSE
  <2>1. Len(cand) > Len(tokens[k])
    <3>1. tokens[k] \in History
      OBVIOUS
    <3>2. Len(cand) \in Nat /\ Len(tokens[k]) \in Nat
      BY <3>1, LenProperties DEF History
    <3>3. ~ (Len(cand) <= Len(tokens[k]))
      BY <1>2 DEF token_is_known
    <3>4. QED
      BY <3>2, <3>3
  <2>2. k \in C
    BY <1>2, <2>1 DEF Continued
  <2>3. QED
    BY <1>1, <2>2
<1>3. QED
  BY <1>2

\* Where token_get_fork points when there is something to point at.
LEMMA ForkPosition ==
    ASSUME NEW cand \in History, NEW tokens \in Seq(History),
           Departed(cand, tokens) # {}
    PROVE  LET fork == token_get_fork(cand, tokens)
           IN  /\ fork[1] \in DOMAIN tokens
               /\ fork[2] \in Differences(tokens[fork[1]], cand)
               /\ \A j \in Differences(tokens[fork[1]], cand) : fork[2] <= j
<1> DEFINE D == Departed(cand, tokens)
           k == First(D)
           P == Differences(tokens[k], cand)
<1>1. D \in SUBSET Nat
  BY DEF Departed
<1>2. k \in D
  BY <1>1, FirstIsLeast
<1>3. k \in DOMAIN tokens /\ P # {} /\ tokens[k] \in History
  <2> HIDE DEF k
  <2>1. k \in DOMAIN tokens /\ P # {}
    BY <1>2 DEF Departed
  <2>2. QED
    BY <2>1
<1>4. P \in SUBSET Nat
  BY <1>3, DifferencesNat
<1>5. First(P) \in P /\ \A j \in P : First(P) <= j
  BY <1>3, <1>4, FirstIsLeast
<1>6. token_get_fork(cand, tokens) = <<k, First(P)>>
  BY DEF token_get_fork
<1>7. QED
  BY <1>3, <1>5, <1>6
-----------------------------------------------------------------------------
(***************************************************************************)
(* The three ways in which update_impl changes an entry keep it good.      *)
(***************************************************************************)
\* A fork stays where it is when one of the two histories grows.
LEMMA ForkSurvivesExtension ==
    ASSUME NEW s \in History, NEW t \in History, NEW i, ForksAt(s, t, i),
           NEW u \in History, Len(u) > Len(s), Differences(s, u) = {}
    PROVE  ForksAt(u, t, i) /\ ForksAt(t, u, i)
<1>1. DOMAIN s \subseteq DOMAIN u /\ DOMAIN s = 1 .. Len(s)
  BY DEF History
<1>2. \A j \in DOMAIN s : u[j] = s[j]
  BY <1>1 DEF Differences
<1>3. i \in DOMAIN s /\ i \in DOMAIN t /\ s[i] # t[i]
  BY DEF ForksAt, Differences
<1>4. i \in Differences(u, t)
  BY <1>1, <1>2, <1>3 DEF Differences
<1>5. \A j \in Differences(u, t) : i <= j
  <2> SUFFICES ASSUME NEW j \in Differences(u, t), ~ (i <= j)
               PROVE  FALSE
    OBVIOUS
  <2>1. j \in DOMAIN u /\ j \in DOMAIN t /\ u[j] # t[j] /\ j \in Nat /\ j >= 1
    BY DEF Differences, History
  <2>2. j \in DOMAIN s
    BY <1>1, <1>3, <2>1
  <2>3. j \in Differences(s, t)
    BY <1>2, <2>1, <2>2 DEF Differences
  <2>4. QED
    BY <2>3 DEF ForksAt
<1>6. ~ ValidSplit(u[i], t[i]) /\ ~ ValidSplit(t[i], u[i])
  <2>1. ~ ValidSplit(s[i], t[i])
    BY DEF ForksAt
  <2>2. s[i] \in Link /\ t[i] \in Link
    BY <1>3 DEF History
  <2>3. s[i].split \in Int /\ t[i].split \in Int
    BY <2>2 DEF Link
  <2>4. s[i].split + t[i].split = t[i].split + s[i].split
    BY <2>3
  <2>5. QED
    BY <1>2, <1>3, <2>1, <2>4 DEF ValidSplit
<1>7. QED
  BY <1>4, <1>5, <1>6, DifferencesSymmetric DEF ForksAt

\* A fork seen from the other history.
LEMMA ForkSymmetric ==
    ASSUME NEW s \in History, NEW t \in History, NEW i, ForksAt(s, t, i)
    PROVE  ForksAt(t, s, i)
<1>1. i \in DOMAIN s /\ i \in DOMAIN t /\ ~ ValidSplit(s[i], t[i])
  BY DEF ForksAt, Differences
<1>2. s[i] \in Link /\ t[i] \in Link
  BY <1>1 DEF History
<1>3. s[i].split \in Int /\ t[i].split \in Int
  BY <1>2 DEF Link
<1>4. s[i].split + t[i].split = t[i].split + s[i].split
  BY <1>3
<1>5. ~ ValidSplit(t[i], s[i])
  BY <1>1, <1>4 DEF ValidSplit
<1>6. QED
  BY <1>5, DifferencesSymmetric DEF ForksAt

\* Replacing a history by one that continues it.
LEMMA ExtensionKeepsGood ==
    ASSUME NEW e \in Entry, GoodEntry(e), NEW cand \in History,
           NEW x \in Continued(cand, e.tokens)
    PROVE  /\ [e EXCEPT !.tokens[x] = cand] \in Entry
           /\ GoodEntry([e EXCEPT !.tokens[x] = cand])
<1> DEFINE f == [e EXCEPT !.tokens[x] = cand]
<1>1. /\ x \in DOMAIN e.tokens
      /\ Len(cand) > Len(e.tokens[x])
      /\ Differences(e.tokens[x], cand) = {}
  BY DEF Continued
<1>2. e.tokens \in Seq(History) /\ e.abuses \in Seq(Abuse)
  BY DEF Entry
<1>3. f.tokens = [e.tokens EXCEPT ![x] = cand] /\ f.abuses = e.abuses
  BY DEF Entry
<1>4. f.tokens \in Seq(History) /\ DOMAIN f.tokens = DOMAIN e.tokens
  BY <1>1, <1>2, <1>3, ExceptSeq
<1>5. f \in Entry
  BY <1>2, <1>4 DEF Entry
<1>6. /\ f.tokens[x] = cand
      /\ \A k \in DOMAIN e.tokens : k # x => f.tokens[k] = e.tokens[k]
  BY <1>1, <1>3
<1>7. \A j \in DOMAIN e.tokens : e.tokens[j] \in History
  BY <1>2
<1> HIDE DEF f
<1>8. DoNotMerge(f.tokens)
  <2>1. ASSUME NEW j \in DOMAIN e.tokens, j # x
        PROVE  Differences(e.tokens[j], cand) # {}
    <3>1. Differences(e.tokens[j], e.tokens[x]) # {}
      BY <1>1, <2>1 DEF GoodEntry, DoNotMerge
    <3>2. PICK i \in DOMAIN e.tokens[j] \cap DOMAIN e.tokens[x] :
              e.tokens[j][i] # e.tokens[x][i]
      BY <3>1 DEF Differences
    <3>3. i \in DOMAIN cand
      BY <1>1, <1>7, <3>2 DEF History
    <3>4. cand[i] = e.tokens[x][i]
      BY <1>1, <3>2, <3>3 DEF Differences
    <3>5. QED
      BY <3>2, <3>3, <3>4 DEF Differences
  <2>2. ASSUME NEW j \in DOMAIN f.tokens, NEW k \in DOMAIN f.tokens, j # k
        PROVE  Differences(f.tokens[j], f.tokens[k]) # {}
    <3>1. CASE j = x
      BY <1>4, <1>6, <2>1, <2>2, <3>1, DifferencesSymmetric
    <3>2. CASE k = x
      BY <1>4, <1>6, <2>1, <2>2, <3>2
    <3>3. CASE j # x /\ k # x
      BY <1>4, <1>6, <2>2, <3>3 DEF GoodEntry, DoNotMerge
    <3>4. QED
      BY <3>1, <3>2, <3>3
  <2>3. QED
    BY <2>2 DEF DoNotMerge
<1>9. AbusesPointAtForks(f)
  <2> SUFFICES ASSUME NEW n \in DOMAIN f.abuses
               PROVE  /\ f.abuses[n].token_index \in DOMAIN f.tokens
                      /\ \E k \in DOMAIN f.tokens :
                            ForksAt(f.tokens[f.abuses[n].token_index],
                                    f.tokens[k], f.abuses[n].history_index)
    BY DEF AbusesPointAtForks
  <2> DEFINE p == f.abuses[n].token_index
             i == f.abuses[n].history_index
  <2>1. p \in DOMAIN e.tokens
    BY <1>3 DEF GoodEntry, AbusesPointAtForks
  <2>2. PICK k \in DOMAIN e.tokens : ForksAt(e.tokens[p], e.tokens[k], i)
    BY <1>3 DEF GoodEntry, AbusesPointAtForks
  <2> HIDE DEF p, i
  <2>3. p # k
    BY <2>2 DEF ForksAt, Differences
  <2>4. ForksAt(f.tokens[p], f.tokens[k], i)
    <3>1. CASE p = x
      BY <1>1, <1>6, <1>7, <2>2, <2>3, <3>1, ForkSurvivesExtension
    <3>2. CASE k = x
      <4>1. ForksAt(e.tokens[k], e.tokens[p], i)
        BY <1>7, <2>1, <2>2, ForkSymmetric
      <4>2. ForksAt(e.tokens[p], cand, i)
        BY <1>1, <1>7, <2>1, <3>2, <4>1, ForkSurvivesExtension
      <4>3. QED
        BY <1>6, <2>1, <2>3, <3>2, <4>2
    <3>3. CASE p # x /\ k # x
      BY <1>6, <2>1, <2>2, <3>3
    <3>4. QED
      BY <3>1, <3>2, <3>3
  <2>5. QED
    BY <1>4, <2>1, <2>4 DEF p, i
<1>10. QED
  BY <1>5, <1>8, <1>9 DEF GoodEntry, f

\* Adding a history that departs from all the others keeps them separate and
\* leaves the earlier abuses where they point.
LEMMA AddingKeepsGood ==
    ASSUME NEW e \in Entry, GoodEntry(e), NEW cand \in History,
           \A k \in DOMAIN e.tokens : Differences(e.tokens[k], cand) # {}
    PROVE  LET tokens == Append(e.tokens, cand)
           IN  /\ tokens \in Seq(History)
               /\ DOMAIN tokens = DOMAIN e.tokens \cup {Len(e.tokens) + 1}
               /\ tokens[Len(e.tokens) + 1] = cand
               /\ \A k \in DOMAIN e.tokens : tokens[k] = e.tokens[k]
               /\ DoNotMerge(tokens)
               /\ AbusesPointAtForks([e EXCEPT !.tokens = tokens])
<1> DEFINE tokens == Append(e.tokens, cand)
           last == Len(e.tokens) + 1
<1>1. e.tokens \in Seq(History) /\ e.abuses \in Seq(Abuse)
  BY DEF Entry
<1>2. /\ tokens \in Seq(History)
      /\ DOMAIN tokens = DOMAIN e.tokens \cup {last}
      /\ last \notin DOMAIN e.tokens
      /\ tokens[last] = cand
      /\ \A k \in DOMAIN e.tokens : tokens[k] = e.tokens[k]
  BY <1>1
<1> HIDE DEF tokens, last
<1>3. DoNotMerge(tokens)
  <2>1. ASSUME NEW j \in DOMAIN tokens, NEW k \in DOMAIN tokens, j # k
        PROVE  Differences(tokens[j], tokens[k]) # {}
    <3>1. CASE j = last
      BY <1>2, <2>1, <3>1, DifferencesSymmetric
    <3>2. CASE k = last
      BY <1>2, <2>1, <3>2
    <3>3. CASE j # last /\ k # last
      BY <1>2, <2>1, <3>3 DEF GoodEntry, DoNotMerge
    <3>4. QED
      BY <3>1, <3>2, <3>3
  <2>2. QED
    BY <2>1 DEF DoNotMerge
<1>4. AbusesPointAtForks([e EXCEPT !.tokens = tokens])
  <2>1. /\ [e EXCEPT !.tokens = tokens].tokens = tokens
        /\ [e EXCEPT !.tokens = tokens].abuses = e.abuses
    BY DEF Entry
  <2>2. ASSUME NEW n \in DOMAIN e.abuses
        PROVE  /\ e.abuses[n].token_index \in DOMAIN tokens
               /\ \E k \in DOMAIN tokens :
                     ForksAt(tokens[e.abuses[n].token_index], tokens[k],
                             e.abuses[n].history_index)
    <3>1. e.abuses[n].token_index \in DOMAIN e.tokens
      BY DEF GoodEntry, AbusesPointAtForks
    <3>2. PICK k \in DOMAIN e.tokens :
              ForksAt(e.tokens[e.abuses[n].token_index], e.tokens[k],
                      e.abuses[n].history_index)
      BY DEF GoodEntry, AbusesPointAtForks
    <3>3. k \in DOMAIN tokens /\ tokens[k] = e.tokens[k]
      BY <1>2
    <3>4. QED
      BY <1>2, <3>1, <3>2, <3>3
  <2>3. QED
    BY <2>1, <2>2 DEF AbusesPointAtForks
<1>5. QED
  BY <1>2, <1>3, <1>4 DEF tokens, last

\* The entry that update_impl writes for a double spend.
LEMMA AbuseKeepsGood ==
    ASSUME NEW e \in Entry, GoodEntry(e), NEW cand \in Histories,
           Departed(cand, e.tokens) # {}, IsDoubleSpend(cand, e)
    PROVE  LET g == WithAbuse(e, cand, token_get_fork(cand, e.tokens))
           IN  g \in Entry /\ GoodEntry(g)
<1> DEFINE fork == token_get_fork(cand, e.tokens)
           a == [token_index |-> fork[1], history_index |-> fork[2]]
           tokens == Append(e.tokens, cand)
           abuses == Append(e.abuses, a)
           g == WithAbuse(e, cand, fork)
<1>1. cand \in History /\ Verified(cand)
  BY ConstantsAssumption
<1>2. e.tokens \in Seq(History) /\ e.abuses \in Seq(Abuse)
  BY DEF Entry
<1>3. \A k \in DOMAIN e.tokens : Differences(e.tokens[k], cand) # {}
  BY <1>1, <1>2, DepartsFromAll DEF IsDoubleSpend
<1>4. /\ tokens \in Seq(History)
      /\ DOMAIN tokens = DOMAIN e.tokens \cup {Len(e.tokens) + 1}
      /\ tokens[Len(e.tokens) + 1] = cand
      /\ \A k \in DOMAIN e.tokens : tokens[k] = e.tokens[k]
      /\ DoNotMerge(tokens)
      /\ AbusesPointAtForks([e EXCEPT !.tokens = tokens])
  BY <1>1, <1>3, AddingKeepsGood
<1>5. /\ fork[1] \in DOMAIN e.tokens
      /\ fork[2] \in Differences(e.tokens[fork[1]], cand)
      /\ \A j \in Differences(e.tokens[fork[1]], cand) : fork[2] <= j
  BY <1>1, <1>2, ForkPosition
<1>6. ~ ValidSplit(e.tokens[fork[1]][fork[2]], cand[fork[2]])
  BY DEF IsDoubleSpend, token_is_second_split
<1>7. ForksAt(e.tokens[fork[1]], cand, fork[2])
  BY <1>5, <1>6 DEF ForksAt
<1>8. g = [tokens |-> tokens, abuses |-> abuses]
  BY DEF WithAbuse
<1>9. fork[1] \in Nat /\ fork[2] \in Nat
  <2>1. fork[1] \in Nat
    BY <1>2, <1>5
  <2>2. e.tokens[fork[1]] \in History
    BY <1>2, <1>5
  <2>3. QED
    BY <1>1, <1>5, <2>1, <2>2, DifferencesNat
<1> HIDE DEF fork, g, tokens
<1>10. a \in Abuse
  BY <1>9 DEF Abuse
<1> HIDE DEF a
<1>11. /\ abuses \in Seq(Abuse)
       /\ DOMAIN abuses = DOMAIN e.abuses \cup {Len(e.abuses) + 1}
       /\ abuses[Len(e.abuses) + 1] = a
       /\ \A n \in DOMAIN e.abuses : abuses[n] = e.abuses[n]
  BY <1>2, <1>10
<1> HIDE DEF abuses
<1>12. g \in Entry
  BY <1>4, <1>8, <1>11 DEF Entry
<1>13. AbusesPointAtForks(g)
  <2> SUFFICES ASSUME NEW n \in DOMAIN abuses
               PROVE  /\ abuses[n].token_index \in DOMAIN tokens
                      /\ \E k \in DOMAIN tokens :
                            ForksAt(tokens[abuses[n].token_index], tokens[k],
                                    abuses[n].history_index)
    BY <1>8 DEF AbusesPointAtForks
  <2>1. CASE n \in DOMAIN e.abuses
    <3>1. /\ [e EXCEPT !.tokens = tokens].tokens = tokens
          /\ [e EXCEPT !.tokens = tokens].abuses = e.abuses
      BY DEF Entry
    <3>2. QED
      BY <1>4, <1>11, <2>1, <3>1 DEF AbusesPointAtForks
  <2>2. CASE n = Len(e.abuses) + 1
    <3>1. abuses[n].token_index = fork[1] /\ abuses[n].history_index = fork[2]
      BY <1>11, <2>2 DEF a
    <3>2. tokens[fork[1]] = e.tokens[fork[1]] /\ fork[1] \in DOMAIN tokens
      BY <1>4, <1>5
    <3>3. ForksAt(tokens[fork[1]], tokens[Len(e.tokens) + 1], fork[2])
      BY <1>4, <1>7, <3>2
    <3>4. QED
      BY <1>4, <3>1, <3>2, <3>3
  <2>3. QED
    BY <1>11, <2>1, <2>2
<1>14. DoNotMerge(g.tokens)
  BY <1>4, <1>8
<1>15. QED
  BY <1>12, <1>13, <1>14 DEF GoodEntry, g, fork
-----------------------------------------------------------------------------
(***************************************************************************)
(* Type correctness, for every step of every handler.                      *)
(***************************************************************************)
\* What a request in flight carries, by the await it is suspended at.
LEMMA RequestFields ==
    ASSUME NEW r \in Request
    PROVE  /\ r.pc \in {"create", "index", "replace", "lookup", "abuse",
                        "revoke"} => r.id \in Ids /\ r.cand \in Histories
           /\ r.pc \in {"replace", "lookup", "abuse"} => r.entry \in Entry
           /\ r.pc \in {"lookup", "abuse", "revoke", "archive"} => r.row \in Row
           /\ r.pc = "store" => r.batch \in Seq(Creds) /\ r.batch # <<>>
BY DEF Request

\* The row that a double spend produces names credentials of the token.
LEMMA AbuseRowType ==
    ASSUME NEW e \in Entry, NEW id \in Ids, NEW cand \in Histories,
           Departed(cand, e.tokens) # {}
    PROVE  LET fork == token_get_fork(cand, e.tokens)
               known == e.tokens[fork[1]]
           IN  [id |-> id, group |-> known[fork[2]].to,
                ttc |-> Signer(id, known, fork[2])] \in Row
<1> DEFINE fork == token_get_fork(cand, e.tokens)
           known == e.tokens[fork[1]]
           i == fork[2]
<1>1. cand \in History /\ e.tokens \in Seq(History)
  BY ConstantsAssumption DEF Entry
<1>2. fork[1] \in DOMAIN e.tokens /\ i \in Differences(known, cand)
  BY <1>1, ForkPosition
<1> HIDE DEF fork
<1>3. known \in History /\ i \in DOMAIN known
  BY <1>1, <1>2 DEF Differences
<1> HIDE DEF known, i
<1>4. \A j \in DOMAIN known : known[j].to \in Creds
  <2>1. \A j \in DOMAIN known : known[j] \in Link
    BY <1>3 DEF History
  <2>2. QED
    BY <2>1 DEF Link
<1>5. Signer(id, known, i) \in Creds
  <2>1. CASE i = 1
    BY <2>1, ConstantsAssumption DEF Signer
  <2>2. CASE i # 1
    <3>1. i - 1 \in DOMAIN known
      BY <1>3, <2>2 DEF History
    <3>2. QED
      BY <1>4, <2>2, <3>1 DEF Signer
  <2>3. QED
    BY <2>1, <2>2
<1>6. QED
  BY <1>3, <1>4, <1>5 DEF Row, known, i, fork

\* The last recipient of a submitted history is a credential.
LEMMA HolderType ==
    ASSUME NEW id \in Ids, NEW h \in Histories
    PROVE  Holder(id, h) \in Creds
<1>1. h \in History
  BY ConstantsAssumption
<1>2. CASE h = <<>>
  BY <1>2, ConstantsAssumption DEF Holder
<1>3. CASE h # <<>>
  <2>1. h[Len(h)] \in Link
    BY <1>1, <1>3 DEF History
  <2>2. QED
    BY <1>3, <2>1 DEF Holder, Link
<1>4. QED
  BY <1>2, <1>3

\* A request that is answered leaves an idle slot.
LEMMA IdleType == Idle \in Request
BY DEF Idle, Request

\* What is given up names ids and histories of the requests that end.
LEMMA UnwrittenType ==
    ASSUME TypeOK, NEW W \in SUBSET Workers, Unwritten(W)
    PROVE  unindexed' \subseteq Ids \X Histories /\ unrevoked' \subseteq Ids
<1>1. \A w \in W : rpc[w] \in Request
  BY DEF TypeOK
<1>2. \A w \in W : rpc[w].pc \in {"index", "revoke"} => rpc[w].id \in Ids /\ rpc[w].cand \in Histories
  BY <1>1, RequestFields
<1>3. QED
  BY <1>2 DEF Unwritten, TypeOK

\* Every step of update_impl, store_tickets_impl and archive_impl keeps the
\* tables and the requests in flight well-formed.
THEOREM TypeCorrect == Spec => []TypeOK
<1>1. Init => TypeOK
  <2> SUFFICES ASSUME Init PROVE TypeOK
    OBVIOUS
  <2>1. NoEntry \in Entry
    BY DEF NoEntry, Entry
  <2>2. faultCount \in 0 .. MaxFaults
    BY ConstantsAssumption DEF Init
  <2>3. QED
    BY <2>1, <2>2, IdleType DEF Init, TypeOK
<1>2. TypeOK /\ [Next]_vars => TypeOK'
  <2> SUFFICES ASSUME TypeOK, [Next]_vars PROVE TypeOK'
    OBVIOUS
  <2> USE DEF TypeOK
  <2>1. ASSUME NEW w \in Workers, NEW id \in Ids, NEW cand \in Histories,
               UpdateNew(w, id, cand)
        PROVE  TypeOK'
    <3>1. [pc |-> "create", id |-> id, cand |-> cand] \in Request
      BY DEF Request
    <3>2. QED
      BY <2>1, <3>1 DEF UpdateNew, Goto, tables
  <2>2. ASSUME NEW w \in Workers, NEW id \in Ids, NEW cand \in Histories,
               UpdateKnown(w, id, cand)
        PROVE  TypeOK'
    BY <2>2 DEF UpdateKnown, Ack, tables
  <2>3. ASSUME NEW w \in Workers, NEW id \in Ids, NEW cand \in Histories,
               UpdateExtension(w, id, cand)
        PROVE  TypeOK'
    <3> DEFINE e == entries[id]
               x == token_is_extension(cand, e.tokens)
               r == [pc |-> "replace", id |-> id, cand |-> cand,
                     entry |-> [e EXCEPT !.tokens[x] = cand]]
    <3>1. e \in Entry /\ e.tokens \in Seq(History) /\ cand \in History
      BY ConstantsAssumption DEF Entry
    <3>2. x \in Continued(cand, e.tokens)
      BY <2>3, <3>1, ExtensionContinues DEF UpdateExtension
    <3>3. x \in DOMAIN e.tokens
      BY <3>2 DEF Continued
    <3>4. [e.tokens EXCEPT ![x] = cand] \in Seq(History)
      BY <3>1, <3>3, ExceptSeq
    <3> HIDE DEF x
    <3>5. [e EXCEPT !.tokens[x] = cand] \in Entry
      BY <3>1, <3>4 DEF Entry
    <3>6. r \in Request
      BY <3>5 DEF Request
    <3>7. QED
      BY <2>3, <3>6 DEF UpdateExtension, Goto, tables, x
  <2>4. ASSUME NEW w \in Workers, NEW id \in Ids, NEW cand \in Histories,
               UpdateSecondSplit(w, id, cand)
        PROVE  TypeOK'
    <3> DEFINE e == entries[id]
               f == [e EXCEPT !.tokens = Append(@, cand)]
    <3>1. e \in Entry /\ e.tokens \in Seq(History) /\ cand \in History
      BY ConstantsAssumption DEF Entry
    <3>2. f \in Entry
      <4>1. Append(e.tokens, cand) \in Seq(History)
        BY <3>1
      <4> HIDE DEF e
      <4>2. QED
        BY <3>1, <4>1 DEF Entry
    <3>3. [pc |-> "replace", id |-> id, cand |-> cand, entry |-> f] \in Request
      <4> HIDE DEF f
      <4>1. QED
        BY <3>2 DEF Request
    <3>4. QED
      BY <2>4, <3>3 DEF UpdateSecondSplit, Goto, tables
  <2>5. ASSUME NEW w \in Workers, NEW id \in Ids, NEW cand \in Histories,
               UpdateFork(w, id, cand)
        PROVE  TypeOK'
    <3> DEFINE e == entries[id]
               fork == token_get_fork(cand, e.tokens)
    <3>1. e \in Entry /\ e.tokens \in Seq(History) /\ cand \in History
      BY ConstantsAssumption DEF Entry
    <3>2. Departed(cand, e.tokens) # {}
      BY <2>5 DEF UpdateFork
    <3>3. fork[1] \in Nat /\ fork[2] \in Nat
      <4>1. /\ fork[1] \in DOMAIN e.tokens
            /\ fork[2] \in Differences(e.tokens[fork[1]], cand)
        BY <3>1, <3>2, ForkPosition
      <4> HIDE DEF fork
      <4>2. fork[1] \in Nat /\ e.tokens[fork[1]] \in History
        BY <3>1, <4>1
      <4>3. QED
        BY <3>1, <4>1, <4>2, DifferencesNat
    <3>4. WithAbuse(e, cand, fork) \in Entry
      <4> HIDE DEF fork
      <4>1. [token_index |-> fork[1], history_index |-> fork[2]] \in Abuse
        BY <3>3 DEF Abuse
      <4>2. e.abuses \in Seq(Abuse)
        BY <3>1 DEF Entry
      <4>3. QED
        BY <3>1, <4>1, <4>2 DEF WithAbuse, Entry
    <3>5. AbuseRequest(id, cand, e, fork).row \in Row
      BY <3>1, <3>2, AbuseRowType DEF AbuseRequest
    <3> HIDE DEF fork
    <3>6. AbuseRequest(id, cand, e, fork) \in Request
      BY <3>4, <3>5 DEF AbuseRequest, Request
    <3>7. QED
      BY <2>5, <3>6 DEF UpdateFork, Goto, tables, fork
  <2>6. ASSUME NEW w \in Workers, CreateEntry(w)
        PROVE  TypeOK'
    <3>1. rpc[w] \in Request /\ rpc[w].pc = "create"
      BY <2>6 DEF CreateEntry
    <3>2. rpc[w].id \in Ids /\ rpc[w].cand \in Histories
      BY <3>1, RequestFields
    <3>3. [tokens |-> <<rpc[w].cand>>, abuses |-> <<>>] \in Entry
      BY <3>2, ConstantsAssumption DEF Entry
    <3>4. [rpc[w] EXCEPT !.pc = "index"] \in Request
      BY <3>1 DEF Request
    <3>5. QED
      BY <2>6, <3>2, <3>3, <3>4, IdleType DEF CreateEntry, Goto, Reply
  <2>7. ASSUME NEW w \in Workers, ReplaceEntry(w)
        PROVE  TypeOK'
    <3>1. rpc[w] \in Request /\ rpc[w].pc = "replace"
      BY <2>7 DEF ReplaceEntry
    <3>2. rpc[w].id \in Ids /\ rpc[w].cand \in Histories /\ rpc[w].entry \in Entry
      BY <3>1, RequestFields
    <3>3. [pc |-> "index", id |-> rpc[w].id, cand |-> rpc[w].cand] \in Request
      BY <3>2 DEF Request
    <3>4. QED
      BY <2>7, <3>2, <3>3 DEF ReplaceEntry, Goto
  <2>8. ASSUME NEW w \in Workers, UpdateHolderIndex(w)
        PROVE  TypeOK'
    <3>1. rpc[w].id \in Ids /\ rpc[w].cand \in Histories
      BY <2>8, RequestFields DEF UpdateHolderIndex
    <3>2. Holder(rpc[w].id, rpc[w].cand) \in Creds
      BY <3>1, HolderType
    <3>3. QED
      BY <2>8, <3>1, <3>2, IdleType DEF UpdateHolderIndex, Goto, Reply, Ack
  <2>9. ASSUME NEW w \in Workers, GetTicketSignature(w)
        PROVE  TypeOK'
    <3>1. rpc[w] \in Request /\ rpc[w].pc = "lookup"
      BY <2>9 DEF GetTicketSignature
    <3>2. [rpc[w] EXCEPT !.pc = "abuse"] \in Request
      BY <3>1 DEF Request
    <3>3. QED
      BY <2>9, <3>2, IdleType DEF GetTicketSignature, Goto, Reply, tables
  <2>10. ASSUME NEW w \in Workers, RecordAbuse(w)
         PROVE  TypeOK'
    <3>1. /\ rpc[w].id \in Ids /\ rpc[w].cand \in Histories
          /\ rpc[w].entry \in Entry /\ rpc[w].row \in Row
      BY <2>10, RequestFields DEF RecordAbuse
    <3>2. [pc |-> "revoke", id |-> rpc[w].id, cand |-> rpc[w].cand,
           row |-> rpc[w].row] \in Request
      BY <3>1 DEF Request
    <3>3. QED
      BY <2>10, <3>1, <3>2 DEF RecordAbuse, Goto
  <2>11. ASSUME NEW w \in Workers, InsertRevocation(w)
         PROVE  TypeOK'
    <3>1. /\ rpc[w].id \in Ids /\ rpc[w].cand \in Histories
          /\ rpc[w].row \in Row
      BY <2>11, RequestFields DEF InsertRevocation
    <3>2. QED
      BY <2>11, <3>1, IdleType DEF InsertRevocation, Goto, Reply, Ack
  <2>12. ASSUME NEW w \in Workers, InsertSignedTicket(w)
         PROVE  TypeOK'
    <3> DEFINE b == rpc[w].batch
    <3>1. b \in Seq(Creds) /\ b # <<>>
      BY <2>12, RequestFields DEF InsertSignedTicket
    <3>2. Head(b) \in Creds /\ Tail(b) \in Seq(Creds)
      BY <3>1
    <3>3. Tail(b) # <<>> => [pc |-> "store", batch |-> Tail(b)] \in Request
      BY <3>2 DEF Request
    <3>4. QED
      BY <2>12, <3>2, <3>3, IdleType DEF InsertSignedTicket, Goto, Reply
  <2>13. ASSUME NEW w \in Workers, ArchiveInsert(w)
         PROVE  TypeOK'
    <3>1. rpc[w].row \in Row
      BY <2>13, RequestFields DEF ArchiveInsert
    <3>2. QED
      BY <2>13, <3>1, IdleType DEF ArchiveInsert, Goto, Reply
  <2>14. ASSUME NEW w \in Workers, NEW batch \in TicketBatches,
                StoreTickets(w, batch)
         PROVE  TypeOK'
    <3>1. [pc |-> "store", batch |-> batch] \in Request
      BY ConstantsAssumption DEF Request
    <3>2. QED
      BY <2>14, <3>1 DEF StoreTickets, Goto, tables
  <2>15. ASSUME NEW w \in Workers, NEW id \in Ids, ArchiveRead(w, id)
         PROVE  TypeOK'
    <3>1. PICK row \in revocation : Goto(w, [pc |-> "archive", row |-> row])
      BY <2>15 DEF ArchiveRead
    <3>2. [pc |-> "archive", row |-> row] \in Request
      BY DEF Request
    <3>3. QED
      BY <2>15, <3>1, <3>2 DEF ArchiveRead, Goto, tables
  <2>16. CASE Crash
    <3>1. rpc' \in [Workers -> Request] /\ faultCount' \in 0 .. MaxFaults
      BY <2>16, IdleType, ConstantsAssumption DEF Crash, Fault
    <3>2. unindexed' \subseteq Ids \X Histories /\ unrevoked' \subseteq Ids
      BY <2>16, UnwrittenType DEF Crash
    <3>3. QED
      BY <2>16, <3>1, <3>2 DEF Crash, tables
  <2>17. CASE UNCHANGED vars
    BY <2>17 DEF vars, tables
  <2>19. ASSUME NEW w \in Workers, CallFails(w)
         PROVE  TypeOK'
    <3>1. rpc' \in [Workers -> Request] /\ faultCount' \in 0 .. MaxFaults
      BY <2>19, IdleType, ConstantsAssumption DEF CallFails, Fault, Reply, Goto
    <3>2. unindexed' \subseteq Ids \X Histories /\ unrevoked' \subseteq Ids
      BY <2>19, UnwrittenType DEF CallFails
    <3>3. acked' \subseteq Ids \X Histories
      BY <2>19, RequestFields DEF CallFails, Ack
    <3>4. QED
      BY <2>19, <3>1, <3>2, <3>3 DEF CallFails, tables
  <2>18. QED
    BY <2>1, <2>2, <2>3, <2>4, <2>5, <2>6, <2>7, <2>8, <2>9, <2>10, <2>11,
       <2>12, <2>13, <2>14, <2>15, <2>16, <2>17, <2>19 DEF Next, Update, Step
<1>3. QED
  BY <1>1, <1>2, PTL DEF Spec
-----------------------------------------------------------------------------
(***************************************************************************)
(* The entries.  A row is overwritten with a copy that may be older than   *)
(* the row, so the copies in flight are part of the invariant.             *)
(***************************************************************************)
\* Rows and copies in flight stay good whatever the requests in flight do,
\* including a crash between any two of their steps.
THEOREM EntriesAndCopiesStayGood == Spec => []EntriesAndCopiesGood
<1> DEFINE Inv == EntriesGood /\ CopiesGood
<1>1. Init => Inv
  <2>1. GoodEntry(NoEntry)
    BY DEF NoEntry, GoodEntry, DoNotMerge, AbusesPointAtForks
  <2>2. QED
    BY <2>1 DEF Init, EntriesGood, CopiesGood, Idle
<1>2. TypeOK /\ Inv /\ [Next]_vars => Inv'
  <2> SUFFICES ASSUME TypeOK, EntriesGood, CopiesGood, [Next]_vars
               PROVE  EntriesGood' /\ CopiesGood'
    OBVIOUS
  <2>0. /\ \A id \in Ids : entries[id] \in Entry /\ GoodEntry(entries[id])
        /\ \A cand \in Histories : cand \in History /\ Verified(cand)
    BY ConstantsAssumption DEF TypeOK, EntriesGood
  <2>1. ASSUME NEW w \in Workers, NEW id \in Ids, NEW cand \in Histories,
               UpdateNew(w, id, cand) \/ UpdateKnown(w, id, cand)
        PROVE  EntriesGood' /\ CopiesGood'
    BY <2>1 DEF UpdateNew, UpdateKnown, Goto, tables, TypeOK, EntriesGood,
                CopiesGood
  <2>2. ASSUME NEW w \in Workers, NEW id \in Ids, NEW cand \in Histories,
               UpdateExtension(w, id, cand)
        PROVE  EntriesGood' /\ CopiesGood'
    <3> DEFINE e == entries[id]
               x == token_is_extension(cand, e.tokens)
               f == [e EXCEPT !.tokens[x] = cand]
    <3>1. e.tokens \in Seq(History)
      BY <2>0 DEF Entry
    <3>2. x \in Continued(cand, e.tokens)
      BY <2>0, <2>2, <3>1, ExtensionContinues DEF UpdateExtension
    <3>3. GoodEntry(f)
      BY <2>0, <3>2, ExtensionKeepsGood
    <3>4. rpc' = [rpc EXCEPT ![w] = [pc |-> "replace", id |-> id,
                                     cand |-> cand, entry |-> f]]
      BY <2>2 DEF UpdateExtension, Goto
    <3> HIDE DEF f
    <3>5. CopiesGood'
      BY <3>3, <3>4 DEF CopiesGood, TypeOK
    <3>6. QED
      BY <2>2, <3>5 DEF UpdateExtension, tables, EntriesGood
  <2>3. ASSUME NEW w \in Workers, NEW id \in Ids, NEW cand \in Histories,
               UpdateSecondSplit(w, id, cand)
        PROVE  EntriesGood' /\ CopiesGood'
    <3> DEFINE e == entries[id]
               tokens == Append(e.tokens, cand)
               f == [e EXCEPT !.tokens = tokens]
    <3>1. e.tokens \in Seq(History)
      BY <2>0 DEF Entry
    <3>2. \A k \in DOMAIN e.tokens : Differences(e.tokens[k], cand) # {}
      BY <2>0, <2>3, <3>1, DepartsFromAll DEF UpdateSecondSplit
    <3>3. DoNotMerge(tokens) /\ AbusesPointAtForks(f)
      BY <2>0, <3>2, AddingKeepsGood
    <3>4. f.tokens = tokens
      <4> HIDE DEF tokens
      <4> QED BY <2>0 DEF Entry
    <3>5. GoodEntry(f)
      BY <3>3, <3>4 DEF GoodEntry
    <3>6. rpc' = [rpc EXCEPT ![w] = [pc |-> "replace", id |-> id,
                                     cand |-> cand, entry |-> f]]
      BY <2>3 DEF UpdateSecondSplit, Goto
    <3> HIDE DEF f
    <3>7. CopiesGood'
      BY <3>5, <3>6 DEF CopiesGood, TypeOK
    <3>8. QED
      BY <2>3, <3>7 DEF UpdateSecondSplit, tables, EntriesGood
  <2>4. ASSUME NEW w \in Workers, NEW id \in Ids, NEW cand \in Histories,
               UpdateFork(w, id, cand)
        PROVE  EntriesGood' /\ CopiesGood'
    <3> DEFINE e == entries[id]
               r == AbuseRequest(id, cand, e, token_get_fork(cand, e.tokens))
    <3>1. r.entry = WithAbuse(e, cand, token_get_fork(cand, e.tokens))
      BY DEF AbuseRequest
    <3>2. GoodEntry(r.entry)
      BY <2>0, <2>4, <3>1, AbuseKeepsGood DEF UpdateFork
    <3>3. rpc' = [rpc EXCEPT ![w] = r]
      BY <2>4 DEF UpdateFork, Goto
    <3> HIDE DEF r
    <3>4. CopiesGood'
      BY <3>2, <3>3 DEF CopiesGood, TypeOK
    <3>5. QED
      BY <2>4, <3>4 DEF UpdateFork, tables, EntriesGood
  <2>5. ASSUME NEW w \in Workers, CreateEntry(w)
        PROVE  EntriesGood' /\ CopiesGood'
    <3> DEFINE f == [tokens |-> <<rpc[w].cand>>, abuses |-> <<>>]
    <3>1. GoodEntry(f)
      BY DEF GoodEntry, DoNotMerge, AbusesPointAtForks
    <3>2. EntriesGood'
      <4> HIDE DEF f
      <4> QED
        BY <2>5, <3>1 DEF CreateEntry, EntriesGood, TypeOK, f
    <3>3. rpc'[w].pc \in {"index", "idle"}
      <4>1. rpc[w] \in Request /\ rpc[w].pc = "create"
        BY <2>5 DEF CreateEntry, TypeOK
      <4> DEFINE r == [rpc[w] EXCEPT !.pc = "index"]
      <4>2. r.pc = "index" /\ Idle.pc = "idle"
        BY <4>1 DEF Request, Idle
      <4>3. \/ rpc' = [rpc EXCEPT ![w] = r]
            \/ rpc' = [rpc EXCEPT ![w] = Idle]
        BY <2>5 DEF CreateEntry, Goto, Reply
      <4> HIDE DEF r
      <4>4. rpc'[w] = r \/ rpc'[w] = Idle
        BY <4>3 DEF TypeOK
      <4>5. QED
        BY <4>2, <4>4
    <3>4. \A v \in Workers : v # w => rpc'[v] = rpc[v]
      BY <2>5 DEF CreateEntry, Goto, Reply, TypeOK
    <3>5. CopiesGood'
      BY <3>3, <3>4 DEF CopiesGood
    <3>6. QED
      BY <3>2, <3>5
  <2>6. ASSUME NEW w \in Workers, ReplaceEntry(w) \/ RecordAbuse(w)
        PROVE  EntriesGood' /\ CopiesGood'
    <3>1. GoodEntry(rpc[w].entry)
      BY <2>6 DEF CopiesGood, ReplaceEntry, RecordAbuse
    <3>2. entries' = [entries EXCEPT ![rpc[w].id] = rpc[w].entry]
      BY <2>6 DEF ReplaceEntry, RecordAbuse
    <3>3. EntriesGood'
      BY <3>1, <3>2 DEF EntriesGood, TypeOK
    <3>4. rpc'[w].pc \in {"index", "revoke"}
      BY <2>6 DEF ReplaceEntry, RecordAbuse, Goto, TypeOK
    <3>5. \A v \in Workers : v # w => rpc'[v] = rpc[v]
      BY <2>6 DEF ReplaceEntry, RecordAbuse, Goto, TypeOK
    <3>6. CopiesGood'
      BY <3>4, <3>5 DEF CopiesGood
    <3>7. QED
      BY <3>3, <3>6
  <2>7. ASSUME NEW w \in Workers, GetTicketSignature(w)
        PROVE  EntriesGood' /\ CopiesGood'
    <3>1. rpc[w] \in Request /\ rpc[w].pc = "lookup"
      BY <2>7 DEF GetTicketSignature, TypeOK
    <3>2. [rpc[w] EXCEPT !.pc = "abuse"].entry = rpc[w].entry
      BY <3>1 DEF Request
    <3>3. \/ rpc' = [rpc EXCEPT ![w] = [rpc[w] EXCEPT !.pc = "abuse"]]
          \/ rpc' = [rpc EXCEPT ![w] = Idle]
      BY <2>7 DEF GetTicketSignature, Goto, Reply
    <3>4. rpc'[w].pc # "idle" => rpc'[w].entry = rpc[w].entry
      <4> DEFINE r == [rpc[w] EXCEPT !.pc = "abuse"]
      <4>1. r.entry = rpc[w].entry /\ Idle.pc = "idle"
        BY <3>2 DEF Idle
      <4>2. \/ rpc' = [rpc EXCEPT ![w] = r]
            \/ rpc' = [rpc EXCEPT ![w] = Idle]
        BY <3>3
      <4> HIDE DEF r
      <4>3. rpc'[w] = r \/ rpc'[w] = Idle
        BY <4>2 DEF TypeOK
      <4>4. QED
        BY <4>1, <4>3
    <3>5. \A v \in Workers : v # w => rpc'[v] = rpc[v]
      BY <3>3 DEF TypeOK
    <3>6. CopiesGood'
      BY <3>1, <3>4, <3>5 DEF CopiesGood
    <3>7. QED
      BY <2>7, <3>6 DEF GetTicketSignature, tables, EntriesGood
  <2>8. ASSUME NEW w \in Workers,
               \/ UpdateHolderIndex(w)
               \/ InsertRevocation(w)
               \/ InsertSignedTicket(w)
               \/ ArchiveInsert(w)
               \/ CallFails(w)
               \/ \E batch \in TicketBatches : StoreTickets(w, batch)
               \/ \E id \in Ids : ArchiveRead(w, id)
        PROVE  EntriesGood' /\ CopiesGood'
    <3>1. entries' = entries
      BY <2>8 DEF UpdateHolderIndex, InsertRevocation, InsertSignedTicket,
                  ArchiveInsert, CallFails, StoreTickets, ArchiveRead, tables
    <3>2. \E r : rpc' = [rpc EXCEPT ![w] = r]
                 /\ r.pc \in {"idle", "store", "archive"}
      BY <2>8 DEF UpdateHolderIndex, InsertRevocation, InsertSignedTicket,
                  ArchiveInsert, CallFails, StoreTickets, ArchiveRead, Goto, Reply, Idle
    <3>3. CopiesGood'
      BY <3>2 DEF CopiesGood, TypeOK
    <3>4. QED
      BY <3>1, <3>3 DEF EntriesGood
  <2>9. CASE Crash
    BY <2>9 DEF Crash, tables, EntriesGood, CopiesGood, Idle
  <2>10. CASE UNCHANGED vars
    BY <2>10 DEF vars, tables, EntriesGood, CopiesGood
  <2>11. QED
    BY <2>1, <2>2, <2>3, <2>4, <2>5, <2>6, <2>7, <2>8, <2>9, <2>10
       DEF Next, Update, Step
<1>3. QED
  BY <1>1, <1>2, TypeCorrect, PTL DEF Spec, EntriesAndCopiesGood

\* The histories of an entry never merge.
THEOREM HistoriesNeverMerge == Spec => []HistoriesDoNotMerge
<1>1. EntriesAndCopiesGood => HistoriesDoNotMerge
  BY DEF EntriesAndCopiesGood, EntriesGood, GoodEntry, HistoriesDoNotMerge
<1>2. QED
  BY <1>1, EntriesAndCopiesStayGood, PTL

\* No abuse is ever recorded without a real double spend where it points.
THEOREM NoFalseAccusation == Spec => []AbusePointsAtFork
<1>1. EntriesAndCopiesGood => AbusePointsAtFork
  BY DEF EntriesAndCopiesGood, EntriesGood, GoodEntry, AbusePointsAtFork
<1>2. QED
  BY <1>1, EntriesAndCopiesStayGood, PTL

\* update_impl never panics for want of a fork: the four cases of its
\* decision tree are exhaustive.
THEOREM DecisionTreeIsComplete == Spec => []ForkAlwaysFound
<1>1. TypeOK /\ EntriesAndCopiesGood => ForkAlwaysFound
  <2> SUFFICES ASSUME TypeOK, EntriesGood, NEW id \in Ids,
                      NEW cand \in Histories, IsDoubleSpend(cand, entries[id])
               PROVE  Departed(cand, entries[id].tokens) # {}
    BY DEF EntriesAndCopiesGood, ForkAlwaysFound
  <2> DEFINE e == entries[id]
  <2>1. e \in Entry /\ GoodEntry(e) /\ cand \in History /\ Verified(cand)
    BY ConstantsAssumption DEF TypeOK, EntriesGood
  <2>2. e.tokens \in Seq(History) /\ e.abuses \in Seq(Abuse)
    BY <2>1 DEF Entry
  <2>3. e # NoEntry /\ ~ token_is_known(cand, e.tokens)
        /\ token_is_extension(cand, e.tokens) = 0
    BY DEF IsDoubleSpend
  <2> HIDE DEF e
  <2>4. e.tokens # <<>>
    <3> SUFFICES ASSUME e.tokens = <<>> PROVE FALSE
      OBVIOUS
    <3>1. \A n \in DOMAIN e.abuses : FALSE
      BY <2>1 DEF GoodEntry, AbusesPointAtForks
    <3>2. e.abuses = <<>>
      <4>1. Len(e.abuses) \in Nat /\ DOMAIN e.abuses = 1 .. Len(e.abuses)
        BY <2>2
      <4>2. Len(e.abuses) = 0
        <5>1. SUFFICES ASSUME Len(e.abuses) # 0 PROVE FALSE
          OBVIOUS
        <5>2. 1 \in DOMAIN e.abuses
          BY <4>1, <5>1
        <5>3. QED
          BY <3>1, <5>2
      <4>3. QED
        BY <2>2, <4>2, EmptySeq
    <3>3. QED
      BY <2>1, <2>3, <3>2 DEF NoEntry, Entry
  <2>5. 1 \in DOMAIN e.tokens
    BY <2>2, <2>4
  <2>6. Differences(e.tokens[1], cand) # {}
    BY <2>1, <2>2, <2>3, <2>5, DepartsFromAll
  <2>7. QED
    BY <2>5, <2>6 DEF Departed, e
<1>2. QED
  BY <1>1, TypeCorrect, EntriesAndCopiesStayGood, PTL
-----------------------------------------------------------------------------
(***************************************************************************)
(* The derived tables.  A row of `revocation` or `holder_index` is due     *)
(* from the step that makes it necessary, and stays due until the same     *)
(* request has written it.  A copy of an entry that is in flight needs     *)
(* what the entry did when it was read.                                    *)
(***************************************************************************)
\* The ids whose revocation row is there, is about to be written or was given up.
RevocationsDue ==
    {id \in Ids : \/ id \in Keys(revocation) \cup unrevoked
                  \/ \E w \in Workers : rpc[w].pc = "revoke" /\ rpc[w].id = id}

\* The histories whose holder is in the index, is about to be written to it or was
\* given up.
HoldersDue ==
    {due \in Ids \X History :
        \/ <<Holder(due[1], due[2]), due[1]>> \in holder_index
        \/ due \in unindexed
        \/ \E w \in Workers :
              rpc[w].pc = "index" /\ rpc[w].id = due[1] /\ rpc[w].cand = due[2]}

\* What an entry needs, apart from the holder that its writer indexes next.
Settled(id, e, next, revocations, holders) ==
    /\ e.abuses # <<>> => id \in revocations
    /\ e.abuses = <<>> =>
          \A k \in DOMAIN e.tokens : e.tokens[k] = next \/ <<id, e.tokens[k]>> \in holders

\* Every row has what it needs.
RowsSettled ==
    \A id \in Ids :
        /\ entries[id].abuses # <<>> => id \in RevocationsDue
        /\ entries[id].abuses = <<>> =>
              \A k \in DOMAIN entries[id].tokens :
                  <<id, entries[id].tokens[k]>> \in HoldersDue

\* So has every copy that is to replace a row; a copy with a new abuse is followed
\* by the revocation of the same id.
CopySettled(r, revocations, holders) ==
    /\ r.pc = "replace" => Settled(r.id, r.entry, r.cand, revocations, holders)
    /\ r.pc \in {"lookup", "abuse"} => r.entry.abuses # <<>>
    /\ r.pc \in {"lookup", "abuse", "revoke"} => r.row.id = r.id

CopiesSettled == \A w \in Workers : CopySettled(rpc[w], RevocationsDue, HoldersDue)

TablesSettled == RowsSettled /\ CopiesSettled

\* A row given up stays given up.
LEMMA FaultsGrow ==
    ASSUME [Next]_vars
    PROVE  unindexed \subseteq unindexed' /\ unrevoked \subseteq unrevoked'
<1>1. ASSUME NEW w \in Workers, Update(w) PROVE UNCHANGED <<unindexed, unrevoked>>
  BY <1>1 DEF Update, UpdateNew, UpdateKnown, UpdateExtension, UpdateSecondSplit, UpdateFork
<1>2. ASSUME NEW w \in Workers, Step(w), ~ CallFails(w)
      PROVE  UNCHANGED <<unindexed, unrevoked>>
  BY <1>2 DEF Step, CreateEntry, ReplaceEntry, UpdateHolderIndex, GetTicketSignature,
              RecordAbuse, InsertRevocation, InsertSignedTicket, ArchiveInsert
<1>3. ASSUME Crash \/ \E w \in Workers : CallFails(w)
      PROVE  unindexed \subseteq unindexed' /\ unrevoked \subseteq unrevoked'
  BY <1>3 DEF Crash, CallFails, Unwritten
<1>4. ASSUME NEW w \in Workers,
             \/ \E batch \in TicketBatches : StoreTickets(w, batch)
             \/ \E id \in Ids : ArchiveRead(w, id)
      PROVE  UNCHANGED <<unindexed, unrevoked>>
  BY <1>4 DEF StoreTickets, ArchiveRead
<1>5. CASE UNCHANGED vars
  BY <1>5 DEF vars
<1>6. QED
  BY <1>1, <1>2, <1>3, <1>4, <1>5 DEF Next

\* What is due stays due until it is written or given up, in every step.
LEMMA DueStaysDue ==
    ASSUME TypeOK, [Next]_vars, CopiesSettled
    PROVE  RevocationsDue \subseteq RevocationsDue' /\ HoldersDue \subseteq HoldersDue'
<1> DEFINE Goal == RevocationsDue \subseteq RevocationsDue' /\ HoldersDue \subseteq HoldersDue'
<1>0. unindexed \subseteq unindexed' /\ unrevoked \subseteq unrevoked'
  BY FaultsGrow
<1>1. ASSUME NEW w \in Workers, NEW r, rpc[w].pc \notin {"revoke", "index"},
             rpc' = [rpc EXCEPT ![w] = r], UNCHANGED <<revocation, holder_index>>
      PROVE  Goal
  <2>1. \A v \in Workers : v # w => rpc'[v] = rpc[v]
    BY <1>1 DEF TypeOK
  <2>2. QED
    BY <1>0, <1>1, <2>1 DEF RevocationsDue, HoldersDue, Keys
<1>2. ASSUME NEW w \in Workers, InsertRevocation(w)
      PROVE  Goal
  <2>1. /\ rpc[w].pc = "revoke" /\ rpc[w].row.id = rpc[w].id
        /\ \A v \in Workers : v # w => rpc'[v] = rpc[v]
        /\ UNCHANGED holder_index
    BY <1>2 DEF InsertRevocation, Reply, Goto, TypeOK, CopiesSettled, CopySettled
  <2>2. rpc[w].id \in Keys(revocation)' /\ Keys(revocation) \subseteq Keys(revocation)'
    BY <1>2, <2>1 DEF InsertRevocation, Keys
  <2>3. QED
    BY <1>0, <2>1, <2>2 DEF RevocationsDue, HoldersDue
<1>3. ASSUME NEW w \in Workers, UpdateHolderIndex(w)
      PROVE  Goal
  <2>1. /\ rpc[w].pc = "index"
        /\ \A v \in Workers : v # w => rpc'[v] = rpc[v]
        /\ UNCHANGED revocation
        /\ holder_index' = holder_index \cup {<<Holder(rpc[w].id, rpc[w].cand), rpc[w].id>>}
    BY <1>3 DEF UpdateHolderIndex, Reply, Goto, TypeOK
  <2>2. QED
    BY <1>0, <2>1 DEF RevocationsDue, HoldersDue, Keys
<1>4. CASE UNCHANGED vars
  BY <1>0, <1>4 DEF vars, tables, RevocationsDue, HoldersDue, Keys
<1>5. ASSUME NEW w \in Workers,
             \/ Update(w)
             \/ CreateEntry(w) \/ ReplaceEntry(w) \/ GetTicketSignature(w)
             \/ RecordAbuse(w) \/ InsertSignedTicket(w) \/ ArchiveInsert(w)
             \/ \E batch \in TicketBatches : StoreTickets(w, batch)
             \/ \E id \in Ids : ArchiveRead(w, id)
      PROVE  Goal
  <2>1. /\ UNCHANGED <<revocation, holder_index>>
        /\ rpc[w].pc \notin {"revoke", "index"}
        /\ rpc' = rpc \/ \E r : rpc' = [rpc EXCEPT ![w] = r]
    BY <1>5 DEF Update, UpdateNew, UpdateKnown, UpdateExtension, UpdateSecondSplit, UpdateFork,
                CreateEntry, ReplaceEntry, GetTicketSignature, RecordAbuse, InsertSignedTicket,
                ArchiveInsert, StoreTickets, ArchiveRead, Goto, Reply, Idle, tables
  <2>2. CASE rpc' = rpc
    BY <1>0, <2>1, <2>2 DEF RevocationsDue, HoldersDue, Keys
  <2>3. QED
    BY <1>1, <2>1, <2>2
<1>7. ASSUME NEW W \in SUBSET Workers, Unwritten(W), UNCHANGED <<revocation, holder_index>>,
             \A v \in Workers \ W : rpc'[v] = rpc[v]
      PROVE  Goal
  <2>1. ASSUME NEW v \in Workers, rpc[v].pc = "revoke"
        PROVE  rpc'[v] = rpc[v] \/ rpc[v].id \in unrevoked'
    BY <1>7, <2>1 DEF Unwritten
  <2>2. ASSUME NEW v \in Workers, rpc[v].pc = "index"
        PROVE  rpc'[v] = rpc[v] \/ <<rpc[v].id, rpc[v].cand>> \in unindexed'
    BY <1>7, <2>2 DEF Unwritten
  <2>3. RevocationsDue \subseteq RevocationsDue'
    BY <1>0, <1>7, <2>1 DEF RevocationsDue, Keys
  <2>4. ASSUME NEW due \in Ids \X History, due \in HoldersDue PROVE due \in HoldersDue'
    <3>1. due = <<due[1], due[2]>>
      OBVIOUS
    <3>2. QED
      BY <1>0, <1>7, <2>2, <2>4, <3>1 DEF HoldersDue
  <2>5. QED
    BY <2>3, <2>4 DEF HoldersDue
<1>8. ASSUME Crash \/ \E w \in Workers : CallFails(w)
      PROVE  Goal
  <2>1. CASE Crash
    BY <1>7, <2>1 DEF Crash, tables
  <2>2. ASSUME NEW w \in Workers, CallFails(w) PROVE Goal
    BY <1>7, <2>2 DEF CallFails, Reply, Goto, tables, TypeOK
  <2>3. QED
    BY <1>8, <2>1, <2>2
<1>6. QED
  BY <1>2, <1>3, <1>4, <1>5, <1>8 DEF Next, Step

\* Every abuse on record has its revocation row and every holder of a token that is
\* not abused its index row, or the request that is to write it is still at work, or
\* that very write returned an error or was cut off by a crash: however requests
\* interleave, no stale copy of an entry loses a row of another request.
THEOREM TablesStayInAgreement == Spec => []TablesAgree
<1>1. Init => TablesSettled
  BY DEF Init, TablesSettled, RowsSettled, CopiesSettled, CopySettled, NoEntry, Idle
<1>2. TypeOK /\ TablesSettled /\ [Next]_vars => TablesSettled'
  <2> SUFFICES ASSUME TypeOK, TablesSettled, [Next]_vars
               PROVE  RowsSettled' /\ CopiesSettled'
    BY DEF TablesSettled
  <2>1. /\ RowsSettled /\ CopiesSettled
        /\ RevocationsDue \subseteq RevocationsDue' /\ HoldersDue \subseteq HoldersDue'
    BY DueStaysDue DEF TablesSettled
  <2>2. ASSUME entries' = entries PROVE RowsSettled'
    BY <2>1, <2>2 DEF RowsSettled
  <2>3. ASSUME NEW w \in Workers, rpc'[w] = rpc[w]
        PROVE  CopySettled(rpc'[w], RevocationsDue', HoldersDue')
    BY <2>1, <2>3 DEF CopiesSettled, CopySettled, Settled
  <2>4. ASSUME NEW w \in Workers, NEW r, rpc' = [rpc EXCEPT ![w] = r],
               CopySettled(r, RevocationsDue', HoldersDue')
        PROVE  CopiesSettled'
    <3>1. rpc'[w] = r /\ \A v \in Workers : v # w => rpc'[v] = rpc[v]
      BY <2>4 DEF TypeOK
    <3>2. \A v \in Workers : CopySettled(rpc'[v], RevocationsDue', HoldersDue')
      BY <2>3, <2>4, <3>1
    <3>3. QED
      BY <3>2 DEF CopiesSettled
  <2>5. ASSUME NEW w \in Workers, NEW id \in Ids, NEW cand \in Histories,
               UpdateNew(w, id, cand) \/ UpdateKnown(w, id, cand)
        PROVE  RowsSettled' /\ CopiesSettled'
    <3>1. CopySettled([pc |-> "create", id |-> id, cand |-> cand], RevocationsDue', HoldersDue')
      BY DEF CopySettled
    <3>2. entries' = entries
      BY <2>5 DEF UpdateNew, UpdateKnown, tables
    <3>3. \/ rpc' = rpc
          \/ rpc' = [rpc EXCEPT ![w] = [pc |-> "create", id |-> id, cand |-> cand]]
      BY <2>5 DEF UpdateNew, UpdateKnown, Goto
    <3>4. CASE rpc' = rpc
      BY <2>2, <2>3, <3>2, <3>4 DEF CopiesSettled
    <3>5. QED
      BY <2>2, <2>4, <3>1, <3>2, <3>3, <3>4
  <2>6. ASSUME NEW w \in Workers, NEW id \in Ids, NEW cand \in Histories,
               NEW tokens \in Seq(History), entries' = entries,
               \A k \in DOMAIN tokens :
                  tokens[k] = cand \/ \E j \in DOMAIN entries[id].tokens :
                                         tokens[k] = entries[id].tokens[j],
               rpc' = [rpc EXCEPT ![w] =
                         [pc |-> "replace", id |-> id, cand |-> cand,
                          entry |-> [entries[id] EXCEPT !.tokens = tokens]]]
        PROVE  RowsSettled' /\ CopiesSettled'
    <3> DEFINE e == [entries[id] EXCEPT !.tokens = tokens]
               r == [pc |-> "replace", id |-> id, cand |-> cand, entry |-> e]
    <3>1. e.tokens = tokens /\ e.abuses = entries[id].abuses
      BY DEF TypeOK, Entry
    <3>2. Settled(id, e, cand, RevocationsDue', HoldersDue')
      <4> HIDE DEF e
      <4> QED BY <2>1, <2>6, <3>1 DEF RowsSettled, Settled
    <3>3. CopySettled(r, RevocationsDue', HoldersDue')
      <4> HIDE DEF e
      <4> QED BY <3>2 DEF CopySettled
    <3>4. rpc' = [rpc EXCEPT ![w] = r]
      BY <2>6
    <3> HIDE DEF r
    <3>5. QED
      BY <2>2, <2>4, <2>6, <3>3, <3>4
  <2>7. ASSUME NEW w \in Workers, NEW id \in Ids, NEW cand \in Histories,
               UpdateExtension(w, id, cand)
        PROVE  RowsSettled' /\ CopiesSettled'
    <3> DEFINE e == entries[id]
               x == token_is_extension(cand, e.tokens)
               tokens == [e.tokens EXCEPT ![x] = cand]
    <3>1. e \in Entry /\ e.tokens \in Seq(History) /\ cand \in History
      BY ConstantsAssumption DEF TypeOK, Entry
    <3>2. x \in DOMAIN e.tokens
      BY <2>7, <3>1, ExtensionContinues DEF UpdateExtension, Continued
    <3>3. tokens \in Seq(History) /\ DOMAIN tokens = DOMAIN e.tokens
      BY <3>1, <3>2, ExceptSeq
    <3>4. \A k \in DOMAIN tokens :
             tokens[k] = cand \/ \E j \in DOMAIN entries[id].tokens :
                                    tokens[k] = entries[id].tokens[j]
      BY <3>1, <3>2
    <3>5. [e EXCEPT !.tokens[x] = cand] = [e EXCEPT !.tokens = tokens]
      BY <3>1 DEF Entry
    <3>6. rpc' = [rpc EXCEPT ![w] = [pc |-> "replace", id |-> id, cand |-> cand,
                                     entry |-> [e EXCEPT !.tokens = tokens]]]
      BY <2>7, <3>5 DEF UpdateExtension, Goto
    <3>7. entries' = entries
      BY <2>7 DEF UpdateExtension, tables
    <3> HIDE DEF tokens, x
    <3>8. QED
      BY <2>6, <3>3, <3>4, <3>6, <3>7
  <2>8. ASSUME NEW w \in Workers, NEW id \in Ids, NEW cand \in Histories,
               UpdateSecondSplit(w, id, cand)
        PROVE  RowsSettled' /\ CopiesSettled'
    <3> DEFINE e == entries[id]
               tokens == Append(e.tokens, cand)
    <3>1. e \in Entry /\ e.tokens \in Seq(History) /\ cand \in History
      BY ConstantsAssumption DEF TypeOK, Entry
    <3>2. tokens \in Seq(History) /\ DOMAIN tokens = DOMAIN e.tokens \cup {Len(e.tokens) + 1}
      BY <3>1
    <3>3. \A k \in DOMAIN tokens :
             tokens[k] = cand \/ \E j \in DOMAIN entries[id].tokens :
                                    tokens[k] = entries[id].tokens[j]
      BY <3>1
    <3>4. rpc' = [rpc EXCEPT ![w] = [pc |-> "replace", id |-> id, cand |-> cand,
                                     entry |-> [e EXCEPT !.tokens = tokens]]]
      BY <2>8 DEF UpdateSecondSplit, Goto
    <3>5. entries' = entries
      BY <2>8 DEF UpdateSecondSplit, tables
    <3> HIDE DEF tokens, e
    <3>6. rpc' = [rpc EXCEPT ![w] = [pc |-> "replace", id |-> id, cand |-> cand,
                                     entry |-> [entries[id] EXCEPT !.tokens = tokens]]]
      BY <3>4 DEF e
    <3>7. QED
      BY <2>6, <3>2, <3>3, <3>5, <3>6, Zenon
  <2>9. ASSUME NEW w \in Workers, NEW id \in Ids, NEW cand \in Histories,
               UpdateFork(w, id, cand)
        PROVE  RowsSettled' /\ CopiesSettled'
    <3> DEFINE e == entries[id]
               fork == token_get_fork(cand, e.tokens)
               r == AbuseRequest(id, cand, e, fork)
    <3>1. e.abuses \in Seq(Abuse)
      BY DEF TypeOK, Entry
    <3>2. WithAbuse(e, cand, fork).abuses # <<>>
      <4> HIDE DEF fork, e
      <4> QED BY <3>1 DEF WithAbuse
    <3>3. r.pc = "lookup" /\ r.entry.abuses # <<>> /\ r.row.id = r.id
      <4> HIDE DEF fork, e
      <4> QED BY <3>2 DEF AbuseRequest
    <3>4. rpc' = [rpc EXCEPT ![w] = r] /\ entries' = entries
      BY <2>9 DEF UpdateFork, Goto, tables
    <3> HIDE DEF r
    <3>5. CopySettled(r, RevocationsDue', HoldersDue')
      BY <3>3 DEF CopySettled
    <3>6. QED
      BY <2>2, <2>4, <3>4, <3>5
  <2>10. ASSUME NEW w \in Workers, CreateEntry(w)
         PROVE  RowsSettled' /\ CopiesSettled'
    <3> DEFINE id == rpc[w].id
               cand == rpc[w].cand
               r == [rpc[w] EXCEPT !.pc = "index"]
    <3>1. rpc[w] \in Request /\ rpc[w].pc = "create"
      BY <2>10 DEF CreateEntry, TypeOK
    <3>2. id \in Ids /\ cand \in Histories /\ cand \in History
      BY <3>1, RequestFields, ConstantsAssumption
    <3>3. r.pc = "index" /\ r.id = id /\ r.cand = cand
      BY <3>1 DEF Request
    <3> HIDE DEF r
    <3>4. /\ CopySettled(r, RevocationsDue', HoldersDue')
          /\ CopySettled(Idle, RevocationsDue', HoldersDue')
      BY <3>3 DEF CopySettled, Idle
    <3>5. CASE entries[id] = NoEntry
      <4>1. /\ entries' = [entries EXCEPT ![id] = [tokens |-> <<cand>>, abuses |-> <<>>]]
            /\ rpc' = [rpc EXCEPT ![w] = r]
        BY <2>10, <3>5 DEF CreateEntry, Goto, r
      <4>2. CopiesSettled'
        BY <2>4, <3>4, <4>1
      <4>3. rpc'[w] = r
        BY <4>1 DEF TypeOK
      <4>4. <<id, cand>> \in HoldersDue'
        BY <3>2, <3>3, <4>3 DEF HoldersDue
      <4>5. /\ entries'[id].abuses = <<>> /\ entries'[id].tokens = <<cand>>
            /\ \A i \in Ids : i # id => entries'[i] = entries[i]
        BY <3>2, <4>1 DEF TypeOK
      <4> HIDE DEF id, cand
      <4>6. RowsSettled'
        BY <2>1, <4>4, <4>5 DEF RowsSettled
      <4>7. QED
        BY <4>2, <4>6
    <3>6. CASE entries[id] # NoEntry
      BY <2>2, <2>4, <2>10, <3>4, <3>6 DEF CreateEntry, Reply, Goto
    <3>7. QED
      BY <3>5, <3>6
  <2>11. ASSUME NEW w \in Workers, ReplaceEntry(w)
         PROVE  RowsSettled' /\ CopiesSettled'
    <3> DEFINE id == rpc[w].id
               cand == rpc[w].cand
               e == rpc[w].entry
               r == [pc |-> "index", id |-> id, cand |-> cand]
    <3>1. rpc[w] \in Request /\ rpc[w].pc = "replace"
      BY <2>11 DEF ReplaceEntry, TypeOK
    <3>2. id \in Ids /\ cand \in Histories /\ cand \in History
      BY <3>1, RequestFields, ConstantsAssumption
    <3>3. /\ entries' = [entries EXCEPT ![id] = e]
          /\ rpc' = [rpc EXCEPT ![w] = r]
      BY <2>11 DEF ReplaceEntry, Goto
    <3>4. CopySettled(r, RevocationsDue', HoldersDue')
      BY DEF CopySettled
    <3>5. Settled(id, e, cand, RevocationsDue', HoldersDue')
      BY <2>1, <3>1 DEF CopiesSettled, CopySettled, Settled
    <3>6. rpc'[w] = r
      BY <3>3 DEF TypeOK
    <3>7. <<id, cand>> \in HoldersDue'
      BY <3>2, <3>6 DEF HoldersDue
    <3>8. entries'[id] = e /\ \A i \in Ids : i # id => entries'[i] = entries[i]
      BY <3>2, <3>3 DEF TypeOK
    <3>9. CopiesSettled'
      <4> HIDE DEF r
      <4> QED BY <2>4, <3>3, <3>4
    <3> HIDE DEF id, cand, e
    <3>10. RowsSettled'
      BY <2>1, <3>5, <3>7, <3>8 DEF RowsSettled, Settled
    <3>11. QED
      BY <3>9, <3>10
  <2>12. ASSUME NEW w \in Workers, RecordAbuse(w)
         PROVE  RowsSettled' /\ CopiesSettled'
    <3> DEFINE id == rpc[w].id
               e == rpc[w].entry
               r == [pc |-> "revoke", id |-> id, cand |-> rpc[w].cand, row |-> rpc[w].row]
    <3>1. rpc[w] \in Request /\ rpc[w].pc = "abuse"
      BY <2>12 DEF RecordAbuse, TypeOK
    <3>2. id \in Ids
      BY <3>1, RequestFields
    <3>3. /\ entries' = [entries EXCEPT ![id] = e]
          /\ rpc' = [rpc EXCEPT ![w] = r]
      BY <2>12 DEF RecordAbuse, Goto
    <3>4. rpc[w].row.id = id /\ e.abuses # <<>>
      BY <2>1, <3>1 DEF CopiesSettled, CopySettled
    <3>5. CopySettled(r, RevocationsDue', HoldersDue')
      BY <3>4 DEF CopySettled
    <3>6. rpc'[w] = r
      BY <3>3 DEF TypeOK
    <3>7. id \in RevocationsDue'
      BY <3>2, <3>6 DEF RevocationsDue
    <3>8. entries'[id] = e /\ \A i \in Ids : i # id => entries'[i] = entries[i]
      BY <3>2, <3>3 DEF TypeOK
    <3>9. CopiesSettled'
      <4> HIDE DEF r
      <4> QED BY <2>4, <3>3, <3>5
    <3> HIDE DEF id, e
    <3>10. RowsSettled'
      BY <2>1, <3>4, <3>7, <3>8 DEF RowsSettled
    <3>11. QED
      BY <3>9, <3>10
  <2>13. ASSUME NEW w \in Workers, GetTicketSignature(w)
         PROVE  RowsSettled' /\ CopiesSettled'
    <3> DEFINE r == [rpc[w] EXCEPT !.pc = "abuse"]
    <3>1. rpc[w] \in Request /\ rpc[w].pc = "lookup"
      BY <2>13 DEF GetTicketSignature, TypeOK
    <3>2. r.pc = "abuse" /\ r.entry = rpc[w].entry /\ r.row = rpc[w].row /\ r.id = rpc[w].id
      BY <3>1 DEF Request
    <3>3. /\ entries' = entries
          /\ rpc' = [rpc EXCEPT ![w] = r] \/ rpc' = [rpc EXCEPT ![w] = Idle]
      BY <2>13 DEF GetTicketSignature, Goto, Reply, tables
    <3> HIDE DEF r
    <3>4. /\ CopySettled(r, RevocationsDue', HoldersDue')
          /\ CopySettled(Idle, RevocationsDue', HoldersDue')
      BY <2>1, <3>1, <3>2 DEF CopiesSettled, CopySettled, Idle
    <3>5. QED
      BY <2>2, <2>4, <3>3, <3>4
  <2>14. ASSUME NEW w \in Workers,
                \/ UpdateHolderIndex(w)
                \/ InsertRevocation(w)
                \/ InsertSignedTicket(w)
                \/ ArchiveInsert(w)
                \/ CallFails(w)
                \/ \E batch \in TicketBatches : StoreTickets(w, batch)
                \/ \E id \in Ids : ArchiveRead(w, id)
         PROVE  RowsSettled' /\ CopiesSettled'
    <3>1. entries' = entries
      BY <2>14 DEF UpdateHolderIndex, InsertRevocation, InsertSignedTicket,
                   ArchiveInsert, CallFails, StoreTickets, ArchiveRead, tables
    <3>2. PICK r : rpc' = [rpc EXCEPT ![w] = r] /\ r.pc \in {"idle", "store", "archive"}
      BY <2>14 DEF UpdateHolderIndex, InsertRevocation, InsertSignedTicket,
                   ArchiveInsert, CallFails, StoreTickets, ArchiveRead, Goto, Reply, Idle
    <3>3. CopySettled(r, RevocationsDue', HoldersDue')
      BY <3>2 DEF CopySettled
    <3>4. QED
      BY <2>2, <2>4, <3>1, <3>2, <3>3
  <2>15. CASE UNCHANGED vars
    BY <2>2, <2>3, <2>15 DEF vars, tables, CopiesSettled
  <2>17. CASE Crash
    <3>1. entries' = entries /\ rpc' = [w \in Workers |-> Idle]
      BY <2>17 DEF Crash, tables
    <3>2. QED
      BY <2>2, <3>1 DEF CopiesSettled, CopySettled, Idle
  <2>16. QED
    BY <2>1, <2>5, <2>7, <2>8, <2>9, <2>10, <2>11, <2>12, <2>13, <2>14, <2>15, <2>17
       DEF Next, Update, Step
<1>3. TypeOK /\ TablesSettled => TablesAgree
  <2> SUFFICES ASSUME TypeOK, RowsSettled
               PROVE  TablesAgree
    BY DEF TablesSettled
  <2>1. AbuseHasRevocation
    BY DEF RowsSettled, RevocationsDue, AbuseHasRevocation, RevocationDataReply
  <2>2. HoldersIndexed
    <3> SUFFICES ASSUME NEW id \in Ids, entries[id].abuses = <<>>,
                        NEW k \in DOMAIN entries[id].tokens
                 PROVE  LET h == entries[id].tokens[k]
                        IN  \/ id \in FindByHolderReply(Holder(id, h))
                            \/ <<id, h>> \in unindexed
                            \/ \E w \in Workers :
                                  rpc[w].pc = "index" /\ rpc[w].id = id /\ rpc[w].cand = h
      BY DEF HoldersIndexed
    <3> DEFINE h == entries[id].tokens[k]
    <3>1. <<id, h>> \in HoldersDue
      BY DEF RowsSettled
    <3>4. entries[id] # NoEntry
      BY DEF NoEntry
    <3> HIDE DEF h
    <3>2. \/ <<Holder(id, h), id>> \in holder_index
          \/ <<id, h>> \in unindexed
          \/ \E w \in Workers : rpc[w].pc = "index" /\ rpc[w].id = id /\ rpc[w].cand = h
      BY <3>1 DEF HoldersDue
    <3>3. QED
      BY <3>2, <3>4 DEF FindByHolderReply, h
  <2>3. QED
    BY <2>1, <2>2 DEF TablesAgree
<1>4. QED
  BY <1>1, <1>2, <1>3, TypeCorrect, PTL DEF Spec
-----------------------------------------------------------------------------
(***************************************************************************)
(* The registry of double spends.  With one request at a time and without  *)
(* splits the tables implement it, crashes included.                       *)
(***************************************************************************)
Serial == \A v, w \in Workers : v = w

WithoutSplits == \A h \in Histories : \A i \in DOMAIN h : h[i].split = NoSplit

Recorded(tokens) == {tokens[k] : k \in DOMAIN tokens}

\* A row is flagged exactly when it has a second history.
RowsFlagged ==
    \A id \in Ids :
        /\ entries[id].tokens \in Seq(Histories)
        /\ entries[id].abuses # <<>> <=> Len(entries[id].tokens) > 1

\* What a request is about to write is the row as it is now, with its own
\* history continuing another one.
CopyExtends(r, e) ==
    r.pc = "replace" =>
        \E k \in Continued(r.cand, e.tokens) :
            r.entry = [e EXCEPT !.tokens[k] = r.cand]

\* The same for a double spend: the history is added, with an abuse.
CopyAdds(r, e) ==
    r.pc \in {"lookup", "abuse"} =>
        /\ e.tokens # <<>>
        /\ r.entry.tokens = Append(e.tokens, r.cand)
        /\ r.entry.abuses # <<>>

CopiesCurrent ==
    \A w \in Workers :
        rpc[w].pc \in {"replace", "lookup", "abuse"} =>
            CopyExtends(rpc[w], entries[rpc[w].id]) /\ CopyAdds(rpc[w], entries[rpc[w].id])

\* The prefixes of a set of histories, in the words of token_is_known.
LEMMA PrefixesAreKnown ==
    ASSUME NEW K \in SUBSET History, NEW g
    PROVE  g \in Prefixes(K) <=>
               /\ g \in History
               /\ \E h \in K : Len(g) <= Len(h) /\ Differences(h, g) = {}
<1>1. ASSUME NEW h \in K, NEW n \in 0 .. Len(h)
      PROVE  /\ SubSeq(h, 1, n) \in History
             /\ Len(SubSeq(h, 1, n)) = n
             /\ Differences(h, SubSeq(h, 1, n)) = {}
  <2>1. h \in Seq(Link) /\ Len(h) \in Nat
    BY DEF History
  <2>2. SubSeq(h, 1, n) \in Seq(Link) /\ Len(SubSeq(h, 1, n)) = n
    BY <2>1
  <2>3. \A i \in 1 .. n : SubSeq(h, 1, n)[i] = h[i]
    BY <2>1
  <2>4. QED
    BY <2>2, <2>3 DEF History, Differences
<1>2. ASSUME g \in History, NEW h \in K, Len(g) <= Len(h), Differences(h, g) = {}
      PROVE  Len(g) \in 0 .. Len(h) /\ g = SubSeq(h, 1, Len(g))
  <2>1. h \in Seq(Link) /\ g \in Seq(Link)
    BY <1>2 DEF History
  <2>2. Len(g) \in Nat /\ Len(h) \in Nat /\ Len(g) \in 0 .. Len(h)
    BY <1>2, <2>1, LenProperties
  <2>3. /\ SubSeq(h, 1, Len(g)) \in Seq(Link)
        /\ Len(SubSeq(h, 1, Len(g))) = Len(g)
        /\ \A i \in 1 .. Len(g) : SubSeq(h, 1, Len(g))[i] = h[i]
    BY <2>1, <2>2
  <2>4. \A i \in 1 .. Len(g) : g[i] = h[i]
    <3>1. DOMAIN g = 1 .. Len(g) /\ DOMAIN h = 1 .. Len(h)
      BY <2>1, LenProperties
    <3>2. 1 .. Len(g) \subseteq 1 .. Len(h)
      BY <2>2
    <3>3. QED
      BY <1>2, <3>1, <3>2 DEF Differences
  <2> HIDE DEF Differences
  <2>5. g = SubSeq(h, 1, Len(g))
    BY <2>1, <2>3, <2>4, SeqEqual
  <2>6. QED
    BY <2>2, <2>5
<1>3. g \in Prefixes(K) <=> \E h \in K : \E n \in 0 .. Len(h) : g = SubSeq(h, 1, n)
  BY DEF Prefixes
<1>4. ASSUME g \in Prefixes(K)
      PROVE  g \in History /\ \E h \in K : Len(g) <= Len(h) /\ Differences(h, g) = {}
  <2>0. PICK h \in K : \E n \in 0 .. Len(h) : g = SubSeq(h, 1, n)
    BY <1>3, <1>4
  <2>1. PICK n \in 0 .. Len(h) : g = SubSeq(h, 1, n)
    BY <2>0
  <2>2. Len(h) \in Nat
    BY DEF History
  <2>3. QED
    BY <1>1, <2>1, <2>2
<1>5. QED
  BY <1>2, <1>3, <1>4

\* A prefix of a history is a prefix of what continues it.
LEMMA KnownIsTransitive ==
    ASSUME NEW g \in History, NEW h \in History, NEW u \in History,
           Len(g) <= Len(h), Differences(h, g) = {},
           Len(h) <= Len(u), Differences(u, h) = {}
    PROVE  Len(g) <= Len(u) /\ Differences(u, g) = {}
<1>1. /\ Len(g) \in Nat /\ Len(h) \in Nat /\ Len(u) \in Nat
      /\ DOMAIN g = 1 .. Len(g) /\ DOMAIN h = 1 .. Len(h) /\ DOMAIN u = 1 .. Len(u)
  BY DEF History
<1>2. DOMAIN g \subseteq DOMAIN h /\ DOMAIN h \subseteq DOMAIN u
  BY <1>1
<1>3. \A i \in DOMAIN g : g[i] = h[i] /\ h[i] = u[i]
  BY <1>2 DEF Differences
<1>4. QED
  BY <1>1, <1>3 DEF Differences

\* Replacing a history by one that continues it forgets no prefix.
LEMMA ExtensionKeepsPrefixes ==
    ASSUME NEW tokens \in Seq(History), NEW cand \in History,
           NEW x \in Continued(cand, tokens),
           NEW new, new = [tokens EXCEPT ![x] = cand]
    PROVE  Prefixes(Recorded(new)) = Prefixes(Recorded(tokens)) \cup Prefixes({cand})
<1>1. /\ x \in DOMAIN tokens /\ tokens[x] \in History
      /\ Len(tokens[x]) <= Len(cand)
      /\ Differences(cand, tokens[x]) = {}
  <2>1. x \in DOMAIN tokens /\ Len(cand) > Len(tokens[x]) /\ Differences(tokens[x], cand) = {}
    BY DEF Continued
  <2>2. tokens[x] \in History
    BY <2>1
  <2>3. Len(tokens[x]) \in Nat /\ Len(cand) \in Nat
    BY <2>2, LenProperties DEF History
  <2>4. QED
    BY <2>1, <2>2, <2>3, DifferencesSymmetric
<1>2. /\ new \in Seq(History) /\ DOMAIN new = DOMAIN tokens
      /\ new[x] = cand
      /\ \A k \in DOMAIN tokens : k # x => new[k] = tokens[k]
  BY <1>1, ExceptSeq
<1>3. /\ Recorded(new) \in SUBSET History
      /\ Recorded(tokens) \in SUBSET History
      /\ {cand} \in SUBSET History
  BY <1>2 DEF Recorded
<1>4. ASSUME NEW g, g \in Prefixes(Recorded(new))
      PROVE  g \in Prefixes(Recorded(tokens)) \cup Prefixes({cand})
  <2>1. g \in History
    BY <1>3, <1>4, PrefixesAreKnown
  <2>2. PICK h \in Recorded(new) : Len(g) <= Len(h) /\ Differences(h, g) = {}
    BY <1>3, <1>4, PrefixesAreKnown
  <2>3. h \in Recorded(tokens) \/ h = cand
    BY <1>2 DEF Recorded
  <2>4. QED
    BY <1>3, <2>1, <2>2, <2>3, PrefixesAreKnown
<1>5. ASSUME NEW g, g \in Prefixes(Recorded(tokens))
      PROVE  g \in Prefixes(Recorded(new))
  <2>1. g \in History
    BY <1>3, <1>5, PrefixesAreKnown
  <2>2. PICK k \in DOMAIN tokens : Len(g) <= Len(tokens[k]) /\ Differences(tokens[k], g) = {}
    <3>1. \E h \in Recorded(tokens) : Len(g) <= Len(h) /\ Differences(h, g) = {}
      BY <1>3, <1>5, PrefixesAreKnown
    <3>2. QED
      BY <3>1 DEF Recorded
  <2>3. CASE k = x
    <3>1. Len(g) <= Len(cand) /\ Differences(cand, g) = {}
      BY <1>1, <2>1, <2>2, <2>3, KnownIsTransitive
    <3>2. cand \in Recorded(new)
      BY <1>1, <1>2 DEF Recorded
    <3>3. QED
      BY <1>3, <2>1, <3>1, <3>2, PrefixesAreKnown
  <2>4. CASE k # x
    <3>1. tokens[k] \in Recorded(new)
      BY <1>2, <2>4 DEF Recorded
    <3>2. QED
      BY <1>3, <2>1, <2>2, <3>1, PrefixesAreKnown
  <2>5. QED
    BY <2>3, <2>4
<1>6. ASSUME NEW g, g \in Prefixes({cand})
      PROVE  g \in Prefixes(Recorded(new))
  <2>1. cand \in Recorded(new)
    BY <1>1, <1>2 DEF Recorded
  <2>2. QED
    BY <2>1, <1>6 DEF Prefixes
<1>7. QED
  BY <1>4, <1>5, <1>6

\* Adding a history adds its prefixes.
LEMMA AddingAddsPrefixes ==
    ASSUME NEW tokens \in Seq(History), NEW cand \in History
    PROVE  Prefixes(Recorded(Append(tokens, cand)))
               = Prefixes(Recorded(tokens)) \cup Prefixes({cand})
<1>1. Recorded(Append(tokens, cand)) = Recorded(tokens) \cup {cand}
  <2> DEFINE new == Append(tokens, cand)
  <2>1. /\ DOMAIN new = DOMAIN tokens \cup {Len(tokens) + 1}
        /\ new[Len(tokens) + 1] = cand
        /\ \A k \in DOMAIN tokens : new[k] = tokens[k]
    OBVIOUS
  <2> HIDE DEF new
  <2>2. QED
    BY <2>1 DEF Recorded, new
<1>2. QED
  BY <1>1 DEF Prefixes

\* What may follow a prefix comes from one of the recorded histories.
LEMMA NextLinksOfRecorded ==
    ASSUME NEW tokens \in Seq(History), NEW p \in History,
           NEW S, S = NextLinks(Prefixes(Recorded(tokens)), p)
    PROVE  /\ IsFiniteSet(S)
           /\ \A a \in S : \E k \in DOMAIN tokens :
                 Len(p) + 1 \in DOMAIN tokens[k] /\ a = tokens[k][Len(p) + 1]
           /\ \A k \in DOMAIN tokens :
                 (Len(p) < Len(tokens[k]) /\ Differences(tokens[k], p) = {})
                     => tokens[k][Len(p) + 1] \in S
<1> DEFINE n == Len(p)
           K == Prefixes(Recorded(tokens))
           T == {tokens[k][n + 1] : k \in DOMAIN tokens}
<1>0. n \in Nat /\ Recorded(tokens) \in SUBSET History
  BY DEF History, Recorded
<1>1. ASSUME NEW a \in S
      PROVE  \E k \in DOMAIN tokens : n + 1 \in DOMAIN tokens[k] /\ a = tokens[k][n + 1]
  <2>1. PICK g \in K : Len(g) > n /\ a = g[n + 1]
    BY DEF NextLinks
  <2>2. g \in History
    BY <1>0, <2>1, PrefixesAreKnown
  <2>3. PICK k \in DOMAIN tokens : Len(g) <= Len(tokens[k]) /\ Differences(tokens[k], g) = {}
    <3>1. \E h \in Recorded(tokens) : Len(g) <= Len(h) /\ Differences(h, g) = {}
      BY <1>0, <2>1, PrefixesAreKnown
    <3>2. QED
      BY <3>1 DEF Recorded
  <2>4. tokens[k] \in History
    BY <2>3
  <2>5. n + 1 \in DOMAIN g /\ n + 1 \in DOMAIN tokens[k]
    BY <1>0, <2>1, <2>2, <2>3, <2>4 DEF History
  <2>6. g[n + 1] = tokens[k][n + 1]
    BY <2>3, <2>5 DEF Differences
  <2>7. QED
    BY <2>1, <2>3, <2>5, <2>6
<1>2. IsFiniteSet(T)
  <2>1. IsFiniteSet(DOMAIN tokens)
    <3>1. DOMAIN tokens = 1 .. Len(tokens) /\ Len(tokens) \in Nat
      OBVIOUS
    <3>2. QED
      BY <3>1, FS_Interval
  <2> DEFINE f == [k \in DOMAIN tokens |-> tokens[k][n + 1]]
  <2>2. f \in Surjection(DOMAIN tokens, T)
    BY DEF Surjection
  <2> HIDE DEF f
  <2>3. QED
    BY <2>1, <2>2, FS_Surjection
<1>3. IsFiniteSet(S)
  BY <1>1, <1>2, FS_Subset
<1>4. ASSUME NEW k \in DOMAIN tokens, n < Len(tokens[k]), Differences(tokens[k], p) = {}
      PROVE  tokens[k][n + 1] \in S
  <2>1. tokens[k] \in History /\ tokens[k] \in Recorded(tokens)
    BY DEF Recorded
  <2>2. tokens[k] \in K
    <3>1. Differences(tokens[k], tokens[k]) = {}
      BY DEF Differences
    <3>2. Len(tokens[k]) <= Len(tokens[k])
      BY <2>1, LenProperties DEF History
    <3>3. QED
      BY <1>0, <2>1, <3>1, <3>2, PrefixesAreKnown
  <2>3. SubSeq(tokens[k], 1, n) = p
    <3>1. tokens[k] \in Seq(Link) /\ p \in Seq(Link)
      BY <2>1 DEF History
    <3>2. Len(tokens[k]) \in Nat /\ n \in 0 .. Len(tokens[k])
      BY <1>0, <1>4, <3>1, LenProperties
    <3>3. /\ SubSeq(tokens[k], 1, n) \in Seq(Link)
          /\ Len(SubSeq(tokens[k], 1, n)) = n
          /\ \A i \in 1 .. n : SubSeq(tokens[k], 1, n)[i] = tokens[k][i]
      BY <3>1, <3>2
    <3>4. \A i \in 1 .. n : p[i] = tokens[k][i]
      <4>1. DOMAIN p = 1 .. n /\ DOMAIN tokens[k] = 1 .. Len(tokens[k])
        BY <3>1, LenProperties
      <4>2. 1 .. n \subseteq 1 .. Len(tokens[k])
        BY <3>2
      <4>3. QED
        BY <1>4, <4>1, <4>2 DEF Differences
    <3>5. QED
      BY <3>1, <3>3, <3>4, SeqEqual
  <2>4. Len(tokens[k]) > n
    BY <1>0, <1>4, <2>1, LenProperties DEF History
  <2>5. QED
    BY <2>2, <2>3, <2>4 DEF NextLinks
<1>5. QED
  BY <1>1, <1>3, <1>4

\* Without splits, separate histories are a double spend as soon as there are
\* two of them: the reference definition and the flag of a row agree.
LEMMA ForkedIfTwo ==
    ASSUME WithoutSplits, NEW tokens \in Seq(Histories), DoNotMerge(tokens)
    PROVE  Forked(Prefixes(Recorded(tokens))) <=> Len(tokens) > 1
<1> DEFINE K == Prefixes(Recorded(tokens))
<1>1. /\ Len(tokens) \in Nat /\ DOMAIN tokens = 1 .. Len(tokens)
      /\ \A k \in DOMAIN tokens : tokens[k] \in Histories
  OBVIOUS
<1>2. tokens \in Seq(History)
  <2>1. Histories \subseteq History
    BY ConstantsAssumption
  <2>2. QED
    BY <2>1
<1>3. Recorded(tokens) \in SUBSET History
  BY <1>2 DEF Recorded
<1>4. ASSUME NEW p \in K PROVE p \in History
  BY <1>3, PrefixesAreKnown
<1>5. ASSUME Len(tokens) > 1
      PROVE  \E p \in Prefixes(K) :
                 Cardinality(NextLinks(K, p)) > 1 /\ ~ OneSplit(NextLinks(K, p))
  <2>1. 1 \in DOMAIN tokens /\ 2 \in DOMAIN tokens
    BY <1>1, <1>5
  <2> DEFINE s == tokens[1]
             t == tokens[2]
             D == Differences(s, t)
             i == First(D)
             p == SubSeq(s, 1, i - 1)
             S == NextLinks(K, p)
  <2>2. s \in Histories /\ t \in Histories /\ s \in History /\ t \in History
    BY <1>1, <1>2, <2>1
  <2>3. D # {}
    BY <2>1 DEF DoNotMerge
  <2>4. i \in D /\ \A j \in D : i <= j
    BY <2>2, <2>3, DifferencesNat, FirstIsLeast
  <2>5. s \in Recorded(tokens)
    BY <2>1 DEF Recorded
  <2> HIDE DEF i, s, t
  <2>6. /\ i \in DOMAIN s /\ i \in DOMAIN t /\ s[i] # t[i]
        /\ i \in 1 .. Len(s) /\ i \in 1 .. Len(t)
        /\ Len(s) \in Nat /\ Len(t) \in Nat
    BY <2>2, <2>4 DEF History, Differences
  <2>7. /\ p \in History /\ Len(p) = i - 1
        /\ \A j \in 1 .. i - 1 : p[j] = s[j]
    <3>1. s \in Seq(Link)
      BY <2>2 DEF History
    <3>2. QED
      BY <2>6, <3>1 DEF History
  <2> HIDE DEF p
  <2>8. Differences(s, p) = {} /\ Differences(t, p) = {}
    <3>1. DOMAIN p = 1 .. i - 1
      BY <2>7 DEF History
    <3>2. \A j \in 1 .. i - 1 : j \in DOMAIN s /\ j \in DOMAIN t /\ j \notin D
      <4>1. DOMAIN s = 1 .. Len(s) /\ DOMAIN t = 1 .. Len(t)
        BY <2>2 DEF History
      <4>2. \A j \in 1 .. i - 1 : j \in 1 .. Len(s) /\ j \in 1 .. Len(t) /\ ~ (i <= j)
        BY <2>6
      <4>3. QED
        BY <2>4, <4>1, <4>2
    <3>3. \A j \in 1 .. i - 1 : s[j] = t[j]
      BY <3>2 DEF Differences
    <3>4. QED
      BY <2>7, <3>1, <3>3 DEF Differences
  <2>9. Len(p) < Len(s) /\ Len(p) < Len(t) /\ Len(p) + 1 = i
    BY <2>6, <2>7
  <2>10. IsFiniteSet(S) /\ s[i] \in S /\ t[i] \in S
    BY <1>2, <2>1, <2>7, <2>8, <2>9, NextLinksOfRecorded DEF s, t
  <2>11. p \in K
    <3>1. Len(p) <= Len(s)
      BY <2>6, <2>7
    <3>2. QED
      BY <1>3, <2>5, <2>7, <2>8, <3>1, PrefixesAreKnown
  <2>12. p \in Prefixes(K)
    <3>1. K \in SUBSET History
      BY <1>4
    <3>2. Len(p) <= Len(p) /\ Differences(p, p) = {}
      BY <2>6, <2>7 DEF Differences
    <3> HIDE DEF K
    <3>3. QED
      BY <2>7, <2>11, <3>1, <3>2, PrefixesAreKnown
  <2> HIDE DEF S, K
  <2>13. Cardinality(S) > 1
    <3>1. Cardinality({s[i], t[i]}) = 2 /\ {s[i], t[i]} \in SUBSET S
      <4>1. IsFiniteSet({s[i]}) /\ Cardinality({s[i]}) = 1
        BY FS_Singleton
      <4>2. t[i] \notin {s[i]}
        BY <2>6
      <4>3. Cardinality({s[i]} \cup {t[i]}) = Cardinality({s[i]}) + 1
        BY <4>1, <4>2, FS_AddElement
      <4>4. {s[i]} \cup {t[i]} = {s[i], t[i]}
        OBVIOUS
      <4>5. QED
        <5>1. Cardinality({s[i], t[i]}) = Cardinality({s[i]}) + 1
          BY <4>3, <4>4, Zenon
        <5>2. {s[i], t[i]} \in SUBSET S
          BY <2>10
        <5>3. QED
          BY <4>1, <5>1, <5>2
    <3>2. Cardinality(S) \in Nat /\ 2 <= Cardinality(S)
      BY <2>10, <3>1, FS_Subset, FS_CardinalityType
    <3>3. QED
      BY <3>2
  <2>14. ~ OneSplit(S)
    <3>1. s[i].split = NoSplit
      BY <2>2, <2>6 DEF WithoutSplits
    <3>2. QED
      BY <2>6, <2>10, <3>1 DEF OneSplit, ValidSplit
  <2>15. QED
    BY <2>12, <2>13, <2>14 DEF S
<1>6. ASSUME NEW p \in Prefixes(K), Cardinality(NextLinks(K, p)) > 1
      PROVE  Len(tokens) > 1
  <2> SUFFICES ASSUME ~ (Len(tokens) > 1) PROVE FALSE
    OBVIOUS
  <2> DEFINE S == NextLinks(K, p)
  <2>1. p \in History
    <3>1. K \in SUBSET History
      BY <1>4
    <3> HIDE DEF K
    <3>2. QED
      BY <1>6, <3>1, PrefixesAreKnown
  <2>2. /\ IsFiniteSet(S)
        /\ \A a \in S : \E k \in DOMAIN tokens : a = tokens[k][Len(p) + 1]
    BY <1>2, <2>1, NextLinksOfRecorded
  <2> HIDE DEF S
  <2>3. \A k \in DOMAIN tokens : k = 1
    BY <1>1
  <2>4. S \in SUBSET {tokens[1][Len(p) + 1]}
    BY <2>2, <2>3
  <2>5. Cardinality(S) \in Nat /\ Cardinality(S) <= 1
    <3> DEFINE one == {tokens[1][Len(p) + 1]}
    <3>1. IsFiniteSet(one) /\ Cardinality(one) = 1
      BY FS_Singleton
    <3> HIDE DEF one
    <3>2. Cardinality(S) <= Cardinality(one)
      BY <2>4, <3>1, FS_Subset DEF one
    <3>3. QED
      BY <2>2, <3>1, <3>2, FS_CardinalityType
  <2>6. QED
    BY <1>6, <2>5 DEF S
<1>7. Forked(K) <=>
          \E p \in Prefixes(K) :
              Cardinality(NextLinks(K, p)) > 1 /\ ~ OneSplit(NextLinks(K, p))
  BY DEF Forked
<1>8. QED
  BY <1>5, <1>6, <1>7

\* The registry's reference definitions are those of TokenHistory.
LEMMA SameReference ==
    /\ \A K : Registry!Prefixes(K) = Prefixes(K)
    /\ \A K : Registry!Forked(K) <=> Forked(K)
<1>1. \A K : Registry!Prefixes(K) = Prefixes(K)
  BY DEF Registry!Prefixes, Prefixes
<1>2. \A K, p : Registry!NextLinks(K, p) = NextLinks(K, p)
  BY DEF Registry!NextLinks, NextLinks
<1>3. \A S : Registry!Cardinality(S) = Cardinality(S)
  BY DEF Registry!Cardinality, Cardinality
<1>4. \A S : Registry!OneSplit(S) <=> OneSplit(S)
  BY <1>3 DEF Registry!OneSplit, OneSplit, Registry!ValidSplit, ValidSplit,
         Registry!NoSplit, NoSplit
<1>5. QED
  BY <1>1, <1>2, <1>3, <1>4 DEF Registry!Forked, Forked

\* Without splits nothing is taken for the second half of one.
LEMMA NoSecondSplit ==
    ASSUME WithoutSplits, NEW cand \in Histories, NEW tokens \in Seq(History)
    PROVE  ~ token_is_second_split(cand, tokens)
<1> SUFFICES ASSUME token_is_second_split(cand, tokens) PROVE FALSE
  OBVIOUS
<1> DEFINE fork == token_get_fork(cand, tokens)
<1>1. Departed(cand, tokens) # {} /\ ValidSplit(tokens[fork[1]][fork[2]], cand[fork[2]])
  BY DEF token_is_second_split
<1>2. fork[2] \in Differences(tokens[fork[1]], cand)
  BY <1>1, ConstantsAssumption, ForkPosition
<1> HIDE DEF fork
<1>3. fork[2] \in DOMAIN cand
  BY <1>2 DEF Differences
<1>4. cand[fork[2]].split = NoSplit
  BY <1>3 DEF WithoutSplits
<1>5. QED
  BY <1>1, <1>4 DEF ValidSplit

\* The state of the registry that a table of entries stands for.
KnownOf(E) == [id \in Ids |-> Prefixes(Recorded(E[id].tokens))]

FlaggedOf(E) == [id \in Ids |-> E[id].abuses # <<>>]

\* A row that adds exactly one history to an older row and is flagged exactly
\* when it has two.
Learnt(old, cand, e) ==
    /\ e.tokens \in Seq(Histories)
    /\ DoNotMerge(e.tokens)
    /\ e.abuses # <<>> <=> Len(e.tokens) > 1
    /\ Prefixes(Recorded(e.tokens)) = Prefixes(Recorded(old.tokens)) \cup Prefixes({cand})

\* The registry learns a history between two tables of entries.
Learns(E, F, id, cand) ==
    LET K == KnownOf(E)[id] \cup Prefixes({cand})
    IN  /\ KnownOf(F) = [KnownOf(E) EXCEPT ![id] = K]
        /\ FlaggedOf(F) = [FlaggedOf(E) EXCEPT ![id] = Forked(K)]

\* Writing such a row is one step of the registry.
LEMMA WriteLearns ==
    ASSUME WithoutSplits, NEW E \in [Ids -> Entry], NEW id \in Ids,
           NEW cand \in Histories, NEW e \in Entry, Learnt(E[id], cand, e)
    PROVE  Learns(E, [E EXCEPT ![id] = e], id, cand)
<1> DEFINE F == [E EXCEPT ![id] = e]
           K == KnownOf(E)[id] \cup Prefixes({cand})
<1>1. K = Prefixes(Recorded(e.tokens))
  BY DEF KnownOf, Learnt
<1>2. Forked(K) <=> e.abuses # <<>>
  BY <1>1, ForkedIfTwo DEF Learnt
<1>3. Forked(K) = (e.abuses # <<>>)
  BY <1>2 DEF Forked
<1>4. F[id] = e /\ \A i \in Ids : i # id => F[i] = E[i]
  OBVIOUS
<1> HIDE DEF F, K
<1>5. KnownOf(F) = [KnownOf(E) EXCEPT ![id] = K]
  BY <1>1, <1>4 DEF KnownOf
<1>6. FlaggedOf(F) = [FlaggedOf(E) EXCEPT ![id] = Forked(K)]
  BY <1>3, <1>4 DEF FlaggedOf
<1>7. QED
  BY <1>5, <1>6 DEF Learns, F, K

\* What a serial request in flight is about to write.
SerialInv == RowsFlagged /\ CopiesCurrent

\* The three writes of update_impl, each on the row as the request read it.
LEMMA WritesLearn ==
    ASSUME WithoutSplits, TypeOK, EntriesGood, CopiesGood, SerialInv,
           NEW w \in Workers,
           CreateEntry(w) \/ ReplaceEntry(w) \/ RecordAbuse(w)
    PROVE  \/ entries' = entries
           \/ \E id \in Ids, cand \in Histories, e \in Entry :
                 /\ entries' = [entries EXCEPT ![id] = e]
                 /\ Learnt(entries[id], cand, e)
<1> DEFINE id == rpc[w].id
           cand == rpc[w].cand
           old == entries[id]
<1>1. id \in Ids /\ cand \in Histories /\ cand \in History
  BY RequestFields, ConstantsAssumption
     DEF TypeOK, CreateEntry, ReplaceEntry, RecordAbuse
<1>2. /\ old \in Entry /\ old.tokens \in Seq(History) /\ old.tokens \in Seq(Histories)
      /\ old.abuses # <<>> <=> Len(old.tokens) > 1
  BY <1>1 DEF TypeOK, Entry, SerialInv, RowsFlagged
<1>3. CASE CreateEntry(w) /\ entries' # entries
  <2> DEFINE e == [tokens |-> <<cand>>, abuses |-> <<>>]
  <2>1. old = NoEntry /\ entries' = [entries EXCEPT ![id] = e]
    BY <1>3 DEF CreateEntry
  <2>2. e \in Entry /\ e.tokens \in Seq(Histories) /\ Len(e.tokens) = 1
    BY <1>1 DEF Entry
  <2>3. DoNotMerge(e.tokens)
    BY DEF DoNotMerge
  <2>4. Recorded(e.tokens) = {cand} /\ Recorded(old.tokens) = {}
    BY <2>1 DEF Recorded, NoEntry
  <2>5. Prefixes({}) = {}
    BY DEF Prefixes
  <2>6. Prefixes(Recorded(e.tokens)) = Prefixes(Recorded(old.tokens)) \cup Prefixes({cand})
    BY <2>4, <2>5
  <2>7. e.abuses # <<>> <=> Len(e.tokens) > 1
    BY <2>2
  <2> HIDE DEF e
  <2>8. QED
    BY <1>1, <2>1, <2>2, <2>3, <2>6, <2>7 DEF Learnt
<1>4. CASE ReplaceEntry(w)
  <2> DEFINE e == rpc[w].entry
  <2>1. rpc[w].pc = "replace" /\ entries' = [entries EXCEPT ![id] = e]
    BY <1>4 DEF ReplaceEntry
  <2>2. e \in Entry /\ DoNotMerge(e.tokens)
    BY <2>1, RequestFields DEF TypeOK, CopiesGood, GoodEntry
  <2>3. PICK k \in Continued(cand, old.tokens) : e = [old EXCEPT !.tokens[k] = cand]
    BY <2>1 DEF SerialInv, CopiesCurrent, CopyExtends
  <2>4. k \in 1 .. Len(old.tokens)
    BY <1>2 DEF Continued
  <2>5. e.tokens = [old.tokens EXCEPT ![k] = cand] /\ e.abuses = old.abuses
    BY <1>2, <2>3 DEF Entry
  <2>6. e.tokens \in Seq(Histories) /\ Len(e.tokens) = Len(old.tokens)
    BY <1>1, <1>2, <2>4, <2>5, ExceptSeq
  <2>7. Prefixes(Recorded(e.tokens)) = Prefixes(Recorded(old.tokens)) \cup Prefixes({cand})
    BY <1>1, <1>2, <2>5, ExtensionKeepsPrefixes
  <2>8. e.abuses # <<>> <=> Len(e.tokens) > 1
    BY <1>2, <2>5, <2>6
  <2>9. QED
    BY <1>1, <2>1, <2>2, <2>6, <2>7, <2>8 DEF Learnt
<1>5. CASE RecordAbuse(w)
  <2> DEFINE e == rpc[w].entry
  <2>1. rpc[w].pc = "abuse" /\ entries' = [entries EXCEPT ![id] = e]
    BY <1>5 DEF RecordAbuse
  <2>2. e \in Entry /\ DoNotMerge(e.tokens)
    BY <2>1, RequestFields DEF TypeOK, CopiesGood, GoodEntry
  <2>3. /\ old.tokens # <<>>
        /\ e.tokens = Append(old.tokens, cand)
        /\ e.abuses # <<>>
    BY <2>1 DEF SerialInv, CopiesCurrent, CopyAdds
  <2>4. e.tokens \in Seq(Histories) /\ Len(e.tokens) > 1
    BY <1>1, <1>2, <2>3
  <2>5. Prefixes(Recorded(e.tokens)) = Prefixes(Recorded(old.tokens)) \cup Prefixes({cand})
    BY <1>1, <1>2, <2>3, AddingAddsPrefixes
  <2>6. QED
    BY <1>1, <2>1, <2>2, <2>3, <2>4, <2>5 DEF Learnt
<1>6. QED
  BY <1>3, <1>4, <1>5

\* With one request at a time and no splits, the row that a request of
\* update_impl read is still the row it overwrites, and a row has an abuse
\* exactly when it has two histories.
THEOREM SerialInvariant ==
    ASSUME Serial, WithoutSplits
    PROVE  Spec => []SerialInv
<1>1. Init => SerialInv
  <2> SUFFICES ASSUME Init PROVE SerialInv
    OBVIOUS
  <2>1. NoEntry.tokens \in Seq(Histories) /\ Len(NoEntry.tokens) = 0 /\ NoEntry.abuses = <<>>
    BY DEF NoEntry
  <2>2. QED
    BY <2>1 DEF Init, SerialInv, RowsFlagged, CopiesCurrent, Idle
<1>2. TypeOK /\ EntriesAndCopiesGood /\ SerialInv /\ [Next]_vars => SerialInv'
  <2> SUFFICES ASSUME TypeOK, EntriesGood, CopiesGood, SerialInv, [Next]_vars
               PROVE  SerialInv'
    BY DEF EntriesAndCopiesGood
  <2>0. /\ \A id \in Ids : entries[id] \in Entry /\ entries[id].tokens \in Seq(History)
        /\ \A cand \in Histories : cand \in History /\ Verified(cand)
    BY ConstantsAssumption DEF TypeOK, Entry
  <2>1. ASSUME NEW w \in Workers, NEW r, rpc' = [rpc EXCEPT ![w] = r],
               entries' = entries,
               r.pc \in {"replace", "lookup", "abuse"} =>
                   CopyExtends(r, entries[r.id]) /\ CopyAdds(r, entries[r.id])
        PROVE  SerialInv'
    <3>1. \A v \in Workers : rpc'[v] = r
      BY <2>1 DEF Serial, TypeOK
    <3>2. CopiesCurrent'
      BY <2>1, <3>1 DEF CopiesCurrent
    <3>3. QED
      BY <2>1, <3>2 DEF SerialInv, RowsFlagged
  <2>2. ASSUME NEW w \in Workers, NEW id \in Ids, NEW cand \in Histories,
               UpdateExtension(w, id, cand)
        PROVE  SerialInv'
    <3> DEFINE e == entries[id]
               x == token_is_extension(cand, e.tokens)
               r == [pc |-> "replace", id |-> id, cand |-> cand,
                     entry |-> [e EXCEPT !.tokens[x] = cand]]
    <3>1. rpc' = [rpc EXCEPT ![w] = r] /\ entries' = entries
      BY <2>2 DEF UpdateExtension, Goto, tables
    <3>2. x \in Continued(cand, e.tokens)
      BY <2>0, <2>2, ExtensionContinues DEF UpdateExtension
    <3>3. /\ r.pc = "replace" /\ r.id = id /\ r.cand = cand
          /\ r.entry = [e EXCEPT !.tokens[x] = cand]
      OBVIOUS
    <3> HIDE DEF r, x
    <3>4. CopyExtends(r, e) /\ CopyAdds(r, e)
      BY <3>2, <3>3 DEF CopyExtends, CopyAdds
    <3>5. QED
      BY <2>1, <3>1, <3>3, <3>4
  <2>3. ASSUME NEW w \in Workers, NEW id \in Ids, NEW cand \in Histories,
               UpdateFork(w, id, cand)
        PROVE  SerialInv'
    <3> DEFINE e == entries[id]
               fork == token_get_fork(cand, e.tokens)
               a == [token_index |-> fork[1], history_index |-> fork[2]]
               r == AbuseRequest(id, cand, e, fork)
    <3>1. rpc' = [rpc EXCEPT ![w] = r] /\ entries' = entries
      BY <2>3 DEF UpdateFork, Goto, tables
    <3>2. e.tokens # <<>>
      BY <2>3 DEF UpdateFork, Departed
    <3> HIDE DEF fork
    <3>3. /\ r.pc = "lookup" /\ r.id = id /\ r.cand = cand
          /\ r.entry = [tokens |-> Append(e.tokens, cand),
                        abuses |-> Append(e.abuses, a)]
      BY DEF AbuseRequest, WithAbuse
    <3>4. Append(e.abuses, a) # <<>>
      <4>1. e.abuses \in Seq(Abuse)
        BY <2>0 DEF Entry
      <4>2. e.abuses \in Seq(Abuse \cup {a})
        BY <4>1
      <4> HIDE DEF a
      <4>3. Len(Append(e.abuses, a)) = Len(e.abuses) + 1 /\ Len(e.abuses) \in Nat
        BY <4>2
      <4>4. Len(Append(e.abuses, a)) # 0
        BY <4>3
      <4>5. QED
        BY <4>4, EmptySeq
    <3>5. r.entry.tokens = Append(e.tokens, cand) /\ r.entry.abuses = Append(e.abuses, a)
      BY <3>3
    <3> HIDE DEF r
    <3>6. CopyExtends(r, e) /\ CopyAdds(r, e)
      BY <3>2, <3>3, <3>4, <3>5 DEF CopyExtends, CopyAdds
    <3>7. QED
      BY <2>1, <3>1, <3>3, <3>6
  <2>4. ASSUME NEW w \in Workers, NEW id \in Ids, NEW cand \in Histories,
               UpdateSecondSplit(w, id, cand)
        PROVE  FALSE
    BY <2>0, <2>4, NoSecondSplit DEF UpdateSecondSplit
  <2>5. ASSUME NEW w \in Workers, GetTicketSignature(w)
        PROVE  SerialInv'
    <3> DEFINE old == rpc[w]
               r == [old EXCEPT !.pc = "abuse"]
    <3>1. old.pc = "lookup" /\ old \in Request
      BY <2>5 DEF GetTicketSignature, TypeOK
    <3>2. entries' = entries /\ (rpc' = [rpc EXCEPT ![w] = r] \/ rpc' = [rpc EXCEPT ![w] = Idle])
      BY <2>5 DEF GetTicketSignature, Goto, Reply, tables
    <3>3. r.pc = "abuse" /\ r.id = old.id /\ r.cand = old.cand /\ r.entry = old.entry
      BY <3>1 DEF Request
    <3>4. CopyAdds(old, entries[old.id])
      BY <3>1 DEF SerialInv, CopiesCurrent
    <3> HIDE DEF r
    <3>5. CopyExtends(r, entries[r.id]) /\ CopyAdds(r, entries[r.id])
      BY <3>1, <3>3, <3>4 DEF CopyExtends, CopyAdds
    <3>6. Idle.pc = "idle"
      BY DEF Idle
    <3>7. QED
      BY <2>1, <3>2, <3>5, <3>6
  <2>6. ASSUME NEW w \in Workers,
               CreateEntry(w) \/ ReplaceEntry(w) \/ RecordAbuse(w)
        PROVE  SerialInv'
    <3>1. RowsFlagged'
      <4>1. CASE entries' = entries
        BY <4>1 DEF SerialInv, RowsFlagged
      <4>2. CASE entries' # entries
        <5>1. PICK id \in Ids, e \in Entry :
                  /\ entries' = [entries EXCEPT ![id] = e]
                  /\ e.tokens \in Seq(Histories)
                  /\ e.abuses # <<>> <=> Len(e.tokens) > 1
          BY <2>6, <4>2, WritesLearn DEF Learnt
        <5>2. \A i \in Ids : entries'[i] = e \/ entries'[i] = entries[i]
          BY <5>1 DEF TypeOK
        <5>3. QED
          BY <5>1, <5>2 DEF SerialInv, RowsFlagged
      <4>3. QED
        BY <4>1, <4>2
    <3>2. PICK r : rpc' = [rpc EXCEPT ![w] = r] /\ r.pc \in {"idle", "index", "revoke"}
      <4>1. CASE CreateEntry(w)
        <5>1. rpc[w] \in Request /\ rpc[w].pc = "create"
          BY <4>1 DEF CreateEntry, TypeOK
        <5>2. [rpc[w] EXCEPT !.pc = "index"].pc = "index" /\ Idle.pc = "idle"
          BY <5>1 DEF Request, Idle
        <5>3. QED
          BY <4>1, <5>2 DEF CreateEntry, Goto, Reply
      <4>2. CASE ReplaceEntry(w)
        <5> DEFINE r == [pc |-> "index", id |-> rpc[w].id, cand |-> rpc[w].cand]
        <5>1. rpc' = [rpc EXCEPT ![w] = r]
          BY <4>2 DEF ReplaceEntry, Goto
        <5>2. r.pc = "index"
          OBVIOUS
        <5> HIDE DEF r
        <5>3. QED
          BY <5>1, <5>2
      <4>3. CASE RecordAbuse(w)
        <5> DEFINE r == [pc |-> "revoke", id |-> rpc[w].id, cand |-> rpc[w].cand,
                         row |-> rpc[w].row]
        <5>1. rpc' = [rpc EXCEPT ![w] = r]
          BY <4>3 DEF RecordAbuse, Goto
        <5>2. r.pc = "revoke"
          OBVIOUS
        <5> HIDE DEF r
        <5>3. QED
          BY <5>1, <5>2
      <4>4. QED
        BY <2>6, <4>1, <4>2, <4>3
    <3>3. \A v \in Workers : rpc'[v].pc \in {"idle", "index", "revoke"}
      BY <3>2 DEF Serial, TypeOK
    <3>4. QED
      BY <3>1, <3>3 DEF SerialInv, CopiesCurrent
  <2>7. ASSUME NEW w \in Workers,
               \/ UpdateHolderIndex(w)
               \/ InsertRevocation(w)
               \/ InsertSignedTicket(w)
               \/ ArchiveInsert(w)
               \/ CallFails(w)
               \/ \E id \in Ids, cand \in Histories : UpdateNew(w, id, cand)
               \/ \E batch \in TicketBatches : StoreTickets(w, batch)
               \/ \E id \in Ids : ArchiveRead(w, id)
        PROVE  SerialInv'
    <3>1. entries' = entries
      BY <2>7 DEF UpdateHolderIndex, InsertRevocation, InsertSignedTicket,
                  ArchiveInsert, CallFails, UpdateNew, StoreTickets, ArchiveRead, tables
    <3>4. ASSUME CallFails(w) \/ UpdateHolderIndex(w) \/ InsertRevocation(w) \/ ArchiveInsert(w)
          PROVE  rpc' = [rpc EXCEPT ![w] = Idle] /\ Idle.pc = "idle"
      BY <3>4 DEF CallFails, UpdateHolderIndex, InsertRevocation, ArchiveInsert, Reply, Goto, Idle
    <3>5. ASSUME NEW id \in Ids, NEW cand \in Histories, UpdateNew(w, id, cand)
          PROVE  \E r : rpc' = [rpc EXCEPT ![w] = r] /\ r.pc = "create"
      <4> DEFINE r == [pc |-> "create", id |-> id, cand |-> cand]
      <4>1. rpc' = [rpc EXCEPT ![w] = r] /\ r.pc = "create"
        BY <3>5 DEF UpdateNew, Goto
      <4> HIDE DEF r
      <4>2. QED BY <4>1
    <3>6. ASSUME \/ InsertSignedTicket(w)
                 \/ \E batch \in TicketBatches : StoreTickets(w, batch)
                 \/ \E id \in Ids : ArchiveRead(w, id)
          PROVE  \E r : rpc' = [rpc EXCEPT ![w] = r] /\ r.pc \in {"idle", "store", "archive"}
      BY <3>6 DEF InsertSignedTicket, StoreTickets, ArchiveRead, Goto, Reply, Idle
    <3>2. PICK r : rpc' = [rpc EXCEPT ![w] = r] /\ r.pc \in {"idle", "create", "store", "archive"}
      BY <2>7, <3>4, <3>5, <3>6
    <3>3. QED
      BY <2>1, <3>1, <3>2
  <2>8. CASE UNCHANGED <<entries, rpc>>
    BY <2>8 DEF SerialInv, RowsFlagged, CopiesCurrent
  <2>9. ASSUME NEW w \in Workers, NEW id \in Ids, NEW cand \in Histories,
               UpdateKnown(w, id, cand)
        PROVE  SerialInv'
    BY <2>8, <2>9 DEF UpdateKnown, tables
  <2>10. CASE Crash
    <3>1. entries' = entries /\ \A v \in Workers : rpc'[v].pc = "idle"
      BY <2>10 DEF Crash, Idle, tables
    <3>2. QED
      BY <3>1 DEF SerialInv, RowsFlagged, CopiesCurrent
  <2>11. CASE UNCHANGED vars
    BY <2>8, <2>11 DEF vars, tables
  <2>12. QED
    BY <2>2, <2>3, <2>4, <2>5, <2>6, <2>7, <2>9, <2>10, <2>11 DEF Next, Update, Step
<1>3. QED
  BY <1>1, <1>2, TypeCorrect, EntriesAndCopiesStayGood, PTL DEF Spec

\* The TokenMap implements the registry of double spends, for every set of
\* tokens and unsplit histories, when requests come one at a time: each write of
\* update_impl is one step in which the registry learns a history and flags the
\* token exactly when what it now knows is a double spend; every other step, a
\* crash included, changes nothing.
THEOREM SerialImplementsRegistry ==
    ASSUME Serial, WithoutSplits
    PROVE  Spec => ImplementsRegistry
<1> DEFINE known == [id \in Ids |-> Prefixes(Stored(id))]
           flagged == [id \in Ids |-> entries[id].abuses # <<>>]
<1>1. Init => Registry!RegistryInit
  <2> SUFFICES ASSUME Init
               PROVE  /\ known = [id \in Ids |-> {}]
                      /\ flagged = [id \in Ids |-> FALSE]
    BY DEF Registry!RegistryInit
  <2>1. \A id \in Ids : entries[id] = NoEntry
    BY DEF Init
  <2>2. \A id \in Ids : Stored(id) = {}
    BY <2>1 DEF Stored, NoEntry
  <2>3. Prefixes({}) = {}
    BY DEF Prefixes
  <2>4. \A id \in Ids : entries[id].abuses = <<>>
    BY <2>1 DEF NoEntry
  <2>5. QED
    BY <2>2, <2>3, <2>4
<1>2. TypeOK /\ EntriesAndCopiesGood /\ SerialInv /\ [Next]_vars
          => [Registry!RegistryNext]_<<known, flagged>>
  <2> SUFFICES ASSUME TypeOK, EntriesGood, CopiesGood, SerialInv, [Next]_vars
               PROVE  Registry!RegistryNext \/ UNCHANGED <<known, flagged>>
    BY DEF EntriesAndCopiesGood
  <2>1. known = KnownOf(entries) /\ flagged = FlaggedOf(entries)
    BY DEF KnownOf, FlaggedOf, Stored, Recorded
  <2>2. known' = KnownOf(entries') /\ flagged' = FlaggedOf(entries')
    BY DEF KnownOf, FlaggedOf, Stored, Recorded
  <2>3. CASE entries' = entries
    BY <2>1, <2>2, <2>3
  <2>4. CASE entries' # entries
    <3>1. PICK w \in Workers : CreateEntry(w) \/ ReplaceEntry(w) \/ RecordAbuse(w)
      <4>1. ASSUME NEW w \in Workers, Update(w) PROVE entries' = entries
        BY <4>1 DEF Update, UpdateNew, UpdateKnown, UpdateExtension, UpdateSecondSplit,
                    UpdateFork, tables
      <4>2. ASSUME NEW w \in Workers,
                   \/ UpdateHolderIndex(w)
                   \/ GetTicketSignature(w)
                   \/ InsertRevocation(w)
                   \/ InsertSignedTicket(w)
                   \/ ArchiveInsert(w)
                   \/ CallFails(w)
                   \/ \E batch \in TicketBatches : StoreTickets(w, batch)
                   \/ \E id \in Ids : ArchiveRead(w, id)
            PROVE  entries' = entries
        BY <4>2 DEF UpdateHolderIndex, GetTicketSignature, InsertRevocation,
                    InsertSignedTicket, ArchiveInsert, CallFails, StoreTickets, ArchiveRead, tables
      <4>3. Crash \/ UNCHANGED vars => entries' = entries
        BY DEF Crash, vars, tables
      <4>4. QED
        BY <2>4, <4>1, <4>2, <4>3 DEF Next, Step
    <3>2. PICK id \in Ids, cand \in Histories, e \in Entry :
              entries' = [entries EXCEPT ![id] = e] /\ Learnt(entries[id], cand, e)
      BY <2>4, <3>1, WritesLearn
    <3>3. entries \in [Ids -> Entry]
      BY DEF TypeOK
    <3>4. Learns(entries, [entries EXCEPT ![id] = e], id, cand)
      BY <3>2, <3>3, WriteLearns
    <3>5. LET K == known[id] \cup Registry!Prefixes({cand})
          IN  /\ known' = [known EXCEPT ![id] = K]
              /\ flagged' = [flagged EXCEPT ![id] = Registry!Forked(K)]
      <4> HIDE DEF known, flagged
      <4>1. QED
        BY <2>1, <2>2, <3>2, <3>4, SameReference DEF Learns
    <3>6. Registry!Learn(id, cand)
      BY <3>5 DEF Registry!Learn
    <3>7. QED
      BY <3>6 DEF Registry!RegistryNext
  <2>5. QED
    BY <2>3, <2>4
<1>3. QED
  BY <1>1, <1>2, TypeCorrect, EntriesAndCopiesStayGood, SerialInvariant, PTL
     DEF Spec, ImplementsRegistry, Registry!RegistrySpec
=============================================================================
