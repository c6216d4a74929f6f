---------------------------- MODULE TokenHistory ----------------------------
(***************************************************************************)
(* Token histories and the pure functions at the end of                    *)
(* src/src/tokenmap/src/server.rs that compare a submitted history with    *)
(* the ones on record, next to a reference definition of double spending.  *)
(***************************************************************************)
EXTENDS Integers, Sequences, FiniteSets

CONSTANTS
    Creds,          \* ticket credentials
    Value           \* the denomination of every token (Descriptor.value)

ASSUME ValueAssumption == Value \in Nat

(***************************************************************************)
(* Tokens.  A history is the sequence of transfers after the base.  A link *)
(* stands for the transfer and its signature: it names the recipient's     *)
(* credential and the amount of its SplitValue tag, if it has one.  Only   *)
(* the first differing link of two histories is ever compared, and up to   *)
(* there both were signed over the same predecessor, so equal signatures   *)
(* are equal links.                                                        *)
(***************************************************************************)
NoSplit == -1

Link == [to : Creds, split : Int]

History == Seq(Link)

(***************************************************************************)
(* What Token::verify() has established before any caller submits a token: *)
(* no split exceeds the value of the token.                                *)
(***************************************************************************)
Verified(h) == \A i \in DOMAIN h : h[i].split <= Value

-----------------------------------------------------------------------------
First(S) == CHOOSE n \in S : \A m \in S : n <= m

\* Positions where two histories, as far as both reach, differ.
Differences(known, unknown) ==
    {i \in DOMAIN known \cap DOMAIN unknown : known[i] # unknown[i]}

\* Mutant: only strictly longer histories count.
token_is_known_strict(candidate, tokens) ==
    \E k \in DOMAIN tokens :
        /\ Len(candidate) < Len(tokens[k])
        /\ Differences(tokens[k], candidate) = {}

token_is_known(candidate, tokens) ==
    \E k \in DOMAIN tokens :
        /\ Len(candidate) <= Len(tokens[k])
        /\ Differences(tokens[k], candidate) = {}

\* The known histories that the candidate continues.
Continued(candidate, tokens) ==
    {k \in DOMAIN tokens :
        /\ Len(candidate) > Len(tokens[k])
        /\ Differences(tokens[k], candidate) = {}}

Inflated(candidate, from) ==
    \E i \in DOMAIN candidate : i > from /\ candidate[i].split > Value

\* The index to replace, 0 standing for None.
token_is_extension(candidate, tokens) ==
    LET C == Continued(candidate, tokens)
    IN  IF C = {} \/ Inflated(candidate, Len(tokens[First(C)]))
        THEN 0 ELSE First(C)

\* The known histories from which the candidate departs.
Departed(candidate, tokens) ==
    {k \in DOMAIN tokens : Differences(tokens[k], candidate) # {}}

\* Where the candidate departs from the first such history: <<token, link>>.
token_get_fork(candidate, tokens) ==
    LET k == First(Departed(candidate, tokens))
    IN  <<k, First(Differences(tokens[k], candidate))>>

\* Two links that share out the value of the token between them.
ValidSplit(a, b) ==
    a.split # NoSplit /\ b.split # NoSplit /\ a.split + b.split = Value

token_is_second_split(candidate, tokens) ==
    /\ Departed(candidate, tokens) # {}
    /\ LET fork == token_get_fork(candidate, tokens)
       IN  ValidSplit(tokens[fork[1]][fork[2]], candidate[fork[2]])

-----------------------------------------------------------------------------
(***************************************************************************)
(* Reference definition of a double spend, over a set K of histories: at   *)
(* some point the token was passed on more than once, and not as the two   *)
(* halves of one split.                                                    *)
(***************************************************************************)
Prefixes(K) == UNION {{SubSeq(h, 1, n) : n \in 0 .. Len(h)} : h \in K}

NextLinks(K, p) ==
    {h[Len(p) + 1] : h \in {g \in K : /\ Len(g) > Len(p)
                                      /\ SubSeq(g, 1, Len(p)) = p}}

OneSplit(S) ==
    Cardinality(S) = 2 /\ \A a, b \in S : a # b => ValidSplit(a, b)

Forked(K) ==
    \E p \in Prefixes(K) :
        LET S == NextLinks(K, p) IN Cardinality(S) > 1 /\ ~ OneSplit(S)
=============================================================================
