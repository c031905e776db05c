---------------------------- MODULE ListingProofs ---------------------------
(***************************************************************************)
(* Proofs about Listing and ListingHistory, for any number of users and    *)
(* clients, any limits and any lifetime: what a page says, what the cache  *)
(* keeps of it, and what a walk has shown.                                 *)
(***************************************************************************)
EXTENDS ListingHistory, FiniteSetTheorems, TLAPS

-----------------------------------------------------------------------------
(* Least and greatest numbers *)

Less == {ss \in Nat \X Nat : ss[1] < ss[2]}

LEMMA LessWellFounded == IsWellFoundedOn(Less, Nat)
BY NatLessThanWellFounded DEF OpToRel, Less

LEMMA LeastExists ==
    ASSUME NEW T \in SUBSET Nat, T # {}
    PROVE  \E x \in T : \A y \in T : x <= y
<1>1. PICK x \in T : \A y \in T : <<y, x>> \notin Less
  BY LessWellFounded, WFMin
<1>2. ASSUME NEW y \in T PROVE x <= y
  <2>1. <<y, x>> \in Nat \X Nat /\ <<y, x>>[1] = y /\ <<y, x>>[2] = x
    OBVIOUS
  <2>2. ~ (y < x)
    BY <1>1, <2>1 DEF Less
  <2> QED BY <2>2
<1> QED BY <1>2

LEMMA GreatestExists ==
    ASSUME NEW n \in Nat, NEW T \in SUBSET (0..n), T # {}
    PROVE  \E x \in T : \A y \in T : y <= x
<1> DEFINE Mirror == {n - x : x \in T}
<1>1. Mirror \in SUBSET Nat /\ Mirror # {}
  <2>1. \A x \in T : x \in 0..n /\ n - x \in Nat
    OBVIOUS
  <2> QED BY <2>1
<1>2. PICK m \in Mirror : \A k \in Mirror : m <= k
  BY <1>1, LeastExists
<1>3. PICK x \in T : m = n - x
  BY <1>2
<1>4. \A y \in T : m <= n - y
  BY <1>2
<1> QED BY <1>3, <1>4

LEMMA IdsAreNumbers ==
    ASSUME Number \in Nat, NEW S \in SUBSET Ids
    PROVE  /\ S \in SUBSET Nat /\ S \in SUBSET (0..Number)
           /\ \A u \in S : u \in Nat
BY DEF Ids

LEMMA MaxFits ==
    ASSUME Number \in Nat, NEW S \in SUBSET Ids, S # {}
    PROVE  Max(S) \in S /\ \A u \in S : u <= Max(S)
<1>1. \E x \in S : \A y \in S : y <= x
  BY IdsAreNumbers, GreatestExists
<1>2. \E x \in S : \A y \in S : x >= y
  BY <1>1, IdsAreNumbers
<1>3. Max(S) \in S /\ \A y \in S : Max(S) >= y
  BY <1>2 DEF Max
<1> QED BY <1>3, IdsAreNumbers

LEMMA MinFits ==
    ASSUME Number \in Nat, NEW S \in SUBSET Ids, S # {}
    PROVE  Min(S) \in S /\ \A u \in S : Min(S) <= u
<1>1. \E x \in S : \A y \in S : x <= y
  BY IdsAreNumbers, LeastExists
<1>2. Min(S) \in S /\ \A y \in S : Min(S) <= y
  BY <1>1 DEF Min
<1> QED BY <1>2

LEMMA IdsAreTokens == Number \in Nat => Ids \subseteq Tokens /\ 0 \in Tokens
BY DEF Ids, Tokens

LEMMA IdsFinite ==
    ASSUME Number \in Nat, NEW S \in SUBSET Ids
    PROVE  IsFiniteSet(S) /\ Cardinality(S) \in Nat
<1>1. IsFiniteSet(Ids)
  BY FS_Interval DEF Ids
<1> QED BY <1>1, FS_Subset, FS_CardinalityType

-----------------------------------------------------------------------------
(* The first and the last rows of a set *)

\* LIMIT takes the lowest rows, ...
LEMMA LowestFits ==
    ASSUME Number \in Nat, NEW n \in Nat, NEW S \in SUBSET Ids
    PROVE  /\ Lowest(n, S) \subseteq S
           /\ \A u \in Lowest(n, S), v \in S : v <= u => v \in Lowest(n, S)
<1>1. ASSUME NEW u \in Lowest(n, S), NEW v \in S, v <= u PROVE v \in Lowest(n, S)
  <2>1. {w \in S : w < v} \subseteq {w \in S : w < u}
    BY <1>1, IdsAreNumbers DEF Lowest
  <2>2. Cardinality({w \in S : w < v}) <= Cardinality({w \in S : w < u})
    BY <2>1, IdsFinite, FS_Subset
  <2>3. Cardinality({w \in S : w < u}) < n
    BY DEF Lowest
  <2>4. Cardinality({w \in S : w < v}) < n
    BY <2>2, <2>3, IdsFinite
  <2> QED BY <2>4 DEF Lowest
<1> QED BY <1>1 DEF Lowest

\* ... all of them when there are no more than it allows, ...
LEMMA LowestOfFew ==
    ASSUME Number \in Nat, NEW n \in Nat, NEW S \in SUBSET Ids, Cardinality(S) <= n
    PROVE  Lowest(n, S) = S
<1>1. ASSUME NEW u \in S PROVE Cardinality({v \in S : v < u}) < n
  <2> DEFINE before == {v \in S : v < u}
  <2>1. before \in SUBSET S /\ before # S
    BY IdsAreNumbers
  <2>2. Cardinality(before) <= Cardinality(S) /\ Cardinality(before) # Cardinality(S)
    BY <2>1, IdsFinite, FS_Subset
  <2> QED BY <2>2, IdsFinite
<1> QED BY <1>1 DEF Lowest

\* ... never fewer while there are others, ...
LEMMA LowestIsFull ==
    ASSUME Number \in Nat, NEW n \in Nat, NEW S \in SUBSET Ids, Cardinality(Lowest(n, S)) < n
    PROVE  Lowest(n, S) = S
<1> SUFFICES ASSUME S \ Lowest(n, S) # {} PROVE FALSE
  BY LowestFits
<1>1. PICK u \in S \ Lowest(n, S) : \A v \in S \ Lowest(n, S) : u <= v
  <2>1. S \ Lowest(n, S) \in SUBSET Nat
    BY IdsAreNumbers
  <2> QED BY <2>1, LeastExists
<1> DEFINE before == {v \in S : v < u}
<1>2. before \subseteq Lowest(n, S)
  <2>1. \A v \in S : v < u => ~ (u <= v)
    BY IdsAreNumbers
  <2> QED BY <1>1, <2>1
<1>3. Lowest(n, S) \in SUBSET Ids
  BY LowestFits
<1>4. Cardinality(before) <= Cardinality(Lowest(n, S))
  BY <1>2, <1>3, IdsFinite, FS_Subset
<1>5. Cardinality(before) < n
  BY <1>3, <1>4, IdsFinite
<1> QED BY <1>1, <1>5 DEF Lowest

\* ... and never more than it allows.
LEMMA LowestIsBounded ==
    ASSUME Number \in Nat, NEW n \in Nat, NEW S \in SUBSET Ids
    PROVE  Cardinality(Lowest(n, S)) <= n
<1> DEFINE here == Lowest(n, S)
<1>1. here \in SUBSET Ids /\ here \subseteq S
  BY LowestFits
<1>2. CASE here = {}
  BY <1>2, FS_EmptySet
<1>3. CASE here # {}
  <2>1. Max(here) \in here /\ \A u \in here : u <= Max(here)
    BY <1>1, <1>3, MaxFits
  <2> DEFINE before == {v \in S : v < Max(here)}
  <2>2. here \ {Max(here)} \subseteq before
    BY <1>1, <2>1, IdsAreNumbers
  <2>3. before \in SUBSET Ids
    OBVIOUS
  <2>4. Cardinality(before) < n
    BY <2>1 DEF Lowest
  <2>5. Cardinality(here \ {Max(here)}) <= Cardinality(before)
    BY <2>2, <2>3, IdsFinite, FS_Subset
  <2>6. Cardinality(here \ {Max(here)}) = Cardinality(here) - 1
    BY <1>1, <2>1, IdsFinite, FS_RemoveElement
  <2>7. Cardinality(here) \in Nat /\ Cardinality(before) \in Nat
    BY <1>1, <2>3, IdsFinite
  <2> QED BY <2>4, <2>5, <2>6, <2>7
<1> QED BY <1>2, <1>3

\* A limit above 0 finds somebody if there is anybody.
LEMMA LowestFindsSome ==
    ASSUME Number \in Nat, NEW n \in Nat \ {0}, NEW S \in SUBSET Ids, S # {}
    PROVE  Lowest(n, S) # {}
<1>1. Min(S) \in S /\ \A u \in S : Min(S) <= u
  BY MinFits
<1>2. {v \in S : v < Min(S)} = {}
  BY <1>1, IdsAreNumbers
<1>3. Cardinality({v \in S : v < Min(S)}) = 0
  BY <1>2, FS_EmptySet
<1> QED BY <1>1, <1>3 DEF Lowest

LEMMA HighestFits ==
    ASSUME Number \in Nat, NEW n \in Nat, NEW S \in SUBSET Ids
    PROVE  /\ Highest(n, S) \subseteq S
           /\ \A u \in Highest(n, S), v \in S : v >= u => v \in Highest(n, S)
<1>1. ASSUME NEW u \in Highest(n, S), NEW v \in S, v >= u PROVE v \in Highest(n, S)
  <2>1. {w \in S : w > v} \subseteq {w \in S : w > u}
    BY <1>1, IdsAreNumbers DEF Highest
  <2>2. Cardinality({w \in S : w > v}) <= Cardinality({w \in S : w > u})
    BY <2>1, IdsFinite, FS_Subset
  <2>3. Cardinality({w \in S : w > u}) < n
    BY DEF Highest
  <2>4. Cardinality({w \in S : w > v}) < n
    BY <2>2, <2>3, IdsFinite
  <2> QED BY <2>4 DEF Highest
<1> QED BY <1>1 DEF Highest

LEMMA HighestFindsSome ==
    ASSUME Number \in Nat, NEW n \in Nat \ {0}, NEW S \in SUBSET Ids, S # {}
    PROVE  Highest(n, S) # {}
<1>1. Max(S) \in S /\ \A u \in S : u <= Max(S)
  BY MaxFits
<1>2. {v \in S : v > Max(S)} = {}
  BY <1>1, IdsAreNumbers
<1>3. Cardinality({v \in S : v > Max(S)}) = 0
  BY <1>2, FS_EmptySet
<1> QED BY <1>1, <1>3 DEF Highest

-----------------------------------------------------------------------------
(* Rows in the order of their ids *)

Sorted(s) == \A i, j \in DOMAIN s : i < j => s[i] < s[j]

\* s lists S in order.
Orders(s, S) == /\ s \in [1..Cardinality(S) -> S]
                /\ \A i, j \in 1..Cardinality(S) : i < j => s[i] < s[j]

\* The greatest goes last.
LEMMA OrderedWithGreatest ==
    ASSUME Number \in Nat, NEW S \in SUBSET Ids, NEW m \in S, \A u \in S : u <= m,
           NEW s, Orders(s, S \ {m})
    PROVE  \E t : Orders(t, S)
<1> DEFINE n == Cardinality(S)
           t == [i \in 1..n |-> IF i = n THEN m ELSE s[i]]
<1>1. n \in Nat \ {0} /\ Cardinality(S \ {m}) = n - 1
  BY IdsFinite, FS_RemoveElement, FS_EmptySet
<1>2. s \in [1..(n-1) -> S \ {m}] /\ \A i, j \in 1..(n-1) : i < j => s[i] < s[j]
  BY <1>1 DEF Orders
<1> HIDE DEF n
<1>3. \A i \in 1..n : i # n => i \in 1..(n-1)
  BY <1>1
<1>4. \A i \in 1..n : t[i] \in S
  BY <1>2, <1>3
<1>5. ASSUME NEW i \in 1..n, NEW j \in 1..n, i < j PROVE t[i] < t[j]
  <2>1. i \in 1..(n-1)
    BY <1>1, <1>5
  <2>2. s[i] \in S \ {m} /\ t[i] = s[i]
    BY <1>1, <1>2, <2>1
  <2>3. CASE j = n
    BY <2>2, <2>3, IdsAreNumbers
  <2>4. CASE j # n
    BY <1>2, <1>3, <1>5, <2>1, <2>2, <2>4
  <2> QED BY <2>3, <2>4
<1>6. t \in [1..n -> S]
  BY <1>4
<1>7. Orders(t, S)
  BY <1>5, <1>6 DEF Orders, n
<1> QED BY <1>7

\* Every set of ids can be listed in order.  A smallest set that could not be
\* would have a greatest id, and the rest of it could be.
LEMMA OrderExists ==
    ASSUME Number \in Nat, NEW S \in SUBSET Ids
    PROVE  \E s : Orders(s, S)
<1> DEFINE Bad == {n \in Nat : \E T \in SUBSET Ids : Cardinality(T) = n /\ ~ \E s : Orders(s, T)}
<1> SUFFICES ASSUME Bad # {} PROVE FALSE
  BY IdsFinite
<1>1. PICK n \in Bad : \A k \in Bad : n <= k
  <2>1. Bad \in SUBSET Nat
    OBVIOUS
  <2> HIDE DEF Bad
  <2> QED BY <2>1, LeastExists
<1>2. PICK T \in SUBSET Ids : Cardinality(T) = n /\ ~ \E s : Orders(s, T)
  BY <1>1
<1>3. CASE T = {}
  <2>1. Cardinality(T) = 0
    BY <1>3, FS_EmptySet
  <2>2. Orders([i \in 1..0 |-> i], T)
    BY <2>1 DEF Orders
  <2> QED BY <1>2, <2>2
<1>4. CASE T # {}
  <2>1. PICK m \in T : \A u \in T : u <= m
    BY <1>4, MaxFits
  <2>2. T \ {m} \in SUBSET Ids /\ Cardinality(T \ {m}) = n - 1 /\ n - 1 \in Nat
    <3>1. IsFiniteSet(T) /\ n \in Nat
      BY <1>2, IdsFinite
    <3>2. Cardinality(T \ {m}) = n - 1
      BY <1>2, <3>1, FS_RemoveElement
    <3>3. T \ {m} \in SUBSET Ids
      OBVIOUS
    <3> QED BY <3>1, <3>2, <3>3, IdsFinite
  <2>3. n - 1 \notin Bad
    BY <1>1, <2>2
  <2>4. \E s : Orders(s, T \ {m})
    BY <2>2, <2>3
  <2> HIDE DEF Bad
  <2> QED BY <1>2, <2>1, <2>4, OrderedWithGreatest
<1> QED BY <1>3, <1>4

LEMMA InOrderFits ==
    ASSUME Number \in Nat, NEW S \in SUBSET Ids
    PROVE  /\ InOrder(S) \in Seq(Ids)
           /\ Sorted(InOrder(S))
           /\ ToSet(InOrder(S)) = S
<1> DEFINE s == InOrder(S)
           n == Cardinality(S)
<1>1. n \in Nat /\ IsFiniteSet(S)
  BY IdsFinite
<1>2. s \in [1..n -> S] /\ \A i, j \in 1..n : i < j => s[i] < s[j]
  BY OrderExists DEF InOrder, Orders
<1> HIDE DEF s
<1>3. ToSet(s) \in SUBSET S /\ s \in [1..n -> ToSet(s)]
  BY <1>2 DEF ToSet
<1>4. \A i, j \in 1..n : s[i] = s[j] => i = j
  <2>1. \A i \in 1..n : s[i] \in Int
    BY <1>2, IdsAreNumbers
  <2>2. \A i, j \in 1..n : i < j \/ j < i \/ i = j
    BY <1>1
  <2> QED BY <1>2, <2>1, <2>2
<1>5. IsFiniteSet(1..n) /\ Cardinality(1..n) = n
  BY <1>1, FS_Interval
<1>6. s \in Bijection(1..n, ToSet(s))
  BY <1>2, <1>3, <1>4 DEF Bijection, Injection, Surjection, IsInjective, ToSet
<1>7. Cardinality(ToSet(s)) = n
  BY <1>5, <1>6, FS_Bijection DEF ExistsBijection
<1>8. ToSet(s) = S
  BY <1>1, <1>3, <1>7, FS_Subset
<1>9. s \in Seq(Ids) /\ DOMAIN s = 1..n
  BY <1>1, <1>2
<1> QED BY <1>2, <1>8, <1>9 DEF Sorted, s

\* Two lists in order, all of the first before all of the second.
LEMMA SortedConcat ==
    ASSUME Number \in Nat, NEW s \in Seq(Ids), NEW t \in Seq(Ids), Sorted(s), Sorted(t),
           \A u \in ToSet(s), v \in ToSet(t) : u < v
    PROVE  /\ s \o t \in Seq(Ids)
           /\ Sorted(s \o t)
           /\ ToSet(s \o t) = ToSet(s) \cup ToSet(t)
<1>1. /\ s \o t \in Seq(Ids) /\ Len(s) \in Nat /\ Len(t) \in Nat
      /\ DOMAIN s = 1..Len(s) /\ DOMAIN t = 1..Len(t) /\ DOMAIN (s \o t) = 1..(Len(s) + Len(t))
  OBVIOUS
<1>2. \A i \in 1..Len(s) : (s \o t)[i] = s[i]
  OBVIOUS
<1>3. \A i \in 1..(Len(s) + Len(t)) : i > Len(s) => i - Len(s) \in 1..Len(t) /\ (s \o t)[i] = t[i - Len(s)]
  OBVIOUS
<1>4. \A i \in 1..Len(t) : i + Len(s) \in 1..(Len(s) + Len(t)) /\ (s \o t)[i + Len(s)] = t[i]
  OBVIOUS
<1>5. ASSUME NEW i \in 1..(Len(s) + Len(t)), NEW j \in 1..(Len(s) + Len(t)), i < j
      PROVE  (s \o t)[i] < (s \o t)[j]
  <2>1. CASE j <= Len(s)
    <3>1. i \in 1..Len(s) /\ j \in 1..Len(s)
      BY <1>1, <1>5, <2>1
    <3> QED BY <1>1, <1>2, <1>5, <3>1 DEF Sorted
  <2>2. CASE i <= Len(s) /\ j > Len(s)
    <3>1. i \in 1..Len(s) /\ s[i] \in ToSet(s)
      BY <1>1, <2>2 DEF ToSet
    <3>2. t[j - Len(s)] \in ToSet(t)
      BY <1>1, <1>3, <2>2 DEF ToSet
    <3> QED BY <1>2, <1>3, <2>2, <3>1, <3>2
  <2>3. CASE i > Len(s)
    <3>1. i - Len(s) \in 1..Len(t) /\ j - Len(s) \in 1..Len(t) /\ i - Len(s) < j - Len(s) /\ j > Len(s)
      BY <1>1, <1>3, <1>5, <2>3
    <3>2. t[i - Len(s)] < t[j - Len(s)]
      BY <1>1, <3>1 DEF Sorted
    <3> QED BY <1>3, <2>3, <3>1, <3>2
  <2> QED BY <1>1, <2>1, <2>2, <2>3
<1>6. ToSet(s \o t) = ToSet(s) \cup ToSet(t)
  <2>1. \A i \in 1..(Len(s) + Len(t)) : i <= Len(s) => i \in 1..Len(s)
    BY <1>1
  <2>2. \A i \in 1..Len(s) : i \in 1..(Len(s) + Len(t))
    BY <1>1
  <2>3. ASSUME NEW u \in ToSet(s \o t) PROVE u \in ToSet(s) \cup ToSet(t)
    <3>1. PICK i \in 1..(Len(s) + Len(t)) : u = (s \o t)[i]
      BY <1>1 DEF ToSet
    <3> QED BY <1>1, <1>2, <1>3, <2>1, <3>1 DEF ToSet
  <2>4. ToSet(s) \subseteq ToSet(s \o t)
    BY <1>1, <1>2, <2>2 DEF ToSet
  <2>5. ASSUME NEW u \in ToSet(t) PROVE u \in ToSet(s \o t)
    <3>1. PICK i \in 1..Len(t) : u = t[i]
      BY <1>1 DEF ToSet
    <3> QED BY <1>1, <1>4, <3>1 DEF ToSet
  <2> QED BY <2>3, <2>4, <2>5
<1> QED BY <1>1, <1>5, <1>6 DEF Sorted

-----------------------------------------------------------------------------
(* What a page says *)

\* p answers a question for the rows after t: rows after t up to its token,
\* and nobody of S left out among them.
Onwards(p, t, S) ==
    /\ p \in Page
    /\ \A u \in p.users : t < u
    /\ p.token # 0 => t < p.token /\ \A u \in p.users : u <= p.token
    /\ \A u \in S : t < u /\ (p.token = 0 \/ u <= p.token) => u \in p.users

\* The same for the rows before t.
Backwards(p, t, S) ==
    /\ p \in Page
    /\ \A u \in p.users : u < t
    /\ p.token # 0 => p.token < t /\ \A u \in p.users : p.token <= u
    /\ \A u \in S : u < t /\ (p.token = 0 \/ p.token <= u) => u \in p.users

LEMMA OnwardsOfFewer ==
    ASSUME NEW p, NEW t, NEW S, NEW T \in SUBSET S, Onwards(p, t, S)
    PROVE  Onwards(p, t, T)
BY DEF Onwards

LEMMA BackwardsOfFewer ==
    ASSUME NEW p, NEW t, NEW S, NEW T \in SUBSET S, Backwards(p, t, S)
    PROVE  Backwards(p, t, T)
BY DEF Backwards

\* The lowest rows after t, with the last of them for a token or, if they are
\* all there are, with none.
LEMMA LowestAnswers ==
    ASSUME Number \in Nat, matching \in SUBSET Ids, NEW t \in Tokens, NEW n \in Nat, NEW p,
           p = [users |-> p.users, token |-> p.token], p.users = Lowest(n, Rows(t)),
           \/ p.users # {} /\ p.token = Max(p.users)
           \/ p.users = Rows(t) /\ p.token = 0
    PROVE  Onwards(p, t, matching)
<1> DEFINE here  == p.users
           token == p.token
<1>1. Rows(t) \in SUBSET Ids /\ \A u \in Rows(t) : t < u
  BY IdsAreNumbers DEF Rows, Tokens
<1>2. here \in SUBSET Rows(t) /\ \A u \in here, v \in Rows(t) : v <= u => v \in here
  BY <1>1, LowestFits
<1>3. \A u \in matching : t < u => u \in Rows(t)
  BY IdsAreNumbers DEF Rows, Tokens
<1>4. t \in Nat /\ \A u \in matching : u \in Nat
  BY IdsAreNumbers DEF Tokens
<1>5. p = [users |-> here, token |-> token] /\ p.users = here /\ p.token = token
  BY Zenon
<1>6. \/ here # {} /\ token = Max(here)
      \/ here = Rows(t) /\ token = 0
  OBVIOUS
<1> HIDE DEF here, token
<1>7. CASE here # {} /\ token = Max(here)
  <2>1. token \in here /\ \A u \in here : u <= token
    BY <1>1, <1>2, <1>7, MaxFits
  <2>2. p \in Page /\ t < token
    BY <1>1, <1>2, <1>5, <2>1, IdsAreTokens DEF Page
  <2>3. \A u \in matching : t < u /\ (token = 0 \/ u <= token) => u \in here
    <3>1. token \in Rows(t) /\ token \in Nat
      BY <1>1, <1>2, <2>1, IdsAreNumbers
    <3>2. token # 0
      BY <1>4, <2>2, <3>1
    <3> QED BY <1>2, <1>3, <2>1, <3>1, <3>2
  <2> QED BY <1>1, <1>2, <1>5, <2>1, <2>2, <2>3 DEF Onwards
<1>8. CASE here = Rows(t) /\ token = 0
  <2>1. p \in Page
    BY <1>1, <1>5, <1>8, IdsAreTokens DEF Page
  <2> QED BY <1>1, <1>3, <1>5, <1>8, <2>1 DEF Onwards
<1> QED BY <1>6, <1>7, <1>8

\* SearchUsers asks for one row more than it shows.
LEMMA SearchPageAnswers ==
    ASSUME Number \in Nat, matching \in SUBSET Ids, NEW t \in Tokens, NEW limit \in Nat,
           ~ Panics(t, limit)
    PROVE  Onwards(SearchPage(t, limit), t, matching)
<1> DEFINE R    == Rows(t)
           rows == Lowest(limit + 1, R)
           here == Lowest(limit, rows)
<1>1. R \in SUBSET Ids /\ rows \in SUBSET R /\ rows \in SUBSET Ids
  BY LowestFits DEF Rows
<1>2. CASE Cardinality(rows) > limit
  <2>1. rows # {}
    BY <1>2, FS_EmptySet
  <2>2. limit \in Nat \ {0}
    BY <1>1, <2>1 DEF Panics
  <2>3. here # {}
    BY <1>1, <2>1, <2>2, LowestFindsSome
  <2>4. here = Lowest(limit, R)
    <3>1. ASSUME NEW u \in Lowest(limit, R) PROVE u \in here
      <4>1. Cardinality({v \in R : v < u}) < limit /\ u \in R
        BY DEF Lowest
      <4>2. Cardinality({v \in R : v < u}) < limit + 1 /\ Cardinality({v \in rows : v < u}) < limit
        <5>1. {v \in rows : v < u} \subseteq {v \in R : v < u} /\ {v \in R : v < u} \in SUBSET Ids
          BY <1>1
        <5>2. Cardinality({v \in rows : v < u}) <= Cardinality({v \in R : v < u})
          BY <5>1, IdsFinite, FS_Subset
        <5>3. Cardinality({v \in rows : v < u}) \in Nat /\ Cardinality({v \in R : v < u}) \in Nat
          BY <5>1, IdsFinite
        <5> QED BY <4>1, <5>2, <5>3
      <4> QED BY <4>1, <4>2 DEF Lowest
    <3>2. ASSUME NEW u \in here PROVE u \in Lowest(limit, R)
      <4>1. u \in rows /\ Cardinality({v \in rows : v < u}) < limit
        BY DEF Lowest
      <4>2. {v \in R : v < u} = {v \in rows : v < u}
        <5>1. \A v \in R : v < u => v \in rows
          <6>1. \A v \in R : v <= u => v \in rows
            BY <1>1, <4>1, LowestFits
          <6> QED BY <1>1, <4>1, <6>1, IdsAreNumbers
        <5> QED BY <1>1, <5>1
      <4> QED BY <1>1, <4>1, <4>2 DEF Lowest
    <3> QED BY <3>1, <3>2
  <2>5. SearchPage(t, limit) = [users |-> Lowest(limit, R), token |-> Max(Lowest(limit, R))]
    BY <1>2, <2>4 DEF SearchPage
  <2> DEFINE p == SearchPage(t, limit)
  <2>6. p = [users |-> p.users, token |-> p.token] /\ p.users = Lowest(limit, Rows(t))
        /\ p.users # {} /\ p.token = Max(p.users)
    BY <2>3, <2>4, <2>5
  <2> HIDE DEF p
  <2>7. Onwards(p, t, matching)
    BY <2>6, LowestAnswers
  <2> QED BY <2>7 DEF p
<1>3. CASE ~ (Cardinality(rows) > limit)
  <2>1. Cardinality(rows) <= limit /\ Cardinality(rows) < limit + 1
    BY <1>1, <1>3, IdsFinite
  <2>2. rows = R
    BY <1>1, <2>1, LowestIsFull
  <2>3. here = R
    BY <1>1, <2>1, <2>2, LowestOfFew
  <2>4. SearchPage(t, limit) = [users |-> Lowest(limit, R), token |-> 0]
    BY <1>3, <2>2 DEF SearchPage
  <2> DEFINE p == SearchPage(t, limit)
  <2>5. p = [users |-> p.users, token |-> p.token] /\ p.users = Lowest(limit, Rows(t))
        /\ p.users = Rows(t) /\ p.token = 0
    BY <2>2, <2>3, <2>4
  <2> HIDE DEF p
  <2>6. Onwards(p, t, matching)
    BY <2>5, LowestAnswers
  <2> QED BY <2>6 DEF p
<1> QED BY <1>2, <1>3

LEMMA PageOnwardsAnswers ==
    ASSUME Number \in Nat, matching \in SUBSET Ids, NEW t \in Tokens, NEW limit \in Nat
    PROVE  Onwards(PageOnwards(t, limit), t, matching)
<1> DEFINE n    == Bound(limit)
           here == Lowest(n, Rows(t))
<1>1. n \in Nat \ {0}
  BY DEF Bound
<1>2. Rows(t) \in SUBSET Ids /\ here \in SUBSET Ids
  BY <1>1, LowestFits DEF Rows
<1>3. Cardinality(here) \in Nat /\ Cardinality(here) <= n
  BY <1>1, <1>2, IdsFinite, LowestIsBounded
<1> DEFINE p == PageOnwards(t, limit)
<1>4. /\ p = [users |-> p.users, token |-> p.token] /\ p.users = here
      /\ p.token = IF Cardinality(here) = n THEN Max(here) ELSE 0
  BY DEF PageOnwards
<1>5. here # {} \/ Cardinality(here) # n
  BY <1>1, FS_EmptySet
<1>6. CASE Cardinality(here) = n
  <2> HIDE DEF p, n
  <2> QED BY <1>1, <1>4, <1>5, <1>6, LowestAnswers DEF p
<1>7. CASE Cardinality(here) # n
  <2>1. Cardinality(here) < n
    BY <1>1, <1>3, <1>7
  <2>2. here = Rows(t)
    BY <1>1, <1>2, <2>1, LowestIsFull
  <2> HIDE DEF p, n
  <2> QED BY <1>1, <1>4, <1>7, <2>2, LowestAnswers DEF p
<1> QED BY <1>6, <1>7

LEMMA PageBackwardsAnswers ==
    ASSUME Number \in Nat, matching \in SUBSET Ids, NEW t \in Tokens, NEW limit \in Nat
    PROVE  Backwards(PageBackwards(t, limit), t, matching)
<1> DEFINE n    == Bound(limit)
           R    == {u \in matching : u < t}
           here == Highest(n, R)
           p    == PageBackwards(t, limit)
<1>1. n \in Nat \ {0}
  BY DEF Bound
<1>2. /\ R \in SUBSET Ids /\ here \in SUBSET R /\ here \in SUBSET Ids
      /\ \A u \in here, v \in R : v >= u => v \in here
  BY <1>1, HighestFits
<1>3. t \in Nat /\ \A u \in matching : u \in Nat
  BY IdsAreNumbers DEF Tokens
<1>4. p = [users |-> here, token |-> IF here = {} THEN 0 ELSE Min(here)]
  BY DEF PageBackwards
<1> HIDE DEF n, here, p
<1>5. CASE here = {}
  <2>1. R = {}
    BY <1>1, <1>2, <1>5, HighestFindsSome DEF here
  <2> QED BY <1>4, <1>5, <2>1 DEF Backwards, Page, Tokens, p
<1>6. CASE here # {}
  <2>1. p.token \in here /\ \A u \in here : p.token <= u
    BY <1>2, <1>4, <1>6, MinFits
  <2>2. p \in Page /\ p.token \in Nat /\ p.token # 0
    <3>1. p.token \in Ids
      BY <1>2, <2>1
    <3> QED BY <1>2, <1>4, <3>1 DEF Page, Ids, Tokens
  <2>3. \A u \in matching : u < t /\ p.token <= u => u \in here
    BY <1>2, <1>3, <2>1, <2>2
  <2> QED BY <1>2, <1>4, <2>1, <2>2, <2>3 DEF Backwards, p
<1> QED BY <1>5, <1>6

-----------------------------------------------------------------------------
(* What a walk has shown.  S is whoever was there all along. *)

WalkFits(w, S) ==
    /\ Sorted(w.shown)
    /\ w.kind # "backwards" =>
         /\ w.at = "done" => \A u \in S : w.from < u => u \in ToSet(w.shown)
         /\ w.at # "done" =>
              /\ \A u \in ToSet(w.shown) : u <= w.token
              /\ \A u \in S : w.from < u /\ u <= w.token => u \in ToSet(w.shown)
    /\ w.kind = "backwards" =>
         /\ w.at = "done" => \A u \in S : u < w.from => u \in ToSet(w.shown)
         /\ w.at # "done" =>
              /\ \A u \in ToSet(w.shown) : w.token <= u
              /\ \A u \in S : u < w.from /\ w.token <= u => u \in ToSet(w.shown)

\* The answer p belongs below, or above, what the walk w has shown.
Answers(p, w, S) == IF w.kind = "backwards" THEN Backwards(p, w.token, S) ELSE Onwards(p, w.token, S)

ShownAfter(w, p) ==
    [w EXCEPT !.token = p.token, !.page = None, !.at = IF p.token = 0 THEN "done" ELSE "ask",
              !.shown = IF w.kind = "backwards" THEN InOrder(p.users) \o @ ELSE @ \o InOrder(p.users)]

Begun(kind, t, limit) == [kind |-> kind, limit |-> limit, from |-> t, token |-> t,
                          at |-> "ask", shown |-> <<>>, page |-> None]

LEMMA FitsFewer ==
    ASSUME NEW w, NEW S, NEW T \in SUBSET S, WalkFits(w, S)
    PROVE  WalkFits(w, T)
BY DEF WalkFits

LEMMA BegunFits ==
    ASSUME Number \in Nat, NEW kind \in Kinds, NEW t \in Tokens, NEW limit \in Limits,
           kind = "backwards" <=> t # 0, NEW S \in SUBSET Ids
    PROVE  Begun(kind, t, limit) \in Walks /\ WalkFits(Begun(kind, t, limit), S)
<1>1. Begun(kind, t, limit) \in Walks
  BY DEF Begun, Walks
<1>2. Sorted(<<>>) /\ ToSet(<<>>) = {}
  BY DEF Sorted, ToSet
<1>3. t \in Nat /\ \A u \in S : u \in Nat
  BY IdsAreNumbers DEF Tokens
<1> QED BY <1>1, <1>2, <1>3 DEF Begun, WalkFits

\* Showing the answer to what the client asked keeps the walk in order and
\* leaves nobody out.
LEMMA ShownFits ==
    ASSUME Number \in Nat, NEW w \in Walks, w.at # "done", NEW S \in SUBSET Ids, WalkFits(w, S),
           NEW p, Answers(p, w, S)
    PROVE  ShownAfter(w, p) \in Walks /\ WalkFits(ShownAfter(w, p), S)
<1> DEFINE names == InOrder(p.users)
           v     == ShownAfter(w, p)
<1>1. p \in Page /\ p.users \in SUBSET Ids /\ p.token \in Tokens
  BY DEF Answers, Onwards, Backwards, Page
<1>2. names \in Seq(Ids) /\ Sorted(names) /\ ToSet(names) = p.users
  BY <1>1, InOrderFits
<1>3. w.shown \in Seq(Ids) /\ w.token \in Tokens /\ w.from \in Tokens
  BY DEF Walks
<1>4. ToSet(w.shown) \in SUBSET Ids
  BY <1>3 DEF ToSet
<1>5. /\ \A u \in S : u \in Nat
      /\ \A u \in p.users : u \in Nat
      /\ \A u \in ToSet(w.shown) : u \in Nat
      /\ w.token \in Nat /\ w.from \in Nat /\ p.token \in Nat
  BY <1>1, <1>3, <1>4, IdsAreNumbers DEF Tokens
<1> HIDE DEF names
<1>6. CASE w.kind # "backwards"
  <2>1. Onwards(p, w.token, S)
    BY <1>6 DEF Answers
  <2>2. \A u \in ToSet(w.shown), x \in ToSet(names) : u < x
    BY <1>2, <1>5, <1>6, <2>1 DEF WalkFits, Onwards
  <2>3. /\ w.shown \o names \in Seq(Ids) /\ Sorted(w.shown \o names)
        /\ ToSet(w.shown \o names) = ToSet(w.shown) \cup p.users
    BY <1>2, <1>3, <2>2, SortedConcat DEF WalkFits
  <2>4. /\ v \in Walks /\ v.kind = w.kind /\ v.from = w.from /\ v.token = p.token
        /\ v.shown = w.shown \o names /\ v.at = IF p.token = 0 THEN "done" ELSE "ask"
    BY <1>1, <1>6, <2>3 DEF Walks, ShownAfter, names
  <2> HIDE DEF v
  <2>5. CASE p.token = 0
    <3>1. ASSUME NEW u \in S, w.from < u PROVE u \in ToSet(w.shown) \cup p.users
      <4>1. u <= w.token \/ w.token < u
        BY <1>5
      <4> QED BY <1>6, <2>1, <2>5, <3>1, <4>1 DEF WalkFits, Onwards
    <3> QED BY <1>6, <2>3, <2>4, <2>5, <3>1 DEF WalkFits, v
  <2>6. CASE p.token # 0
    <3>1. w.token < p.token /\ \A u \in p.users : u <= p.token
      BY <2>1, <2>6 DEF Onwards
    <3>2. \A u \in ToSet(w.shown) \cup p.users : u <= p.token
      BY <1>5, <1>6, <3>1 DEF WalkFits
    <3>3. ASSUME NEW u \in S, w.from < u, u <= p.token PROVE u \in ToSet(w.shown) \cup p.users
      <4>1. u <= w.token \/ w.token < u
        BY <1>5
      <4> QED BY <1>6, <2>1, <3>3, <4>1 DEF WalkFits, Onwards
    <3> QED BY <1>6, <2>3, <2>4, <2>6, <3>2, <3>3 DEF WalkFits, v
  <2> QED BY <2>5, <2>6
<1>7. CASE w.kind = "backwards"
  <2>1. Backwards(p, w.token, S)
    BY <1>7 DEF Answers
  <2>2. \A x \in ToSet(names), u \in ToSet(w.shown) : x < u
    BY <1>2, <1>5, <1>7, <2>1 DEF WalkFits, Backwards
  <2>3. /\ names \o w.shown \in Seq(Ids) /\ Sorted(names \o w.shown)
        /\ ToSet(names \o w.shown) = ToSet(w.shown) \cup p.users
    BY <1>2, <1>3, <2>2, SortedConcat DEF WalkFits
  <2>4. /\ v \in Walks /\ v.kind = w.kind /\ v.from = w.from /\ v.token = p.token
        /\ v.shown = names \o w.shown /\ v.at = IF p.token = 0 THEN "done" ELSE "ask"
    BY <1>1, <1>7, <2>3 DEF Walks, ShownAfter, names
  <2> HIDE DEF v
  <2>5. CASE p.token = 0
    <3>1. ASSUME NEW u \in S, u < w.from PROVE u \in ToSet(w.shown) \cup p.users
      <4>1. w.token <= u \/ u < w.token
        BY <1>5
      <4> QED BY <1>7, <2>1, <2>5, <3>1, <4>1 DEF WalkFits, Backwards
    <3> QED BY <1>7, <2>3, <2>4, <2>5, <3>1 DEF WalkFits, v
  <2>6. CASE p.token # 0
    <3>1. p.token < w.token /\ \A u \in p.users : p.token <= u
      BY <2>1, <2>6 DEF Backwards
    <3>2. \A u \in ToSet(w.shown) \cup p.users : p.token <= u
      BY <1>5, <1>7, <3>1 DEF WalkFits
    <3>3. ASSUME NEW u \in S, u < w.from, p.token <= u PROVE u \in ToSet(w.shown) \cup p.users
      <4>1. w.token <= u \/ u < w.token
        BY <1>5
      <4> QED BY <1>7, <2>1, <3>3, <4>1 DEF WalkFits, Backwards
    <3> QED BY <1>7, <2>3, <2>4, <2>6, <3>2, <3>3 DEF WalkFits, v
  <2> QED BY <2>5, <2>6
<1> QED BY <1>6, <1>7

-----------------------------------------------------------------------------
(* The inductive invariant *)

TypeFits ==
    /\ matching \in SUBSET Ids
    /\ pages \in [Keys -> Entries \cup {None}]
    /\ changes \in Nat
    /\ walk \in [Requests -> Walks \cup {None}]
    /\ \A r \in Requests : walk[r] # None => (walk[r].page # None <=> walk[r].at = "fill")

\* What the cache keeps under k, and a search is about to fill or show, leaves
\* nobody out who has been there from the very start.
PageFits(k)   == pages[k] # None => Onwards(pages[k].page, k[1], there[None])
SearchFits(r) == At(r, "fill") => Onwards(walk[r].page, walk[r].token, there[None])

\* A search may see pages older than itself, and so may the next walk.
ThereFits ==
    /\ \A x \in Requests \cup {None} : there[x] \in SUBSET matching
    /\ \A r \in Requests : ~ AsksTable(r) => there[r] \in SUBSET there[None]
    /\ \A r \in Requests : At(r, "load") \/ At(r, "fill") => walk[r].kind = "search"

IInv == /\ TypeFits /\ ThereFits
        /\ \A k \in Keys : PageFits(k)
        /\ \A r \in Requests : SearchFits(r) /\ (walk[r] # None => WalkFits(walk[r], there[r]))

-----------------------------------------------------------------------------
(* What a step does to a walk *)

Asks(r)    == At(r, "ask") \/ At(r, "load") \/ At(r, "fill")
Stays(r)   == walk'[r] = walk[r]
Ends(r)    == walk'[r] = None
Begins(r)  == /\ walk[r] = None
              /\ \E kind \in Kinds, t \in Tokens, limit \in Limits :
                    (kind = "backwards" <=> t # 0) /\ walk'[r] = Begun(kind, t, limit)
GoesTo(r, at, page) == /\ Asks(r)
                       /\ walk'[r] = [walk[r] EXCEPT !.at = at, !.page = page]
Shows(r)   == /\ Asks(r)
              /\ \E p : Answers(p, walk[r], there[r]) /\ walk'[r] = ShownAfter(walk[r], p)

Moves(r) == \/ Stays(r) \/ Ends(r) \/ Begins(r) \/ Shows(r)
            \/ GoesTo(r, "ask", None)
            \/ GoesTo(r, "load", None) /\ walk[r].kind = "search"
            \/ /\ walk[r] # None /\ walk[r].kind = "search"
               /\ \E p : GoesTo(r, "fill", p) /\ p \in Page /\ Onwards(p, walk[r].token, matching)

\* One walk moves, the others stay.
LEMMA OneMoves ==
    ASSUME TypeFits, NEW r \in Requests, NEW v, walk' = [walk EXCEPT ![r] = v]
    PROVE  walk'[r] = v /\ \A s \in Requests \ {r} : Stays(s)
BY DEF TypeFits, Stays

LEMMA ShowMoves ==
    ASSUME TypeFits, NEW r \in Requests, Asks(r), NEW p, Show(r, p),
           Answers(p, walk[r], there[r])
    PROVE  Shows(r) /\ \A s \in Requests \ {r} : Stays(s)
<1>1. walk' = [walk EXCEPT ![r] = ShownAfter(walk[r], p)]
  BY DEF Show, ShownAfter
<1> QED BY <1>1, OneMoves DEF Shows

LEMMA CutOffMoves ==
    ASSUME TypeFits, NEW R, CutOff(R), NEW r \in Requests
    PROVE  Moves(r)
<1>1. walk'[r] = IF r \in R /\ (At(r, "load") \/ At(r, "fill"))
                 THEN [walk[r] EXCEPT !.at = "ask", !.page = None] ELSE walk[r]
  BY DEF CutOff
<1> QED BY <1>1 DEF Moves, Stays, GoesTo, Asks

LEMMA TableAnswers ==
    ASSUME ConstantsFit, IInv, NEW r \in Requests, List(r)
    PROVE  Shows(r) /\ \A s \in Requests \ {r} : Stays(s)
<1> DEFINE w == walk[r]
<1>1. w \in Walks /\ Asks(r) /\ w.kind \in {"onwards", "backwards"}
  BY DEF List, At, Asks, IInv, TypeFits, Walks, Kinds
<1>2. w.token \in Tokens /\ w.limit \in Nat /\ Number \in Nat /\ matching \in SUBSET Ids
  BY <1>1 DEF Walks, ConstantsFit, IInv, TypeFits
<1>3. there[r] \in SUBSET matching
  BY DEF IInv, ThereFits
<1>4. CASE w.kind = "onwards"
  <2>1. Onwards(PageOnwards(w.token, w.limit), w.token, there[r])
    BY <1>2, <1>3, PageOnwardsAnswers, OnwardsOfFewer
  <2>2. Answers(PageOnwards(w.token, w.limit), w, there[r])
    BY <1>4, <2>1 DEF Answers
  <2>3. Show(r, PageOnwards(w.token, w.limit))
    BY <1>4 DEF List
  <2> QED BY <1>1, <2>2, <2>3, ShowMoves DEF IInv
<1>5. CASE w.kind = "backwards"
  <2>1. Backwards(PageBackwards(w.token, w.limit), w.token, there[r])
    BY <1>2, <1>3, PageBackwardsAnswers, BackwardsOfFewer
  <2>2. Answers(PageBackwards(w.token, w.limit), w, there[r])
    BY <1>5, <2>1 DEF Answers
  <2>3. Show(r, PageBackwards(w.token, w.limit))
    BY <1>5 DEF List
  <2> QED BY <1>1, <2>2, <2>3, ShowMoves DEF IInv
<1> QED BY <1>1, <1>4, <1>5

LEMMA SearchAnswers ==
    ASSUME IInv, NEW r \in Requests, walk[r] # None, walk[r].kind = "search", Asks(r),
           NEW p, Onwards(p, walk[r].token, there[None]), Show(r, p)
    PROVE  Shows(r) /\ \A s \in Requests \ {r} : Stays(s)
<1>1. there[r] \in SUBSET there[None]
  BY DEF IInv, ThereFits, AsksTable
<1>2. Answers(p, walk[r], there[r])
  BY <1>1, OnwardsOfFewer DEF Answers
<1> QED BY <1>2, ShowMoves DEF IInv

LEMMA HitMoves ==
    ASSUME IInv, NEW r \in Requests, Hit(r)
    PROVE  Shows(r) /\ \A s \in Requests \ {r} : Stays(s)
<1>1. walk[r] \in Walks /\ walk[r] # None /\ walk[r].kind = "search" /\ Asks(r)
  BY DEF Hit, At, Asks, IInv, TypeFits
<1>2. KeyOf(r) \in Keys /\ KeyOf(r)[1] = walk[r].token
  BY <1>1 DEF KeyOf, Keys, Walks
<1>3. Onwards(pages[KeyOf(r)].page, walk[r].token, there[None])
  BY <1>2 DEF Hit, IInv, PageFits
<1> QED BY <1>1, <1>3, SearchAnswers DEF Hit

LEMMA FillMoves ==
    ASSUME IInv, NEW r \in Requests, Fill(r)
    PROVE  Shows(r) /\ \A s \in Requests \ {r} : Stays(s)
<1>1. walk[r] # None /\ walk[r].kind = "search" /\ Asks(r)
  BY DEF Fill, At, Asks, IInv, ThereFits
<1>2. Onwards(walk[r].page, walk[r].token, there[None])
  BY DEF Fill, IInv, SearchFits
<1> QED BY <1>1, <1>2, SearchAnswers DEF Fill

LEMMA WalksMove ==
    ASSUME ConstantsFit, IInv, [Next]_vars, NEW r \in Requests
    PROVE  Moves(r)
<1>1. ASSUME NEW s \in Requests, NEW kind \in Kinds, NEW t \in Tokens, NEW limit \in Limits,
             Start(s, kind, t, limit)
      PROVE  Moves(r)
  <2>1. walk' = [walk EXCEPT ![s] = Begun(kind, t, limit)]
    BY <1>1 DEF Start, Begun
  <2>2. Begins(s) /\ \A q \in Requests \ {s} : Stays(q)
    <3>1. walk'[s] = Begun(kind, t, limit) /\ \A q \in Requests \ {s} : Stays(q)
      BY <2>1, OneMoves DEF IInv
    <3>2. walk[s] = None /\ (kind = "backwards" <=> t # 0)
      BY <1>1 DEF Start
    <3> QED BY <3>1, <3>2 DEF Begins
  <2> QED BY <2>2 DEF Moves
<1>2. ASSUME NEW s \in Requests, List(s) \/ Hit(s) \/ Fill(s) PROVE Moves(r)
  <2>1. Shows(s) /\ \A q \in Requests \ {s} : Stays(q)
    BY <1>2, TableAnswers, HitMoves, FillMoves
  <2> QED BY <2>1 DEF Moves
<1>3. ASSUME NEW s \in Requests, Miss(s) PROVE Moves(r)
  <2>1. walk' = [walk EXCEPT ![s] = [walk[s] EXCEPT !.at = "load"]]
    BY <1>3 DEF Miss
  <2>2. walk[s] \in Walks /\ walk[s].page = None /\ Asks(s) /\ walk[s].kind = "search"
    BY <1>3 DEF Miss, At, Asks, IInv, TypeFits
  <2>3. walk'[s] = [walk[s] EXCEPT !.at = "load", !.page = None] /\ \A q \in Requests \ {s} : Stays(q)
    <3>1. [walk[s] EXCEPT !.at = "load"] = [walk[s] EXCEPT !.at = "load", !.page = None]
      BY <2>2 DEF Walks
    <3> QED BY <2>1, <3>1, OneMoves DEF IInv
  <2> QED BY <2>2, <2>3 DEF Moves, GoesTo
<1>4. ASSUME NEW s \in Requests, Load(s) PROVE Moves(r)
  <2> DEFINE p == SearchPage(walk[s].token, walk[s].limit)
  <2>1. walk[s] \in Walks /\ walk[s] # None /\ Asks(s) /\ walk[s].kind = "search"
    BY <1>4 DEF Load, At, Asks, IInv, TypeFits, ThereFits
  <2>2. walk[s].token \in Tokens /\ walk[s].limit \in Nat /\ Number \in Nat /\ matching \in SUBSET Ids
    BY <2>1 DEF Walks, ConstantsFit, IInv, TypeFits
  <2>3. Onwards(p, walk[s].token, matching)
    BY <1>4, <2>2, SearchPageAnswers DEF Load
  <2>4. p \in Page
    BY <2>3 DEF Onwards
  <2>5. walk' = [walk EXCEPT ![s] = [walk[s] EXCEPT !.at = "fill", !.page = p]]
    BY <1>4 DEF Load
  <2> HIDE DEF p
  <2>6. walk'[s] = [walk[s] EXCEPT !.at = "fill", !.page = p] /\ \A q \in Requests \ {s} : Stays(q)
    BY <2>5, OneMoves DEF IInv
  <2> QED BY <2>1, <2>3, <2>4, <2>6 DEF Moves, GoesTo
<1>5. ASSUME NEW s \in Requests, Fails(s) PROVE Moves(r)
  BY <1>5, CutOffMoves DEF Fails, IInv
<1>6. ASSUME NEW s \in Requests, Stop(s) PROVE Moves(r)
  <2>1. Ends(s) /\ \A q \in Requests \ {s} : Stays(q)
    BY <1>6, OneMoves DEF Stop, Ends, IInv
  <2> QED BY <2>1 DEF Moves
<1>7. CASE Dies
  BY <1>7, CutOffMoves DEF Dies, IInv
<1>8. CASE Tick \/ (\E u \in Ids : Change(u)) \/ UNCHANGED vars
  BY <1>8 DEF Tick, Change, vars, Moves, Stays
<1> QED BY <1>1, <1>2, <1>3, <1>4, <1>5, <1>6, <1>7, <1>8 DEF Next, Advance

-----------------------------------------------------------------------------
(* Every step keeps the invariant *)

LEMMA WalkTypes ==
    ASSUME ConstantsFit, IInv, NEW r \in Requests, Moves(r)
    PROVE  /\ walk'[r] \in Walks \cup {None}
           /\ walk'[r] # None => (walk'[r].page # None <=> walk'[r].at = "fill")
<1> USE DEF IInv
<1>1. CASE Stays(r)
  BY <1>1 DEF Stays, TypeFits
<1>2. CASE Ends(r)
  BY <1>2 DEF Ends
<1>3. CASE Begins(r)
  <2>1. PICK kind \in Kinds, t \in Tokens, limit \in Limits :
            (kind = "backwards" <=> t # 0) /\ walk'[r] = Begun(kind, t, limit)
    BY <1>3 DEF Begins
  <2>2. Begun(kind, t, limit) \in Walks
    BY <2>1, BegunFits DEF ConstantsFit
  <2> QED BY <2>1, <2>2 DEF Begun
<1>4. CASE Shows(r)
  <2>1. walk[r] \in Walks /\ walk[r].at # "done"
    BY <1>4 DEF Shows, Asks, At, TypeFits
  <2>2. PICK p : Answers(p, walk[r], there[r]) /\ walk'[r] = ShownAfter(walk[r], p)
    BY <1>4 DEF Shows
  <2>3. there[r] \in SUBSET Ids /\ WalkFits(walk[r], there[r]) /\ Number \in Nat
    BY <1>4 DEF Shows, Asks, At, TypeFits, ThereFits, ConstantsFit
  <2>4. ShownAfter(walk[r], p) \in Walks
    BY <2>1, <2>2, <2>3, ShownFits
  <2>5. ShownAfter(walk[r], p).page = None /\ ShownAfter(walk[r], p).at \in {"done", "ask"}
    BY <2>1 DEF ShownAfter, Walks
  <2> QED BY <2>2, <2>4, <2>5
<1>5. ASSUME NEW at \in {"ask", "load"}, GoesTo(r, at, None)
      PROVE  walk'[r] \in Walks /\ walk'[r].page = None /\ walk'[r].at # "fill"
  <2>1. walk[r] \in Walks
    BY <1>5 DEF GoesTo, Asks, At, TypeFits
  <2> QED BY <1>5, <2>1 DEF GoesTo, Walks
<1>6. ASSUME NEW p, GoesTo(r, "fill", p), p \in Page
      PROVE  walk'[r] \in Walks /\ walk'[r].page # None /\ walk'[r].at = "fill"
  <2>1. walk[r] \in Walks /\ p # None
    BY <1>6 DEF GoesTo, Asks, At, TypeFits, ConstantsFit
  <2> QED BY <1>6, <2>1 DEF GoesTo, Walks
<1> QED BY <1>1, <1>2, <1>3, <1>4, <1>5, <1>6 DEF Moves

LEMMA TablesStep ==
    ASSUME ConstantsFit, IInv, [Next]_vars
    PROVE  /\ matching' \in SUBSET Ids /\ changes' \in Nat
           /\ pages' \in [Keys -> Entries \cup {None}]
           /\ walk' = [r \in Requests |-> walk'[r]]
<1> USE DEF IInv, TypeFits
<1>1. ASSUME NEW r \in Requests, Fill(r) PROVE pages' \in [Keys -> Entries \cup {None}]
  <2>1. walk[r] \in Walks /\ walk[r].page # None
    BY <1>1 DEF Fill, At
  <2>2. walk[r].page \in Page
    BY <2>1 DEF Walks
  <2>3. [page |-> walk[r].page, ttl |-> Life] \in Entries
    BY <2>2 DEF Entries, ConstantsFit
  <2> QED BY <1>1, <2>3 DEF Fill
<1>2. ASSUME Tick PROVE pages' \in [Keys -> Entries \cup {None}]
  <2>1. ASSUME NEW k \in Keys, pages[k] # None, pages[k].ttl # 1
        PROVE  [pages[k] EXCEPT !.ttl = @ - 1] \in Entries
    <3>1. pages[k] \in Entries
      BY <2>1
    <3>2. pages[k].ttl - 1 \in 1..Life
      BY <2>1, <3>1 DEF Entries, ConstantsFit
    <3> QED BY <3>1, <3>2 DEF Entries
  <2> QED BY <1>2, <2>1 DEF Tick
<1>3. ASSUME NEW r \in Requests, List(r) \/ Hit(r) \/ Load(r) \/ Fill(r) \/ Miss(r) \/ Stop(r)
      PROVE  walk' = [s \in Requests |-> walk'[s]]
  BY <1>3 DEF List, Hit, Load, Fill, Miss, Stop, Show
<1>4. ASSUME NEW r \in Requests, NEW kind, NEW t, NEW limit, Start(r, kind, t, limit)
      PROVE  walk' = [s \in Requests |-> walk'[s]]
  BY <1>4 DEF Start
<1>5. ASSUME NEW R, CutOff(R) PROVE walk' = [s \in Requests |-> walk'[s]]
  BY <1>5 DEF CutOff
<1>6. walk' = [s \in Requests |-> walk'[s]]
  BY <1>3, <1>4, <1>5 DEF Next, Advance, Fails, Dies, Tick, Change, vars
<1>7. pages' \in [Keys -> Entries \cup {None}]
  BY <1>1, <1>2 DEF Next, Advance, Start, List, Hit, Miss, Load, Fails, Stop, Dies, Change, vars
<1>8. matching' \in SUBSET Ids /\ changes' \in Nat
  <2>1. ASSUME NEW u \in Ids, Change(u) PROVE matching' \in SUBSET Ids /\ changes' \in Nat
    <3>1. matching' \in SUBSET Ids
      BY <2>1 DEF Change
    <3>2. changes' \in Nat
      BY <2>1 DEF Change
    <3> QED BY <3>1, <3>2
  <2>2. CASE UNCHANGED <<matching, changes>>
    BY <2>2
  <2>3. UNCHANGED <<matching, changes>> \/ \E u \in Ids : Change(u)
    BY DEF Next, Advance, Start, List, Hit, Miss, Load, Fill, Fails, Stop, Dies, Tick, vars
  <2> QED BY <2>1, <2>2, <2>3
<1> QED BY <1>6, <1>7, <1>8

LEMMA TypeStep == ConstantsFit /\ IInv /\ [Next]_vars => TypeFits'
<1> SUFFICES ASSUME ConstantsFit, IInv, [Next]_vars PROVE TypeFits'
  OBVIOUS
<1>1. \A r \in Requests : Moves(r)
  BY WalksMove
<1>2. \A r \in Requests : /\ walk'[r] \in Walks \cup {None}
                          /\ walk'[r] # None => (walk'[r].page # None <=> walk'[r].at = "fill")
  BY <1>1, WalkTypes
<1> QED BY <1>2, TablesStep DEF TypeFits

\* Who was there all along grows only for a walk that begins.
LEMMA ThereShrinks ==
    ASSUME ConstantsFit, IInv, [HNext]_hvars
    PROVE  /\ \A x \in Requests \cup {None} : there'[x] \in SUBSET matching'
           /\ there'[None] \in SUBSET there[None]
           /\ \A r \in Requests : walk[r] # None /\ walk'[r] # None => there'[r] \in SUBSET there[r]
           /\ \A r \in Requests : walk'[r] = None => there'[r] \in SUBSET there'[None]
           /\ \A r \in Requests : walk[r] = None /\ ~ AsksTable(r)' => there'[r] \in SUBSET there'[None]
           /\ \A r \in Requests : ~ AsksTable(r) /\ walk[r] # None /\ walk'[r] # None
                 => there'[r] \in SUBSET there'[None]
<1>1. CASE HNext
  <2>1. None \notin Requests
    BY DEF ConstantsFit
  <2>2. there'[None] = matching' \cap there[None]
    BY <1>1 DEF HNext
  <2>3. ASSUME NEW r \in Requests
        PROVE  there'[r] = matching' \cap (IF walk'[r] = None THEN there[None]
                                           ELSE IF walk[r] = None /\ AsksTable(r)' THEN matching
                                           ELSE there[r])
    BY <1>1, <2>1 DEF HNext
  <2>4. \A r \in Requests : ~ AsksTable(r) => there[r] \in SUBSET there[None]
    BY DEF IInv, ThereFits
  <2>5. \A r \in Requests : walk[r] = None => ~ AsksTable(r)
    BY DEF AsksTable
  <2> QED BY <2>2, <2>3, <2>4, <2>5
<1>2. CASE UNCHANGED hvars
  BY <1>2 DEF hvars, vars, IInv, ThereFits, AsksTable
<1> QED BY <1>1, <1>2

LEMMA ThereStep == ConstantsFit /\ IInv /\ [HNext]_hvars => ThereFits'
<1> SUFFICES ASSUME ConstantsFit, IInv, [HNext]_hvars PROVE ThereFits'
  OBVIOUS
<1>1. \A r \in Requests : Moves(r)
  BY WalksMove DEF HNext, hvars
<1>2. ASSUME NEW r \in Requests, walk[r] # None, walk'[r] # None PROVE walk'[r].kind = walk[r].kind
  <2>1. walk[r] \in Walks
    BY <1>2 DEF IInv, TypeFits
  <2> QED BY <1>1, <1>2, <2>1
          DEF Moves, Stays, Ends, Begins, Shows, GoesTo, ShownAfter, Walks
<1>3. ASSUME NEW r \in Requests, ~ AsksTable(r)' PROVE there'[r] \in SUBSET there'[None]
  BY <1>2, <1>3, ThereShrinks DEF AsksTable
<1>4. ASSUME NEW r \in Requests, (At(r, "load") \/ At(r, "fill"))' PROVE walk'[r].kind = "search"
  <2>1. walk'[r] # None /\ walk'[r].at \in {"load", "fill"}
    BY <1>4 DEF At
  <2>2. ~ Ends(r) /\ ~ Begins(r)
    <3>1. \A kind, t, limit : Begun(kind, t, limit).at = "ask"
      BY DEF Begun
    <3> QED BY <2>1, <3>1 DEF Ends, Begins
  <2>3. CASE Stays(r)
    BY <2>1, <2>3 DEF Stays, At, IInv, ThereFits
  <2>4. CASE ~ Stays(r)
    <3>1. walk[r] \in Walks /\ walk[r] # None
      BY <1>1, <2>2, <2>4 DEF Moves, Shows, GoesTo, Asks, At, IInv, TypeFits
    <3>2. ~ Shows(r) /\ ~ GoesTo(r, "ask", None)
      BY <2>1, <3>1 DEF Shows, GoesTo, ShownAfter, Walks
    <3> QED BY <1>1, <1>2, <2>1, <2>2, <2>4, <3>1, <3>2 DEF Moves
  <2> QED BY <2>3, <2>4
<1> QED BY <1>3, <1>4, ThereShrinks DEF ThereFits

LEMMA PageStep ==
    ASSUME ConstantsFit, IInv, [HNext]_hvars, NEW k \in Keys
    PROVE  PageFits(k)'
<1>1. there'[None] \in SUBSET there[None]
  BY ThereShrinks
<1>2. PageFits(k)
  BY DEF IInv
<1>3. CASE pages'[k] # None => pages[k] # None /\ pages'[k].page = pages[k].page
  BY <1>1, <1>2, <1>3, OnwardsOfFewer DEF PageFits
<1>4. ASSUME NEW r \in Requests, Fill(r), UNCHANGED there \/ there'[None] \in SUBSET there[None]
      PROVE  PageFits(k)'
  <2>1. Onwards(walk[r].page, walk[r].token, there[None]) /\ KeyOf(r)[1] = walk[r].token
    BY <1>4 DEF Fill, IInv, SearchFits, KeyOf
  <2>2. CASE pages' = [pages EXCEPT ![KeyOf(r)] = [page |-> walk[r].page, ttl |-> Life]]
    <3>1. CASE k = KeyOf(r)
      <4>1. pages'[k].page = walk[r].page
        BY <2>2, <3>1 DEF IInv, TypeFits
      <4> QED BY <1>1, <2>1, <3>1, <4>1, OnwardsOfFewer DEF PageFits
    <3>2. CASE k # KeyOf(r)
      BY <1>3, <2>2, <3>2 DEF IInv, TypeFits
    <3> QED BY <3>1, <3>2
  <2>3. CASE UNCHANGED pages
    BY <1>3, <2>3
  <2> QED BY <1>4, <2>2, <2>3 DEF Fill
<1>5. CASE Tick
  <2>1. pages'[k] = IF pages[k] = None \/ pages[k].ttl = 1 THEN None
                    ELSE [pages[k] EXCEPT !.ttl = @ - 1]
    BY <1>5 DEF Tick
  <2>2. pages[k] # None => pages[k] \in Entries
    BY DEF IInv, TypeFits
  <2>3. pages[k] # None => [pages[k] EXCEPT !.ttl = @ - 1].page = pages[k].page
    BY <2>2 DEF Entries
  <2> QED BY <1>3, <2>1, <2>3
<1>6. (\E r \in Requests : Fill(r)) \/ Tick \/ UNCHANGED pages
  BY DEF HNext, hvars, vars, Next, Advance, Start, List, Hit, Miss, Load, Fails, Stop, Dies, Change
<1> QED BY <1>1, <1>3, <1>4, <1>5, <1>6

LEMMA SearchStep ==
    ASSUME ConstantsFit, IInv, [HNext]_hvars, NEW r \in Requests
    PROVE  SearchFits(r)'
<1>1. there'[None] \in SUBSET there[None] /\ there[None] \in SUBSET matching
  BY ThereShrinks DEF IInv, ThereFits
<1>2. Moves(r)
  BY WalksMove DEF HNext, hvars
<1> SUFFICES ASSUME walk'[r] # None, walk'[r].at = "fill"
             PROVE  Onwards(walk'[r].page, walk'[r].token, there'[None])
  BY DEF SearchFits, At
<1>3. CASE Stays(r)
  <2>1. Onwards(walk[r].page, walk[r].token, there[None])
    BY <1>3 DEF Stays, IInv, SearchFits, At
  <2> QED BY <1>1, <1>3, <2>1, OnwardsOfFewer DEF Stays
<1>4. ASSUME NEW p, GoesTo(r, "fill", p), Onwards(p, walk[r].token, matching)
      PROVE  Onwards(walk'[r].page, walk'[r].token, there'[None])
  <2>1. walk[r] \in Walks
    BY <1>4 DEF GoesTo, Asks, At, IInv, TypeFits
  <2>2. walk'[r].page = p /\ walk'[r].token = walk[r].token
    BY <1>4, <2>1 DEF GoesTo, Walks
  <2>3. there'[None] \in SUBSET matching
    BY <1>1
  <2> QED BY <1>4, <2>2, <2>3, OnwardsOfFewer
<1>5. ~ Ends(r) /\ ~ Begins(r)
  <2>1. \A kind, t, limit : Begun(kind, t, limit).at = "ask"
    BY DEF Begun
  <2> QED BY <2>1 DEF Ends, Begins
<1>6. ~ Shows(r) /\ ~ GoesTo(r, "ask", None) /\ ~ GoesTo(r, "load", None)
  <2>1. Asks(r) => walk[r] \in Walks
    BY DEF Asks, At, IInv, TypeFits
  <2> QED BY <2>1 DEF Shows, GoesTo, ShownAfter, Walks
<1> QED BY <1>2, <1>3, <1>4, <1>5, <1>6 DEF Moves

LEMMA WalkStep ==
    ASSUME ConstantsFit, IInv, [HNext]_hvars, NEW r \in Requests, walk'[r] # None
    PROVE  WalkFits(walk'[r], there'[r])
<1>1. Moves(r) /\ Number \in Nat
  BY WalksMove DEF HNext, hvars, ConstantsFit
<1>2. there'[r] \in SUBSET Ids
  BY ThereShrinks, TablesStep DEF HNext, hvars
<1>3. walk[r] # None => walk[r] \in Walks /\ WalkFits(walk[r], there[r]) /\ there'[r] \in SUBSET there[r]
  BY ThereShrinks DEF IInv, TypeFits
<1>4. CASE Stays(r)
  <2>1. WalkFits(walk[r], there'[r])
    BY <1>3, <1>4, FitsFewer DEF Stays
  <2> QED BY <1>4, <2>1 DEF Stays
<1>5. CASE Begins(r)
  <2>1. PICK kind \in Kinds, t \in Tokens, limit \in Limits :
            (kind = "backwards" <=> t # 0) /\ walk'[r] = Begun(kind, t, limit)
    BY <1>5 DEF Begins
  <2>2. WalkFits(Begun(kind, t, limit), there'[r])
    BY <1>1, <1>2, <2>1, BegunFits
  <2> QED BY <2>1, <2>2
<1>6. CASE Shows(r)
  <2>1. walk[r] # None /\ walk[r].at # "done"
    BY <1>6 DEF Shows, Asks, At
  <2>2. PICK p : Answers(p, walk[r], there[r]) /\ walk'[r] = ShownAfter(walk[r], p)
    BY <1>6 DEF Shows
  <2>3. there[r] \in SUBSET Ids
    BY DEF IInv, TypeFits, ThereFits
  <2>4. WalkFits(ShownAfter(walk[r], p), there[r])
    BY <1>1, <1>3, <2>1, <2>2, <2>3, ShownFits
  <2>5. WalkFits(ShownAfter(walk[r], p), there'[r])
    BY <1>3, <2>1, <2>4, FitsFewer
  <2> QED BY <2>2, <2>5
<1>7. ASSUME NEW at \in {"ask", "load", "fill"}, NEW p, GoesTo(r, at, p)
      PROVE  WalkFits(walk'[r], there'[r])
  <2>1. walk[r] # None /\ walk[r].at # "done"
    BY <1>7 DEF GoesTo, Asks, At
  <2>2. WalkFits(walk[r], there'[r]) /\ walk[r] \in Walks
    BY <1>3, <2>1, FitsFewer
  <2>3. /\ walk'[r].at = at /\ walk'[r].kind = walk[r].kind /\ walk'[r].from = walk[r].from
        /\ walk'[r].token = walk[r].token /\ walk'[r].shown = walk[r].shown
    BY <1>7, <2>2 DEF GoesTo, Walks
  <2> QED BY <2>1, <2>2, <2>3 DEF WalkFits
<1> QED BY <1>1, <1>4, <1>5, <1>6, <1>7 DEF Moves, Ends

LEMMA IInvInit == ConstantsFit /\ HInit => IInv
<1> SUFFICES ASSUME ConstantsFit, HInit PROVE IInv
  OBVIOUS
<1>1. TypeFits
  BY DEF HInit, Init, TypeFits
<1>2. ThereFits
  BY DEF HInit, Init, ThereFits, At
<1>3. \A k \in Keys : PageFits(k)
  BY DEF HInit, Init, PageFits
<1>4. \A r \in Requests : SearchFits(r) /\ walk[r] = None
  BY DEF HInit, Init, SearchFits, At
<1> QED BY <1>1, <1>2, <1>3, <1>4 DEF IInv

LEMMA IInvStep == ConstantsFit /\ IInv /\ [HNext]_hvars => IInv'
<1> SUFFICES ASSUME ConstantsFit, IInv, [HNext]_hvars PROVE IInv'
  OBVIOUS
<1>1. TypeFits'
  BY TypeStep DEF HNext, hvars
<1>2. \A k \in Keys : PageFits(k)'
  BY PageStep
<1>3. \A r \in Requests : SearchFits(r)' /\ (walk'[r] # None => WalkFits(walk'[r], there'[r]))
  BY SearchStep, WalkStep
<1> QED BY <1>1, <1>2, <1>3, ThereStep DEF IInv, Keys

LEMMA Invariance == ASSUME ConstantsFit PROVE HSpec => []IInv
<1>1. HInit => IInv
  BY IInvInit
<1>2. IInv /\ [HNext]_hvars => IInv'
  BY IInvStep
<1> QED BY <1>1, <1>2, PTL DEF HSpec

-----------------------------------------------------------------------------
(* Theorems *)

\* Ids, tokens, pages and their ages stay what they are meant to be, and only
\* a search that is filling the cache holds a page.
THEOREM TypeCorrect == ASSUME ConstantsFit PROVE HSpec => []TypeOK
<1>1. IInv => TypeOK
  BY DEF IInv, TypeFits, TypeOK
<1> QED BY <1>1, Invariance, PTL

\* However many users and pages of whatever length there are, who walks through
\* GetAllUsers or SearchUsers sees everybody who was there all along, once and
\* in order: what the cache kept, what failed and who came and went in between
\* costs him nobody.
THEOREM WalksAreComplete == ASSUME ConstantsFit PROVE HSpec => []WalksShowEverybody
<1>1. IInv => WalksShowEverybody
  <2> SUFFICES ASSUME IInv, NEW r \in Requests, walk[r] # None
               PROVE  LET w == walk[r]
                          due == {u \in there[r] : IF w.kind = "backwards" THEN u < w.from ELSE u > w.from}
                      IN /\ \A i, j \in DOMAIN w.shown : i < j => w.shown[i] < w.shown[j]
                         /\ w.at = "done" => due \subseteq ToSet(w.shown)
    BY DEF WalksShowEverybody
  <2>1. WalkFits(walk[r], there[r])
    BY DEF IInv
  <2> QED BY <2>1 DEF WalkFits, Sorted
<1> QED BY <1>1, Invariance, PTL

-----------------------------------------------------------------------------
(* A cache that only heals: what ListsSettle rests on besides fairness *)

Right(k, page) == ~ Panics(k[1], k[2]) /\ page = SearchPage(k[1], k[2])
PageRight(k)   == pages[k] # None => Right(k, pages[k].page)

\* No search brings a page to key k that the table would not answer now.
FillsRight(k) == \A r \in Requests : At(r, "fill") /\ KeyOf(r) = k => Right(k, walk[r].page)

\* What was right under k still is; what was wrong is as it was, or one unit of
\* time closer to its end.
Heals(k) == \/ PageRight(k)'
            \/ /\ ~ PageRight(k)
               /\ pages'[k] = pages[k] \/ pages'[k] = [pages[k] EXCEPT !.ttl = @ - 1]

LEMMA SameRight == matching' = matching => \A k, page : Right(k, page)' <=> Right(k, page)
BY DEF Right, Panics, SearchPage, Rows

\* A search that is about to fill the cache was so before, or has loaded.
LEMMA Fillers ==
    ASSUME ConstantsFit, TypeFits, Next, NEW r \in Requests, At(r, "fill")'
    PROVE  walk'[r] = walk[r] \/ Load(r)
<1>1. ASSUME NEW s \in Requests, Load(s) PROVE walk'[r] = walk[r] \/ Load(r)
  <2>1. s # r => walk'[r] = walk[r]
    BY <1>1 DEF Load, TypeFits
  <2> QED BY <1>1, <2>1
<1>2. ASSUME NEW s \in Requests, NEW v, walk' = [walk EXCEPT ![s] = v], v = None \/ v.at # "fill"
      PROVE  walk'[r] = walk[r]
  BY <1>2 DEF At, TypeFits
<1>3. ASSUME NEW s \in Requests, NEW kind, NEW t, NEW limit, Start(s, kind, t, limit)
      PROVE  walk'[r] = walk[r]
  BY <1>2, <1>3 DEF Start
<1>4. ASSUME NEW s \in Requests, walk[s] # None, NEW p, Show(s, p) PROVE walk'[r] = walk[r]
  <2>1. walk[s] \in Walks
    BY <1>4 DEF TypeFits
  <2>2. walk' = [walk EXCEPT ![s] = ShownAfter(walk[s], p)]
    BY <1>4 DEF Show, ShownAfter
  <2>3. ShownAfter(walk[s], p).at # "fill"
    BY <2>1 DEF ShownAfter, Walks
  <2> HIDE DEF ShownAfter
  <2> QED BY <1>2, <2>2, <2>3
<1>5. ASSUME NEW s \in Requests, List(s) \/ Hit(s) \/ Fill(s) PROVE walk'[r] = walk[r]
  BY <1>4, <1>5 DEF List, Hit, Fill, At
<1>6. ASSUME NEW s \in Requests, Miss(s) PROVE walk'[r] = walk[r]
  <2>1. walk[s] \in Walks /\ walk' = [walk EXCEPT ![s] = [walk[s] EXCEPT !.at = "load"]]
    BY <1>6 DEF Miss, At, TypeFits
  <2>2. [walk[s] EXCEPT !.at = "load"].at # "fill"
    BY <2>1 DEF Walks
  <2> QED BY <1>2, <2>1, <2>2
<1>7. ASSUME NEW s \in Requests, Stop(s) PROVE walk'[r] = walk[r]
  BY <1>2, <1>7 DEF Stop
<1>8. ASSUME NEW R, CutOff(R) PROVE walk'[r] = walk[r]
  <2>1. walk[r] # None => walk[r] \in Walks
    BY DEF TypeFits
  <2> QED BY <1>8, <2>1 DEF CutOff, At, Walks
<1>9. CASE Tick \/ \E u \in Ids : Change(u)
  BY <1>9 DEF Tick, Change
<1> QED BY <1>1, <1>3, <1>5, <1>6, <1>7, <1>8, <1>9 DEF Next, Advance, Fails, Dies

LEMMA FillsStayRight ==
    ASSUME ConstantsFit, TypeFits, Next, matching' = matching, NEW k \in Keys, FillsRight(k)
    PROVE  FillsRight(k)'
<1> SUFFICES ASSUME NEW r \in Requests, At(r, "fill")', KeyOf(r)' = k
             PROVE  Right(k, walk'[r].page)
  BY SameRight DEF FillsRight
<1>1. CASE walk'[r] = walk[r]
  BY <1>1 DEF FillsRight, At, KeyOf
<1>2. CASE Load(r)
  <2>1. walk[r] \in Walks
    BY <1>2 DEF Load, At, TypeFits
  <2>2. /\ walk'[r].page = SearchPage(walk[r].token, walk[r].limit)
        /\ walk'[r].token = walk[r].token /\ walk'[r].limit = walk[r].limit
    BY <1>2, <2>1 DEF Load, TypeFits, Walks
  <2>3. k[1] = walk[r].token /\ k[2] = walk[r].limit
    BY <2>2 DEF KeyOf
  <2> QED BY <1>2, <2>2, <2>3 DEF Load, Right
<1> QED BY <1>1, <1>2, Fillers

LEMMA PagesHeal ==
    ASSUME ConstantsFit, TypeFits, Next, matching' = matching, NEW k \in Keys, FillsRight(k)
    PROVE  Heals(k)
<1>1. ASSUME pages'[k] = pages[k] PROVE Heals(k)
  BY <1>1, SameRight DEF Heals, PageRight
<1>2. ASSUME NEW r \in Requests, Fill(r) PROVE Heals(k)
  <2>1. CASE pages' = [pages EXCEPT ![KeyOf(r)] = [page |-> walk[r].page, ttl |-> Life]]
    <3>1. CASE KeyOf(r) = k
      <4>1. PICK page : page = walk[r].page
        OBVIOUS
      <4>2. pages'[k].page = page
        BY <2>1, <3>1, <4>1 DEF TypeFits
      <4>3. Right(k, page)'
        BY <1>2, <3>1, <4>1, SameRight DEF Fill, FillsRight
      <4> QED BY <4>2, <4>3 DEF Heals, PageRight
    <3>2. CASE KeyOf(r) # k
      BY <1>1, <2>1, <3>2 DEF TypeFits
    <3> QED BY <3>1, <3>2
  <2> QED BY <1>1, <1>2, <2>1 DEF Fill
<1>3. CASE Tick
  <2>1. \/ pages'[k] = None
        \/ pages'[k] = [pages[k] EXCEPT !.ttl = @ - 1] /\ pages[k] \in Entries /\ pages[k] # None
    BY <1>3 DEF Tick, TypeFits
  <2>2. pages'[k] = None => Heals(k)
    BY DEF Heals, PageRight
  <2>3. ASSUME pages'[k] = [pages[k] EXCEPT !.ttl = @ - 1], pages[k] \in Entries, pages[k] # None
        PROVE  Heals(k)
    <3>1. pages'[k].page = pages[k].page
      BY <2>3 DEF Entries
    <3> QED BY <2>3, <3>1, SameRight DEF Heals, PageRight
  <2> QED BY <2>1, <2>2, <2>3
<1>4. ASSUME pages' = pages PROVE Heals(k)
  BY <1>1, <1>4
<1> QED BY <1>2, <1>3, <1>4
    DEF Next, Advance, Start, List, Hit, Miss, Load, Fails, Stop, Dies, Change

\* While who matches stays the same, a page of SearchUsers that is right is never
\* replaced by a wrong one, unless a search that loaded earlier is on its way to
\* it, and a wrong one is never given new life: though nobody ever deletes a
\* page, two minutes later the wrong ones are gone.
THEOREM PagesOnlyHeal ==
    ASSUME ConstantsFit
    PROVE  HSpec => [][matching' = matching =>
                         \A k \in Keys : FillsRight(k) => FillsRight(k)' /\ Heals(k)]_vars
<1>1. IInv /\ [HNext]_hvars =>
        [matching' = matching => \A k \in Keys : FillsRight(k) => FillsRight(k)' /\ Heals(k)]_vars
  BY FillsStayRight, PagesHeal DEF IInv, HNext, hvars
<1> QED BY <1>1, Invariance, PTL DEF HSpec
=============================================================================
