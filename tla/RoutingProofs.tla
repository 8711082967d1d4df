---------------------------- MODULE RoutingProofs ----------------------------
(***************************************************************************)
(* What the router decides, for every input that its schema accepts; that  *)
(* every state of the fallback state machine passes its schema; and that   *)
(* the service, which asks the router and allocates, keeps the row true to *)
(* the attempt and implements the machine.                                 *)
(***************************************************************************)
EXTENDS Allocation, Routing, FiniteSetTheorems, TLAPS

-----------------------------------------------------------------------------
(* Sequences                                                                 *)

\* R is a strict total order of the elements of S.
Orders(R, S) ==
  /\ \A x \in S : <<x, x>> \notin R
  /\ \A x, y, z \in S : <<x, y>> \in R /\ <<y, z>> \in R => <<x, z>> \in R
  /\ \A x, y \in S : x = y \/ <<x, y>> \in R \/ <<y, x>> \in R

\* Sequence q lists the elements of S, each once, in the order R.
Lists(q, S, R) ==
  /\ q \in [1..Cardinality(S) -> S]
  /\ Cardinality(S) \in Nat
  /\ \A x \in S : \E k \in 1..Cardinality(S) : q[k] = x
  /\ \A i, j \in 1..Cardinality(S) : q[i] = q[j] => i = j
  /\ \A i, j \in 1..Cardinality(S) : i < j => <<q[i], q[j]>> \in R

\* Of two elements, the later one has more elements before it.
LEMMA MoreBefore ==
  ASSUME NEW S, IsFiniteSet(S), NEW R, Orders(R, S), NEW x \in S, NEW y \in S, <<x, y>> \in R
  PROVE  /\ Cardinality(Before(S, R, x)) \in Nat
         /\ Cardinality(Before(S, R, y)) \in Nat
         /\ Cardinality(Before(S, R, x)) < Cardinality(Before(S, R, y))
<1> DEFINE A == Before(S, R, x)
           B == Before(S, R, y)
<1>1. A \in SUBSET B /\ B \in SUBSET S
  BY Zenon DEF Before, Orders
<1>2. x \in B /\ x \notin A
  BY Zenon DEF Before, Orders
<1>3. IsFiniteSet(B) /\ IsFiniteSet(A)
  BY Zenon, <1>1, FS_Subset
<1>4. Cardinality(A) \in Nat /\ Cardinality(B) \in Nat
  BY Zenon, <1>3, FS_CardinalityType
<1>5. Cardinality(A) <= Cardinality(B) /\ Cardinality(A) # Cardinality(B)
  BY Zenon, <1>1, <1>2, <1>3, FS_Subset
<1> HIDE DEF A, B
<1>6. Cardinality(A) < Cardinality(B)
  BY <1>4, <1>5
<1> QED
  BY Zenon, <1>4, <1>6 DEF A, B

\* The positions InOrder gives are taken, each by one element, in the order R.
LEMMA InOrderLists ==
  ASSUME NEW S, IsFiniteSet(S), NEW R, Orders(R, S)
  PROVE  Lists(InOrder(S, R), S, R)
<1> DEFINE n == Cardinality(S)
           f == [x \in S |-> Cardinality(Before(S, R, x))]
           q == InOrder(S, R)
<1>1. n \in Nat
  BY Zenon, FS_CardinalityType
<1>2. ASSUME NEW x \in S
      PROVE  f[x] \in 0..(n - 1)
  <2>1. Before(S, R, x) \in SUBSET S /\ x \notin Before(S, R, x)
    BY Zenon DEF Before, Orders
  <2>2. /\ Cardinality(Before(S, R, x)) \in Nat
        /\ Cardinality(Before(S, R, x)) <= n /\ Cardinality(Before(S, R, x)) # n
    BY Zenon, <2>1, FS_Subset, FS_CardinalityType
  <2> HIDE DEF n
  <2>3. Cardinality(Before(S, R, x)) \in 0..(n - 1)
    BY <1>1, <2>2
  <2> QED
    BY Zenon, <2>3
<1>3. ASSUME NEW x \in S, NEW y \in S, <<x, y>> \in R
      PROVE  f[x] < f[y]
  BY Zenon, <1>3, MoreBefore
<1> HIDE DEF n, f
<1>4. f \in [S -> 0..(n - 1)]
  BY Zenon, <1>2 DEF f
<1>5. ASSUME NEW x \in S, NEW y \in S, f[x] = f[y]
      PROVE  x = y
  <2>1. f[x] \in Nat /\ f[y] \in Nat /\ ~ f[x] < f[y] /\ ~ f[y] < f[x]
    BY <1>1, <1>2, <1>5
  <2> QED
    BY Zenon, <1>3, <2>1 DEF Orders
<1>6. f \in Surjection(S, 0..(n - 1))
  <2>1. f \in Injection(S, 0..(n - 1))
    BY Zenon, <1>4, <1>5 DEF Injection, IsInjective
  <2>2. IsFiniteSet(0..(n - 1)) /\ Cardinality(0..(n - 1)) = n
    <3>1. 0 \in Int /\ n - 1 \in Int
      BY <1>1
    <3>2. IsFiniteSet(0..(n - 1)) /\ Cardinality(0..(n - 1)) = IF 0 > n - 1 THEN 0 ELSE n - 1 - 0 + 1
      BY Zenon, <3>1, FS_Interval
    <3> QED
      BY <1>1, <3>2
  <2>3. Cardinality(S) = Cardinality(0..(n - 1))
    BY Zenon, <2>2 DEF n
  <2> QED
    BY Zenon, <2>1, <2>2, <2>3, FS_Injection
<1>7. ASSUME NEW k \in 1..n
      PROVE  q[k] \in S /\ f[q[k]] = k - 1
  <2>1. k - 1 \in 0..(n - 1)
    BY <1>1
  <2>2. \E x \in S : f[x] = k - 1
    BY Zenon, <1>6, <2>1 DEF Surjection
  <2>3. \E x \in S : Cardinality(Before(S, R, x)) = k - 1
    BY Zenon, <2>2 DEF f
  <2>4. q[k] = CHOOSE x \in S : Cardinality(Before(S, R, x)) = k - 1
    BY Zenon DEF InOrder, n
  <2>5. q[k] \in S /\ Cardinality(Before(S, R, q[k])) = k - 1
    BY Zenon, <2>3, <2>4
  <2> QED
    BY Zenon, <2>5 DEF f
<1>8. q = [k \in 1..n |-> q[k]]
  BY DEF InOrder, n
<1> HIDE DEF q
<1>9. q \in [1..n -> S]
  BY Zenon, <1>7, <1>8
<1>10. ASSUME NEW x \in S
       PROVE  \E k \in 1..n : q[k] = x
  <2>1. f[x] \in Int /\ f[x] + 1 \in 1..n
    BY <1>1, <1>2
  <2>2. PICK k \in 1..n : k = f[x] + 1
    BY Zenon, <2>1
  <2>3. q[k] \in S /\ f[q[k]] = k - 1
    BY Zenon, <1>7
  <2>4. k - 1 = f[x]
    BY <2>1, <2>2
  <2> QED
    BY Zenon, <1>5, <2>3, <2>4
<1>11. ASSUME NEW i \in 1..n, NEW j \in 1..n, q[i] = q[j]
       PROVE  i = j
  <2>1. i - 1 = j - 1
    BY Zenon, <1>7, <1>11
  <2> QED
    BY <1>1, <2>1
<1>12. ASSUME NEW i \in 1..n, NEW j \in 1..n, i < j
       PROVE  <<q[i], q[j]>> \in R
  <2>1. /\ q[i] \in S /\ q[j] \in S /\ f[q[i]] = i - 1 /\ f[q[j]] = j - 1
    BY Zenon, <1>7
  <2>2. q[i] # q[j] /\ ~ f[q[j]] < f[q[i]]
    BY <1>1, <1>12, <2>1
  <2> QED
    BY Zenon, <1>3, <2>1, <2>2 DEF Orders
<1> QED
  BY Zenon, <1>1, <1>9, <1>10, <1>11, <1>12 DEF Lists, n, q

\* A function on 1..n is a sequence of length n.
LEMMA FunctionSeq ==
  ASSUME NEW n \in Nat, NEW S, NEW q \in [1..n -> S]
  PROVE  q \in Seq(S) /\ Len(q) = n
<1>1. q \in Seq(S)
  OBVIOUS
<1>2. Len(q) \in Nat /\ 1..Len(q) = 1..n
  BY <1>1
<1>3. Len(q) = n
  BY <1>2
<1> QED
  BY Zenon, <1>1, <1>3

\* Sets of positions of a sequence of length m.
Positions(m) == SUBSET (1..m)

\* Sequence t has the elements of s at the positions in I, each once.
Keeps(t, s, I) ==
  /\ IsFiniteSet(I) /\ Cardinality(I) \in Nat
  /\ t \in [1..Cardinality(I) -> {s[i] : i \in I}]
  /\ \A i \in I : \E k \in 1..Cardinality(I) : t[k] = s[i]
  /\ (\A i, j \in I : s[i] = s[j] => i = j) =>
       \A k, l \in 1..Cardinality(I) : t[k] = t[l] => k = l

\* The kept positions of a sequence, in their order.
LEMMA KeptIs ==
  ASSUME NEW m \in Nat, NEW s, NEW I \in Positions(m)
  PROVE  Keeps(Kept(s, I), s, I)
<1> DEFINE n == Cardinality(I)
           t == Kept(s, I)
           R == {p \in I \X I : p[1] < p[2]}
           at == InOrder(I, R)
<1>1. IsFiniteSet(I)
  <2>1. m \in Int /\ 1 \in Int
    OBVIOUS
  <2>2. IsFiniteSet(1..m)
    BY Zenon, <2>1, FS_Interval
  <2> QED
    BY Zenon, <2>2, FS_Subset DEF Positions
<1>2. Orders(R, I)
  <2>1. \A x, y \in I : <<x, y>> \in R <=> x < y
    OBVIOUS
  <2>2. \A x \in I : x \in Nat
    BY DEF Positions
  <2> HIDE DEF R
  <2>3. /\ \A x \in I : ~ x < x
        /\ \A x, y, z \in I : x < y /\ y < z => x < z
        /\ \A x, y \in I : x = y \/ x < y \/ y < x
    BY <2>2
  <2> QED
    BY Zenon, <2>1, <2>3 DEF Orders
<1>3. Lists(at, I, R)
  BY Zenon, <1>1, <1>2, InOrderLists
<1>4. t = [k \in DOMAIN at |-> s[at[k]]]
  BY Zenon DEF Kept
<1> HIDE DEF R, at, t, n
<1>5. /\ n \in Nat /\ at \in [1..n -> I]
      /\ \A i \in I : \E k \in 1..n : at[k] = i
      /\ \A k, l \in 1..n : at[k] = at[l] => k = l
  BY Zenon, <1>3 DEF Lists, n
<1>6. t = [k \in 1..n |-> s[at[k]]] /\ \A k \in 1..n : at[k] \in I
  <2>1. DOMAIN at = 1..n /\ \A k \in 1..n : at[k] \in I
    BY Zenon, <1>5
  <2> QED
    BY Zenon, <1>4, <2>1
<1>7. t \in [1..n -> {s[i] : i \in I}] /\ \A k \in 1..n : t[k] = s[at[k]]
  BY Zenon, <1>6
<1>8. ASSUME NEW i \in I
      PROVE  \E k \in 1..n : t[k] = s[i]
  <2>1. PICK k \in 1..n : at[k] = i
    BY Zenon, <1>5
  <2>2. t[k] = s[i]
    BY Zenon, <1>7, <2>1
  <2> QED
    BY Zenon, <2>2
<1>9. ASSUME \A i, j \in I : s[i] = s[j] => i = j
      PROVE  \A k, l \in 1..n : t[k] = t[l] => k = l
  BY Zenon, <1>5, <1>6, <1>7, <1>9
<1> QED
  BY Zenon, <1>1, <1>5, <1>7, <1>8, <1>9 DEF Keeps, t, n

-----------------------------------------------------------------------------
(* Identities                                                                *)

\* The components of an identity.
LEMMA IDParts ==
  ASSUME NEW s \in Sources
  PROVE  LET a == CandidateID(s)
         IN  /\ a[1] = s.provider /\ a[2] = RuntimeRank(s.runtime)
             /\ s.provider \in Nat /\ RuntimeRank(s.runtime) \in Nat /\ s.region \in Nat
             /\ a[3] = IF s.region = 0 THEN <<0>> ELSE <<1, s.region>>
             /\ s.region = 0 => a[3][1] = 0
             /\ s.region # 0 => a[3][1] = 1 /\ a[3][2] = s.region
<1>1. s.provider \in Nat /\ s.region \in Nat
  BY Zenon DEF Sources
<1>2. RuntimeRank(s.runtime) \in Nat
  BY DEF RuntimeRank
<1> QED
  BY <1>1, <1>2 DEF CandidateID

\* The comparison of identities, component by component.
LEMMA IDBeforeIs ==
  ASSUME NEW s \in Sources, NEW t \in Sources
  PROVE  IDBefore(CandidateID(s), CandidateID(t)) <=>
           \/ s.provider < t.provider
           \/ s.provider = t.provider /\ RuntimeRank(s.runtime) < RuntimeRank(t.runtime)
           \/ /\ s.provider = t.provider /\ RuntimeRank(s.runtime) = RuntimeRank(t.runtime)
              /\ s.region < t.region
<1> DEFINE a == CandidateID(s)
           b == CandidateID(t)
<1>1. (a[3][1] < b[3][1] \/ (a[3][1] = 1 /\ b[3][1] = 1 /\ a[3][2] < b[3][2]))
         <=> s.region < t.region
  BY IDParts DEF CandidateID
<1>2. a[1] = s.provider /\ b[1] = t.provider
      /\ a[2] = RuntimeRank(s.runtime) /\ b[2] = RuntimeRank(t.runtime)
  BY Zenon, IDParts
<1> HIDE DEF a, b
<1>3. IDBefore(a, b) <=>
           \/ s.provider < t.provider
           \/ s.provider = t.provider /\ RuntimeRank(s.runtime) < RuntimeRank(t.runtime)
           \/ /\ s.provider = t.provider /\ RuntimeRank(s.runtime) = RuntimeRank(t.runtime)
              /\ s.region < t.region
  BY Zenon, <1>1, <1>2 DEF IDBefore
<1> QED
  BY Zenon, <1>3 DEF a, b

\* Identities are strictly and totally ordered.
LEMMA IDOrder ==
  /\ \A s \in Sources : ~ IDBefore(CandidateID(s), CandidateID(s))
  /\ \A s, t, u \in Sources :
       IDBefore(CandidateID(s), CandidateID(t)) /\ IDBefore(CandidateID(t), CandidateID(u))
         => IDBefore(CandidateID(s), CandidateID(u))
  /\ \A s, t \in Sources :
       \/ CandidateID(s) = CandidateID(t)
       \/ IDBefore(CandidateID(s), CandidateID(t)) \/ IDBefore(CandidateID(t), CandidateID(s))
<1>1. \A s \in Sources : s.provider \in Nat /\ RuntimeRank(s.runtime) \in Nat /\ s.region \in Nat
  BY Zenon, IDParts
<1>2. ASSUME NEW s \in Sources
      PROVE  ~ IDBefore(CandidateID(s), CandidateID(s))
  BY <1>1, IDBeforeIs
<1>3. ASSUME NEW s \in Sources, NEW t \in Sources, NEW u \in Sources,
             IDBefore(CandidateID(s), CandidateID(t)), IDBefore(CandidateID(t), CandidateID(u))
      PROVE  IDBefore(CandidateID(s), CandidateID(u))
  BY <1>1, <1>3, IDBeforeIs
<1>4. ASSUME NEW s \in Sources, NEW t \in Sources,
             ~ IDBefore(CandidateID(s), CandidateID(t)), ~ IDBefore(CandidateID(t), CandidateID(s))
      PROVE  CandidateID(s) = CandidateID(t)
  <2>1. /\ s.provider = t.provider /\ RuntimeRank(s.runtime) = RuntimeRank(t.runtime)
        /\ s.region = t.region
    BY <1>1, <1>4, IDBeforeIs
  <2> QED
    BY Zenon, <2>1 DEF CandidateID
<1> QED
  BY Zenon, <1>2, <1>3, <1>4

-----------------------------------------------------------------------------
(* Candidates                                                                *)

Listing(sources) ==
  /\ sources \in Seq(Sources)
  /\ \A i, j \in DOMAIN sources : CandidateID(sources[i]) = CandidateID(sources[j]) => i = j

CandidateSet(sources) == {ToCandidate(sources[i]) : i \in DOMAIN sources}

CandidateOrder(sources) ==
  {p \in CandidateSet(sources) \X CandidateSet(sources) : IDBefore(p[1].id, p[2].id)}

\* A candidate keeps what its source says.
LEMMA CandidateParts ==
  ASSUME NEW s
  PROVE  LET c == ToCandidate(s)
         IN  /\ c.id = CandidateID(s) /\ c.provider = s.provider /\ c.runtime = s.runtime
             /\ c.configured = (s.configured /\ s.health.configured)
             /\ c.capabilities = s.capabilities /\ c.health = s.health /\ c.safety = s.safety
BY DEF ToCandidate

\* The positions of a listing, and its sources.
LEMMA ListingParts ==
  ASSUME NEW sources, Listing(sources)
  PROVE  /\ Len(sources) \in Nat /\ DOMAIN sources = 1..Len(sources)
         /\ IsFiniteSet(DOMAIN sources)
         /\ \A i \in DOMAIN sources : sources[i] \in Sources
<1>1. Len(sources) \in Nat /\ DOMAIN sources = 1..Len(sources)
  BY DEF Listing
<1>2. \A i \in DOMAIN sources : sources[i] \in Sources
  BY <1>1 DEF Listing
<1>3. 1 \in Int /\ Len(sources) \in Int
  BY <1>1
<1> QED
  BY Zenon, <1>1, <1>2, <1>3, FS_Interval

\* Identities tell candidates apart.
LEMMA IDsDistinguish ==
  ASSUME NEW sources, Listing(sources),
         NEW c \in CandidateSet(sources), NEW d \in CandidateSet(sources), c.id = d.id
  PROVE  c = d
<1>1. PICK i \in DOMAIN sources : c = ToCandidate(sources[i])
  BY Zenon DEF CandidateSet
<1>2. PICK j \in DOMAIN sources : d = ToCandidate(sources[j])
  BY Zenon DEF CandidateSet
<1>3. c.id = CandidateID(sources[i]) /\ d.id = CandidateID(sources[j])
  BY Zenon, <1>1, <1>2, CandidateParts
<1>4. i = j
  BY Zenon, <1>3 DEF Listing
<1> QED
  BY Zenon, <1>1, <1>2, <1>4

\* The order of their identities orders the candidates, of whom there are
\* finitely many.
LEMMA CandidatesOrdered ==
  ASSUME NEW sources, Listing(sources)
  PROVE  /\ IsFiniteSet(CandidateSet(sources))
         /\ Orders(CandidateOrder(sources), CandidateSet(sources))
<1> DEFINE C == CandidateSet(sources)
           R == CandidateOrder(sources)
<1>1. IsFiniteSet(C)
  <2> DEFINE f == [i \in DOMAIN sources |-> ToCandidate(sources[i])]
  <2>1. f \in Surjection(DOMAIN sources, C)
    BY Zenon DEF Surjection, CandidateSet
  <2> QED
    BY Zenon, <2>1, ListingParts, FS_Surjection
<1>2. ASSUME NEW c \in C
      PROVE  \E s \in Sources : c.id = CandidateID(s)
  <2>1. PICK i \in DOMAIN sources : c = ToCandidate(sources[i])
    BY Zenon DEF CandidateSet
  <2> QED
    BY Zenon, <2>1, ListingParts, CandidateParts
<1>3. \A c, d \in C : <<c, d>> \in R <=> IDBefore(c.id, d.id)
  BY DEF CandidateOrder
<1>4. \A c, d \in C : c.id = d.id => c = d
  BY Zenon, IDsDistinguish
<1> HIDE DEF C, R
<1>5. \A c \in C : ~ IDBefore(c.id, c.id)
  BY Zenon, <1>2, IDOrder
<1>6. ASSUME NEW c \in C, NEW d \in C, NEW e \in C, IDBefore(c.id, d.id), IDBefore(d.id, e.id)
      PROVE  IDBefore(c.id, e.id)
  <2>1. PICK s \in Sources : c.id = CandidateID(s)
    BY Zenon, <1>2
  <2>2. PICK t \in Sources : d.id = CandidateID(t)
    BY Zenon, <1>2
  <2>3. PICK u \in Sources : e.id = CandidateID(u)
    BY Zenon, <1>2
  <2> QED
    BY Zenon, <1>6, <2>1, <2>2, <2>3, IDOrder
<1>7. ASSUME NEW c \in C, NEW d \in C
      PROVE  c = d \/ IDBefore(c.id, d.id) \/ IDBefore(d.id, c.id)
  <2>1. PICK s \in Sources : c.id = CandidateID(s)
    BY Zenon, <1>2
  <2>2. PICK t \in Sources : d.id = CandidateID(t)
    BY Zenon, <1>2
  <2> QED
    BY Zenon, <1>4, <2>1, <2>2, IDOrder
<1>8. Orders(R, C)
  BY Zenon, <1>3, <1>5, <1>6, <1>7 DEF Orders
<1> QED
  BY Zenon, <1>1, <1>8 DEF C, R

\* buildRoutingCandidates returns every candidate once, ordered by identity.
LEMMA BuildLists ==
  ASSUME NEW sources, Listing(sources)
  PROVE  Lists(BuildRoutingCandidates(sources), CandidateSet(sources), CandidateOrder(sources))
<1>1. BuildRoutingCandidates(sources) = InOrder(CandidateSet(sources), CandidateOrder(sources))
  BY Zenon DEF BuildRoutingCandidates, CandidateSet, CandidateOrder
<1> QED
  BY Zenon, <1>1, CandidatesOrdered, InOrderLists

-----------------------------------------------------------------------------
(* Scores                                                                    *)

\* A product of naturals grows with each factor.
LEMMA Product ==
  ASSUME NEW a \in Nat, NEW b \in Nat, NEW d \in Nat, a <= b
  PROVE  a * d \in Nat /\ b * d \in Nat /\ a * d <= b * d
OBVIOUS

\* The quotient of two naturals.
LEMMA Quotient ==
  ASSUME NEW a \in Nat, NEW b \in Nat \ {0}
  PROVE  LET q == a \div b IN q \in Nat /\ b * q <= a /\ a < b * q + b
OBVIOUS

\* Rounding stays within a bound that is an integer.
LEMMA RoundBound ==
  ASSUME NEW x \in Nat, NEW d \in Nat \ {0}, NEW m \in Nat, x <= m * d
  PROVE  Round(x, d) \in 0..m
<1> DEFINE q == Round(x, d)
<1>1. q \in Nat /\ (2 * d) * q <= 2 * x + d
  <2>1. 2 * x + d \in Nat /\ 2 * d \in Nat \ {0}
    OBVIOUS
  <2> QED
    BY Zenon, <2>1, Quotient DEF Round
<1> HIDE DEF q
<1>2. ASSUME q > m
      PROVE  FALSE
  <2>1. m + 1 <= q /\ m + 1 \in Nat
    BY <1>1, <1>2
  <2>2. (m + 1) * d <= q * d
    BY Zenon, <1>1, <2>1, Product
  <2>3. (m + 1) * d = m * d + d /\ m * d \in Nat /\ q * d \in Nat /\ (2 * d) * q = 2 * (q * d)
    BY <1>1
  <2> QED
    BY <1>1, <2>2, <2>3
<1>3. q <= m
  BY <1>1, <1>2
<1> QED
  BY <1>1, <1>3 DEF q

\* What a well-formed input and its candidates consist of.
LEMMA InputParts ==
  ASSUME NEW in, WellFormed(in)
  PROVE  /\ Listing(in.sources)
         /\ in.requirements \in [Capability -> RequirementStates]
         /\ in.duration \in Durations /\ in.policy.maximumDuration \in Durations
         /\ in.signals.efficiency \in Signals(in.sources)
         /\ in.signals.compatibility \in Signals(in.sources)
         /\ in.signals.latency \in Signals(in.sources)
<1>1. Listing(in.sources)
  BY Zenon DEF WellFormed, Listing
<1>2. in \in RoutingInputs(in.sources)
  BY Zenon DEF WellFormed
<1>3. /\ in.requirements \in [Capability -> RequirementStates]
      /\ in.duration \in Durations /\ in.policy \in Policies
      /\ in.signals \in [efficiency : Signals(in.sources), compatibility : Signals(in.sources),
                         latency : Signals(in.sources)]
  BY Zenon, <1>2 DEF RoutingInputs
<1>4. in.policy.maximumDuration \in Durations
  BY Zenon, <1>3 DEF Policies
<1> QED
  BY Zenon, <1>1, <1>3, <1>4

\* What a candidate of a list of sources consists of.
LEMMA CandidateTypes ==
  ASSUME NEW sources, Listing(sources), NEW c \in CandidateSet(sources)
  PROVE  /\ c.id \in CandidateIDs(sources)
         /\ c.capabilities \in [Capability -> SupportStates]
         /\ c.safety.maximumDuration \in Durations
         /\ c.safety.status \in {"allowed", "blocked"}
<1>1. PICK i \in DOMAIN sources : c = ToCandidate(sources[i])
  BY Zenon DEF CandidateSet
<1>2. sources[i] \in Sources
  BY Zenon, ListingParts
<1>3. /\ c.id = CandidateID(sources[i]) /\ c.capabilities = sources[i].capabilities
      /\ c.safety = sources[i].safety
  BY Zenon, <1>1, CandidateParts
<1>4. /\ sources[i].capabilities \in [Capability -> SupportStates]
      /\ sources[i].safety \in [status : {"allowed", "blocked"}, maximumDuration : Durations]
  BY Zenon, <1>2 DEF Sources
<1> QED
  BY Zenon, <1>3, <1>4 DEF CandidateIDs

\* A signal, or the default, is a score.
LEMMA SignalScore ==
  ASSUME NEW sources, NEW signals \in Signals(sources), NEW c, c.id \in CandidateIDs(sources),
         NEW default \in 0..100
  PROVE  Signal(signals, c, default) \in 0..100
<1>1. signals[c.id] \in {NoSignal} \cup 0..100
  BY Zenon DEF Signals
<1> QED
  BY Zenon, <1>1 DEF Signal

\* The preferred capabilities, by the kind of support they find, add up.
LEMMA SupportCounts ==
  ASSUME NEW in, NEW c, WellFormed(in), c.capabilities \in [Capability -> SupportStates]
  PROVE  LET n(support) == Cardinality({cap \in Preferred(in) : c.capabilities[cap] = support})
         IN  /\ n("supported") \in Nat /\ n("experimental") \in Nat
             /\ n("unknown") \in Nat /\ n("unsupported") \in Nat
             /\ Cardinality(Preferred(in)) \in Nat
             /\ n("supported") + n("experimental") + n("unknown") + n("unsupported")
                  = Cardinality(Preferred(in))
<1> DEFINE P == Preferred(in)
           A == {cap \in P : c.capabilities[cap] = "supported"}
           B == {cap \in P : c.capabilities[cap] = "experimental"}
           D == {cap \in P : c.capabilities[cap] = "unknown"}
           E == {cap \in P : c.capabilities[cap] = "unsupported"}
<1>1. IsFiniteSet(P)
  <2>1. IsFiniteSet(CapabilityNames)
    <3>1. \A x : IsFiniteSet({x})
      BY Zenon, FS_Singleton
    <3>2. \A S, T : IsFiniteSet(S) /\ IsFiniteSet(T) => IsFiniteSet(S \cup T)
      BY Zenon, FS_Union
    <3>3. CapabilityNames =
            ((({"javascript"} \cup {"dom"}) \cup ({"xhr"} \cup {"svg"}))
             \cup (({"screenshot"} \cup {"pdf"}) \cup ({"webgl"} \cup {"video"})))
            \cup ((({"persistentAuth"} \cup {"realBrowserTLS"}) \cup ({"downloads"} \cup {"uploads"}))
                  \cup ({"multiTab"} \cup {"longSession"}))
      BY DEF CapabilityNames
    <3> QED
      BY Zenon, <3>1, <3>2, <3>3
  <2>2. P \in SUBSET CapabilityNames
    BY Zenon, CapabilityAssumption DEF Preferred
  <2> QED
    BY Zenon, <2>1, <2>2, FS_Subset
<1>2. P = (A \cup B) \cup (D \cup E)
  <2>1. \A cap \in P : c.capabilities[cap] \in SupportStates
    BY Zenon DEF Preferred
  <2> QED
    BY Zenon, <2>1 DEF SupportStates
<1>3. A \cap B = {} /\ D \cap E = {} /\ (A \cup B) \cap (D \cup E) = {}
  OBVIOUS
<1>4. A \in SUBSET P /\ B \in SUBSET P /\ D \in SUBSET P /\ E \in SUBSET P
  BY Zenon
<1> HIDE DEF P, A, B, D, E
<1>5. /\ IsFiniteSet(A) /\ IsFiniteSet(B) /\ IsFiniteSet(D) /\ IsFiniteSet(E)
  BY Zenon, <1>1, <1>4, FS_Subset
<1>6. /\ IsFiniteSet(A \cup B) /\ IsFiniteSet(D \cup E)
      /\ Cardinality(A \cup B) = Cardinality(A) + Cardinality(B) - Cardinality(A \cap B)
      /\ Cardinality(D \cup E) = Cardinality(D) + Cardinality(E) - Cardinality(D \cap E)
  BY Zenon, <1>5, FS_Union
<1>7. Cardinality(P) = Cardinality(A \cup B) + Cardinality(D \cup E)
                          - Cardinality((A \cup B) \cap (D \cup E))
  BY Zenon, <1>2, <1>6, FS_Union
<1>8. /\ Cardinality(A) \in Nat /\ Cardinality(B) \in Nat /\ Cardinality(D) \in Nat
      /\ Cardinality(E) \in Nat /\ Cardinality(P) \in Nat
      /\ Cardinality(A \cup B) \in Nat /\ Cardinality(D \cup E) \in Nat
  BY Zenon, <1>1, <1>5, <1>6, FS_CardinalityType
<1>9. /\ Cardinality(A \cap B) = 0 /\ Cardinality(D \cap E) = 0
      /\ Cardinality((A \cup B) \cap (D \cup E)) = 0
  BY Zenon, <1>3, FS_EmptySet
<1>10. Cardinality(A) + Cardinality(B) + Cardinality(D) + Cardinality(E) = Cardinality(P)
  BY <1>6, <1>7, <1>8, <1>9
<1> QED
  BY Zenon, <1>8, <1>10 DEF P, A, B, D, E

\* The support of the preferred capabilities, on average, is a score.
LEMMA SupportScore ==
  ASSUME NEW in, NEW c, WellFormed(in), c.capabilities \in [Capability -> SupportStates]
  PROVE  /\ Cardinality(Preferred(in)) \in Nat
         /\ SupportSum(c, in) \in Nat
         /\ SupportSum(c, in) <= 100 * Cardinality(Preferred(in))
<1> DEFINE n(support) == Cardinality({cap \in Preferred(in) : c.capabilities[cap] = support})
           x == PreferredSupportScore("experimental", AllowExperimental(in))
<1>1. /\ n("supported") \in Nat /\ n("experimental") \in Nat
      /\ n("unknown") \in Nat /\ n("unsupported") \in Nat
      /\ Cardinality(Preferred(in)) \in Nat
      /\ n("supported") + n("experimental") + n("unknown") + n("unsupported")
           = Cardinality(Preferred(in))
  BY Zenon, SupportCounts
<1>2. /\ x = 80 \/ x = 40
      /\ PreferredSupportScore("supported", AllowExperimental(in)) = 100
      /\ PreferredSupportScore("unknown", AllowExperimental(in)) = 25
      /\ PreferredSupportScore("unsupported", AllowExperimental(in)) = 0
  BY DEF PreferredSupportScore
<1>3. SupportSum(c, in) = 100 * n("supported") + x * n("experimental")
                            + 25 * n("unknown") + 0 * n("unsupported")
  BY Zenon, <1>2 DEF SupportSum, SupportShare
<1> HIDE DEF n, x
<1> QED
  BY <1>1, <1>2, <1>3

\* An interval, by its bounds.
LEMMA Interval ==
  ASSUME NEW m \in Nat
  PROVE  \A x : x \in 0..m <=> x \in Nat /\ x <= m
OBVIOUS

\* The mean of two scores, in thousandths, of which one is itself a mean.
LEMMA MeanBound ==
  ASSUME NEW g \in Nat, NEW n \in Nat \ {0}, NEW s \in Nat, g <= 100, s <= 100 * n
  PROVE  Round(Precision * (g * n + s), 2 * n) \in 0..(100 * Precision)
<1>1. g * n \in Nat /\ g * n <= 100 * n
  <2>1. 100 \in Nat /\ n \in Nat
    OBVIOUS
  <2> QED
    BY Zenon, <2>1, Product
<1> DEFINE p == g * n
<1>2. p \in Nat /\ p <= 100 * n
  BY Zenon, <1>1
<1> HIDE DEF p
<1>3. /\ Precision * (p + s) \in Nat /\ 2 * n \in Nat \ {0} /\ 100 * Precision \in Nat
      /\ Precision * (p + s) <= (100 * Precision) * (2 * n)
  BY <1>2 DEF Precision
<1> QED
  BY Zenon, <1>3, RoundBound DEF p

\* A score in thousandths.
LEMMA WholeBound ==
  ASSUME NEW g \in Nat, g <= 100
  PROVE  Precision * g \in 0..(100 * Precision)
<1>1. Precision * g \in Nat /\ Precision * g <= 100 * Precision /\ 100 * Precision \in Nat
  BY DEF Precision
<1> QED
  BY Zenon, <1>1, Interval

\* The mean of the signal and of the support of the preferred capabilities.
LEMMA CompatibilityBound ==
  ASSUME NEW in, WellFormed(in), NEW c \in CandidateSet(in.sources)
  PROVE  CompatibilityScore(c, in) \in 0..(100 * Precision)
<1> DEFINE signal == Signal(in.signals.compatibility, c, 50)
           n == Cardinality(Preferred(in))
           support == SupportSum(c, in)
<1>1. signal \in Nat /\ signal <= 100
  <2>1. 50 \in 0..100 /\ 100 \in Nat
    OBVIOUS
  <2> QED
    BY Zenon, <2>1, InputParts, CandidateTypes, SignalScore, Interval
<1>2. n \in Nat /\ support \in Nat /\ support <= 100 * n
  BY Zenon, InputParts, CandidateTypes, SupportScore
<1>3. CompatibilityScore(c, in) =
        IF n = 0 THEN Precision * signal
        ELSE Round(Precision * (signal * n + support), 2 * n)
  BY Zenon DEF CompatibilityScore
<1> HIDE DEF signal, n, support
<1>4. n # 0 => n \in Nat \ {0}
  BY Zenon, <1>2
<1> QED
  BY Zenon, <1>1, <1>2, <1>3, <1>4, WholeBound, MeanBound

\* Every score of a candidate is within the bounds of its schema, and the
\* total is the one the schema computes again.
LEMMA ScoresParse ==
  ASSUME NEW in, WellFormed(in), NEW c \in CandidateSet(in.sources)
  PROVE  LET score == ScoreBreakdown(c, in)
         IN  /\ ScoreParses(score)
             /\ score.total \in Nat /\ score.parts.preference \in Nat
             /\ score.parts.efficiency \in Nat
<1> DEFINE score == ScoreBreakdown(c, in)
           parts == score.parts
<1>1. /\ parts.preference = PreferenceScore(c, in) /\ parts.efficiency = EfficiencyScore(c, in)
      /\ parts.compatibility = CompatibilityScore(c, in)
      /\ parts.health = HealthScore(c.health.status)
      /\ parts.latency = Signal(in.signals.latency, c, 50)
      /\ parts.capacity = CapacityScore(c.health.capacity)
      /\ score.total = TotalScore(parts)
  BY DEF ScoreBreakdown
<1>2. PreferenceScore(c, in) \in 0..100
  BY DEF PreferenceScore
<1>3. HealthScore(c.health.status) \in 0..100 /\ CapacityScore(c.health.capacity) \in 0..100
  BY DEF HealthScore, CapacityScore
<1>4. EfficiencyScore(c, in) \in 0..100 /\ Signal(in.signals.latency, c, 50) \in 0..100
  <2> DEFINE default ==
        CASE c.runtime = "kitesurf" -> 100 [] c.runtime = "chromium" -> 60 [] OTHER -> 50
  <2>1. 50 \in 0..100 /\ default \in 0..100
    OBVIOUS
  <2>2. EfficiencyScore(c, in) = Signal(in.signals.efficiency, c, default)
    BY Zenon DEF EfficiencyScore
  <2> HIDE DEF default
  <2>3. /\ c.id \in CandidateIDs(in.sources)
        /\ in.signals.efficiency \in Signals(in.sources)
        /\ in.signals.latency \in Signals(in.sources)
    BY Zenon, InputParts, CandidateTypes
  <2>4. Signal(in.signals.efficiency, c, default) \in 0..100
    BY Zenon, <2>1, <2>3, SignalScore
  <2>5. Signal(in.signals.latency, c, 50) \in 0..100
    BY Zenon, <2>1, <2>3, SignalScore
  <2> QED
    BY Zenon, <2>2, <2>4, <2>5
<1>5. CompatibilityScore(c, in) \in 0..(100 * Precision)
  BY Zenon, CompatibilityBound
<1> HIDE DEF parts, score
<1>6. /\ parts.preference \in 0..100 /\ parts.efficiency \in 0..100 /\ parts.health \in 0..100
      /\ parts.latency \in 0..100 /\ parts.capacity \in 0..100
      /\ parts.compatibility \in 0..(100 * Precision)
  BY Zenon, <1>1, <1>2, <1>3, <1>4, <1>5
<1>7. 100 \in Nat \ {0} /\ 100 \in Nat /\ 100 * Precision \in Nat
  BY DEF Precision
<1>8. /\ parts.preference \in Nat /\ parts.efficiency \in Nat /\ parts.health \in Nat
      /\ parts.latency \in Nat /\ parts.capacity \in Nat /\ parts.compatibility \in Nat
      /\ parts.preference <= 100 /\ parts.efficiency <= 100 /\ parts.health <= 100
      /\ parts.latency <= 100 /\ parts.capacity <= 100
      /\ parts.compatibility <= 100 * Precision
  BY Zenon, <1>6, <1>7, Interval
<1>9. TotalScore(parts) \in 0..(100 * Precision)
  <2> DEFINE y == parts.preference * 30 + parts.efficiency * 25 + parts.health * 15
                  + parts.latency * 5 + parts.capacity * 5
             x == Precision * y + parts.compatibility * 20
  <2>1. /\ Weights.preference = 30 /\ Weights.efficiency = 25 /\ Weights.compatibility = 20
        /\ Weights.health = 15 /\ Weights.latency = 5 /\ Weights.capacity = 5
    BY DEF Weights
  <2>2. TotalScore(parts) = Round(x, 100)
    BY Zenon, <2>1 DEF TotalScore
  <2>3. y \in Nat /\ y <= 8000
    BY <1>8
  <2> HIDE DEF y
  <2>4. x \in Nat /\ x <= (100 * Precision) * 100
    BY <1>8, <2>3 DEF Precision
  <2> HIDE DEF x
  <2> QED
    BY ZenonT(30), <1>7, <2>2, <2>4, RoundBound
<1>10. ScoreParses(score)
  <2>1. parts = score.parts
    BY Zenon DEF parts
  <2>2. \A part \in {"preference", "efficiency", "health", "latency", "capacity"} :
          score.parts[part] \in 0..100
    BY <1>6, <2>1
  <2> QED
    BY Zenon, <1>1, <1>6, <1>9, <2>1, <2>2 DEF ScoreParses
<1>11. score.total \in Nat
  BY Zenon, <1>1, <1>7, <1>9, Interval
<1> QED
  BY Zenon, <1>8, <1>10, <1>11 DEF parts, score

-----------------------------------------------------------------------------
(* The candidates of an input, the eligible ones, and their ranking          *)

Candidates(in) == BuildRoutingCandidates(in.sources)
Number(in) == Cardinality(CandidateSet(in.sources))

EligibleAt(in) == {i \in 1..Number(in) : Eligible(Candidates(in)[i], in)}
RefusedAt(in) == {i \in 1..Number(in) : ~ Eligible(Candidates(in)[i], in)}

Scored(in) == {ScoreEligibleCandidate(Candidates(in)[i], in) : i \in EligibleAt(in)}
RankOrder(in) == {p \in Scored(in) \X Scored(in) : RankedBefore(p[1], p[2])}

\* The candidates, each at one position.
LEMMA CandidatesListed ==
  ASSUME NEW in, WellFormed(in)
  PROVE  /\ Number(in) \in Nat
         /\ Candidates(in) \in [1..Number(in) -> CandidateSet(in.sources)]
         /\ \A c \in CandidateSet(in.sources) : \E k \in 1..Number(in) : Candidates(in)[k] = c
         /\ \A i, j \in 1..Number(in) : Candidates(in)[i] = Candidates(in)[j] => i = j
BY Zenon, InputParts, BuildLists DEF Lists, Candidates, Number

\* Every position is an eligible or a refused one.
LEMMA PositionsSplit ==
  ASSUME NEW in, WellFormed(in)
  PROVE  /\ EligibleAt(in) \in Positions(Number(in)) /\ IsFiniteSet(EligibleAt(in))
         /\ RefusedAt(in) \in Positions(Number(in)) /\ IsFiniteSet(RefusedAt(in))
         /\ Cardinality(EligibleAt(in)) \in Nat /\ Cardinality(RefusedAt(in)) \in Nat
         /\ Cardinality(EligibleAt(in)) + Cardinality(RefusedAt(in)) = Number(in)
<1> DEFINE I == EligibleAt(in)
           J == RefusedAt(in)
           n == Number(in)
<1>1. n \in Nat
  BY Zenon, CandidatesListed
<1>2. I \in SUBSET (1..n) /\ J \in SUBSET (1..n) /\ I \cup J = 1..n /\ I \cap J = {}
  BY Zenon DEF EligibleAt, RefusedAt
<1> HIDE DEF I, J, n
<1>3. n \in Int /\ 1 \in Int
  BY <1>1
<1>4. IsFiniteSet(1..n) /\ Cardinality(1..n) = IF 1 > n THEN 0 ELSE n - 1 + 1
  BY Zenon, <1>3, FS_Interval
<1>5. IsFiniteSet(I) /\ IsFiniteSet(J)
  BY Zenon, <1>2, <1>4, FS_Subset
<1>6. /\ Cardinality(I) \in Nat /\ Cardinality(J) \in Nat
      /\ Cardinality(1..n) = Cardinality(I) + Cardinality(J) - Cardinality({})
      /\ Cardinality({}) = 0
  BY Zenon, <1>2, <1>5, FS_CardinalityType, FS_Union, FS_EmptySet
<1>7. Cardinality(I) + Cardinality(J) = n
  BY <1>1, <1>4, <1>6
<1> QED
  BY Zenon, <1>2, <1>5, <1>6, <1>7 DEF Positions, I, J, n

\* The loop over the candidates separates them by eligibility.
LEMMA LoopSplits ==
  ASSUME NEW in, WellFormed(in)
  PROVE  /\ Accepted(Candidates(in), in) = Kept(Candidates(in), EligibleAt(in))
         /\ Refused(Candidates(in), in) = Kept(Candidates(in), RefusedAt(in))
<1>1. DOMAIN Candidates(in) = 1..Number(in)
  BY Zenon, CandidatesListed
<1> QED
  BY Zenon, <1>1 DEF Accepted, Refused, EligibleAt, RefusedAt

\* Every eligible candidate is scored.
LEMMA AllScored ==
  ASSUME NEW in, WellFormed(in)
  PROVE  Ranked(Accepted(Candidates(in), in), in) = InOrder(Scored(in), RankOrder(in))
<1> DEFINE I == EligibleAt(in)
           q == Candidates(in)
           t == Accepted(q, in)
           n == Cardinality(I)
<1>1. /\ t \in [1..n -> {q[i] : i \in I}]
      /\ \A i \in I : \E k \in 1..n : t[k] = q[i]
  <2>1. Number(in) \in Nat /\ I \in Positions(Number(in)) /\ t = Kept(q, I)
    BY Zenon, CandidatesListed, PositionsSplit, LoopSplits
  <2> HIDE DEF I, q, t
  <2>2. Keeps(t, q, I)
    BY Zenon, <2>1, KeptIs
  <2> QED
    BY Zenon, <2>2 DEF Keeps
<1> HIDE DEF I, q, t, n
<1>2. Range(t) = {q[i] : i \in I}
  <2>1. DOMAIN t = 1..n
    BY Zenon, <1>1
  <2>2. ASSUME NEW i \in I
        PROVE  q[i] \in Range(t)
    <3>1. PICK k \in 1..n : t[k] = q[i]
      BY Zenon, <1>1
    <3> QED
      BY Zenon, <2>1, <3>1 DEF Range
  <2> QED
    BY Zenon, <1>1, <2>1, <2>2 DEF Range
<1>3. {ScoreEligibleCandidate(c, in) : c \in Range(t)} = Scored(in)
  BY Zenon, <1>2 DEF Scored, I, q
<1> QED
  BY Zenon, <1>3 DEF Ranked, RankOrder, t, q

\* What a scored candidate consists of.
LEMMA ScoredParts ==
  ASSUME NEW c, NEW in
  PROVE  LET s == ScoreEligibleCandidate(c, in)
         IN  /\ s.candidate = Identity(c) /\ s.candidate.id = c.id
             /\ s.candidate.runtime = c.runtime
             /\ s.score = ScoreBreakdown(c, in) /\ s.reasons = ScoreReasons(c, in)
BY DEF ScoreEligibleCandidate, Identity

\* There are as many scored candidates as eligible ones.
LEMMA ScoredCount ==
  ASSUME NEW in, WellFormed(in)
  PROVE  /\ IsFiniteSet(Scored(in))
         /\ Cardinality(Scored(in)) = Cardinality(EligibleAt(in))
<1> DEFINE I == EligibleAt(in)
           q == Candidates(in)
           f == [i \in I |-> ScoreEligibleCandidate(q[i], in)]
<1>1. f \in Surjection(I, Scored(in))
  BY Zenon DEF Surjection, Scored
<1>2. ASSUME NEW i \in I, NEW j \in I, f[i] = f[j]
      PROVE  i = j
  <2>1. ScoreEligibleCandidate(q[i], in).candidate.id = ScoreEligibleCandidate(q[j], in).candidate.id
    BY Zenon, <1>2
  <2>2. q[i].id = q[j].id
    BY Zenon, <2>1, ScoredParts
  <2>3. i \in 1..Number(in) /\ j \in 1..Number(in)
    BY Zenon DEF EligibleAt
  <2>4. q[i] \in CandidateSet(in.sources) /\ q[j] \in CandidateSet(in.sources)
    BY Zenon, <2>3, CandidatesListed
  <2>5. q[i] = q[j]
    BY Zenon, <2>2, <2>4, InputParts, IDsDistinguish
  <2> QED
    BY Zenon, <2>3, <2>5, CandidatesListed
<1>3. IsFiniteSet(I)
  BY Zenon, PositionsSplit
<1> HIDE DEF f, I
<1>4. f \in [I -> Scored(in)]
  BY Zenon, <1>1 DEF Surjection
<1>5. f \in Injection(I, Scored(in))
  BY Zenon, <1>2, <1>4 DEF Injection, IsInjective
<1>6. IsFiniteSet(Scored(in)) /\ Cardinality(Scored(in)) = Cardinality(I)
  BY Zenon, <1>1, <1>3, <1>5, FS_Surjection
<1> QED
  BY Zenon, <1>6 DEF I

\* The comparison of two scored candidates, key by key.
LEMMA RankedBeforeIs ==
  ASSUME NEW a, NEW b,
         a.score.total \in Nat, a.score.parts.preference \in Nat, a.score.parts.efficiency \in Nat,
         b.score.total \in Nat, b.score.parts.preference \in Nat, b.score.parts.efficiency \in Nat
  PROVE  RankedBefore(a, b) <=>
           \/ a.score.total > b.score.total
           \/ /\ a.score.total = b.score.total
              /\ \/ a.score.parts.preference > b.score.parts.preference
                 \/ /\ a.score.parts.preference = b.score.parts.preference
                    /\ \/ a.score.parts.efficiency > b.score.parts.efficiency
                       \/ /\ a.score.parts.efficiency = b.score.parts.efficiency
                          /\ IDBefore(a.candidate.id, b.candidate.id)
<1> DEFINE x == RankKey(a)
           y == RankKey(b)
<1>1. /\ x[1] = a.score.total /\ x[2] = a.score.parts.preference
      /\ x[3] = a.score.parts.efficiency
      /\ y[1] = b.score.total /\ y[2] = b.score.parts.preference
      /\ y[3] = b.score.parts.efficiency
  BY DEF RankKey
<1>2. x = y <=> x[1] = y[1] /\ x[2] = y[2] /\ x[3] = y[3]
  BY DEF RankKey
<1>3. RankedBefore(a, b) <=>
        \/ \E i \in 1..3 : x[i] > y[i] /\ \A j \in 1..(i - 1) : x[j] = y[j]
        \/ x = y /\ IDBefore(a.candidate.id, b.candidate.id)
  BY Zenon DEF RankedBefore
<1> HIDE DEF x, y
<1>4. (\E i \in 1..3 : x[i] > y[i] /\ \A j \in 1..(i - 1) : x[j] = y[j]) <=>
        \/ x[1] > y[1]
        \/ x[1] = y[1] /\ x[2] > y[2]
        \/ x[1] = y[1] /\ x[2] = y[2] /\ x[3] > y[3]
  <2>1. \A i : i \in 1..3 <=> i = 1 \/ i = 2 \/ i = 3
    OBVIOUS
  <2>2. 1..(1 - 1) = {} /\ 1..(2 - 1) = {1} /\ 1..(3 - 1) = {1, 2}
    OBVIOUS
  <2> QED
    BY Zenon, <2>1, <2>2
<1> QED
  BY Zenon, <1>1, <1>2, <1>3, <1>4

\* A scored candidate is an eligible candidate of the input, with scores that
\* parse and an identity of its own.
LEMMA ScoredIs ==
  ASSUME NEW in, WellFormed(in), NEW s \in Scored(in)
  PROVE  /\ ScoreParses(s.score) /\ s.score.total \in Nat
         /\ s.score.parts.preference \in Nat /\ s.score.parts.efficiency \in Nat
         /\ \E source \in Sources : s.candidate.id = CandidateID(source)
         /\ \A t \in Scored(in) : s.candidate.id = t.candidate.id => s = t
<1> DEFINE q == Candidates(in)
<1>1. \A i \in EligibleAt(in) : q[i] \in CandidateSet(in.sources)
  BY Zenon, CandidatesListed DEF EligibleAt
<1>2. PICK i \in EligibleAt(in) : s = ScoreEligibleCandidate(q[i], in)
  BY Zenon DEF Scored
<1> HIDE DEF q
<1>3. s.score = ScoreBreakdown(q[i], in) /\ s.candidate.id = q[i].id
  BY Zenon, <1>2, ScoredParts
<1>4. /\ ScoreParses(s.score) /\ s.score.total \in Nat
      /\ s.score.parts.preference \in Nat /\ s.score.parts.efficiency \in Nat
  BY Zenon, <1>1, <1>3, ScoresParse
<1>5. \E source \in Sources : s.candidate.id = CandidateID(source)
  <2>1. PICK j \in DOMAIN in.sources : q[i] = ToCandidate(in.sources[j])
    BY Zenon, <1>1 DEF CandidateSet
  <2>2. in.sources[j] \in Sources
    BY Zenon, InputParts, ListingParts
  <2>3. q[i].id = CandidateID(in.sources[j])
    BY Zenon, <2>1, CandidateParts
  <2> QED
    BY Zenon, <1>3, <2>2, <2>3
<1>6. ASSUME NEW t \in Scored(in), s.candidate.id = t.candidate.id
      PROVE  s = t
  <2>1. PICK j \in EligibleAt(in) : t = ScoreEligibleCandidate(q[j], in)
    BY Zenon DEF Scored, q
  <2>2. q[i].id = q[j].id
    BY Zenon, <1>3, <1>6, <2>1, ScoredParts
  <2>3. q[i] = q[j]
    BY Zenon, <1>1, <2>2, InputParts, IDsDistinguish
  <2> QED
    BY Zenon, <1>2, <2>1, <2>3
<1> QED
  BY Zenon, <1>4, <1>5, <1>6

\* The ranking is a strict total order of the scored candidates.
LEMMA RankOrders ==
  ASSUME NEW in, WellFormed(in)
  PROVE  Orders(RankOrder(in), Scored(in))
<1> DEFINE S == Scored(in)
           Id(a, b) == IDBefore(a.candidate.id, b.candidate.id)
           After(a, b) ==
             \/ a.score.total > b.score.total
             \/ /\ a.score.total = b.score.total
                /\ \/ a.score.parts.preference > b.score.parts.preference
                   \/ /\ a.score.parts.preference = b.score.parts.preference
                      /\ \/ a.score.parts.efficiency > b.score.parts.efficiency
                         \/ /\ a.score.parts.efficiency = b.score.parts.efficiency
                            /\ Id(a, b)
<1>1. \A a \in S : /\ a.score.total \in Nat /\ a.score.parts.preference \in Nat
                   /\ a.score.parts.efficiency \in Nat
  BY Zenon, ScoredIs
<1>2. ASSUME NEW a \in S, NEW b \in S
      PROVE  <<a, b>> \in RankOrder(in) <=> After(a, b)
  <2>1. RankedBefore(a, b) <=> After(a, b)
    BY Zenon, <1>1, RankedBeforeIs
  <2>2. <<a, b>> \in RankOrder(in) <=> RankedBefore(a, b)
    <3>1. <<a, b>>[1] = a /\ <<a, b>>[2] = b
      BY Zenon
    <3> QED
      BY Zenon, <3>1 DEF RankOrder
  <2> QED
    BY Zenon, <2>1, <2>2
<1>3. /\ \A a \in S : ~ Id(a, a)
      /\ \A a, b, c \in S : Id(a, b) /\ Id(b, c) => Id(a, c)
      /\ \A a, b \in S : a = b \/ Id(a, b) \/ Id(b, a)
  <2>1. ASSUME NEW a \in S
        PROVE  ~ Id(a, a)
    <3>1. PICK s \in Sources : a.candidate.id = CandidateID(s)
      BY Zenon, ScoredIs
    <3> QED
      BY Zenon, <3>1, IDOrder
  <2>2. ASSUME NEW a \in S, NEW b \in S, NEW c \in S, Id(a, b), Id(b, c)
        PROVE  Id(a, c)
    <3>1. PICK s \in Sources : a.candidate.id = CandidateID(s)
      BY Zenon, ScoredIs
    <3>2. PICK t \in Sources : b.candidate.id = CandidateID(t)
      BY Zenon, ScoredIs
    <3>3. PICK u \in Sources : c.candidate.id = CandidateID(u)
      BY Zenon, ScoredIs
    <3> QED
      BY Zenon, <2>2, <3>1, <3>2, <3>3, IDOrder
  <2>3. ASSUME NEW a \in S, NEW b \in S
        PROVE  a = b \/ Id(a, b) \/ Id(b, a)
    <3>1. PICK s \in Sources : a.candidate.id = CandidateID(s)
      BY Zenon, ScoredIs
    <3>2. PICK t \in Sources : b.candidate.id = CandidateID(t)
      BY Zenon, ScoredIs
    <3>3. a.candidate.id = b.candidate.id => a = b
      BY Zenon, ScoredIs
    <3> QED
      BY Zenon, <3>1, <3>2, <3>3, IDOrder
  <2> QED
    BY Zenon, <2>1, <2>2, <2>3
<1> HIDE DEF Id, S
<1>4. ASSUME NEW a \in S
      PROVE  ~ After(a, a)
  BY <1>1, <1>3
<1>5. ASSUME NEW a \in S, NEW b \in S, NEW c \in S, After(a, b), After(b, c)
      PROVE  After(a, c)
  <2>1. Id(a, b) /\ Id(b, c) => Id(a, c)
    BY Zenon, <1>3
  <2> QED
    BY <1>1, <1>5, <2>1
<1>6. ASSUME NEW a \in S, NEW b \in S
      PROVE  a = b \/ After(a, b) \/ After(b, a)
  <2>1. a = b \/ Id(a, b) \/ Id(b, a)
    BY Zenon, <1>3
  <2> QED
    BY <1>1, <2>1
<1> HIDE DEF After
<1> QED
  BY Zenon, <1>2, <1>4, <1>5, <1>6 DEF Orders, S

\* The ranked candidates are the scored ones, in this order.
LEMMA RankedLists ==
  ASSUME NEW in, WellFormed(in)
  PROVE  Lists(Ranked(Accepted(Candidates(in), in), in), Scored(in), RankOrder(in))
BY Zenon, AllScored, ScoredCount, RankOrders, InOrderLists

-----------------------------------------------------------------------------
(* Hard constraints                                                          *)

\* A candidate is eligible when no rejection reason applies to it.
LEMMA EligibleIff ==
  ASSUME NEW c, NEW in
  PROVE  Eligible(c, in) <=>
           /\ HealthReasons(c, in) = {}
           /\ ~ c.health.capacity = "exhausted"
           /\ Permitted(in.policy.allowedProviders, in.policy.deniedProviders, c.provider)
           /\ Permitted(in.policy.allowedRuntimes, in.policy.deniedRuntimes, c.runtime)
           /\ ~ (in.preference # "auto" /\ ~AllowFallback(in) /\ c.runtime # in.preference)
           /\ ~ c.safety.status = "blocked"
           /\ ~ in.duration > Min({c.safety.maximumDuration, in.policy.maximumDuration})
           /\ CapabilityReasons(c, in) = {}
<1>1. \A A, B : A \cup B = {} <=> A = {} /\ B = {}
  BY Zenon
<1>2. \A reason : /\ When(TRUE, reason) # {} /\ When(FALSE, reason) = {}
  BY Zenon DEF When
<1> QED
  BY Zenon, <1>1, <1>2 DEF Eligible, RejectionReasons, When

\* The health of a candidate excludes it or not.
LEMMA HealthIff ==
  ASSUME NEW c, NEW in
  PROVE  HealthReasons(c, in) = {} <=>
           /\ c.configured
           /\ c.health.status # "unavailable"
           /\ c.health.status = "degraded" => in.policy.allowDegraded
BY Zenon DEF HealthReasons, When

\* Every unmet requirement gives a reason.
LEMMA CapabilitiesIff ==
  ASSUME NEW c, NEW in
  PROVE  CapabilityReasons(c, in) = {} <=> \A cap \in Capability : ~ Unmet(c, in, cap)
<1> DEFINE Unsatisfied == {cap \in Capability : Unmet(c, in, cap)}
           Special(cap) == IF cap \in DOMAIN SpecializedReason THEN {SpecializedReason[cap]} ELSE {}
           General(cap) == CASE c.capabilities[cap] = "unsupported" -> "REQUIRED_CAPABILITY_UNSUPPORTED"
                             [] c.capabilities[cap] = "unknown" -> "CAPABILITY_UNKNOWN"
                             [] OTHER -> "CAPABILITY_EXPERIMENTAL_NOT_ALLOWED"
<1>1. CapabilityReasons(c, in) = UNION {Special(cap) \cup {General(cap)} : cap \in Unsatisfied}
  BY Zenon DEF CapabilityReasons
<1>2. \A cap : cap \in Unsatisfied <=> cap \in Capability /\ Unmet(c, in, cap)
  BY Zenon
<1> HIDE DEF Special, General, Unsatisfied
<1>3. ASSUME NEW cap \in Unsatisfied
      PROVE  General(cap) \in CapabilityReasons(c, in)
  <2> DEFINE Reasons(x) == Special(x) \cup {General(x)}
  <2>1. General(cap) \in Reasons(cap)
    BY Zenon
  <2>2. CapabilityReasons(c, in) = UNION {Reasons(x) : x \in Unsatisfied}
    BY Zenon, <1>1
  <2> HIDE DEF Reasons
  <2>3. Reasons(cap) \in {Reasons(x) : x \in Unsatisfied}
    BY Zenon
  <2> QED
    BY Zenon, <2>1, <2>2, <2>3
<1>4. ASSUME \A cap : cap \notin Unsatisfied
      PROVE  CapabilityReasons(c, in) = {}
  BY Zenon, <1>1, <1>4
<1> QED
  BY Zenon, <1>2, <1>3, <1>4

\* Durations are numbers.
LEMMA DurationsAre == \A x \in Durations : x \in Nat
<1>1. Unlimited \in Nat
  BY DEF Unlimited
<1>2. \A m \in Nat : \A x \in 1..m : x \in Nat
  OBVIOUS
<1> QED
  BY Zenon, <1>1, <1>2 DEF Durations

\* The smaller of two limits.
LEMMA LimitIff ==
  ASSUME NEW x \in Nat, NEW a \in Nat, NEW b \in Nat
  PROVE  ~ x > Min({a, b}) <=> x <= a /\ x <= b
<1>1. \E m \in {a, b} : \A y \in {a, b} : m <= y
  OBVIOUS
<1>2. Min({a, b}) \in {a, b} /\ \A y \in {a, b} : Min({a, b}) <= y
  BY Zenon, <1>1 DEF Min
<1> QED
  BY <1>2

\* The filter accepts the candidates that meet every hard constraint.
LEMMA EligibleIsServable ==
  ASSUME WellFormed(input), NEW j \in DOMAIN input.sources
  PROVE  Eligible(ToCandidate(input.sources[j]), input) <=> Servable(input.sources[j])
<1> DEFINE s == input.sources[j]
           c == ToCandidate(s)
<1>1. /\ c.provider = s.provider /\ c.runtime = s.runtime
      /\ c.configured = (s.configured /\ s.health.configured)
      /\ c.capabilities = s.capabilities /\ c.health = s.health /\ c.safety = s.safety
  BY Zenon, CandidateParts
<1>2. s \in Sources /\ s.safety.status \in {"allowed", "blocked"}
      /\ s.safety.maximumDuration \in Durations
  <2>1. s \in Sources
    BY Zenon, InputParts, ListingParts
  <2>2. s.safety \in [status : {"allowed", "blocked"}, maximumDuration : Durations]
    BY Zenon, <2>1 DEF Sources
  <2> QED
    BY Zenon, <2>1, <2>2
<1> HIDE DEF s, c
<1>3. ~ input.duration > Min({s.safety.maximumDuration, input.policy.maximumDuration})
        <=> /\ input.duration <= s.safety.maximumDuration
            /\ input.duration <= input.policy.maximumDuration
  BY Zenon, <1>2, InputParts, DurationsAre, LimitIff
<1>4. HealthReasons(c, input) = {} <=>
        /\ s.configured /\ s.health.configured
        /\ s.health.status # "unavailable"
        /\ s.health.status = "degraded" => input.policy.allowDegraded
  BY Zenon, <1>1, HealthIff
<1>5. CapabilityReasons(c, input) = {} <=>
        \A cap \in Capability :
          Satisfies(s.capabilities[cap], input.requirements[cap],
                    input.allowExperimental /\ input.policy.allowExperimental)
  <2>1. ASSUME NEW cap \in Capability
        PROVE  ~ Unmet(c, input, cap) <=>
                 Satisfies(s.capabilities[cap], input.requirements[cap],
                           input.allowExperimental /\ input.policy.allowExperimental)
    BY Zenon, <1>1 DEF Unmet, Satisfies, AllowExperimental
  <2> QED
    BY Zenon, <2>1, CapabilitiesIff
<1>6. s.safety.status # "blocked" <=> s.safety.status = "allowed"
  BY <1>2
<1>7. ~ (input.preference # "auto" /\ ~AllowFallback(input) /\ c.runtime # input.preference) <=>
        \/ input.preference \in {"auto", s.runtime}
        \/ input.allowFallback /\ input.policy.allowFallback
  BY Zenon, <1>1 DEF AllowFallback
<1>8. Eligible(c, input) <=>
        /\ HealthReasons(c, input) = {}
        /\ ~ s.health.capacity = "exhausted"
        /\ Permitted(input.policy.allowedProviders, input.policy.deniedProviders, s.provider)
        /\ Permitted(input.policy.allowedRuntimes, input.policy.deniedRuntimes, s.runtime)
        /\ ~ (input.preference # "auto" /\ ~AllowFallback(input) /\ c.runtime # input.preference)
        /\ ~ s.safety.status = "blocked"
        /\ ~ input.duration > Min({s.safety.maximumDuration, input.policy.maximumDuration})
        /\ CapabilityReasons(c, input) = {}
  BY Zenon, <1>1, EligibleIff
<1>9. Eligible(c, input) <=> Servable(s)
  BY Zenon, <1>3, <1>4, <1>5, <1>6, <1>7, <1>8 DEF Permitted, Servable
<1> QED
  BY Zenon, <1>9 DEF c, s

-----------------------------------------------------------------------------
(* The decision                                                              *)

\* The ranked candidates of an input.
Ranking(in) == Ranked(Accepted(Candidates(in), in), in)

\* The parts of a decision.
LEMMA DecisionParts ==
  ASSUME NEW in, WellFormed(in)
  PROVE  LET d == RouteBrowserRuntime(in)
             refused == Refused(Candidates(in), in)
             won == Len(d.eligible) > 0
             allowed == won /\ AllowFallback(in)
         IN  /\ d.eligible = Explained(Ranking(in))
             /\ d.outcome = IF won THEN "selected" ELSE "no_compatible_runtime"
             /\ d.selected = IF won THEN d.eligible[1].candidate ELSE NoSelection
             /\ d.reasons = IF won THEN d.eligible[1].reasons ELSE {"NO_COMPATIBLE_RUNTIME"}
             /\ d.rejected = [i \in DOMAIN refused |->
                                [candidate |-> Identity(refused[i]),
                                 reasons |-> RejectionReasons(refused[i], in)]]
             /\ d.health = [i \in DOMAIN Candidates(in) |->
                              [id |-> Candidates(in)[i].id, health |-> Candidates(in)[i].health]]
             /\ d.policy = [allowed |-> allowed, maximum |-> IF allowed THEN 1 ELSE 0]
<1> DEFINE candidates == Candidates(in)
           refused == Refused(candidates, in)
           eligible == Explained(Ranking(in))
           won == Len(eligible) > 0
           allowed == won /\ AllowFallback(in)
           d == RouteBrowserRuntime(in)
<1>1. d = [outcome |-> IF won THEN "selected" ELSE "no_compatible_runtime",
           selected |-> IF won THEN eligible[1].candidate ELSE NoSelection,
           eligible |-> eligible,
           rejected |-> [i \in DOMAIN refused |->
                           [candidate |-> Identity(refused[i]),
                            reasons |-> RejectionReasons(refused[i], in)]],
           reasons |-> IF won THEN eligible[1].reasons ELSE {"NO_COMPATIBLE_RUNTIME"},
           health |-> [i \in DOMAIN candidates |->
                         [id |-> candidates[i].id, health |-> candidates[i].health]],
           policy |-> [allowed |-> allowed, maximum |-> IF allowed THEN 1 ELSE 0]]
  BY Zenon DEF RouteBrowserRuntime, Ranking, Candidates
<1> HIDE DEF candidates, refused, eligible, won, allowed, d
<1>2. d.eligible = eligible
  BY <1>1
<1>3. /\ d.outcome = IF won THEN "selected" ELSE "no_compatible_runtime"
      /\ d.selected = IF won THEN eligible[1].candidate ELSE NoSelection
      /\ d.reasons = IF won THEN eligible[1].reasons ELSE {"NO_COMPATIBLE_RUNTIME"}
  BY <1>1
<1>4. d.rejected = [i \in DOMAIN refused |->
                      [candidate |-> Identity(refused[i]),
                       reasons |-> RejectionReasons(refused[i], in)]]
  BY <1>1
<1>5. d.health = [i \in DOMAIN candidates |->
                    [id |-> candidates[i].id, health |-> candidates[i].health]]
  BY <1>1
<1>6. d.policy = [allowed |-> allowed, maximum |-> IF allowed THEN 1 ELSE 0]
  BY <1>1
<1> QED
  BY Zenon, <1>2, <1>3, <1>4, <1>5, <1>6 DEF candidates, refused, eligible, won, allowed, d

\* Sequence e explains the n ranked candidates r.
Explains(e, r, n) ==
  /\ n \in Nat /\ DOMAIN r = 1..n /\ DOMAIN e = 1..n /\ Len(r) = n /\ Len(e) = n
  /\ \A i \in 1..n : /\ e[i].candidate = r[i].candidate /\ e[i].score = r[i].score
                     /\ e[i].reasons = r[i].reasons \cup {RankReason(r, i)}
                     /\ e[i].selected = (i = 1)

\* The explanations of the ranked candidates.
LEMMA ExplainedParts ==
  ASSUME NEW in, WellFormed(in)
  PROVE  Explains(Explained(Ranking(in)), Ranking(in), Cardinality(Scored(in)))
<1> DEFINE n == Cardinality(Scored(in))
           r == Ranking(in)
           E(i) == [candidate |-> r[i].candidate, score |-> r[i].score,
                    reasons |-> r[i].reasons \cup {RankReason(r, i)}, selected |-> i = 1]
           e == Explained(r)
<1>1. n \in Nat /\ r \in [1..n -> Scored(in)]
  BY Zenon, RankedLists DEF Lists, Ranking
<1>2. e = [i \in DOMAIN r |-> E(i)]
  BY Zenon DEF Explained
<1>3. \A i \in 1..n : /\ E(i).candidate = r[i].candidate /\ E(i).score = r[i].score
                      /\ E(i).reasons = r[i].reasons \cup {RankReason(r, i)}
                      /\ E(i).selected = (i = 1)
  OBVIOUS
<1> HIDE DEF n, r, E, e
<1>4. DOMAIN r = 1..n /\ \A i \in 1..n : r[i] \in Scored(in)
  BY Zenon, <1>1
<1>5. e \in [1..n -> {E(i) : i \in 1..n}] /\ \A i \in 1..n : e[i] = E(i)
  BY Zenon, <1>2, <1>4
<1>6. DOMAIN e = 1..n
  BY Zenon, <1>5
<1>7. Len(r) = n /\ Len(e) = n
  BY Zenon, <1>1, <1>5, FunctionSeq
<1>8. \A i \in 1..n : /\ e[i].candidate = r[i].candidate /\ e[i].score = r[i].score
                      /\ e[i].reasons = r[i].reasons \cup {RankReason(r, i)}
                      /\ e[i].selected = (i = 1)
  BY ZenonT(30), <1>3, <1>5
<1> QED
  BY Zenon, <1>1, <1>4, <1>6, <1>7, <1>8 DEF Explains, n, r, e

\* The eligible candidates are those of the sources that are eligible.
LEMMA EligibleIDs ==
  ASSUME NEW in, WellFormed(in)
  PROVE  LET e == RouteBrowserRuntime(in).eligible
         IN  {e[i].candidate.id : i \in DOMAIN e}
               = {CandidateID(in.sources[j]) :
                    j \in {k \in DOMAIN in.sources : Eligible(ToCandidate(in.sources[k]), in)}}
<1> DEFINE e == RouteBrowserRuntime(in).eligible
           n == Cardinality(Scored(in))
           r == Ranking(in)
           q == Candidates(in)
           X == {e[i].candidate.id : i \in DOMAIN e}
           K == {k \in DOMAIN in.sources : Eligible(ToCandidate(in.sources[k]), in)}
           Y == {CandidateID(in.sources[j]) : j \in K}
<1>1. e = Explained(r)
  BY Zenon, DecisionParts
<1>2. /\ n \in Nat /\ DOMAIN e = 1..n
      /\ \A i \in 1..n : r[i] \in Scored(in) /\ e[i].candidate = r[i].candidate
  <2>1. Explains(e, r, n)
    BY Zenon, <1>1, ExplainedParts
  <2>2. r \in [1..n -> Scored(in)]
    BY Zenon, RankedLists DEF Lists, Ranking
  <2> HIDE DEF e, r, n
  <2> QED
    BY Zenon, <2>1, <2>2 DEF Explains
<1>3. \A s \in Scored(in) : \E i \in 1..n : r[i] = s
  BY Zenon, RankedLists DEF Lists, Ranking
<1> HIDE DEF e, n, r, q
<1>4. ASSUME NEW i \in DOMAIN e
      PROVE  e[i].candidate.id \in Y
  <2>1. r[i] \in Scored(in) /\ e[i].candidate.id = r[i].candidate.id
    BY Zenon, <1>2, <1>4
  <2>2. PICK k \in EligibleAt(in) : r[i] = ScoreEligibleCandidate(q[k], in)
    BY Zenon, <2>1 DEF Scored, q
  <2>3. r[i].candidate.id = q[k].id
    <3>1. ScoreEligibleCandidate(q[k], in).candidate.id = q[k].id
      BY Zenon, ScoredParts
    <3> QED
      BY Zenon, <2>2, <3>1
  <2>4. k \in 1..Number(in) /\ Eligible(q[k], in)
    BY Zenon DEF EligibleAt, q
  <2>5. q[k] \in CandidateSet(in.sources)
    BY Zenon, <2>4, CandidatesListed DEF q
  <2>6. PICK j \in DOMAIN in.sources : q[k] = ToCandidate(in.sources[j])
    BY Zenon, <2>5 DEF CandidateSet
  <2>7. q[k].id = CandidateID(in.sources[j]) /\ j \in K
    BY Zenon, <2>4, <2>6, CandidateParts
  <2> QED
    BY Zenon, <2>1, <2>3, <2>7
<1>5. ASSUME NEW j \in K
      PROVE  CandidateID(in.sources[j]) \in X
  <2>1. j \in DOMAIN in.sources /\ Eligible(ToCandidate(in.sources[j]), in)
    BY Zenon
  <2>2. ToCandidate(in.sources[j]) \in CandidateSet(in.sources)
    BY Zenon, <2>1 DEF CandidateSet
  <2>3. PICK k \in 1..Number(in) : q[k] = ToCandidate(in.sources[j])
    BY Zenon, <2>2, CandidatesListed DEF q
  <2>4. ScoreEligibleCandidate(q[k], in) \in Scored(in)
    BY Zenon, <2>1, <2>3 DEF Scored, EligibleAt, q
  <2>5. PICK i \in 1..n : r[i] = ScoreEligibleCandidate(q[k], in)
    BY Zenon, <1>3, <2>4
  <2>6. r[i].candidate.id = q[k].id /\ q[k].id = CandidateID(in.sources[j])
    <3>1. ScoreEligibleCandidate(q[k], in).candidate.id = q[k].id
      BY Zenon, ScoredParts
    <3>2. ToCandidate(in.sources[j]).id = CandidateID(in.sources[j])
      BY Zenon, CandidateParts
    <3> QED
      BY Zenon, <2>3, <2>5, <3>1, <3>2
  <2>7. e[i].candidate.id = CandidateID(in.sources[j]) /\ i \in DOMAIN e
    BY Zenon, <1>2, <2>6
  <2> QED
    BY Zenon, <2>7
<1>6. X = Y
  <2> HIDE DEF K
  <2>1. ASSUME NEW x \in X
        PROVE  x \in Y
    <3>1. PICK i \in DOMAIN e : x = e[i].candidate.id
      BY Zenon
    <3> QED
      BY Zenon, <1>4, <3>1
  <2>2. ASSUME NEW y \in Y
        PROVE  y \in X
    <3>1. PICK j \in K : y = CandidateID(in.sources[j])
      BY Zenon
    <3> QED
      BY Zenon, <1>5, <3>1
  <2> QED
    BY Zenon, <2>1, <2>2
<1> QED
  BY Zenon, <1>6 DEF e

\* A decision is the one the router makes of the input it received.
RouterInv ==
  Decided => WellFormed(input) /\ choice = RouteBrowserRuntime(input)

\* The router decides once, and of the input it received.
LEMMA RouterInvariant == RouterSpec => []RouterInv
<1>1. RouterInit => RouterInv
  BY Zenon DEF RouterInit, RouterInv, Decided
<1>2. RouterInv /\ [RouterNext]_routerVars => RouterInv'
  <2> SUFFICES ASSUME RouterInv, [RouterNext]_routerVars
               PROVE  RouterInv'
    BY Zenon
  <2>1. CASE RouterNext
    <3>1. PICK in : Receive(in)
      BY Zenon, <2>1 DEF RouterNext
    <3> QED
      BY Zenon, <3>1 DEF Receive, RouterInv
  <2>2. CASE UNCHANGED routerVars
    <3>1. input' = input /\ choice' = choice
      BY Zenon, <2>2 DEF routerVars
    <3> QED
      BY Zenon, <3>1 DEF RouterInv, Decided
  <2> QED
    BY Zenon, <2>1, <2>2
<1> QED
  BY <1>1, <1>2, PTL DEF RouterSpec

\* Whatever the providers, the request, the policy and the signals: the
\* eligible candidates of a decision are exactly those that meet every hard
\* constraint.
THEOREM ConstraintsAreHard == RouterSpec => []HardConstraints
<1>1. RouterInv => HardConstraints
  <2> SUFFICES ASSUME RouterInv, Decided
               PROVE  {choice.eligible[i].candidate.id : i \in DOMAIN choice.eligible}
                        = {CandidateID(input.sources[i]) :
                             i \in {j \in DOMAIN input.sources : Servable(input.sources[j])}}
    BY Zenon DEF HardConstraints
  <2>1. WellFormed(input) /\ choice = RouteBrowserRuntime(input)
    BY Zenon DEF RouterInv
  <2>2. {j \in DOMAIN input.sources : Servable(input.sources[j])}
          = {j \in DOMAIN input.sources : Eligible(ToCandidate(input.sources[j]), input)}
    BY Zenon, <2>1, EligibleIsServable
  <2> DEFINE d == RouteBrowserRuntime(input)
  <2>3. {d.eligible[i].candidate.id : i \in DOMAIN d.eligible}
          = {CandidateID(input.sources[i]) :
               i \in {j \in DOMAIN input.sources : Eligible(ToCandidate(input.sources[j]), input)}}
    BY Zenon, <2>1, EligibleIDs
  <2> HIDE DEF d
  <2>4. choice = d
    BY Zenon, <2>1 DEF d
  <2> QED
    BY Zenon, <2>2, <2>3, <2>4
<1> QED
  BY <1>1, RouterInvariant, PTL

-----------------------------------------------------------------------------
(* The order of the sources                                                  *)

\* Two inputs that may differ in their sources only.
SameRequest(in, other) ==
  /\ other.requirements = in.requirements /\ other.preference = in.preference
  /\ other.allowFallback = in.allowFallback /\ other.allowExperimental = in.allowExperimental
  /\ other.duration = in.duration /\ other.policy = in.policy /\ other.signals = in.signals

\* What excludes a candidate does not depend on the other sources.
LEMMA SameReasons ==
  ASSUME NEW in, NEW other, SameRequest(in, other), NEW c
  PROVE  /\ AllowFallback(other) = AllowFallback(in)
         /\ RejectionReasons(c, other) = RejectionReasons(c, in)
         /\ Eligible(c, other) = Eligible(c, in)
<1>1. /\ AllowFallback(other) = AllowFallback(in)
      /\ AllowExperimental(other) = AllowExperimental(in)
  BY Zenon DEF SameRequest, AllowFallback, AllowExperimental
<1>2. HealthReasons(c, other) = HealthReasons(c, in)
  BY Zenon DEF SameRequest, HealthReasons
<1>3. \A cap : Unmet(c, other, cap) = Unmet(c, in, cap)
  BY Zenon, <1>1 DEF SameRequest, Unmet
<1>4. {cap \in Capability : Unmet(c, other, cap)} = {cap \in Capability : Unmet(c, in, cap)}
  BY Zenon, <1>3
<1>5. CapabilityReasons(c, other) = CapabilityReasons(c, in)
  BY Zenon, <1>4 DEF CapabilityReasons
<1>6. RejectionReasons(c, other) = RejectionReasons(c, in)
  BY Zenon, <1>1, <1>2, <1>5 DEF SameRequest, RejectionReasons
<1> QED
  BY Zenon, <1>1, <1>6 DEF Eligible

\* Nor does its score.
LEMMA SameScore ==
  ASSUME NEW in, NEW other, SameRequest(in, other), NEW c
  PROVE  ScoreEligibleCandidate(c, other) = ScoreEligibleCandidate(c, in)
<1>1. AllowExperimental(other) = AllowExperimental(in) /\ Preferred(other) = Preferred(in)
  BY Zenon DEF SameRequest, AllowExperimental, Preferred
<1>2. /\ PreferenceScore(c, other) = PreferenceScore(c, in)
      /\ EfficiencyScore(c, other) = EfficiencyScore(c, in)
  BY DEF SameRequest, PreferenceScore, EfficiencyScore
<1>3. \A support : SupportShare(c, other, support) = SupportShare(c, in, support)
  BY Zenon, <1>1 DEF SupportShare
<1>4. CompatibilityScore(c, other) = CompatibilityScore(c, in)
  <2>1. SupportSum(c, other) = SupportSum(c, in)
    <3>1. /\ SupportShare(c, other, "supported") = SupportShare(c, in, "supported")
          /\ SupportShare(c, other, "experimental") = SupportShare(c, in, "experimental")
          /\ SupportShare(c, other, "unknown") = SupportShare(c, in, "unknown")
          /\ SupportShare(c, other, "unsupported") = SupportShare(c, in, "unsupported")
      BY Zenon, <1>3
    <3> QED
      BY <3>1 DEF SupportSum
  <2> QED
    BY Zenon, <1>1, <2>1 DEF SameRequest, CompatibilityScore
<1>5. ScoreBreakdown(c, other) = ScoreBreakdown(c, in)
  BY Zenon, <1>2, <1>4 DEF SameRequest, ScoreBreakdown
<1>6. ScoreReasons(c, other) = ScoreReasons(c, in)
  <2> DEFINE Match(x) == \E cap \in Preferred(x) :
                           \/ c.capabilities[cap] = "supported"
                           \/ c.capabilities[cap] = "experimental" /\ AllowExperimental(x)
             Rest(x) == EligibleReasons(c)
                        \cup When(x.preference = c.runtime, "REQUESTED_RUNTIME_PREFERENCE")
                        \cup When(x.preference = "auto" /\ x.policy.preferredRuntime = c.runtime,
                                  "TENANT_RUNTIME_PREFERENCE")
                        \cup When(EfficiencyScore(c, x) >= 90, "FAST_PATH_PREFERRED")
                        \cup When(Signal(x.signals.compatibility, c, 50) < 40,
                                  "DOMAIN_COMPATIBILITY_LOW")
  <2>1. Match(other) = Match(in)
    BY Zenon, <1>1
  <2>2. Rest(other) = Rest(in)
    BY Zenon, <1>2 DEF SameRequest
  <2>3. \A x : ScoreReasons(c, x) = Rest(x) \cup When(Match(x), "PREFERRED_CAPABILITY_MATCH")
    BY Zenon DEF ScoreReasons
  <2> HIDE DEF Match, Rest
  <2> QED
    BY Zenon, <2>1, <2>2, <2>3
<1> QED
  BY Zenon, <1>5, <1>6 DEF ScoreEligibleCandidate

\* The decision is the same for the same request and the same candidates.
LEMMA SameDecision ==
  ASSUME NEW in, NEW other, SameRequest(in, other),
         CandidateSet(other.sources) = CandidateSet(in.sources)
  PROVE  RouteBrowserRuntime(other) = RouteBrowserRuntime(in)
<1> DEFINE q == BuildRoutingCandidates(in.sources)
<1>1. BuildRoutingCandidates(other.sources) = q
  BY Zenon DEF BuildRoutingCandidates, CandidateSet
<1> HIDE DEF q
<1>2. Accepted(q, other) = Accepted(q, in) /\ Refused(q, other) = Refused(q, in)
  <2>1. \A i : Eligible(q[i], other) = Eligible(q[i], in)
    BY Zenon, SameReasons
  <2>2. /\ {i \in DOMAIN q : Eligible(q[i], other)} = {i \in DOMAIN q : Eligible(q[i], in)}
        /\ {i \in DOMAIN q : ~Eligible(q[i], other)} = {i \in DOMAIN q : ~Eligible(q[i], in)}
    BY Zenon, <2>1
  <2> QED
    BY Zenon, <2>2 DEF Accepted, Refused
<1>3. \A accepted : Ranked(accepted, other) = Ranked(accepted, in)
  <2>1. \A c : ScoreEligibleCandidate(c, other) = ScoreEligibleCandidate(c, in)
    BY Zenon, SameScore
  <2>2. \A S : {ScoreEligibleCandidate(c, other) : c \in S} = {ScoreEligibleCandidate(c, in) : c \in S}
    BY Zenon, <2>1
  <2> QED
    BY Zenon, <2>2 DEF Ranked
<1>4. /\ AllowFallback(other) = AllowFallback(in)
      /\ \A c : RejectionReasons(c, other) = RejectionReasons(c, in)
  BY Zenon, SameReasons
<1> QED
  BY Zenon, <1>1, <1>2, <1>3, <1>4 DEF RouteBrowserRuntime, q

\* Whatever the input: the order in which the sources are listed has no
\* influence on any part of the decision.
THEOREM OrderHasNoInfluence == RouterSpec => []OrderIndependent
<1>1. RouterInv => OrderIndependent
  <2> SUFFICES ASSUME RouterInv, Decided,
                      NEW p \in Bijection(DOMAIN input.sources, DOMAIN input.sources)
               PROVE  RouteBrowserRuntime([input EXCEPT !.sources =
                        [i \in DOMAIN @ |-> input.sources[p[i]]]]) = choice
    BY Zenon DEF OrderIndependent
  <2>1. WellFormed(input) /\ choice = RouteBrowserRuntime(input)
    BY Zenon DEF RouterInv
  <2> DEFINE permuted == [i \in DOMAIN input.sources |-> input.sources[p[i]]]
             other == [input EXCEPT !.sources = permuted]
  <2>2. other = [input EXCEPT !.sources = [i \in DOMAIN @ |-> input.sources[p[i]]]]
    BY Zenon
  <2>3. input \in RoutingInputs(input.sources)
    BY Zenon, <2>1 DEF WellFormed
  <2>4. DOMAIN input = {"sources", "requirements", "preference", "allowFallback",
                        "allowExperimental", "duration", "policy", "signals"}
    BY <2>3 DEF RoutingInputs
  <2> HIDE DEF permuted
  <2>5. other.sources = permuted /\ SameRequest(input, other)
    BY <2>4 DEF SameRequest
  <2>6. CandidateSet(permuted) = CandidateSet(input.sources)
    <3>1. /\ \A i \in DOMAIN input.sources : p[i] \in DOMAIN input.sources
          /\ \A j \in DOMAIN input.sources : \E i \in DOMAIN input.sources : p[i] = j
      BY Zenon DEF Bijection, Injection, Surjection
    <3>2. /\ DOMAIN permuted = DOMAIN input.sources
          /\ \A i \in DOMAIN input.sources : permuted[i] = input.sources[p[i]]
      BY Zenon DEF permuted
    <3>3. ASSUME NEW c \in CandidateSet(permuted)
          PROVE  c \in CandidateSet(input.sources)
      <4>1. PICK i \in DOMAIN permuted : c = ToCandidate(permuted[i])
        BY Zenon DEF CandidateSet
      <4> QED
        BY Zenon, <3>1, <3>2, <4>1 DEF CandidateSet
    <3>4. ASSUME NEW c \in CandidateSet(input.sources)
          PROVE  c \in CandidateSet(permuted)
      <4>1. PICK j \in DOMAIN input.sources : c = ToCandidate(input.sources[j])
        BY Zenon DEF CandidateSet
      <4>2. PICK i \in DOMAIN input.sources : p[i] = j
        BY Zenon, <3>1
      <4>3. c = ToCandidate(permuted[i]) /\ i \in DOMAIN permuted
        BY Zenon, <3>2, <4>1, <4>2
      <4> QED
        BY Zenon, <4>3 DEF CandidateSet
    <3> QED
      BY Zenon, <3>3, <3>4
  <2> HIDE DEF other
  <2>7. RouteBrowserRuntime(other) = RouteBrowserRuntime(input)
    BY Zenon, <2>5, <2>6, SameDecision
  <2> QED
    BY Zenon, <2>1, <2>2, <2>7
<1> QED
  BY <1>1, RouterInvariant, PTL

-----------------------------------------------------------------------------
(* The schema of a decision                                                  *)

\* Sequences E, of length a, and R, of length b, repeat no element.
Distinct(E, R, a, b) ==
  /\ \A i, j \in 1..a : E[i] = E[j] => i = j
  /\ \A i, j \in 1..b : R[i] = R[j] => i = j
  /\ \A i \in 1..a, j \in 1..b : E[i] # R[j]

\* Sequence s has the elements of E and of R, each once.
Joins(s, E, R, a, b) ==
  /\ Len(s) = a + b /\ DOMAIN s = 1..(a + b)
  /\ \A i, j \in 1..(a + b) : i # j => s[i] # s[j]
  /\ \A i \in 1..a : \E k \in 1..(a + b) : s[k] = E[i]
  /\ \A i \in 1..b : \E k \in 1..(a + b) : s[k] = R[i]
  /\ \A k \in 1..(a + b) : \/ \E i \in 1..a : s[k] = E[i]
                           \/ \E i \in 1..b : s[k] = R[i]

\* Two sequences without common elements, one after the other.
LEMMA Combined ==
  ASSUME NEW T, NEW a \in Nat, NEW b \in Nat, NEW E \in [1..a -> T], NEW R \in [1..b -> T],
         Distinct(E, R, a, b)
  PROVE  Joins(E \o R, E, R, a, b)
<1> DEFINE s == E \o R
<1>1. E \in Seq(T) /\ R \in Seq(T) /\ Len(E) = a /\ Len(R) = b
  BY Zenon, FunctionSeq
<1>2. /\ s \in Seq(T) /\ Len(s) = a + b
      /\ \A k \in 1..(a + b) : s[k] = IF k <= a THEN E[k] ELSE R[k - a]
  <2>1. /\ s \in Seq(T) /\ Len(s) = Len(E) + Len(R)
        /\ \A k \in 1..(Len(E) + Len(R)) : s[k] = IF k <= Len(E) THEN E[k] ELSE R[k - Len(E)]
    <3>1. s \in Seq(T) /\ Len(s) = Len(E) + Len(R)
      BY <1>1
    <3>2. \A k \in 1..(Len(E) + Len(R)) : s[k] = IF k <= Len(E) THEN E[k] ELSE R[k - Len(E)]
      BY <1>1
    <3> QED
      BY Zenon, <3>1, <3>2
  <2> QED
    BY Zenon, <1>1, <2>1
<1>3. DOMAIN s = 1..(a + b)
  BY <1>2
<1> HIDE DEF s
<1>4. \A k \in 1..(a + b) : k <= a => k \in 1..a /\ s[k] = E[k]
  BY <1>2
<1>5. \A k \in 1..(a + b) : ~ k <= a => k - a \in 1..b /\ s[k] = R[k - a]
  BY <1>2
<1>6. \A i \in 1..a : i \in 1..(a + b) /\ s[i] = E[i]
  BY <1>2
<1>7. \A i \in 1..b : i + a \in 1..(a + b) /\ s[i + a] = R[i]
  <2>1. \A i \in 1..b : i + a \in 1..(a + b) /\ ~ i + a <= a /\ (i + a) - a = i
    OBVIOUS
  <2> QED
    BY Zenon, <1>2, <2>1
<1>8. ASSUME NEW i \in 1..(a + b), NEW j \in 1..(a + b), s[i] = s[j]
      PROVE  i = j
  <2>1. CASE i <= a /\ j <= a
    BY Zenon, <1>4, <1>8, <2>1 DEF Distinct
  <2>2. CASE i <= a /\ ~ j <= a
    BY ZenonT(30), <1>4, <1>5, <1>8, <2>2 DEF Distinct
  <2>3. CASE ~ i <= a /\ j <= a
    <3>1. j \in 1..a /\ i - a \in 1..b /\ E[j] = R[i - a]
      BY Zenon, <1>4, <1>5, <1>8, <2>3
    <3> QED
      BY Zenon, <3>1 DEF Distinct
  <2>4. CASE ~ i <= a /\ ~ j <= a
    <3>1. i - a = j - a
      BY Zenon, <1>5, <1>8, <2>4 DEF Distinct
    <3> QED
      BY <3>1
  <2> QED
    BY Zenon, <2>1, <2>2, <2>3, <2>4
<1>9. \A k \in 1..(a + b) : \/ \E i \in 1..a : s[k] = E[i]
                            \/ \E i \in 1..b : s[k] = R[i]
  BY Zenon, <1>4, <1>5
<1>10. /\ \A i \in 1..a : \E k \in 1..(a + b) : s[k] = E[i]
       /\ \A i \in 1..b : \E k \in 1..(a + b) : s[k] = R[i]
  BY Zenon, <1>6, <1>7
<1> QED
  BY Zenon, <1>2, <1>3, <1>8, <1>9, <1>10 DEF Joins, s

\* The eligible candidates of a decision, by their positions.
LEMMA EligibleAre ==
  ASSUME NEW in, WellFormed(in)
  PROVE  LET n == Cardinality(EligibleAt(in))
             e == RouteBrowserRuntime(in).eligible
         IN  /\ n = Cardinality(Scored(in)) /\ Explains(e, Ranking(in), n)
             /\ \A i \in 1..n : \E k \in EligibleAt(in) : e[i].candidate.id = Candidates(in)[k].id
             /\ \A k \in EligibleAt(in) : \E i \in 1..n : e[i].candidate.id = Candidates(in)[k].id
             /\ \A i, j \in 1..n : e[i].candidate.id = e[j].candidate.id => i = j
<1> DEFINE n == Cardinality(EligibleAt(in))
           e == RouteBrowserRuntime(in).eligible
           r == Ranking(in)
           q == Candidates(in)
<1>1. n = Cardinality(Scored(in)) /\ e = Explained(r)
  BY Zenon, ScoredCount, DecisionParts
<1>2. Explains(e, r, n)
  BY Zenon, <1>1, ExplainedParts
<1>3. Lists(r, Scored(in), RankOrder(in))
  BY Zenon, RankedLists DEF Ranking
<1>4. \A k \in EligibleAt(in) : /\ ScoreEligibleCandidate(q[k], in) \in Scored(in)
                                /\ ScoreEligibleCandidate(q[k], in).candidate.id = q[k].id
  BY Zenon, ScoredParts DEF Scored
<1>5. \A s \in Scored(in) : \E k \in EligibleAt(in) : s = ScoreEligibleCandidate(q[k], in)
  BY Zenon DEF Scored
<1> HIDE DEF n, e, r, q
<1>6. /\ \A i \in 1..n : r[i] \in Scored(in) /\ e[i].candidate.id = r[i].candidate.id
      /\ \A s \in Scored(in) : \E i \in 1..n : r[i] = s
      /\ \A i, j \in 1..n : r[i] = r[j] => i = j
  BY Zenon, <1>1, <1>2, <1>3 DEF Lists, Explains
<1>7. ASSUME NEW i \in 1..n
      PROVE  \E k \in EligibleAt(in) : e[i].candidate.id = q[k].id
  <2>1. PICK k \in EligibleAt(in) : r[i] = ScoreEligibleCandidate(q[k], in)
    BY Zenon, <1>5, <1>6
  <2>2. e[i].candidate.id = q[k].id
    BY Zenon, <1>4, <1>6, <2>1
  <2> QED
    BY Zenon, <2>2
<1>8. ASSUME NEW k \in EligibleAt(in)
      PROVE  \E i \in 1..n : e[i].candidate.id = q[k].id
  <2>1. PICK i \in 1..n : r[i] = ScoreEligibleCandidate(q[k], in)
    BY Zenon, <1>4, <1>6
  <2>2. e[i].candidate.id = q[k].id
    BY ZenonT(30), <1>4, <1>6, <2>1
  <2> QED
    BY Zenon, <2>2
<1>9. ASSUME NEW i \in 1..n, NEW j \in 1..n, e[i].candidate.id = e[j].candidate.id
      PROVE  i = j
  <2>1. r[i] = r[j]
    <3>1. /\ r[i] \in Scored(in) /\ r[j] \in Scored(in)
          /\ r[i].candidate.id = r[j].candidate.id
      BY Zenon, <1>6, <1>9
    <3> QED
      BY Zenon, <3>1, ScoredIs
  <2> QED
    BY Zenon, <1>6, <2>1
<1> QED
  BY Zenon, <1>1, <1>2, <1>7, <1>8, <1>9 DEF n, e, r, q

\* The refused candidates of a decision, by their positions.
LEMMA RefusedAre ==
  ASSUME NEW in, WellFormed(in)
  PROVE  LET n == Cardinality(RefusedAt(in))
             x == RouteBrowserRuntime(in).rejected
         IN  /\ DOMAIN x = 1..n
             /\ \A i \in 1..n : x[i].reasons # {}
             /\ \A i \in 1..n : \E k \in RefusedAt(in) : x[i].candidate.id = Candidates(in)[k].id
             /\ \A k \in RefusedAt(in) : \E i \in 1..n : x[i].candidate.id = Candidates(in)[k].id
             /\ \A i, j \in 1..n : x[i].candidate.id = x[j].candidate.id => i = j
<1> DEFINE n == Cardinality(RefusedAt(in))
           x == RouteBrowserRuntime(in).rejected
           t == Refused(Candidates(in), in)
           q == Candidates(in)
           X(i) == [candidate |-> Identity(t[i]), reasons |-> RejectionReasons(t[i], in)]
<1>1. x = [i \in DOMAIN t |-> X(i)]
  BY Zenon, DecisionParts
<1>2. Keeps(t, q, RefusedAt(in))
  <2>1. Number(in) \in Nat /\ RefusedAt(in) \in Positions(Number(in)) /\ t = Kept(q, RefusedAt(in))
    BY Zenon, CandidatesListed, PositionsSplit, LoopSplits
  <2> QED
    BY Zenon, <2>1, KeptIs
<1>3. \A i : X(i).candidate.id = t[i].id /\ X(i).reasons = RejectionReasons(t[i], in)
  BY DEF Identity
<1>4. /\ \A k \in RefusedAt(in) : /\ q[k] \in CandidateSet(in.sources)
                                  /\ RejectionReasons(q[k], in) # {}
      /\ \A k, l \in RefusedAt(in) : q[k] = q[l] => k = l
  BY Zenon, CandidatesListed DEF RefusedAt, Eligible
<1> HIDE DEF n, x, t, q, X
<1>5. /\ DOMAIN t = 1..n
      /\ \A i \in 1..n : \E k \in RefusedAt(in) : t[i] = q[k]
      /\ \A k \in RefusedAt(in) : \E i \in 1..n : t[i] = q[k]
      /\ \A i, j \in 1..n : t[i] = t[j] => i = j
  <2>1. t \in [1..n -> {q[k] : k \in RefusedAt(in)}]
    BY Zenon, <1>2 DEF Keeps, n
  <2>2. DOMAIN t = 1..n /\ \A i \in 1..n : t[i] \in {q[k] : k \in RefusedAt(in)}
    BY Zenon, <2>1
  <2>3. \A i \in 1..n : \E k \in RefusedAt(in) : t[i] = q[k]
    BY Zenon, <2>2
  <2> QED
    BY Zenon, <1>2, <1>4, <2>2, <2>3 DEF Keeps, n
<1>6. DOMAIN x = 1..n
      /\ \A i \in 1..n : x[i].candidate.id = t[i].id /\ x[i].reasons = RejectionReasons(t[i], in)
  <2>1. DOMAIN x = 1..n /\ \A i \in 1..n : x[i] = X(i)
    BY Zenon, <1>1, <1>5
  <2> QED
    BY Zenon, <1>3, <2>1
<1>7. ASSUME NEW i \in 1..n
      PROVE  x[i].reasons # {} /\ \E k \in RefusedAt(in) : x[i].candidate.id = q[k].id
  <2>1. PICK k \in RefusedAt(in) : t[i] = q[k]
    BY Zenon, <1>5
  <2>2. x[i].reasons # {} /\ x[i].candidate.id = q[k].id
    BY Zenon, <1>4, <1>6, <2>1
  <2> QED
    BY Zenon, <2>2
<1>8. ASSUME NEW k \in RefusedAt(in)
      PROVE  \E i \in 1..n : x[i].candidate.id = q[k].id
  <2>1. PICK i \in 1..n : t[i] = q[k]
    BY Zenon, <1>5
  <2>2. x[i].candidate.id = q[k].id
    BY Zenon, <1>6, <2>1
  <2> QED
    BY Zenon, <2>2
<1>9. ASSUME NEW i \in 1..n, NEW j \in 1..n, x[i].candidate.id = x[j].candidate.id
      PROVE  i = j
  <2>1. t[i] \in CandidateSet(in.sources) /\ t[j] \in CandidateSet(in.sources)
    BY Zenon, <1>4, <1>5
  <2>2. t[i].id = t[j].id
    BY Zenon, <1>6, <1>9
  <2>3. t[i] = t[j]
    BY Zenon, <2>1, <2>2, InputParts, IDsDistinguish
  <2> QED
    BY Zenon, <1>5, <2>3
<1> QED
  BY Zenon, <1>6, <1>7, <1>8, <1>9 DEF n, x, q

\* Scoring gives none of the reasons that ranking gives.
LEMMA NoRankReason ==
  ASSUME NEW c, NEW in
  PROVE  ScoreReasons(c, in) \cap RankReasons = {}
<1> DEFINE Given == {"CAPABILITIES_SATISFIED", "CANDIDATE_DEGRADED", "REQUESTED_RUNTIME_PREFERENCE",
                     "TENANT_RUNTIME_PREFERENCE", "FAST_PATH_PREFERRED",
                     "DOMAIN_COMPATIBILITY_LOW", "PREFERRED_CAPABILITY_MATCH"}
<1>1. Given \cap RankReasons = {}
  BY DEF RankReasons
<1>2. \A condition, reason : reason \in Given => When(condition, reason) \in SUBSET Given
  BY Zenon DEF When
<1>3. /\ "CAPABILITIES_SATISFIED" \in Given /\ "CANDIDATE_DEGRADED" \in Given
      /\ "REQUESTED_RUNTIME_PREFERENCE" \in Given /\ "TENANT_RUNTIME_PREFERENCE" \in Given
      /\ "FAST_PATH_PREFERRED" \in Given /\ "DOMAIN_COMPATIBILITY_LOW" \in Given
      /\ "PREFERRED_CAPABILITY_MATCH" \in Given
  OBVIOUS
<1> HIDE DEF Given
<1>4. EligibleReasons(c) \in SUBSET Given
  BY Zenon, <1>2, <1>3 DEF EligibleReasons
<1>5. ScoreReasons(c, in) \in SUBSET Given
  <2> DEFINE A == EligibleReasons(c)
             B == When(in.preference = c.runtime, "REQUESTED_RUNTIME_PREFERENCE")
             C == When(in.preference = "auto" /\ in.policy.preferredRuntime = c.runtime,
                       "TENANT_RUNTIME_PREFERENCE")
             D == When(EfficiencyScore(c, in) >= 90, "FAST_PATH_PREFERRED")
             E == When(Signal(in.signals.compatibility, c, 50) < 40, "DOMAIN_COMPATIBILITY_LOW")
             F == When(\E cap \in Preferred(in) :
                         \/ c.capabilities[cap] = "supported"
                         \/ c.capabilities[cap] = "experimental" /\ AllowExperimental(in),
                       "PREFERRED_CAPABILITY_MATCH")
  <2>1. B \in SUBSET Given /\ C \in SUBSET Given
    BY Zenon, <1>3 DEF When
  <2>2. D \in SUBSET Given /\ E \in SUBSET Given
    BY Zenon, <1>3 DEF When
  <2>3. F \in SUBSET Given
    BY Zenon, <1>3 DEF When
  <2>4. ScoreReasons(c, in) = A \cup B \cup C \cup D \cup E \cup F
    BY Zenon DEF ScoreReasons
  <2> HIDE DEF A, B, C, D, E, F
  <2>5. A \in SUBSET Given
    BY Zenon, <1>4 DEF A
  <2> QED
    BY Zenon, <2>1, <2>2, <2>3, <2>4, <2>5
<1> QED
  BY Zenon, <1>1, <1>5

\* Neighbours in the ranking are in rank order, each with the explanation its
\* rank calls for.
LEMMA RankingValid ==
  ASSUME NEW in, WellFormed(in)
  PROVE  RankingParses(RouteBrowserRuntime(in))
<1> DEFINE d == RouteBrowserRuntime(in)
           e == d.eligible
           r == Ranking(in)
           n == Cardinality(Scored(in))
           tied == n > 1 /\ HasExactRankTie(e[1], e[2])
           Expected(i) == IF tied /\ HasExactRankTie(e[1], e[i]) THEN "STABLE_TIE_BREAK"
                          ELSE IF i = 1 THEN "SELECTED_HIGHEST_SCORE" ELSE "LOWER_SCORE"
<1>1. e = Explained(r)
  BY Zenon, DecisionParts
<1>2. Explains(e, r, n)
  BY Zenon, <1>1, ExplainedParts
<1>3. Lists(r, Scored(in), RankOrder(in))
  BY Zenon, RankedLists DEF Ranking
<1>4. (/\ \A i \in 1..(n - 1) : RankedBefore(e[i], e[i + 1])
       /\ \A i \in 1..n : /\ e[i].reasons \cap RankReasons = {Expected(i)}
                          /\ ScoreParses(e[i].score))
        => RankingParses(d)
  <2>1. Len(d.eligible) = n
    BY Zenon, <1>2 DEF Explains
  <2> HIDE DEF n, d
  <2> QED
    BY Zenon, <2>1 DEF RankingParses
<1> HIDE DEF d, e, r, n
<1>5. /\ n \in Nat /\ Len(r) = n
      /\ \A i \in 1..n : /\ e[i].candidate = r[i].candidate /\ e[i].score = r[i].score
                         /\ e[i].reasons = r[i].reasons \cup {RankReason(r, i)}
                         /\ r[i] \in Scored(in)
  <2>1. \A i \in 1..n : r[i] \in Scored(in)
    BY Zenon, <1>3 DEF Lists, n
  <2> QED
    BY Zenon, <1>2, <2>1 DEF Explains
<1>6. \A i \in 1..n : RankKey(e[i]) = RankKey(r[i])
  BY Zenon, <1>5 DEF RankKey
<1>7. ASSUME NEW i \in 1..(n - 1)
      PROVE  RankedBefore(e[i], e[i + 1])
  <2>1. i \in 1..n /\ i + 1 \in 1..n /\ i < i + 1
    BY <1>5
  <2>2. <<r[i], r[i + 1]>> \in RankOrder(in)
    BY Zenon, <1>3, <2>1 DEF Lists, n
  <2>3. RankedBefore(r[i], r[i + 1])
    <3>1. <<r[i], r[i + 1]>>[1] = r[i] /\ <<r[i], r[i + 1]>>[2] = r[i + 1]
      BY Zenon
    <3> QED
      BY Zenon, <2>2, <3>1 DEF RankOrder
  <2>4. /\ RankKey(e[i]) = RankKey(r[i]) /\ RankKey(e[i + 1]) = RankKey(r[i + 1])
        /\ e[i].candidate = r[i].candidate /\ e[i + 1].candidate = r[i + 1].candidate
    BY Zenon, <1>5, <1>6, <2>1
  <2> QED
    BY Zenon, <2>3, <2>4 DEF RankedBefore
<1>8. ASSUME NEW i \in 1..n
      PROVE  e[i].reasons \cap RankReasons = {Expected(i)}
  <2>1. RankReason(r, i) = Expected(i)
    <3> DEFINE tie == Len(r) > 1 /\ HasExactRankTie(r[1], r[2])
    <3>1. i \in Nat /\ 1 \in 1..n /\ (n > 1 => 2 \in 1..n) /\ (i = 1 \/ i > 1) /\ ~ (i = 1 /\ i > 1)
      BY <1>5
    <3>2. tied <=> tie
      BY Zenon, <1>5, <1>6, <3>1 DEF HasExactRankTie
    <3>3. HasExactRankTie(e[1], e[i]) <=> HasExactRankTie(r[1], r[i])
      BY Zenon, <1>6, <3>1 DEF HasExactRankTie
    <3>4. HasExactRankTie(r[1], r[1])
      BY Zenon DEF HasExactRankTie
    <3>5. RankReason(r, i) = CASE i = 1 -> IF tie THEN "STABLE_TIE_BREAK" ELSE "SELECTED_HIGHEST_SCORE"
                               [] i > 1 -> IF tie /\ HasExactRankTie(r[1], r[i])
                                           THEN "STABLE_TIE_BREAK" ELSE "LOWER_SCORE"
      BY Zenon DEF RankReason
    <3> HIDE DEF tie, tied
    <3>6. CASE i = 1
      <4>1. RankReason(r, i) = IF tie THEN "STABLE_TIE_BREAK" ELSE "SELECTED_HIGHEST_SCORE"
        BY <3>1, <3>5, <3>6
      <4>2. Expected(i) = IF tied THEN "STABLE_TIE_BREAK" ELSE "SELECTED_HIGHEST_SCORE"
        BY Zenon, <3>3, <3>4, <3>6
      <4> QED
        BY Zenon, <3>2, <4>1, <4>2
    <3>7. CASE i # 1
      <4>1. RankReason(r, i) = IF tie /\ HasExactRankTie(r[1], r[i])
                               THEN "STABLE_TIE_BREAK" ELSE "LOWER_SCORE"
        BY <3>1, <3>5, <3>7
      <4>2. Expected(i) = IF tied /\ HasExactRankTie(e[1], e[i])
                          THEN "STABLE_TIE_BREAK" ELSE "LOWER_SCORE"
        BY Zenon, <3>7
      <4> QED
        BY Zenon, <3>2, <3>3, <4>1, <4>2
    <3> QED
      BY Zenon, <3>6, <3>7
  <2>2. Expected(i) \in RankReasons
    BY DEF RankReasons
  <2>3. r[i].reasons \cap RankReasons = {}
    <3>1. PICK k \in EligibleAt(in) : r[i] = ScoreEligibleCandidate(Candidates(in)[k], in)
      BY Zenon, <1>5 DEF Scored
    <3>2. r[i].reasons = ScoreReasons(Candidates(in)[k], in)
      BY Zenon, <3>1, ScoredParts
    <3> QED
      BY Zenon, <3>2, NoRankReason
  <2>4. e[i].reasons = r[i].reasons \cup {RankReason(r, i)}
    BY Zenon, <1>5
  <2> HIDE DEF Expected
  <2> QED
    BY Zenon, <2>1, <2>2, <2>3, <2>4
<1>9. ASSUME NEW i \in 1..n
      PROVE  ScoreParses(e[i].score)
  BY Zenon, <1>5, ScoredIs
<1> QED
  BY Zenon, <1>4, <1>7, <1>8, <1>9 DEF d

\* Every candidate appears once in a decision, with its health.
LEMMA EveryCandidateOnce ==
  ASSUME NEW in, WellFormed(in)
  PROVE  LET d == RouteBrowserRuntime(in)
             ids == [i \in DOMAIN d.eligible |-> d.eligible[i].candidate.id]
                    \o [i \in DOMAIN d.rejected |-> d.rejected[i].candidate.id]
         IN  /\ \A i, j \in DOMAIN ids : i # j => ids[i] # ids[j]
             /\ Len(d.health) = Len(ids)
             /\ {d.health[i].id : i \in DOMAIN d.health} = {ids[i] : i \in DOMAIN ids}
<1> DEFINE d == RouteBrowserRuntime(in)
           e == d.eligible
           x == d.rejected
           q == Candidates(in)
           I == EligibleAt(in)
           J == RefusedAt(in)
           a == Cardinality(I)
           b == Cardinality(J)
           m == Number(in)
           T == {q[k].id : k \in 1..m}
           E == [i \in DOMAIN e |-> e[i].candidate.id]
           R == [i \in DOMAIN x |-> x[i].candidate.id]
           ids == E \o R
           h == d.health
<1>1. /\ a \in Nat /\ b \in Nat /\ a + b = m
      /\ \A k \in I : k \in 1..m
      /\ \A k \in J : k \in 1..m
      /\ \A k \in 1..m : k \in I \/ k \in J
      /\ \A k \in I : k \notin J
  BY Zenon, PositionsSplit DEF EligibleAt, RefusedAt
<1>2. /\ DOMAIN e = 1..a
      /\ \A i \in 1..a : \E k \in I : e[i].candidate.id = q[k].id
      /\ \A k \in I : \E i \in 1..a : e[i].candidate.id = q[k].id
      /\ \A i, j \in 1..a : e[i].candidate.id = e[j].candidate.id => i = j
  <2>1. Explains(e, Ranking(in), a)
    BY Zenon, EligibleAre
  <2>2. DOMAIN e = 1..a
    BY Zenon, <2>1 DEF Explains
  <2> QED
    BY Zenon, <2>2, EligibleAre
<1>3. /\ DOMAIN x = 1..b
      /\ \A i \in 1..b : \E k \in J : x[i].candidate.id = q[k].id
      /\ \A k \in J : \E i \in 1..b : x[i].candidate.id = q[k].id
      /\ \A i, j \in 1..b : x[i].candidate.id = x[j].candidate.id => i = j
  BY Zenon, RefusedAre
<1>4. \A k, l \in 1..m : q[k].id = q[l].id => k = l
  <2>1. \A k \in 1..m : q[k] \in CandidateSet(in.sources)
    BY Zenon, CandidatesListed
  <2>2. \A k, l \in 1..m : q[k].id = q[l].id => q[k] = q[l]
    BY Zenon, <2>1, InputParts, IDsDistinguish
  <2> QED
    BY Zenon, <2>2, CandidatesListed
<1>5. /\ DOMAIN h = 1..m /\ Len(h) = m /\ \A k \in 1..m : h[k].id = q[k].id
  <2> DEFINE H(k) == [id |-> q[k].id, health |-> q[k].health]
  <2>1. h = [k \in DOMAIN q |-> H(k)] /\ DOMAIN q = 1..m /\ m \in Nat
    BY Zenon, DecisionParts, CandidatesListed
  <2>2. \A k : H(k).id = q[k].id
    OBVIOUS
  <2> DEFINE HS == {H(k) : k \in 1..m}
  <2> HIDE DEF H, h, m, q
  <2>3. h \in [1..m -> HS] /\ \A k \in 1..m : h[k] = H(k)
    BY Zenon, <2>1
  <2>4. DOMAIN h = 1..m
    BY Zenon, <2>3
  <2> HIDE DEF HS
  <2>5. Len(h) = m
    <3>1. m \in Nat
      BY Zenon, <2>1
    <3> QED
      BY Zenon, <2>3, <3>1, FunctionSeq
  <2> QED
    BY Zenon, <2>2, <2>3, <2>4, <2>5
<1> HIDE DEF d, e, x, q, I, J, a, b, m, h
<1>6. /\ E \in [1..a -> T] /\ \A i \in 1..a : E[i] = e[i].candidate.id
      /\ R \in [1..b -> T] /\ \A i \in 1..b : R[i] = x[i].candidate.id
  <2>1. \A i \in 1..a : e[i].candidate.id \in T
    BY Zenon, <1>1, <1>2
  <2>2. \A i \in 1..b : x[i].candidate.id \in T
    BY Zenon, <1>1, <1>3
  <2> QED
    BY Zenon, <1>2, <1>3, <2>1, <2>2
<1> HIDE DEF T, E, R
<1>7. ASSUME NEW i \in 1..a, NEW j \in 1..b, E[i] = R[j]
      PROVE  FALSE
  <2>1. PICK k \in I : e[i].candidate.id = q[k].id
    BY Zenon, <1>2
  <2>2. PICK l \in J : x[j].candidate.id = q[l].id
    BY Zenon, <1>3
  <2>3. k \in 1..m /\ l \in 1..m /\ q[k].id = q[l].id
    BY Zenon, <1>1, <1>6, <1>7, <2>1, <2>2
  <2>4. k = l
    BY Zenon, <1>4, <2>3
  <2> QED
    BY Zenon, <1>1, <2>4
<1>8. /\ \A i, j \in 1..a : E[i] = E[j] => i = j
      /\ \A i, j \in 1..b : R[i] = R[j] => i = j
  BY ZenonT(30), <1>2, <1>3, <1>6
<1>9. /\ Len(ids) = m /\ DOMAIN ids = 1..m
      /\ \A i, j \in 1..m : i # j => ids[i] # ids[j]
      /\ \A i \in 1..a : \E k \in 1..m : ids[k] = E[i]
      /\ \A i \in 1..b : \E k \in 1..m : ids[k] = R[i]
      /\ \A k \in 1..m : \/ \E i \in 1..a : ids[k] = E[i]
                         \/ \E i \in 1..b : ids[k] = R[i]
  <2>1. Distinct(E, R, a, b)
    BY Zenon, <1>7, <1>8 DEF Distinct
  <2>2. Joins(ids, E, R, a, b)
    BY Zenon, <1>1, <1>6, <2>1, Combined
  <2>3. a + b = m
    BY Zenon, <1>1
  <2> HIDE DEF ids
  <2> QED
    BY Zenon, <2>2, <2>3 DEF Joins
<1> HIDE DEF ids
<1>10. ASSUME NEW k \in 1..m
       PROVE  \E l \in 1..m : ids[l] = q[k].id
  <2>1. CASE k \in I
    <3>1. PICK i \in 1..a : e[i].candidate.id = q[k].id
      BY Zenon, <1>2, <2>1
    <3>2. E[i] = q[k].id
      BY Zenon, <1>6, <3>1
    <3>3. PICK l \in 1..m : ids[l] = E[i]
      BY Zenon, <1>9
    <3> QED
      BY Zenon, <3>2, <3>3
  <2>2. CASE k \in J
    <3>1. PICK i \in 1..b : x[i].candidate.id = q[k].id
      BY Zenon, <1>3, <2>2
    <3>2. R[i] = q[k].id
      BY Zenon, <1>6, <3>1
    <3>3. PICK l \in 1..m : ids[l] = R[i]
      BY Zenon, <1>9
    <3> QED
      BY Zenon, <3>2, <3>3
  <2> QED
    BY Zenon, <1>1, <2>1, <2>2
<1>11. ASSUME NEW l \in 1..m
       PROVE  ids[l] \in T
  <2>1. (\A i \in 1..a : E[i] \in T) /\ (\A i \in 1..b : R[i] \in T)
    BY Zenon, <1>6
  <2>2. (\E i \in 1..a : ids[l] = E[i]) \/ (\E i \in 1..b : ids[l] = R[i])
    BY Zenon, <1>9
  <2> QED
    BY Zenon, <2>1, <2>2
<1>12. {h[k].id : k \in DOMAIN h} = {ids[l] : l \in DOMAIN ids}
  <2>1. {h[k].id : k \in DOMAIN h} = T
    BY Zenon, <1>5 DEF T
  <2>2. \A y \in T : \E l \in 1..m : ids[l] = y
    BY Zenon, <1>10 DEF T
  <2>3. DOMAIN ids = 1..m
    BY Zenon, <1>9
  <2> QED
    BY Zenon, <1>11, <2>1, <2>2, <2>3
<1>13. /\ \A i, j \in DOMAIN ids : i # j => ids[i] # ids[j]
       /\ Len(h) = Len(ids)
  BY Zenon, <1>5, <1>9
<1> QED
  BY Zenon, <1>12, <1>13 DEF d, e, x, h, E, R, ids

\* The decision of a well-formed input passes its schema.
LEMMA DecisionValid ==
  ASSUME NEW in, WellFormed(in)
  PROVE  DecisionParses(RouteBrowserRuntime(in))
<1> DEFINE d == RouteBrowserRuntime(in)
           n == Cardinality(EligibleAt(in))
           won == Len(d.eligible) > 0
           allowed == won /\ AllowFallback(in)
<1>1. RankingParses(d)
  BY Zenon, RankingValid
<1>2. \A i \in DOMAIN d.rejected : d.rejected[i].reasons # {}
  BY Zenon, RefusedAre
<1>3. Explains(d.eligible, Ranking(in), n)
  BY Zenon, EligibleAre
<1>4. d.policy = [allowed |-> allowed, maximum |-> IF allowed THEN 1 ELSE 0]
  BY Zenon, DecisionParts
<1>5. /\ d.outcome = IF won THEN "selected" ELSE "no_compatible_runtime"
      /\ d.selected = IF won THEN d.eligible[1].candidate ELSE NoSelection
      /\ d.reasons = IF won THEN d.eligible[1].reasons ELSE {"NO_COMPATIBLE_RUNTIME"}
  BY Zenon, DecisionParts
<1>6. LET ids == [i \in DOMAIN d.eligible |-> d.eligible[i].candidate.id]
                 \o [i \in DOMAIN d.rejected |-> d.rejected[i].candidate.id]
      IN  /\ \A i, j \in DOMAIN ids : i # j => ids[i] # ids[j]
          /\ Len(d.health) = Len(ids)
          /\ {d.health[i].id : i \in DOMAIN d.health} = {ids[i] : i \in DOMAIN ids}
  BY Zenon, EveryCandidateOnce
<1> HIDE DEF d, n
<1>7. d.policy.allowed <=> (d.policy.maximum = 1)
  <2> HIDE DEF allowed
  <2> QED
    BY <1>4
<1>8. /\ n \in Nat /\ Len(d.eligible) = n /\ DOMAIN d.eligible = 1..n
      /\ \A i \in 1..n : d.eligible[i].selected = (i = 1)
  BY Zenon, <1>3 DEF Explains
<1>9. CASE won
  <2>1. 1 \in 1..n
    BY <1>8, <1>9
  <2>2. {i \in DOMAIN d.eligible : d.eligible[i].selected} = {1}
    BY Zenon, <1>8, <2>1
  <2>3. d.outcome = "selected" /\ d.eligible[1].candidate = d.selected
        /\ d.eligible[1].reasons = d.reasons
    BY Zenon, <1>5, <1>9
  <2> HIDE DEF won
  <2> QED
    BY Zenon, <1>1, <1>2, <1>6, <1>7, <2>2, <2>3 DEF DecisionParses, d
<1>10. CASE ~ won
  <2>1. n = 0
    BY <1>8, <1>10
  <2>2. d.eligible = << >>
    <3>1. d.eligible = Explained(Ranking(in))
      BY Zenon, DecisionParts DEF d
    <3>2. d.eligible \in [1..n -> {d.eligible[i] : i \in 1..n}]
      BY Zenon, <1>8, <3>1 DEF Explained
    <3>3. d.eligible \in Seq({d.eligible[i] : i \in 1..n}) /\ Len(d.eligible) = 0
      BY Zenon, <1>8, <2>1, <3>2, FunctionSeq
    <3> QED
      BY <3>3
  <2>3. /\ d.outcome = "no_compatible_runtime" /\ d.selected = NoSelection
        /\ d.reasons = {"NO_COMPATIBLE_RUNTIME"}
    BY Zenon, <1>5, <1>10
  <2>4. d.outcome # "selected"
    BY <2>3
  <2> HIDE DEF won
  <2> QED
    BY Zenon, <1>1, <1>2, <1>6, <1>7, <2>2, <2>3, <2>4 DEF DecisionParses, d
<1> QED
  BY Zenon, <1>9, <1>10

\* Whatever the input: the decision passes RoutingDecisionSchema, so that the
\* parse with which routeBrowserRuntime ends never throws.
THEOREM DecisionsAreValid == RouterSpec => []DecisionIsValid
<1>1. RouterInv => DecisionIsValid
  BY Zenon, DecisionValid DEF RouterInv, DecisionIsValid
<1> QED
  BY <1>1, RouterInvariant, PTL

-----------------------------------------------------------------------------
(* The fallback state machine                                                *)

\* What the fields of a state hold.
FallbackStates ==
  [status : {"REQUESTED", "ROUTED", "ALLOCATING", "FALLBACK_ROUTED", "FALLBACK_ALLOCATING",
             "ACTIVE", "FAILED"},
   policy : FSM!FallbackPolicies, attempted : Seq(Candidate), used : {0, 1},
   current : Candidate \cup {FSM!NoCandidate}, original : Candidate \cup {FSM!NoCandidate},
   primary : FSM!FailureClasses \cup {FSM!None}, failure : FSM!FailureClasses \cup {FSM!None}]

\* The inductive invariant: a state parses, and before an allocation has failed
\* nothing is recorded of a failure or of a fallback.
FallbackInv ==
  /\ fallback \in FallbackStates
  /\ FSM!Parses(fallback)
  /\ fallback.status = "REQUESTED" => fallback.attempted = << >>
  /\ fallback.status \in {"REQUESTED", "ROUTED", "ALLOCATING"} =>
       fallback.used = 0 /\ fallback.primary = FSM!None

\* An eligible failure is a failure class, and no class is the absent one.
LEMMA FailureNames ==
  /\ FSM!EligibleFailures \in SUBSET FSM!FailureClasses
  /\ FSM!None \notin FSM!FailureClasses
  /\ "no_compatible_candidate" \in FSM!FailureClasses
BY DEF FSM!EligibleFailures, FSM!FailureClasses, FSM!None

\* A policy that allows a fallback allows one.
LEMMA PolicyNames ==
  ASSUME NEW p \in FSM!FallbackPolicies
  PROVE  /\ p.allowed \in BOOLEAN
         /\ p.maximum = IF p.allowed THEN 1 ELSE 0
BY DEF FSM!FallbackPolicies

\* Selecting a route.
LEMMA RouteSelectedParses ==
  ASSUME FallbackInv, fallback.status = "REQUESTED", NEW c \in Candidate,
         fallback' = [fallback EXCEPT !.status = "ROUTED", !.current = c, !.attempted = <<c>>]
  PROVE  FallbackInv'
<1> DEFINE s == fallback
           t == fallback'
<1>1. /\ t.status = "ROUTED" /\ t.current = c /\ t.attempted = <<c>>
      /\ t.policy = s.policy /\ t.used = s.used /\ t.original = s.original
      /\ t.primary = s.primary /\ t.failure = s.failure
  BY DEF FallbackInv, FallbackStates
<1>2. t \in FallbackStates
  <2>1. <<c>> \in Seq(Candidate)
    OBVIOUS
  <2> QED
    BY <2>1 DEF FallbackInv, FallbackStates
<1>3. s.used = 0 /\ s.primary = FSM!None /\ s.policy \in FSM!FallbackPolicies
  BY DEF FallbackInv, FallbackStates
<1>4. FSM!HistoryConsistent(t)
  <2>1. s.policy.maximum \in {0, 1}
    BY <1>3, PolicyNames
  <2> QED
    BY <1>1, <1>3, <2>1 DEF FSM!HistoryConsistent
<1>5. FSM!StatusConsistent(t)
  BY <1>1, <1>3 DEF FSM!StatusConsistent
<1> QED
  BY <1>1, <1>2, <1>3, <1>4, <1>5 DEF FallbackInv, FSM!Parses

\* Failing, before or after a fallback.
LEMMA FailedParses ==
  ASSUME FallbackInv,
         fallback.status \in {"REQUESTED", "ALLOCATING", "FALLBACK_ALLOCATING"},
         NEW class \in FSM!FailureClasses, fallback' = FSM!FailedState(fallback, class)
  PROVE  FallbackInv'
<1> DEFINE s == fallback
           t == fallback'
<1>1. /\ t.status = "FAILED" /\ t.failure = class /\ t.attempted = s.attempted
      /\ t.policy = s.policy /\ t.used = s.used /\ t.primary = s.primary
  BY DEF FallbackInv, FallbackStates, FSM!FailedState
<1>2. t \in FallbackStates
  BY DEF FallbackInv, FallbackStates, FSM!FailedState
<1>3. s.policy \in FSM!FallbackPolicies
  BY DEF FallbackInv, FallbackStates
<1>4. CASE s.status = "REQUESTED"
  <2>1. s.used = 0 /\ s.primary = FSM!None /\ s.attempted = << >>
    BY <1>4 DEF FallbackInv
  <2>2. s.policy.maximum \in {0, 1}
    BY <1>3, PolicyNames
  <2>3. FSM!HistoryConsistent(t)
    BY <1>1, <2>1, <2>2 DEF FSM!HistoryConsistent
  <2>4. FSM!StatusConsistent(t)
    BY <1>1, <2>1 DEF FSM!StatusConsistent
  <2> QED
    BY <1>1, <1>2, <1>3, <2>3, <2>4 DEF FallbackInv, FSM!Parses
<1>5. CASE s.status # "REQUESTED"
  <2>1. FSM!HistoryConsistent(s) /\ FSM!StatusConsistent(s)
    BY <1>5 DEF FallbackInv, FSM!Parses
  <2>2. FSM!HistoryConsistent(t)
    BY <1>1, <2>1 DEF FSM!HistoryConsistent
  <2>3. CASE s.status = "ALLOCATING"
    <3>1. s.used = 0 /\ s.primary = FSM!None /\ Len(s.attempted) = 1
      BY <2>1, <2>3 DEF FallbackInv, FSM!StatusConsistent
    <3>2. FSM!StatusConsistent(t)
      BY <1>1, <3>1 DEF FSM!StatusConsistent
    <3> QED
      BY <1>1, <1>2, <1>3, <2>2, <3>2 DEF FallbackInv, FSM!Parses
  <2>4. CASE s.status = "FALLBACK_ALLOCATING"
    <3>1. s.used = 1 /\ s.primary # FSM!None /\ Len(s.attempted) = 2
      BY <2>1, <2>4 DEF FSM!StatusConsistent
    <3>2. FSM!StatusConsistent(t)
      BY <1>1, <3>1 DEF FSM!StatusConsistent
    <3> QED
      BY <1>1, <1>2, <1>3, <2>2, <3>2 DEF FallbackInv, FSM!Parses
  <2> QED
    BY Zenon, <1>5, <2>3, <2>4
<1> QED
  BY Zenon, <1>4, <1>5

\* Starting an allocation.
LEMMA StartedParses ==
  ASSUME FallbackInv, fallback.status \in {"ROUTED", "FALLBACK_ROUTED"},
         fallback' = [fallback EXCEPT !.status = IF fallback.status = "ROUTED" THEN "ALLOCATING"
                                                 ELSE "FALLBACK_ALLOCATING"]
  PROVE  FallbackInv'
<1> DEFINE s == fallback
           t == fallback'
<1>1. /\ t.status = IF s.status = "ROUTED" THEN "ALLOCATING" ELSE "FALLBACK_ALLOCATING"
      /\ t.failure = s.failure /\ t.attempted = s.attempted /\ t.current = s.current
      /\ t.original = s.original /\ t.policy = s.policy /\ t.used = s.used
      /\ t.primary = s.primary
  BY DEF FallbackInv, FallbackStates
<1>2. t \in FallbackStates
  BY DEF FallbackInv, FallbackStates
<1>3. FSM!HistoryConsistent(s) /\ FSM!StatusConsistent(s) /\ s.policy \in FSM!FallbackPolicies
  BY DEF FallbackInv, FSM!Parses
<1>4. FSM!HistoryConsistent(t)
  BY <1>1, <1>3 DEF FSM!HistoryConsistent
<1>5. FSM!StatusConsistent(t)
  <2>1. CASE s.status = "ROUTED"
    <3>1. t.status = "ALLOCATING"
      BY Zenon, <1>1, <2>1
    <3>2. Len(s.attempted) = 1 /\ s.used = 0 /\ s.current = s.attempted[1]
      BY <1>3, <2>1 DEF FSM!StatusConsistent
    <3> QED
      BY <1>1, <3>1, <3>2 DEF FSM!StatusConsistent
  <2>2. CASE s.status = "FALLBACK_ROUTED"
    <3>1. t.status = "FALLBACK_ALLOCATING"
      BY <1>1, <2>2
    <3>2. /\ Len(s.attempted) = 2 /\ s.used = 1 /\ s.original = s.attempted[1]
          /\ s.current = s.attempted[2] /\ s.primary # FSM!None
      BY <1>3, <2>2 DEF FSM!StatusConsistent
    <3> QED
      BY <1>1, <3>1, <3>2 DEF FSM!StatusConsistent
  <2> QED
    BY Zenon, <2>1, <2>2
<1>6. s.status = "ROUTED" => s.used = 0 /\ s.primary = FSM!None
  BY DEF FallbackInv
<1> QED
  BY <1>1, <1>2, <1>3, <1>4, <1>5, <1>6 DEF FallbackInv, FSM!Parses

\* Succeeding, before or after a fallback.
LEMMA SucceededParses ==
  ASSUME FallbackInv, fallback.status \in {"ALLOCATING", "FALLBACK_ALLOCATING"},
         fallback' = [fallback EXCEPT !.status = "ACTIVE", !.original = FSM!NoCandidate]
  PROVE  FallbackInv'
<1> DEFINE s == fallback
           t == fallback'
<1>1. /\ t.status = "ACTIVE" /\ t.failure = s.failure /\ t.attempted = s.attempted
      /\ t.current = s.current /\ t.policy = s.policy /\ t.used = s.used
      /\ t.primary = s.primary
  BY DEF FallbackInv, FallbackStates
<1>2. t \in FallbackStates
  BY DEF FallbackInv, FallbackStates
<1>3. FSM!HistoryConsistent(s) /\ FSM!StatusConsistent(s) /\ s.policy \in FSM!FallbackPolicies
  BY DEF FallbackInv, FSM!Parses
<1>4. FSM!HistoryConsistent(t)
  BY <1>1, <1>3 DEF FSM!HistoryConsistent
<1>5. \/ /\ s.used = 0 /\ s.primary = FSM!None
         /\ Len(s.attempted) = 1 /\ s.current = s.attempted[1]
      \/ /\ s.used = 1 /\ s.primary # FSM!None
         /\ Len(s.attempted) = 2 /\ s.current = s.attempted[2]
  BY <1>3 DEF FallbackInv, FSM!StatusConsistent
<1>6. /\ Len(t.attempted) = t.used + 1
      /\ t.current = t.attempted[Len(t.attempted)]
      /\ (t.used = 1) <=> (t.primary # FSM!None)
  <2>1. CASE s.used = 0 /\ s.primary = FSM!None /\ Len(s.attempted) = 1 /\ s.current = s.attempted[1]
    BY <1>1, <2>1
  <2>2. CASE s.used = 1 /\ s.primary # FSM!None /\ Len(s.attempted) = 2 /\ s.current = s.attempted[2]
    BY <1>1, <2>2
  <2> QED
    BY Zenon, <1>5, <2>1, <2>2
<1>7. FSM!StatusConsistent(t)
  BY <1>1, <1>6 DEF FSM!StatusConsistent
<1> QED
  BY <1>1, <1>2, <1>3, <1>4, <1>7 DEF FallbackInv, FSM!Parses

\* Falling back to another runtime.
LEMMA FallbackParses ==
  ASSUME FallbackInv, fallback.status = "ALLOCATING",
         NEW class, NEW c \in Candidate \cup {FSM!NoCandidate}, FSM!CanFallback(fallback, class, c),
         fallback' = FSM!FallbackRouted(fallback, class, c)
  PROVE  FallbackInv'
<1> DEFINE s == fallback
           t == fallback'
<1>1. /\ t.status = "FALLBACK_ROUTED" /\ t.failure = s.failure
      /\ t.attempted = <<s.current, c>> /\ t.current = c /\ t.original = s.current
      /\ t.policy = s.policy /\ t.used = 1 /\ t.primary = class
  BY DEF FallbackInv, FallbackStates, FSM!FallbackRouted
<1>2. /\ class \in FSM!EligibleFailures /\ s.policy.allowed /\ s.policy.maximum = 1
      /\ c # FSM!NoCandidate /\ c # s.current /\ c.runtime # s.current.runtime
  BY Zenon DEF FSM!CanFallback
<1>3. /\ class \in FSM!FailureClasses /\ class # FSM!None
  BY Zenon, <1>2, FailureNames
<1>4. s.current \in Candidate /\ c \in Candidate
  <2>1. FSM!StatusConsistent(s)
    BY DEF FallbackInv, FSM!Parses
  <2>2. Len(s.attempted) = 1 /\ s.current = s.attempted[1] /\ s.attempted \in Seq(Candidate)
    BY <2>1 DEF FSM!StatusConsistent, FallbackInv, FallbackStates
  <2>3. s.current \in Candidate
    BY <2>2
  <2> QED
    BY Zenon, <1>2, <2>3
<1>5. t \in FallbackStates
  <2>1. <<s.current, c>> \in Seq(Candidate)
    BY <1>4
  <2> QED
    BY <1>3, <1>4, <2>1 DEF FallbackInv, FallbackStates, FSM!FallbackRouted
<1>6. s.policy \in FSM!FallbackPolicies
  BY DEF FallbackInv, FallbackStates
<1>7. FSM!HistoryConsistent(t)
  BY <1>1, <1>2, <1>3 DEF FSM!HistoryConsistent
<1>8. FSM!StatusConsistent(t)
  BY <1>1, <1>3 DEF FSM!StatusConsistent
<1> QED
  BY <1>1, <1>5, <1>6, <1>7, <1>8 DEF FallbackInv, FSM!Parses

\* Whatever the candidates and the order of events: every state that
\* transitionFallbackState produces passes FallbackStateSchema.
THEOREM FallbackStatesParse == FSM!Spec => []StateParses
<1>1. FSM!Init => FallbackInv
  <2> SUFFICES ASSUME FSM!Init
               PROVE  FallbackInv
    BY Zenon
  <2>1. PICK p \in FSM!FallbackPolicies : fallback = FSM!CreateFallbackState(p)
    BY Zenon DEF FSM!Init
  <2>2. /\ fallback.status = "REQUESTED" /\ fallback.policy = p /\ fallback.attempted = << >>
        /\ fallback.used = 0 /\ fallback.primary = FSM!None
    BY <2>1 DEF FSM!CreateFallbackState
  <2>3. fallback \in FallbackStates
    BY <2>1 DEF FSM!CreateFallbackState, FallbackStates
  <2> QED
    BY <2>2, <2>3 DEF FallbackInv, FSM!Parses
<1>2. FallbackInv /\ [FSM!Next]_fallback => FallbackInv'
  <2> SUFFICES ASSUME FallbackInv, [FSM!Next]_fallback
               PROVE  FallbackInv'
    BY Zenon
  <2>1. CASE FSM!Next
    <3>1. PICK e \in FSM!Events : /\ FSM!Accepts(fallback, e)
                                  /\ fallback' = FSM!Apply(fallback, e)
      BY Zenon, <2>1 DEF FSM!Next
    <3>2. CASE e.type = "ROUTE_SELECTED"
      <4>1. fallback.status = "REQUESTED" /\ e.candidate \in Candidate
        BY <3>1, <3>2 DEF FSM!Accepts, FSM!Events
      <4>2. fallback' = [fallback EXCEPT !.status = "ROUTED", !.current = e.candidate,
                                         !.attempted = <<e.candidate>>]
        BY <3>1, <3>2 DEF FSM!Apply
      <4> QED
        BY Zenon, <4>1, <4>2, RouteSelectedParses
    <3>3. CASE e.type = "ROUTE_FAILED"
      <4>1. fallback.status \in {"REQUESTED", "ALLOCATING", "FALLBACK_ALLOCATING"}
        BY <3>1, <3>3 DEF FSM!Accepts
      <4>2. fallback' = FSM!FailedState(fallback, "no_compatible_candidate")
        BY <3>1, <3>3 DEF FSM!Apply
      <4> QED
        BY Zenon, <4>1, <4>2, FailureNames, FailedParses
    <3>4. CASE e.type = "ALLOCATION_STARTED"
      <4>1. fallback.status \in {"ROUTED", "FALLBACK_ROUTED"}
        BY <3>1, <3>4 DEF FSM!Accepts
      <4>2. fallback' = [fallback EXCEPT !.status = IF fallback.status = "ROUTED" THEN "ALLOCATING"
                                                    ELSE "FALLBACK_ALLOCATING"]
        BY <3>1, <3>4 DEF FSM!Apply
      <4> QED
        BY Zenon, <4>1, <4>2, StartedParses
    <3>5. CASE e.type = "ALLOCATION_SUCCEEDED"
      <4>1. fallback.status \in {"ALLOCATING", "FALLBACK_ALLOCATING"}
        BY <3>1, <3>5 DEF FSM!Accepts
      <4>2. fallback' = [fallback EXCEPT !.status = "ACTIVE", !.original = FSM!NoCandidate]
        BY <3>1, <3>5 DEF FSM!Apply
      <4> QED
        BY Zenon, <4>1, <4>2, SucceededParses
    <3>6. CASE e.type = "ALLOCATION_FAILED"
      <4>1. /\ fallback.status \in {"ALLOCATING", "FALLBACK_ALLOCATING"}
            /\ e.class \in FSM!FailureClasses
            /\ e.candidate \in Candidate \cup {FSM!NoCandidate}
        BY <3>1, <3>6 DEF FSM!Accepts, FSM!Events
      <4>2. fallback' = IF /\ fallback.status = "ALLOCATING"
                           /\ FSM!CanFallback(fallback, e.class, e.candidate)
                        THEN FSM!FallbackRouted(fallback, e.class, e.candidate)
                        ELSE FSM!FailedState(fallback, e.class)
        BY <3>1, <3>6 DEF FSM!Apply
      <4>3. CASE /\ fallback.status = "ALLOCATING"
                 /\ FSM!CanFallback(fallback, e.class, e.candidate)
        BY Zenon, <4>1, <4>2, <4>3, FallbackParses
      <4>4. CASE ~ (/\ fallback.status = "ALLOCATING"
                    /\ FSM!CanFallback(fallback, e.class, e.candidate))
        <5>1. fallback' = FSM!FailedState(fallback, e.class)
          BY Zenon, <4>2, <4>4
        <5>2. fallback.status \in {"REQUESTED", "ALLOCATING", "FALLBACK_ALLOCATING"}
          BY Zenon, <4>1
        <5> QED
          BY Zenon, <4>1, <5>1, <5>2, FailedParses
      <4> QED
        BY Zenon, <4>3, <4>4
    <3>7. e.type \in {"ROUTE_SELECTED", "ROUTE_FAILED", "ALLOCATION_STARTED",
                      "ALLOCATION_SUCCEEDED", "ALLOCATION_FAILED"}
      BY DEF FSM!Events
    <3> QED
      BY Zenon, <3>2, <3>3, <3>4, <3>5, <3>6, <3>7
  <2>2. CASE UNCHANGED fallback
    BY Zenon, <2>2 DEF FallbackInv
  <2> QED
    BY Zenon, <2>1, <2>2
<1>3. FallbackInv => StateParses
  BY Zenon DEF FallbackInv, StateParses, FSM!StateParses
<1> QED
  BY <1>1, <1>2, <1>3, PTL DEF FSM!Spec

-----------------------------------------------------------------------------
(* The service                                                               *)

\* An eligible candidate of a decision is the one of an eligible source.
LEMMA EligibleCandidate ==
  ASSUME NEW in, WellFormed(in)
  PROVE  LET e == RouteBrowserRuntime(in).eligible
         IN  /\ DOMAIN e = 1..Len(e) /\ Len(e) \in Nat
             /\ \A i \in DOMAIN e : \E j \in DOMAIN in.sources :
                  /\ e[i].candidate = Identity(ToCandidate(in.sources[j]))
                  /\ Eligible(ToCandidate(in.sources[j]), in)
<1> DEFINE e == RouteBrowserRuntime(in).eligible
           n == Cardinality(Scored(in))
<1>1. e = Explained(Ranking(in))
  BY Zenon, DecisionParts
<1>2. Explains(e, Ranking(in), n)
  BY Zenon, <1>1, ExplainedParts
<1>3. /\ n \in Nat /\ DOMAIN e = 1..n /\ Len(e) = n
      /\ \A i \in 1..n : e[i].candidate = Ranking(in)[i].candidate
  BY Zenon, <1>2 DEF Explains
<1>4. Ranking(in) \in [1..n -> Scored(in)]
  BY Zenon, RankedLists DEF Ranking, Lists
<1>5. ASSUME NEW i \in 1..n
      PROVE  \E j \in DOMAIN in.sources :
               /\ e[i].candidate = Identity(ToCandidate(in.sources[j]))
               /\ Eligible(ToCandidate(in.sources[j]), in)
  <2>1. Ranking(in)[i] \in Scored(in)
    BY Zenon, <1>4
  <2>2. PICK k \in EligibleAt(in) :
          Ranking(in)[i] = ScoreEligibleCandidate(Candidates(in)[k], in)
    BY Zenon, <2>1 DEF Scored
  <2>3. k \in 1..Number(in) /\ Eligible(Candidates(in)[k], in)
    BY Zenon DEF EligibleAt
  <2>4. Candidates(in)[k] \in CandidateSet(in.sources)
    BY Zenon, <2>3, CandidatesListed
  <2>5. PICK j \in DOMAIN in.sources : Candidates(in)[k] = ToCandidate(in.sources[j])
    BY Zenon, <2>4 DEF CandidateSet
  <2>6. ScoreEligibleCandidate(Candidates(in)[k], in).candidate = Identity(Candidates(in)[k])
    BY Zenon, ScoredParts
  <2>7. e[i].candidate = Identity(ToCandidate(in.sources[j]))
    BY Zenon, <1>3, <2>2, <2>5, <2>6
  <2> QED
    BY Zenon, <2>3, <2>5, <2>7
<1> QED
  BY Zenon, <1>3, <1>5

\* The answers of a health probe.
Probes == {"ok", "PROVIDER_RATE_LIMITED", "PROVIDER_CONNECTION_FAILED",
           "PROVIDER_OPERATION_TIMEOUT"}

\* What the service is asked and what it finds.
Asked == request \in Requests /\ probes \in [Runtimes -> Probes]

\* What the service tells the router.
LEMMA ServiceParts ==
  /\ RoutingInput.sources = RoutingSources
  /\ RoutingInput.requirements = request.capabilities
  /\ AllowFallback(RoutingInput) = (request.allowFallback /\ request.allowFallback)
  /\ AllowExperimental(RoutingInput) = (request.allowExperimental /\ request.allowExperimental)
BY DEF RoutingInput, AllowFallback, AllowExperimental

\* A capability of a runtime is supported, experimental, unknown or unsupported.
LEMMA ProfileCapabilities ==
  ASSUME NEW r \in Runtimes
  PROVE  [cap \in Capability |-> Capabilities(r)[cap]] \in [Capability -> SupportStates]
<1> SUFFICES ASSUME NEW cap \in Capability
             PROVE  Capabilities(r)[cap] \in SupportStates
  BY Zenon
<1>1. cap \in CapabilityNames
  BY Zenon, CapabilityAssumption
<1>2. KitesurfCapabilities[cap] \in SupportStates
  BY <1>1 DEF KitesurfCapabilities, SupportStates
<1>3. ChromiumCapabilities[cap] \in SupportStates
  BY <1>1 DEF ChromiumCapabilities, SupportStates
<1> QED
  BY Zenon, <1>2, <1>3 DEF Capabilities

\* The health of a provider.
LEMMA ProfileHealth ==
  ASSUME NEW p \in Probes
  PROVE  ProviderHealth(p) \in Healths
<1>1. ProviderHealth(p) \in [status : {"healthy", "degraded", "unavailable"},
                             configured : BOOLEAN,
                             capacity : {"available", "constrained", "exhausted", "unknown"}]
  BY DEF ProviderHealth, Probes
<1>2. ProviderHealth(p).configured
  BY DEF ProviderHealth, Probes
<1> QED
  BY Zenon, <1>1, <1>2 DEF Healths

\* The absence of a limit is a limit.
LEMMA UnlimitedDuration == Unlimited \in Durations
<1>1. Unlimited \in Nat /\ 1 <= Unlimited
  BY SMT DEF Unlimited
<1> QED
  BY SMT, <1>1 DEF Durations

\* The descriptors of the two profiles.
LEMMA SourceParses ==
  ASSUME Asked, NEW r \in Runtimes
  PROVE  /\ RoutingSource(r) \in Sources
         /\ RoutingSource(r).runtime = r
         /\ RoutingSource(r).capabilities = [cap \in Capability |-> Capabilities(r)[cap]]
         /\ CandidateID(RoutingSource(r)) = CandidateID(Profile(r))
<1>1. ProviderHealth(probes[r]) \in Healths
  BY Zenon, ProfileHealth DEF Asked
<1>2. [cap \in Capability |-> Capabilities(r)[cap]] \in [Capability -> SupportStates]
  BY Zenon, ProfileCapabilities
<1> DEFINE health == ProviderHealth(probes[r])
           capabilities == [cap \in Capability |-> Capabilities(r)[cap]]
<1>3. RoutingSource(r) = [provider |-> 1, runtime |-> r, region |-> 0, configured |-> TRUE,
                          health |-> health, capabilities |-> capabilities,
                          safety |-> [status |-> "allowed", maximumDuration |-> Unlimited]]
  BY Zenon DEF RoutingSource
<1>4. health \in Healths /\ capabilities \in [Capability -> SupportStates]
  BY Zenon, <1>1, <1>2
<1> HIDE DEF health, capabilities
<1>5. RoutingSource(r) \in Sources
  BY <1>3, <1>4, UnlimitedDuration DEF Sources
<1>6. RoutingSource(r).runtime = r /\ RoutingSource(r).capabilities = capabilities
  BY <1>3
<1>7. CandidateID(RoutingSource(r)) = CandidateID(Profile(r))
  BY <1>3 DEF CandidateID, Profile
<1> QED
  BY Zenon, <1>5, <1>6, <1>7 DEF capabilities

\* The two profiles are told apart.
LEMMA ProfilesDiffer ==
  /\ "chromium" \in Runtimes /\ "kitesurf" \in Runtimes
  /\ \A r \in Runtimes : r = "chromium" \/ r = "kitesurf"
  /\ CandidateID(Profile("chromium")) # CandidateID(Profile("kitesurf"))
<1>1. /\ CandidateID(Profile("chromium"))[2] = 1
      /\ CandidateID(Profile("kitesurf"))[2] = 2
  BY DEF CandidateID, Profile, RuntimeRank
<1> QED
  BY <1>1 DEF Runtimes

\* The service lists the two profiles.
LEMMA ServiceSources ==
  ASSUME Asked
  PROVE  /\ RoutingSources \in Seq(Sources) /\ RoutingSources # << >>
         /\ DOMAIN RoutingSources = {1, 2}
         /\ RoutingSources[1] = RoutingSource("chromium")
         /\ RoutingSources[2] = RoutingSource("kitesurf")
         /\ \A i, j \in DOMAIN RoutingSources :
              CandidateID(RoutingSources[i]) = CandidateID(RoutingSources[j]) => i = j
<1> DEFINE a == RoutingSource("chromium")
           b == RoutingSource("kitesurf")
<1>1. RoutingSources = <<a, b>>
  BY Zenon DEF RoutingSources
<1>2. a \in Sources /\ b \in Sources
  BY Zenon, ProfilesDiffer, SourceParses
<1>3. CandidateID(a) # CandidateID(b)
  BY Zenon, ProfilesDiffer, SourceParses
<1> HIDE DEF a, b
<1>4. /\ RoutingSources \in Seq(Sources) /\ RoutingSources # << >>
      /\ DOMAIN RoutingSources = {1, 2}
      /\ RoutingSources[1] = a /\ RoutingSources[2] = b
  BY <1>1, <1>2
<1>5. \A i, j \in {1, 2} : CandidateID(RoutingSources[i]) = CandidateID(RoutingSources[j]) => i = j
  BY Zenon, <1>3, <1>4
<1> QED
  BY Zenon, <1>4, <1>5 DEF a, b

\* What the service tells the router passes RoutingInputSchema.
LEMMA ServiceWellFormed ==
  ASSUME Asked
  PROVE  WellFormed(RoutingInput)
<1> DEFINE silent == [id \in CandidateIDs(RoutingSources) |-> NoSignal]
           policy == [allowedProviders |-> {1}, deniedProviders |-> {},
                      allowedRuntimes |-> Runtimes, deniedRuntimes |-> {},
                      preferredRuntime |-> request.preference,
                      maximumDuration |-> MaxSessionDuration, allowDegraded |-> TRUE,
                      allowFallback |-> request.allowFallback,
                      allowExperimental |-> request.allowExperimental]
           signals == [efficiency |-> silent, compatibility |-> silent, latency |-> silent]
<1>1. RoutingInput = [sources |-> RoutingSources, requirements |-> request.capabilities,
                      preference |-> request.preference,
                      allowFallback |-> request.allowFallback,
                      allowExperimental |-> request.allowExperimental,
                      duration |-> request.duration, policy |-> policy, signals |-> signals]
  BY Zenon DEF RoutingInput, CandidateIDs
<1>2. /\ request.capabilities \in [Capability -> RequirementStates]
      /\ request.preference \in Runtimes \cup {"auto"}
      /\ request.allowFallback \in BOOLEAN /\ request.allowExperimental \in BOOLEAN
      /\ request.duration \in 1..MaxSessionDuration
  BY Zenon DEF Asked, Requests
<1>3. request.duration \in Durations
  <2>1. MaxSessionDuration \in 1..Unlimited
    BY Zenon, DurationAssumption DEF Durations
  <2>2. Unlimited \in Nat
    BY Zenon, UnlimitedDuration, DurationsAre
  <2> QED
    BY SMT, <1>2, <2>1, <2>2 DEF Durations
<1>4. silent \in Signals(RoutingSources)
  BY Zenon DEF Signals
<1>5. policy \in Policies
  <2>1. {1} \in SUBSET Nat /\ {} \in SUBSET Nat /\ Runtimes \in SUBSET Runtimes
        /\ {} \in SUBSET Runtimes
    BY SMT
  <2> QED
    BY SMT, <1>2, <2>1, DurationAssumption DEF Policies
<1>6. signals \in [efficiency : Signals(RoutingSources), compatibility : Signals(RoutingSources),
                   latency : Signals(RoutingSources)]
  BY Zenon, <1>4
<1> HIDE DEF silent, policy, signals
<1>7. RoutingInput \in RoutingInputs(RoutingSources)
  BY SMT, <1>1, <1>2, <1>3, <1>5, <1>6 DEF RoutingInputs
<1>8. RoutingInput.sources = RoutingSources
  BY Zenon, ServiceParts
<1> QED
  BY Zenon, <1>7, <1>8, ServiceSources DEF WellFormed

\* The candidates of the service, and whether a runtime has every capability
\* that the request requires.
ServiceCandidates == {[id |-> CandidateID(Profile(r)), runtime |-> r] : r \in Runtimes}
Fits(runtime) == \A cap \in Capability : SatisfiesRequirement(runtime, cap)
Fitting(c) == c \in ServiceCandidates /\ c.runtime \in Runtimes /\ Fits(c.runtime)

\* A candidate that the router accepts fits the request.
LEMMA EligibleFits ==
  ASSUME Asked, NEW r \in Runtimes, Eligible(ToCandidate(RoutingSource(r)), RoutingInput)
  PROVE  Fitting(Identity(ToCandidate(RoutingSource(r))))
<1> DEFINE c == ToCandidate(RoutingSource(r))
<1>1. /\ c.id = CandidateID(Profile(r)) /\ c.runtime = r
      /\ c.capabilities = [cap \in Capability |-> Capabilities(r)[cap]]
  <2>1. /\ c.id = CandidateID(RoutingSource(r)) /\ c.runtime = RoutingSource(r).runtime
        /\ c.capabilities = RoutingSource(r).capabilities
    BY Zenon, CandidateParts
  <2> QED
    BY Zenon, <2>1, SourceParses
<1>2. CapabilityReasons(c, RoutingInput) = {}
  BY Zenon, EligibleIff
<1>3. \A cap \in Capability : ~ Unmet(c, RoutingInput, cap)
  BY Zenon, <1>2, CapabilitiesIff
<1> HIDE DEF c
<1>4. Identity(c) = [id |-> CandidateID(Profile(r)), runtime |-> r]
  BY Zenon, <1>1 DEF Identity
<1>5. ASSUME NEW cap \in Capability
      PROVE  SatisfiesRequirement(r, cap)
  <2>1. ~ Unmet(c, RoutingInput, cap)
    BY Zenon, <1>3
  <2>2. c.capabilities[cap] = Capabilities(r)[cap]
    BY Zenon, <1>1
  <2> QED
    BY Zenon, <2>1, <2>2, ServiceParts DEF Unmet, SatisfiesRequirement
<1>6. Identity(c).runtime = r
  BY <1>4
<1>7. Identity(c) \in ServiceCandidates
  BY Zenon, <1>4 DEF ServiceCandidates
<1> QED
  BY Zenon, <1>5, <1>6, <1>7 DEF Fitting, Fits, c

\* Every eligible candidate fits; the selected one is the first of them.
LEMMA ServiceDecision ==
  ASSUME Asked
  PROVE  LET d == RouteBrowserRuntime(RoutingInput)
         IN  /\ DOMAIN d.eligible = 1..Len(d.eligible) /\ Len(d.eligible) \in Nat
             /\ \A i \in DOMAIN d.eligible : Fitting(d.eligible[i].candidate)
             /\ d.selected # NoSelection => Fitting(d.selected)
             /\ d.policy = [allowed |-> d.selected # NoSelection /\ request.allowFallback,
                            maximum |-> IF d.selected # NoSelection /\ request.allowFallback
                                        THEN 1 ELSE 0]
<1> DEFINE in == RoutingInput
           d == RouteBrowserRuntime(in)
           e == d.eligible
           won == Len(e) > 0
<1>1. WellFormed(in) /\ in.sources = RoutingSources
  BY Zenon, ServiceWellFormed, ServiceParts
<1>2. /\ DOMAIN e = 1..Len(e) /\ Len(e) \in Nat
      /\ \A i \in DOMAIN e : \E j \in DOMAIN in.sources :
                  /\ e[i].candidate = Identity(ToCandidate(in.sources[j]))
                  /\ Eligible(ToCandidate(in.sources[j]), in)
  BY Zenon, <1>1, EligibleCandidate
<1>3. ASSUME NEW i \in DOMAIN e
      PROVE  Fitting(e[i].candidate)
  <2>1. PICK j \in DOMAIN RoutingSources :
               /\ e[i].candidate = Identity(ToCandidate(RoutingSources[j]))
               /\ Eligible(ToCandidate(RoutingSources[j]), in)
    BY Zenon, <1>1, <1>2
  <2>2. \E r \in Runtimes : RoutingSources[j] = RoutingSource(r)
    BY Zenon, ServiceSources, ProfilesDiffer
  <2> QED
    BY Zenon, <2>1, <2>2, EligibleFits
<1>4. /\ d.selected = IF won THEN e[1].candidate ELSE NoSelection
      /\ d.policy = [allowed |-> won /\ AllowFallback(in),
                     maximum |-> IF won /\ AllowFallback(in) THEN 1 ELSE 0]
  BY Zenon, <1>1, DecisionParts
<1>5. ~ Fitting(NoSelection)
  BY DEF Fitting, NoSelection, Runtimes
<1>6. won => 1 \in DOMAIN e
  BY <1>2
<1>7. won <=> d.selected # NoSelection
  BY Zenon, <1>3, <1>4, <1>5, <1>6
<1>8. d.selected # NoSelection => Fitting(d.selected)
  BY Zenon, <1>3, <1>4, <1>6, <1>7
<1>9. AllowFallback(in) = request.allowFallback
  <2>1. request.allowFallback \in BOOLEAN
    BY Zenon DEF Asked, Requests
  <2> QED
    BY Zenon, <2>1, ServiceParts
<1>10. (won /\ AllowFallback(in)) = (d.selected # NoSelection /\ request.allowFallback)
  BY Zenon, <1>7, <1>9
<1> QED
  BY Zenon, <1>2, <1>3, <1>4, <1>8, <1>10

\* A fallback candidate fits, and is of another runtime than the selected one.
LEMMA FallbackFits ==
  ASSUME Asked, decision = RouteBrowserRuntime(RoutingInput), FallbackCandidates # << >>
  PROVE  /\ Fitting(Head(FallbackCandidates))
         /\ Head(FallbackCandidates).runtime # decision.selected.runtime
<1> DEFINE e == decision.eligible
           n == Len(e)
           s == [i \in DOMAIN e |-> e[i].candidate]
           I == {i \in DOMAIN s : s[i].runtime # decision.selected.runtime}
           f == FallbackCandidates
<1>1. DOMAIN e = 1..n /\ n \in Nat /\ \A i \in DOMAIN e : Fitting(e[i].candidate)
  BY Zenon, ServiceDecision
<1>2. f = Kept(s, I)
  BY Zenon DEF FallbackCandidates
<1>3. I \in Positions(n)
  BY Zenon, <1>1 DEF Positions
<1>4. \A i \in I : Fitting(s[i]) /\ s[i].runtime # decision.selected.runtime
  BY Zenon, <1>1
<1> HIDE DEF s, I, f, e, n
<1>5. Keeps(f, s, I)
  BY Zenon, <1>1, <1>2, <1>3, KeptIs
<1>6. Cardinality(I) \in Nat /\ f \in [1..Cardinality(I) -> {s[i] : i \in I}]
  BY Zenon, <1>5 DEF Keeps
<1>7. f \in Seq({s[i] : i \in I}) /\ f # << >>
  BY Zenon, <1>6, FunctionSeq DEF f
<1>8. Head(f) \in {s[i] : i \in I}
  BY <1>7
<1>9. PICK i \in I : Head(f) = s[i]
  BY Zenon, <1>8
<1> QED
  BY Zenon, <1>4, <1>9 DEF f

\* What a session row holds.
Rows ==
  [status : {"routing", "allocating", "fallback_allocating", "active", "failed"},
   runtime : Runtimes \cup {"none"}]

\* What is recorded of an attempt at candidate c.
Recorded(c) ==
  [candidate : {c}, status : {"started", "succeeded", "failed"},
   class : Policy!FailureClasses \cup {"none"}, eligible : BOOLEAN]

\* One attempt was made, at the selected candidate.
OneAttempt ==
  /\ decision.selected # NoSelection
  /\ attempts = <<attempts[1]>>
  /\ attempts[1] \in Recorded(decision.selected)

\* The first attempt failed such that there is a fallback.
Eligibly ==
  /\ decision.policy.allowed /\ FallbackCandidates # << >>
  /\ attempts[1].status = "failed" /\ attempts[1].eligible
  /\ attempts[1].class \in Policy!EligibleFailures

\* Two attempts were made, the second at the first fallback candidate.
TwoAttempts ==
  /\ decision.selected # NoSelection
  /\ attempts = <<attempts[1], attempts[2]>>
  /\ attempts[1] \in Recorded(decision.selected)
  /\ attempts[2] \in Recorded(Head(FallbackCandidates))
  /\ Eligibly

\* The inductive invariant: the decision is the one the router makes of the
\* request, and at every point of the service it is known which attempts were
\* made and which runtime the row names.
ServiceInv ==
  /\ Asked
  /\ row \in Rows
  /\ pc \in {"routing", "routed", "refused", "allocating", "fallback_routed",
             "fallback_refused", "fallback_allocating", "active", "failed"}
  /\ pc = "routing" => attempts = << >> /\ decision = [selected |-> NoSelection]
  /\ pc # "routing" => decision = RouteBrowserRuntime(RoutingInput)
  /\ pc \in {"routed", "refused"} =>
       /\ attempts = << >> /\ decision.selected # NoSelection
       /\ row.runtime = decision.selected.runtime
  /\ pc = "allocating" => OneAttempt /\ row.runtime = decision.selected.runtime
  /\ pc \in {"fallback_routed", "fallback_refused"} =>
       OneAttempt /\ Eligibly /\ row.runtime = Head(FallbackCandidates).runtime
  /\ pc = "fallback_allocating" => TwoAttempts /\ row.runtime = Head(FallbackCandidates).runtime
  /\ pc = "active" => \/ OneAttempt /\ row.runtime = decision.selected.runtime
                      \/ TwoAttempts /\ row.runtime = Head(FallbackCandidates).runtime
  /\ pc = "failed" => \/ attempts = << >> /\ decision.selected = NoSelection
                      \/ OneAttempt \/ TwoAttempts

\* What the router is told depends on the request and the probes.
LEMMA SameRouting ==
  ASSUME UNCHANGED <<request, probes>>
  PROVE  RoutingInput' = RoutingInput /\ Asked' = Asked
<1>1. request' = request /\ probes' = probes
  BY Zenon
<1>2. RoutingSources' = RoutingSources
  BY Zenon, <1>1 DEF RoutingSources, RoutingSource
<1> QED
  BY Zenon, <1>1, <1>2 DEF RoutingInput, Asked

\* The fallback candidates depend on the decision.
LEMMA SameFallbacks ==
  ASSUME UNCHANGED decision
  PROVE  FallbackCandidates' = FallbackCandidates
BY Zenon DEF FallbackCandidates

\* The class of a failure of provider.allocate.
LEMMA ClassOf ==
  ASSUME NEW r, NEW code \in AllocationErrors(r)
  PROVE  Policy!AllocationFailureClass[code] \in Policy!FailureClasses
<1>1. code \in Policy!ProviderErrorCodes
  <2>1. {"PROVIDER_OPERATION_ABORTED", "PROVIDER_UNSUPPORTED"} \subseteq Policy!ProviderErrorCodes
    BY DEF Policy!ProviderErrorCodes, Policy!AllocationFailureClass
  <2> QED
    BY Zenon, <2>1 DEF AllocationErrors, ProviderErrorCodes
<1> QED
  BY <1>1 DEF Policy!ProviderErrorCodes, Policy!AllocationFailureClass, Policy!FailureClasses,
              Policy!EligibleFailures

\* A new attempt is recorded.
LEMMA Started ==
  ASSUME NEW c
  PROVE  Attempt(c) \in Recorded(c)
BY DEF Attempt, Recorded

\* An attempt after it has been completed.
Closed(a, status, class, eligible) ==
  [a EXCEPT !.status = status, !.class = class, !.eligible = eligible]

\* An attempt that is completed stays recorded.
LEMMA CompletedIs ==
  ASSUME NEW c, NEW a \in Recorded(c), NEW status \in {"succeeded", "failed"},
         NEW class \in Policy!FailureClasses \cup {"none"}, NEW eligible \in BOOLEAN
  PROVE  LET b == Closed(a, status, class, eligible)
         IN  /\ b \in Recorded(c) /\ b.status = status /\ b.class = class
             /\ b.eligible = eligible
BY DEF Closed, Recorded

\* Completing the only attempt closes it.
LEMMA CompletedOne ==
  ASSUME NEW a, attempts = <<a>>, NEW status, NEW class, NEW eligible
  PROVE  Completed(status, class, eligible)
           = <<Closed(a, status, class, eligible)>>
<1> DEFINE b == Closed(a, status, class, eligible)
<1>1. Len(attempts) = 1 /\ attempts[1] = a
  OBVIOUS
<1>2. Completed(status, class, eligible) = [attempts EXCEPT ![1] = b]
  BY Zenon, <1>1 DEF Completed, Closed
<1> HIDE DEF b
<1>3. [attempts EXCEPT ![1] = b] = <<b>>
  OBVIOUS
<1> QED
  BY Zenon, <1>2, <1>3 DEF b

\* Completing the last of two attempts closes the second.
LEMMA CompletedTwo ==
  ASSUME NEW z, NEW a, attempts = <<z, a>>, NEW status, NEW class, NEW eligible
  PROVE  Completed(status, class, eligible)
           = <<z, Closed(a, status, class, eligible)>>
<1> DEFINE b == Closed(a, status, class, eligible)
<1>1. Len(attempts) = 2 /\ attempts[2] = a
  OBVIOUS
<1>2. Completed(status, class, eligible) = [attempts EXCEPT ![2] = b]
  BY Zenon, <1>1 DEF Completed, Closed
<1> HIDE DEF b
<1>3. [attempts EXCEPT ![2] = b] = <<z, b>>
  OBVIOUS
<1> QED
  BY Zenon, <1>2, <1>3 DEF b

\* The row before and after a change of its status.
LEMMA RowStatus ==
  ASSUME NEW status \in {"active", "failed"}, row' = [row EXCEPT !.status = status],
         row \in Rows
  PROVE  row'.runtime = row.runtime /\ row' \in Rows
BY DEF Rows

\* The decision, the request and the probes are kept by the steps that follow
\* the decision; what they say of the attempts is then the same.
LEMMA KeepDecision ==
  ASSUME ServiceInv, pc # "routing", UNCHANGED <<request, probes, decision>>
  PROVE  /\ Asked' /\ decision' = decision
         /\ decision' = RouteBrowserRuntime(RoutingInput)'
         /\ FallbackCandidates' = FallbackCandidates
<1>1. /\ UNCHANGED <<request, probes>> /\ UNCHANGED decision
  BY Zenon
<1>2. Asked /\ decision = RouteBrowserRuntime(RoutingInput)
  BY Zenon DEF ServiceInv
<1> QED
  BY Zenon, <1>1, <1>2, SameRouting, SameFallbacks

\* Deciding.
LEMMA DecideStep ==
  ASSUME ServiceInv, Decide
  PROVE  ServiceInv'
<1> DEFINE d == RouteBrowserRuntime(RoutingInput)
<1>1. /\ pc = "routing" /\ decision' = d /\ attempts' = attempts
      /\ UNCHANGED <<request, probes>>
  BY Zenon DEF Decide
<1>2. /\ Asked' /\ RoutingInput' = RoutingInput /\ attempts' = << >> /\ Asked
  BY Zenon, <1>1, SameRouting DEF ServiceInv
<1>3. decision' = RouteBrowserRuntime(RoutingInput)'
  BY Zenon, <1>1, <1>2
<1>4. d.selected # NoSelection => Fitting(d.selected)
  BY Zenon, <1>2, ServiceDecision
<1>5. CASE decision'.selected = NoSelection
  <2>1. pc' = "failed" /\ row' = [row EXCEPT !.status = "failed"]
    BY Zenon, <1>5 DEF Decide
  <2>2. row' \in Rows
    BY Zenon, <2>1, RowStatus DEF ServiceInv
  <2> QED
    BY <1>2, <1>3, <1>5, <2>1, <2>2 DEF ServiceInv
<1>6. CASE decision'.selected # NoSelection
  <2>1. pc' = "routed" /\ row' = [status |-> "allocating", runtime |-> decision'.selected.runtime]
    BY Zenon, <1>6 DEF Decide
  <2>2. decision'.selected.runtime \in Runtimes
    BY Zenon, <1>1, <1>4, <1>6 DEF Fitting
  <2>3. row' \in Rows /\ row'.runtime = decision'.selected.runtime
    BY <2>1, <2>2 DEF Rows
  <2> QED
    BY <1>2, <1>3, <1>6, <2>1, <2>3 DEF ServiceInv
<1> QED
  BY Zenon, <1>5, <1>6

\* A sequence of one element and another one.
LEMMA AppendToOne ==
  ASSUME NEW x, NEW y
  PROVE  /\ Append(<<x>>, y) = <<x, y>>
         /\ <<x, y>>[1] = x /\ <<x, y>>[2] = y
<1> DEFINE T == {x, y}
           s == <<x>>
           t == Append(s, y)
<1>1. s \in Seq(T) /\ y \in T /\ Len(s) = 1 /\ s[1] = x
  OBVIOUS
<1>2. t[2] = y
  OBVIOUS
<1> HIDE DEF T, s
<1>3. t \in Seq(T) /\ Len(t) = 2
  BY <1>1
<1>4. t[1] = x
  BY <1>1
<1> HIDE DEF t
<1>5. t = <<x, y>>
  BY <1>2, <1>3, <1>4
<1> QED
  BY <1>5 DEF s, t

\* Starting the first attempt, and the second.
LEMMA StartStep ==
  ASSUME ServiceInv, StartAttempt
  PROVE  ServiceInv'
<1>1. UNCHANGED <<request, probes, decision>> /\ row' = row /\ row' \in Rows
  BY Zenon DEF StartAttempt, ServiceInv
<1>2. CASE pc = "routed" /\ pc' = "allocating" /\ attempts' = <<Attempt(decision.selected)>>
  <2>1. /\ Asked' /\ decision' = decision /\ decision' = RouteBrowserRuntime(RoutingInput)'
    BY <1>1, <1>2, KeepDecision
  <2>2. decision.selected # NoSelection /\ row.runtime = decision.selected.runtime
    BY Zenon, <1>2 DEF ServiceInv
  <2>3. attempts'[1] = Attempt(decision.selected)
    BY <1>2
  <2>4. OneAttempt'
    BY Zenon, <1>2, <2>1, <2>2, <2>3, Started DEF OneAttempt, Recorded
  <2> QED
    BY <1>1, <1>2, <2>1, <2>2, <2>4 DEF ServiceInv
<1>3. CASE /\ pc = "fallback_routed" /\ pc' = "fallback_allocating"
           /\ attempts' = Append(attempts, Attempt(Head(FallbackCandidates)))
  <2>1. /\ Asked' /\ decision' = decision /\ decision' = RouteBrowserRuntime(RoutingInput)'
        /\ FallbackCandidates' = FallbackCandidates
    BY <1>1, <1>3, KeepDecision
  <2>2. OneAttempt /\ Eligibly /\ row.runtime = Head(FallbackCandidates).runtime
    BY Zenon, <1>3 DEF ServiceInv
  <2> DEFINE a == attempts[1]
             b == Attempt(Head(FallbackCandidates))
  <2>3. b \in Recorded(Head(FallbackCandidates))
    BY Zenon, Started
  <2>4. attempts = <<a>> /\ attempts' = Append(attempts, b)
    BY Zenon, <1>3, <2>2 DEF OneAttempt
  <2> HIDE DEF a, b
  <2>5. attempts' = <<a, b>> /\ attempts'[1] = a /\ attempts'[2] = b
    <3>1. Append(<<a>>, b) = <<a, b>> /\ <<a, b>>[1] = a /\ <<a, b>>[2] = b
      BY Zenon, AppendToOne
    <3> QED
      BY Zenon, <2>4, <3>1
  <2>6. Eligibly'
    BY Zenon, <2>1, <2>2, <2>5 DEF Eligibly, a
  <2>7. TwoAttempts'
    BY Zenon, <2>1, <2>2, <2>3, <2>5, <2>6 DEF OneAttempt, TwoAttempts, Recorded, a
  <2> QED
    BY <1>1, <1>3, <2>1, <2>2, <2>7 DEF ServiceInv
<1> QED
  BY Zenon, <1>2, <1>3 DEF StartAttempt

\* A refused target leaves the attempts as they were.
LEMMA RefuseStep ==
  ASSUME ServiceInv, TargetRefused
  PROVE  ServiceInv'
<1>1. /\ UNCHANGED <<request, probes, decision>> /\ attempts' = attempts
      /\ row' = [row EXCEPT !.status = "failed"] /\ row \in Rows
  BY Zenon DEF TargetRefused, ServiceInv
<1>2. row' \in Rows /\ row'.runtime = row.runtime
  BY Zenon, <1>1, RowStatus
<1>3. pc # "routing"
  BY DEF TargetRefused
<1>4. /\ Asked' /\ decision' = decision /\ decision' = RouteBrowserRuntime(RoutingInput)'
      /\ FallbackCandidates' = FallbackCandidates
  BY Zenon, <1>1, <1>3, KeepDecision
<1>5. CASE pc = "routed" /\ pc' = "refused"
  <2>1. /\ attempts = << >> /\ decision.selected # NoSelection
        /\ row.runtime = decision.selected.runtime
    BY Zenon, <1>5 DEF ServiceInv
  <2> QED
    BY <1>1, <1>2, <1>4, <1>5, <2>1 DEF ServiceInv
<1>6. CASE pc = "fallback_routed" /\ pc' = "fallback_refused"
  <2>1. OneAttempt /\ Eligibly /\ row.runtime = Head(FallbackCandidates).runtime
    BY Zenon, <1>6 DEF ServiceInv
  <2>2. OneAttempt' /\ Eligibly'
    BY Zenon, <1>1, <1>4, <2>1 DEF OneAttempt, Eligibly, Recorded
  <2> QED
    BY <1>2, <1>4, <1>6, <2>1, <2>2 DEF ServiceInv
<1> QED
  BY Zenon, <1>5, <1>6 DEF TargetRefused

\* The only attempt after its completion.
LEMMA OneCompleted ==
  ASSUME ServiceInv, pc # "routing", UNCHANGED <<request, probes, decision>>, OneAttempt,
         NEW status \in {"succeeded", "failed"},
         NEW class \in Policy!FailureClasses \cup {"none"}, NEW eligible \in BOOLEAN,
         attempts' = Completed(status, class, eligible)
  PROVE  /\ OneAttempt'
         /\ attempts'[1].status = status /\ attempts'[1].class = class
         /\ attempts'[1].eligible = eligible
<1> DEFINE a == attempts[1]
           b == Closed(a, status, class, eligible)
<1>1. attempts = <<a>> /\ a \in Recorded(decision.selected) /\ decision.selected # NoSelection
  BY Zenon DEF OneAttempt
<1>2. attempts' = <<b>>
  BY Zenon, <1>1, CompletedOne
<1>3. /\ b \in Recorded(decision.selected) /\ b.status = status /\ b.class = class
      /\ b.eligible = eligible
  <2> HIDE DEF a
  <2> QED
    BY <1>1, CompletedIs
<1> HIDE DEF b
<1>4. attempts'[1] = b
  BY <1>2
<1> QED
  BY Zenon, <1>1, <1>2, <1>3, <1>4 DEF OneAttempt, Recorded

\* Two attempts after the completion of the second.
LEMMA TwoCompleted ==
  ASSUME ServiceInv, pc # "routing", UNCHANGED <<request, probes, decision>>, TwoAttempts,
         NEW status \in {"succeeded", "failed"},
         NEW class \in Policy!FailureClasses \cup {"none"}, NEW eligible \in BOOLEAN,
         attempts' = Completed(status, class, eligible)
  PROVE  TwoAttempts' /\ attempts'[1] = attempts[1] /\ attempts'[2].class = class
<1> DEFINE z == attempts[1]
           a == attempts[2]
           b == Closed(a, status, class, eligible)
           c == Head(FallbackCandidates)
<1>1. /\ attempts = <<z, a>> /\ a \in Recorded(c) /\ z \in Recorded(decision.selected)
      /\ decision.selected # NoSelection /\ Eligibly
  BY Zenon DEF TwoAttempts
<1>2. attempts' = <<z, b>>
  <2> HIDE DEF a, z
  <2> QED
    BY <1>1, CompletedTwo
<1>3. b \in Recorded(c) /\ b.class = class
  <2> HIDE DEF a, c
  <2> QED
    BY <1>1, CompletedIs
<1> HIDE DEF b
<1>4. attempts'[1] = z /\ attempts'[2] = b
  BY <1>2
<1>5. decision' = decision /\ FallbackCandidates' = FallbackCandidates
  BY Zenon, KeepDecision
<1>6. Eligibly'
  BY Zenon, <1>1, <1>4, <1>5 DEF Eligibly
<1> QED
  BY Zenon, <1>1, <1>2, <1>3, <1>4, <1>5, <1>6 DEF TwoAttempts, Recorded

\* An allocation that succeeds.
LEMMA SucceedStep ==
  ASSUME ServiceInv, AllocationSucceeds
  PROVE  ServiceInv'
<1>1. /\ pc \in {"allocating", "fallback_allocating"} /\ pc' = "active"
      /\ row' = [row EXCEPT !.status = "active"]
      /\ attempts' = Completed("succeeded", "none", FALSE)
      /\ UNCHANGED <<request, probes, decision>> /\ row \in Rows
  BY Zenon DEF AllocationSucceeds, ServiceInv
<1>2. row'.runtime = row.runtime /\ row' \in Rows
  BY Zenon, <1>1, RowStatus
<1>3. pc # "routing"
  BY <1>1
<1>4. /\ Asked' /\ decision' = decision /\ decision' = RouteBrowserRuntime(RoutingInput)'
      /\ FallbackCandidates' = FallbackCandidates
  BY Zenon, <1>1, <1>3, KeepDecision
<1>5. CASE pc = "allocating"
  <2>1. OneAttempt /\ row.runtime = decision.selected.runtime
    BY Zenon, <1>5 DEF ServiceInv
  <2>2. OneAttempt'
    BY <1>1, <1>3, <2>1, OneCompleted
  <2> QED
    BY <1>1, <1>2, <1>4, <2>1, <2>2 DEF ServiceInv
<1>6. CASE pc = "fallback_allocating"
  <2>1. TwoAttempts /\ row.runtime = Head(FallbackCandidates).runtime
    BY Zenon, <1>6 DEF ServiceInv
  <2>2. TwoAttempts'
    BY <1>1, <1>3, <2>1, TwoCompleted
  <2> QED
    BY <1>1, <1>2, <1>4, <2>1, <2>2 DEF ServiceInv
<1> QED
  BY Zenon, <1>1, <1>5, <1>6

\* A first allocation fails with some class of failure, which is recorded.
LEMMA PrimaryClass ==
  ASSUME ServiceInv, PrimaryFails
  PROVE  \E class \in Policy!FailureClasses :
           /\ OneAttempt' /\ attempts'[1].status = "failed" /\ attempts'[1].class = class
           /\ attempts'[1].eligible = (class \in Policy!EligibleFailures)
           /\ IF FallsBack(class)
              THEN pc' = "fallback_routed" /\ row' = BeginFallback
              ELSE pc' = "failed" /\ row' = [row EXCEPT !.status = "failed"]
<1>1. PICK code \in AllocationErrors(attempts[1].candidate.runtime) :
       LET class == Policy!AllocationFailureClass[code]
       IN  /\ attempts' = Completed("failed", class, class \in Policy!EligibleFailures)
           /\ IF FallsBack(class)
              THEN pc' = "fallback_routed" /\ row' = BeginFallback
              ELSE pc' = "failed" /\ row' = [row EXCEPT !.status = "failed"]
  BY Zenon DEF PrimaryFails
<1> DEFINE class == Policy!AllocationFailureClass[code]
           eligible == class \in Policy!EligibleFailures
<1>2. class \in Policy!FailureClasses
  BY Zenon, ClassOf
<1>3. pc # "routing" /\ UNCHANGED <<request, probes, decision>>
  BY DEF PrimaryFails
<1>4. OneAttempt
  BY Zenon DEF PrimaryFails, ServiceInv
<1>5. eligible \in BOOLEAN
  OBVIOUS
<1>6. attempts' = Completed("failed", class, eligible)
  BY Zenon, <1>1
<1> HIDE DEF class, eligible
<1>7. /\ OneAttempt' /\ attempts'[1].status = "failed" /\ attempts'[1].class = class
      /\ attempts'[1].eligible = eligible
  BY <1>2, <1>3, <1>4, <1>5, <1>6, OneCompleted
<1> QED
  BY Zenon, <1>1, <1>2, <1>7 DEF class, eligible

\* After it, the service falls back or fails.
LEMMA PrimaryStep ==
  ASSUME ServiceInv, PrimaryFails
  PROVE  ServiceInv'
<1>1. pc = "allocating" /\ UNCHANGED <<request, probes, decision>> /\ row \in Rows
  BY Zenon DEF PrimaryFails, ServiceInv
<1>2. PICK class \in Policy!FailureClasses :
           /\ OneAttempt' /\ attempts'[1].status = "failed" /\ attempts'[1].class = class
           /\ attempts'[1].eligible = (class \in Policy!EligibleFailures)
           /\ IF FallsBack(class)
              THEN pc' = "fallback_routed" /\ row' = BeginFallback
              ELSE pc' = "failed" /\ row' = [row EXCEPT !.status = "failed"]
  BY Zenon, PrimaryClass
<1>3. pc # "routing"
  BY <1>1
<1>4. /\ Asked' /\ decision' = decision /\ decision' = RouteBrowserRuntime(RoutingInput)'
      /\ FallbackCandidates' = FallbackCandidates
  BY Zenon, <1>1, <1>3, KeepDecision
<1>5. CASE FallsBack(class)
  <2>1. pc' = "fallback_routed" /\ row' = BeginFallback
    BY Zenon, <1>2, <1>5
  <2>2. /\ class \in Policy!EligibleFailures /\ decision.policy.allowed
        /\ FallbackCandidates # << >>
    BY Zenon, <1>5 DEF FallsBack
  <2>3. Eligibly'
    BY Zenon, <1>2, <1>4, <2>2 DEF Eligibly
  <2>4. Head(FallbackCandidates).runtime \in Runtimes
    <3>1. Asked /\ decision = RouteBrowserRuntime(RoutingInput)
      BY Zenon, <1>3 DEF ServiceInv
    <3> QED
      BY Zenon, <2>2, <3>1, FallbackFits DEF Fitting
  <2>5. row' \in Rows /\ row'.runtime = Head(FallbackCandidates).runtime
    BY <2>1, <2>4 DEF BeginFallback, Rows
  <2> QED
    BY <1>2, <1>4, <2>1, <2>3, <2>5 DEF ServiceInv
<1>6. CASE ~ FallsBack(class)
  <2>1. pc' = "failed" /\ row' = [row EXCEPT !.status = "failed"]
    BY Zenon, <1>2, <1>6
  <2>2. row' \in Rows
    BY Zenon, <1>1, <2>1, RowStatus
  <2> QED
    BY <1>2, <1>4, <2>1, <2>2 DEF ServiceInv
<1> QED
  BY Zenon, <1>5, <1>6

\* A second allocation fails with some class of failure, which is recorded.
LEMMA SecondClass ==
  ASSUME ServiceInv, FallbackFails
  PROVE  \E class \in Policy!FailureClasses :
           TwoAttempts' /\ attempts'[1] = attempts[1] /\ attempts'[2].class = class
<1>1. PICK code \in AllocationErrors(attempts[2].candidate.runtime) :
         attempts' = Completed("failed", Policy!AllocationFailureClass[code], FALSE)
  BY Zenon DEF FallbackFails
<1> DEFINE class == Policy!AllocationFailureClass[code]
<1>2. class \in Policy!FailureClasses
  BY Zenon, ClassOf
<1>3. pc # "routing" /\ UNCHANGED <<request, probes, decision>>
  BY DEF FallbackFails
<1>4. TwoAttempts
  BY Zenon DEF FallbackFails, ServiceInv
<1>5. attempts' = Completed("failed", class, FALSE)
  BY Zenon, <1>1
<1> HIDE DEF class
<1>6. TwoAttempts' /\ attempts'[1] = attempts[1] /\ attempts'[2].class = class
  BY <1>2, <1>3, <1>4, <1>5, TwoCompleted
<1> QED
  BY Zenon, <1>2, <1>6

\* After it, the service fails.
LEMMA SecondStep ==
  ASSUME ServiceInv, FallbackFails
  PROVE  ServiceInv'
<1>1. /\ pc = "fallback_allocating" /\ UNCHANGED <<request, probes, decision>> /\ row \in Rows
      /\ pc' = "failed" /\ row' = [row EXCEPT !.status = "failed"]
  BY Zenon DEF FallbackFails, ServiceInv
<1>2. TwoAttempts'
  BY Zenon, SecondClass
<1>3. pc # "routing"
  BY <1>1
<1>4. /\ Asked' /\ decision' = decision /\ decision' = RouteBrowserRuntime(RoutingInput)'
      /\ FallbackCandidates' = FallbackCandidates
  BY Zenon, <1>1, <1>3, KeepDecision
<1>5. row' \in Rows
  BY Zenon, <1>1, RowStatus
<1> QED
  BY <1>1, <1>2, <1>4, <1>5 DEF ServiceInv

\* No step is no change.
LEMMA IdleStep ==
  ASSUME ServiceInv, UNCHANGED vars
  PROVE  ServiceInv'
<1>1. /\ UNCHANGED <<request, probes>> /\ UNCHANGED decision
      /\ pc' = pc /\ row' = row /\ attempts' = attempts /\ decision' = decision
  BY Zenon DEF vars
<1>2. /\ Asked' = Asked /\ RoutingInput' = RoutingInput
      /\ FallbackCandidates' = FallbackCandidates
  BY Zenon, <1>1, SameRouting, SameFallbacks
<1>3. OneAttempt' = OneAttempt /\ Eligibly' = Eligibly /\ TwoAttempts' = TwoAttempts
  BY Zenon, <1>1, <1>2 DEF OneAttempt, TwoAttempts, Eligibly, Recorded
<1> QED
  BY Zenon, <1>1, <1>2, <1>3 DEF ServiceInv

\* The invariant holds initially and every step preserves it.
LEMMA ServiceInvariant == Spec => []ServiceInv
<1>1. Init => ServiceInv
  BY DEF Init, ServiceInv, Asked, Probes, Rows
<1>2. ServiceInv /\ [Next]_vars => ServiceInv'
  BY Zenon, DecideStep, RefuseStep, StartStep, SucceedStep, PrimaryStep, SecondStep, IdleStep
     DEF Next
<1> QED
  BY <1>1, <1>2, PTL DEF Spec

\* Whatever the request, the quota and the answers of the providers: while an
\* attempt runs or has succeeded, the row names its runtime, that runtime has
\* every required capability, and an earlier attempt was closed as failed.
THEOREM AttemptsFit == Spec => []AttemptFits
<1>1. ServiceInv => AttemptFits
  <2> SUFFICES ASSUME ServiceInv, pc \in {"allocating", "fallback_allocating", "active"}
               PROVE  /\ row.runtime = attempts[Len(attempts)].candidate.runtime
                      /\ Fits(row.runtime)
                      /\ \A i \in 1..(Len(attempts) - 1) :
                           attempts[i].status = "failed" /\ attempts[i].eligible
    BY Zenon DEF AttemptFits, Fits
  <2>1. Asked /\ decision = RouteBrowserRuntime(RoutingInput)
    BY DEF ServiceInv
  <2>2. \/ OneAttempt /\ row.runtime = decision.selected.runtime
        \/ TwoAttempts /\ row.runtime = Head(FallbackCandidates).runtime
    BY Zenon DEF ServiceInv
  <2>3. CASE OneAttempt /\ row.runtime = decision.selected.runtime
    <3>1. Fits(row.runtime)
      BY Zenon, <2>1, <2>3, ServiceDecision DEF OneAttempt, Fitting
    <3> DEFINE a == attempts[1]
    <3>2. attempts = <<a>> /\ a.candidate = decision.selected
      BY Zenon, <2>3 DEF OneAttempt, Recorded
    <3> HIDE DEF a
    <3>3. Len(attempts) = 1 /\ attempts[1].candidate = decision.selected
      BY <3>2
    <3> QED
      BY <2>3, <3>1, <3>3
  <2>4. CASE TwoAttempts /\ row.runtime = Head(FallbackCandidates).runtime
    <3>1. Fits(row.runtime)
      BY Zenon, <2>1, <2>4, FallbackFits DEF TwoAttempts, Eligibly, Fitting
    <3> DEFINE a == attempts[1]
               b == attempts[2]
    <3>2. /\ attempts = <<a, b>> /\ b.candidate = Head(FallbackCandidates)
          /\ a.status = "failed" /\ a.eligible
      BY Zenon, <2>4 DEF TwoAttempts, Recorded, Eligibly
    <3> HIDE DEF a, b
    <3>3. Len(attempts) = 2 /\ attempts[1] = a /\ attempts[2] = b
      BY <3>2
    <3> QED
      BY <2>4, <3>1, <3>2, <3>3
  <2> QED
    BY Zenon, <2>2, <2>3, <2>4
<1> QED
  BY <1>1, ServiceInvariant, PTL

-----------------------------------------------------------------------------
(* The service implements the fallback policy                                *)

\* A state of the machine, by its fields.
View(status, policy, attempted, used, current, original, primary, failure) ==
  [status |-> status, policy |-> policy, attempted |-> attempted, used |-> used,
   current |-> current, original |-> original, primary |-> primary, failure |-> failure]

\* The candidate that was selected, the one to fall back to, and the policy.
First == decision.selected
Second == Head(FallbackCandidates)
Verdict == RouteBrowserRuntime(RoutingInput).policy

\* The state of the machine at every point of the service.
Seen ==
  /\ pc = "routing" =>
       MachineState = View("REQUESTED", Verdict, << >>, 0, NoSelection, NoSelection, "none", "none")
  /\ pc \in {"routed", "refused"} =>
       MachineState = View("ROUTED", Verdict, <<First>>, 0, First, NoSelection, "none", "none")
  /\ pc = "allocating" =>
       MachineState = View("ALLOCATING", Verdict, <<First>>, 0, First, NoSelection, "none", "none")
  /\ pc \in {"fallback_routed", "fallback_refused"} =>
       MachineState = View("FALLBACK_ROUTED", Verdict, <<First, Second>>, 1, Second, First,
                           attempts[1].class, "none")
  /\ pc = "fallback_allocating" =>
       MachineState = View("FALLBACK_ALLOCATING", Verdict, <<First, Second>>, 1, Second, First,
                           attempts[1].class, "none")
  /\ pc = "active" /\ OneAttempt =>
       MachineState = View("ACTIVE", Verdict, <<First>>, 0, First, NoSelection, "none", "none")
  /\ pc = "active" /\ TwoAttempts =>
       MachineState = View("ACTIVE", Verdict, <<First, Second>>, 1, Second, NoSelection,
                           attempts[1].class, "none")
  /\ pc = "failed" /\ attempts = << >> /\ First = NoSelection =>
       MachineState = View("FAILED", Verdict, << >>, 0, NoSelection, NoSelection, "none",
                           "no_compatible_candidate")
  /\ pc = "failed" /\ OneAttempt =>
       MachineState = View("FAILED", Verdict, <<First>>, 0, NoSelection, NoSelection, "none",
                           attempts[1].class)
  /\ pc = "failed" /\ TwoAttempts =>
       MachineState = View("FAILED", Verdict, <<First, Second>>, 1, NoSelection, NoSelection,
                           attempts[1].class, attempts[2].class)

\* The parts of the machine's state.
LEMMA MachineParts ==
  ASSUME ServiceInv
  PROVE  MachineState =
           View(MachineStatus, Verdict, MachineAttempted, IF UsedFallback THEN 1 ELSE 0,
                IF pc \in {"routing", "failed"} THEN NoSelection
                ELSE MachineAttempted[Len(MachineAttempted)],
                IF InFallback THEN First ELSE NoSelection,
                IF UsedFallback THEN attempts[1].class ELSE "none",
                IF pc # "failed" THEN "none"
                ELSE IF attempts = << >> THEN "no_compatible_candidate"
                ELSE attempts[Len(attempts)].class)
<1>1. (IF pc = "routing" THEN RouteBrowserRuntime(RoutingInput) ELSE decision).policy = Verdict
  BY Zenon DEF ServiceInv, Verdict
<1> QED
  BY Zenon, <1>1 DEF MachineState, View, First

\* How many attempts there are.
LEMMA AttemptCounts ==
  /\ attempts = << >> => Len(attempts) = 0
  /\ OneAttempt => Len(attempts) = 1 /\ attempts # << >>
  /\ TwoAttempts => Len(attempts) = 2 /\ attempts # << >>
<1> DEFINE a == attempts[1]
           b == attempts[2]
<1>1. attempts = << >> => Len(attempts) = 0
  OBVIOUS
<1>2. (OneAttempt => attempts = <<a>>) /\ (TwoAttempts => attempts = <<a, b>>)
  BY Zenon DEF OneAttempt, TwoAttempts
<1> HIDE DEF a, b
<1>3. attempts = <<a>> => Len(attempts) = 1 /\ attempts # << >>
  OBVIOUS
<1>4. attempts = <<a, b>> => Len(attempts) = 2 /\ attempts # << >>
  OBVIOUS
<1> QED
  BY Zenon, <1>1, <1>2, <1>3, <1>4

\* The last of the candidates that were attempted.
LEMMA LastOf ==
  ASSUME NEW x, NEW y
  PROVE  <<x>>[Len(<<x>>)] = x /\ <<x, y>>[Len(<<x, y>>)] = y
OBVIOUS

\* The machine before a fallback.
LEMMA ViewFirst ==
  ASSUME ServiceInv, NEW status, MachineStatus = status, pc \notin {"routing", "failed"},
         First # NoSelection, ~ UsedFallback, ~ InFallback
  PROVE  MachineState = View(status, Verdict, <<First>>, 0, First, NoSelection, "none", "none")
<1>1. MachineAttempted = <<First>>
  BY Zenon DEF MachineAttempted, First
<1>2. MachineAttempted[Len(MachineAttempted)] = First
  BY Zenon, <1>1, LastOf
<1>3. pc # "failed"
  BY Zenon
<1> QED
  BY Zenon, <1>1, <1>2, <1>3, MachineParts

\* The machine after a fallback.
LEMMA ViewSecond ==
  ASSUME ServiceInv, NEW status, MachineStatus = status, pc \notin {"routing", "failed"},
         First # NoSelection, UsedFallback
  PROVE  MachineState = View(status, Verdict, <<First, Second>>, 1, Second,
                             IF InFallback THEN First ELSE NoSelection,
                             attempts[1].class, "none")
<1>1. MachineAttempted = <<First, Second>>
  BY Zenon DEF MachineAttempted, First, Second
<1>2. MachineAttempted[Len(MachineAttempted)] = Second
  BY Zenon, <1>1, LastOf
<1>3. pc # "failed"
  BY Zenon
<1> QED
  BY Zenon, <1>1, <1>2, <1>3, MachineParts

\* The status of the machine at every point of the service.
LEMMA StatusAt ==
  /\ pc = "routing" => MachineStatus = "REQUESTED"
  /\ pc \in {"routed", "refused"} => MachineStatus = "ROUTED"
  /\ pc = "allocating" => MachineStatus = "ALLOCATING"
  /\ pc \in {"fallback_routed", "fallback_refused"} => MachineStatus = "FALLBACK_ROUTED"
  /\ pc = "fallback_allocating" => MachineStatus = "FALLBACK_ALLOCATING"
  /\ pc = "active" => MachineStatus = "ACTIVE"
  /\ pc = "failed" => MachineStatus = "FAILED"
BY DEF MachineStatus

\* The machine when the service has failed.
LEMMA ViewFailed ==
  ASSUME ServiceInv, pc = "failed"
  PROVE  MachineState = View("FAILED", Verdict, MachineAttempted, IF UsedFallback THEN 1 ELSE 0,
                             NoSelection, NoSelection,
                             IF UsedFallback THEN attempts[1].class ELSE "none",
                             IF attempts = << >> THEN "no_compatible_candidate"
                             ELSE attempts[Len(attempts)].class)
<1>1. pc \in {"routing", "failed"} /\ ~ (pc # "failed")
  BY Zenon
<1>2. ~ InFallback
  BY DEF InFallback
<1>3. MachineStatus = "FAILED"
  BY Zenon, StatusAt
<1> QED
  BY Zenon, <1>1, <1>2, <1>3, MachineParts

\* The machine's state at every point of the service.
LEMMA SeenAt == ServiceInv => Seen
<1> SUFFICES ASSUME ServiceInv
             PROVE  Seen
  BY Zenon
<1>1. ASSUME pc = "routing"
      PROVE  MachineState = View("REQUESTED", Verdict, << >>, 0, NoSelection, NoSelection,
                                 "none", "none")
  <2>1. attempts = << >> /\ decision = [selected |-> NoSelection]
    BY Zenon, <1>1 DEF ServiceInv
  <2>2. decision.selected = NoSelection
    BY <2>1
  <2>3. ~ InFallback /\ ~ UsedFallback
    BY <1>1, <2>1, AttemptCounts DEF InFallback, UsedFallback
  <2>4. MachineAttempted = << >>
    BY Zenon, <2>2 DEF MachineAttempted
  <2>5. pc \in {"routing", "failed"} /\ pc # "failed"
    BY <1>1
  <2> QED
    BY Zenon, <1>1, <2>3, <2>4, <2>5, StatusAt, MachineParts
<1>2. ASSUME pc \in {"routed", "refused"}
      PROVE  MachineState = View("ROUTED", Verdict, <<First>>, 0, First, NoSelection,
                                 "none", "none")
  <2>1. attempts = << >> /\ First # NoSelection
    BY Zenon, <1>2 DEF ServiceInv, First
  <2>2. ~ InFallback /\ ~ UsedFallback /\ pc \notin {"routing", "failed"}
    BY <1>2, <2>1, AttemptCounts DEF InFallback, UsedFallback
  <2> QED
    BY Zenon, <1>2, <2>1, <2>2, StatusAt, ViewFirst
<1>3. ASSUME pc = "allocating"
      PROVE  MachineState = View("ALLOCATING", Verdict, <<First>>, 0, First, NoSelection,
                                 "none", "none")
  <2>1. OneAttempt /\ First # NoSelection
    BY Zenon, <1>3 DEF ServiceInv, First, OneAttempt
  <2>2. ~ InFallback /\ ~ UsedFallback /\ pc \notin {"routing", "failed"}
    BY <1>3, <2>1, AttemptCounts DEF InFallback, UsedFallback
  <2> QED
    BY Zenon, <1>3, <2>1, <2>2, StatusAt, ViewFirst
<1>4. ASSUME pc \in {"fallback_routed", "fallback_refused", "fallback_allocating"}
      PROVE  MachineState = View(MachineStatus, Verdict, <<First, Second>>, 1, Second, First,
                                 attempts[1].class, "none")
  <2>1. First # NoSelection
    BY Zenon, <1>4 DEF ServiceInv, First, OneAttempt, TwoAttempts
  <2>2. InFallback /\ UsedFallback
    BY Zenon, <1>4 DEF InFallback, UsedFallback
  <2>3. pc \notin {"routing", "failed"}
    BY <1>4
  <2> QED
    BY Zenon, <2>1, <2>2, <2>3, ViewSecond
<1>5. ASSUME pc = "active", OneAttempt
      PROVE  MachineState = View("ACTIVE", Verdict, <<First>>, 0, First, NoSelection,
                                 "none", "none")
  <2>1. First # NoSelection
    BY Zenon, <1>5 DEF First, OneAttempt
  <2>2. ~ InFallback /\ ~ UsedFallback /\ pc \notin {"routing", "failed"}
    BY <1>5, AttemptCounts DEF InFallback, UsedFallback
  <2> QED
    BY Zenon, <1>5, <2>1, <2>2, StatusAt, ViewFirst
<1>6. ASSUME pc = "active", TwoAttempts
      PROVE  MachineState = View("ACTIVE", Verdict, <<First, Second>>, 1, Second, NoSelection,
                                 attempts[1].class, "none")
  <2>1. First # NoSelection
    BY Zenon, <1>6 DEF First, TwoAttempts
  <2>2. ~ InFallback /\ UsedFallback /\ pc \notin {"routing", "failed"}
    BY <1>6, AttemptCounts DEF InFallback, UsedFallback
  <2> QED
    BY Zenon, <1>6, <2>1, <2>2, StatusAt, ViewSecond
<1>7. ASSUME pc = "failed", attempts = << >>, First = NoSelection
      PROVE  MachineState = View("FAILED", Verdict, << >>, 0, NoSelection, NoSelection, "none",
                                 "no_compatible_candidate")
  <2>1. ~ UsedFallback
    BY <1>7, AttemptCounts DEF InFallback, UsedFallback
  <2>2. MachineAttempted = << >>
    BY Zenon, <1>7 DEF MachineAttempted, First
  <2> QED
    BY Zenon, <1>7, <2>1, <2>2, ViewFailed
<1>8. ASSUME pc = "failed", OneAttempt
      PROVE  MachineState = View("FAILED", Verdict, <<First>>, 0, NoSelection, NoSelection,
                                 "none", attempts[1].class)
  <2>1. ~ UsedFallback /\ Len(attempts) = 1 /\ attempts # << >>
    BY <1>8, AttemptCounts DEF InFallback, UsedFallback
  <2>2. MachineAttempted = <<First>>
    BY Zenon, <1>8, <2>1 DEF MachineAttempted, First, OneAttempt
  <2> QED
    BY Zenon, <1>8, <2>1, <2>2, ViewFailed
<1>9. ASSUME pc = "failed", TwoAttempts
      PROVE  MachineState = View("FAILED", Verdict, <<First, Second>>, 1, NoSelection,
                                 NoSelection, attempts[1].class, attempts[2].class)
  <2>1. UsedFallback /\ Len(attempts) = 2 /\ attempts # << >>
    BY <1>9, AttemptCounts DEF InFallback, UsedFallback
  <2>2. MachineAttempted = <<First, Second>>
    BY Zenon, <1>9, <2>1 DEF MachineAttempted, First, Second, TwoAttempts
  <2> QED
    BY Zenon, <1>9, <2>1, <2>2, ViewFailed
<1> QED
  BY Zenon, <1>1, <1>2, <1>3, <1>4, <1>5, <1>6, <1>7, <1>8, <1>9, StatusAt DEF Seen

\* And after a step.
LEMMA SeenAfter == ServiceInv' => Seen'
BY SeenAt, PTL

\* The machine and the service name the same things.
LEMMA SameNames ==
  /\ Machine!NoCandidate = NoSelection /\ Machine!None = "none"
  /\ Machine!EligibleFailures = Policy!EligibleFailures
  /\ Machine!FailureClasses = Policy!FailureClasses
BY DEF Machine!NoCandidate, Machine!None, NoSelection, Machine!EligibleFailures,
       Policy!EligibleFailures, Machine!FailureClasses, Policy!FailureClasses

\* The events of the machine.
LEMMA MachineEvents ==
  /\ \A c \in ServiceCandidates : [type |-> "ROUTE_SELECTED", candidate |-> c] \in Machine!Events
  /\ \A t \in {"ROUTE_FAILED", "ALLOCATION_STARTED", "ALLOCATION_SUCCEEDED"} :
       [type |-> t] \in Machine!Events
  /\ \A class \in Policy!FailureClasses, c \in ServiceCandidates \cup {NoSelection} :
       [type |-> "ALLOCATION_FAILED", class |-> class, candidate |-> c] \in Machine!Events
BY Zenon, SameNames DEF Machine!Events, ServiceCandidates

\* State s of the machine has these fields.
IsView(s, t, p, q, u, c, o, m, f) == s = View(t, p, q, u, c, o, m, f)

\* A state after a route was selected.
LEMMA ViewRouted ==
  ASSUME NEW s, NEW t, NEW p, NEW q, NEW u, NEW c, NEW o, NEW m, NEW f,
         IsView(s, t, p, q, u, c, o, m, f), NEW x, NEW y, NEW z
  PROVE  IsView([s EXCEPT !.status = x, !.current = y, !.attempted = z],
                x, p, z, u, y, o, m, f)
<1> DEFINE w == [s EXCEPT !.status = x, !.current = y, !.attempted = z]
<1>1. s = View(t, p, q, u, c, o, m, f)
  BY Zenon DEF IsView
<1>2. w \in [status : {x}, policy : {p}, attempted : {z}, used : {u}, current : {y},
             original : {o}, primary : {m}, failure : {f}]
  BY Zenon, <1>1 DEF View
<1> HIDE DEF w
<1>3. w = View(x, p, z, u, y, o, m, f)
  BY <1>2 DEF View
<1> QED
  BY Zenon, <1>3 DEF w, IsView

\* A state after an allocation succeeded.
LEMMA ViewActive ==
  ASSUME NEW s, NEW t, NEW p, NEW q, NEW u, NEW c, NEW o, NEW m, NEW f,
         IsView(s, t, p, q, u, c, o, m, f), NEW x, NEW y
  PROVE  IsView([s EXCEPT !.status = x, !.original = y],
                x, p, q, u, c, y, m, f)
<1> DEFINE w == [s EXCEPT !.status = x, !.original = y]
<1>1. s = View(t, p, q, u, c, o, m, f)
  BY Zenon DEF IsView
<1>2. w \in [status : {x}, policy : {p}, attempted : {q}, used : {u}, current : {c},
             original : {y}, primary : {m}, failure : {f}]
  BY Zenon, <1>1 DEF View
<1> HIDE DEF w
<1>3. w = View(x, p, q, u, c, y, m, f)
  BY <1>2 DEF View
<1> QED
  BY Zenon, <1>3 DEF w, IsView

\* A state after a failure.
LEMMA ViewFailing ==
  ASSUME NEW s, NEW t, NEW p, NEW q, NEW u, NEW c, NEW o, NEW m, NEW f,
         IsView(s, t, p, q, u, c, o, m, f), NEW x, NEW y, NEW z
  PROVE  IsView([s EXCEPT !.status = x, !.current = y, !.original = y, !.failure = z],
                x, p, q, u, y, y, m, z)
<1> DEFINE w == [s EXCEPT !.status = x, !.current = y, !.original = y, !.failure = z]
<1>1. s = View(t, p, q, u, c, o, m, f)
  BY Zenon DEF IsView
<1>2. w \in [status : {x}, policy : {p}, attempted : {q}, used : {u}, current : {y},
             original : {y}, primary : {m}, failure : {z}]
  BY Zenon, <1>1 DEF View
<1> HIDE DEF w
<1>3. w = View(x, p, q, u, y, y, m, z)
  BY <1>2 DEF View
<1> QED
  BY Zenon, <1>3 DEF w, IsView

\* The machine's first step.
LEMMA ApplyRoute ==
  ASSUME NEW p, NEW c, NEW s, NEW e,
         s = View("REQUESTED", p, << >>, 0, NoSelection, NoSelection, "none", "none")
  PROVE  /\ e = [type |-> "ROUTE_SELECTED", candidate |-> c] =>
              /\ Machine!Accepts(s, e)
              /\ Machine!Apply(s, e) = View("ROUTED", p, <<c>>, 0, c, NoSelection, "none", "none")
         /\ e = [type |-> "ROUTE_FAILED"] =>
              /\ Machine!Accepts(s, e)
              /\ Machine!Apply(s, e) = View("FAILED", p, << >>, 0, NoSelection, NoSelection,
                                            "none", "no_compatible_candidate")
<1> DEFINE q == <<c>>
           z == << >>
           n == NoSelection
<1>1. s = View("REQUESTED", p, z, 0, n, n, "none", "none")
  BY Zenon
<1>2. Machine!NoCandidate = n
  BY Zenon, SameNames
<1> HIDE DEF q, z, n
<1>3. ASSUME e = [type |-> "ROUTE_SELECTED", candidate |-> c]
      PROVE  /\ Machine!Accepts(s, e)
             /\ Machine!Apply(s, e) = View("ROUTED", p, q, 0, c, n, "none", "none")
  <2>1. e.type = "ROUTE_SELECTED" /\ e.candidate = c
    BY <1>3
  <2>2. Machine!Accepts(s, e)
    BY <1>1, <2>1 DEF Machine!Accepts, View
  <2>3. Machine!Apply(s, e) = [s EXCEPT !.status = "ROUTED", !.current = c, !.attempted = q]
    BY <2>1 DEF Machine!Apply, q
  <2>4. IsView(s, "REQUESTED", p, z, 0, n, n, "none", "none")
    BY Zenon, <1>1 DEF IsView
  <2>5. IsView([s EXCEPT !.status = "ROUTED", !.current = c, !.attempted = q],
               "ROUTED", p, q, 0, c, n, "none", "none")
    BY Zenon, <2>4, ViewRouted
  <2> QED
    BY Zenon, <2>2, <2>3, <2>5 DEF IsView
<1>4. ASSUME e = [type |-> "ROUTE_FAILED"]
      PROVE  /\ Machine!Accepts(s, e)
             /\ Machine!Apply(s, e) = View("FAILED", p, z, 0, n, n, "none",
                                           "no_compatible_candidate")
  <2>1. e.type = "ROUTE_FAILED"
    BY <1>4
  <2>2. Machine!Accepts(s, e)
    BY <1>1, <2>1 DEF Machine!Accepts, View
  <2>3. Machine!Apply(s, e) = Machine!FailedState(s, "no_compatible_candidate")
    BY <2>1 DEF Machine!Apply
  <2>4. IsView(s, "REQUESTED", p, z, 0, n, n, "none", "none")
    BY Zenon, <1>1 DEF IsView
  <2>5. IsView([s EXCEPT !.status = "FAILED", !.current = n, !.original = n,
                         !.failure = "no_compatible_candidate"],
               "FAILED", p, z, 0, n, n, "none", "no_compatible_candidate")
    BY Zenon, <2>4, ViewFailing
  <2> QED
    BY Zenon, <1>2, <2>2, <2>3, <2>5 DEF Machine!FailedState, IsView
<1> QED
  BY Zenon, <1>3, <1>4 DEF q, z, n

\* Event e takes the machine from state s to state v.
Moves(s, e, v) == Machine!Accepts(s, e) /\ Machine!Apply(s, e) = v

\* Starting the first allocation.
LEMMA ApplyStarted ==
  ASSUME NEW s, NEW p, NEW q, NEW u, NEW c, NEW o, NEW m,
         IsView(s, "ROUTED", p, q, u, c, o, m, "none")
  PROVE  Moves(s, [type |-> "ALLOCATION_STARTED"], View("ALLOCATING", p, q, u, c, o, m, "none"))
<1> DEFINE e == [type |-> "ALLOCATION_STARTED"]
<1>1. s.status = "ROUTED" /\ e.type = "ALLOCATION_STARTED"
  BY DEF View, IsView
<1> HIDE DEF e
<1>2. Machine!Accepts(s, e)
  BY <1>1 DEF Machine!Accepts
<1>3. Machine!Apply(s, e) = [s EXCEPT !.status = IF s.status = "ROUTED" THEN "ALLOCATING"
                                                 ELSE "FALLBACK_ALLOCATING"]
  BY <1>1 DEF Machine!Apply
<1>4. (IF s.status = "ROUTED" THEN "ALLOCATING" ELSE "FALLBACK_ALLOCATING") = "ALLOCATING"
  BY <1>1
<1>5. [s EXCEPT !.status = "ALLOCATING"] = View("ALLOCATING", p, q, u, c, o, m, "none")
  BY DEF View, IsView
<1> QED
  BY Zenon, <1>2, <1>3, <1>4, <1>5 DEF Moves, e

\* Starting the second one.
LEMMA ApplyRestarted ==
  ASSUME NEW s, NEW p, NEW q, NEW u, NEW c, NEW o, NEW m,
         IsView(s, "FALLBACK_ROUTED", p, q, u, c, o, m, "none")
  PROVE  Moves(s, [type |-> "ALLOCATION_STARTED"], View("FALLBACK_ALLOCATING", p, q, u, c, o, m, "none"))
<1> DEFINE e == [type |-> "ALLOCATION_STARTED"]
<1>1. s.status = "FALLBACK_ROUTED" /\ e.type = "ALLOCATION_STARTED"
  BY DEF View, IsView
<1> HIDE DEF e
<1>2. Machine!Accepts(s, e)
  BY <1>1 DEF Machine!Accepts
<1>3. Machine!Apply(s, e) = [s EXCEPT !.status = IF s.status = "ROUTED" THEN "ALLOCATING"
                                                 ELSE "FALLBACK_ALLOCATING"]
  BY <1>1 DEF Machine!Apply
<1>4. (IF s.status = "ROUTED" THEN "ALLOCATING" ELSE "FALLBACK_ALLOCATING") = "FALLBACK_ALLOCATING"
  BY <1>1
<1>5. [s EXCEPT !.status = "FALLBACK_ALLOCATING"] = View("FALLBACK_ALLOCATING", p, q, u, c, o, m, "none")
  BY DEF View, IsView
<1> QED
  BY Zenon, <1>2, <1>3, <1>4, <1>5 DEF Moves, e

\* Succeeding, whatever has been attempted.
LEMMA ApplySucceeded ==
  ASSUME NEW s, NEW t \in {"ALLOCATING", "FALLBACK_ALLOCATING"}, NEW p, NEW q, NEW u, NEW c,
         NEW o, NEW m, IsView(s, t, p, q, u, c, o, m, "none")
  PROVE  Moves(s, [type |-> "ALLOCATION_SUCCEEDED"],
               View("ACTIVE", p, q, u, c, NoSelection, m, "none"))
<1> DEFINE n == NoSelection
           e == [type |-> "ALLOCATION_SUCCEEDED"]
<1>1. s.status = t /\ e.type = "ALLOCATION_SUCCEEDED"
  BY DEF View, IsView
<1>2. Machine!NoCandidate = n
  BY Zenon, SameNames
<1> HIDE DEF n, e
<1>3. Machine!Accepts(s, e)
  BY <1>1 DEF Machine!Accepts
<1>4. Machine!Apply(s, e) = [s EXCEPT !.status = "ACTIVE", !.original = n]
  BY <1>1, <1>2 DEF Machine!Apply
<1>5. IsView([s EXCEPT !.status = "ACTIVE", !.original = n],
             "ACTIVE", p, q, u, c, n, m, "none")
  BY Zenon, ViewActive
<1> QED
  BY Zenon, <1>3, <1>4, <1>5 DEF Moves, IsView, n, e

\* Failing, with a fallback and without.
LEMMA ApplyFailure ==
  ASSUME NEW s, NEW t \in {"ALLOCATING", "FALLBACK_ALLOCATING"}, NEW p, NEW q, NEW u, NEW c,
         NEW o, NEW m, IsView(s, t, p, q, u, c, o, m, "none"), NEW class, NEW f
  PROVE  LET e == [type |-> "ALLOCATION_FAILED", class |-> class, candidate |-> f]
         IN  IF t = "ALLOCATING" /\ Machine!CanFallback(s, class, f)
             THEN Moves(s, e, View("FALLBACK_ROUTED", p, <<c, f>>, 1, f, c, class, "none"))
             ELSE Moves(s, e, View("FAILED", p, q, u, NoSelection, NoSelection, m, class))
<1> DEFINE n == NoSelection
           e == [type |-> "ALLOCATION_FAILED", class |-> class, candidate |-> f]
<1>1. Machine!NoCandidate = n
  BY Zenon, SameNames
<1>2. e.type = "ALLOCATION_FAILED" /\ e.class = class /\ e.candidate = f
  OBVIOUS
<1> HIDE DEF n, e
<1>3. s.status = t /\ s.current = c
  BY DEF View, IsView
<1>4. Machine!Accepts(s, e)
  BY <1>2, <1>3 DEF Machine!Accepts
<1>5. Machine!Apply(s, e) = IF s.status = "ALLOCATING" /\ Machine!CanFallback(s, e.class, e.candidate)
                            THEN Machine!FallbackRouted(s, e.class, e.candidate)
                            ELSE Machine!FailedState(s, e.class)
  BY <1>2 DEF Machine!Apply
<1>6. Machine!FallbackRouted(s, class, f) = View("FALLBACK_ROUTED", p, <<c, f>>, 1, f, c, class,
                                                 "none")
  <2> DEFINE w == <<c, f>>
  <2>1. Machine!FallbackRouted(s, class, f)
          = [s EXCEPT !.status = "FALLBACK_ROUTED", !.original = c, !.current = f,
                      !.attempted = w, !.used = 1, !.primary = class]
    BY Zenon, <1>3 DEF Machine!FallbackRouted
  <2> HIDE DEF w
  <2>2. Machine!FallbackRouted(s, class, f) = View("FALLBACK_ROUTED", p, w, 1, f, c, class, "none")
    BY <2>1 DEF View, IsView
  <2> QED
    BY Zenon, <2>2 DEF w
<1>7. Machine!FailedState(s, class) = View("FAILED", p, q, u, n, n, m, class)
  <2>1. IsView([s EXCEPT !.status = "FAILED", !.current = n, !.original = n, !.failure = class],
               "FAILED", p, q, u, n, n, m, class)
    BY Zenon, ViewFailing
  <2> QED
    BY Zenon, <1>1, <2>1 DEF Machine!FailedState, IsView
<1> QED
  BY Zenon, <1>2, <1>3, <1>4, <1>5, <1>6, <1>7 DEF Moves, n, e

\* A step that the machine accepts is a step of the machine.
LEMMA MachineStep ==
  ASSUME NEW e \in Machine!Events, Moves(MachineState, e, MachineState')
  PROVE  Machine!Next
BY Zenon DEF Machine!Next, Moves

\* What the steps that follow the decision do not change.
LEMMA KeepNames ==
  ASSUME ServiceInv, pc # "routing", UNCHANGED <<request, probes, decision>>
  PROVE  First' = First /\ Second' = Second /\ Verdict' = Verdict
<1>1. UNCHANGED <<request, probes>>
  BY Zenon
<1>2. RoutingInput' = RoutingInput
  BY Zenon, <1>1, SameRouting
<1> QED
  BY Zenon, <1>2, KeepDecision DEF First, Second, Verdict

\* Deciding selects a route, or fails.
LEMMA DecideMoves ==
  ASSUME ServiceInv, ServiceInv', Decide
  PROVE  Machine!Next
<1>1. Seen /\ Seen'
  BY Zenon, SeenAt, SeenAfter
<1>2. /\ pc = "routing" /\ UNCHANGED <<request, probes>> /\ Asked
      /\ decision' = RouteBrowserRuntime(RoutingInput) /\ attempts' = << >>
  BY Zenon DEF Decide, ServiceInv
<1>3. MachineState = View("REQUESTED", Verdict, << >>, 0, NoSelection, NoSelection, "none", "none")
  BY Zenon, <1>1, <1>2 DEF Seen
<1>4. Verdict' = Verdict
  BY Zenon, <1>2, SameRouting DEF Verdict
<1>5. CASE First' = NoSelection
  <2> DEFINE e == [type |-> "ROUTE_FAILED"]
  <2>1. pc' = "failed"
    BY Zenon, <1>5 DEF Decide, First
  <2>2. MachineState' = View("FAILED", Verdict, << >>, 0, NoSelection, NoSelection, "none",
                             "no_compatible_candidate")
    BY Zenon, <1>1, <1>2, <1>4, <1>5, <2>1 DEF Seen
  <2>3. e \in Machine!Events
    BY Zenon, MachineEvents
  <2>4. Moves(MachineState, e, View("FAILED", Verdict, << >>, 0, NoSelection, NoSelection, "none",
                                    "no_compatible_candidate"))
    BY Zenon, <1>3, ApplyRoute DEF Moves
  <2> QED
    BY Zenon, <2>2, <2>3, <2>4, MachineStep
<1>6. CASE First' # NoSelection
  <2> DEFINE e == [type |-> "ROUTE_SELECTED", candidate |-> First']
  <2>1. pc' = "routed"
    BY Zenon, <1>6 DEF Decide, First
  <2>2. MachineState' = View("ROUTED", Verdict, <<First'>>, 0, First', NoSelection, "none", "none")
    BY Zenon, <1>1, <1>4, <2>1 DEF Seen
  <2>3. First' \in ServiceCandidates
    BY Zenon, <1>2, <1>6, ServiceDecision DEF Fitting, First
  <2>4. e \in Machine!Events
    BY Zenon, <2>3, MachineEvents
  <2>5. Moves(MachineState, e,
              View("ROUTED", Verdict, <<First'>>, 0, First', NoSelection, "none", "none"))
    BY Zenon, <1>3, ApplyRoute DEF Moves
  <2> QED
    BY Zenon, <2>2, <2>4, <2>5, MachineStep
<1> QED
  BY Zenon, <1>5, <1>6

\* A refused target does not move the machine.
LEMMA RefuseMoves ==
  ASSUME ServiceInv, ServiceInv', TargetRefused
  PROVE  MachineState' = MachineState
<1>1. Seen /\ Seen'
  BY Zenon, SeenAt, SeenAfter
<1>2. UNCHANGED <<request, probes, decision>> /\ attempts' = attempts
  BY Zenon DEF TargetRefused
<1>3. pc # "routing"
  BY DEF TargetRefused
<1>4. First' = First /\ Second' = Second /\ Verdict' = Verdict
  BY Zenon, <1>2, <1>3, KeepNames
<1> QED
  BY Zenon, <1>1, <1>2, <1>4 DEF Seen, TargetRefused

\* Starting an attempt starts an allocation.
LEMMA StartMoves ==
  ASSUME ServiceInv, ServiceInv', StartAttempt
  PROVE  Machine!Next
<1> DEFINE e == [type |-> "ALLOCATION_STARTED"]
<1>1. Seen /\ Seen' /\ e \in Machine!Events
  BY Zenon, SeenAt, SeenAfter, MachineEvents
<1>2. UNCHANGED <<request, probes, decision>>
  BY Zenon DEF StartAttempt
<1>3. CASE pc = "routed" /\ pc' = "allocating"
  <2>1. First' = First /\ Verdict' = Verdict
    BY <1>2, <1>3, KeepNames
  <2>2. MachineState = View("ROUTED", Verdict, <<First>>, 0, First, NoSelection, "none", "none")
    BY Zenon, <1>1, <1>3 DEF Seen
  <2>3. MachineState' = View("ALLOCATING", Verdict, <<First>>, 0, First, NoSelection, "none",
                             "none")
    BY Zenon, <1>1, <1>3, <2>1 DEF Seen
  <2>4. Moves(MachineState, e,
              View("ALLOCATING", Verdict, <<First>>, 0, First, NoSelection, "none", "none"))
    <3>1. IsView(MachineState, "ROUTED", Verdict, <<First>>, 0, First, NoSelection, "none", "none")
      BY Zenon, <2>2 DEF IsView
    <3> QED
      BY Zenon, <3>1, ApplyStarted
  <2> QED
    BY Zenon, <1>1, <2>3, <2>4, MachineStep
<1>4. CASE /\ pc = "fallback_routed" /\ pc' = "fallback_allocating"
           /\ attempts' = Append(attempts, Attempt(Head(FallbackCandidates)))
  <2>1. First' = First /\ Second' = Second /\ Verdict' = Verdict
    BY <1>2, <1>4, KeepNames
  <2>2. attempts'[1] = attempts[1]
    <3> DEFINE a == attempts[1]
               b == Attempt(Head(FallbackCandidates))
    <3>1. attempts = <<a>> /\ attempts' = Append(attempts, b)
      BY Zenon, <1>4 DEF ServiceInv, OneAttempt
    <3> HIDE DEF a, b
    <3>2. Append(<<a>>, b) = <<a, b>> /\ <<a, b>>[1] = a
      BY Zenon, AppendToOne
    <3> QED
      BY Zenon, <3>1, <3>2 DEF a
  <2> DEFINE class == attempts[1].class
  <2>3. MachineState = View("FALLBACK_ROUTED", Verdict, <<First, Second>>, 1, Second, First,
                            class, "none")
    BY Zenon, <1>1, <1>4 DEF Seen
  <2>4. MachineState' = View("FALLBACK_ALLOCATING", Verdict, <<First, Second>>, 1, Second, First,
                             class, "none")
    BY Zenon, <1>1, <1>4, <2>1, <2>2 DEF Seen
  <2> HIDE DEF class
  <2>5. Moves(MachineState, e,
              View("FALLBACK_ALLOCATING", Verdict, <<First, Second>>, 1, Second, First,
                   class, "none"))
    <3>1. IsView(MachineState, "FALLBACK_ROUTED", Verdict, <<First, Second>>, 1, Second, First,
                 class, "none")
      BY Zenon, <2>3 DEF IsView
    <3> QED
      BY Zenon, <3>1, ApplyRestarted
  <2> QED
    BY Zenon, <1>1, <2>4, <2>5, MachineStep
<1> QED
  BY Zenon, <1>3, <1>4 DEF StartAttempt

\* Succeeding succeeds.
LEMMA SucceedMoves ==
  ASSUME ServiceInv, ServiceInv', AllocationSucceeds
  PROVE  Machine!Next
<1> DEFINE e == [type |-> "ALLOCATION_SUCCEEDED"]
<1>1. Seen /\ Seen' /\ e \in Machine!Events
  BY Zenon, SeenAt, SeenAfter, MachineEvents
<1>2. /\ pc \in {"allocating", "fallback_allocating"} /\ pc' = "active"
      /\ attempts' = Completed("succeeded", "none", FALSE)
      /\ UNCHANGED <<request, probes, decision>>
  BY Zenon DEF AllocationSucceeds
<1>3. pc # "routing"
  BY <1>2
<1>4. First' = First /\ Second' = Second /\ Verdict' = Verdict
  BY Zenon, <1>2, <1>3, KeepNames
<1>5. CASE pc = "allocating"
  <2>1. OneAttempt
    BY Zenon, <1>5 DEF ServiceInv
  <2>2. OneAttempt'
    BY <1>2, <1>3, <2>1, OneCompleted
  <2>3. IsView(MachineState, "ALLOCATING", Verdict, <<First>>, 0, First, NoSelection, "none", "none")
    BY Zenon, <1>1, <1>5 DEF Seen, IsView
  <2>4. MachineState' = View("ACTIVE", Verdict, <<First>>, 0, First, NoSelection, "none", "none")
    BY Zenon, <1>1, <1>2, <1>4, <2>2 DEF Seen
  <2>5. Moves(MachineState, e,
              View("ACTIVE", Verdict, <<First>>, 0, First, NoSelection, "none", "none"))
    BY Zenon, <2>3, ApplySucceeded
  <2> QED
    BY Zenon, <1>1, <2>4, <2>5, MachineStep
<1>6. CASE pc = "fallback_allocating"
  <2>1. TwoAttempts
    BY Zenon, <1>6 DEF ServiceInv
  <2>2. TwoAttempts' /\ attempts'[1] = attempts[1]
    BY <1>2, <1>3, <2>1, TwoCompleted
  <2> DEFINE class == attempts[1].class
  <2>3. IsView(MachineState, "FALLBACK_ALLOCATING", Verdict, <<First, Second>>, 1, Second, First,
               class, "none")
    BY Zenon, <1>1, <1>6 DEF Seen, IsView
  <2>4. MachineState' = View("ACTIVE", Verdict, <<First, Second>>, 1, Second, NoSelection,
                             class, "none")
    BY Zenon, <1>1, <1>2, <1>4, <2>2 DEF Seen
  <2> HIDE DEF class
  <2>5. Moves(MachineState, e,
              View("ACTIVE", Verdict, <<First, Second>>, 1, Second, NoSelection, class, "none"))
    BY Zenon, <2>3, ApplySucceeded
  <2> QED
    BY Zenon, <1>1, <2>4, <2>5, MachineStep
<1> QED
  BY Zenon, <1>2, <1>5, <1>6

\* A first failure falls back, as far as the machine allows, or fails.
LEMMA PrimaryMoves ==
  ASSUME ServiceInv, ServiceInv', PrimaryFails
  PROVE  Machine!Next
<1>1. Seen /\ Seen' /\ Asked /\ pc = "allocating" /\ UNCHANGED <<request, probes, decision>>
  BY Zenon, SeenAt, SeenAfter DEF PrimaryFails, ServiceInv
<1>2. PICK class \in Policy!FailureClasses :
           /\ OneAttempt' /\ attempts'[1].status = "failed" /\ attempts'[1].class = class
           /\ attempts'[1].eligible = (class \in Policy!EligibleFailures)
           /\ IF FallsBack(class)
              THEN pc' = "fallback_routed" /\ row' = BeginFallback
              ELSE pc' = "failed" /\ row' = [row EXCEPT !.status = "failed"]
  BY Zenon, PrimaryClass
<1>3. pc # "routing"
  BY <1>1
<1>4. /\ First' = First /\ Second' = Second /\ Verdict' = Verdict
      /\ decision = RouteBrowserRuntime(RoutingInput)
  BY Zenon, <1>1, <1>3, KeepNames DEF ServiceInv
<1>5. IsView(MachineState, "ALLOCATING", Verdict, <<First>>, 0, First, NoSelection, "none", "none")
  BY Zenon, <1>1 DEF Seen, IsView
<1>6. CASE FallsBack(class)
  <2> DEFINE e == [type |-> "ALLOCATION_FAILED", class |-> class, candidate |-> Second]
  <2>1. /\ class \in Policy!EligibleFailures /\ decision.policy.allowed
        /\ FallbackCandidates # << >>
    BY Zenon, <1>6 DEF FallsBack
  <2>2. Fitting(Second) /\ Second.runtime # First.runtime
    BY Zenon, <1>1, <1>4, <2>1, FallbackFits DEF Second, First
  <2>3. Second \in ServiceCandidates /\ Second # NoSelection /\ Second # First
    <3>1. ~ Fitting(NoSelection)
      BY DEF Fitting, NoSelection, Runtimes
    <3> QED
      BY Zenon, <2>2, <3>1 DEF Fitting
  <2>4. e \in Machine!Events
    BY Zenon, <2>3, MachineEvents
  <2>5. Verdict.allowed /\ Verdict.maximum = 1
    <3> DEFINE b == decision.selected # NoSelection /\ request.allowFallback
    <3>1. Verdict = [allowed |-> b, maximum |-> IF b THEN 1 ELSE 0]
      BY Zenon, <1>1, <1>4, ServiceDecision DEF Verdict
    <3>2. Verdict.allowed
      BY Zenon, <1>4, <2>1 DEF Verdict
    <3> HIDE DEF b
    <3>3. Verdict.allowed = b /\ Verdict.maximum = IF b THEN 1 ELSE 0
      BY <3>1
    <3> QED
      BY Zenon, <3>2, <3>3
  <2>6. MachineState.policy = Verdict /\ MachineState.current = First
    BY <1>5 DEF IsView, View
  <2>7. Machine!CanFallback(MachineState, class, Second)
    BY Zenon, <2>1, <2>2, <2>3, <2>5, <2>6, SameNames DEF Machine!CanFallback
  <2>8. pc' = "fallback_routed"
    BY Zenon, <1>2, <1>6
  <2>9. MachineState' = View("FALLBACK_ROUTED", Verdict, <<First, Second>>, 1, Second, First,
                             class, "none")
    BY Zenon, <1>1, <1>2, <1>4, <2>8 DEF Seen
  <2>10. Moves(MachineState, e,
               View("FALLBACK_ROUTED", Verdict, <<First, Second>>, 1, Second, First, class, "none"))
    BY Zenon, <1>5, <2>7, ApplyFailure
  <2> QED
    BY Zenon, <2>4, <2>9, <2>10, MachineStep
<1>7. CASE ~ FallsBack(class)
  <2> DEFINE e == [type |-> "ALLOCATION_FAILED", class |-> class, candidate |-> NoSelection]
  <2>1. e \in Machine!Events
    BY Zenon, MachineEvents
  <2>2. ~ Machine!CanFallback(MachineState, class, NoSelection)
    BY Zenon, SameNames DEF Machine!CanFallback
  <2>3. pc' = "failed"
    BY Zenon, <1>2, <1>7
  <2>4. MachineState' = View("FAILED", Verdict, <<First>>, 0, NoSelection, NoSelection, "none", class)
    BY Zenon, <1>1, <1>2, <1>4, <2>3 DEF Seen
  <2>5. Moves(MachineState, e,
              View("FAILED", Verdict, <<First>>, 0, NoSelection, NoSelection, "none", class))
    BY Zenon, <1>5, <2>2, ApplyFailure
  <2> QED
    BY Zenon, <2>1, <2>4, <2>5, MachineStep
<1> QED
  BY Zenon, <1>6, <1>7

\* A second failure fails.
LEMMA SecondMoves ==
  ASSUME ServiceInv, ServiceInv', FallbackFails
  PROVE  Machine!Next
<1>1. /\ Seen /\ Seen' /\ pc = "fallback_allocating" /\ pc' = "failed"
      /\ UNCHANGED <<request, probes, decision>>
  BY Zenon, SeenAt, SeenAfter DEF FallbackFails
<1>2. PICK class \in Policy!FailureClasses :
           TwoAttempts' /\ attempts'[1] = attempts[1] /\ attempts'[2].class = class
  BY Zenon, SecondClass
<1>3. pc # "routing"
  BY <1>1
<1>4. First' = First /\ Second' = Second /\ Verdict' = Verdict
  BY Zenon, <1>1, <1>3, KeepNames
<1> DEFINE e == [type |-> "ALLOCATION_FAILED", class |-> class, candidate |-> NoSelection]
           m == attempts[1].class
<1>5. IsView(MachineState, "FALLBACK_ALLOCATING", Verdict, <<First, Second>>, 1, Second, First,
             m, "none")
  BY Zenon, <1>1 DEF Seen, IsView
<1>6. MachineState' = View("FAILED", Verdict, <<First, Second>>, 1, NoSelection, NoSelection,
                           m, class)
  BY Zenon, <1>1, <1>2, <1>4 DEF Seen
<1>7. e \in Machine!Events
  BY Zenon, MachineEvents
<1> HIDE DEF m
<1>8. "FALLBACK_ALLOCATING" # "ALLOCATING"
  OBVIOUS
<1>9. Moves(MachineState, e,
            View("FAILED", Verdict, <<First, Second>>, 1, NoSelection, NoSelection, m, class))
  BY Zenon, <1>5, <1>8, ApplyFailure
<1> QED
  BY Zenon, <1>6, <1>7, <1>9, MachineStep

\* The service starts in an initial state of the machine.
LEMMA MachineStarts ==
  ASSUME Init, ServiceInv
  PROVE  Machine!Init
<1>1. Seen /\ pc = "routing" /\ Asked
  BY Zenon, SeenAt DEF Init, ServiceInv
<1>2. MachineState = View("REQUESTED", Verdict, << >>, 0, NoSelection, NoSelection, "none", "none")
  BY Zenon, <1>1 DEF Seen
<1>3. MachineState = Machine!CreateFallbackState(Verdict)
  BY Zenon, <1>2, SameNames DEF Machine!CreateFallbackState, View
<1>4. Verdict \in Machine!FallbackPolicies
  <2> DEFINE d == RouteBrowserRuntime(RoutingInput)
             b == d.selected # NoSelection /\ request.allowFallback
  <2>1. Verdict = [allowed |-> b, maximum |-> IF b THEN 1 ELSE 0]
    BY Zenon, <1>1, ServiceDecision DEF Verdict
  <2>2. b \in BOOLEAN
    BY <1>1 DEF Asked, Requests
  <2> QED
    BY Zenon, <2>1, <2>2 DEF Machine!FallbackPolicies
<1> QED
  BY Zenon, <1>3, <1>4 DEF Machine!Init

\* The service's own allocation code implements the fallback state machine of
\* packages/router, whatever the request and the answers of the providers; a
\* target refused before an attempt ends the request and moves the machine not.
THEOREM PolicyIsImplemented == Spec => PolicyImplemented
<1>1. Init /\ ServiceInv => Machine!Init
  BY Zenon, MachineStarts
<1>2. ServiceInv /\ ServiceInv' /\ [Next]_vars => [vars' # vars => Machine!Next]_MachineState
  BY Zenon, DecideMoves, RefuseMoves, StartMoves, SucceedMoves, PrimaryMoves, SecondMoves
     DEF Next
<1> QED
  BY <1>1, <1>2, ServiceInvariant, PTL DEF Spec, PolicyImplemented
=============================================================================
