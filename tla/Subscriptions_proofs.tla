-------------------------- MODULE Subscriptions_proofs --------------------------
(* Each symbol has one place and each ready stream asks for its slice: for any set *)
(* of symbols, any lists of downloads and clients, and any length of a slice.      *)
EXTENDS Subscriptions, FiniteSetTheorems, SequenceTheorems, TLAPS

-------------------------------------------------------------------------------
(* The new symbols of a list                                                   *)

\* A set of naturals that is not empty has a least element.
LEMMA Least ==
    ASSUME NEW T \in SUBSET Nat, T # {}
    PROVE  \E x \in T : \A y \in T : x <= y
<1>1. PICK x \in T : \A y \in T : <<y, x>> \notin OpToRel(<, Nat)
  BY NatLessThanWellFounded, WFMin
<1>2. \A y \in T : ~(y < x)
  BY <1>1 DEF OpToRel
<1> QED
  BY <1>2

\* An increasing enumeration of a set of numbers.
Increasing(f) == \A j, k \in DOMAIN f : j < k => f[j] < f[k]
Enumerated(S) ==
    IsFiniteSet(S) /\ \E f \in [1..Cardinality(S) -> S] : Increasing(f)

LEMMA EnumeratedEmpty == Enumerated({})
<1> DEFINE f == [k \in 1..0 |-> k]
<1>1. IsFiniteSet({}) /\ Cardinality({}) = 0
  BY FS_EmptySet
<1>2. f \in [1..0 -> {}] /\ Increasing(f)
  BY DEF Increasing
<1> HIDE DEF f
<1> QED
  BY <1>1, <1>2 DEF Enumerated

\* The enumeration of a set goes on with a number behind all of the set's.
LEMMA EnumeratedMore ==
    ASSUME NEW S \in SUBSET Nat, NEW m \in Nat, \A i \in S : i < m, Enumerated(S)
    PROVE  Enumerated(S \cup {m})
<1> DEFINE n == Cardinality(S)
           T == S \cup {m}
<1>1. PICK f \in [1..n -> S] : Increasing(f)
  BY DEF Enumerated
<1>2. IsFiniteSet(S) /\ n \in Nat /\ m \notin S
  BY FS_CardinalityType DEF Enumerated
<1>3. IsFiniteSet(T) /\ Cardinality(T) = n + 1
  BY <1>2, FS_AddElement
<1> HIDE DEF n, T
<1> DEFINE g == [k \in 1..(n + 1) |-> IF k = n + 1 THEN m ELSE f[k]]
<1>4. \A k \in 1..(n + 1) : k # n + 1 => k \in 1..n
  BY <1>2
<1>5. \A k \in 1..(n + 1) : g[k] \in T
  BY <1>1, <1>4 DEF T
<1>6. g \in [1..(n + 1) -> T]
  BY <1>5
<1>7. ASSUME NEW j \in 1..(n + 1), NEW k \in 1..(n + 1), j < k
      PROVE  g[j] < g[k]
  <2>1. j \in 1..n /\ g[j] = f[j] /\ f[j] \in S
    BY <1>1, <1>2, <1>7
  <2>2. CASE k = n + 1
    BY <2>1, <2>2
  <2>3. CASE k # n + 1
    <3>1. k \in 1..n /\ g[k] = f[k]
      BY <1>4, <2>3
    <3> QED
      BY <1>1, <1>7, <2>1, <3>1 DEF Increasing
  <2> QED
    BY <2>2, <2>3
<1>8. Increasing(g)
  BY <1>6, <1>7 DEF Increasing
<1> HIDE DEF g
<1> QED
  BY <1>3, <1>6, <1>8 DEF Enumerated, T

\* Every finite set of places has an increasing enumeration.
LEMMA PlacesEnumerated ==
    ASSUME NEW n \in Nat, NEW S \in SUBSET (1..n)
    PROVE  Enumerated(S)
<1> DEFINE Bad == {m \in Nat : \E U \in SUBSET (1..m) : ~Enumerated(U)}
<1> SUFFICES ASSUME Bad # {} PROVE FALSE
  OBVIOUS
<1>1. PICK m \in Bad : \A k \in Bad : m <= k
  BY Least
<1>2. PICK U \in SUBSET (1..m) : ~Enumerated(U)
  OBVIOUS
<1>3. m \in Nat
  OBVIOUS
<1>4. CASE m = 0
  <2>1. U = {}
    BY <1>4
  <2> QED
    BY <1>2, <2>1, EnumeratedEmpty
<1>5. CASE m # 0
  <2>1. m - 1 \in Nat /\ ~(m <= m - 1)
    BY <1>3, <1>5
  <2>2. m - 1 \notin Bad
    BY <1>1, <2>1
  <2>3. U \ {m} \in SUBSET (1..(m - 1))
    BY <1>3
  <2>4. Enumerated(U \ {m})
    BY <2>1, <2>2, <2>3
  <2>5. CASE m \in U
    <3>1. (U \ {m}) \in SUBSET Nat /\ \A i \in U \ {m} : i < m
      BY <2>3, <1>3
    <3>2. Enumerated((U \ {m}) \cup {m})
      BY <1>3, <2>4, <3>1, EnumeratedMore
    <3>3. (U \ {m}) \cup {m} = U
      BY <2>5
    <3> QED
      BY <1>2, <3>2, <3>3
  <2>6. CASE m \notin U
    <3>1. U \ {m} = U
      BY <2>6
    <3> QED
      BY <1>2, <2>4, <3>1
  <2> QED
    BY <2>5, <2>6
<1> QED
  BY <1>4, <1>5

\* What NewOf lists: each symbol that is new, once.
LEMMA NewOfLists ==
    ASSUME NEW list \in Seq(Symbol), NEW places \in SUBSET DOMAIN list
    PROVE  LET new == NewOf(list, places)
           IN  /\ new \in Seq(Symbol)
               /\ Range(new) = {list[i] : i \in places} \ all_symbols
               /\ \A j, k \in DOMAIN new : new[j] = new[k] => j = k
<1> DEFINE first == {i \in places : /\ list[i] \notin all_symbols
                                    /\ \A j \in places : j < i => list[j] # list[i]}
           n == Cardinality(first)
           place == CHOOSE f \in [1..n -> first] : Increasing(f)
           new == [k \in DOMAIN place |-> list[place[k]]]
<1>1. NewOf(list, places) = new
  BY DEF NewOf, Increasing
<1>2. DOMAIN list = 1..Len(list) /\ Len(list) \in Nat /\ \A i \in 1..Len(list) : list[i] \in Symbol
  BY LenProperties, ElementOfSeq
<1>3. /\ first \in SUBSET (1..Len(list)) /\ first \subseteq places
      /\ \A i \in first : /\ list[i] \notin all_symbols
                          /\ \A j \in places : j < i => list[j] # list[i]
  BY <1>2
<1>4. Enumerated(first)
  BY <1>2, <1>3, PlacesEnumerated
<1>5. \A i \in places : list[i] \notin all_symbols => \E j \in first : list[j] = list[i]
  <2> SUFFICES ASSUME NEW i \in places, list[i] \notin all_symbols
               PROVE  \E j \in first : list[j] = list[i]
    OBVIOUS
  <2> DEFINE T == {j \in places : list[j] = list[i]}
  <2>1. T \in SUBSET Nat /\ T # {}
    BY <1>2
  <2>2. PICK j \in T : \A k \in T : j <= k
    BY <2>1, Least
  <2>3. \A k \in places : k < j => list[k] # list[j]
    BY <1>2, <2>2
  <2> QED
    BY <2>2, <2>3
<1> HIDE DEF first
<1>6. place \in [1..n -> first] /\ Increasing(place)
  BY <1>4 DEF Enumerated
<1>7. IsFiniteSet(first) /\ n \in Nat
  BY <1>4, FS_CardinalityType DEF Enumerated
<1> HIDE DEF n, place
<1>8. \A j, k \in 1..n : place[j] = place[k] => j = k
  <2> SUFFICES ASSUME NEW j \in 1..n, NEW k \in 1..n, place[j] = place[k], j # k
               PROVE  FALSE
    OBVIOUS
  <2>1. j < k \/ k < j
    BY <1>7
  <2>2. place[j] \in Nat /\ place[k] \in Nat
    BY <1>2, <1>3, <1>6
  <2> QED
    BY <1>6, <2>1, <2>2 DEF Increasing
<1>9. \A i \in first : \E k \in 1..n : place[k] = i
  <2>1. place \in Injection(1..n, first)
    BY <1>6, <1>8 DEF Injection, IsInjective
  <2>2. Cardinality(1..n) = n
    <3>1. n # 0 => n - 1 + 1 = n
      BY <1>7
    <3> QED
      BY <1>7, FS_Interval
  <2>3. place \in Surjection(1..n, first)
    BY <1>7, <2>1, <2>2, FS_Injection DEF n
  <2> QED
    BY <2>3 DEF Surjection
<1>10. DOMAIN new = 1..n /\ \A k \in 1..n : new[k] = list[place[k]] /\ place[k] \in first
  BY <1>6
<1> HIDE DEF new
<1>11. new \in Seq(Symbol)
  <2>1. \A k \in 1..n : new[k] \in Symbol
    BY <1>2, <1>3, <1>10
  <2>2. new = [k \in 1..n |-> new[k]]
    BY <1>10 DEF new
  <2>3. new \in [1..n -> Symbol]
    BY <2>1, <2>2
  <2> QED
    BY <1>7, <2>3, SeqDef
<1>12. Range(new) = {list[i] : i \in places} \ all_symbols
  <2>1. ASSUME NEW s \in Range(new)
        PROVE  s \in {list[i] : i \in places} \ all_symbols
    BY <1>3, <1>10 DEF Range
  <2>2. ASSUME NEW s \in {list[i] : i \in places} \ all_symbols
        PROVE  s \in Range(new)
    <3>1. PICK i \in first : list[i] = s
      BY <1>5
    <3>2. PICK k \in 1..n : place[k] = i
      BY <1>9
    <3> QED
      BY <1>10, <3>1, <3>2 DEF Range
  <2> QED
    BY <2>1, <2>2
<1>13. ASSUME NEW j \in DOMAIN new, NEW k \in DOMAIN new, new[j] = new[k]
       PROVE  j = k
  <2>1. /\ j \in 1..n /\ k \in 1..n
        /\ list[place[j]] = list[place[k]] /\ place[j] \in first /\ place[k] \in first
    BY <1>10, <1>13
  <2>2. place[j] \in Nat /\ place[k] \in Nat /\ ~(place[j] < place[k]) /\ ~(place[k] < place[j])
    BY <1>2, <1>3, <2>1
  <2>3. place[j] = place[k]
    BY <2>2
  <2> QED
    BY <1>8, <2>1, <2>3
<1> QED
  BY <1>1, <1>11, <1>12, <1>13

-------------------------------------------------------------------------------
(* Slices and their requests                                                   *)

Names == {"bbo", "ticker", "trade.detail", "detail", "mbp.20"}
Messages == Symbol \X Names

LEMMA ThemeNames ==
    ASSUME NEW feed \in Feeds
    PROVE  /\ Len(Themes[feed]) \in {1, 4}
           /\ \A k \in 1..Len(Themes[feed]) : Themes[feed][k] \in Names
<1>1. CASE feed = "market_data"
  <2>1. Themes[feed] = <<"bbo", "ticker", "trade.detail", "detail">>
    BY <1>1 DEF Themes
  <2> QED
    BY <2>1 DEF Names
<1>2. CASE feed = "mbp_feed"
  <2>1. Themes[feed] = <<"mbp.20">>
    BY <1>2 DEF Themes
  <2> QED
    BY <2>1 DEF Names
<1> QED
  BY <1>1, <1>2 DEF Feeds

\* The k-th message is about the symbol at Place(k), for n themes each.
Place(k, n) == ((k - 1) \div n) + 1
Theme(k, n) == ((k - 1) % n) + 1

LEMMA Places ==
    ASSUME NEW n \in {1, 4}, NEW l \in Nat, NEW k \in 1..(l * n)
    PROVE  Place(k, n) \in 1..l /\ Theme(k, n) \in 1..n
<1>1. CASE n = 1
  BY <1>1 DEF Place, Theme
<1>2. CASE n = 4
  BY <1>2 DEF Place, Theme
<1> QED
  BY <1>1, <1>2

LEMMA RequestsType ==
    ASSUME NEW feed \in Feeds, NEW some \in Seq(Symbol)
    PROVE  LET n == Len(Themes[feed])
           IN  /\ Requests(feed, some) \in Seq(Messages)
               /\ Len(Requests(feed, some)) = Len(some) * n
               /\ \A k \in 1..(Len(some) * n) :
                    Requests(feed, some)[k] = <<some[Place(k, n)], Themes[feed][Theme(k, n)]>>
<1> DEFINE n == Len(Themes[feed])
           r == Requests(feed, some)
<1>1. n \in {1, 4} /\ Len(some) \in Nat
  BY ThemeNames, LenProperties
<1>2. Len(some) * n \in Nat
  BY <1>1
<1>3. r = [k \in 1..(Len(some) * n) |-> <<some[Place(k, n)], Themes[feed][Theme(k, n)]>>]
  BY DEF Requests, Place, Theme
<1>4. ASSUME NEW k \in 1..(Len(some) * n)
      PROVE  <<some[Place(k, n)], Themes[feed][Theme(k, n)]>> \in Messages
  <2>1. Place(k, n) \in 1..Len(some) /\ Theme(k, n) \in 1..n
    BY <1>1, Places
  <2>2. some[Place(k, n)] \in Symbol
    BY <2>1, ElementOfSeq
  <2>3. Themes[feed][Theme(k, n)] \in Names
    BY <2>1, ThemeNames
  <2> QED
    BY <2>2, <2>3 DEF Messages
<1> HIDE DEF n, r
<1>5. r \in [1..(Len(some) * n) -> Messages]
  BY <1>3, <1>4
<1>6. r \in Seq(Messages) /\ Len(r) = Len(some) * n
  <2>1. r \in Seq(Messages)
    BY <1>2, <1>5, SeqDef
  <2> QED
    BY <1>2, <1>5, <2>1, LenProperties
<1> QED
  BY <1>3, <1>6 DEF n, r

\* The requests for two lists in a row are the requests for each in a row.
LEMMA RequestsJoin ==
    ASSUME NEW feed \in Feeds, NEW a \in Seq(Symbol), NEW b \in Seq(Symbol)
    PROVE  Requests(feed, a \o b) = Requests(feed, a) \o Requests(feed, b)
<1> DEFINE n == Len(Themes[feed])
           c == a \o b
           r == Requests(feed, a) \o Requests(feed, b)
<1>1. n \in {1, 4} /\ Len(a) \in Nat /\ Len(b) \in Nat
  BY ThemeNames, LenProperties
<1>2. c \in Seq(Symbol) /\ Len(c) = Len(a) + Len(b)
      /\ \A i \in 1..(Len(a) + Len(b)) : c[i] = IF i <= Len(a) THEN a[i] ELSE b[i - Len(a)]
  BY ConcatProperties
<1> HIDE DEF c
<1>3. /\ Requests(feed, a) \in Seq(Messages) /\ Len(Requests(feed, a)) = Len(a) * n
      /\ Requests(feed, b) \in Seq(Messages) /\ Len(Requests(feed, b)) = Len(b) * n
      /\ Requests(feed, c) \in Seq(Messages) /\ Len(Requests(feed, c)) = Len(c) * n
      /\ \A k \in 1..(Len(a) * n) :
           Requests(feed, a)[k] = <<a[Place(k, n)], Themes[feed][Theme(k, n)]>>
      /\ \A k \in 1..(Len(b) * n) :
           Requests(feed, b)[k] = <<b[Place(k, n)], Themes[feed][Theme(k, n)]>>
      /\ \A k \in 1..(Len(c) * n) :
           Requests(feed, c)[k] = <<c[Place(k, n)], Themes[feed][Theme(k, n)]>>
  BY <1>2, RequestsType
<1> HIDE DEF n
<1>4. Len(c) * n = Len(a) * n + Len(b) * n /\ Len(a) * n \in Nat /\ Len(b) * n \in Nat
  <2>1. CASE n = 1
    BY <1>1, <1>2, <2>1
  <2>2. CASE n = 4
    BY <1>1, <1>2, <2>2
  <2> QED
    BY <1>1, <2>1, <2>2
<1>5. /\ r \in Seq(Messages) /\ Len(r) = Len(c) * n
      /\ \A k \in 1..(Len(c) * n) :
           r[k] = IF k <= Len(a) * n THEN Requests(feed, a)[k] ELSE Requests(feed, b)[k - Len(a) * n]
  <2> DEFINE p == Requests(feed, a)
             q == Requests(feed, b)
  <2>1. /\ p \in Seq(Messages) /\ Len(p) = Len(a) * n
        /\ q \in Seq(Messages) /\ Len(q) = Len(b) * n
    BY <1>3
  <2> HIDE DEF p, q
  <2>2. /\ p \o q \in Seq(Messages) /\ Len(p \o q) = Len(p) + Len(q)
        /\ \A k \in 1..(Len(p) + Len(q)) : (p \o q)[k] = IF k <= Len(p) THEN p[k] ELSE q[k - Len(p)]
    BY <2>1, ConcatProperties
  <2>3. r = p \o q
    BY DEF p, q
  <2> HIDE DEF r
  <2>4. Len(p) + Len(q) = Len(c) * n
    BY <1>4, <2>1
  <2>5. /\ r \in Seq(Messages) /\ Len(r) = Len(c) * n
        /\ \A k \in 1..(Len(c) * n) : r[k] = IF k <= Len(a) * n THEN p[k] ELSE q[k - Len(a) * n]
    BY <2>1, <2>2, <2>3, <2>4
  <2> QED
    BY <2>5 DEF p, q
<1> HIDE DEF r
<1>6. ASSUME NEW k \in 1..(Len(c) * n)
      PROVE  Requests(feed, c)[k] = r[k]
  <2>1. Place(k, n) \in 1..Len(c)
    <3>1. Len(c) \in Nat
      BY <1>1, <1>2
    <3> QED
      BY <1>1, <3>1, Places
  <2>2. CASE k <= Len(a) * n
    <3>1. k \in 1..(Len(a) * n)
      BY <1>4, <2>2
    <3>2. Place(k, n) \in 1..Len(a)
      BY <1>1, <3>1, Places
    <3>3. c[Place(k, n)] = a[Place(k, n)]
      BY <1>1, <1>2, <2>1, <3>2
    <3>4. r[k] = Requests(feed, a)[k]
      BY <1>5, <2>2
    <3> QED
      BY <1>3, <3>1, <3>3, <3>4
  <2>3. CASE k > Len(a) * n
    <3> DEFINE j == k - Len(a) * n
    <3>1. j \in 1..(Len(b) * n) /\ ~(k <= Len(a) * n)
      BY <1>4, <2>3
    <3>2. Place(k, n) = Place(j, n) + Len(a) /\ Theme(k, n) = Theme(j, n)
      <4>1. CASE n = 1
        BY <1>1, <3>1, <4>1 DEF Place, Theme
      <4>2. CASE n = 4
        BY <1>1, <3>1, <4>2 DEF Place, Theme
      <4> QED
        BY <1>1, <4>1, <4>2
    <3>3. Place(j, n) \in 1..Len(b)
      BY <1>1, <3>1, Places
    <3> HIDE DEF j
    <3>4. c[Place(k, n)] = b[Place(j, n)]
      BY <1>1, <1>2, <2>1, <3>2, <3>3
    <3>5. r[k] = Requests(feed, b)[j]
      BY <1>5, <3>1 DEF j
    <3> QED
      BY <1>3, <3>1, <3>2, <3>4, <3>5
  <2> QED
    BY <1>4, <2>2, <2>3
<1>7. Requests(feed, c) = r
  BY <1>3, <1>5, <1>6, SeqEqual
<1> QED
  BY <1>7 DEF c, r

\* What a slice covers, without the products.
LEMMA SliceBounds ==
    ASSUME NEW i \in Nat \ {0}
    PROVE  /\ (i - 1) * MaxSubscriptions \in Nat /\ i * MaxSubscriptions \in Nat
           /\ (i - 1) * MaxSubscriptions < i * MaxSubscriptions
<1>1. MaxSubscriptions \in Nat \ {0} /\ i - 1 \in Nat
  BY MaxAssumption
<1>2. i * MaxSubscriptions = (i - 1) * MaxSubscriptions + MaxSubscriptions
  BY <1>1
<1>3. (i - 1) * MaxSubscriptions \in Nat
  BY <1>1
<1> QED
  BY <1>1, <1>2, <1>3

\* A slice of a longer list is the slice as it was and then its new part.
LEMMA SliceGrows ==
    ASSUME NEW all \in Seq(Symbol), NEW new \in Seq(Symbol), NEW i \in Nat \ {0}
    PROVE  /\ GetSlice(all, i, 0) \in Seq(Symbol)
           /\ GetSlice(all \o new, i, Len(all)) \in Seq(Symbol)
           /\ GetSlice(all \o new, i, 0)
                = GetSlice(all, i, 0) \o GetSlice(all \o new, i, Len(all))
<1> DEFINE lo == (i - 1) * MaxSubscriptions
           hi == i * MaxSubscriptions
           t == all \o new
<1>1. lo \in Nat /\ hi \in Nat /\ lo < hi
  BY SliceBounds
<1>2. t \in Seq(Symbol) /\ Len(t) = Len(all) + Len(new) /\ Len(all) \in Nat /\ Len(new) \in Nat
  BY ConcatProperties, LenProperties
<1>3. Later(lo, 0) = lo
  BY <1>1 DEF Later
<1> HIDE DEF lo, hi, t
<1> DEFINE end == Earlier(hi, Len(t))
           was == Earlier(hi, Len(all))
           mid == Later(lo, Len(all))
<1>4. /\ GetSlice(all, i, 0) = SubSeq(all, lo + 1, was)
      /\ GetSlice(t, i, 0) = SubSeq(t, lo + 1, end)
      /\ GetSlice(t, i, Len(all)) = SubSeq(t, mid + 1, end)
  BY <1>3 DEF GetSlice, lo, hi
<1>5. /\ end \in Nat /\ was \in Nat /\ mid \in Nat
      /\ end <= Len(t) /\ was <= Len(all) /\ was <= end
  BY <1>1, <1>2 DEF Earlier, Later
<1>6. /\ \A j \in (lo + 1)..was : all[j] \in Symbol
      /\ \A j \in (mid + 1)..end : t[j] \in Symbol
      /\ \A j \in (lo + 1)..end : t[j] \in Symbol
  <2>1. /\ \A j \in (lo + 1)..was : j \in 1..Len(all)
        /\ \A j \in (mid + 1)..end : j \in 1..Len(t)
        /\ \A j \in (lo + 1)..end : j \in 1..Len(t)
    BY <1>1, <1>2, <1>5
  <2> QED
    BY <1>2, <2>1, ElementOfSeq
<1>7. /\ SubSeq(all, lo + 1, was) \in Seq(Symbol)
      /\ SubSeq(t, mid + 1, end) \in Seq(Symbol)
      /\ SubSeq(t, lo + 1, end) \in Seq(Symbol)
  BY <1>1, <1>5, <1>6, SubSeqProperties
<1>8. SubSeq(t, lo + 1, end) = SubSeq(all, lo + 1, was) \o SubSeq(t, mid + 1, end)
  <2>1. CASE lo >= Len(all)
    <3>1. mid = lo /\ was < lo + 1
      BY <1>1, <1>2, <1>5, <2>1 DEF Later
    <3>2. SubSeq(all, lo + 1, was) = <<>>
      BY <1>1, <1>5, <3>1, SubSeqEmpty
    <3> QED
      BY <1>7, <3>1, <3>2, ConcatEmptySeq
  <2>2. CASE lo < Len(all) /\ hi <= Len(all)
    <3>1. was = hi /\ end = hi /\ mid = Len(all)
      BY <1>1, <1>2, <2>2 DEF Later, Earlier
    <3>2. SubSeq(t, mid + 1, end) = <<>>
      BY <1>2, <1>5, <2>2, <3>1, SubSeqEmpty
    <3>3. lo + 1 \in 1..Len(all) /\ was \in 1..Len(all)
      BY <1>1, <1>2, <2>2, <3>1
    <3>4. SubSeq(t, lo + 1, end) = SubSeq(all, lo + 1, was)
      BY <3>1, <3>3, SubSeqOfConcat1 DEF t
    <3> QED
      BY <1>7, <3>2, <3>4, ConcatEmptySeq
  <2>3. CASE lo < Len(all) /\ Len(all) < hi
    <3>1. was = Len(all) /\ mid = Len(all) /\ Len(all) <= end
      BY <1>1, <1>2, <2>3 DEF Later, Earlier
    <3>2. lo + 1 \in 1..Len(all) /\ was \in 1..Len(all)
      BY <1>1, <1>2, <2>3, <3>1
    <3>3. SubSeq(t, lo + 1, was) = SubSeq(all, lo + 1, was)
      BY <3>2, SubSeqOfConcat1 DEF t
    <3>4. lo + 1 \in 1..(Len(t) + 1) /\ was \in (lo + 1) - 1 .. Len(t) /\ end \in was..Len(t)
      BY <1>1, <1>2, <1>5, <2>3, <3>1
    <3>5. SubSeq(t, lo + 1, was) \o SubSeq(t, was + 1, end) = SubSeq(t, lo + 1, end)
      BY <1>2, <3>4, ConcatAdjacentSubSeq
    <3> QED
      BY <3>1, <3>3, <3>5
  <2>4. \/ lo >= Len(all)
        \/ lo < Len(all) /\ hi <= Len(all)
        \/ lo < Len(all) /\ Len(all) < hi
    BY <1>1, <1>2
  <2> QED
    BY <2>1, <2>2, <2>3, <2>4
<1> QED
  BY <1>4, <1>7, <1>8 DEF t

\* There are never fewer slices for more symbols.
LEMMA SlicesGrow ==
    ASSUME NEW all \in Seq(Symbol), NEW new \in Seq(Symbol)
    PROVE  /\ Slices(all) \in Nat /\ Slices(all \o new) \in Nat
           /\ Slices(all) <= Slices(all \o new)
<1>1. Len(all) \in Nat /\ Len(new) \in Nat /\ Len(all \o new) = Len(all) + Len(new)
  BY ConcatProperties, LenProperties
<1>2. MaxSubscriptions \in Nat \ {0}
  BY MaxAssumption
<1>3. ASSUME NEW a \in Nat, NEW b \in Nat, a <= b
      PROVE  a \div MaxSubscriptions \in Nat /\ a \div MaxSubscriptions <= b \div MaxSubscriptions
  BY <1>2, <1>3
<1>4. /\ Len(all) + MaxSubscriptions - 1 \in Nat /\ Len(all \o new) + MaxSubscriptions - 1 \in Nat
      /\ Len(all) + MaxSubscriptions - 1 <= Len(all \o new) + MaxSubscriptions - 1
  BY <1>1, <1>2
<1> QED
  BY <1>3, <1>4 DEF Slices

-------------------------------------------------------------------------------
(* The inductive invariant                                                     *)

StreamType ==
    [status : {"UNDEFINED", "READY", "DISCONNECTED"}, queue : Seq(Messages), asked : Seq(Messages)]

TypesOK == symbols \in Seq(Symbol) /\ streams \in [Feeds -> Seq(StreamType)]

\* A stream that is not ready has neither asked for anything nor is about to.
StreamOK(feed, i, stream, all) ==
    /\ stream.status = "READY" =>
         stream.asked \o stream.queue = Requests(feed, GetSlice(all, i, 0))
    /\ stream.status # "READY" => stream.queue = <<>> /\ stream.asked = <<>>
StreamsOK ==
    \A feed \in Feeds : \A i \in 1..Len(streams[feed]) : StreamOK(feed, i, streams[feed][i], symbols)

IInv == TypesOK /\ StreamsOK /\ SymbolsHaveOnePlace

LEMMA StreamTypes ==
    ASSUME TypesOK, NEW feed \in Feeds
    PROVE  /\ streams[feed] \in Seq(StreamType) /\ Len(streams[feed]) \in Nat
           /\ DOMAIN streams[feed] = 1..Len(streams[feed])
           /\ \A i \in 1..Len(streams[feed]) : streams[feed][i] \in StreamType
<1>1. streams[feed] \in Seq(StreamType)
  BY DEF TypesOK
<1> QED
  BY <1>1, LenProperties, ElementOfSeq

-------------------------------------------------------------------------------
(* New symbols                                                                 *)

\* A stream that is ready asks for the new part of its slice, behind what it asked.
LEMMA SubscribedKeeps ==
    ASSUME NEW feed \in Feeds, NEW all \in Seq(Symbol), NEW new \in Seq(Symbol),
           NEW i \in Nat \ {0}, NEW stream \in StreamType, StreamOK(feed, i, stream, all)
    PROVE  LET after == Subscribed(feed, i, stream, all \o new, Len(all))
           IN  after \in StreamType /\ StreamOK(feed, i, after, all \o new)
<1> DEFINE after == Subscribed(feed, i, stream, all \o new, Len(all))
           was == GetSlice(all, i, 0)
           more == GetSlice(all \o new, i, Len(all))
<1>1. CASE stream.status = "READY"
  <2>1. /\ was \in Seq(Symbol) /\ more \in Seq(Symbol)
        /\ GetSlice(all \o new, i, 0) = was \o more
    BY SliceGrows
  <2> HIDE DEF was, more
  <2>2. /\ Requests(feed, more) \in Seq(Messages)
        /\ Requests(feed, was \o more) = Requests(feed, was) \o Requests(feed, more)
    BY <2>1, RequestsType, RequestsJoin
  <2>3. after = [stream EXCEPT !.queue = stream.queue \o Requests(feed, more)]
    BY <1>1 DEF Subscribed, more
  <2>4. /\ stream.queue \in Seq(Messages) /\ stream.asked \in Seq(Messages)
        /\ stream.asked \o stream.queue = Requests(feed, was)
    BY <1>1 DEF StreamType, StreamOK, was
  <2> HIDE DEF after
  <2>5. stream.queue \o Requests(feed, more) \in Seq(Messages)
    BY <2>2, <2>4, ConcatProperties
  <2>6. /\ after \in StreamType /\ after.status = "READY" /\ after.asked = stream.asked
        /\ after.queue = stream.queue \o Requests(feed, more)
    BY <1>1, <2>3, <2>5 DEF StreamType
  <2>7. stream.asked \o (stream.queue \o Requests(feed, more))
          = (stream.asked \o stream.queue) \o Requests(feed, more)
    <3> DEFINE a == stream.asked
               q == stream.queue
               r == Requests(feed, more)
    <3>1. a \in Seq(Messages) /\ q \in Seq(Messages) /\ r \in Seq(Messages)
      BY <2>2, <2>4
    <3> HIDE DEF a, q, r
    <3>2. (a \o q) \o r = a \o (q \o r)
      BY <3>1, ConcatAssociative
    <3> QED
      BY <3>2 DEF a, q, r
  <2>8. StreamOK(feed, i, after, all \o new)
    BY <2>1, <2>2, <2>4, <2>6, <2>7 DEF StreamOK
  <2> QED
    BY <2>6, <2>8 DEF after
<1>2. CASE stream.status # "READY"
  BY <1>2 DEF Subscribed, StreamOK
<1> QED
  BY <1>1, <1>2

LEMMA NewStreamOK ==
    ASSUME NEW feed, NEW i, NEW all
    PROVE  NewStream \in StreamType /\ StreamOK(feed, i, NewStream, all)
<1>1. <<>> \in Seq(Messages)
  BY EmptySeq
<1> QED
  BY <1>1 DEF NewStream, StreamType, StreamOK

\* Symbols that have no place yet get one, each once, and the streams follow.
LEMMA UpdateKeeps ==
    ASSUME IInv, NEW new \in Seq(Symbol), SymbolsUpdate(new),
           all_symbols' = all_symbols \cup Range(new), Range(new) \cap all_symbols = {},
           \A j, k \in DOMAIN new : new[j] = new[k] => j = k
    PROVE  IInv'
<1> USE DEF IInv
<1> DEFINE all == symbols \o new
           size(feed) == Later(Slices(all), Len(streams[feed]))
           grown(feed) == [i \in 1..size(feed) |->
                              IF i \in DOMAIN streams[feed] THEN streams[feed][i] ELSE NewStream]
           after(feed) == [i \in 1..size(feed) |->
                              Subscribed(feed, i, grown(feed)[i], all, Len(symbols))]
<1>1. symbols \in Seq(Symbol)
  BY DEF TypesOK
<1>2. all \in Seq(Symbol) /\ Len(all) = Len(symbols) + Len(new)
      /\ Len(symbols) \in Nat /\ Len(new) \in Nat
      /\ \A i \in 1..(Len(symbols) + Len(new)) :
           all[i] = IF i <= Len(symbols) THEN symbols[i] ELSE new[i - Len(symbols)]
  BY <1>1, ConcatProperties, LenProperties
<1>3. symbols' = all
  BY DEF SymbolsUpdate
<1>4. streams' = [feed \in Feeds |-> after(feed)]
  BY <1>3 DEF SymbolsUpdate, UpdateStreams
<1>5. \A feed \in Feeds : size(feed) = Slices(all) /\ Slices(all) \in Nat
  <2>1. Slices(symbols) <= Slices(all) /\ Slices(all) \in Nat /\ Slices(symbols) \in Nat
    BY <1>1, SlicesGrow
  <2>2. \A feed \in Feeds : Len(streams[feed]) = Slices(symbols)
    BY DEF SymbolsHaveOnePlace
  <2> QED
    BY <2>1, <2>2 DEF Later
<1>6. ASSUME NEW feed \in Feeds, NEW i \in 1..size(feed)
      PROVE  after(feed)[i] \in StreamType /\ StreamOK(feed, i, after(feed)[i], all)
  <2>1. i \in Nat \ {0}
    BY <1>5
  <2>2. grown(feed)[i] \in StreamType /\ StreamOK(feed, i, grown(feed)[i], symbols)
    <3>1. CASE i \in DOMAIN streams[feed]
      <4>1. grown(feed)[i] = streams[feed][i]
        BY <3>1
      <4>2. i \in 1..Len(streams[feed]) /\ streams[feed][i] \in StreamType
        BY <3>1, StreamTypes
      <4>3. StreamOK(feed, i, streams[feed][i], symbols)
        BY <4>2 DEF StreamsOK
      <4> QED
        BY <4>1, <4>2, <4>3
    <3>2. CASE i \notin DOMAIN streams[feed]
      <4>1. grown(feed)[i] = NewStream
        BY <3>2
      <4> QED
        BY <4>1, NewStreamOK
    <3> QED
      BY <3>1, <3>2
  <2>3. after(feed)[i] = Subscribed(feed, i, grown(feed)[i], symbols \o new, Len(symbols))
    OBVIOUS
  <2> HIDE DEF grown, after
  <2> QED
    BY <1>1, <2>1, <2>2, <2>3, SubscribedKeeps
<1>7. \A feed \in Feeds : after(feed) \in Seq(StreamType) /\ Len(after(feed)) = Slices(all)
  <2> SUFFICES ASSUME NEW feed \in Feeds
               PROVE  after(feed) \in Seq(StreamType) /\ Len(after(feed)) = Slices(all)
    OBVIOUS
  <2>1. DOMAIN after(feed) = 1..size(feed) /\ after(feed) = [i \in 1..size(feed) |-> after(feed)[i]]
    OBVIOUS
  <2> HIDE DEF after, size
  <2>2. after(feed) \in [1..Slices(all) -> StreamType]
    BY <1>5, <1>6, <2>1
  <2>3. after(feed) \in Seq(StreamType)
    BY <1>5, <2>2, SeqDef
  <2> QED
    BY <1>5, <2>2, <2>3, LenProperties
<1> HIDE DEF after
<1>8. TypesOK'
  BY <1>2, <1>3, <1>4, <1>7 DEF TypesOK
<1>9. StreamsOK'
  <2>1. \A feed \in Feeds : streams'[feed] = after(feed)
    BY <1>4
  <2>2. ASSUME NEW feed \in Feeds, NEW i \in 1..Len(streams'[feed])
        PROVE  StreamOK(feed, i, streams[feed][i], symbols)'
    <3>1. i \in 1..size(feed) /\ streams'[feed] = after(feed)
      BY <1>5, <1>7, <2>1
    <3>2. StreamOK(feed, i, after(feed)[i], all)
      BY <1>6, <3>1
    <3> QED
      BY <1>3, <3>1, <3>2 DEF StreamOK
  <2> QED
    BY <2>2 DEF StreamsOK
<1>10. SymbolsHaveOnePlace'
  <2>1. Range(all) = all_symbols'
    <3>1. Range(all) = Range(symbols) \cup Range(new)
      BY <1>1, RangeConcatenation
    <3> QED
      BY <3>1 DEF SymbolsHaveOnePlace
  <2>2. DOMAIN all = 1..Len(all) /\ DOMAIN symbols = 1..Len(symbols) /\ DOMAIN new = 1..Len(new)
    BY <1>1, <1>2, LenProperties
  <2>3. ASSUME NEW j \in DOMAIN all, NEW k \in DOMAIN all, all[j] = all[k]
        PROVE  j = k
    <3> HIDE DEF all
    <3>1. j \in 1..(Len(symbols) + Len(new)) /\ k \in 1..(Len(symbols) + Len(new))
      BY <1>2, <2>2, <2>3
    <3>2. ASSUME NEW l \in 1..Len(symbols), NEW m \in 1..(Len(symbols) + Len(new)), m > Len(symbols)
          PROVE  all[l] # all[m]
      <4>1. all[l] = symbols[l] /\ l \in DOMAIN symbols
        BY <1>2, <2>2
      <4>2. all[m] = new[m - Len(symbols)] /\ m - Len(symbols) \in DOMAIN new
        BY <1>2, <2>2, <3>2
      <4>3. symbols[l] \in all_symbols /\ new[m - Len(symbols)] \in Range(new)
        BY <4>1, <4>2 DEF SymbolsHaveOnePlace, Range
      <4> QED
        BY <4>1, <4>2, <4>3
    <3>3. CASE j <= Len(symbols) /\ k <= Len(symbols)
      <4>1. j \in DOMAIN symbols /\ k \in DOMAIN symbols /\ symbols[j] = symbols[k]
        BY <1>2, <2>2, <2>3, <3>1, <3>3
      <4> QED
        BY <4>1 DEF SymbolsHaveOnePlace
    <3>4. CASE j > Len(symbols) /\ k > Len(symbols)
      <4>1. /\ j - Len(symbols) \in DOMAIN new /\ k - Len(symbols) \in DOMAIN new
            /\ new[j - Len(symbols)] = new[k - Len(symbols)]
        BY <1>2, <2>2, <2>3, <3>1, <3>4
      <4>2. j - Len(symbols) = k - Len(symbols)
        BY <4>1
      <4> QED
        BY <1>2, <3>1, <4>2
    <3>5. CASE j <= Len(symbols) /\ k > Len(symbols)
      BY <1>2, <2>3, <3>1, <3>2, <3>5
    <3>6. CASE j > Len(symbols) /\ k <= Len(symbols)
      <4>1. all[k] # all[j]
        BY <1>2, <3>1, <3>2, <3>6
      <4> QED
        BY <2>3, <4>1
    <3> QED
      BY <1>2, <3>1, <3>3, <3>4, <3>5, <3>6
  <2>4. \A feed \in Feeds : Len(streams'[feed]) = Slices(all)
    BY <1>4, <1>7
  <2> QED
    BY <1>3, <2>1, <2>3, <2>4 DEF SymbolsHaveOnePlace
<1> QED
  BY <1>8, <1>9, <1>10

\* A download that passes SYMBOLS.
LEMMA RestSymbolsKeeps ==
    ASSUME IInv, NEW list \in Downloads, RestSymbols(list)
    PROVE  IInv'
<1> DEFINE listed == [i \in DOMAIN list |-> list[i].symbol]
           new == NewSymbols(list)
<1>1. list \in Seq([symbol : Symbol, online : BOOLEAN, enabled : BOOLEAN])
  BY ListsAssumption
<1>2. /\ DOMAIN list = 1..Len(list) /\ Len(list) \in Nat
      /\ \A i \in 1..Len(list) : list[i].symbol \in Symbol
  <2>1. DOMAIN list = 1..Len(list) /\ Len(list) \in Nat
    BY <1>1, LenProperties
  <2>2. \A i \in 1..Len(list) : list[i] \in [symbol : Symbol, online : BOOLEAN, enabled : BOOLEAN]
    BY <1>1, ElementOfSeq
  <2> QED
    BY <2>1, <2>2
<1>3. listed \in Seq(Symbol)
  <2>1. listed \in [1..Len(list) -> Symbol]
    BY <1>2
  <2> HIDE DEF listed
  <2> QED
    BY <1>2, <2>1, SeqDef
<1>4. Included(list) \in SUBSET DOMAIN listed
  BY DEF Included
<1>5. new = NewOf(listed, Included(list))
  BY DEF NewSymbols
<1> HIDE DEF listed, new
<1>6. /\ new \in Seq(Symbol)
      /\ Range(new) = {listed[i] : i \in Included(list)} \ all_symbols
      /\ \A j, k \in DOMAIN new : new[j] = new[k] => j = k
  BY <1>3, <1>4, <1>5, NewOfLists
<1>7. all_symbols' = all_symbols \cup Range(new)
  BY DEF RestSymbols, new
<1>8. CASE new # <<>>
  <2>1. SymbolsUpdate(new)
    BY <1>8 DEF RestSymbols, new
  <2> QED
    BY <1>6, <1>7, <2>1, UpdateKeeps
<1>9. CASE new = <<>>
  <2>1. UNCHANGED <<symbols, streams>>
    BY <1>9 DEF RestSymbols, new
  <2>2. Range(new) = {}
    BY <1>9 DEF Range
  <2>3. all_symbols' = all_symbols
    BY <1>7, <2>2
  <2> QED
    BY <2>1, <2>3 DEF IInv, TypesOK, StreamsOK, SymbolsHaveOnePlace
<1> QED
  BY <1>8, <1>9

\* A client's list, with symbols that are known already and repeats.
LEMMA SubscribeKeeps ==
    ASSUME IInv, NEW list \in Subscribes, Subscribe(list)
    PROVE  IInv'
<1> DEFINE new == NewOf(list, DOMAIN list)
<1>1. list \in Seq(Symbol)
  BY ListsAssumption
<1>2. /\ all_symbols' = all_symbols \cup Range(list)
      /\ SymbolsUpdate(new)
  BY DEF Subscribe
<1>3. /\ new \in Seq(Symbol)
      /\ Range(new) = {list[i] : i \in DOMAIN list} \ all_symbols
      /\ \A j, k \in DOMAIN new : new[j] = new[k] => j = k
  BY <1>1, NewOfLists
<1> HIDE DEF new
<1>4. all_symbols' = all_symbols \cup Range(new)
  BY <1>2, <1>3 DEF Range
<1> QED
  BY <1>2, <1>3, <1>4, UpdateKeeps

-------------------------------------------------------------------------------
(* Streams on their own                                                        *)

\* One stream changes and is still as it should be.
LEMMA OneStreamKeeps ==
    ASSUME IInv, NEW feed \in Feeds, NEW i \in 1..Len(streams[feed]), NEW stream \in StreamType,
           OnStream(feed, i, stream), StreamOK(feed, i, stream, symbols)
    PROVE  IInv'
<1> USE DEF IInv
<1>1. /\ streams' = [streams EXCEPT ![feed][i] = stream]
      /\ UNCHANGED <<all_symbols, symbols>>
  BY DEF OnStream
<1> DEFINE row == [streams[feed] EXCEPT ![i] = stream]
<1>2. /\ row \in Seq(StreamType) /\ Len(row) = Len(streams[feed])
      /\ \A j \in 1..Len(streams[feed]) : row[j] = IF j = i THEN stream ELSE streams[feed][j]
  BY StreamTypes, ExceptSeq
<1>3. streams' = [streams EXCEPT ![feed] = row]
  BY <1>1
<1> HIDE DEF row
<1>4. \A other \in Feeds : streams'[other] = IF other = feed THEN row ELSE streams[other]
  BY <1>3 DEF TypesOK
<1>5. TypesOK'
  BY <1>1, <1>2, <1>3 DEF TypesOK
<1>6. StreamsOK'
  <2> SUFFICES ASSUME NEW other \in Feeds, NEW j \in 1..Len(streams'[other])
               PROVE  StreamOK(other, j, streams'[other][j], symbols')
    BY DEF StreamsOK
  <2>1. CASE other = feed
    <3>1. j \in 1..Len(streams[feed]) /\ streams'[feed][j] = IF j = i THEN stream ELSE streams[feed][j]
      BY <1>2, <1>4, <2>1
    <3> QED
      BY <1>1, <2>1, <3>1 DEF StreamsOK
  <2>2. CASE other # feed
    <3>1. streams'[other] = streams[other] /\ j \in 1..Len(streams[other])
      BY <1>4, <2>2
    <3> QED
      BY <1>1, <3>1 DEF StreamsOK
  <2> QED
    BY <2>1, <2>2
<1>7. SymbolsHaveOnePlace'
  BY <1>1, <1>2, <1>4 DEF SymbolsHaveOnePlace
<1> QED
  BY <1>5, <1>6, <1>7

\* A websocket becomes ready: the whole slice is asked for.
LEMMA ReadyKeeps ==
    ASSUME IInv, NEW feed \in Feeds, NEW i \in 1..Len(streams[feed]), Ready(feed, i)
    PROVE  IInv'
<1> DEFINE stream == streams[feed][i]
           r == Requests(feed, GetSlice(symbols, i, 0))
           after == Subscribed(feed, i, [stream EXCEPT !.status = "READY"], symbols, 0)
<1>1. stream \in StreamType /\ StreamOK(feed, i, stream, symbols) /\ i \in Nat \ {0}
  BY StreamTypes DEF IInv, StreamsOK
<1>2. stream.queue = <<>> /\ stream.asked = <<>>
  BY <1>1 DEF Ready, StreamOK
<1>3. r \in Seq(Messages)
  <2>1. GetSlice(symbols, i, 0) \in Seq(Symbol)
    BY <1>1, SliceGrows DEF IInv, TypesOK
  <2> QED
    BY <2>1, RequestsType
<1>4. OnStream(feed, i, after)
  BY DEF Ready
<1> HIDE DEF stream, r
<1>5. after = [stream EXCEPT !.status = "READY", !.queue = <<>> \o r]
  BY <1>1, <1>2 DEF Subscribed, StreamType, r
<1>6. <<>> \o r = r
  BY <1>3, ConcatEmptySeq
<1> HIDE DEF after
<1>7. after = [status |-> "READY", queue |-> r, asked |-> <<>>]
  BY <1>1, <1>2, <1>5, <1>6 DEF StreamType
<1>8. after \in StreamType
  <2>1. <<>> \in Seq(Messages)
    BY EmptySeq
  <2> QED
    BY <1>3, <1>7, <2>1 DEF StreamType
<1>9. StreamOK(feed, i, after, symbols)
  BY <1>6, <1>7 DEF StreamOK, r
<1> QED
  BY <1>4, <1>8, <1>9, OneStreamKeeps

\* A websocket is lost: nothing is asked for in the session that is no more.
LEMMA DisconnectedKeeps ==
    ASSUME IInv, NEW feed \in Feeds, NEW i \in 1..Len(streams[feed]), Disconnected(feed, i)
    PROVE  IInv'
<1> DEFINE after == [NewStream EXCEPT !.status = "DISCONNECTED"]
<1>1. after = [status |-> "DISCONNECTED", queue |-> <<>>, asked |-> <<>>]
  BY DEF NewStream
<1>2. OnStream(feed, i, after)
  BY DEF Disconnected
<1> HIDE DEF after
<1>3. after \in StreamType
  <2>1. <<>> \in Seq(Messages)
    BY EmptySeq
  <2> QED
    BY <1>1, <2>1 DEF StreamType
<1>4. StreamOK(feed, i, after, symbols)
  BY <1>1 DEF StreamOK
<1> QED
  BY <1>2, <1>3, <1>4, OneStreamKeeps

LEMMA MessagesAssociative ==
    \A a, b, c \in Seq(Messages) : (a \o b) \o c = a \o (b \o c)
BY ConcatAssociative

\* Requests sent from the front of a queue go behind what was asked for.
LEMMA FrontSent ==
    ASSUME NEW asked \in Seq(Messages), NEW queue \in Seq(Messages), NEW n \in 1..Len(queue)
    PROVE  LET sent == SubSeq(queue, 1, n)
               left == SubSeq(queue, n + 1, Len(queue))
           IN  /\ asked \o sent \in Seq(Messages) /\ left \in Seq(Messages)
               /\ (asked \o sent) \o left = asked \o queue
<1> DEFINE sent == SubSeq(queue, 1, n)
           left == SubSeq(queue, n + 1, Len(queue))
<1>1. Len(queue) \in Nat /\ n \in Nat /\ n <= Len(queue)
  BY LenProperties
<1>2. /\ \A j \in 1..n : j \in 1..Len(queue)
      /\ \A j \in (n + 1)..Len(queue) : j \in 1..Len(queue)
      /\ n + 1 \in Int
  BY <1>1
<1>3. sent \in Seq(Messages)
  BY <1>1, <1>2, ElementOfSeq, SubSeqProperties
<1>4. left \in Seq(Messages)
  BY <1>1, <1>2, ElementOfSeq, SubSeqProperties
<1>5. sent \o left = queue
  <2>1. /\ 1 \in 1..(Len(queue) + 1) /\ n \in (1 - 1)..Len(queue) /\ Len(queue) \in n..Len(queue)
    BY <1>1
  <2>2. sent \o left = SubSeq(queue, 1, Len(queue))
    BY <2>1, ConcatAdjacentSubSeq
  <2> QED
    BY <2>2, SubSeqFull
<1> HIDE DEF sent, left
<1>6. asked \o sent \in Seq(Messages)
  BY <1>3, ConcatProperties
<1>7. (asked \o sent) \o left = asked \o (sent \o left)
  BY <1>3, <1>4, MessagesAssociative
<1> QED
  BY <1>4, <1>5, <1>6, <1>7 DEF sent, left

LEMMA TimerKeeps ==
    ASSUME IInv, NEW feed \in Feeds, NEW i \in 1..Len(streams[feed]),
           NEW n \in 1..Len(streams[feed][i].queue), Timer(feed, i, n)
    PROVE  IInv'
<1> DEFINE stream == streams[feed][i]
           sent == SubSeq(stream.queue, 1, n)
           left == SubSeq(stream.queue, n + 1, Len(stream.queue))
           after == [stream EXCEPT !.queue = left, !.asked = stream.asked \o sent]
<1>1. stream \in StreamType /\ StreamOK(feed, i, stream, symbols)
  BY StreamTypes DEF IInv, StreamsOK
<1>2. stream.status = "READY" /\ OnStream(feed, i, after)
  BY DEF Timer
<1>3. stream.queue \in Seq(Messages) /\ stream.asked \in Seq(Messages) /\ n \in 1..Len(stream.queue)
  BY <1>1 DEF StreamType
<1> HIDE DEF stream
<1>4. /\ stream.asked \o sent \in Seq(Messages) /\ left \in Seq(Messages)
      /\ (stream.asked \o sent) \o left = stream.asked \o stream.queue
  BY <1>3, FrontSent
<1> HIDE DEF sent, left
<1>5. /\ after \in StreamType /\ after.status = "READY" /\ after.queue = left
      /\ after.asked = stream.asked \o sent
  BY <1>1, <1>2, <1>4 DEF StreamType
<1>6. StreamOK(feed, i, after, symbols)
  BY <1>1, <1>2, <1>4, <1>5 DEF StreamOK
<1> HIDE DEF after
<1> QED
  BY <1>2, <1>5, <1>6, OneStreamKeeps

-------------------------------------------------------------------------------
(* The theorems                                                                *)

LEMMA InitInv == Init => IInv
<1> SUFFICES ASSUME Init PROVE IInv
  OBVIOUS
<1>1. /\ all_symbols = {} /\ symbols = <<>> /\ streams = [feed \in Feeds |-> <<>>]
      /\ Len(symbols) = 0 /\ \A feed \in Feeds : Len(streams[feed]) = 0
  BY DEF Init
<1>2. TypesOK
  BY <1>1 DEF TypesOK
<1>3. StreamsOK
  BY <1>1 DEF StreamsOK
<1>4. Slices(symbols) = 0
  BY <1>1, MaxAssumption DEF Slices
<1>5. SymbolsHaveOnePlace
  BY <1>1, <1>4 DEF SymbolsHaveOnePlace, Range
<1> QED
  BY <1>2, <1>3, <1>5 DEF IInv

LEMMA NextInv == IInv /\ [Next]_vars => IInv'
<1> SUFFICES ASSUME IInv, [Next]_vars PROVE IInv'
  OBVIOUS
<1>1. CASE \E list \in Downloads : RestSymbols(list)
  BY <1>1, RestSymbolsKeeps
<1>2. CASE \E list \in Subscribes : Subscribe(list)
  BY <1>2, SubscribeKeeps
<1>3. ASSUME NEW feed \in Feeds, NEW i \in DOMAIN streams[feed],
             \/ Ready(feed, i) \/ Disconnected(feed, i)
             \/ \E n \in 1..Len(streams[feed][i].queue) : Timer(feed, i, n)
      PROVE  IInv'
  <2>1. i \in 1..Len(streams[feed])
    BY StreamTypes DEF IInv
  <2> QED
    BY <1>3, <2>1, ReadyKeeps, DisconnectedKeeps, TimerKeeps
<1>4. CASE UNCHANGED vars
  BY <1>4 DEF vars, IInv, TypesOK, StreamsOK, SymbolsHaveOnePlace
<1> QED
  BY <1>1, <1>2, <1>3, <1>4 DEF Next

LEMMA Invariance == Spec => []IInv
BY InitInv, NextInv, PTL DEF Spec

\* Each symbol is asked for by one stream of each feed, and the slices have their
\* streams, whatever downloads and clients bring in whatever order (controller.cpp).
THEOREM OnePlace == Spec => []SymbolsHaveOnePlace
<1>1. IInv => SymbolsHaveOnePlace
  BY DEF IInv
<1> QED
  BY <1>1, Invariance, PTL

\* A ready stream has asked, or is about to ask, for every theme of every symbol of its
\* slice once: new symbols, reconnects and a rate limiter that lets a part of the queue
\* go cost and double nothing (market_data.cpp, mbp_feed.cpp).
THEOREM SliceAskedFor == Spec => []ReadyAsksForItsSlice
<1>1. IInv => ReadyAsksForItsSlice
  <2> SUFFICES ASSUME IInv, NEW feed \in Feeds, NEW i \in DOMAIN streams[feed],
                      streams[feed][i].status = "READY"
               PROVE  streams[feed][i].asked \o streams[feed][i].queue
                        = Requests(feed, GetSlice(symbols, i, 0))
    BY DEF ReadyAsksForItsSlice
  <2>1. i \in 1..Len(streams[feed])
    BY StreamTypes DEF IInv
  <2> QED
    BY <2>1 DEF IInv, StreamsOK, StreamOK
<1> QED
  BY <1>1, Invariance, PTL
-------------------------------------------------------------------------------
(* From the slices of the streams back to the symbols: each is asked for once. *)

\* The themes of a feed differ.
LEMMA ThemesDiffer ==
    ASSUME NEW feed \in Feeds
    PROVE  /\ DOMAIN Themes[feed] = 1..Len(Themes[feed])
           /\ \A t, u \in 1..Len(Themes[feed]) : Themes[feed][t] = Themes[feed][u] => t = u
<1>1. CASE feed = "market_data"
  <2>1. Themes[feed] = <<"bbo", "ticker", "trade.detail", "detail">>
    BY <1>1 DEF Themes
  <2> QED
    BY <2>1
<1>2. CASE feed = "mbp_feed"
  <2>1. Themes[feed] = <<"mbp.20">>
    BY <1>2 DEF Themes
  <2> QED
    BY <2>1
<1> QED
  BY <1>1, <1>2 DEF Feeds

\* A message's number and its place and theme determine each other.
LEMMA NumbersOfMessages ==
    ASSUME NEW n \in {1, 4}, NEW l \in Nat
    PROVE  /\ \A k, m \in 1..(l * n) : Place(k, n) = Place(m, n) /\ Theme(k, n) = Theme(m, n) => k = m
           /\ \A p \in 1..l, t \in 1..n :
                \E k \in 1..(l * n) : Place(k, n) = p /\ Theme(k, n) = t
<1>1. CASE n = 1
  <2>1. ASSUME NEW p \in 1..l, NEW t \in 1..n
        PROVE  p \in 1..(l * n) /\ Place(p, n) = p /\ Theme(p, n) = t
    BY <1>1 DEF Place, Theme
  <2>2. \A k, m \in 1..(l * n) : Place(k, n) = Place(m, n) /\ Theme(k, n) = Theme(m, n) => k = m
    BY <1>1 DEF Place, Theme
  <2> QED
    BY <2>1, <2>2
<1>2. CASE n = 4
  <2>1. ASSUME NEW p \in 1..l, NEW t \in 1..n
        PROVE  LET k == (p - 1) * 4 + t IN k \in 1..(l * n) /\ Place(k, n) = p /\ Theme(k, n) = t
    BY <1>2 DEF Place, Theme
  <2>2. \A k, m \in 1..(l * n) : Place(k, n) = Place(m, n) /\ Theme(k, n) = Theme(m, n) => k = m
    BY <1>2 DEF Place, Theme
  <2> QED
    BY <2>1, <2>2
<1> QED
  BY <1>1, <1>2

\* Where slice i begins in the list of symbols.
Before(i) == (i - 1) * MaxSubscriptions

\* The p-th symbol of slice i.
LEMMA InSlice ==
    ASSUME NEW all \in Seq(Symbol), NEW i \in Nat \ {0}
    PROVE  /\ GetSlice(all, i, 0) \in Seq(Symbol)
           /\ Before(i) \in Nat /\ Len(GetSlice(all, i, 0)) \in Nat
           /\ \A p \in 1..Len(GetSlice(all, i, 0)) :
                /\ Before(i) + p \in 1..Len(all) /\ p <= MaxSubscriptions
                /\ GetSlice(all, i, 0)[p] = all[Before(i) + p]
           /\ \A x \in 1..Len(all) : Before(i) < x /\ x <= Before(i) + MaxSubscriptions =>
                x - Before(i) \in 1..Len(GetSlice(all, i, 0))
<1> DEFINE lo == (i - 1) * MaxSubscriptions
           hi == i * MaxSubscriptions
           end == Earlier(hi, Len(all))
<1>1. lo \in Nat /\ hi \in Nat /\ hi = lo + MaxSubscriptions /\ MaxSubscriptions \in Nat \ {0}
  BY MaxAssumption
<1>2. Len(all) \in Nat /\ \A x \in 1..Len(all) : all[x] \in Symbol
  BY LenProperties, ElementOfSeq
<1> HIDE DEF lo, hi
<1>3. Later(lo, 0) = lo
  BY <1>1 DEF Later
<1>4. GetSlice(all, i, 0) = SubSeq(all, lo + 1, end)
  BY <1>3 DEF GetSlice, lo, hi
<1>5. end \in Nat /\ end <= Len(all) /\ end <= hi /\ (end = hi \/ end = Len(all))
  BY <1>1, <1>2 DEF Earlier
<1> HIDE DEF end
<1>6. \A j \in (lo + 1)..end : all[j] \in Symbol
  BY <1>1, <1>2, <1>5
<1>7. /\ SubSeq(all, lo + 1, end) \in Seq(Symbol)
      /\ Len(SubSeq(all, lo + 1, end)) = IF lo + 1 <= end THEN end - (lo + 1) + 1 ELSE 0
      /\ \A p \in 1..(end - (lo + 1) + 1) : SubSeq(all, lo + 1, end)[p] = all[lo + 1 + p - 1]
  BY <1>1, <1>5, <1>6, SubSeqProperties
<1>8. Before(i) = lo
  BY DEF Before, lo
<1>9. GetSlice(all, i, 0) \in Seq(Symbol) /\ Before(i) \in Nat /\ Len(GetSlice(all, i, 0)) \in Nat
  BY <1>1, <1>4, <1>7, <1>8, LenProperties
<1>10. ASSUME NEW p \in 1..Len(GetSlice(all, i, 0))
       PROVE  /\ Before(i) + p \in 1..Len(all) /\ p <= MaxSubscriptions
              /\ GetSlice(all, i, 0)[p] = all[Before(i) + p]
  <2>1. p \in 1..(end - (lo + 1) + 1) /\ lo + 1 <= end
    BY <1>1, <1>4, <1>5, <1>7
  <2>2. lo + 1 + p - 1 = lo + p
    BY <1>1, <2>1
  <2> QED
    BY <1>1, <1>2, <1>4, <1>5, <1>7, <1>8, <2>1, <2>2
<1>11. ASSUME NEW x \in 1..Len(all), Before(i) < x, x <= Before(i) + MaxSubscriptions
       PROVE  x - Before(i) \in 1..Len(GetSlice(all, i, 0))
  BY <1>1, <1>2, <1>4, <1>5, <1>7, <1>8, <1>11
<1> QED
  BY <1>9, <1>10, <1>11

\* No place is in two slices.
LEMMA SlicesDiffer ==
    ASSUME NEW i \in Nat \ {0}, NEW j \in Nat \ {0}, i < j
    PROVE  Before(i) + MaxSubscriptions <= Before(j)
<1>1. MaxSubscriptions \in Nat \ {0}
  BY MaxAssumption
<1>2. i * MaxSubscriptions = Before(i) + MaxSubscriptions
  BY <1>1 DEF Before
<1>3. i <= j - 1 /\ i \in Nat /\ j - 1 \in Nat
  OBVIOUS
<1>4. \A a, b, c \in Nat : a <= b => a * c <= b * c
  OBVIOUS
<1>5. i * MaxSubscriptions <= (j - 1) * MaxSubscriptions
  BY <1>1, <1>3, <1>4
<1> QED
  BY <1>2, <1>5 DEF Before

\* Every place is in one of the slices.
LEMMA SlicesCover ==
    ASSUME NEW all \in Seq(Symbol), NEW x \in 1..Len(all)
    PROVE  \E i \in 1..Slices(all) : Before(i) < x /\ x <= Before(i) + MaxSubscriptions
<1> DEFINE i == ((x - 1) \div MaxSubscriptions) + 1
<1>1. MaxSubscriptions \in Nat \ {0} /\ Len(all) \in Nat
  BY MaxAssumption, LenProperties
<1>2. x - 1 \in Nat /\ Len(all) + MaxSubscriptions - 1 \in Nat
      /\ x - 1 + MaxSubscriptions <= Len(all) + MaxSubscriptions - 1
  BY <1>1
<1>3. ASSUME NEW a \in Nat, NEW m \in Nat \ {0}
      PROVE  a \div m \in Nat /\ (a \div m) * m <= a /\ a < (a \div m) * m + m
  OBVIOUS
<1>4. ASSUME NEW a \in Nat, NEW m \in Nat \ {0} PROVE (a + m) \div m = a \div m + 1
  OBVIOUS
<1>5. ASSUME NEW a \in Nat, NEW b \in Nat, a <= b
      PROVE  a \div MaxSubscriptions <= b \div MaxSubscriptions
  BY <1>1, <1>5
<1>6. i \in Nat \ {0} /\ Before(i) <= x - 1 /\ x - 1 < Before(i) + MaxSubscriptions
      /\ Before(i) \in Nat
  <2>1. i - 1 = (x - 1) \div MaxSubscriptions
    BY <1>1, <1>2, <1>3
  <2>2. Before(i) = ((x - 1) \div MaxSubscriptions) * MaxSubscriptions
    BY <2>1, Zenon DEF Before
  <2> QED
    BY <1>1, <1>2, <1>3, <2>2
<1>7. i <= Slices(all)
  <2>1. (x - 1 + MaxSubscriptions) \div MaxSubscriptions = i
    BY <1>1, <1>2, <1>4
  <2>2. (x - 1 + MaxSubscriptions) \in Nat
    BY <1>1, <1>2
  <2> HIDE DEF i
  <2> QED
    BY <1>2, <1>5, <2>1, <2>2 DEF Slices
<1>8. Slices(all) \in Nat
  BY <1>1, <1>2, <1>3 DEF Slices
<1> HIDE DEF i
<1> QED
  BY <1>1, <1>6, <1>7, <1>8
\* A stream's messages, by place and theme.
LEMMA MessagesOfStream ==
    ASSUME IInv, NEW feed \in Feeds, NEW i \in DOMAIN streams[feed]
    PROVE  LET n == Len(Themes[feed])
               slice == GetSlice(symbols, i, 0)
           IN  /\ streams[feed][i].status = "READY" =>
                    DOMAIN AskedFor(feed, i) = 1..(Len(slice) * n)
               /\ streams[feed][i].status # "READY" => DOMAIN AskedFor(feed, i) = {}
               /\ \A k \in DOMAIN AskedFor(feed, i) :
                    /\ k \in 1..(Len(slice) * n)
                    /\ AskedFor(feed, i)[k] = <<slice[Place(k, n)], Themes[feed][Theme(k, n)]>>
<1> DEFINE n == Len(Themes[feed])
           slice == GetSlice(symbols, i, 0)
<1>1. i \in 1..Len(streams[feed]) /\ i \in Nat \ {0}
  BY StreamTypes DEF IInv
<1>2. slice \in Seq(Symbol)
  BY <1>1, InSlice DEF IInv, TypesOK
<1>3. StreamOK(feed, i, streams[feed][i], symbols)
  BY <1>1 DEF IInv, StreamsOK
<1>4. CASE streams[feed][i].status = "READY"
  <2>1. AskedFor(feed, i) = Requests(feed, slice)
    BY <1>3, <1>4 DEF StreamOK, AskedFor
  <2> HIDE DEF slice
  <2>2. /\ Requests(feed, slice) \in Seq(Messages)
        /\ Len(Requests(feed, slice)) = Len(slice) * n
        /\ \A k \in 1..(Len(slice) * n) :
             Requests(feed, slice)[k] = <<slice[Place(k, n)], Themes[feed][Theme(k, n)]>>
    BY <1>2, RequestsType
  <2>3. DOMAIN Requests(feed, slice) = 1..(Len(slice) * n)
    BY <2>2, LenProperties
  <2> QED
    BY <1>4, <2>1, <2>2, <2>3 DEF slice
<1>5. CASE streams[feed][i].status # "READY"
  <2>1. AskedFor(feed, i) = <<>> \o <<>>
    BY <1>3, <1>5 DEF StreamOK, AskedFor
  <2>2. DOMAIN (<<>> \o <<>>) = {}
    OBVIOUS
  <2> QED
    BY <1>5, <2>1, <2>2
<1> QED
  BY <1>4, <1>5

\* The place in the list of the symbol that a message is about.
LEMMA SymbolOfMessage ==
    ASSUME IInv, NEW feed \in Feeds, NEW i \in DOMAIN streams[feed],
           NEW k \in DOMAIN AskedFor(feed, i)
    PROVE  LET n == Len(Themes[feed]) IN
           /\ i \in Nat \ {0} /\ Before(i) \in Nat
           /\ Place(k, n) \in 1..MaxSubscriptions /\ Theme(k, n) \in 1..n
           /\ Before(i) + Place(k, n) \in 1..Len(symbols)
           /\ AskedFor(feed, i)[k] =
                 <<symbols[Before(i) + Place(k, n)], Themes[feed][Theme(k, n)]>>
<1> DEFINE n == Len(Themes[feed])
           slice == GetSlice(symbols, i, 0)
<1>1. n \in {1, 4}
  BY ThemeNames
<1>2. i \in Nat \ {0} /\ symbols \in Seq(Symbol)
  BY StreamTypes DEF IInv, TypesOK
<1>3. /\ Len(slice) \in Nat /\ Before(i) \in Nat
      /\ \A p \in 1..Len(slice) :
           Before(i) + p \in 1..Len(symbols) /\ p <= MaxSubscriptions
           /\ slice[p] = symbols[Before(i) + p]
  BY <1>2, InSlice
<1>4. /\ k \in 1..(Len(slice) * n)
      /\ AskedFor(feed, i)[k] = <<slice[Place(k, n)], Themes[feed][Theme(k, n)]>>
  BY MessagesOfStream
<1> HIDE DEF n, slice
<1>5. Place(k, n) \in 1..Len(slice) /\ Theme(k, n) \in 1..n
  BY <1>1, <1>3, <1>4, Places
<1>6. MaxSubscriptions \in Nat
  BY MaxAssumption
<1> QED
  BY <1>2, <1>3, <1>4, <1>5, <1>6 DEF n

LEMMA SamePair ==
  ASSUME NEW a, NEW b, NEW c, NEW d, <<a, b>> = <<c, d>>
  PROVE  a = c /\ b = d
OBVIOUS

\* Whatever downloads, clients, reconnects and timers do, no theme of a symbol is asked for
\* twice on a feed, and a feed whose streams are all ready misses none: the slices, their
\* streams and the queues together deliver each symbol once.
THEOREM AskedForOnce == Spec => []EachSymbolIsAskedForOnce
<1>1. ASSUME IInv, NEW feed \in Feeds,
             NEW i \in DOMAIN streams[feed], NEW j \in DOMAIN streams[feed],
             NEW k \in DOMAIN AskedFor(feed, i), NEW m \in DOMAIN AskedFor(feed, j),
             AskedFor(feed, i)[k] = AskedFor(feed, j)[m]
      PROVE  i = j /\ k = m
  <2> DEFINE n == Len(Themes[feed])
             x == Before(i) + Place(k, n)
             y == Before(j) + Place(m, n)
  <2>1. n \in {1, 4} /\ MaxSubscriptions \in Nat \ {0}
    BY ThemeNames, MaxAssumption
  <2>2. /\ i \in Nat \ {0} /\ Before(i) \in Nat
        /\ Place(k, n) \in 1..MaxSubscriptions /\ Theme(k, n) \in 1..n
        /\ x \in 1..Len(symbols)
        /\ AskedFor(feed, i)[k] = <<symbols[x], Themes[feed][Theme(k, n)]>>
    BY <1>1, SymbolOfMessage
  <2>3. /\ j \in Nat \ {0} /\ Before(j) \in Nat
        /\ Place(m, n) \in 1..MaxSubscriptions /\ Theme(m, n) \in 1..n
        /\ y \in 1..Len(symbols)
        /\ AskedFor(feed, j)[m] = <<symbols[y], Themes[feed][Theme(m, n)]>>
    BY <1>1, SymbolOfMessage
  <2>4. DOMAIN symbols = 1..Len(symbols)
    BY <1>1, LenProperties DEF IInv, TypesOK
  <2> DEFINE a == Theme(k, n)
             b == Theme(m, n)
  <2>10. symbols[x] = symbols[y] /\ Themes[feed][a] = Themes[feed][b]
    <3>1. <<symbols[x], Themes[feed][a]>> = <<symbols[y], Themes[feed][b]>>
      BY <1>1, <2>2, <2>3, Zenon
    <3> HIDE DEF x, y, a, b
    <3> QED
      BY <3>1, SamePair, Zenon
  <2>5. x = y
    <3>1. \A u, v \in DOMAIN symbols : symbols[u] = symbols[v] => u = v
      BY <1>1 DEF IInv, SymbolsHaveOnePlace
    <3>2. x \in DOMAIN symbols /\ y \in DOMAIN symbols
      BY <2>2, <2>3, <2>4
    <3> HIDE DEF x, y
    <3> QED
      BY <2>10, <3>1, <3>2, Zenon
  <2>6. Theme(k, n) = Theme(m, n)
    <3>1. a \in 1..n /\ b \in 1..n
      BY <2>2, <2>3
    <3> HIDE DEF a, b
    <3>2. a = b
      BY <2>10, <3>1, ThemesDiffer
    <3> QED
      BY <3>2 DEF a, b
  <2>7. i = j
    <3>1. CASE i < j
      <4>1. Before(i) + MaxSubscriptions <= Before(j)
        BY <2>2, <2>3, <3>1, SlicesDiffer
      <4> HIDE DEF n
      <4> QED
        BY <2>1, <2>2, <2>3, <2>5, <4>1
    <3>2. CASE j < i
      <4>1. Before(j) + MaxSubscriptions <= Before(i)
        BY <2>2, <2>3, <3>2, SlicesDiffer
      <4> HIDE DEF n
      <4> QED
        BY <2>1, <2>2, <2>3, <2>5, <4>1
    <3> QED
      BY <2>2, <2>3, <3>1, <3>2
  <2>8. Place(k, n) = Place(m, n)
    <3> HIDE DEF n
    <3> QED
      BY <2>1, <2>2, <2>3, <2>5, <2>7
  <2>9. k = m
    <3> DEFINE l == Len(GetSlice(symbols, i, 0))
    <3>1. l \in Nat
      BY <1>1, <2>2, InSlice DEF IInv, TypesOK
    <3>2. k \in 1..(l * n) /\ m \in 1..(l * n)
      BY <1>1, <2>7, MessagesOfStream
    <3> HIDE DEF n, l
    <3> QED
      BY <2>1, <2>6, <2>8, <3>1, <3>2, NumbersOfMessages
  <2> QED
    BY <2>7, <2>9
<1>2. ASSUME IInv, NEW feed \in Feeds,
             \A i \in DOMAIN streams[feed] : streams[feed][i].status = "READY",
             NEW s \in all_symbols, NEW t \in DOMAIN Themes[feed]
      PROVE  \E i \in DOMAIN streams[feed] : \E k \in DOMAIN AskedFor(feed, i) :
                AskedFor(feed, i)[k] = <<s, Themes[feed][t]>>
  <2> DEFINE n == Len(Themes[feed])
  <2>1. n \in {1, 4} /\ t \in 1..n
    BY ThemeNames, ThemesDiffer
  <2>2. symbols \in Seq(Symbol) /\ DOMAIN symbols = 1..Len(symbols) /\ Len(symbols) \in Nat
    BY <1>2, LenProperties DEF IInv, TypesOK
  <2>3. PICK x \in 1..Len(symbols) : symbols[x] = s
    BY <1>2, <2>2 DEF IInv, SymbolsHaveOnePlace, Range
  <2>4. PICK i \in 1..Slices(symbols) : Before(i) < x /\ x <= Before(i) + MaxSubscriptions
    BY <2>2, SlicesCover
  <2>5. i \in DOMAIN streams[feed] /\ i \in Nat \ {0}
    <3>1. Len(streams[feed]) = Slices(symbols)
      BY <1>2 DEF IInv, SymbolsHaveOnePlace
    <3>2. DOMAIN streams[feed] = 1..Len(streams[feed]) /\ Len(streams[feed]) \in Nat
      BY <1>2, StreamTypes DEF IInv
    <3> QED
      BY <2>4, <3>1, <3>2
  <2> DEFINE slice == GetSlice(symbols, i, 0)
             p == x - Before(i)
  <2>6. /\ Len(slice) \in Nat /\ Before(i) \in Nat
        /\ p \in 1..Len(slice) /\ slice[p] = s
    <3>1. /\ Len(slice) \in Nat /\ Before(i) \in Nat /\ p \in 1..Len(slice)
      BY <2>2, <2>4, <2>5, InSlice
    <3>2. slice[p] = symbols[Before(i) + p]
      BY <2>2, <2>5, <3>1, InSlice
    <3>3. Before(i) + p = x
      BY <2>2, <3>1
    <3> QED
      BY <2>3, <3>1, <3>2, <3>3
  <2>7. DOMAIN AskedFor(feed, i) = 1..(Len(slice) * n)
    BY <1>2, <2>5, MessagesOfStream
  <2>8. \A k \in DOMAIN AskedFor(feed, i) :
           AskedFor(feed, i)[k] = <<slice[Place(k, n)], Themes[feed][Theme(k, n)]>>
    BY <1>2, <2>5, MessagesOfStream
  <2> HIDE DEF n, slice, p
  <2>9. PICK k \in 1..(Len(slice) * n) : Place(k, n) = p /\ Theme(k, n) = t
    <3> DEFINE l == Len(slice)
    <3>1. l \in Nat /\ p \in 1..l
      BY <2>6
    <3> HIDE DEF l
    <3>2. \A q \in 1..l, u \in 1..n :
             \E k \in 1..(l * n) : Place(k, n) = q /\ Theme(k, n) = u
      BY <2>1, <3>1, NumbersOfMessages, Zenon
    <3>3. \E k \in 1..(l * n) : Place(k, n) = p /\ Theme(k, n) = t
      BY <2>1, <3>1, <3>2, Zenon
    <3> QED
      BY <3>3, Zenon DEF l
  <2>10. k \in DOMAIN AskedFor(feed, i) /\ AskedFor(feed, i)[k] = <<s, Themes[feed][t]>>
    BY <2>6, <2>7, <2>8, <2>9
  <2> QED
    BY <2>5, <2>10
<1>3. IInv => EachSymbolIsAskedForOnce
  BY <1>1, <1>2 DEF EachSymbolIsAskedForOnce
<1> QED
  BY <1>3, Invariance, PTL
================================================================================
