------------------------------ MODULE ContextProofs ------------------------------
(***************************************************************************)
(* What a context pack promises, for every request, every scan of the      *)
(* sources and every change of them between two loads.                     *)
(*                                                                         *)
(* The argument follows a preparation.  A load keeps, of each file, what   *)
(* was read, and which sources it could not read whole.  Every resolver    *)
(* finds excerpts of what was loaded, verification and analysis keep only  *)
(* proven ones and say what is missing, packing keeps what is mandatory or *)
(* says that the budget is not enough.  A second load that gives the same  *)
(* makes this true of the sources as they are, and an expansion replays    *)
(* its history over one load before it adds to it.                         *)
(***************************************************************************)
EXTENDS ContextRetrieval, TLAPS, FiniteSetTheorems, WellFoundedInduction

(* Images of finite sets are finite, and a finite set has a sequence.      *)
LEMMA ImageIsFinite ==
  ASSUME NEW f, IsFiniteSet(DOMAIN f), NEW S, S = {f[x] : x \in DOMAIN f}
  PROVE  IsFiniteSet(S)
<1> DEFINE g == [x \in DOMAIN f |-> f[x]]
<1>1. g \in Surjection(DOMAIN f, S)
  BY DEF Surjection
<1>. QED BY <1>1, FS_Surjection

LEMMA SetToSeqIsSeq ==
  ASSUME NEW S, IsFiniteSet(S)
  PROVE  SetToSeq(S) \in Seq(S)
<1>1. Cardinality(S) \in Nat /\ ExistsBijection(1..Cardinality(S), S)
  BY FS_CardinalityType
<1>2. \E f \in [1..Cardinality(S) -> S] : IsInjective(f)
  BY <1>1 DEF ExistsBijection, Bijection, Injection, IsInjective
<1>3. SetToSeq(S) \in [1..Cardinality(S) -> S]
  BY <1>2 DEF SetToSeq
<1>. QED BY <1>1, <1>3

(* What a list of changes is made of.                                      *)
IsList(files) == files \in Seq(ToSet(files))


(* Induction over a set of numbers.                                        *)
LEMMA NumbersFrom ==
  ASSUME NEW S, 0 \in S, \A n \in Nat : n \in S => n + 1 \in S
  PROVE  Nat \subseteq S
<1> DEFINE T == {n \in Nat : n \notin S}
<1>1. SUFFICES ASSUME T # {} PROVE FALSE
  OBVIOUS
<1>2. T \in SUBSET Nat
  OBVIOUS
<1>3. PICK n \in T : \A m \in T : ~ (<<m, n>> \in OpToRel(<, Nat))
  BY <1>1, <1>2, WFMin, NatLessThanWellFounded, Zenon
<1>4. \A m \in T : ~ (m < n)
  BY <1>3 DEF OpToRel
<1>5. n \in Nat /\ n \notin S /\ n # 0
  OBVIOUS
<1>6. n - 1 \in Nat /\ n - 1 < n /\ (n - 1) + 1 = n
  BY <1>5
<1>7. n - 1 \in S
  BY <1>4, <1>6
<1>. QED BY <1>5, <1>6, <1>7

-----------------------------------------------------------------------------
(* Lists, their elements and their ends.                                   *)
LEMMA ListFacts ==
  ASSUME NEW s, IsList(s), NEW t, IsList(t), NEW x, NEW n \in Nat, n <= Len(s)
  PROVE  /\ Len(s) \in Nat /\ DOMAIN s = 1..Len(s) /\ IsFiniteSet(ToSet(s)) /\ IsFiniteSet(DOMAIN s)
         /\ IsList(<<>>) /\ ToSet(<<>>) = {}
         /\ IsList(Append(s, x)) /\ ToSet(Append(s, x)) = ToSet(s) \cup {x} /\ Len(Append(s, x)) = Len(s) + 1
         /\ Append(s, x)[Len(s) + 1] = x /\ \A i \in 1..Len(s) : Append(s, x)[i] = s[i]
         /\ IsList(s \o t) /\ ToSet(s \o t) = ToSet(s) \cup ToSet(t)
         /\ IsList(SubSeq(s, 1, n)) /\ ToSet(SubSeq(s, 1, n)) \subseteq ToSet(s)
<1> DEFINE U == ToSet(s) \cup ToSet(t) \cup {x}
<1>1. s \in Seq(U) /\ t \in Seq(U) /\ x \in U
  BY DEF IsList
<1>2. ASSUME NEW T, NEW u \in Seq(T)
      PROVE  IsList(u) /\ Len(u) \in Nat /\ DOMAIN u = 1..Len(u) /\ IsFiniteSet(DOMAIN u) /\ IsFiniteSet(ToSet(u))
  <2>1. DOMAIN u = 1..Len(u) /\ Len(u) \in Nat
    BY <1>2
  <2>2. u \in [1..Len(u) -> ToSet(u)]
    BY <1>2, <2>1 DEF ToSet
  <2>3. IsFiniteSet(1..Len(u))
    BY <2>1, FS_Interval
  <2>4. IsFiniteSet(ToSet(u))
    BY <2>1, <2>3, ImageIsFinite DEF ToSet
  <2>. QED BY <2>1, <2>2, <2>3, <2>4 DEF IsList
<1> HIDE DEF U
<1>3. Append(s, x) \in Seq(U) /\ s \o t \in Seq(U) /\ SubSeq(s, 1, n) \in Seq(U) /\ <<>> \in Seq(U)
  BY <1>1
<1>4. ToSet(<<>>) = {}
  BY DEF ToSet
<1>5. /\ Len(Append(s, x)) = Len(s) + 1 /\ Append(s, x)[Len(s) + 1] = x
      /\ \A i \in 1..Len(s) : Append(s, x)[i] = s[i]
  BY <1>1
<1>6. ToSet(Append(s, x)) = ToSet(s) \cup {x}
  <2>1. DOMAIN Append(s, x) = 1..(Len(s) + 1) /\ DOMAIN s = 1..Len(s) /\ Len(s) \in Nat
    BY <1>1, <1>2, <1>3, <1>5
  <2>. QED BY <1>5, <2>1 DEF ToSet
<1>7. ToSet(s \o t) = ToSet(s) \cup ToSet(t)
  <2>1. /\ Len(s \o t) = Len(s) + Len(t) /\ DOMAIN (s \o t) = 1..(Len(s) + Len(t)) /\ DOMAIN s = 1..Len(s) /\ DOMAIN t = 1..Len(t)
        /\ Len(s) \in Nat /\ Len(t) \in Nat
        /\ \A i \in 1..(Len(s) + Len(t)) : (s \o t)[i] = IF i <= Len(s) THEN s[i] ELSE t[i - Len(s)]
    BY <1>1
  <2>2. ASSUME NEW i \in DOMAIN (s \o t) PROVE (s \o t)[i] \in ToSet(s) \cup ToSet(t)
    BY <2>1 DEF ToSet
  <2>3. ASSUME NEW i \in DOMAIN s PROVE s[i] \in ToSet(s \o t)
    BY <2>1 DEF ToSet
  <2>4. ASSUME NEW i \in DOMAIN t PROVE t[i] \in ToSet(s \o t)
    <3>1. Len(s) + i \in DOMAIN (s \o t) /\ (s \o t)[Len(s) + i] = t[i]
      BY <2>1
    <3>. QED BY <3>1 DEF ToSet
  <2>. QED BY <2>2, <2>3, <2>4 DEF ToSet
<1>8. ToSet(SubSeq(s, 1, n)) \subseteq ToSet(s)
  <2>1. DOMAIN SubSeq(s, 1, n) = 1..n /\ \A i \in 1..n : SubSeq(s, 1, n)[i] = s[i] /\ DOMAIN s = 1..Len(s)
    BY <1>1
  <2>2. \A i \in 1..n : i \in DOMAIN s
    BY <1>1, <2>1
  <2>. QED BY <2>1, <2>2 DEF ToSet
<1>. QED BY <1>1, <1>2, <1>3, <1>4, <1>5, <1>6, <1>7, <1>8

LEMMA ListIs ==
  ASSUME NEW s, IsList(s)
  PROVE  Len(s) \in Nat /\ DOMAIN s = 1..Len(s) /\ IsFiniteSet(ToSet(s)) /\ IsFiniteSet(DOMAIN s)
<1>1. 0 \in Nat /\ 0 <= Len(s)
  BY DEF IsList
<1>. QED BY <1>1, ListFacts

LEMMA EmptyList == IsList(<<>>) /\ ToSet(<<>>) = {} /\ Len(<<>>) = 0 /\ DOMAIN <<>> = 1..0
BY DEF IsList, ToSet

LEMMA AppendIs ==
  ASSUME NEW s, IsList(s), NEW x
  PROVE  /\ IsList(Append(s, x)) /\ ToSet(Append(s, x)) = ToSet(s) \cup {x} /\ Len(Append(s, x)) = Len(s) + 1
         /\ Append(s, x)[Len(s) + 1] = x /\ \A i \in 1..Len(s) : Append(s, x)[i] = s[i]
<1>1. 0 \in Nat /\ 0 <= Len(s)
  BY DEF IsList
<1>. QED BY <1>1, ListFacts

LEMMA ConcatIs ==
  ASSUME NEW s, IsList(s), NEW t, IsList(t)
  PROVE  IsList(s \o t) /\ ToSet(s \o t) = ToSet(s) \cup ToSet(t)
<1>1. 0 \in Nat /\ 0 <= Len(s)
  BY DEF IsList
<1>. QED BY <1>1, ListFacts

(* By increasing rank nobody is left out and nobody comes twice.           *)
LEMMA InOrderListsAll ==
  ASSUME NEW set, IsFiniteSet(set), NEW rank, \A x \in set : rank[x] \in Int, \A x, y \in set : rank[x] = rank[y] => x = y
  PROVE  /\ Cardinality(set) \in Nat /\ DOMAIN InOrder(set, rank) = 1..Cardinality(set)
         /\ \A k \in 1..Cardinality(set) : InOrder(set, rank)[k] \in set
         /\ \A x \in set : \E k \in 1..Cardinality(set) : InOrder(set, rank)[k] = x
<1> DEFINE Below(x) == {y \in set : rank[y] < rank[x]}
           N == Cardinality(set)
           place == [x \in set |-> Cardinality(Below(x))]
<1>1. N \in Nat
  BY FS_CardinalityType
<1>2. ASSUME NEW x \in set PROVE IsFiniteSet(Below(x)) /\ place[x] \in Nat /\ place[x] < N
  <2>1. IsFiniteSet(Below(x)) /\ Cardinality(Below(x)) <= N /\ (N = Cardinality(Below(x)) => set = Below(x))
    BY FS_Subset
  <2>2. Cardinality(Below(x)) \in Nat
    BY <2>1, FS_CardinalityType
  <2>3. x \notin Below(x)
    OBVIOUS
  <2>4. N # Cardinality(Below(x))
    BY <2>1, <2>3
  <2> HIDE DEF Below, N
  <2>. QED BY <1>1, <2>1, <2>2, <2>4
<1>3. ASSUME NEW x \in set, NEW y \in set, rank[x] < rank[y] PROVE place[x] < place[y]
  <2>1. Below(x) \in SUBSET Below(y)
    BY <1>3
  <2>2. x \in Below(y) /\ x \notin Below(x)
    BY <1>3
  <2> HIDE DEF Below
  <2>3. Cardinality(Below(x)) <= Cardinality(Below(y)) /\ (Cardinality(Below(y)) = Cardinality(Below(x)) => Below(y) = Below(x))
    BY <1>2, <2>1, FS_Subset
  <2>. QED BY <1>2, <2>2, <2>3
<1>4. ASSUME NEW x \in set, NEW y \in set, place[x] = place[y] PROVE x = y
  <2> HIDE DEF place, N, Below
  <2>1. place[x] \in Nat /\ place[y] \in Nat
    BY <1>2
  <2>2. ~(rank[x] < rank[y]) /\ ~(rank[y] < rank[x])
    BY <1>3, <1>4, <2>1
  <2>3. rank[x] \in Int /\ rank[y] \in Int
    OBVIOUS
  <2>. QED BY <2>2, <2>3
<1>5. place \in Injection(set, 0..(N - 1))
  <2>1. place \in [set -> 0..(N - 1)]
    <3>1. \A x \in set : place[x] \in 0..(N - 1)
      <4> HIDE DEF place, N, Below
      <4>. QED BY <1>1, <1>2
    <3>. QED BY <3>1
  <2> HIDE DEF place, N
  <2>. QED BY <1>4, <2>1 DEF Injection, IsInjective
<1>6. place \in Surjection(set, 0..(N - 1))
  <2>1. IsFiniteSet(0..(N - 1)) /\ Cardinality(0..(N - 1)) = N
    <3> HIDE DEF N
    <3>. QED BY <1>1, FS_Interval
  <2> HIDE DEF place
  <2>. QED BY <1>5, <2>1, FS_Injection
<1> DEFINE order == InOrder(set, rank)
<1>7. DOMAIN order = 1..N
  BY DEF InOrder
<1>8. ASSUME NEW k \in 1..N PROVE order[k] \in set /\ place[order[k]] = k - 1
  <2>1. k - 1 \in 0..(N - 1)
    <3> HIDE DEF N
    <3>. QED BY <1>1
  <2>2. \E x \in set : place[x] = k - 1
    BY <1>6, <2>1 DEF Surjection
  <2>3. order[k] = CHOOSE x \in set : Cardinality({y \in set : rank[y] < rank[x]}) = k - 1
    BY DEF InOrder
  <2>4. \E x \in set : Cardinality({y \in set : rank[y] < rank[x]}) = k - 1
    BY <2>2
  <2>5. order[k] \in set /\ Cardinality({y \in set : rank[y] < rank[order[k]]}) = k - 1
    BY <2>3, <2>4
  <2>. QED BY <2>5
<1>9. ASSUME NEW x \in set PROVE \E k \in 1..N : order[k] = x
  <2> DEFINE k == place[x] + 1
  <2> HIDE DEF place, N, order, Below
  <2>1. k \in 1..N /\ k - 1 = place[x]
    BY <1>1, <1>2
  <2>2. order[k] \in set /\ place[order[k]] = place[x]
    BY <1>8, <2>1
  <2>. QED BY <1>4, <2>1, <2>2
<1>. QED BY <1>1, <1>7, <1>8, <1>9

LEMMA ItemsAtAre ==
  ASSUME NEW s, IsList(s), NEW at \in SUBSET DOMAIN s
  PROVE  /\ IsList(ItemsAt(s, at)) /\ ToSet(ItemsAt(s, at)) = {s[i] : i \in at}
         /\ Len(ItemsAt(s, at)) = Cardinality(at) /\ IsFiniteSet(at)
<1> DEFINE rank == [i \in at |-> i]
           order == InOrder(at, rank)
           items == ItemsAt(s, at)
<1>1. Len(s) \in Nat /\ DOMAIN s = 1..Len(s)
  BY DEF IsList
<1>2. IsFiniteSet(at)
  <2>1. IsFiniteSet(1..Len(s))
    BY <1>1, FS_Interval
  <2>. QED BY <1>1, <2>1, FS_Subset
<1>3. (\A x \in at : rank[x] \in Int) /\ \A x, y \in at : rank[x] = rank[y] => x = y
  BY <1>1
<1> HIDE DEF rank
<1>4. /\ Cardinality(at) \in Nat /\ DOMAIN order = 1..Cardinality(at) /\ \A k \in 1..Cardinality(at) : order[k] \in at
      /\ \A x \in at : \E k \in 1..Cardinality(at) : order[k] = x
  BY <1>2, <1>3, InOrderListsAll
<1>5. items = [k \in DOMAIN order |-> s[order[k]]]
  BY DEF ItemsAt, rank
<1> HIDE DEF order, items
<1>6. DOMAIN items = 1..Cardinality(at) /\ \A k \in 1..Cardinality(at) : items[k] = s[order[k]]
  BY <1>4, <1>5
<1>7. ToSet(items) = {s[i] : i \in at}
  BY <1>4, <1>6 DEF ToSet
<1>8. items \in [1..Cardinality(at) -> ToSet(items)]
  BY <1>5, <1>6 DEF ToSet
<1>9. items \in Seq(ToSet(items)) /\ Len(items) = Cardinality(at)
  BY <1>4, <1>8
<1>. QED BY <1>2, <1>7, <1>9 DEF IsList, items

LEMMA SetToSeqListsAll ==
  ASSUME NEW S, IsFiniteSet(S)
  PROVE  IsList(SetToSeq(S)) /\ ToSet(SetToSeq(S)) = S
<1> DEFINE s == SetToSeq(S)
<1>1. Cardinality(S) \in Nat /\ ExistsBijection(1..Cardinality(S), S)
  BY FS_CardinalityType
<1>2. \E f \in [1..Cardinality(S) -> S] : IsInjective(f)
  BY <1>1 DEF ExistsBijection, Bijection, Injection, IsInjective
<1>3. s \in [1..Cardinality(S) -> S] /\ IsInjective(s)
  BY <1>2 DEF SetToSeq
<1>4. s \in Injection(1..Cardinality(S), S)
  BY <1>3 DEF Injection
<1>5. IsFiniteSet(1..Cardinality(S)) /\ Cardinality(1..Cardinality(S)) = Cardinality(S)
  BY <1>1, FS_Interval
<1> HIDE DEF s
<1>6. s \in Surjection(1..Cardinality(S), S)
  BY <1>4, <1>5, FS_Injection
<1>7. ToSet(s) = S
  BY <1>3, <1>6 DEF ToSet, Surjection
<1>8. s \in Seq(S)
  BY <1>1, <1>3
<1>. QED BY <1>7, <1>8 DEF IsList, s

(* The files of a scan one after the other.                                *)
IsLoad(done, request, scan) ==
  /\ DOMAIN done = 0..Len(scan) /\ done[0] = Unvisited(request)
  /\ \A n \in 1..Len(scan) : done[n] = Visit(request, done[n - 1], scan[n])

LEMMA LoadWalks ==
  ASSUME NEW request, NEW scan, Len(scan) \in Nat
  PROVE  \E done : IsLoad(done, request, scan) /\ loadFilesystem(request, scan) = done[Len(scan)]
<1> DEFINE Value(f, n) == IF n = 0 THEN Unvisited(request) ELSE Visit(request, f[n - 1], scan[n])
           S == {n \in Nat : \E f : f = [m \in 0..n |-> Value(f, m)]}
<1>1. 0 \in S
  <2> DEFINE f == [m \in 0..0 |-> Unvisited(request)]
  <2>1. f = [m \in 0..0 |-> Value(f, m)]
    OBVIOUS
  <2>. QED BY <2>1
<1>2. ASSUME NEW n \in Nat, n \in S PROVE n + 1 \in S
  <2>1. PICK f : f = [m \in 0..n |-> Value(f, m)]
    BY <1>2
  <2> DEFINE g == [m \in 0..(n + 1) |-> IF m = n + 1 THEN Visit(request, f[n], scan[n + 1]) ELSE f[m]]
  <2>2. ASSUME NEW m \in 0..(n + 1) PROVE g[m] = Value(g, m)
    <3>1. CASE m = n + 1
      <4>1. g[n] = f[n] /\ m - 1 = n /\ m # 0
        BY <3>1
      <4>. QED BY <3>1, <4>1
    <3>2. CASE m = 0
      BY <2>1, <3>2
    <3>3. CASE m \in 1..n
      <4>1. g[m] = f[m] /\ g[m - 1] = f[m - 1] /\ m # 0
        BY <3>3
      <4>2. f[m] = Value(f, m)
        <5>1. m \in 0..n
          BY <3>3
        <5> HIDE DEF Value
        <5>. QED BY <2>1, <5>1
      <4>. QED BY <4>1, <4>2
    <3>. QED BY <3>1, <3>2, <3>3
  <2>3. g = [m \in 0..(n + 1) |-> Value(g, m)]
    <3>1. g = [m \in 0..(n + 1) |-> g[m]]
      OBVIOUS
    <3> HIDE DEF g, Value
    <3>. QED BY <2>2, <3>1
  <2>4. n + 1 \in Nat
    OBVIOUS
  <2> HIDE DEF g, Value
  <2>. QED BY <2>3, <2>4
<1>3. Len(scan) \in S
  <2> HIDE DEF S
  <2>. QED BY <1>1, <1>2, NumbersFrom
<1> DEFINE done == CHOOSE f : f = [m \in 0..Len(scan) |-> Value(f, m)]
<1>4. done = [m \in 0..Len(scan) |-> Value(done, m)]
  BY <1>3
<1>5. loadFilesystem(request, scan) = done[Len(scan)]
  BY DEF loadFilesystem
<1> HIDE DEF done
<1>6. IsLoad(done, request, scan)
  <2>1. DOMAIN done = 0..Len(scan) /\ 0 \in 0..Len(scan)
    BY <1>4
  <2>2. \A m \in 0..Len(scan) : done[m] = Value(done, m)
    <3> HIDE DEF Value
    <3>. QED BY <1>4
  <2>3. done[0] = Unvisited(request)
    BY <2>1, <2>2
  <2>4. \A n \in 1..Len(scan) : done[n] = Visit(request, done[n - 1], scan[n])
    BY <2>2
  <2>. QED BY <2>1, <2>3, <2>4 DEF IsLoad
<1>. QED BY <1>5, <1>6

(* The facets of a plan one after the other.                               *)
NothingFound == [found |-> <<>>, coverage |-> {}, notes |-> {}]
IsSearch(done, request, snapshot, facets) ==
  /\ DOMAIN done = 0..Len(facets) /\ done[0] = NothingFound
  /\ \A n \in 1..Len(facets) : done[n] = Retrieved(request, snapshot, done[n - 1], facets[n])

LEMMA RetrieveWalks ==
  ASSUME NEW request, NEW snapshot, NEW facets, Len(facets) \in Nat
  PROVE  \E done : IsSearch(done, request, snapshot, facets) /\ retrieve(request, snapshot, facets) = done[Len(facets)]
<1> DEFINE Value(f, n) == IF n = 0 THEN NothingFound ELSE Retrieved(request, snapshot, f[n - 1], facets[n])
           S == {n \in Nat : \E f : f = [m \in 0..n |-> Value(f, m)]}
<1>1. 0 \in S
  <2> DEFINE f == [m \in 0..0 |-> NothingFound]
  <2>1. f = [m \in 0..0 |-> Value(f, m)]
    OBVIOUS
  <2>. QED BY <2>1
<1>2. ASSUME NEW n \in Nat, n \in S PROVE n + 1 \in S
  <2>1. PICK f : f = [m \in 0..n |-> Value(f, m)]
    BY <1>2
  <2> DEFINE g == [m \in 0..(n + 1) |-> IF m = n + 1 THEN Retrieved(request, snapshot, f[n], facets[n + 1]) ELSE f[m]]
  <2>2. ASSUME NEW m \in 0..(n + 1) PROVE g[m] = Value(g, m)
    <3>1. CASE m = n + 1
      <4>1. g[n] = f[n] /\ m - 1 = n /\ m # 0
        BY <3>1
      <4>. QED BY <3>1, <4>1
    <3>2. CASE m = 0
      BY <2>1, <3>2
    <3>3. CASE m \in 1..n
      <4>1. g[m] = f[m] /\ g[m - 1] = f[m - 1] /\ m # 0
        BY <3>3
      <4>2. f[m] = Value(f, m)
        <5>1. m \in 0..n
          BY <3>3
        <5> HIDE DEF Value
        <5>. QED BY <2>1, <5>1
      <4>. QED BY <4>1, <4>2
    <3>. QED BY <3>1, <3>2, <3>3
  <2>3. g = [m \in 0..(n + 1) |-> Value(g, m)]
    <3>1. g = [m \in 0..(n + 1) |-> g[m]]
      OBVIOUS
    <3> HIDE DEF g, Value
    <3>. QED BY <2>2, <3>1
  <2>4. n + 1 \in Nat
    OBVIOUS
  <2> HIDE DEF g, Value
  <2>. QED BY <2>3, <2>4
<1>3. Len(facets) \in S
  <2> HIDE DEF S
  <2>. QED BY <1>1, <1>2, NumbersFrom
<1> DEFINE done == CHOOSE f : f = [m \in 0..Len(facets) |-> Value(f, m)]
<1>4. done = [m \in 0..Len(facets) |-> Value(done, m)]
  BY <1>3
<1>5. retrieve(request, snapshot, facets) = done[Len(facets)]
  BY DEF retrieve, NothingFound
<1> HIDE DEF done
<1>6. IsSearch(done, request, snapshot, facets)
  <2>1. DOMAIN done = 0..Len(facets) /\ 0 \in 0..Len(facets)
    BY <1>4
  <2>2. \A m \in 0..Len(facets) : done[m] = Value(done, m)
    <3> HIDE DEF Value
    <3>. QED BY <1>4
  <2>3. done[0] = NothingFound
    BY <2>1, <2>2
  <2>4. \A n \in 1..Len(facets) : done[n] = Retrieved(request, snapshot, done[n - 1], facets[n])
    BY <2>2
  <2>. QED BY <2>1, <2>3, <2>4 DEF IsSearch
<1>. QED BY <1>5, <1>6

(* The units of evidence one after the other.                              *)
IsJoin(done, found) ==
  /\ DOMAIN done = 0..Len(found) /\ done[0] = <<>>
  /\ \A n \in 1..Len(found) : done[n] = Joined(done[n - 1], found[n])

LEMMA JoinWalks ==
  ASSUME NEW found, Len(found) \in Nat
  PROVE  \E done : IsJoin(done, found) /\ qualityDeduplicate(found) = done[Len(found)]
<1> DEFINE Value(f, n) == IF n = 0 THEN <<>> ELSE Joined(f[n - 1], found[n])
           S == {n \in Nat : \E f : f = [m \in 0..n |-> Value(f, m)]}
<1>1. 0 \in S
  <2> DEFINE f == [m \in 0..0 |-> <<>>]
  <2>1. f = [m \in 0..0 |-> Value(f, m)]
    OBVIOUS
  <2>. QED BY <2>1
<1>2. ASSUME NEW n \in Nat, n \in S PROVE n + 1 \in S
  <2>1. PICK f : f = [m \in 0..n |-> Value(f, m)]
    BY <1>2
  <2> DEFINE g == [m \in 0..(n + 1) |-> IF m = n + 1 THEN Joined(f[n], found[n + 1]) ELSE f[m]]
  <2>2. ASSUME NEW m \in 0..(n + 1) PROVE g[m] = Value(g, m)
    <3>1. CASE m = n + 1
      <4>1. g[n] = f[n] /\ m - 1 = n /\ m # 0
        BY <3>1
      <4>. QED BY <3>1, <4>1
    <3>2. CASE m = 0
      BY <2>1, <3>2
    <3>3. CASE m \in 1..n
      <4>1. g[m] = f[m] /\ g[m - 1] = f[m - 1] /\ m # 0
        BY <3>3
      <4>2. f[m] = Value(f, m)
        <5>1. m \in 0..n
          BY <3>3
        <5> HIDE DEF Value
        <5>. QED BY <2>1, <5>1
      <4>. QED BY <4>1, <4>2
    <3>. QED BY <3>1, <3>2, <3>3
  <2>3. g = [m \in 0..(n + 1) |-> Value(g, m)]
    <3>1. g = [m \in 0..(n + 1) |-> g[m]]
      OBVIOUS
    <3> HIDE DEF g, Value
    <3>. QED BY <2>2, <3>1
  <2>4. n + 1 \in Nat
    OBVIOUS
  <2> HIDE DEF g, Value
  <2>. QED BY <2>3, <2>4
<1>3. Len(found) \in S
  <2> HIDE DEF S
  <2>. QED BY <1>1, <1>2, NumbersFrom
<1> DEFINE done == CHOOSE f : f = [m \in 0..Len(found) |-> Value(f, m)]
<1>4. done = [m \in 0..Len(found) |-> Value(done, m)]
  BY <1>3
<1>5. qualityDeduplicate(found) = done[Len(found)]
  BY DEF qualityDeduplicate
<1> HIDE DEF done
<1>6. IsJoin(done, found)
  <2>1. DOMAIN done = 0..Len(found) /\ 0 \in 0..Len(found)
    BY <1>4
  <2>2. \A m \in 0..Len(found) : done[m] = Value(done, m)
    <3> HIDE DEF Value
    <3>. QED BY <1>4
  <2>3. done[0] = <<>>
    BY <2>1, <2>2
  <2>4. \A n \in 1..Len(found) : done[n] = Joined(done[n - 1], found[n])
    BY <2>2
  <2>. QED BY <2>1, <2>3, <2>4 DEF IsJoin
<1>. QED BY <1>5, <1>6

(* The history of a base one expansion after the other.                    *)
ReplayStep(request, after, out, ask) == IF ~out.ok THEN NoPack ELSE ExpandOnce(request, out.pack, ask, after, after)
IsReplay(done, request, before, after, history) ==
  /\ DOMAIN done = 0..Len(history) /\ done[0] = Prepare(request, before, after)
  /\ \A n \in 1..Len(history) : done[n] = ReplayStep(request, after, done[n - 1], history[n])

LEMMA ReplayWalks ==
  ASSUME NEW request, NEW before, NEW after, NEW history, Len(history) \in Nat
  PROVE  \E done : IsReplay(done, request, before, after, history) /\ Replayed(request, before, after, history) = done[Len(history)]
<1> DEFINE Value(f, n) == IF n = 0 THEN Prepare(request, before, after) ELSE ReplayStep(request, after, f[n - 1], history[n])
           S == {n \in Nat : \E f : f = [m \in 0..n |-> Value(f, m)]}
<1>1. 0 \in S
  <2> DEFINE f == [m \in 0..0 |-> Prepare(request, before, after)]
  <2>1. f = [m \in 0..0 |-> Value(f, m)]
    OBVIOUS
  <2>. QED BY <2>1
<1>2. ASSUME NEW n \in Nat, n \in S PROVE n + 1 \in S
  <2>1. PICK f : f = [m \in 0..n |-> Value(f, m)]
    BY <1>2
  <2> DEFINE g == [m \in 0..(n + 1) |-> IF m = n + 1 THEN ReplayStep(request, after, f[n], history[n + 1]) ELSE f[m]]
  <2>2. ASSUME NEW m \in 0..(n + 1) PROVE g[m] = Value(g, m)
    <3>1. CASE m = n + 1
      <4>1. g[n] = f[n] /\ m - 1 = n /\ m # 0
        BY <3>1
      <4>. QED BY <3>1, <4>1
    <3>2. CASE m = 0
      BY <2>1, <3>2
    <3>3. CASE m \in 1..n
      <4>1. g[m] = f[m] /\ g[m - 1] = f[m - 1] /\ m # 0
        BY <3>3
      <4>2. f[m] = Value(f, m)
        <5>1. m \in 0..n
          BY <3>3
        <5> HIDE DEF Value
        <5>. QED BY <2>1, <5>1
      <4>. QED BY <4>1, <4>2
    <3>. QED BY <3>1, <3>2, <3>3
  <2>3. g = [m \in 0..(n + 1) |-> Value(g, m)]
    <3>1. g = [m \in 0..(n + 1) |-> g[m]]
      OBVIOUS
    <3> HIDE DEF g, Value
    <3>. QED BY <2>2, <3>1
  <2>4. n + 1 \in Nat
    OBVIOUS
  <2> HIDE DEF g, Value
  <2>. QED BY <2>3, <2>4
<1>3. Len(history) \in S
  <2> HIDE DEF S
  <2>. QED BY <1>1, <1>2, NumbersFrom
<1> DEFINE done == CHOOSE f : f = [m \in 0..Len(history) |-> Value(f, m)]
<1>4. done = [m \in 0..Len(history) |-> Value(done, m)]
  BY <1>3
<1>5. Replayed(request, before, after, history) = done[Len(history)]
  BY DEF Replayed, ReplayStep
<1> HIDE DEF done
<1>6. IsReplay(done, request, before, after, history)
  <2>1. DOMAIN done = 0..Len(history) /\ 0 \in 0..Len(history)
    BY <1>4
  <2>2. \A m \in 0..Len(history) : done[m] = Value(done, m)
    <3> HIDE DEF Value
    <3>. QED BY <1>4
  <2>3. done[0] = Prepare(request, before, after)
    BY <2>1, <2>2
  <2>4. \A n \in 1..Len(history) : done[n] = ReplayStep(request, after, done[n - 1], history[n])
    BY <2>2
  <2>. QED BY <2>1, <2>3, <2>4 DEF IsReplay
<1>. QED BY <1>5, <1>6

(* The units of evidence packed one after the other.                       *)
Mandatory(quality) ==
  LET participants == UNION {x.ids : x \in quality.conflicts}
  IN  {c \in ToSet(quality.found) : c.required \/ c.provenance = "policy" \/ EvidenceID(c) \in participants}
PackStart(plan, sources, quality, coverage, notes, previous) ==
  [plan |-> plan, status |-> "", evidence |-> <<>>, sources |-> sources, coverage |-> coverage, questions |-> plan.unresolved \cup notes \cup quality.notes,
   conflicts |-> quality.conflicts, omissions |-> quality.omissions, used |-> previous]
LastOf(request, plan, packed, previous) == Finished(request, Bounded(request, measurePack(Questioned(request, plan, packed), previous), previous))
IsPacking(done, request, list, mandatory, start, previous) ==
  /\ DOMAIN done = 0..Len(list) /\ done[0] = start
  /\ \A n \in 1..Len(list) : done[n] = Put(request, done[n - 1], list[n], mandatory, previous)

LEMMA PackWalks ==
  ASSUME NEW request, NEW plan, NEW sources, NEW quality, NEW coverage, NEW notes, NEW previous, NEW list, list = Ranked(quality.found, Mandatory(quality)), Len(list) \in Nat
  PROVE  \E done : /\ IsPacking(done, request, list, Mandatory(quality), PackStart(plan, sources, quality, coverage, notes, previous), previous)
                 /\ BuildPack(request, plan, sources, quality, coverage, notes, previous) = LastOf(request, plan, done[Len(list)], previous)
<1> DEFINE mandatory == Mandatory(quality)
           start == PackStart(plan, sources, quality, coverage, notes, previous)
           Value(f, n) == IF n = 0 THEN start ELSE Put(request, f[n - 1], list[n], mandatory, previous)
           S == {n \in Nat : \E f : f = [m \in 0..n |-> Value(f, m)]}
<1>1. 0 \in S
  <2> DEFINE f == [m \in 0..0 |-> start]
  <2>1. f = [m \in 0..0 |-> Value(f, m)]
    OBVIOUS
  <2>. QED BY <2>1
<1>2. ASSUME NEW n \in Nat, n \in S PROVE n + 1 \in S
  <2>1. PICK f : f = [m \in 0..n |-> Value(f, m)]
    BY <1>2
  <2> DEFINE g == [m \in 0..(n + 1) |-> IF m = n + 1 THEN Put(request, f[n], list[n + 1], mandatory, previous) ELSE f[m]]
  <2>2. ASSUME NEW m \in 0..(n + 1) PROVE g[m] = Value(g, m)
    <3>1. CASE m = n + 1
      <4>1. g[n] = f[n] /\ m - 1 = n /\ m # 0
        BY <3>1
      <4>. QED BY <3>1, <4>1
    <3>2. CASE m = 0
      BY <2>1, <3>2
    <3>3. CASE m \in 1..n
      <4>1. g[m] = f[m] /\ g[m - 1] = f[m - 1] /\ m # 0
        BY <3>3
      <4>2. f[m] = Value(f, m)
        <5>1. m \in 0..n
          BY <3>3
        <5> HIDE DEF Value
        <5>. QED BY <2>1, <5>1
      <4>. QED BY <4>1, <4>2
    <3>. QED BY <3>1, <3>2, <3>3
  <2>3. g = [m \in 0..(n + 1) |-> Value(g, m)]
    <3>1. g = [m \in 0..(n + 1) |-> g[m]]
      OBVIOUS
    <3> HIDE DEF g, Value
    <3>. QED BY <2>2, <3>1
  <2>4. n + 1 \in Nat
    OBVIOUS
  <2> HIDE DEF g, Value
  <2>. QED BY <2>3, <2>4
<1>3. Len(list) \in S
  <2> HIDE DEF S
  <2>. QED BY <1>1, <1>2, NumbersFrom
<1> DEFINE done == CHOOSE f : f = [m \in 0..Len(list) |-> Value(f, m)]
<1>4. done = [m \in 0..Len(list) |-> Value(done, m)]
  BY <1>3
<1>5. BuildPack(request, plan, sources, quality, coverage, notes, previous) = LastOf(request, plan, done[Len(list)], previous)
  BY DEF BuildPack, Mandatory, PackStart, LastOf
<1> HIDE DEF done
<1>6. IsPacking(done, request, list, mandatory, start, previous)
  <2>1. DOMAIN done = 0..Len(list) /\ 0 \in 0..Len(list)
    BY <1>4
  <2>2. \A m \in 0..Len(list) : done[m] = Value(done, m)
    <3> HIDE DEF Value
    <3>. QED BY <1>4
  <2>3. done[0] = start
    BY <2>1, <2>2
  <2>4. \A n \in 1..Len(list) : done[n] = Put(request, done[n - 1], list[n], mandatory, previous)
    BY <2>2
  <2>. QED BY <2>1, <2>3, <2>4 DEF IsPacking
<1>. QED BY <1>5, <1>6

(* What a scan meets, and what a load keeps of it.                         *)
IsFile(file) ==
  IsList(file.text) /\ IsFiniteSet(file.cites)
IsScan(scan) == IsList(scan) /\ \A file \in ToSet(scan) : IsFile(file)
ReadFrom(request, scan, d) ==
  \E file \in ToSet(scan) :
    /\ d.source = file.source /\ d.path = file.path /\ d.text = file.text /\ d.cites = file.cites /\ ~file.secret
    /\ Known(request, file.source) /\ PathAdmitted(Source(request, file.source), file.path)
IsGap(request, file) ==
  Known(request, file.source) /\ PathAdmitted(Source(request, file.source), file.path) /\ file.regular /\ ~file.readable
IsLoadRecord(out) == out = [docs |-> out.docs, skipped |-> out.skipped, notes |-> out.notes, left |-> out.left, partial |-> out.partial]
IsLoaded(request, scan, out, n) ==
  /\ IsLoadRecord(out)
  /\ IsList(out.docs) /\ \A d \in ToSet(out.docs) : ReadFrom(request, scan, d)
  /\ IsFiniteSet(out.notes)
  /\ \A i \in 1..n : IsGap(request, scan[i]) => scan[i].source \in out.partial

(* What one file does to the load of a source.                             *)
Passed(request, out, file, r) ==
  /\ r.docs = out.docs /\ \E x : r.notes = out.notes \cup {x}
  /\ out.partial \subseteq r.partial
  /\ IsGap(request, file) => Source(request, file.source).id \in r.partial
Taken(request, out, file, r) ==
  /\ r.docs = Append(out.docs, Document(file, Source(request, file.source)))
  /\ r.notes = out.notes /\ r.partial = out.partial
  /\ PathAdmitted(Source(request, file.source), file.path) /\ file.readable /\ ~file.secret

LEMMA VisitIs ==
  ASSUME NEW request, NEW out, NEW file, Known(request, file.source),
         IsLoadRecord(out)
  PROVE  LET r == Visit(request, out, file)
         IN  /\ IsLoadRecord(r)
             /\ Passed(request, out, file, r) \/ Taken(request, out, file, r)
<1>1. PICK docs, skipped, notes, left, partial :
        /\ out = [docs |-> docs, skipped |-> skipped, notes |-> notes, left |-> left, partial |-> partial]
        /\ docs = out.docs /\ notes = out.notes /\ partial = out.partial
  BY DEF IsLoadRecord
<1> DEFINE r == Visit(request, out, file)
           s == Source(request, file.source)
           Skip(code, whole) ==
             [out EXCEPT !.skipped = @ \cup {[source |-> s.id, path |-> file.path, code |-> code]},
                         !.notes = @ \cup {Note(code, IF whole THEN "COMPLETE" ELSE "PARTIAL", "", file.path)}, !.partial = @ \cup IF whole THEN {} ELSE {s.id}]
           take == [out EXCEPT !.docs = Append(@, Document(file, s)), !.left = @ - Len(file.text)]
<1>2. r = IF ~PathAdmitted(s, file.path) THEN Skip("EXCLUDED_BY_POLICY", TRUE)
          ELSE IF ~file.regular THEN Skip("FILE_TYPE_EXCLUDED", TRUE)
          ELSE IF ~file.readable THEN Skip("UNREADABLE_SOURCE", FALSE)
          ELSE IF Len(file.text) > request.limits.fileBytes THEN Skip("SOURCE_TOO_LARGE", FALSE)
          ELSE IF Len(file.text) > out.left THEN Skip("BYTE_LIMIT", FALSE)
          ELSE IF file.secret THEN Skip("SECRET_CONTENT_EXCLUDED", TRUE)
          ELSE take
  BY DEF Visit
<1>3. ASSUME NEW code, NEW whole \in BOOLEAN, IsGap(request, file) => ~whole, r = Skip(code, whole)
      PROVE  /\ IsLoadRecord(r)
             /\ Passed(request, out, file, r)
  <2> DEFINE note == Note(code, IF whole THEN "COMPLETE" ELSE "PARTIAL", "", file.path)
             more == IF whole THEN {} ELSE {s.id}
             gone == [source |-> s.id, path |-> file.path, code |-> code]
  <2> HIDE DEF s, note, gone, more, r
  <2>1. r = [docs |-> docs, skipped |-> skipped \cup {gone}, notes |-> notes \cup {note}, left |-> left,
             partial |-> partial \cup more]
    BY <1>1, <1>3 DEF gone, note, more
  <2>2. r.docs = docs /\ r.notes = notes \cup {note} /\ r.partial = partial \cup more
    BY <2>1
  <2>3. IsLoadRecord(r)
    BY <2>1 DEF IsLoadRecord
  <2>4. Passed(request, out, file, r)
    BY <1>1, <1>3, <2>2 DEF Passed, s, more
  <2>. QED BY <2>3, <2>4
<1>4. ASSUME PathAdmitted(s, file.path), file.readable, ~file.secret, r = take
      PROVE  /\ IsLoadRecord(r)
             /\ Taken(request, out, file, r)
  <2> DEFINE d == Document(file, s)
  <2>1. r = [docs |-> Append(docs, d), skipped |-> skipped, notes |-> notes,
             left |-> left - Len(file.text), partial |-> partial]
    BY <1>1, <1>4
  <2> HIDE DEF r, d
  <2>2. r.docs = Append(docs, d) /\ r.notes = notes /\ r.partial = partial
    BY <2>1
  <2>3. IsLoadRecord(r)
    BY <2>1 DEF IsLoadRecord
  <2>. QED BY <1>1, <1>4, <2>2, <2>3 DEF Taken, d
<1> DEFINE Fine == /\ IsLoadRecord(r)
                   /\ Passed(request, out, file, r) \/ Taken(request, out, file, r)
<1>5. CASE ~PathAdmitted(s, file.path) \/ ~file.regular
  <2>1. ~IsGap(request, file)
    BY <1>5 DEF IsGap
  <2>2. \E code : r = Skip(code, TRUE)
    <3> HIDE DEF r, take, Skip
    <3>. QED BY <1>2, <1>5
  <2> HIDE DEF r, Skip
  <2>3. Fine
    BY <1>3, <2>1, <2>2
  <2>. QED BY <2>3 DEF r
<1>6. CASE PathAdmitted(s, file.path) /\ file.regular /\ (~file.readable \/ Len(file.text) > request.limits.fileBytes \/ Len(file.text) > out.left)
  <2>2. \E code : r = Skip(code, FALSE)
    <3> HIDE DEF r, take, Skip
    <3>. QED BY <1>2, <1>6
  <2> HIDE DEF r, Skip
  <2>3. Fine
    BY <1>3, <2>2
  <2>. QED BY <2>3 DEF r
<1>7. CASE PathAdmitted(s, file.path) /\ file.regular /\ file.readable /\ ~(Len(file.text) > request.limits.fileBytes \/ Len(file.text) > out.left)
  <2>1. ~IsGap(request, file)
    BY <1>7 DEF IsGap
  <2>2. r = Skip("SECRET_CONTENT_EXCLUDED", TRUE) \/ (r = take /\ ~file.secret)
    <3> HIDE DEF r, take, Skip
    <3>. QED BY <1>2, <1>7
  <2> HIDE DEF r, Skip, take
  <2>3. Fine
    BY <1>3, <1>4, <1>7, <2>1, <2>2
  <2>. QED BY <2>3 DEF r
<1>. QED BY <1>5, <1>6, <1>7

(* A source is known by its id, and what a load adds is a document of it.  *)
LEMMA VisitKeeps ==
  ASSUME NEW request, NEW scan, IsScan(scan), NEW n \in 1..Len(scan), NEW out, IsLoaded(request, scan, out, n - 1)
  PROVE  IsLoaded(request, scan, Visit(request, out, scan[n]), n)
<1> DEFINE file == scan[n]
           r == Visit(request, out, file)
<1>1. file \in ToSet(scan) /\ IsFile(file) /\ Len(scan) \in Nat /\ \A i \in 1..n : i \in 1..(n - 1) \/ i = n
  BY DEF IsScan, IsList, ToSet
<1>2. /\ IsList(out.docs) /\ \A d \in ToSet(out.docs) : ReadFrom(request, scan, d)
      /\ IsFiniteSet(out.notes) /\ IsLoadRecord(out)
      /\ \A i \in 1..(n - 1) : IsGap(request, scan[i]) => scan[i].source \in out.partial
  BY DEF IsLoaded
<1>3. ASSUME IsLoadRecord(r), r.docs = out.docs, IsFiniteSet(r.notes), out.partial \subseteq r.partial, IsGap(request, file) => file.source \in r.partial
      PROVE  IsLoaded(request, scan, r, n)
  <2> HIDE DEF r
  <2>1. \A i \in 1..n : IsGap(request, scan[i]) => scan[i].source \in r.partial
    BY <1>1, <1>2, <1>3
  <2>. QED BY <1>2, <1>3, <2>1 DEF IsLoaded
<1>4. CASE ~Known(request, file.source)
  <2>1. r = out
    BY <1>4 DEF Visit
  <2>2. ~IsGap(request, file)
    BY <1>4 DEF IsGap
  <2> HIDE DEF r
  <2>3. IsLoaded(request, scan, r, n)
    BY <1>2, <1>3, <2>1, <2>2
  <2>. QED BY <2>3 DEF r
<1>5. CASE Known(request, file.source)
  <2>1. IsLoadRecord(r) /\ (Passed(request, out, file, r) \/ Taken(request, out, file, r))
    BY <1>2, <1>5, VisitIs
  <2>2. Source(request, file.source).id = file.source
    BY <1>5 DEF Known, Source
  <2> HIDE DEF r
  <2>3. ASSUME Passed(request, out, file, r) PROVE IsLoaded(request, scan, r, n)
    <3>1. PICK x : r.docs = out.docs /\ r.notes = out.notes \cup {x}
      BY <2>3 DEF Passed
    <3>2. IsFiniteSet(r.notes)
      BY <1>2, <3>1, FS_AddElement
    <3>. QED BY <1>3, <2>1, <2>2, <2>3, <3>1, <3>2 DEF Passed
  <2>4. ASSUME Taken(request, out, file, r) PROVE IsLoaded(request, scan, r, n)
    <3> DEFINE d == Document(file, Source(request, file.source))
    <3>1. r.docs = Append(out.docs, d)
      BY <2>4 DEF Taken
    <3>2. d.source = file.source /\ d.path = file.path /\ d.text = file.text /\ d.cites = file.cites
      BY <2>2 DEF Document
    <3> HIDE DEF d
    <3>3. ReadFrom(request, scan, d)
      BY <1>1, <1>5, <2>4, <3>2 DEF ReadFrom, Taken
    <3>4. IsList(r.docs) /\ ToSet(r.docs) = ToSet(out.docs) \cup {d}
      BY <1>2, <3>1, AppendIs
    <3>5. \A x \in ToSet(r.docs) : ReadFrom(request, scan, x)
      BY <1>2, <3>3, <3>4
    <3>6. r.notes = out.notes /\ r.partial = out.partial /\ ~IsGap(request, file)
      BY <2>4 DEF Taken, IsGap
    <3>7. \A i \in 1..n : IsGap(request, scan[i]) => scan[i].source \in r.partial
      BY <1>1, <1>2, <3>6
    <3>. QED BY <1>2, <2>1, <3>4, <3>5, <3>6, <3>7 DEF IsLoaded
  <2>. QED BY <2>1, <2>3, <2>4 DEF r
<1>. QED BY <1>4, <1>5

LEMMA LoadIs ==
  ASSUME NEW request, NEW scan, IsScan(scan)
  PROVE  IsLoaded(request, scan, loadFilesystem(request, scan), Len(scan))
<1>1. Len(scan) \in Nat
  BY DEF IsScan, IsList
<1>2. PICK done : IsLoad(done, request, scan) /\ loadFilesystem(request, scan) = done[Len(scan)]
  BY <1>1, LoadWalks
<1> DEFINE S == {n \in Nat : n <= Len(scan) => IsLoaded(request, scan, done[n], n)}
<1>3. 0 \in S
  <2> DEFINE out == Unvisited(request)
  <2>1. done[0] = out
    BY <1>2 DEF IsLoad
  <2>2. out.docs = <<>> /\ out.notes = {} /\ IsLoadRecord(out)
    BY DEF Unvisited, IsLoadRecord
  <2> HIDE DEF out
  <2>3. \A i \in 1..0 : IsGap(request, scan[i]) => scan[i].source \in out.partial
    OBVIOUS
  <2>4. IsLoaded(request, scan, out, 0)
    BY <2>2, <2>3, EmptyList, FS_EmptySet DEF IsLoaded
  <2>. QED BY <2>1, <2>4
<1>4. ASSUME NEW n \in Nat, n \in S PROVE n + 1 \in S
  <2>1. ASSUME n + 1 <= Len(scan) PROVE IsLoaded(request, scan, done[n + 1], n + 1)
    <3>1. n + 1 \in 1..Len(scan) /\ (n + 1) - 1 = n /\ n <= Len(scan)
      BY <1>1, <2>1
    <3>2. done[n + 1] = Visit(request, done[n], scan[n + 1])
      BY <1>2, <3>1 DEF IsLoad
    <3>3. IsLoaded(request, scan, done[n], n)
      BY <1>4, <3>1
    <3>. QED BY <3>1, <3>2, <3>3, VisitKeeps
  <2>. QED BY <2>1
<1>5. Len(scan) \in S
  <2> HIDE DEF S
  <2>. QED BY <1>1, <1>3, <1>4, NumbersFrom
<1>. QED BY <1>1, <1>2, <1>5

(* A unit of evidence, and what a search may find.                         *)
IsUnit(c) ==
  /\ c = [source |-> c.source, path |-> c.path, text |-> c.text, span |-> c.span, content |-> c.content, symbol |-> c.symbol, kind |-> c.kind,
          query |-> c.query, claim |-> c.claim, hash |-> c.hash, facets |-> c.facets, required |-> c.required,
          provenance |-> c.provenance, fresh |-> c.fresh, pins |-> c.pins]
  /\ IsFiniteSet(c.pins)
IsUnits(found) == IsList(found) /\ \A c \in ToSet(found) : IsUnit(c)
Finding(part) == IsUnits(part.found) /\ IsFiniteSet(part.notes)
IsSnapshot(snapshot) == IsList(snapshot.docs) /\ \A d \in ToSet(snapshot.docs) : IsList(d.text) /\ IsFiniteSet(d.cites)

LEMMA FunctionIsList ==
  ASSUME NEW n \in Nat, NEW s, DOMAIN s = 1..n, s = [i \in 1..n |-> s[i]]
  PROVE  IsList(s) /\ Len(s) = n /\ \A x \in ToSet(s) : \E i \in 1..n : x = s[i]
<1>1. s \in [1..n -> ToSet(s)]
  BY DEF ToSet
<1>. QED BY <1>1 DEF IsList, ToSet

LEMMA CandidateIsUnit ==
  ASSUME NEW d, NEW f, NEW kind, NEW provenance, NEW span, NEW pins, IsFiniteSet(pins), NEW fresh
  PROVE  LET c == CandidateFromDocument(d, f, kind, provenance, span)
         IN  IsUnit(c) /\ IsUnit([c EXCEPT !.pins = pins]) /\ IsUnit([c EXCEPT !.pins = pins, !.fresh = fresh])
<1> DEFINE c == CandidateFromDocument(d, f, kind, provenance, span)
<1>1. PICK content, origin, state :
        c = [source |-> d.source, path |-> d.path, text |-> d.text, span |-> span, content |-> content, symbol |-> f.symbol, kind |-> kind,
             query |-> f.query, claim |-> f.claim, hash |-> f.hash, facets |-> {f.id}, required |-> f.required,
             provenance |-> origin, fresh |-> state, pins |-> {}]
  BY DEF CandidateFromDocument
<1> HIDE DEF c
<1>2. IsFiniteSet({})
  BY FS_EmptySet
<1>3. IsUnit(c)
  BY <1>1, <1>2 DEF IsUnit
<1>4. IsUnit([c EXCEPT !.pins = pins])
  BY <1>1 DEF IsUnit
<1>5. IsUnit([c EXCEPT !.pins = pins, !.fresh = fresh])
  <2> DEFINE e == [source |-> d.source, path |-> d.path, text |-> d.text, span |-> span, content |-> content, symbol |-> f.symbol, kind |-> kind,
                   query |-> f.query, claim |-> f.claim, hash |-> f.hash, facets |-> {f.id}, required |-> f.required,
                   provenance |-> origin, fresh |-> fresh, pins |-> pins]
             k == [source |-> d.source, path |-> d.path, text |-> d.text, span |-> span, content |-> content, symbol |-> f.symbol, kind |-> kind,
                   query |-> f.query, claim |-> f.claim, hash |-> f.hash, facets |-> {f.id}, required |-> f.required,
                   provenance |-> origin, fresh |-> state, pins |-> pins]
  <2>1. [c EXCEPT !.pins = pins, !.fresh = fresh] = e
    <3>1. [c EXCEPT !.pins = pins] = k
      BY <1>1
    <3>2. [c EXCEPT !.pins = pins, !.fresh = fresh] = [[c EXCEPT !.pins = pins] EXCEPT !.fresh = fresh]
      OBVIOUS
    <3>3. [k EXCEPT !.fresh = fresh] = e
      OBVIOUS
    <3> HIDE DEF k, e
    <3>. QED BY <3>1, <3>2, <3>3
  <2>2. IsUnit(e)
    BY DEF IsUnit
  <2>. QED BY <2>1, <2>2
<1>. QED BY <1>3, <1>4, <1>5 DEF c

LEMMA SelectedIs ==
  ASSUME NEW snapshot, IsSnapshot(snapshot), NEW f
  PROVE  IsList(Selected(snapshot, f)) /\ ToSet(Selected(snapshot, f)) \subseteq ToSet(snapshot.docs)
<1> DEFINE at == {i \in DOMAIN snapshot.docs : snapshot.docs[i].source = f.source /\ (f.path = "" \/ snapshot.docs[i].path = f.path)}
<1>1. Selected(snapshot, f) = ItemsAt(snapshot.docs, at)
  BY DEF Selected
<1>2. at \in SUBSET DOMAIN snapshot.docs /\ IsList(snapshot.docs)
  BY DEF IsSnapshot
<1> HIDE DEF at
<1>3. IsList(ItemsAt(snapshot.docs, at)) /\ ToSet(ItemsAt(snapshot.docs, at)) = {snapshot.docs[i] : i \in at}
  BY <1>2, ItemsAtAre
<1>. QED BY <1>1, <1>2, <1>3 DEF ToSet

LEMMA CapFinds ==
  ASSUME NEW part, Finding(part), NEW limit \in Nat
  PROVE  Finding(capResult(part, limit))
<1>1. CASE Len(part.found) <= limit
  BY <1>1 DEF capResult
<1>2. CASE ~(Len(part.found) <= limit)
  <2>1. Len(part.found) \in Nat /\ limit <= Len(part.found)
    BY <1>2 DEF Finding, IsUnits, IsList
  <2>2. IsList(SubSeq(part.found, 1, limit)) /\ ToSet(SubSeq(part.found, 1, limit)) \subseteq ToSet(part.found)
    BY <2>1, ListFacts DEF Finding, IsUnits
  <2> DEFINE note == Note("RESULT_LIMIT", "PARTIAL", part.coverage.facet, "")
  <2>3. capResult(part, limit).found = SubSeq(part.found, 1, limit) /\ capResult(part, limit).notes = part.notes \cup {note}
    BY <1>2 DEF capResult
  <2> HIDE DEF note
  <2>4. IsFiniteSet(part.notes \cup {note})
    BY FS_AddElement DEF Finding
  <2>. QED BY <2>2, <2>3, <2>4 DEF Finding, IsUnits
<1>. QED BY <1>1, <1>2

LEMMA WithNotesFinds ==
  ASSUME NEW snapshot, NEW f, NEW found, IsUnits(found), NEW notes, IsFiniteSet(notes)
  PROVE  Finding(WithNotes(snapshot, f, found, notes))
<1>1. WithNotes(snapshot, f, found, notes).found = found /\ WithNotes(snapshot, f, found, notes).notes = notes
  BY DEF WithNotes
<1>. QED BY <1>1 DEF Finding

LEMMA ExactFinds ==
  ASSUME NEW snapshot, IsSnapshot(snapshot), NEW f
  PROVE  Finding(ExactResolve(snapshot, f))
<1> DEFINE docs == Selected(snapshot, f)
           One(d) == CandidateFromDocument(d, f, f.kind, documentProvenance(d), WholeSpan(d))
           found == [i \in DOMAIN docs |-> One(docs[i])]
<1>1. IsList(docs)
  BY SelectedIs
<1> HIDE DEF docs
<1>2. Len(docs) \in Nat /\ DOMAIN docs = 1..Len(docs)
  BY <1>1, ListIs
<1>3. \A d : IsUnit(One(d))
  BY CandidateIsUnit, FS_EmptySet
<1>4. ExactResolve(snapshot, f) = WithNotes(snapshot, f, found, {})
  BY DEF ExactResolve, docs
<1> HIDE DEF One
<1>5. DOMAIN found = 1..Len(docs) /\ found = [i \in 1..Len(docs) |-> found[i]] /\ \A i \in 1..Len(docs) : found[i] = One(docs[i])
  BY <1>2
<1> HIDE DEF found
<1>6. IsUnits(found)
  BY <1>2, <1>3, <1>5, FunctionIsList DEF IsUnits
<1>. QED BY <1>4, <1>6, WithNotesFinds, FS_EmptySet

NotesOn(S, code, status, facet) == {Note(code, status, facet, x.path) : x \in S}

LEMMA NotesOf ==
  ASSUME NEW S, IsFiniteSet(S), NEW code, NEW status, NEW facet
  PROVE  IsFiniteSet(NotesOn(S, code, status, facet))
<1> DEFINE g == [x \in S |-> Note(code, status, facet, x.path)]
<1>1. NotesOn(S, code, status, facet) = {g[x] : x \in DOMAIN g}
  BY DEF NotesOn
<1>. QED BY <1>1, ImageIsFinite, DOMAIN g = S

LEMMA SomeOf ==
  ASSUME NEW S, IsFiniteSet(S), NEW T, T \subseteq S
  PROVE  IsFiniteSet(T)
BY FS_Subset

LEMMA MetadataFinds ==
  ASSUME NEW snapshot, IsSnapshot(snapshot), NEW f
  PROVE  Finding(MetadataResolve(snapshot, f))
<1> DEFINE docs == Selected(snapshot, f)
           Is(d) == f.path # "" \/ d.kind = "manifest"
           at == {i \in DOMAIN docs : Is(docs[i]) /\ docs[i].parses}
           parsed == ItemsAt(docs, at)
           bad == {x \in ToSet(docs) : Is(x) /\ ~x.parses}
           cited == {CitationNotes(snapshot, f, d) : d \in ToSet(parsed)}
           invalid == {Note("ARCHITECTURE_METADATA_INVALID", "INVALID", f.id, d.path) : d \in bad}
           notes == invalid \cup UNION cited
           Origin(d) == IF d.kind = "manifest" THEN "metadata" ELSE documentProvenance(d)
           One(d) == [CandidateFromDocument(d, f, "metadata", Origin(d), WholeSpan(d)) EXCEPT !.pins = d.cites]
           found == [i \in DOMAIN parsed |-> One(parsed[i])]
<1>1. MetadataResolve(snapshot, f) = WithNotes(snapshot, f, found, notes)
  BY DEF MetadataResolve
<1>2. IsList(docs) /\ ToSet(docs) \subseteq ToSet(snapshot.docs)
  BY SelectedIs
<1>3. at \in SUBSET DOMAIN docs
  OBVIOUS
<1> HIDE DEF docs, at, Is, Origin
<1>4. IsList(parsed) /\ ToSet(parsed) = {docs[i] : i \in at}
  BY <1>2, <1>3, ItemsAtAre
<1>5. ToSet(parsed) \subseteq ToSet(snapshot.docs)
  BY <1>2, <1>3, <1>4 DEF ToSet
<1> HIDE DEF parsed
<1>6. \A d \in ToSet(parsed) : IsFiniteSet(d.cites)
  BY <1>5 DEF IsSnapshot
<1>7. Len(parsed) \in Nat /\ DOMAIN parsed = 1..Len(parsed) /\ IsFiniteSet(ToSet(parsed)) /\ IsFiniteSet(ToSet(docs))
  BY <1>2, <1>4, ListIs
<1>8. IsFiniteSet(invalid)
  <2>1. IsFiniteSet(bad)
    BY <1>7, SomeOf
  <2>2. invalid = NotesOn(bad, "ARCHITECTURE_METADATA_INVALID", "INVALID", f.id)
    BY DEF NotesOn
  <2> HIDE DEF bad, invalid
  <2>. QED BY <2>1, <2>2, NotesOf
<1>9. IsFiniteSet(UNION cited)
  <2>1. \A T \in cited : IsFiniteSet(T)
    <3>1. ASSUME NEW d \in ToSet(parsed) PROVE IsFiniteSet(CitationNotes(snapshot, f, d))
      <4> DEFINE S == {x \in d.cites : x.text \notin {e.text : e \in Doc(snapshot, d.source, x.path)}}
      <4>1. IsFiniteSet(S)
        BY <1>6, SomeOf
      <4>2. CitationNotes(snapshot, f, d) = NotesOn(S, "METADATA_CITATION", "PARTIAL", f.id)
        BY DEF CitationNotes, NotesOn
      <4> HIDE DEF S
      <4>. QED BY <4>1, <4>2, NotesOf
    <3>. QED BY <3>1
  <2>2. IsFiniteSet(cited)
    <3> DEFINE g == [d \in ToSet(parsed) |-> CitationNotes(snapshot, f, d)]
    <3>. QED BY <1>7, ImageIsFinite, DOMAIN g = ToSet(parsed), cited = {g[d] : d \in DOMAIN g}
  <2> HIDE DEF cited
  <2>. QED BY <2>1, <2>2, FS_UNION
<1>10. IsFiniteSet(notes)
  <2> HIDE DEF invalid, cited
  <2>. QED BY <1>8, <1>9, FS_Union
<1>11. \A d \in ToSet(parsed) : IsUnit(One(d))
  BY <1>6, CandidateIsUnit
<1> HIDE DEF One
<1>12. DOMAIN found = 1..Len(parsed) /\ found = [i \in 1..Len(parsed) |-> found[i]]
       /\ \A i \in 1..Len(parsed) : found[i] = One(parsed[i]) /\ parsed[i] \in ToSet(parsed)
  BY <1>7 DEF ToSet
<1> HIDE DEF found, notes
<1>13. IsUnits(found)
  BY <1>7, <1>11, <1>12, FunctionIsList DEF IsUnits
<1>. QED BY <1>1, <1>10, <1>13, WithNotesFinds

LEMMA ContractFinds ==
  ASSUME NEW snapshot, IsSnapshot(snapshot), NEW f
  PROVE  Finding(ContractResolve(snapshot, f))
<1> DEFINE docs == Selected(snapshot, f)
           Has(d) == (d.kind = "manifest" => d.parses) /\ (f.symbol = "" \/ f.symbol \in DOMAIN d.symbols)
           at == {i \in DOMAIN docs : Has(docs[i])}
           having == ItemsAt(docs, at)
           bad == {x \in ToSet(docs) : x.kind = "manifest" /\ ~x.parses}
           notes == {Note("ARCHITECTURE_METADATA_INVALID", "INVALID", f.id, d.path) : d \in bad}
           Origin(d) == IF d.kind = "manifest" THEN "metadata" ELSE "source"
           Span(d) == IF f.symbol # "" /\ d.kind = "source" THEN d.symbols[f.symbol] ELSE WholeSpan(d)
           One(d) == CandidateFromDocument(d, f, "contract", Origin(d), Span(d))
           found == [i \in DOMAIN having |-> One(having[i])]
           asked == {Note("CONTRACT_SELECTOR_REQUIRED", "PARTIAL", f.id, "")}
           none == [found |-> <<>>, notes |-> asked, coverage |-> [facet |-> f.id, complete |-> FALSE, state |-> "NOT_VERIFIED"]]
<1>1. ContractResolve(snapshot, f) = IF f.path = "" /\ f.symbol = "" THEN none ELSE WithNotes(snapshot, f, found, notes)
  BY DEF ContractResolve
<1>2. IsList(docs)
  BY SelectedIs
<1>3. at \in SUBSET DOMAIN docs
  OBVIOUS
<1> HIDE DEF docs, at, Has, Origin, Span
<1>4. IsList(having)
  BY <1>2, <1>3, ItemsAtAre
<1> HIDE DEF having
<1>5. Len(having) \in Nat /\ DOMAIN having = 1..Len(having) /\ IsFiniteSet(ToSet(docs))
  BY <1>2, <1>4, ListIs
<1>6. IsFiniteSet(notes)
  <2>1. IsFiniteSet(bad)
    BY <1>5, SomeOf
  <2>2. notes = NotesOn(bad, "ARCHITECTURE_METADATA_INVALID", "INVALID", f.id)
    BY DEF NotesOn
  <2> HIDE DEF bad, notes
  <2>. QED BY <2>1, <2>2, NotesOf
<1>7. \A d : IsUnit(One(d))
  BY CandidateIsUnit, FS_EmptySet
<1> HIDE DEF One
<1>8. DOMAIN found = 1..Len(having) /\ found = [i \in 1..Len(having) |-> found[i]] /\ \A i \in 1..Len(having) : found[i] = One(having[i])
  BY <1>5
<1> HIDE DEF found, notes
<1>9. IsUnits(found)
  BY <1>5, <1>7, <1>8, FunctionIsList DEF IsUnits
<1>10. Finding(none)
  <2>1. IsFiniteSet(asked)
    <3> DEFINE note == Note("CONTRACT_SELECTOR_REQUIRED", "PARTIAL", f.id, "")
    <3> HIDE DEF note
    <3>1. IsFiniteSet({note})
      BY FS_Singleton
    <3>. QED BY <3>1 DEF note
  <2> HIDE DEF asked
  <2>2. none.found = <<>> /\ none.notes = asked
    OBVIOUS
  <2> HIDE DEF none
  <2>. QED BY <2>1, <2>2, EmptyList DEF Finding, IsUnits
<1> HIDE DEF none
<1>. QED BY <1>1, <1>6, <1>9, <1>10, WithNotesFinds

LEMMA GraphFinds ==
  ASSUME NEW snapshot, IsSnapshot(snapshot), NEW f
  PROVE  Finding(GraphResolve(snapshot, f))
<1> DEFINE docs == Selected(snapshot, f)
           d == docs[1]
           Cited(p) == {e.text : e \in Doc(snapshot, f.source, p.path)}
           stale == \E p \in d.cites : Cited(p) # {} /\ p.text \notin Cited(p)
           Code(p) == IF Cited(p) = {} THEN "GRAPH_DECLARATION_NOT_VERIFIED"
                      ELSE IF p.text \notin Cited(p) THEN "GRAPH_DECLARATION_CONTENT_STALE"
                      ELSE "CAPTURED_GIT_REVISION_UNVERIFIED"
           notes == {Note(Code(p), "PARTIAL", f.id, p.path) : p \in d.cites}
           fresh == IF stale THEN "STALE" ELSE IF d.cites = {} \/ \E p \in d.cites : Cited(p) = {} THEN "UNVERIFIED" ELSE IF d.dirty THEN "DIRTY" ELSE "CURRENT"
           unit == [CandidateFromDocument(d, f, "architecture", "generated", WholeSpan(d)) EXCEPT !.pins = d.cites, !.fresh = fresh]
           n1 == Note("ARCHITECTURE_GRAPH_NOT_PROVIDED", "PARTIAL", f.id, "")
           n2 == Note("ARCHITECTURE_GRAPH_INVALID", "INVALID", f.id, f.path)
           n3 == Note("GRAPH_DECLARATIONS_UNAVAILABLE", "PARTIAL", f.id, "")
<1>1. GraphResolve(snapshot, f) =
        IF f.path = "" \/ docs = <<>> THEN WithNotes(snapshot, f, <<>>, IF f.path = "" THEN {n1} ELSE {})
        ELSE IF ~d.parses THEN WithNotes(snapshot, f, <<>>, {n2})
        ELSE WithNotes(snapshot, f, <<unit>>, IF d.cites = {} THEN {n3} ELSE notes)
  BY DEF GraphResolve
<1>2. IsList(docs) /\ ToSet(docs) \subseteq ToSet(snapshot.docs)
  BY SelectedIs
<1> HIDE DEF docs, stale, fresh, Code, Cited
<1>3. IsUnits(<<>>)
  BY EmptyList DEF IsUnits
<1>4. \A x : IsFiniteSet({x})
  BY FS_Singleton
<1>5. IsFiniteSet({})
  BY FS_EmptySet
<1>6. ASSUME docs # <<>> PROVE IsUnits(<<unit>>) /\ IsFiniteSet(notes)
  <2>1. d \in ToSet(docs)
    BY <1>2, <1>6 DEF IsList, ToSet
  <2>2. IsFiniteSet(d.cites)
    BY <1>2, <2>1 DEF IsSnapshot
  <2> HIDE DEF d
  <2>3. IsUnit(unit)
    BY <2>2, CandidateIsUnit
  <2>4. IsFiniteSet(notes)
    <3> DEFINE g == [p \in d.cites |-> Note(Code(p), "PARTIAL", f.id, p.path)]
    <3>1. DOMAIN g = d.cites /\ notes = {g[p] : p \in DOMAIN g}
      OBVIOUS
    <3> HIDE DEF g, notes
    <3>. QED BY <2>2, <3>1, ImageIsFinite
  <2> HIDE DEF unit
  <2>5. IsList(<<unit>>) /\ ToSet(<<unit>>) = {unit}
    BY DEF IsList, ToSet
  <2>. QED BY <2>3, <2>4, <2>5 DEF IsUnits
<1> HIDE DEF d, notes, unit, n1, n2, n3
<1>. QED BY <1>1, <1>3, <1>4, <1>5, <1>6, WithNotesFinds

LEMMA ResolveFinds ==
  ASSUME NEW request, request.limits.results \in Nat, NEW snapshot, IsSnapshot(snapshot), NEW f
  PROVE  Finding(Resolve(request, snapshot, f))
<1> DEFINE note == Note("UNSUPPORTED_QUERY", "UNSUPPORTED", f.id, "")
           none == [found |-> <<>>, notes |-> {note}, coverage |-> [facet |-> f.id, complete |-> FALSE, state |-> "UNSUPPORTED"]]
<1>1. Resolve(request, snapshot, f) \in
        {capResult(ExactResolve(snapshot, f), request.limits.results), capResult(MetadataResolve(snapshot, f), request.limits.results),
         capResult(ContractResolve(snapshot, f), request.limits.results), GraphResolve(snapshot, f), none}
  BY DEF Resolve
<1>2. Finding(none)
  <2> HIDE DEF note
  <2>1. none.found = <<>> /\ none.notes = {note}
    OBVIOUS
  <2> HIDE DEF none
  <2>. QED BY <2>1, EmptyList, FS_Singleton DEF Finding, IsUnits
<1> HIDE DEF none
<1>. QED BY <1>1, <1>2, ExactFinds, MetadataFinds, ContractFinds, GraphFinds, CapFinds

LEMMA RetrieveFinds ==
  ASSUME NEW request, request.limits.results \in Nat, NEW snapshot, IsSnapshot(snapshot), NEW facets, IsList(facets)
  PROVE  Finding(retrieve(request, snapshot, facets))
<1>1. Len(facets) \in Nat
  BY ListIs
<1>2. PICK done : IsSearch(done, request, snapshot, facets) /\ retrieve(request, snapshot, facets) = done[Len(facets)]
  BY <1>1, RetrieveWalks
<1> DEFINE Fine(out) == Finding(out) /\ out = [found |-> out.found, coverage |-> out.coverage, notes |-> out.notes]
           S == {n \in Nat : n <= Len(facets) => Fine(done[n])}
<1>3. 0 \in S
  <2> DEFINE out == NothingFound
  <2>1. out.found = <<>> /\ out.notes = {} /\ out = [found |-> out.found, coverage |-> out.coverage, notes |-> out.notes]
    BY DEF NothingFound
  <2> HIDE DEF out
  <2>2. Fine(out)
    BY <2>1, EmptyList, FS_EmptySet DEF Finding, IsUnits
  <2>. QED BY <1>2, <2>2 DEF IsSearch, out
<1>4. ASSUME NEW out, Fine(out), NEW f PROVE Fine(Retrieved(request, snapshot, out, f))
  <2>1. CASE ~FacetAdmitted(request, f)
    <3>1. PICK found, coverage, notes : out = [found |-> found, coverage |-> coverage, notes |-> notes] /\ found = out.found /\ notes = out.notes
      BY <1>4
    <3> DEFINE r == Retrieved(request, snapshot, out, f)
               more == [facet |-> f.id, complete |-> FALSE, state |-> "EXCLUDED_BY_POLICY"]
    <3>2. r = [out EXCEPT !.coverage = @ \cup {more}]
      BY <2>1 DEF Retrieved
    <3> HIDE DEF r, more
    <3>3. r = [found |-> found, coverage |-> coverage \cup {more}, notes |-> notes]
      BY <3>1, <3>2
    <3>4. r.found = out.found /\ r.notes = out.notes /\ r = [found |-> r.found, coverage |-> r.coverage, notes |-> r.notes]
      BY <3>1, <3>3
    <3>. QED BY <1>4, <3>4 DEF Finding, r
  <2>2. CASE FacetAdmitted(request, f)
    <3> DEFINE part == Resolve(request, snapshot, f)
               room == request.limits.results - Len(out.found)
               cut == Len(part.found) > room
               n == IF cut THEN room ELSE Len(part.found)
               note == Note("RESULT_LIMIT", "PARTIAL", f.id, "")
               r == Retrieved(request, snapshot, out, f)
    <3>1. Finding(part)
      BY ResolveFinds
    <3>2. /\ r.found = out.found \o SubSeq(part.found, 1, n)
          /\ r.notes = (out.notes \cup part.notes) \cup (IF cut THEN {note} ELSE {})
          /\ r = [found |-> r.found, coverage |-> r.coverage, notes |-> r.notes]
      BY <2>2 DEF Retrieved, BoundedResults
    <3> HIDE DEF part, r, note
    <3>3. Len(out.found) \in Nat /\ Len(part.found) \in Nat
      BY <1>4, <3>1, ListIs DEF Finding, IsUnits
    <3>4. IsList(SubSeq(part.found, 1, n)) /\ ToSet(SubSeq(part.found, 1, n)) \subseteq ToSet(part.found)
      <4>1. CASE n \in Nat
        <5>1. n <= Len(part.found)
          BY <3>3
        <5> HIDE DEF n
        <5>. QED BY <3>1, <4>1, <5>1, ListFacts DEF Finding, IsUnits
      <4>2. CASE n \notin Nat
        <5>1. n \in Int /\ n < 1
          BY <3>3, <4>2
        <5> HIDE DEF n
        <5>2. SubSeq(part.found, 1, n) = <<>>
          BY <3>1, <5>1 DEF Finding, IsUnits, IsList
        <5>. QED BY <5>2, EmptyList
      <4>. QED BY <4>1, <4>2
    <3>5. IsUnits(r.found)
      <4> HIDE DEF n
      <4>. QED BY <1>4, <3>1, <3>2, <3>4, ConcatIs DEF Finding, IsUnits
    <3>6. IsFiniteSet(r.notes)
      <4>1. IsFiniteSet(out.notes \cup part.notes)
        BY <1>4, <3>1, FS_Union DEF Finding
      <4>2. IsFiniteSet(IF cut THEN {note} ELSE {})
        BY FS_EmptySet, FS_Singleton
      <4> HIDE DEF cut
      <4>3. IsFiniteSet((out.notes \cup part.notes) \cup (IF cut THEN {note} ELSE {}))
        BY <4>1, <4>2, FS_Union
      <4>4. r.notes = (out.notes \cup part.notes) \cup (IF cut THEN {note} ELSE {})
        BY <3>2, Zenon
      <4>. QED BY <4>3, <4>4, Zenon
    <3>. QED BY <3>2, <3>5, <3>6 DEF Finding, r
  <2>. QED BY <2>1, <2>2
<1> HIDE DEF Fine
<1>5. ASSUME NEW n \in Nat, n \in S PROVE n + 1 \in S
  <2>1. ASSUME n + 1 <= Len(facets) PROVE Fine(done[n + 1])
    <3>1. n + 1 \in 1..Len(facets) /\ (n + 1) - 1 = n /\ n <= Len(facets)
      BY <1>1, <2>1
    <3>2. done[n + 1] = Retrieved(request, snapshot, done[n], facets[n + 1])
      BY <1>2, <3>1 DEF IsSearch
    <3>. QED BY <1>4, <1>5, <3>1, <3>2
  <2>. QED BY <2>1
<1>6. Len(facets) \in S
  <2> HIDE DEF S
  <2>. QED BY <1>1, <1>3, <1>5, NumbersFrom
<1>. QED BY <1>1, <1>2, <1>6 DEF Fine

(* A unit that a snapshot proves, and the same unit under another label.   *)
Proven(snapshot, c) == IsUnit(c) /\ SpanVerified(snapshot, c)
AreProven(snapshot, found) == IsList(found) /\ \A c \in ToSet(found) : Proven(snapshot, c)
Relabeled(c, e) ==
  /\ e.source = c.source /\ e.path = c.path /\ e.text = c.text /\ e.span = c.span /\ e.content = c.content /\ e.claim = c.claim
  /\ e.hash = c.hash /\ e.facets = c.facets /\ e.pins = c.pins /\ (c.required => e.required) /\ e.fresh = c.fresh
  /\ e.provenance \in {c.provenance, "policy", "doc"}

LEMMA CountTo ==
  ASSUME NEW n \in Nat
  PROVE  IsFiniteSet(1..n) /\ Cardinality(1..n) = n
BY FS_Interval

LEMMA LabelKeeps ==
  ASSUME NEW c, IsUnit(c), NEW w, w \in {c.provenance, "policy", "doc"}
  PROVE  IsUnit([c EXCEPT !.provenance = w]) /\ Relabeled(c, [c EXCEPT !.provenance = w])
<1>1. PICK c1, c2, c3, c4, c5, c6, c7, c8, c9, c10, c11, c12, c13, c14, c15 :
        /\ c = [source |-> c1, path |-> c2, text |-> c3, span |-> c4, content |-> c5, symbol |-> c6, kind |-> c7,
                query |-> c8, claim |-> c9, hash |-> c10, facets |-> c11, required |-> c12, provenance |-> c13, fresh |-> c14, pins |-> c15]
        /\ IsFiniteSet(c15) /\ w \in {c13, "policy", "doc"}
  BY DEF IsUnit
<1> DEFINE e == [source |-> c1, path |-> c2, text |-> c3, span |-> c4, content |-> c5, symbol |-> c6, kind |-> c7,
                 query |-> c8, claim |-> c9, hash |-> c10, facets |-> c11, required |-> c12, provenance |-> w, fresh |-> c14, pins |-> c15]
<1>2. [c EXCEPT !.provenance = w] = e
  BY <1>1
<1>3. IsUnit(e)
  BY <1>1 DEF IsUnit
<1>4. Relabeled(c, e)
  BY <1>1 DEF Relabeled
<1>. QED BY <1>2, <1>3, <1>4

LEMMA SameUnit ==
  ASSUME NEW c
  PROVE  Relabeled(c, c)
BY DEF Relabeled

LEMMA VerifyKeeps ==
  ASSUME NEW plan, NEW policies, NEW snapshot, NEW found, IsUnits(found)
  PROVE  LET r == verifyCandidates(plan, policies, snapshot, found)
         IN  /\ AreProven(snapshot, r.found) /\ IsFiniteSet(r.notes)
             /\ Len(r.found) = Len(found) => \A c \in ToSet(found) : \E e \in ToSet(r.found) : Relabeled(c, e)
<1> DEFINE at == {i \in DOMAIN found : SpanVerified(snapshot, found[i])}
           valid == ItemsAt(found, at)
           Cited(c) == {p \in c.pins : p.text \notin {d.text : d \in Doc(snapshot, c.source, p.path)}}
           metadata == {x \in ToSet(valid) : x.kind = "metadata"}
           uncited == {{Note("CITATION_NOT_VERIFIED", "PARTIAL", "", p.path) : p \in Cited(c)} : c \in metadata}
           gone == ToSet(found) \ ToSet(valid)
           lost == {Note("SOURCE_SPAN_UNVERIFIED", "PARTIAL", "", c.path) : c \in gone}
           One(c) == IF Registered(plan, policies, c) THEN [c EXCEPT !.provenance = "policy"] ELSE c
           out == [i \in DOMAIN valid |-> One(valid[i])]
           r == verifyCandidates(plan, policies, snapshot, found)
<1>1. r.found = out /\ r.notes = lost \cup UNION uncited
  BY DEF verifyCandidates
<1>2. IsList(found) /\ at \in SUBSET DOMAIN found
  BY DEF IsUnits
<1>3. \A i \in at : SpanVerified(snapshot, found[i]) /\ found[i] \in ToSet(found)
  BY DEF ToSet
<1> HIDE DEF at
<1>4. IsList(valid) /\ ToSet(valid) = {found[i] : i \in at} /\ Len(valid) = Cardinality(at)
  BY <1>2, ItemsAtAre
<1> HIDE DEF valid
<1>5. \A c \in ToSet(valid) : Proven(snapshot, c)
  BY <1>3, <1>4 DEF Proven, IsUnits
<1>6. Len(valid) \in Nat /\ DOMAIN valid = 1..Len(valid) /\ IsFiniteSet(ToSet(valid)) /\ IsFiniteSet(ToSet(found)) /\ IsFiniteSet(DOMAIN found)
      /\ Len(found) \in Nat /\ DOMAIN found = 1..Len(found)
  BY <1>2, <1>4, ListIs
<1>7. \A c \in ToSet(valid) : Proven(snapshot, One(c)) /\ Relabeled(c, One(c))
  <2>1. ASSUME NEW c \in ToSet(valid) PROVE Proven(snapshot, One(c)) /\ Relabeled(c, One(c))
    <3>1. CASE Registered(plan, policies, c)
      <4> DEFINE e == [c EXCEPT !.provenance = "policy"]
      <4>1. IsUnit(e) /\ Relabeled(c, e) /\ One(c) = e
        BY <1>5, <3>1, LabelKeeps DEF Proven
      <4> HIDE DEF e, One
      <4>2. SpanVerified(snapshot, e)
        <5>1. SpanVerified(snapshot, c) /\ e.source = c.source /\ e.path = c.path /\ e.text = c.text /\ e.span = c.span /\ e.content = c.content
          BY <1>5, <4>1 DEF Proven, Relabeled
        <5>. QED BY <5>1 DEF SpanVerified
      <4>. QED BY <4>1, <4>2 DEF Proven
    <3>2. CASE ~Registered(plan, policies, c)
      BY <1>5, <3>2, SameUnit
    <3>. QED BY <3>1, <3>2
  <2>. QED BY <2>1
<1> HIDE DEF One
<1>8. DOMAIN out = 1..Len(valid) /\ out = [i \in 1..Len(valid) |-> out[i]]
      /\ \A i \in 1..Len(valid) : out[i] = One(valid[i]) /\ valid[i] \in ToSet(valid)
  BY <1>6 DEF ToSet
<1> HIDE DEF out
<1>9. IsList(out) /\ Len(out) = Len(valid) /\ \A x \in ToSet(out) : \E i \in 1..Len(valid) : x = out[i]
  BY <1>6, <1>8, FunctionIsList
<1>10. AreProven(snapshot, out)
  BY <1>7, <1>8, <1>9 DEF AreProven
<1>11. ASSUME Len(out) = Len(found), NEW c \in ToSet(found) PROVE \E e \in ToSet(out) : Relabeled(c, e)
  <2>1. Cardinality(DOMAIN found) = Len(found)
    <3>1. Cardinality(1..Len(found)) = Len(found)
      BY <1>6, CountTo
    <3>. QED BY <1>6, <3>1
  <2>2. at = DOMAIN found
    BY <1>2, <1>4, <1>6, <1>9, <1>11, <2>1, FS_Subset
  <2>3. c \in ToSet(valid)
    BY <1>4, <2>2 DEF ToSet
  <2>4. PICK i \in 1..Len(valid) : c = valid[i]
    BY <1>6, <2>3 DEF ToSet
  <2>5. out[i] \in ToSet(out)
    BY <1>8 DEF ToSet
  <2>. QED BY <1>7, <1>8, <2>3, <2>4, <2>5
<1>12. IsFiniteSet(lost)
  <2>1. IsFiniteSet(gone)
    BY <1>6, SomeOf
  <2>2. lost = NotesOn(gone, "SOURCE_SPAN_UNVERIFIED", "PARTIAL", "")
    BY DEF NotesOn
  <2> HIDE DEF lost, gone
  <2>. QED BY <2>1, <2>2, NotesOf
<1>13. IsFiniteSet(UNION uncited)
  <2>1. IsFiniteSet(metadata) /\ metadata \subseteq ToSet(valid)
    BY <1>6, SomeOf
  <2>2. ASSUME NEW c \in metadata PROVE IsFiniteSet({Note("CITATION_NOT_VERIFIED", "PARTIAL", "", p.path) : p \in Cited(c)})
    <3>1. IsFiniteSet(Cited(c))
      BY <1>5, <2>1, SomeOf DEF Proven, IsUnit
    <3>2. {Note("CITATION_NOT_VERIFIED", "PARTIAL", "", p.path) : p \in Cited(c)} = NotesOn(Cited(c), "CITATION_NOT_VERIFIED", "PARTIAL", "")
      BY DEF NotesOn
    <3> HIDE DEF Cited
    <3>. QED BY <3>1, <3>2, NotesOf
  <2> HIDE DEF metadata, Cited
  <2>3. \A T \in uncited : IsFiniteSet(T)
    BY <2>2
  <2>4. IsFiniteSet(uncited)
    <3> DEFINE g == [c \in metadata |-> {Note("CITATION_NOT_VERIFIED", "PARTIAL", "", p.path) : p \in Cited(c)}]
    <3>1. DOMAIN g = metadata /\ uncited = {g[c] : c \in DOMAIN g}
      OBVIOUS
    <3> HIDE DEF g, uncited
    <3>. QED BY <2>1, <3>1, ImageIsFinite
  <2> HIDE DEF uncited
  <2>. QED BY <2>3, <2>4, FS_UNION
<1>14. IsFiniteSet(lost \cup UNION uncited)
  <2> HIDE DEF lost, uncited
  <2>. QED BY <1>12, <1>13, FS_Union
<1> HIDE DEF r, lost, uncited
<1>15. AreProven(snapshot, r.found) /\ IsFiniteSet(r.notes)
  BY <1>1, <1>10, <1>14
<1>16. Len(r.found) = Len(found) => \A c \in ToSet(found) : \E e \in ToSet(r.found) : Relabeled(c, e)
  BY <1>1, <1>11
<1>. QED BY <1>15, <1>16 DEF r

LEMMA MinMaxOfTwo ==
  ASSUME NEW x \in Int, NEW y \in Int
  PROVE  Min({x, y}) = (IF x <= y THEN x ELSE y) /\ Max({x, y}) = (IF x >= y THEN x ELSE y)
<1>1. Min({x, y}) = (IF x <= y THEN x ELSE y)
  <2> DEFINE m == IF x <= y THEN x ELSE y
  <2>1. \E z \in {x, y} : \A w \in {x, y} : z =< w
    OBVIOUS
  <2>2. Min({x, y}) \in {x, y} /\ \A w \in {x, y} : Min({x, y}) =< w
    BY <2>1 DEF Min
  <2>. QED BY <2>2
<1>2. Max({x, y}) = (IF x >= y THEN x ELSE y)
  <2>1. \E z \in {x, y} : \A w \in {x, y} : z >= w
    OBVIOUS
  <2>2. Max({x, y}) \in {x, y} /\ \A w \in {x, y} : Max({x, y}) >= w
    BY <2>1 DEF Max
  <2>. QED BY <2>2
<1>. QED BY <1>1, <1>2

(* An excerpt of a text.                                                   *)
IsCut(text, span, content) ==
  span \in (1..(Len(text) + 1)) \X (0..Len(text)) /\ span[1] <= span[2] + 1 /\ SubSeq(text, span[1], span[2]) = content

MergesTo(text, a, b, first, last) ==
  /\ first \in 1..(Len(text) + 1) /\ last \in 0..Len(text)
  /\ first <= last + 1 /\ first <= a.span[1] /\ first <= b.span[1] /\ last >= a.span[2] /\ last >= b.span[2]
  /\ qualityMergeSpans(a, b).merged = [a EXCEPT !.span = <<first, last>>, !.content = SubSeq(text, first, last)]
  /\ a.span[1]..a.span[2] \cup b.span[1]..b.span[2] = first..last

LEMMA CutsMerge ==
  ASSUME NEW text, IsList(text), NEW a, IsCut(text, a.span, a.content), NEW b, IsCut(text, b.span, b.content), qualityMergeSpans(a, b).ok
  PROVE  \E first, last : MergesTo(text, a, b, first, last)
<1>1. PICK a1 \in 1..(Len(text) + 1) : a.span[1] = a1
  BY DEF IsCut
<1>2. PICK a2 \in 0..Len(text) : a.span[2] = a2
  BY DEF IsCut
<1>3. PICK b1 \in 1..(Len(text) + 1) : b.span[1] = b1
  BY DEF IsCut
<1>4. PICK b2 \in 0..Len(text) : b.span[2] = b2
  BY DEF IsCut
<1>5. Len(text) \in Nat /\ a1 <= a2 + 1 /\ b1 <= b2 + 1 /\ a1 \in Int /\ a2 \in Int /\ b1 \in Int /\ b2 \in Int
  BY <1>1, <1>2, <1>3, <1>4 DEF IsCut, IsList
<1> DEFINE first == IF a1 <= b1 THEN a1 ELSE b1
           last == IF a2 >= b2 THEN a2 ELSE b2
           InA(line) == line \in a1..a2
           Content == [n \in 1..(last - first + 1) |-> IF InA(first + n - 1) THEN a.content[(first + n - 1) - a1 + 1] ELSE b.content[(first + n - 1) - b1 + 1]]
<1>6. Min({a.span[1], b.span[1]}) = first /\ Max({a.span[2], b.span[2]}) = last
  <2>1. Min({a1, b1}) = first /\ Max({a2, b2}) = last
    BY <1>5, MinMaxOfTwo
  <2>. QED BY <1>1, <1>2, <1>3, <1>4, <2>1
<1>7. ~(a1 > b2) /\ ~(b1 > a2)
  BY <1>1, <1>2, <1>3, <1>4 DEF qualityMergeSpans
<1>8. qualityMergeSpans(a, b).merged = [a EXCEPT !.span = <<first, last>>, !.content = Content]
  <2> HIDE DEF first, last
  <2>. QED BY <1>1, <1>2, <1>3, <1>4, <1>6, <1>7 DEF qualityMergeSpans
<1>9. first \in 1..(Len(text) + 1) /\ last \in 0..Len(text) /\ first <= last + 1
      /\ first <= a1 /\ first <= b1 /\ last >= a2 /\ last >= b2
  BY <1>5
<1>10. a1..a2 \cup b1..b2 = first..last
  BY <1>5, <1>7
<1>11. Content = SubSeq(text, first, last)
  <2>1. text \in Seq(ToSet(text))
    BY DEF IsList
  <2>2. ASSUME NEW s \in 1..(Len(text) + 1), NEW e \in 0..Len(text), s <= e + 1
        PROVE  SubSeq(text, s, e) = [n \in 1..(e - s + 1) |-> text[s + n - 1]]
    <3> DEFINE u == SubSeq(text, s, e)
    <3>1. s \in Int /\ e \in Int /\ e - s + 1 \in Nat
      BY <1>5, <2>2
    <3>2. CASE s <= e
      <4>1. u \in Seq(ToSet(text)) /\ Len(u) = e - s + 1
        BY <1>5, <2>1, <3>1, <3>2
      <4>2. ASSUME NEW n \in 1..(e - s + 1) PROVE u[n] = text[s + n - 1]
        BY <1>5, <2>1, <3>1, <3>2
      <4>3. DOMAIN u = 1..(e - s + 1) /\ u = [n \in 1..(e - s + 1) |-> u[n]]
        <5> HIDE DEF u
        <5>. QED BY <3>1, <4>1
      <4> HIDE DEF u
      <4>4. u = [n \in 1..(e - s + 1) |-> text[s + n - 1]]
        BY <4>2, <4>3
      <4>. QED BY <4>4 DEF u
    <3>3. CASE s > e
      <4>1. u = <<>> /\ e - s + 1 = 0
        BY <1>5, <2>1, <2>2, <3>1, <3>3
      <4>. QED BY <4>1
    <3>4. s <= e \/ s > e
      BY <3>1
    <3>. QED BY <3>2, <3>3, <3>4, Zenon
  <2>3. a.content = [n \in 1..(a2 - a1 + 1) |-> text[a1 + n - 1]]
    BY <1>1, <1>2, <1>5, <2>2 DEF IsCut
  <2>4. b.content = [n \in 1..(b2 - b1 + 1) |-> text[b1 + n - 1]]
    BY <1>3, <1>4, <1>5, <2>2 DEF IsCut
  <2>5. ASSUME NEW n \in 1..(last - first + 1) PROVE Content[n] = text[first + n - 1]
    <3> DEFINE line == first + n - 1
    <3>1. line \in first..last
      <4>1. first \in Int /\ last \in Int
        BY <1>9
      <4> HIDE DEF first, last
      <4>. QED BY <4>1
    <3>2. CASE InA(line)
      <4> DEFINE k == line - a1 + 1
      <4>1. k \in 1..(a2 - a1 + 1) /\ a1 + k - 1 = line
        BY <1>5, <3>2
      <4>2. Content[n] = a.content[k]
        BY <3>2
      <4> HIDE DEF k, Content, line
      <4>3. a.content[k] = text[a1 + k - 1]
        BY <2>3, <4>1
      <4>. QED BY <4>1, <4>2, <4>3 DEF line
    <3>3. CASE ~InA(line)
      <4> DEFINE k == line - b1 + 1
      <4>1. k \in 1..(b2 - b1 + 1) /\ b1 + k - 1 = line
        BY <1>5, <1>7, <3>1, <3>3
      <4>2. Content[n] = b.content[k]
        BY <3>3
      <4> HIDE DEF k, Content, line
      <4>3. b.content[k] = text[b1 + k - 1]
        BY <2>4, <4>1
      <4>. QED BY <4>1, <4>2, <4>3 DEF line
    <3>. QED BY <3>2, <3>3
  <2>6. DOMAIN Content = 1..(last - first + 1) /\ Content = [n \in 1..(last - first + 1) |-> Content[n]]
    OBVIOUS
  <2>7. SubSeq(text, first, last) = [n \in 1..(last - first + 1) |-> text[first + n - 1]]
    <3> HIDE DEF first, last
    <3>. QED BY <1>9, <2>2
  <2> HIDE DEF Content, first, last
  <2>. QED BY <2>5, <2>6, <2>7
<1> HIDE DEF Content, first, last
<1>12. qualityMergeSpans(a, b).merged = [a EXCEPT !.span = <<first, last>>, !.content = SubSeq(text, first, last)]
  BY <1>8, <1>11
<1>13. first <= a.span[1] /\ first <= b.span[1] /\ last >= a.span[2] /\ last >= b.span[2]
       /\ a.span[1]..a.span[2] \cup b.span[1]..b.span[2] = first..last
  BY <1>1, <1>2, <1>3, <1>4, <1>9, <1>10
<1>. QED BY <1>9, <1>12, <1>13 DEF MergesTo

(* Two overlapping excerpts of one text, as expansion and deduplication    *)
(* meet them, merge into the excerpt of their union (qualityMergeSpans).   *)
THEOREM MergesAreExcerpts ==
  ASSUME NEW text, IsList(text), NEW a \in (1..Len(text)) \X (1..Len(text)), NEW b \in (1..Len(text)) \X (1..Len(text)),
         a[1] <= a[2], b[1] <= b[2]
  PROVE  MergeIsExcerpt(text, a, b)
<1> DEFINE Cut(s) == [span |-> s, content |-> SubSeq(text, s[1], s[2])]
           out == qualityMergeSpans(Cut(a), Cut(b))
<1>1. SUFFICES ASSUME out.ok
               PROVE  /\ out.merged.content = SubSeq(text, out.merged.span[1], out.merged.span[2])
                      /\ a[1]..a[2] \cup b[1]..b[2] = out.merged.span[1]..out.merged.span[2]
  BY DEF MergeIsExcerpt
<1>2. Len(text) \in Nat
  BY DEF IsList
<1>3. ASSUME NEW s \in (1..Len(text)) \X (1..Len(text)), s[1] <= s[2] PROVE IsCut(text, Cut(s).span, Cut(s).content)
  <2>1. s[1] \in 1..Len(text) /\ s[2] \in 1..Len(text) /\ s = <<s[1], s[2]>>
    OBVIOUS
  <2>2. s[1] \in 1..(Len(text) + 1) /\ s[2] \in 0..Len(text) /\ s[1] <= s[2] + 1
    BY <1>2, <1>3, <2>1
  <2>3. Cut(s).span = s /\ Cut(s).content = SubSeq(text, s[1], s[2])
    OBVIOUS
  <2> HIDE DEF Cut
  <2>. QED BY <2>1, <2>2, <2>3 DEF IsCut
<1>4. IsCut(text, Cut(a).span, Cut(a).content) /\ IsCut(text, Cut(b).span, Cut(b).content) /\ Cut(a).span = a /\ Cut(b).span = b
  BY <1>3
<1> DEFINE ca == Cut(a)
           cb == Cut(b)
<1> HIDE DEF Cut
<1>5. PICK first, last : MergesTo(text, ca, cb, first, last)
  <2>1. IsCut(text, ca.span, ca.content)
    BY <1>4 DEF ca
  <2>2. IsCut(text, cb.span, cb.content)
    BY <1>4 DEF cb
  <2>3. qualityMergeSpans(ca, cb).ok
    BY <1>1 DEF ca, cb
  <2> HIDE DEF ca, cb
  <2>. QED BY <2>1, <2>2, <2>3, CutsMerge
<1>6. ca = [span |-> a, content |-> SubSeq(text, a[1], a[2])]
  BY DEF Cut
<1>7. out.merged = [span |-> <<first, last>>, content |-> SubSeq(text, first, last)]
  <2> HIDE DEF ca, cb
  <2>1. out.merged = [ca EXCEPT !.span = <<first, last>>, !.content = SubSeq(text, first, last)]
    BY <1>5 DEF ca, cb, MergesTo
  <2> HIDE DEF out
  <2>. QED BY <1>6, <2>1
<1>8. a[1]..a[2] \cup b[1]..b[2] = first..last
  BY <1>4, <1>5 DEF MergesTo
<1> HIDE DEF out
<1>9. out.merged.content = SubSeq(text, first, last) /\ out.merged.span = <<first, last>>
  <2> DEFINE content == SubSeq(text, first, last)
             span == <<first, last>>
             m == out.merged
  <2>1. m = [span |-> span, content |-> content]
    BY <1>7
  <2> HIDE DEF m, span, content
  <2>2. m.content = content /\ m.span = span
    BY <2>1
  <2>. QED BY <2>2 DEF m, span, content
<1>10. out.merged.span[1] = first /\ out.merged.span[2] = last
  BY <1>9
<1>. QED BY <1>8, <1>9, <1>10

LEMMA LeastOfSome ==
  ASSUME NEW S \in SUBSET Nat, S # {}
  PROVE  Min(S) \in S
<1>1. PICK n \in S : \A m \in S : ~ (<<m, n>> \in OpToRel(<, Nat))
  BY WFMin, NatLessThanWellFounded, Zenon
<1>2. \A m \in S : ~ (m < n)
  BY <1>1 DEF OpToRel
<1>3. \A m \in S : n =< m
  BY <1>2
<1>. QED BY <1>3 DEF Min

(* What a snapshot says of a unit, and when it stays current.              *)
PinnedIn(snapshot, source, p) == p.text \in {d.text : d \in Doc(snapshot, source, p.path)}
Lasting(snapshot, c) ==
  /\ c.fresh \in {"CURRENT", "DIRTY"} /\ (c.hash = <<>> \/ c.hash = c.text)
  /\ c.provenance = "generated" => c.pins # {} /\ \A p \in c.pins : PinnedIn(snapshot, c.source, p)

LEMMA VerifiedIs ==
  ASSUME NEW snapshot, IsSnapshot(snapshot), NEW c
  PROVE  SpanVerified(snapshot, c) <=> IsList(c.text) /\ IsCut(c.text, c.span, c.content) /\ \E d \in Doc(snapshot, c.source, c.path) : d.text = c.text
<1>1. \A d \in Doc(snapshot, c.source, c.path) : IsList(d.text)
  BY DEF Doc, IsSnapshot
<1>. QED BY <1>1 DEF SpanVerified, IsCut

LEMMA FreshnessIs ==
  ASSUME NEW plan, NEW snapshot, NEW c
  PROVE  /\ Freshness(plan, snapshot, c) \in {"CURRENT", "DIRTY"} => Freshness(plan, snapshot, c) = c.fresh /\ Lasting(snapshot, c)
         /\ Lasting(snapshot, c) => Freshness(plan, snapshot, c) = c.fresh
BY DEF Freshness, Lasting, PinnedIn

(* A unit as the analysis labels it.                                       *)
JudgedAs(plan, policies, snapshot, c) ==
  [c EXCEPT !.fresh = Freshness(plan, snapshot, c),
            !.required = c.required \/ \E f \in Required(plan) : f.id \in c.facets,
            !.provenance = IF Registered(plan, policies, c) THEN "policy" ELSE IF c.provenance = "policy" THEN "doc" ELSE @]

LEMMA JudgedIs ==
  ASSUME NEW plan, NEW policies, NEW snapshot, NEW c, Proven(snapshot, c)
  PROVE  LET e == JudgedAs(plan, policies, snapshot, c)
         IN  /\ Proven(snapshot, e) /\ e.fresh = Freshness(plan, snapshot, c) /\ (c.required => e.required)
             /\ e.source = c.source /\ e.path = c.path /\ e.text = c.text /\ e.span = c.span /\ e.claim = c.claim
             /\ e.hash = c.hash /\ e.facets = c.facets /\ e.pins = c.pins /\ e.provenance \in {c.provenance, "policy", "doc"}
<1>1. PICK c1, c2, c3, c4, c5, c6, c7, c8, c9, c10, c11, c12, c13, c14, c15 :
        /\ c = [source |-> c1, path |-> c2, text |-> c3, span |-> c4, content |-> c5, symbol |-> c6, kind |-> c7,
                query |-> c8, claim |-> c9, hash |-> c10, facets |-> c11, required |-> c12, provenance |-> c13, fresh |-> c14, pins |-> c15]
        /\ IsFiniteSet(c15)
  BY DEF Proven, IsUnit
<1> DEFINE fresh == Freshness(plan, snapshot, c)
           needed == c.required \/ \E f \in Required(plan) : f.id \in c.facets
           origin == IF Registered(plan, policies, c) THEN "policy" ELSE IF c.provenance = "policy" THEN "doc" ELSE c13
           e == JudgedAs(plan, policies, snapshot, c)
           x1 == [source |-> c1, path |-> c2, text |-> c3, span |-> c4, content |-> c5, symbol |-> c6, kind |-> c7,
                  query |-> c8, claim |-> c9, hash |-> c10, facets |-> c11, required |-> c12, provenance |-> c13, fresh |-> fresh, pins |-> c15]
           x2 == [source |-> c1, path |-> c2, text |-> c3, span |-> c4, content |-> c5, symbol |-> c6, kind |-> c7,
                  query |-> c8, claim |-> c9, hash |-> c10, facets |-> c11, required |-> needed, provenance |-> c13, fresh |-> fresh, pins |-> c15]
           x3 == [source |-> c1, path |-> c2, text |-> c3, span |-> c4, content |-> c5, symbol |-> c6, kind |-> c7,
                  query |-> c8, claim |-> c9, hash |-> c10, facets |-> c11, required |-> needed, provenance |-> origin, fresh |-> fresh, pins |-> c15]
<1>2. c.provenance = c13 /\ origin \in {c13, "policy", "doc"}
  <2>1. c.provenance = c13
    BY <1>1
  <2>. QED BY <2>1
<1>3. e = [[[c EXCEPT !.fresh = fresh] EXCEPT !.required = needed] EXCEPT !.provenance = origin]
  BY <1>2 DEF JudgedAs
<1>4. c.required => needed
  OBVIOUS
<1> HIDE DEF fresh, needed, origin, e
<1>5. [c EXCEPT !.fresh = fresh] = x1
  BY <1>1
<1>6. [x1 EXCEPT !.required = needed] = x2
  OBVIOUS
<1>7. [x2 EXCEPT !.provenance = origin] = x3
  OBVIOUS
<1>8. e = x3
  <2> HIDE DEF x1, x2, x3
  <2>. QED BY <1>3, <1>5, <1>6, <1>7
<1>9. /\ e.source = c.source /\ e.path = c.path /\ e.text = c.text /\ e.span = c.span /\ e.claim = c.claim /\ e.content = c.content
      /\ e.hash = c.hash /\ e.facets = c.facets /\ e.pins = c.pins /\ e.fresh = fresh /\ e.required = needed /\ e.provenance = origin
  BY <1>1, <1>8
<1>10. IsUnit(e)
  BY <1>1, <1>8 DEF IsUnit
<1>11. SpanVerified(snapshot, e)
  BY <1>9 DEF Proven, SpanVerified
<1>. QED BY <1>2, <1>4, <1>9, <1>10, <1>11 DEF Proven, fresh, e

(* What is shown of one unit by another.                                   *)
Covers(c, e) ==
  /\ e.source = c.source /\ e.path = c.path /\ e.span[1] <= c.span[1] /\ e.span[2] >= c.span[2]
  /\ (c.required => e.required) /\ c.facets \subseteq e.facets

LEMMA JoinedUnit ==
  ASSUME NEW snapshot, IsSnapshot(snapshot), NEW a, Proven(snapshot, a), Lasting(snapshot, a), NEW c, Proven(snapshot, c), Lasting(snapshot, c),
         DedupKey(a) = DedupKey(c), qualityMergeSpans(a, c).ok
  PROVE  LET e == Together(a, c)
         IN  Proven(snapshot, e) /\ Lasting(snapshot, e) /\ e.claim = a.claim /\ Covers(a, e) /\ Covers(c, e)
<1>1. PICK a1, a2, a3, a4, a5, a6, a7, a8, a9, a10, a11, a12, a13, a14, a15 :
        /\ a = [source |-> a1, path |-> a2, text |-> a3, span |-> a4, content |-> a5, symbol |-> a6, kind |-> a7,
                query |-> a8, claim |-> a9, hash |-> a10, facets |-> a11, required |-> a12, provenance |-> a13, fresh |-> a14, pins |-> a15]
        /\ IsFiniteSet(a15)
  BY DEF Proven, IsUnit
<1>2. PICK c1, c2, c3, c4, c5, c6, c7, c8, c9, c10, c11, c12, c13, c14, c15 :
        /\ c = [source |-> c1, path |-> c2, text |-> c3, span |-> c4, content |-> c5, symbol |-> c6, kind |-> c7,
                query |-> c8, claim |-> c9, hash |-> c10, facets |-> c11, required |-> c12, provenance |-> c13, fresh |-> c14, pins |-> c15]
        /\ IsFiniteSet(c15)
  BY DEF Proven, IsUnit
<1>3. /\ c.source = c1 /\ c.path = c2 /\ c.text = c3 /\ c.span = c4 /\ c.content = c5 /\ c.hash = c10 /\ c.facets = c11 /\ c.required = c12
      /\ c.provenance = c13 /\ c.fresh = c14 /\ c.pins = c15
  BY <1>2
<1>4. /\ a.source = a1 /\ a.path = a2 /\ a.text = a3 /\ a.span = a4 /\ a.content = a5 /\ a.claim = a9 /\ a.hash = a10 /\ a.facets = a11
      /\ a.required = a12 /\ a.provenance = a13 /\ a.fresh = a14 /\ a.pins = a15
  BY <1>1
<1>5. c1 = a1 /\ c2 = a2 /\ c3 = a3 /\ c13 = a13
  <2>1. DedupKey(a).source = a1 /\ DedupKey(a).path = a2 /\ DedupKey(a).text = a3 /\ DedupKey(a).provenance = a13
    BY <1>1 DEF DedupKey
  <2>2. DedupKey(c).source = c1 /\ DedupKey(c).path = c2 /\ DedupKey(c).text = c3 /\ DedupKey(c).provenance = c13
    BY <1>2 DEF DedupKey
  <2>. QED BY <2>1, <2>2
<1>6. /\ IsList(a3) /\ IsCut(a3, a4, a5) /\ \E d \in Doc(snapshot, a1, a2) : d.text = a3
      /\ IsCut(a3, c4, c5)
  BY <1>3, <1>4, <1>5, VerifiedIs DEF Proven
<1>7. PICK first, last : MergesTo(a3, a, c, first, last)
  BY <1>3, <1>4, <1>6, CutsMerge
<1> DEFINE content == SubSeq(a3, first, last)
           span == <<first, last>>
           facets == a11 \cup c11
           needed == a12 \/ c12
           pins == a15 \cup c15
           m == qualityMergeSpans(a, c).merged
           e == Together(a, c)
           y0 == [source |-> a1, path |-> a2, text |-> a3, span |-> span, content |-> content, symbol |-> a6, kind |-> a7,
                  query |-> a8, claim |-> a9, hash |-> a10, facets |-> a11, required |-> a12, provenance |-> a13, fresh |-> a14, pins |-> a15]
           y1 == [source |-> a1, path |-> a2, text |-> a3, span |-> span, content |-> content, symbol |-> a6, kind |-> a7,
                  query |-> a8, claim |-> a9, hash |-> a10, facets |-> facets, required |-> a12, provenance |-> a13, fresh |-> a14, pins |-> a15]
           y2 == [source |-> a1, path |-> a2, text |-> a3, span |-> span, content |-> content, symbol |-> a6, kind |-> a7,
                  query |-> a8, claim |-> a9, hash |-> a10, facets |-> facets, required |-> needed, provenance |-> a13, fresh |-> a14, pins |-> a15]
           y3 == [source |-> a1, path |-> a2, text |-> a3, span |-> span, content |-> content, symbol |-> a6, kind |-> a7,
                  query |-> a8, claim |-> a9, hash |-> a10, facets |-> facets, required |-> needed, provenance |-> a13, fresh |-> a14, pins |-> pins]
<1>8. m = [[a EXCEPT !.span = span] EXCEPT !.content = content]
  BY <1>7 DEF MergesTo
<1>9. m = y0
  <2> HIDE DEF m, span, content
  <2>. QED BY <1>1, <1>8
<1>10. m.facets = a11 /\ m.required = a12 /\ m.pins = a15
  <2> HIDE DEF m, span, content
  <2>. QED BY <1>9
<1>11. e = [[[m EXCEPT !.facets = facets] EXCEPT !.required = needed] EXCEPT !.pins = pins]
  <2>1. e = [m EXCEPT !.facets = @ \cup c.facets, !.required = @ \/ c.required, !.pins = @ \cup c.pins]
    BY DEF Together
  <2> HIDE DEF m, e
  <2>. QED BY <1>3, <1>10, <2>1
<1> HIDE DEF e, m, content, span, facets, needed, pins
<1>12. [y0 EXCEPT !.facets = facets] = y1
  OBVIOUS
<1>13. [y1 EXCEPT !.required = needed] = y2
  OBVIOUS
<1>14. [y2 EXCEPT !.pins = pins] = y3
  OBVIOUS
<1>15. e = y3
  <2> HIDE DEF y0, y1, y2, y3
  <2>. QED BY <1>9, <1>11, <1>12, <1>13, <1>14
<1>16. /\ e.source = a1 /\ e.path = a2 /\ e.text = a3 /\ e.span = span /\ e.content = content /\ e.claim = a9 /\ e.hash = a10 /\ e.facets = facets
       /\ e.required = needed /\ e.provenance = a13 /\ e.fresh = a14 /\ e.pins = pins
  BY <1>15
<1>17. IsUnit(e)
  <2>1. IsFiniteSet(pins)
    BY <1>1, <1>2, FS_Union DEF pins
  <2>. QED BY <1>15, <2>1 DEF IsUnit
<1>18. span[1] = first /\ span[2] = last
  BY DEF span
<1>19. SpanVerified(snapshot, e)
  <2>1. IsCut(a3, span, content)
    BY <1>7, <1>18 DEF MergesTo, IsCut, content, span
  <2>. QED BY <1>6, <1>16, <2>1, VerifiedIs
<1>20. Lasting(snapshot, e)
  BY <1>3, <1>4, <1>5, <1>16 DEF Lasting, pins
<1>21. Covers(a, e) /\ Covers(c, e)
  <2>1. first <= a.span[1] /\ first <= c.span[1] /\ last >= a.span[2] /\ last >= c.span[2]
    BY <1>7 DEF MergesTo
  <2>. QED BY <1>3, <1>4, <1>5, <1>16, <1>18, <2>1 DEF Covers, facets, needed
<1>. QED BY <1>4, <1>16, <1>17, <1>19, <1>20, <1>21 DEF Proven, e, m

LEMMA CoversOn ==
  ASSUME NEW snapshot, NEW x, Proven(snapshot, x), NEW a, Proven(snapshot, a), NEW e, Proven(snapshot, e), Covers(x, a), Covers(a, e), IsSnapshot(snapshot)
  PROVE  Covers(x, e)
<1>1. \A c : Proven(snapshot, c) => c.span[1] \in Int /\ c.span[2] \in Int
  <2>1. ASSUME NEW c, Proven(snapshot, c) PROVE c.span[1] \in Int /\ c.span[2] \in Int
    <3>1. IsList(c.text) /\ IsCut(c.text, c.span, c.content)
      BY <2>1, VerifiedIs DEF Proven
    <3>2. Len(c.text) \in Nat
      BY <3>1, ListIs
    <3>. QED BY <3>1, <3>2 DEF IsCut
  <2>. QED BY <2>1
<1>. QED BY <1>1 DEF Covers

LEMMA CoversItself ==
  ASSUME NEW snapshot, NEW x, Proven(snapshot, x), IsSnapshot(snapshot)
  PROVE  Covers(x, x)
<1>1. IsList(x.text) /\ IsCut(x.text, x.span, x.content)
  BY VerifiedIs DEF Proven
<1>2. Len(x.text) \in Nat
  BY <1>1, ListIs
<1>. QED BY <1>1, <1>2 DEF IsCut, Covers

(* The first units, one in place of those that say the same.               *)
IsDeduped(snapshot, found, out, n) ==
  /\ IsList(out)
  /\ \A e \in ToSet(out) : Proven(snapshot, e) /\ Lasting(snapshot, e) /\ \E k \in ToSet(found) : k.claim = e.claim
  /\ \A i \in 1..n : \E e \in ToSet(out) : Covers(found[i], e)

LEMMA JoinKeeps ==
  ASSUME NEW snapshot, IsSnapshot(snapshot), NEW found, AreProven(snapshot, found), \A c \in ToSet(found) : Lasting(snapshot, c),
         NEW n \in 1..Len(found), NEW out, IsDeduped(snapshot, found, out, n - 1)
  PROVE  IsDeduped(snapshot, found, Joined(out, found[n]), n)
<1> DEFINE c == found[n]
           hits == {i \in DOMAIN out : DedupKey(out[i]) = DedupKey(c) /\ qualityMergeSpans(out[i], c).ok}
           r == Joined(out, c)
<1>1. c \in ToSet(found) /\ Len(found) \in Nat /\ DOMAIN found = 1..Len(found) /\ \A i \in 1..n : i \in 1..(n - 1) \/ i = n
  BY DEF AreProven, IsList, ToSet
<1>2. \A i \in 1..(n - 1) : found[i] \in ToSet(found)
  BY <1>1 DEF ToSet
<1>3. Proven(snapshot, c) /\ Lasting(snapshot, c)
  BY <1>1 DEF AreProven
<1>4. IsList(out) /\ Len(out) \in Nat /\ DOMAIN out = 1..Len(out)
  BY ListIs DEF IsDeduped
<1>5. \A e \in ToSet(out) : Proven(snapshot, e) /\ Lasting(snapshot, e) /\ \E k \in ToSet(found) : k.claim = e.claim
  BY DEF IsDeduped
<1>6. \A i \in 1..(n - 1) : \E e \in ToSet(out) : Covers(found[i], e)
  BY DEF IsDeduped
<1>7. \A i \in 1..(n - 1) : Proven(snapshot, found[i])
  BY <1>2 DEF AreProven
<1>8. CASE hits = {}
  <2>1. r = Append(out, c)
    BY <1>8 DEF Joined
  <2> HIDE DEF r, c
  <2>2. IsList(r) /\ ToSet(r) = ToSet(out) \cup {c}
    BY <1>4, <2>1, AppendIs
  <2>3. Covers(c, c)
    BY <1>3, CoversItself
  <2>4. \A i \in 1..n : \E e \in ToSet(r) : Covers(found[i], e)
    BY <1>1, <1>6, <2>2, <2>3 DEF c
  <2>5. \A e \in ToSet(r) : Proven(snapshot, e) /\ Lasting(snapshot, e) /\ \E k \in ToSet(found) : k.claim = e.claim
    BY <1>1, <1>3, <1>5, <2>2
  <2>. QED BY <2>2, <2>4, <2>5 DEF IsDeduped, r, c
<1>9. CASE hits # {}
  <2> DEFINE m == Min(hits)
             a == out[m]
             e == Together(a, c)
  <2>1. hits \in SUBSET Nat
    BY <1>4
  <2>2. m \in hits
    <3> HIDE DEF hits
    <3>. QED BY <1>9, <2>1, LeastOfSome
  <2>3. m \in DOMAIN out /\ DedupKey(a) = DedupKey(c) /\ qualityMergeSpans(a, c).ok /\ a \in ToSet(out)
    BY <2>2 DEF ToSet
  <2>4. r = [out EXCEPT ![m] = e]
    BY <1>9 DEF Joined
  <2> HIDE DEF r, c, m, a
  <2>5. Proven(snapshot, e) /\ Lasting(snapshot, e) /\ e.claim = a.claim /\ Covers(a, e) /\ Covers(c, e)
    BY <1>3, <1>5, <2>3, JoinedUnit
  <2> HIDE DEF e, hits
  <2>6. DOMAIN r = 1..Len(out) /\ r = [i \in 1..Len(out) |-> r[i]] /\ r[m] = e /\ \A i \in 1..Len(out) : i # m => r[i] = out[i]
    <3>1. out = [i \in 1..Len(out) |-> out[i]]
      BY <1>4 DEF IsList
    <3>. QED BY <1>4, <2>3, <2>4, <3>1
  <2>7. IsList(r)
    BY <1>4, <2>6, FunctionIsList
  <2>8. ToSet(r) \subseteq ToSet(out) \cup {e} /\ e \in ToSet(r) /\ \A x \in ToSet(out) : x \in ToSet(r) \/ x = a
    <3>1. \A x \in ToSet(r) : \E i \in 1..Len(out) : x = r[i]
      BY <2>6 DEF ToSet
    <3>2. \A i \in 1..Len(out) : out[i] \in ToSet(out) /\ r[i] \in ToSet(r)
      BY <1>4, <2>6 DEF ToSet
    <3>3. \A x \in ToSet(out) : \E i \in 1..Len(out) : x = out[i]
      BY <1>4 DEF ToSet
    <3>4. ASSUME NEW x \in ToSet(out) PROVE x \in ToSet(r) \/ x = a
      <4>1. PICK i \in 1..Len(out) : x = out[i]
        BY <3>3
      <4>2. CASE i = m
        BY <4>1, <4>2 DEF a
      <4>3. CASE i # m
        BY <2>6, <3>2, <4>1, <4>3
      <4>. QED BY <4>2, <4>3
    <3>5. ASSUME NEW x \in ToSet(r) PROVE x \in ToSet(out) \cup {e}
      <4>1. PICK i \in 1..Len(out) : x = r[i]
        BY <3>1
      <4>. QED BY <2>6, <3>2, <4>1
    <3>6. e \in ToSet(r)
      BY <1>4, <2>3, <2>6, <3>2
    <3>. QED BY <3>4, <3>5, <3>6
  <2>9. ASSUME NEW i \in 1..n PROVE \E x \in ToSet(r) : Covers(found[i], x)
    <3>1. CASE i = n
      BY <2>5, <2>8, <3>1 DEF c
    <3>2. CASE i \in 1..(n - 1)
      <4>1. PICK x \in ToSet(out) : Covers(found[i], x)
        BY <1>6, <3>2
      <4>2. CASE x \in ToSet(r)
        BY <4>1, <4>2
      <4>3. CASE x = a
        <5>1. Proven(snapshot, found[i]) /\ Proven(snapshot, a) /\ Covers(found[i], a)
          BY <1>5, <1>7, <2>3, <3>2, <4>1, <4>3
        <5>2. Covers(found[i], e)
          BY <2>5, <5>1, CoversOn
        <5>. QED BY <2>8, <5>2
      <4>. QED BY <2>8, <4>2, <4>3
    <3>. QED BY <1>1, <3>1, <3>2
  <2>10. \A x \in ToSet(r) : Proven(snapshot, x) /\ Lasting(snapshot, x) /\ \E k \in ToSet(found) : k.claim = x.claim
    <3>1. \E k \in ToSet(found) : k.claim = e.claim
      BY <1>5, <2>3, <2>5
    <3>. QED BY <1>5, <2>5, <2>8, <3>1
  <2>. QED BY <2>7, <2>9, <2>10 DEF IsDeduped, r, c
<1>. QED BY <1>8, <1>9

LEMMA DedupedIs ==
  ASSUME NEW snapshot, IsSnapshot(snapshot), NEW found, AreProven(snapshot, found), \A c \in ToSet(found) : Lasting(snapshot, c)
  PROVE  IsDeduped(snapshot, found, qualityDeduplicate(found), Len(found))
<1>1. Len(found) \in Nat
  BY ListIs DEF AreProven
<1>2. PICK done : IsJoin(done, found) /\ qualityDeduplicate(found) = done[Len(found)]
  BY <1>1, JoinWalks
<1> DEFINE S == {n \in Nat : n <= Len(found) => IsDeduped(snapshot, found, done[n], n)}
<1>3. 0 \in S
  <2>1. done[0] = <<>>
    BY <1>2 DEF IsJoin
  <2>2. IsDeduped(snapshot, found, <<>>, 0)
    BY EmptyList DEF IsDeduped
  <2>. QED BY <2>1, <2>2
<1>4. ASSUME NEW n \in Nat, n \in S PROVE n + 1 \in S
  <2>1. ASSUME n + 1 <= Len(found) PROVE IsDeduped(snapshot, found, done[n + 1], n + 1)
    <3>1. n + 1 \in 1..Len(found) /\ (n + 1) - 1 = n /\ n <= Len(found)
      BY <1>1, <2>1
    <3>2. done[n + 1] = Joined(done[n], found[n + 1])
      BY <1>2, <3>1 DEF IsJoin
    <3>3. IsDeduped(snapshot, found, done[n], n)
      BY <1>4, <3>1
    <3>. QED BY <3>1, <3>2, <3>3, JoinKeeps
  <2>. QED BY <2>1
<1>5. Len(found) \in S
  <2> HIDE DEF S
  <2>. QED BY <1>1, <1>3, <1>4, NumbersFrom
<1>. QED BY <1>1, <1>2, <1>5

LEMMA TwoAreMore ==
  ASSUME NEW S, IsFiniteSet(S), NEW v \in S, NEW w \in S, v # w
  PROVE  Cardinality(S) > 1
<1>1. IsFiniteSet({v}) /\ Cardinality({v}) = 1
  BY FS_Singleton
<1>2. Cardinality(S) \in Nat
  BY FS_CardinalityType
<1>3. Cardinality({v}) <= Cardinality(S) /\ (Cardinality(S) = Cardinality({v}) => S = {v})
  <2>1. {v} \in SUBSET S
    OBVIOUS
  <2>. QED BY <2>1, FS_Subset
<1>4. S # {v}
  OBVIOUS
<1>. QED BY <1>1, <1>2, <1>3, <1>4

(* Without a conflict, claims of one group have one value.                 *)
LEMMA ConflictFree ==
  ASSUME NEW claims, IsFiniteSet(claims), qualityConflicts(claims) = {}, NEW c \in claims, NEW d \in claims,
         ClaimGroup(c) = ClaimGroup(d), c.claim.key # "", c.claim.value # "", d.claim.value # ""
  PROVE  c.claim.value = d.claim.value
<1> DEFINE stated == {x \in claims : x.claim.key # "" /\ x.claim.value # ""}
           Group(x) == {y \in stated : ClaimGroup(y) = ClaimGroup(x)}
           values == {y.claim.value : y \in Group(c)}
<1>1. c \in stated /\ c \in Group(c) /\ d \in Group(c)
  BY DEF ClaimGroup
<1>2. ~(Cardinality(values) > 1)
  <2> DEFINE open == {z \in stated : Cardinality({y.claim.value : y \in Group(z)}) > 1}
             ids(x) == [group |-> ClaimGroup(x), ids |-> {EvidenceID(y) : y \in Group(x)}]
  <2>1. qualityConflicts(claims) = {ids(x) : x \in open}
    BY DEF qualityConflicts
  <2>2. c \in open => ids(c) \in qualityConflicts(claims)
    <3> HIDE DEF open, ids
    <3>. QED BY <2>1
  <2>3. c \notin open
    <3> HIDE DEF open, ids
    <3>. QED BY <2>2
  <2>. QED BY <1>1, <2>3
<1>3. IsFiniteSet(values)
  <2> DEFINE G == Group(c)
             g == [y \in G |-> y.claim.value]
  <2>1. IsFiniteSet(G)
    BY SomeOf
  <2>2. values = {y.claim.value : y \in G}
    OBVIOUS
  <2> HIDE DEF G, values
  <2>3. DOMAIN g = G /\ values = {g[y] : y \in DOMAIN g}
    BY <2>2
  <2> HIDE DEF g
  <2>. QED BY <2>1, <2>3, ImageIsFinite
<1> DEFINE v == c.claim.value
           w == d.claim.value
<1>4. v \in values /\ w \in values
  BY <1>1
<1> HIDE DEF values, v, w, Group, stated
<1>5. SUFFICES ASSUME v # w PROVE FALSE
  BY DEF v, w
<1>. QED BY <1>2, <1>3, <1>4, <1>5, TwoAreMore

(* What an analysis leaves: proven and current units, every lasting one    *)
(* shown, and no two values of one claim unless a conflict says so.        *)
SayTheSame(units) ==
  \A c, d \in units : ClaimGroup(c) = ClaimGroup(d) /\ c.claim.key # "" /\ "" \notin {c.claim.value, d.claim.value} => c.claim.value = d.claim.value
IsQuality(snapshot, found, r) ==
  /\ AreProven(snapshot, r.found) /\ \A e \in ToSet(r.found) : Lasting(snapshot, e)
  /\ \A c \in ToSet(found) : Lasting(snapshot, c) => \E e \in ToSet(r.found) : Covers(c, e)
  /\ r.conflicts = {} => SayTheSame(ToSet(r.found))
  /\ IsFiniteSet(r.notes) /\ IsFiniteSet(r.omissions)

LEMMA AnalysisIs ==
  ASSUME NEW plan, NEW policies, NEW snapshot, IsSnapshot(snapshot), NEW found, AreProven(snapshot, found)
  PROVE  IsQuality(snapshot, found, analyzeQuality(plan, policies, snapshot, found))
<1> DEFINE claims == [i \in DOMAIN found |-> JudgedAs(plan, policies, snapshot, found[i])]
           at == {i \in DOMAIN claims : claims[i].fresh \in {"CURRENT", "DIRTY"}}
           current == ItemsAt(claims, at)
           withheld == ToSet(claims) \ ToSet(current)
           notes == {Note("EVIDENCE_FRESHNESS", "PARTIAL", "", c.path) : c \in withheld}
           omissions == {[id |-> EvidenceID(c), reason |-> "FRESHNESS", required |-> c.required] : c \in withheld}
           r == analyzeQuality(plan, policies, snapshot, found)
<1>1. r = [found |-> qualityDeduplicate(current), conflicts |-> qualityConflicts(ToSet(claims)), notes |-> notes, omissions |-> omissions]
  BY DEF analyzeQuality, JudgedAs
<1>2. IsList(found) /\ Len(found) \in Nat /\ DOMAIN found = 1..Len(found) /\ \A i \in 1..Len(found) : found[i] \in ToSet(found)
  <2>1. IsList(found)
    BY DEF AreProven
  <2>. QED BY <2>1, ListIs DEF ToSet
<1>3. /\ DOMAIN claims = 1..Len(found) /\ claims = [i \in 1..Len(found) |-> claims[i]]
      /\ \A i \in 1..Len(found) : claims[i] = JudgedAs(plan, policies, snapshot, found[i])
  BY <1>2
<1> HIDE DEF claims
<1>4. IsList(claims) /\ Len(claims) = Len(found) /\ IsFiniteSet(ToSet(claims))
  BY <1>2, <1>3, FunctionIsList, ListIs
<1>5. at \in SUBSET DOMAIN claims /\ \A i \in at : claims[i].fresh \in {"CURRENT", "DIRTY"}
  OBVIOUS
<1>6. \A i \in DOMAIN claims : claims[i].fresh \in {"CURRENT", "DIRTY"} => i \in at
  OBVIOUS
<1> HIDE DEF at
<1>7. IsList(current) /\ ToSet(current) = {claims[i] : i \in at}
  BY <1>4, <1>5, ItemsAtAre
<1> HIDE DEF current
<1>8. ASSUME NEW i \in 1..Len(found)
      PROVE  /\ Proven(snapshot, claims[i]) /\ (claims[i].fresh \in {"CURRENT", "DIRTY"} => Lasting(snapshot, claims[i]))
             /\ Covers(found[i], claims[i]) /\ (Lasting(snapshot, found[i]) => claims[i].fresh \in {"CURRENT", "DIRTY"})
  <2> DEFINE c == found[i]
             e == claims[i]
  <2>1. Proven(snapshot, c)
    BY <1>2 DEF AreProven
  <2>2. e = JudgedAs(plan, policies, snapshot, c)
    BY <1>3
  <2> HIDE DEF c, e
  <2>3. /\ Proven(snapshot, e) /\ e.fresh = Freshness(plan, snapshot, c) /\ (c.required => e.required)
        /\ e.source = c.source /\ e.path = c.path /\ e.text = c.text /\ e.span = c.span /\ e.claim = c.claim
        /\ e.hash = c.hash /\ e.facets = c.facets /\ e.pins = c.pins /\ e.provenance \in {c.provenance, "policy", "doc"}
    BY <2>1, <2>2, JudgedIs
  <2>4. /\ e.fresh \in {"CURRENT", "DIRTY"} => e.fresh = c.fresh /\ Lasting(snapshot, c)
        /\ Lasting(snapshot, c) => e.fresh = c.fresh
    BY <2>3, FreshnessIs
  <2>5. e.fresh \in {"CURRENT", "DIRTY"} => Lasting(snapshot, e)
    BY <2>3, <2>4 DEF Lasting
  <2>6. Lasting(snapshot, c) => e.fresh \in {"CURRENT", "DIRTY"}
    BY <2>4 DEF Lasting
  <2>7. Covers(c, e)
    <3>1. Covers(c, c)
      BY <2>1, CoversItself
    <3>. QED BY <2>3, <3>1 DEF Covers
  <2>. QED BY <2>3, <2>5, <2>6, <2>7 DEF c, e
<1>9. AreProven(snapshot, current) /\ \A c \in ToSet(current) : Lasting(snapshot, c)
  BY <1>3, <1>5, <1>7, <1>8 DEF AreProven
<1>10. IsDeduped(snapshot, current, qualityDeduplicate(current), Len(current))
  BY <1>9, DedupedIs
<1>11. r.found = qualityDeduplicate(current) /\ r.conflicts = qualityConflicts(ToSet(claims)) /\ r.notes = notes /\ r.omissions = omissions
  <2> HIDE DEF r, notes, omissions
  <2>1. PICK out, differ, told, lost : out = qualityDeduplicate(current) /\ differ = qualityConflicts(ToSet(claims)) /\ told = notes /\ lost = omissions
    OBVIOUS
  <2>2. r = [found |-> out, conflicts |-> differ, notes |-> told, omissions |-> lost]
    BY <1>1, <2>1
  <2>3. r.found = out /\ r.conflicts = differ /\ r.notes = told /\ r.omissions = lost
    BY <2>2
  <2>. QED BY <2>1, <2>3
<1> HIDE DEF r
<1>12. AreProven(snapshot, r.found) /\ \A e \in ToSet(r.found) : Lasting(snapshot, e) /\ \E k \in ToSet(current) : k.claim = e.claim
  BY <1>10, <1>11 DEF IsDeduped, AreProven
<1>13. ASSUME NEW c \in ToSet(found), Lasting(snapshot, c) PROVE \E e \in ToSet(r.found) : Covers(c, e)
  <2>1. PICK i \in 1..Len(found) : c = found[i]
    BY <1>2 DEF ToSet
  <2>2. i \in at
    BY <1>3, <1>6, <1>8, <1>13, <2>1
  <2>3. claims[i] \in ToSet(current)
    BY <1>7, <2>2
  <2>4. PICK k \in 1..Len(current) : current[k] = claims[i]
    <3>1. DOMAIN current = 1..Len(current)
      BY <1>7, ListIs
    <3>. QED BY <2>3, <3>1 DEF ToSet
  <2>5. PICK e \in ToSet(r.found) : Covers(claims[i], e)
    BY <1>10, <1>11, <2>4 DEF IsDeduped
  <2>6. Proven(snapshot, e) /\ Proven(snapshot, claims[i]) /\ Proven(snapshot, c) /\ Covers(c, claims[i])
    BY <1>2, <1>8, <1>12, <2>1 DEF AreProven
  <2>7. Covers(c, e)
    BY <2>5, <2>6, CoversOn
  <2>. QED BY <2>7
<1>14. ASSUME r.conflicts = {} PROVE SayTheSame(ToSet(r.found))
  <2>1. ToSet(current) \subseteq ToSet(claims)
    BY <1>5, <1>7 DEF ToSet
  <2>2. ASSUME NEW c \in ToSet(r.found), NEW d \in ToSet(r.found), ClaimGroup(c) = ClaimGroup(d), c.claim.key # "", c.claim.value # "", d.claim.value # ""
        PROVE  c.claim.value = d.claim.value
    <3>1. PICK x \in ToSet(claims) : x.claim = c.claim
      BY <1>12, <2>1
    <3>2. PICK y \in ToSet(claims) : y.claim = d.claim
      BY <1>12, <2>1
    <3>3. ClaimGroup(x) = ClaimGroup(y)
      BY <2>2, <3>1, <3>2 DEF ClaimGroup
    <3>4. x.claim.value = y.claim.value
      <4>1. IsFiniteSet(ToSet(claims)) /\ qualityConflicts(ToSet(claims)) = {}
        BY <1>4, <1>11, <1>14
      <4>2. x.claim.key # "" /\ x.claim.value # "" /\ y.claim.value # ""
        BY <2>2, <3>1, <3>2
      <4>. QED BY <3>1, <3>2, <3>3, <4>1, <4>2, ConflictFree
    <3>. QED BY <3>1, <3>2, <3>4
  <2>. QED BY <2>2 DEF SayTheSame
<1>15. IsFiniteSet(withheld)
  BY <1>4, SomeOf
<1> HIDE DEF withheld
<1>16. IsFiniteSet(notes)
  <2>1. notes = NotesOn(withheld, "EVIDENCE_FRESHNESS", "PARTIAL", "")
    BY DEF NotesOn
  <2> HIDE DEF notes
  <2>. QED BY <1>15, <2>1, NotesOf
<1>17. IsFiniteSet(omissions)
  <2> DEFINE g == [c \in withheld |-> [id |-> EvidenceID(c), reason |-> "FRESHNESS", required |-> c.required]]
  <2>1. DOMAIN g = withheld /\ omissions = {g[c] : c \in DOMAIN g}
    OBVIOUS
  <2> HIDE DEF g, omissions
  <2>. QED BY <1>15, <2>1, ImageIsFinite
<1> HIDE DEF notes, omissions
<1>. QED BY <1>11, <1>12, <1>13, <1>14, <1>16, <1>17 DEF IsQuality, r

(* Units with a text of some length: what they cost is a number.           *)
AreLines(evidence) == IsList(evidence) /\ \A c \in ToSet(evidence) : IsFiniteSet(DOMAIN c.content)

LEMMA ProvenHasLines ==
  ASSUME NEW snapshot, IsSnapshot(snapshot), NEW c, Proven(snapshot, c)
  PROVE  IsFiniteSet(DOMAIN c.content)
<1>1. IsList(c.text) /\ IsCut(c.text, c.span, c.content)
  BY VerifiedIs DEF Proven
<1>2. PICK first \in 1..(Len(c.text) + 1), last \in 0..Len(c.text) : c.content = SubSeq(c.text, first, last)
  BY <1>1 DEF IsCut
<1>3. Len(c.text) \in Nat /\ c.text \in Seq(ToSet(c.text))
  BY <1>1, ListIs DEF IsList
<1>4. c.content \in Seq(ToSet(c.text))
  <2>1. first \in Int /\ last \in Int
    BY <1>3
  <2>2. CASE first <= last
    <3>1. SubSeq(c.text, first, last) \in Seq(ToSet(c.text))
      BY <1>2, <1>3, <2>1, <2>2
    <3>. QED BY <1>2, <3>1
  <2>3. CASE first > last
    <3>1. SubSeq(c.text, first, last) = <<>>
      BY <1>2, <1>3, <2>1, <2>3
    <3>. QED BY <1>2, <3>1
  <2>. QED BY <2>1, <2>2, <2>3
<1>5. Len(c.content) \in Nat /\ DOMAIN c.content = 1..Len(c.content)
  BY <1>4
<1>. QED BY <1>5, CountTo

LEMMA CostIs ==
  ASSUME NEW evidence, AreLines(evidence), NEW at \in SUBSET DOMAIN evidence
  PROVE  Bytes(evidence, at) \in Nat /\ Tokens(evidence, at) \in Nat
<1> DEFINE Part(i) == {i} \X DOMAIN evidence[i].content
           parts == {Part(i) : i \in at}
           g == [i \in at |-> Part(i)]
<1>1. IsList(evidence) /\ IsFiniteSet(DOMAIN evidence)
  BY ListIs DEF AreLines
<1>2. IsFiniteSet(at)
  BY <1>1, SomeOf
<1>3. IsFiniteSet(parts)
  <2>1. DOMAIN g = at /\ parts = {g[i] : i \in DOMAIN g}
    OBVIOUS
  <2> HIDE DEF g, parts
  <2>. QED BY <1>2, <2>1, ImageIsFinite
<1>4. ASSUME NEW i \in at PROVE IsFiniteSet(Part(i))
  <2>1. evidence[i] \in ToSet(evidence)
    BY <1>1 DEF ToSet
  <2>2. IsFiniteSet(DOMAIN evidence[i].content) /\ IsFiniteSet({i})
    BY <2>1, FS_Singleton DEF AreLines
  <2>. QED BY <2>2, FS_Product
<1>5. \A T \in parts : IsFiniteSet(T)
  BY <1>4
<1> HIDE DEF Part, parts
<1>6. IsFiniteSet(UNION parts)
  BY <1>3, <1>5, FS_UNION
<1>7. Cardinality(UNION parts) \in Nat /\ Cardinality(at) \in Nat
  BY <1>2, <1>6, FS_CardinalityType
<1>8. Bytes(evidence, at) = Cardinality(UNION parts)
  BY DEF Bytes, Part, parts
<1>. QED BY <1>7, <1>8 DEF Tokens

LEMMA NothingCosts == Bytes(<<>>, DOMAIN <<>>) = 0
<1>1. DOMAIN <<>> = {}
  OBVIOUS
<1>2. Bytes(<<>>, {}) = Cardinality({})
  BY DEF Bytes
<1>. QED BY <1>1, <1>2, FS_EmptySet

(* What a further measure adds to the account of a pack.                   *)
IsUsed(used) ==
  /\ used = [bytes |-> used.bytes, tokens |-> used.tokens, count |-> used.count, allBytes |-> used.allBytes, allTokens |-> used.allTokens]
  /\ used.bytes \in Nat /\ used.tokens \in Nat /\ used.count \in Nat /\ used.allBytes \in Nat /\ used.allTokens \in Nat
Accumulated(cumulative, last, now) == (IF cumulative = 0 THEN last ELSE cumulative) + Max({0, now - last})

LEMMA SumIs ==
  ASSUME NEW cumulative \in Nat, NEW last \in Nat, NEW now \in Nat
  PROVE  /\ Accumulated(cumulative, last, now) \in Nat /\ Accumulated(cumulative, last, now) >= cumulative
         /\ (last <= cumulative /\ now = 0 => Accumulated(cumulative, last, now) = cumulative)
<1>1. Max({0, now - last}) = (IF 0 >= now - last THEN 0 ELSE now - last)
  BY MinMaxOfTwo
<1>. QED BY <1>1 DEF Accumulated

AllBytes(previous, evidence) == Accumulated(previous.allBytes, previous.bytes, Bytes(evidence, DOMAIN evidence))
IsPackRecord(p) ==
  p = [plan |-> p.plan, status |-> p.status, evidence |-> p.evidence, sources |-> p.sources, coverage |-> p.coverage,
       questions |-> p.questions, conflicts |-> p.conflicts, omissions |-> p.omissions, used |-> p.used]
SamePack(p, r) ==
  /\ IsPackRecord(r) /\ r.plan = p.plan /\ r.sources = p.sources /\ r.coverage = p.coverage /\ r.conflicts = p.conflicts
IsMeasured(p, r, previous) ==
  /\ SamePack(p, r) /\ r.status = p.status /\ r.evidence = p.evidence /\ r.questions = p.questions /\ r.omissions = p.omissions
  /\ IsUsed(r.used) /\ r.used.count = previous.count /\ r.used.allBytes = AllBytes(previous, p.evidence)
  /\ r.used.allBytes >= previous.allBytes /\ r.used.allTokens >= previous.allTokens

LEMMA MeasuredIs ==
  ASSUME NEW p, IsPackRecord(p), AreLines(p.evidence), IsFiniteSet(p.questions), IsFiniteSet(p.omissions), NEW previous, IsUsed(previous)
  PROVE  IsMeasured(p, measurePack(p, previous), previous)
<1> DEFINE all == DOMAIN p.evidence
           bytes == Bytes(p.evidence, all)
           tokens == Tokens(p.evidence, all) + Cardinality(p.questions) + Cardinality(p.omissions)
           used == [bytes |-> bytes, tokens |-> tokens, count |-> previous.count,
                    allBytes |-> Accumulated(previous.allBytes, previous.bytes, bytes),
                    allTokens |-> Accumulated(previous.allTokens, previous.tokens, tokens)]
           r == measurePack(p, previous)
<1>1. r = [p EXCEPT !.used = used]
  BY DEF measurePack, Accumulated
<1>2. bytes \in Nat /\ tokens \in Nat
  <2>1. Bytes(p.evidence, all) \in Nat /\ Tokens(p.evidence, all) \in Nat
    BY CostIs
  <2>2. Cardinality(p.questions) \in Nat /\ Cardinality(p.omissions) \in Nat
    BY FS_CardinalityType
  <2>. QED BY <2>1, <2>2
<1>3. bytes = Bytes(p.evidence, DOMAIN p.evidence)
  OBVIOUS
<1> HIDE DEF bytes, tokens
<1>4. /\ IsUsed(used) /\ used.count = previous.count /\ used.allBytes = AllBytes(previous, p.evidence)
      /\ used.allBytes >= previous.allBytes /\ used.allTokens >= previous.allTokens
  <2>1. /\ Accumulated(previous.allBytes, previous.bytes, bytes) \in Nat /\ Accumulated(previous.allBytes, previous.bytes, bytes) >= previous.allBytes
        /\ Accumulated(previous.allTokens, previous.tokens, tokens) \in Nat /\ Accumulated(previous.allTokens, previous.tokens, tokens) >= previous.allTokens
    BY <1>2, SumIs DEF IsUsed
  <2>. QED BY <1>2, <1>3, <2>1 DEF IsUsed, AllBytes
<1> HIDE DEF used
<1>5. PICK p1, p2, p3, p4, p5, p6, p7, p8, p9, u :
        /\ p = [plan |-> p1, status |-> p2, evidence |-> p3, sources |-> p4, coverage |-> p5,
                questions |-> p6, conflicts |-> p7, omissions |-> p8, used |-> p9]
        /\ u = used
  BY DEF IsPackRecord
<1>6. r = [plan |-> p1, status |-> p2, evidence |-> p3, sources |-> p4, coverage |-> p5,
           questions |-> p6, conflicts |-> p7, omissions |-> p8, used |-> u]
  BY <1>1, <1>5
<1> HIDE DEF r
<1>7. SamePack(p, r) /\ r.status = p.status /\ r.evidence = p.evidence /\ r.questions = p.questions /\ r.omissions = p.omissions
  BY <1>5, <1>6 DEF SamePack, IsPackRecord
<1>8. r.used = used
  BY <1>5, <1>6
<1>9. IsMeasured(p, r, previous)
  BY <1>4, <1>7, <1>8 DEF IsMeasured
<1>. QED BY <1>9 DEF r

(* The ranks of a list are apart, so ranking leaves out nothing.           *)
LEMMA PlacesApart ==
  ASSUME NEW n \in Nat, NEW p \in Nat, NEW q \in Nat, NEW i \in 1..n, NEW j \in 1..n, p * (n + 1) + i = q * (n + 1) + j
  PROVE  i = j
<1>1. ASSUME NEW a \in Nat, NEW b \in Nat, a < b PROVE b * (n + 1) >= a * (n + 1) + n + 1
  <2>1. PICK d \in Nat : b = a + 1 + d
    <3>1. b - a - 1 \in Nat /\ b = a + 1 + (b - a - 1)
      BY <1>1
    <3>. QED BY <3>1
  <2>2. b * (n + 1) = a * (n + 1) + (n + 1) + d * (n + 1)
    BY <2>1
  <2>3. d * (n + 1) \in Nat /\ a * (n + 1) \in Nat
    OBVIOUS
  <2>. QED BY <2>2, <2>3
<1>2. p * (n + 1) \in Nat /\ q * (n + 1) \in Nat
  OBVIOUS
<1>3. CASE p < q
  <2>1. q * (n + 1) >= p * (n + 1) + n + 1
    BY <1>1, <1>3
  <2>. QED BY <1>2, <2>1
<1>4. CASE q < p
  <2>1. p * (n + 1) >= q * (n + 1) + n + 1
    BY <1>1, <1>4
  <2>. QED BY <1>2, <2>1
<1>5. CASE p = q
  BY <1>2, <1>5
<1>. QED BY <1>3, <1>4, <1>5

LEMMA RankedIs ==
  ASSUME NEW found, IsList(found), NEW mandatory
  PROVE  IsList(Ranked(found, mandatory)) /\ ToSet(Ranked(found, mandatory)) = ToSet(found)
<1> DEFINE r == Ranked(found, mandatory)
           rank == [i \in DOMAIN found |-> Rank(found[i], mandatory) * (Len(found) + 1) + i]
           order == InOrder(DOMAIN found, rank)
           N == Cardinality(DOMAIN found)
<1>1. Len(found) \in Nat /\ DOMAIN found = 1..Len(found) /\ IsFiniteSet(DOMAIN found)
  BY ListIs
<1>2. ASSUME NEW c PROVE Rank(c, mandatory) \in Nat
  <2> DEFINE x == ClaimAuthority(c)
  <2>1. Rank(c, mandatory) = (IF c \in mandatory THEN 0 ELSE 6) + (IF c.required THEN 0 ELSE 3) + (IF x = "PRIMARY" THEN 0 ELSE IF x = "SUPPORTING" THEN 1 ELSE 2)
    BY DEF Rank
  <2> HIDE DEF x
  <2>. QED BY <2>1
<1>3. ASSUME NEW i \in DOMAIN found PROVE rank[i] \in Int /\ rank[i] = Rank(found[i], mandatory) * (Len(found) + 1) + i
  <2>1. Rank(found[i], mandatory) \in Nat /\ i \in Nat
    BY <1>1, <1>2
  <2>. QED BY <1>1, <2>1
<1>4. ASSUME NEW i \in DOMAIN found, NEW j \in DOMAIN found, rank[i] = rank[j] PROVE i = j
  <2>1. Rank(found[i], mandatory) \in Nat /\ Rank(found[j], mandatory) \in Nat
    BY <1>2
  <2>2. Rank(found[i], mandatory) * (Len(found) + 1) + i = Rank(found[j], mandatory) * (Len(found) + 1) + j
    BY <1>3, <1>4
  <2>. QED BY <1>1, <2>1, <2>2, PlacesApart
<1> HIDE DEF rank
<1>5. /\ N \in Nat /\ DOMAIN order = 1..N
      /\ \A k \in 1..N : order[k] \in DOMAIN found
      /\ \A i \in DOMAIN found : \E k \in 1..N : order[k] = i
  BY <1>1, <1>3, <1>4, InOrderListsAll
<1>6. r = [k \in 1..N |-> found[order[k]]]
  <2>1. r = [k \in DOMAIN order |-> found[order[k]]]
    BY DEF Ranked, rank
  <2> HIDE DEF r, order, N
  <2>. QED BY <1>5, <2>1
<1> HIDE DEF r, order, N
<1>7. DOMAIN r = 1..N /\ \A k \in 1..N : r[k] = found[order[k]]
  BY <1>6
<1>8. IsList(r)
  <2>1. r = [k \in 1..N |-> r[k]]
    BY <1>6
  <2>. QED BY <1>5, <1>7, <2>1, FunctionIsList
<1>9. ToSet(r) = ToSet(found)
  BY <1>5, <1>7 DEF ToSet
<1>. QED BY <1>8, <1>9 DEF r

(* What a packing has after some units of a list.                          *)
Told(pack, c) == \E n \in pack.questions : n.code = "BUDGET_UNSATISFIED" /\ n.status = "BLOCKED"
IsPacked(start, list, mandatory, previous, budget, p, n) ==
  /\ SamePack(start, p) /\ start.questions \subseteq p.questions
  /\ AreLines(p.evidence) /\ ToSet(p.evidence) \subseteq ToSet(list)
  /\ IsFiniteSet(p.questions) /\ IsFiniteSet(p.omissions)
  /\ AllBytes(previous, p.evidence) <= budget.bytes
  /\ \A i \in 1..n : list[i] \in mandatory => list[i] \in ToSet(p.evidence) \/ Told(p, list[i])

LEMMA AppendedIs ==
  ASSUME NEW p, IsPackRecord(p), NEW c
  PROVE  LET r == [p EXCEPT !.evidence = Append(@, c)]
         IN  SamePack(p, r) /\ r.status = p.status /\ r.evidence = Append(p.evidence, c) /\ r.questions = p.questions /\ r.omissions = p.omissions
<1> DEFINE r == [p EXCEPT !.evidence = Append(@, c)]
<1>1. PICK p1, p2, p3, p4, p5, p6, p7, p8, p9, u :
        /\ p = [plan |-> p1, status |-> p2, evidence |-> p3, sources |-> p4, coverage |-> p5,
                questions |-> p6, conflicts |-> p7, omissions |-> p8, used |-> p9]
        /\ u = Append(p3, c) /\ p3 = p.evidence
  BY DEF IsPackRecord
<1>4. r = [p EXCEPT !.evidence = u]
  BY <1>1
<1>2. r = [plan |-> p1, status |-> p2, evidence |-> u, sources |-> p4, coverage |-> p5,
           questions |-> p6, conflicts |-> p7, omissions |-> p8, used |-> p9]
  <2> HIDE DEF r
  <2>. QED BY <1>1, <1>4
<1> HIDE DEF r
<1>3. SamePack(p, r) /\ r.status = p.status /\ r.evidence = Append(p.evidence, c) /\ r.questions = p.questions /\ r.omissions = p.omissions
  BY <1>1, <1>2 DEF SamePack, IsPackRecord
<1>. QED BY <1>3 DEF r

IsAsked(p, r, lost, more) ==
  SamePack(p, r) /\ r.status = p.status /\ r.evidence = p.evidence /\ r.questions = p.questions \cup more /\ r.omissions = p.omissions \cup lost

LEMMA AskedIs ==
  ASSUME NEW p, IsPackRecord(p), NEW more, NEW lost
  PROVE  /\ IsAsked(p, [p EXCEPT !.omissions = @ \cup lost, !.questions = @ \cup more], lost, more)
         /\ IsAsked(p, [p EXCEPT !.questions = @ \cup more], {}, more)
<1> DEFINE r == [p EXCEPT !.omissions = @ \cup lost, !.questions = @ \cup more]
           t == [p EXCEPT !.questions = @ \cup more]
<1>1. PICK p1, p2, p3, p4, p5, p6, p7, p8, p9, u, v :
        /\ p = [plan |-> p1, status |-> p2, evidence |-> p3, sources |-> p4, coverage |-> p5,
                questions |-> p6, conflicts |-> p7, omissions |-> p8, used |-> p9]
        /\ u = p8 \cup lost /\ v = p6 \cup more /\ p8 = p.omissions /\ p6 = p.questions
  BY DEF IsPackRecord
<1> DEFINE x == [p EXCEPT !.omissions = u]
<1>6. x = [plan |-> p1, status |-> p2, evidence |-> p3, sources |-> p4, coverage |-> p5,
           questions |-> p6, conflicts |-> p7, omissions |-> u, used |-> p9]
  BY <1>1
<1>7. r = [p EXCEPT !.omissions = u, !.questions = v]
  BY <1>1
<1>8. r = [x EXCEPT !.questions = v]
  <2> HIDE DEF r
  <2>. QED BY <1>7
<1>2. r = [plan |-> p1, status |-> p2, evidence |-> p3, sources |-> p4, coverage |-> p5,
           questions |-> v, conflicts |-> p7, omissions |-> u, used |-> p9]
  <2> HIDE DEF r, x
  <2>. QED BY <1>6, <1>8
<1>3. t = [plan |-> p1, status |-> p2, evidence |-> p3, sources |-> p4, coverage |-> p5,
           questions |-> v, conflicts |-> p7, omissions |-> p8, used |-> p9]
  BY <1>1
<1> HIDE DEF r, t
<1>4. IsAsked(p, r, lost, more)
  BY <1>1, <1>2 DEF IsAsked, SamePack, IsPackRecord
<1>5. IsAsked(p, t, {}, more)
  BY <1>1, <1>3 DEF IsAsked, SamePack, IsPackRecord
<1>. QED BY <1>4, <1>5 DEF r, t

LEMMA FinishedIs ==
  ASSUME NEW request, NEW p, IsPackRecord(p)
  PROVE  LET r == Finished(request, p)
         IN  SamePack(p, r) /\ r.status = StatusOf(request, p) /\ r.evidence = p.evidence /\ r.questions = p.questions /\ r.omissions = p.omissions /\ r.used = p.used
<1> DEFINE r == Finished(request, p)
<1>1. PICK p1, p2, p3, p4, p5, p6, p7, p8, p9, u :
        /\ p = [plan |-> p1, status |-> p2, evidence |-> p3, sources |-> p4, coverage |-> p5,
                questions |-> p6, conflicts |-> p7, omissions |-> p8, used |-> p9]
        /\ u = StatusOf(request, p)
  BY DEF IsPackRecord
<1>2. r = [plan |-> p1, status |-> u, evidence |-> p3, sources |-> p4, coverage |-> p5,
           questions |-> p6, conflicts |-> p7, omissions |-> p8, used |-> p9]
  BY <1>1 DEF Finished
<1> HIDE DEF r
<1>3. SamePack(p, r) /\ r.status = StatusOf(request, p) /\ r.evidence = p.evidence /\ r.questions = p.questions /\ r.omissions = p.omissions /\ r.used = p.used
  BY <1>1, <1>2 DEF SamePack, IsPackRecord
<1>. QED BY <1>3 DEF r

LEMMA PutKeeps ==
  ASSUME NEW request, request.budget.bytes \in Nat, NEW start, NEW list, IsList(list), \A c \in ToSet(list) : IsFiniteSet(DOMAIN c.content),
         NEW mandatory, NEW previous, IsUsed(previous), NEW n \in 1..Len(list), NEW p, IsPacked(start, list, mandatory, previous, request.budget, p, n - 1)
  PROVE  IsPacked(start, list, mandatory, previous, request.budget, Put(request, p, list[n], mandatory, previous), n)
<1> DEFINE r == Put(request, p, list[n], mandatory, previous)
<1>1. PICK c : c = list[n]
  OBVIOUS
<1>2. n \in Nat /\ n - 1 \in Nat /\ c \in ToSet(list) /\ IsFiniteSet(DOMAIN c.content)
  <2>1. Len(list) \in Nat /\ DOMAIN list = 1..Len(list)
    BY ListIs
  <2>. QED BY <1>1, <2>1 DEF ToSet
<1>3. /\ IsPackRecord(p) /\ AreLines(p.evidence) /\ IsFiniteSet(p.questions) /\ IsFiniteSet(p.omissions)
      /\ \A i \in 1..(n - 1) : list[i] \in mandatory => list[i] \in ToSet(p.evidence) \/ Told(p, list[i])
  BY DEF IsPacked, SamePack
<1>4. PICK a : a = [p EXCEPT !.evidence = Append(@, c)]
  OBVIOUS
<1>5. SamePack(p, a) /\ a.status = p.status /\ a.evidence = Append(p.evidence, c) /\ a.questions = p.questions /\ a.omissions = p.omissions
  BY <1>3, <1>4, AppendedIs
<1>6. AreLines(a.evidence) /\ ToSet(a.evidence) = ToSet(p.evidence) \cup {c}
  <2>1. IsList(a.evidence) /\ ToSet(a.evidence) = ToSet(p.evidence) \cup {c}
    BY <1>3, <1>5, AppendIs DEF AreLines
  <2>. QED BY <1>2, <1>3, <2>1 DEF AreLines
<1>7. IsPackRecord(a)
  BY <1>5 DEF SamePack
<1>8. PICK trial : trial = measurePack(a, previous)
  OBVIOUS
<1>9. IsMeasured(a, trial, previous)
  BY <1>3, <1>5, <1>6, <1>7, <1>8, MeasuredIs
<1>10. PICK gone, more :
         /\ gone = {[id |-> EvidenceID(c), reason |-> "BUDGET", required |-> c \in mandatory]}
         /\ more = IF c \in mandatory THEN {Note("BUDGET_UNSATISFIED", "BLOCKED", "", c.path)} ELSE {}
  OBVIOUS
<1>11. r = IF ~packBudgetViolation(trial, request.budget) THEN trial ELSE [p EXCEPT !.omissions = @ \cup gone, !.questions = @ \cup more]
  BY <1>1, <1>4, <1>8, <1>10 DEF Put, PutWhole
<1> HIDE DEF r
<1>12. ASSUME ~packBudgetViolation(trial, request.budget)
       PROVE  IsPacked(start, list, mandatory, previous, request.budget, r, n)
  <2>1. r = trial
    BY <1>11, <1>12
  <2>2. SamePack(start, r) /\ r.evidence = a.evidence /\ r.questions = p.questions /\ r.omissions = p.omissions
    BY <1>5, <1>9, <2>1 DEF IsMeasured, SamePack, IsPacked
  <2>3. AllBytes(previous, r.evidence) <= request.budget.bytes
    <3>1. r.used.allBytes = AllBytes(previous, r.evidence) /\ r.used.allBytes \in Nat
      BY <1>9, <2>1, <2>2 DEF IsMeasured, IsUsed
    <3>2. ~(r.used.allBytes > request.budget.bytes)
      BY <1>12, <2>1 DEF packBudgetViolation
    <3>. QED BY <3>1, <3>2
  <2>4. ASSUME NEW i \in 1..n, list[i] \in mandatory PROVE list[i] \in ToSet(r.evidence) \/ Told(r, list[i])
    <3>1. CASE i = n
      BY <1>1, <1>6, <2>2, <3>1
    <3>2. CASE i # n
      <4>1. i \in 1..(n - 1)
        BY <1>2, <3>2
      <4>. QED BY <1>3, <1>6, <2>2, <2>4, <4>1 DEF Told
    <3>. QED BY <3>1, <3>2
  <2>5. ToSet(r.evidence) \subseteq ToSet(list) /\ start.questions \subseteq r.questions
    BY <1>2, <1>6, <2>2 DEF IsPacked
  <2>. QED BY <1>3, <1>6, <2>2, <2>3, <2>4, <2>5 DEF IsPacked
<1>13. ASSUME packBudgetViolation(trial, request.budget)
       PROVE  IsPacked(start, list, mandatory, previous, request.budget, r, n)
  <2>1. r = [p EXCEPT !.omissions = @ \cup gone, !.questions = @ \cup more]
    BY <1>11, <1>13
  <2>2. SamePack(p, r) /\ r.evidence = p.evidence /\ r.questions = p.questions \cup more /\ r.omissions = p.omissions \cup gone
    <3>1. IsAsked(p, r, gone, more)
      BY <1>3, <2>1, AskedIs
    <3>. QED BY <3>1 DEF IsAsked
  <2>3. IsFiniteSet(r.questions) /\ IsFiniteSet(r.omissions)
    <3>1. IsFiniteSet(gone) /\ IsFiniteSet(more)
      BY <1>10, FS_Singleton, FS_EmptySet
    <3>2. IsFiniteSet(p.questions \cup more)
      BY <1>3, <3>1, FS_Union
    <3>3. IsFiniteSet(p.omissions \cup gone)
      BY <1>3, <3>1, FS_Union
    <3>. QED BY <2>2, <3>2, <3>3
  <2>4. ASSUME NEW i \in 1..n, list[i] \in mandatory PROVE list[i] \in ToSet(r.evidence) \/ Told(r, list[i])
    <3>1. CASE i = n
      <4>1. Note("BUDGET_UNSATISFIED", "BLOCKED", "", c.path) \in r.questions
        BY <1>1, <1>10, <2>2, <2>4, <3>1
      <4>2. Note("BUDGET_UNSATISFIED", "BLOCKED", "", c.path).code = "BUDGET_UNSATISFIED" /\ Note("BUDGET_UNSATISFIED", "BLOCKED", "", c.path).status = "BLOCKED"
        BY DEF Note
      <4>. QED BY <4>1, <4>2 DEF Told
    <3>2. CASE i # n
      <4>1. i \in 1..(n - 1)
        BY <1>2, <3>2
      <4>. QED BY <1>3, <2>2, <2>4, <4>1 DEF Told
    <3>. QED BY <3>1, <3>2
  <2>5. SamePack(start, r)
    BY <2>2 DEF IsPacked, SamePack
  <2>. QED BY <2>2, <2>3, <2>4, <2>5 DEF IsPacked
<1>14. IsPacked(start, list, mandatory, previous, request.budget, r, n)
  BY <1>12, <1>13
<1>. QED BY <1>14 DEF r

LEMMA PackingKeeps ==
  ASSUME NEW request, request.budget.bytes \in Nat, NEW start, NEW list, IsList(list), \A c \in ToSet(list) : IsFiniteSet(DOMAIN c.content),
         NEW mandatory, NEW previous, IsUsed(previous), NEW done, IsPacking(done, request, list, mandatory, start, previous),
         IsPacked(start, list, mandatory, previous, request.budget, start, 0)
  PROVE  IsPacked(start, list, mandatory, previous, request.budget, done[Len(list)], Len(list))
<1> DEFINE Fine(n) == IsPacked(start, list, mandatory, previous, request.budget, done[n], n)
           S == {n \in Nat : n <= Len(list) => Fine(n)}
<1>1. Len(list) \in Nat
  BY ListIs
<1>2. 0 \in S
  BY DEF IsPacking
<1>3. ASSUME NEW n \in Nat, n \in S PROVE n + 1 \in S
  <2>1. CASE n + 1 <= Len(list)
    <3>1. Fine(n) /\ n + 1 \in 1..Len(list) /\ (n + 1) - 1 = n
      BY <1>1, <1>3, <2>1
    <3>2. done[n + 1] = Put(request, done[n], list[n + 1], mandatory, previous)
      BY <3>1 DEF IsPacking
    <3>3. PICK m \in 1..Len(list) : m = n + 1 /\ m - 1 = n
      BY <3>1
    <3>4. IsPacked(start, list, mandatory, previous, request.budget, done[n], m - 1)
      BY <3>1, <3>3
    <3>5. IsPacked(start, list, mandatory, previous, request.budget, Put(request, done[n], list[m], mandatory, previous), m)
      BY <3>4, PutKeeps
    <3>6. Fine(n + 1)
      BY <3>2, <3>3, <3>5
    <3> HIDE DEF Fine
    <3>. QED BY <3>6
  <2>2. CASE ~(n + 1 <= Len(list))
    BY <2>2
  <2>. QED BY <2>1, <2>2
<1>4. Len(list) \in S
  <2> HIDE DEF S
  <2>. QED BY <1>1, <1>2, <1>3, NumbersFrom
<1>. QED BY <1>1, <1>4

(* What a pack is, built of the units of an analysis.                      *)
AllComplete(pack) == \A n \in pack.questions : n.status = "COMPLETE"
IsAccounted(request, previous, used) ==
  /\ IsUsed(used) /\ used.count = previous.count /\ used.allBytes <= request.budget.bytes
  /\ used.allBytes >= previous.allBytes /\ used.allTokens >= previous.allTokens
IsBuilt(request, plan, sources, quality, coverage, previous, r) ==
  /\ r.plan = plan /\ r.sources = sources
  /\ IsList(r.evidence) /\ ToSet(r.evidence) \subseteq ToSet(quality.found)
  /\ \A f \in MissingFacets(plan, r) : \E n \in r.questions : n.facet = f.id /\ n.status = "PARTIAL"
  /\ MissingPolicies(request, plan, r) = {} \/ ~AllComplete(r)
  /\ \A c \in ToSet(quality.found) : c.required => c \in ToSet(r.evidence) \/ Told(r, c)
  /\ IsFiniteSet(r.questions)
  /\ IsAccounted(request, previous, r.used)
  /\ r.status = "COMPLETE" =>
       /\ AllComplete(r) /\ (\A c \in coverage : c.complete) /\ quality.conflicts = {}
       /\ r.used.allTokens + request.budget.reserve <= request.budget.tokens

(* What is asked and paid for at the end.                                  *)
Questions(request, plan, p) ==
  {Note("REQUIRED_EVIDENCE", "PARTIAL", f.id, f.path) : f \in MissingFacets(plan, p)}
    \cup {Note("TRUSTED_POLICY_INVALIDATED", "BLOCKED", "", x.path) : x \in MissingPolicies(request, plan, p)}

LEMMA QuestionsAre ==
  ASSUME NEW request, IsFiniteSet(request.policies), NEW plan, IsList(plan.facets), NEW p, IsPackRecord(p)
  PROVE  IsFiniteSet(Questions(request, plan, p)) /\ IsAsked(p, Questioned(request, plan, p), {}, Questions(request, plan, p))
<1> DEFINE facets == MissingFacets(plan, p)
           policies == MissingPolicies(request, plan, p)
           F == {Note("REQUIRED_EVIDENCE", "PARTIAL", f.id, f.path) : f \in facets}
           P == {Note("TRUSTED_POLICY_INVALIDATED", "BLOCKED", "", x.path) : x \in policies}
           all == Questions(request, plan, p)
<1>1. IsFiniteSet(F)
  <2> DEFINE g == [f \in facets |-> Note("REQUIRED_EVIDENCE", "PARTIAL", f.id, f.path)]
  <2>1. IsFiniteSet(facets)
    <3>1. IsFiniteSet(ToSet(plan.facets))
      BY ListIs
    <3>2. facets \subseteq ToSet(plan.facets)
      BY DEF MissingFacets, Required
    <3>. QED BY <3>1, <3>2, SomeOf
  <2>2. DOMAIN g = facets /\ F = {g[x] : x \in DOMAIN g}
    OBVIOUS
  <2> HIDE DEF g, F, facets
  <2>. QED BY <2>1, <2>2, ImageIsFinite
<1>2. IsFiniteSet(P)
  <2>1. IsFiniteSet(policies)
    <3>1. policies \subseteq request.policies
      BY DEF MissingPolicies
    <3>. QED BY <3>1, SomeOf
  <2>2. P = NotesOn(policies, "TRUSTED_POLICY_INVALIDATED", "BLOCKED", "")
    BY DEF NotesOn
  <2> HIDE DEF P, policies
  <2>. QED BY <2>1, <2>2, NotesOf
<1>3. all = F \cup P
  BY DEF Questions
<1>4. Questioned(request, plan, p) = [p EXCEPT !.questions = @ \cup all]
  <2>1. Questioned(request, plan, p) = [p EXCEPT !.questions = @ \cup F \cup P]
    BY DEF Questioned
  <2>2. (p.questions \cup F) \cup P = p.questions \cup all
    BY <1>3
  <2> HIDE DEF F, P, all
  <2>. QED BY <2>1, <2>2
<1> HIDE DEF F, P, all
<1>5. IsFiniteSet(all)
  BY <1>1, <1>2, <1>3, FS_Union
<1>6. IsAsked(p, Questioned(request, plan, p), {}, all)
  BY <1>4, AskedIs
<1>. QED BY <1>5, <1>6 DEF all

(* The last measure: as accounted, or the pack says it is not.             *)
IsLast(request, previous, p, r) ==
  /\ SamePack(p, r) /\ r.evidence = p.evidence /\ p.questions \subseteq r.questions /\ IsFiniteSet(r.questions)
  /\ IsAccounted(request, previous, r.used)
  /\ r.used.allTokens + request.budget.reserve <= request.budget.tokens \/ ~AllComplete(r)

LEMMA BoundedIs ==
  ASSUME NEW request, request.budget.bytes \in Nat, request.budget.tokens \in Nat, request.budget.reserve \in Nat,
         NEW previous, IsUsed(previous), NEW p, IsPackRecord(p), AreLines(p.evidence), IsFiniteSet(p.questions), IsFiniteSet(p.omissions),
         AllBytes(previous, p.evidence) <= request.budget.bytes
  PROVE  IsPackRecord(Bounded(request, measurePack(p, previous), previous)) /\ IsLast(request, previous, p, Bounded(request, measurePack(p, previous), previous))
<1>1. PICK m : m = measurePack(p, previous)
  OBVIOUS
<1>2. IsMeasured(p, m, previous)
  BY <1>1, MeasuredIs
<1> DEFINE r == Bounded(request, m, previous)
           note == Note("BUDGET_UNSATISFIED", "BLOCKED", "", "")
           t == [m EXCEPT !.questions = @ \cup {note}]
<1>3. r = IF ~packBudgetViolation(m, request.budget) THEN m ELSE measurePack(t, previous)
  BY DEF Bounded
<1> HIDE DEF r
<1>4. ASSUME NEW u, IsMeasured(p, u, previous) \/ u.used.allBytes = AllBytes(previous, p.evidence), IsUsed(u.used), u.used.count = previous.count,
             u.used.allBytes = AllBytes(previous, p.evidence),
             u.used.allBytes >= previous.allBytes, u.used.allTokens >= previous.allTokens
      PROVE  IsAccounted(request, previous, u.used)
  BY <1>4 DEF IsAccounted
<1>5. ASSUME ~packBudgetViolation(m, request.budget)
      PROVE  IsPackRecord(r) /\ IsLast(request, previous, p, r)
  <2>1. r = m
    BY <1>3, <1>5
  <2>2. IsAccounted(request, previous, r.used)
    BY <1>2, <1>4, <2>1 DEF IsMeasured
  <2>3. r.used.allTokens + request.budget.reserve <= request.budget.tokens
    <3>1. ~(Max({r.used.tokens, r.used.allTokens}) + request.budget.reserve > request.budget.tokens)
      BY <1>5, <2>1 DEF packBudgetViolation
    <3>2. r.used.tokens \in Int /\ r.used.allTokens \in Int
      BY <2>2 DEF IsAccounted, IsUsed
    <3>3. Max({r.used.tokens, r.used.allTokens}) = (IF r.used.tokens >= r.used.allTokens THEN r.used.tokens ELSE r.used.allTokens)
      BY <3>2, MinMaxOfTwo
    <3>. QED BY <3>1, <3>2, <3>3
  <2>4. SamePack(p, r) /\ r.evidence = p.evidence /\ r.questions = p.questions
    BY <1>2, <2>1 DEF IsMeasured
  <2>. QED BY <2>2, <2>3, <2>4 DEF IsLast, SamePack
<1>6. ASSUME packBudgetViolation(m, request.budget)
      PROVE  IsPackRecord(r) /\ IsLast(request, previous, p, r)
  <2>1. r = measurePack(t, previous)
    BY <1>3, <1>6
  <2>2. IsAsked(m, t, {}, {note})
    <3>1. IsPackRecord(m)
      BY <1>2 DEF IsMeasured, SamePack
    <3>. QED BY <3>1, AskedIs
  <2> HIDE DEF t
  <2>3. SamePack(p, t) /\ t.evidence = p.evidence /\ t.questions = p.questions \cup {note} /\ t.omissions = p.omissions
    BY <1>2, <2>2 DEF IsAsked, IsMeasured, SamePack
  <2>4. IsFiniteSet(t.questions) /\ IsFiniteSet(t.omissions) /\ IsPackRecord(t) /\ AreLines(t.evidence)
    <3>1. IsFiniteSet(p.questions \cup {note})
      BY FS_AddElement
    <3>. QED BY <2>3, <3>1 DEF SamePack
  <2>5. IsMeasured(t, r, previous)
    BY <2>1, <2>4, MeasuredIs
  <2>6. IsAccounted(request, previous, r.used)
    BY <1>4, <2>3, <2>5 DEF IsMeasured
  <2>7. ~AllComplete(r)
    <3>1. note \in r.questions
      BY <2>3, <2>5 DEF IsMeasured
    <3>2. note.status # "COMPLETE"
      BY DEF Note
    <3>. QED BY <3>1, <3>2 DEF AllComplete
  <2>8. SamePack(p, r) /\ r.evidence = p.evidence /\ r.questions = p.questions \cup {note} /\ IsFiniteSet(r.questions)
    BY <2>3, <2>4, <2>5 DEF IsMeasured, SamePack
  <2>. QED BY <2>6, <2>7, <2>8 DEF IsLast, SamePack
<1>7. IsPackRecord(r) /\ IsLast(request, previous, p, r)
  BY <1>5, <1>6
<1>. QED BY <1>1, <1>7 DEF r

LEMMA CompleteStatusIs ==
  ASSUME NEW request, NEW p, StatusOf(request, p) = "COMPLETE"
  PROVE  AllComplete(p) /\ (\A c \in p.coverage : c.complete) /\ p.conflicts = {}
<1> DEFINE levels == {n.status : n \in p.questions}
<1>1. levels \ {"COMPLETE"} = {} /\ (\A c \in p.coverage : c.complete) /\ p.conflicts = {}
  BY DEF StatusOf
<1>2. \A n \in p.questions : n.status \in levels
  OBVIOUS
<1> HIDE DEF levels
<1>. QED BY <1>1, <1>2 DEF AllComplete

LEMMA BuildIs ==
  ASSUME NEW request, request.budget.bytes \in Nat, request.budget.tokens \in Nat, request.budget.reserve \in Nat, IsFiniteSet(request.policies),
         NEW plan, IsList(plan.facets), IsFiniteSet(plan.unresolved), NEW sources,
         NEW quality, AreLines(quality.found), IsFiniteSet(quality.notes), IsFiniteSet(quality.omissions),
         NEW coverage, NEW notes, IsFiniteSet(notes),
         NEW previous, IsUsed(previous), previous.bytes <= previous.allBytes, previous.allBytes <= request.budget.bytes
  PROVE  IsBuilt(request, plan, sources, quality, coverage, previous, BuildPack(request, plan, sources, quality, coverage, notes, previous))
<1> DEFINE r == BuildPack(request, plan, sources, quality, coverage, notes, previous)
<1>1. PICK list, mandatory, start :
        /\ list = Ranked(quality.found, Mandatory(quality)) /\ mandatory = Mandatory(quality)
        /\ start = PackStart(plan, sources, quality, coverage, notes, previous)
  OBVIOUS
<1>2. IsList(list) /\ ToSet(list) = ToSet(quality.found) /\ Len(list) \in Nat /\ DOMAIN list = 1..Len(list)
  <2>1. IsList(quality.found)
    BY DEF AreLines
  <2>2. IsList(list) /\ ToSet(list) = ToSet(quality.found)
    BY <1>1, <2>1, RankedIs
  <2>. QED BY <2>2, ListIs
<1>3. PICK done : IsPacking(done, request, list, mandatory, start, previous) /\ r = LastOf(request, plan, done[Len(list)], previous)
  BY <1>1, <1>2, PackWalks
<1> HIDE DEF r
<1>4. /\ IsPackRecord(start) /\ start.plan = plan /\ start.sources = sources /\ start.coverage = coverage /\ start.conflicts = quality.conflicts
      /\ start.evidence = <<>> /\ start.questions = plan.unresolved \cup notes \cup quality.notes /\ start.omissions = quality.omissions
  <2>1. PICK q, d, e : q = plan.unresolved \cup notes \cup quality.notes /\ d = quality.conflicts /\ e = quality.omissions
    OBVIOUS
  <2>2. start = [plan |-> plan, status |-> "", evidence |-> <<>>, sources |-> sources, coverage |-> coverage, questions |-> q,
                 conflicts |-> d, omissions |-> e, used |-> previous]
    BY <1>1, <2>1 DEF PackStart
  <2>. QED BY <2>1, <2>2 DEF IsPackRecord
<1>5. IsPacked(start, list, mandatory, previous, request.budget, start, 0)
  <2>1. IsFiniteSet(start.questions) /\ IsFiniteSet(start.omissions)
    <3>1. IsFiniteSet(plan.unresolved \cup notes)
      BY FS_Union
    <3>2. IsFiniteSet((plan.unresolved \cup notes) \cup quality.notes)
      BY <3>1, FS_Union
    <3>. QED BY <1>4, <3>2
  <2>2. AreLines(start.evidence) /\ ToSet(start.evidence) \subseteq ToSet(list)
    BY <1>4, EmptyList DEF AreLines
  <2>3. AllBytes(previous, start.evidence) <= request.budget.bytes
    <3>1. AllBytes(previous, start.evidence) = Accumulated(previous.allBytes, previous.bytes, 0)
      BY <1>4, NothingCosts DEF AllBytes
    <3>2. Accumulated(previous.allBytes, previous.bytes, 0) = previous.allBytes
      BY SumIs DEF IsUsed
    <3>. QED BY <3>1, <3>2
  <2>4. SamePack(start, start)
    BY <1>4 DEF SamePack
  <2>. QED BY <2>1, <2>2, <2>3, <2>4 DEF IsPacked
<1>6. PICK p : p = done[Len(list)]
  OBVIOUS
<1>7. IsPacked(start, list, mandatory, previous, request.budget, p, Len(list))
  <2>1. \A c \in ToSet(list) : IsFiniteSet(DOMAIN c.content)
    BY <1>2 DEF AreLines
  <2>. QED BY <1>2, <1>3, <1>5, <1>6, <2>1, PackingKeeps
<1>8. PICK a : a = Questioned(request, plan, p)
  OBVIOUS
<1>9. /\ SamePack(p, a) /\ a.evidence = p.evidence /\ a.questions = p.questions \cup Questions(request, plan, p) /\ a.omissions = p.omissions
      /\ IsFiniteSet(a.questions)
  <2>1. IsPackRecord(p) /\ IsFiniteSet(p.questions)
    BY <1>7 DEF IsPacked, SamePack
  <2>2. IsFiniteSet(Questions(request, plan, p)) /\ IsAsked(p, a, {}, Questions(request, plan, p))
    BY <1>8, <2>1, QuestionsAre
  <2>3. /\ SamePack(p, a) /\ a.evidence = p.evidence /\ a.omissions = p.omissions
        /\ a.questions = p.questions \cup Questions(request, plan, p)
    BY <2>2 DEF IsAsked
  <2>4. IsFiniteSet(p.questions \cup Questions(request, plan, p))
    BY <2>1, <2>2, FS_Union
  <2>. QED BY <2>3, <2>4
<1>10. PICK b : b = Bounded(request, measurePack(a, previous), previous)
  OBVIOUS
<1>11. IsPackRecord(b) /\ IsLast(request, previous, a, b)
  <2>1. IsPackRecord(a) /\ AreLines(a.evidence) /\ IsFiniteSet(a.omissions) /\ AllBytes(previous, a.evidence) <= request.budget.bytes
    BY <1>7, <1>9 DEF SamePack, IsPacked
  <2>. QED BY <1>9, <1>10, <2>1, BoundedIs
<1>12. r = Finished(request, b)
  BY <1>3, <1>6, <1>8, <1>10 DEF LastOf
<1>13. SamePack(b, r) /\ r.status = StatusOf(request, b) /\ r.evidence = b.evidence /\ r.questions = b.questions /\ r.used = b.used
  BY <1>11, <1>12, FinishedIs
<1>14. /\ r.evidence = p.evidence /\ p.questions \cup Questions(request, plan, p) \subseteq r.questions /\ IsFiniteSet(r.questions)
       /\ r.plan = plan /\ r.sources = sources /\ b.coverage = coverage /\ b.conflicts = quality.conflicts
       /\ IsAccounted(request, previous, r.used)
       /\ r.used.allTokens + request.budget.reserve <= request.budget.tokens \/ ~AllComplete(r)
  <2>1. p.plan = plan /\ p.sources = sources /\ p.coverage = coverage /\ p.conflicts = quality.conflicts
    BY <1>4, <1>7 DEF IsPacked, SamePack
  <2>2. a.plan = plan /\ a.sources = sources /\ a.coverage = coverage /\ a.conflicts = quality.conflicts
    BY <1>9, <2>1 DEF SamePack
  <2>3. b.plan = plan /\ b.sources = sources /\ b.coverage = coverage /\ b.conflicts = quality.conflicts
    BY <1>11, <2>2 DEF IsLast, SamePack
  <2>4. r.plan = plan /\ r.sources = sources
    BY <1>13, <2>3 DEF SamePack
  <2>. QED BY <1>9, <1>11, <1>13, <2>3, <2>4 DEF IsLast, AllComplete
<1>15. ASSUME NEW f \in MissingFacets(plan, r) PROVE \E n \in r.questions : n.facet = f.id /\ n.status = "PARTIAL"
  <2>1. f \in MissingFacets(plan, p)
    BY <1>14 DEF MissingFacets
  <2>2. Note("REQUIRED_EVIDENCE", "PARTIAL", f.id, f.path) \in r.questions
    BY <1>14, <2>1 DEF Questions
  <2>. QED BY <2>2 DEF Note
<1>16. ASSUME NEW x \in MissingPolicies(request, plan, r) PROVE ~AllComplete(r)
  <2>1. x \in MissingPolicies(request, plan, p)
    BY <1>14 DEF MissingPolicies
  <2>2. Note("TRUSTED_POLICY_INVALIDATED", "BLOCKED", "", x.path) \in r.questions
    BY <1>14, <2>1 DEF Questions
  <2>3. Note("TRUSTED_POLICY_INVALIDATED", "BLOCKED", "", x.path).status # "COMPLETE"
    BY DEF Note
  <2>. QED BY <2>2, <2>3 DEF AllComplete
<1>17. ASSUME NEW c \in ToSet(quality.found), c.required PROVE c \in ToSet(r.evidence) \/ Told(r, c)
  <2>1. c \in mandatory
    BY <1>1, <1>17 DEF Mandatory
  <2>2. PICK i \in 1..Len(list) : c = list[i]
    BY <1>2 DEF ToSet
  <2>3. c \in ToSet(p.evidence) \/ Told(p, c)
    BY <1>7, <2>1, <2>2 DEF IsPacked
  <2>. QED BY <1>14, <2>3 DEF Told
<1>18. ASSUME r.status = "COMPLETE"
       PROVE  /\ AllComplete(r) /\ (\A c \in coverage : c.complete) /\ quality.conflicts = {}
              /\ r.used.allTokens + request.budget.reserve <= request.budget.tokens
  <2>1. AllComplete(b) /\ (\A c \in b.coverage : c.complete) /\ b.conflicts = {}
    BY <1>13, <1>18, CompleteStatusIs
  <2>2. AllComplete(r)
    BY <1>13, <2>1 DEF AllComplete
  <2>. QED BY <1>14, <2>1, <2>2
<1>19. ToSet(r.evidence) \subseteq ToSet(quality.found) /\ IsList(r.evidence)
  BY <1>2, <1>7, <1>14 DEF IsPacked, AreLines
<1>20. IsBuilt(request, plan, sources, quality, coverage, previous, r)
  BY <1>14, <1>15, <1>16, <1>17, <1>18, <1>19 DEF IsBuilt
<1>. QED BY <1>20 DEF r

(* A request as a caller states it.                                        *)
IsRequest(request) ==
  /\ IsList(request.sources) /\ IsList(request.facets) /\ IsFiniteSet(request.policies)
  /\ request.budget.bytes \in Nat /\ request.budget.tokens \in Nat /\ request.budget.reserve \in Nat
  /\ request.limits.results \in Nat /\ request.limits.depth \in Nat

LEMMA SourcesAreApart ==
  ASSUME NEW sources, IsList(sources), Cardinality({s.id : s \in ToSet(sources)}) = Len(sources)
  PROVE  \A s, t \in ToSet(sources) : s.id = t.id => s = t
<1> DEFINE ids == {s.id : s \in ToSet(sources)}
           N == Len(sources)
           f == [i \in 1..N |-> sources[i].id]
<1>1. N \in Nat /\ DOMAIN sources = 1..N /\ ToSet(sources) = {sources[i] : i \in 1..N}
  BY ListIs DEF ToSet
<1>2. IsFiniteSet(1..N) /\ Cardinality(1..N) = N
  BY <1>1, CountTo
<1>3. f \in Surjection(1..N, ids)
  BY <1>1 DEF Surjection
<1>4. Cardinality(ids) = N
  OBVIOUS
<1>5. \A i \in 1..N : f[i] = sources[i].id
  OBVIOUS
<1> HIDE DEF f, ids
<1>6. f \in Injection(1..N, ids)
  BY <1>2, <1>3, <1>4, FS_SurjSameCardinalityImpliesInj
<1>7. \A i, j \in 1..N : f[i] = f[j] => i = j
  BY <1>6 DEF Injection, IsInjective
<1>8. ASSUME NEW s \in ToSet(sources), NEW t \in ToSet(sources), s.id = t.id PROVE s = t
  <2>1. PICK i \in 1..N : s = sources[i]
    BY <1>1
  <2>2. PICK j \in 1..N : t = sources[j]
    BY <1>1
  <2>. QED BY <1>5, <1>7, <1>8, <2>1, <2>2
<1>. QED BY <1>8

(* A plan lists what was asked, and its sources are apart.                 *)
IsPlan(request, plan) ==
  /\ plan = [ok |-> plan.ok, facets |-> plan.facets, history |-> plan.history, unresolved |-> plan.unresolved]
  /\ IsList(plan.facets) /\ IsFiniteSet(plan.unresolved) /\ plan.history = <<>>
  /\ ToSet(request.facets) \subseteq ToSet(plan.facets)
  /\ plan.ok => \A s \in ToSet(request.sources) : Known(request, s.id) /\ Source(request, s.id) = s

LEMMA PlanIs ==
  ASSUME NEW request, IsRequest(request)
  PROVE  IsPlan(request, BuildPlan(request))
<1> DEFINE plan == BuildPlan(request)
           facets == SetToSeq(ToSet(request.facets))
           applicable == {p \in request.policies : PolicyApplies(facets, p)}
           ruled == {PolicyFacet(p) : p \in applicable}
           blocked == {g \in ToSet(facets) : ~FacetAdmitted(request, g)}
           told == {Note("NOT_ADMITTED", "BLOCKED", f.id, f.path) : f \in blocked}
           none == IF facets = <<>> THEN {Note("NO_EVIDENCE_REQUIREMENTS", "PARTIAL", "", "")} ELSE {}
<1>1. IsList(facets) /\ ToSet(facets) = ToSet(request.facets) /\ IsFiniteSet(ToSet(facets))
  <2>1. IsFiniteSet(ToSet(request.facets))
    BY ListIs DEF IsRequest
  <2>. QED BY <2>1, SetToSeqListsAll
<1>2. IsFiniteSet(ruled)
  <2> DEFINE g == [p \in applicable |-> PolicyFacet(p)]
  <2>1. IsFiniteSet(applicable)
    BY SomeOf DEF IsRequest
  <2>2. DOMAIN g = applicable /\ ruled = {g[p] : p \in DOMAIN g}
    OBVIOUS
  <2> HIDE DEF g, ruled, applicable
  <2>. QED BY <2>1, <2>2, ImageIsFinite
<1>3. IsList(SetToSeq(ruled))
  BY <1>2, SetToSeqListsAll
<1>4. IsFiniteSet(told)
  <2> DEFINE g == [f \in blocked |-> Note("NOT_ADMITTED", "BLOCKED", f.id, f.path)]
  <2>1. IsFiniteSet(blocked)
    BY <1>1, SomeOf
  <2>2. DOMAIN g = blocked /\ told = {g[p] : p \in DOMAIN g}
    OBVIOUS
  <2> HIDE DEF g, told, blocked
  <2>. QED BY <2>1, <2>2, ImageIsFinite
<1>5. IsFiniteSet(none)
  BY FS_Singleton, FS_EmptySet
<1>6. PICK ok, all, open :
        /\ all = facets \o SetToSeq(ruled) /\ open = told \cup none
        /\ ok => Cardinality({s.id : s \in ToSet(request.sources)}) = Len(request.sources)
        /\ plan = [ok |-> ok, facets |-> all, history |-> <<>>, unresolved |-> open]
  <2>1. PICK ok :
          ok = (/\ request.sources # <<>> /\ Cardinality({s.id : s \in ToSet(request.sources)}) = Len(request.sources)
                /\ Cardinality({f.id : f \in ToSet(request.facets)}) = Len(facets)
                /\ \A p \in request.policies : Known(request, p.source) /\ PathAdmitted(Source(request, p.source), p.path)
                /\ \A p \in applicable : p.id \notin {f.id : f \in ToSet(request.facets)}
                /\ request.budget.reserve < request.budget.tokens)
    OBVIOUS
  <2>2. plan = [ok |-> ok, facets |-> facets \o SetToSeq(ruled), history |-> <<>>, unresolved |-> told \cup none]
    BY <2>1 DEF BuildPlan
  <2> HIDE DEF plan, facets, ruled, told, none
  <2>3. ok => Cardinality({s.id : s \in ToSet(request.sources)}) = Len(request.sources)
    BY <2>1
  <2>. QED BY <2>2, <2>3
<1> HIDE DEF plan, facets, ruled, told, none
<1>7. plan.ok = ok /\ plan.facets = all /\ plan.history = <<>> /\ plan.unresolved = open
  BY <1>6
<1>8. IsList(all) /\ ToSet(request.facets) \subseteq ToSet(all)
  <2>1. IsList(all) /\ ToSet(all) = ToSet(facets) \cup ToSet(SetToSeq(ruled))
    BY <1>1, <1>3, <1>6, ConcatIs
  <2>. QED BY <1>1, <2>1
<1>9. IsFiniteSet(open)
  BY <1>4, <1>5, <1>6, FS_Union
<1>10. ASSUME plan.ok, NEW s \in ToSet(request.sources) PROVE Known(request, s.id) /\ Source(request, s.id) = s
  <2>1. \A x, y \in ToSet(request.sources) : x.id = y.id => x = y
    BY <1>6, <1>7, <1>10, SourcesAreApart DEF IsRequest
  <2>. QED BY <2>1 DEF Known, Source
<1>11. IsPlan(request, plan)
  BY <1>6, <1>7, <1>8, <1>9, <1>10 DEF IsPlan
<1>. QED BY <1>11 DEF plan

(* What a load of a scan gives is a snapshot of it.                        *)
LEMMA SnapshotIs ==
  ASSUME NEW request, NEW scan, IsScan(scan)
  PROVE  IsSnapshot(loadFilesystem(request, scan))
<1> DEFINE s == loadFilesystem(request, scan)
<1>1. IsLoaded(request, scan, s, Len(scan))
  BY LoadIs
<1> HIDE DEF s
<1>2. ASSUME NEW d \in ToSet(s.docs) PROVE IsList(d.text) /\ IsFiniteSet(d.cites)
  BY <1>1 DEF IsLoaded, ReadFrom, IsScan, IsFile
<1>3. IsSnapshot(s)
  BY <1>1, <1>2 DEF IsSnapshot, IsLoaded
<1>. QED BY <1>3 DEF s

(* Proven evidence is an excerpt of what was read.                         *)
LEMMA EvidenceIs ==
  ASSUME NEW request, NEW scan, IsScan(scan), NEW pack, \A c \in ToSet(pack.evidence) : Proven(loadFilesystem(request, scan), c)
  PROVE  EvidenceIsCurrent(request, pack, scan)
<1> DEFINE s == loadFilesystem(request, scan)
<1>1. IsLoaded(request, scan, s, Len(scan)) /\ IsSnapshot(s)
  BY LoadIs, SnapshotIs
<1> HIDE DEF s
<1>2. ASSUME NEW c \in ToSet(pack.evidence)
      PROVE  Excerpt(scan, c) /\ Known(request, c.source) /\ PathAdmitted(Source(request, c.source), c.path)
  <2>1. Proven(s, c)
    BY DEF s
  <2>2. IsCut(c.text, c.span, c.content) /\ \E d \in Doc(s, c.source, c.path) : d.text = c.text
    BY <1>1, <2>1, VerifiedIs DEF Proven
  <2>3. PICK d \in ToSet(s.docs) : d.source = c.source /\ d.path = c.path /\ d.text = c.text
    BY <2>2 DEF Doc
  <2>4. PICK file \in ToSet(scan) : /\ d.source = file.source /\ d.path = file.path /\ d.text = file.text /\ ~file.secret
                                    /\ Known(request, file.source) /\ PathAdmitted(Source(request, file.source), file.path)
    BY <1>1, <2>3 DEF IsLoaded, ReadFrom
  <2>5. SubSeq(file.text, c.span[1], c.span[2]) = c.content
    BY <2>2, <2>3, <2>4 DEF IsCut
  <2>. QED BY <2>3, <2>4, <2>5 DEF Excerpt
<1>. QED BY <1>2 DEF EvidenceIsCurrent

(* A pack made of one snapshot, within its budget.                         *)
HoldsPack(request, snapshot, pack) ==
  /\ pack.sources = snapshot /\ IsList(pack.evidence) /\ \A c \in ToSet(pack.evidence) : Proven(snapshot, c) /\ Lasting(snapshot, c)
  /\ IsFiniteSet(pack.questions)
  /\ IsUsed(pack.used) /\ pack.used.allBytes <= request.budget.bytes /\ pack.used.count <= request.limits.depth
  /\ IsList(pack.plan.facets) /\ IsList(pack.plan.history)

LEMMA NothingIsUsed ==
  /\ IsUsed(Nothing) /\ Nothing.bytes = 0 /\ Nothing.allBytes = 0 /\ Nothing.count = 0
BY DEF IsUsed, Nothing

(* The pack of a prepared request, before it is said what it is true of.   *)
Wholes(request, snapshot) == {[facet |-> "", complete |-> s.id \notin snapshot.partial, state |-> ""] : s \in ToSet(request.sources)}
IsPrepared(request, plan, snapshot, r) ==
  \E quality, coverage :
    /\ AreProven(snapshot, quality.found) /\ (\A e \in ToSet(quality.found) : Lasting(snapshot, e))
    /\ quality.conflicts = {} => SayTheSame(ToSet(quality.found))
    /\ Wholes(request, snapshot) \subseteq coverage
    /\ IsBuilt(request, plan, snapshot, quality, coverage, Nothing, r)

LEMMA AnalysedHasLines ==
  ASSUME NEW snapshot, IsSnapshot(snapshot), NEW found, AreProven(snapshot, found)
  PROVE  AreLines(found)
<1>1. ASSUME NEW c \in ToSet(found) PROVE IsFiniteSet(DOMAIN c.content)
  <2>1. Proven(snapshot, c)
    BY DEF AreProven
  <2>. QED BY <2>1, ProvenHasLines
<1>. QED BY <1>1 DEF AreLines, AreProven

LEMMA PackOfIs ==
  ASSUME NEW request, IsRequest(request), NEW plan, IsPlan(request, plan), NEW snapshot, IsSnapshot(snapshot), IsFiniteSet(snapshot.notes),
         NEW got, Finding(got)
  PROVE  IsPrepared(request, plan, snapshot, PackOf(request, plan, snapshot, got))
<1>1. PICK checked, quality, coverage, notes :
        /\ checked = verifyCandidates(plan, request.policies, snapshot, got.found)
        /\ quality = analyzeQuality(plan, request.policies, snapshot, checked.found)
        /\ coverage = got.coverage \cup Wholes(request, snapshot)
        /\ notes = snapshot.notes \cup got.notes \cup checked.notes
  OBVIOUS
<1>2. PackOf(request, plan, snapshot, got) = BuildPack(request, plan, snapshot, quality, coverage, notes, Nothing)
  BY <1>1 DEF PackOf, Wholes
<1>3. AreProven(snapshot, checked.found) /\ IsFiniteSet(checked.notes)
  <2>1. IsUnits(got.found)
    BY DEF Finding
  <2>. QED BY <1>1, <2>1, VerifyKeeps
<1>4. IsQuality(snapshot, checked.found, quality)
  BY <1>1, <1>3, AnalysisIs
<1>5. AreProven(snapshot, quality.found)
  BY <1>4 DEF IsQuality
<1>6. AreLines(quality.found)
  BY <1>5, AnalysedHasLines
<1>7. IsFiniteSet(notes)
  <2>1. IsFiniteSet(snapshot.notes \cup got.notes)
    BY FS_Union DEF Finding
  <2>2. IsFiniteSet((snapshot.notes \cup got.notes) \cup checked.notes)
    BY <1>3, <2>1, FS_Union
  <2>. QED BY <1>1, <2>2
<1>8. IsUsed(Nothing) /\ Nothing.bytes <= Nothing.allBytes /\ Nothing.allBytes <= request.budget.bytes
  BY NothingIsUsed DEF IsRequest
<1>9. IsBuilt(request, plan, snapshot, quality, coverage, Nothing, BuildPack(request, plan, snapshot, quality, coverage, notes, Nothing))
  <2>1. /\ request.budget.bytes \in Nat /\ request.budget.tokens \in Nat /\ request.budget.reserve \in Nat /\ IsFiniteSet(request.policies)
        /\ IsList(plan.facets) /\ IsFiniteSet(plan.unresolved)
        /\ IsFiniteSet(quality.notes) /\ IsFiniteSet(quality.omissions)
    BY <1>4 DEF IsRequest, IsPlan, IsQuality
  <2>. QED BY <1>6, <1>7, <1>8, <2>1, BuildIs
<1>10. Wholes(request, snapshot) \subseteq coverage
  BY <1>1
<1>11. (\A e \in ToSet(quality.found) : Lasting(snapshot, e)) /\ (quality.conflicts = {} => SayTheSame(ToSet(quality.found)))
  BY <1>4 DEF IsQuality
<1>12. PICK r : r = PackOf(request, plan, snapshot, got)
  OBVIOUS
<1>13. IsBuilt(request, plan, snapshot, quality, coverage, Nothing, r)
  BY <1>2, <1>9, <1>12
<1>14. IsPrepared(request, plan, snapshot, r)
  BY <1>5, <1>10, <1>11, <1>13 DEF IsPrepared
<1>. QED BY <1>12, <1>14

LEMMA PreparedIs ==
  ASSUME NEW request, IsRequest(request), NEW before, IsScan(before), NEW after, Prepare(request, before, after).ok
  PROVE  /\ loadFilesystem(request, before) = loadFilesystem(request, after) /\ IsPlan(request, BuildPlan(request)) /\ BuildPlan(request).ok
         /\ IsPrepared(request, BuildPlan(request), loadFilesystem(request, before), Prepare(request, before, after).pack)
         /\ HoldsPack(request, loadFilesystem(request, before), Prepare(request, before, after).pack)
<1>1. PICK plan, snapshot, other : plan = BuildPlan(request) /\ snapshot = loadFilesystem(request, before) /\ other = loadFilesystem(request, after)
  OBVIOUS
<1>2. PICK got : got = retrieve(request, snapshot, plan.facets)
  OBVIOUS
<1>3. PICK p, r : p = PackOf(request, plan, snapshot, got) /\ r = Prepare(request, before, after)
  OBVIOUS
<1>4. r = IF ~plan.ok \/ snapshot # other THEN NoPack ELSE [ok |-> TRUE, pack |-> p]
  BY <1>1, <1>2, <1>3 DEF Prepare, sameSnapshots
<1>5. plan.ok /\ snapshot = other /\ r.pack = p
  BY <1>3, <1>4 DEF NoPack
<1>6. IsPlan(request, plan)
  BY <1>1, PlanIs
<1>7. IsSnapshot(snapshot) /\ IsFiniteSet(snapshot.notes)
  <2>1. IsLoaded(request, before, snapshot, Len(before))
    BY <1>1, LoadIs
  <2>. QED BY <1>1, <2>1, SnapshotIs DEF IsLoaded
<1>8. Finding(got)
  BY <1>2, <1>6, <1>7, RetrieveFinds DEF IsRequest, IsPlan
<1>9. IsPrepared(request, plan, snapshot, p)
  BY <1>3, <1>6, <1>7, <1>8, PackOfIs
<1>10. HoldsPack(request, snapshot, p)
  <2>1. PICK quality, coverage :
          /\ AreProven(snapshot, quality.found) /\ \A e \in ToSet(quality.found) : Lasting(snapshot, e)
          /\ IsBuilt(request, plan, snapshot, quality, coverage, Nothing, p)
    BY <1>9 DEF IsPrepared
  <2>2. p.sources = snapshot /\ IsList(p.evidence) /\ ToSet(p.evidence) \subseteq ToSet(quality.found) /\ IsFiniteSet(p.questions) /\ p.plan = plan
    BY <2>1 DEF IsBuilt
  <2>3. IsUsed(p.used) /\ p.used.allBytes <= request.budget.bytes /\ p.used.count = 0
    BY <2>1, NothingIsUsed DEF IsBuilt, IsAccounted
  <2>4. IsList(p.plan.facets) /\ IsList(p.plan.history)
    BY <1>6, <2>2, EmptyList DEF IsPlan
  <2>5. p.used.count <= request.limits.depth
    BY <2>3 DEF IsRequest
  <2>. QED BY <2>1, <2>2, <2>3, <2>4, <2>5 DEF HoldsPack, AreProven
<1>. QED BY <1>1, <1>3, <1>5, <1>6, <1>9, <1>10

(* What is prepared is true: whatever moves meanwhile, the evidence is     *)
(* what the last load reads, and a pack that says it is complete is        *)
(* (Prepare, BuildPack).                                                   *)
THEOREM PreparedPacksAreTrue ==
  ASSUME NEW q, IsRequest(q.request), IsScan(q.trees[1]), IsScan(q.trees[2])
  PROVE  PackIsTrue(q)
<1>1. PICK request, before, after, got : request = q.request /\ before = q.trees[1] /\ after = q.trees[2] /\ got = Prepare(request, before, after)
  OBVIOUS
<1>2. ASSUME got.ok PROVE EvidenceIsCurrent(request, got.pack, after) /\ CompleteIsWhole(request, got.pack, after)
  <2>1. PICK plan, snapshot, pack : plan = BuildPlan(request) /\ snapshot = loadFilesystem(request, before) /\ pack = got.pack
    OBVIOUS
  <2>2. /\ snapshot = loadFilesystem(request, after) /\ IsPlan(request, plan) /\ plan.ok
        /\ IsPrepared(request, plan, snapshot, pack) /\ HoldsPack(request, snapshot, pack)
    BY <1>1, <1>2, <2>1, PreparedIs
  <2>3. EvidenceIsCurrent(request, pack, after)
    <3>1. \A c \in ToSet(pack.evidence) : Proven(loadFilesystem(request, after), c)
      BY <2>2 DEF HoldsPack
    <3>. QED BY <1>1, <3>1, EvidenceIs
  <2>4. PICK quality, coverage :
          /\ AreProven(snapshot, quality.found)
          /\ quality.conflicts = {} => SayTheSame(ToSet(quality.found))
          /\ Wholes(request, snapshot) \subseteq coverage
          /\ IsBuilt(request, plan, snapshot, quality, coverage, Nothing, pack)
    BY <2>2 DEF IsPrepared
  <2>5. ASSUME NEW f \in ToSet(request.facets), f.required
        PROVE  (\E c \in ToSet(pack.evidence) : f.id \in c.facets) \/ \E n \in pack.questions : n.facet = f.id /\ n.status = "PARTIAL"
    <3>1. f \in Required(plan)
      BY <2>2, <2>5 DEF IsPlan, Required
    <3>2. f \in MissingFacets(plan, pack) \/ \E c \in ToSet(pack.evidence) : f.id \in c.facets
      BY <3>1 DEF MissingFacets
    <3>. QED BY <2>4, <3>2 DEF IsBuilt
  <2>6. ASSUME pack.status = "COMPLETE"
        PROVE  /\ \A n \in pack.questions : n.status = "COMPLETE"
               /\ \A c \in coverage : c.complete
               /\ quality.conflicts = {} /\ pack.used.allTokens + request.budget.reserve <= request.budget.tokens
               /\ MissingPolicies(request, plan, pack) = {}
    BY <2>4, <2>6 DEF IsBuilt, AllComplete
  <2>7. ASSUME pack.status = "COMPLETE", NEW f \in ToSet(request.facets), f.required
        PROVE  \E c \in ToSet(pack.evidence) : f.id \in c.facets
    BY <2>5, <2>6, <2>7
  <2>8. ASSUME pack.status = "COMPLETE", NEW s \in ToSet(request.sources), NEW file \in ToSet(after),
               file.source = s.id, PathAdmitted(s, file.path), file.regular, ~file.readable
        PROVE  FALSE
    <3>1. Known(request, s.id) /\ Source(request, s.id) = s
      BY <2>2 DEF IsPlan
    <3>2. IsGap(request, file)
      BY <2>8, <3>1 DEF IsGap
    <3>3. PICK i \in 1..Len(after) : file = after[i]
      <4>1. DOMAIN after = 1..Len(after)
        BY <1>1, ListIs DEF IsScan
      <4>. QED BY <4>1 DEF ToSet
    <3>4. IsLoaded(request, after, snapshot, Len(after))
      BY <1>1, <2>2, LoadIs
    <3>5. s.id \in snapshot.partial
      BY <2>8, <3>2, <3>3, <3>4 DEF IsLoaded
    <3>6. PICK w : w = [facet |-> "", complete |-> s.id \notin snapshot.partial, state |-> ""]
      OBVIOUS
    <3>7. w \in coverage
      BY <2>4, <3>6 DEF Wholes
    <3>8. ~w.complete
      BY <3>5, <3>6
    <3>. QED BY <2>6, <2>8, <3>7, <3>8
  <2>9. ASSUME pack.status = "COMPLETE", NEW p \in request.policies, p.everywhere
        PROVE  \E c \in ToSet(pack.evidence) : c.path = p.path /\ c.text = p.text
    <3>1. PolicyApplies(plan.facets, p)
      BY <2>9 DEF PolicyApplies
    <3>2. p \notin MissingPolicies(request, plan, pack)
      BY <2>6, <2>9
    <3>. QED BY <3>1, <3>2 DEF MissingPolicies
  <2>10. ASSUME pack.status = "COMPLETE" PROVE SayTheSame(ToSet(pack.evidence))
    <3>1. SayTheSame(ToSet(quality.found)) /\ ToSet(pack.evidence) \subseteq ToSet(quality.found)
      BY <2>4, <2>6, <2>10 DEF IsBuilt
    <3>. QED BY <3>1 DEF SayTheSame
  <2>11. CompleteIsWhole(request, pack, after)
    <3>1. \A f \in ToSet(request.facets) : f.required =>
            (\E c \in ToSet(pack.evidence) : f.id \in c.facets) \/ \E n \in pack.questions : n.facet = f.id /\ n.status # "COMPLETE"
      BY <2>5
    <3>2. pack.status = "COMPLETE" => pack.used.allTokens + request.budget.reserve <= request.budget.tokens
      BY <2>6
    <3>3. pack.status = "COMPLETE" =>
            \A s \in ToSet(request.sources) : ~\E file \in ToSet(after) : file.source = s.id /\ PathAdmitted(s, file.path) /\ file.regular /\ ~file.readable
      BY <2>8
    <3>4. pack.status = "COMPLETE" =>
            \A c, d \in ToSet(pack.evidence) :
              ClaimGroup(c) = ClaimGroup(d) /\ c.claim.key # "" /\ "" \notin {c.claim.value, d.claim.value} => c.claim.value = d.claim.value
      BY <2>10 DEF SayTheSame
    <3>. QED BY <2>7, <2>9, <3>1, <3>2, <3>3, <3>4 DEF CompleteIsWhole
  <2>. QED BY <2>1, <2>3, <2>11
<1>. QED BY <1>1, <1>2 DEF PackIsTrue, TruePack

LEMMA GrownIs ==
  ASSUME NEW request, NEW plan, IsPlan(request, plan), NEW base, IsList(base.plan.facets), IsList(base.plan.history), NEW ask
  PROVE  LET next == Grown(plan, base, ask)
         IN  IsList(next.facets) /\ IsList(next.history) /\ next.unresolved = plan.unresolved
<1> DEFINE initial == {g.id : g \in ToSet(plan.facets)} \cup {ask.facet.id}
           old == base.plan.facets
           at == {i \in DOMAIN old : old[i].id \notin initial}
           further == IF base.plan.history = <<>> THEN <<>> ELSE ItemsAt(old, at)
           next == Grown(plan, base, ask)
<1>1. PICK p1, p2, p3, p4, facets, history :
        /\ plan = [ok |-> p1, facets |-> p2, history |-> p3, unresolved |-> p4] /\ p2 = plan.facets
        /\ facets = Append(plan.facets, ask.facet) \o further /\ history = Append(base.plan.history, ask)
  BY DEF IsPlan
<1>2. next = [plan EXCEPT !.facets = facets, !.history = history]
  BY <1>1 DEF Grown
<1>3. IsList(further)
  <2>1. IsList(ItemsAt(old, at))
    BY ItemsAtAre
  <2>. QED BY <2>1, EmptyList
<1>4. IsList(facets)
  <2>1. IsList(Append(plan.facets, ask.facet))
    BY AppendIs DEF IsPlan
  <2> HIDE DEF further
  <2>. QED BY <1>1, <1>3, <2>1, ConcatIs
<1>5. IsList(history)
  BY <1>1, AppendIs
<1> HIDE DEF next, further
<1>6. next = [ok |-> p1, facets |-> facets, history |-> history, unresolved |-> p4]
  <2> DEFINE x == [plan EXCEPT !.facets = facets]
  <2>1. x = [ok |-> p1, facets |-> facets, history |-> p3, unresolved |-> p4]
    <3>1. plan = [ok |-> p1, facets |-> p2, history |-> p3, unresolved |-> p4]
      BY <1>1
    <3>. QED BY <3>1
  <2>2. next = [x EXCEPT !.history = history]
    BY <1>2
  <2> HIDE DEF x
  <2>. QED BY <2>1, <2>2
<1>7. next.facets = facets /\ next.history = history /\ next.unresolved = plan.unresolved
  BY <1>1, <1>6
<1>8. IsList(next.facets) /\ IsList(next.history) /\ next.unresolved = plan.unresolved
  BY <1>4, <1>5, <1>7
<1>. QED BY <1>8 DEF next

(* What a base brings along is required.                                   *)
IsRequired(snapshot, c, e) ==
  Proven(snapshot, e) /\ e.required /\ e.source = c.source /\ e.path = c.path /\ e.span = c.span /\ (Lasting(snapshot, c) => Lasting(snapshot, e))

LEMMA RequiredIs ==
  ASSUME NEW snapshot, NEW c, Proven(snapshot, c)
  PROVE  IsRequired(snapshot, c, [c EXCEPT !.required = TRUE])
<1> DEFINE e == [c EXCEPT !.required = TRUE]
<1>1. PICK c1, c2, c3, c4, c5, c6, c7, c8, c9, c10, c11, c12, c13, c14, c15 :
        /\ c = [source |-> c1, path |-> c2, text |-> c3, span |-> c4, content |-> c5, symbol |-> c6, kind |-> c7,
                query |-> c8, claim |-> c9, hash |-> c10, facets |-> c11, required |-> c12, provenance |-> c13, fresh |-> c14, pins |-> c15]
        /\ IsFiniteSet(c15)
  BY DEF Proven, IsUnit
<1>8. PICK yes : yes = TRUE
  OBVIOUS
<1>9. e = [c EXCEPT !.required = yes]
  BY <1>8
<1>2. e = [source |-> c1, path |-> c2, text |-> c3, span |-> c4, content |-> c5, symbol |-> c6, kind |-> c7,
           query |-> c8, claim |-> c9, hash |-> c10, facets |-> c11, required |-> yes, provenance |-> c13, fresh |-> c14, pins |-> c15]
  <2> HIDE DEF e
  <2>. QED BY <1>1, <1>9
<1> HIDE DEF e
<1>3. IsUnit(e) /\ e.required
  BY <1>1, <1>2, <1>8 DEF IsUnit
<1>4. /\ e.source = c.source /\ e.path = c.path /\ e.text = c.text /\ e.span = c.span /\ e.content = c.content
      /\ e.hash = c.hash /\ e.provenance = c.provenance /\ e.fresh = c.fresh /\ e.pins = c.pins
  BY <1>1, <1>2
<1>5. SpanVerified(snapshot, c) <=> SpanVerified(snapshot, e)
  BY <1>4 DEF SpanVerified
<1>6. Lasting(snapshot, c) => Lasting(snapshot, e)
  BY <1>4 DEF Lasting
<1>7. IsRequired(snapshot, c, e)
  BY <1>3, <1>4, <1>5, <1>6 DEF IsRequired, Proven
<1>. QED BY <1>7 DEF e

LEMMA RelabeledLasts ==
  ASSUME NEW snapshot, NEW c, Lasting(snapshot, c), NEW e, Relabeled(c, e)
  PROVE  Lasting(snapshot, e)
<1>1. e.fresh = c.fresh /\ e.hash = c.hash /\ e.text = c.text /\ e.pins = c.pins /\ e.source = c.source /\ (e.provenance = "generated" => c.provenance = "generated")
  BY DEF Relabeled
<1>. QED BY <1>1 DEF Lasting

(* The units of a base again, now required, before what was found new.     *)
LEMMA KeptAre ==
  ASSUME NEW snapshot, NEW prior, AreProven(snapshot, prior), NEW fresh, AreProven(snapshot, fresh)
  PROVE  LET kept == [i \in DOMAIN prior |-> [prior[i] EXCEPT !.required = TRUE]]
         IN  AreProven(snapshot, kept \o fresh) /\ \A c \in ToSet(prior) : \E k \in ToSet(kept \o fresh) : IsRequired(snapshot, c, k)
<1> DEFINE kept == [i \in DOMAIN prior |-> [prior[i] EXCEPT !.required = TRUE]]
<1>1. IsList(prior) /\ Len(prior) \in Nat /\ DOMAIN prior = 1..Len(prior) /\ IsList(fresh)
  BY ListIs DEF AreProven
<1>2. ASSUME NEW i \in 1..Len(prior) PROVE IsRequired(snapshot, prior[i], kept[i])
  <2>1. Proven(snapshot, prior[i])
    BY <1>1 DEF AreProven, ToSet
  <2>2. PICK c, k : c = prior[i] /\ k = kept[i]
    OBVIOUS
  <2>3. k = [c EXCEPT !.required = TRUE]
    BY <1>1, <2>2
  <2> HIDE DEF kept
  <2>4. IsRequired(snapshot, c, k)
    BY <2>1, <2>2, <2>3, RequiredIs
  <2>. QED BY <2>2, <2>4
<1>3. DOMAIN kept = 1..Len(prior) /\ kept = [i \in 1..Len(prior) |-> kept[i]]
  BY <1>1
<1> HIDE DEF kept
<1>4. IsList(kept) /\ \A x \in ToSet(kept) : \E i \in 1..Len(prior) : x = kept[i]
  BY <1>1, <1>3, FunctionIsList
<1>5. IsList(kept \o fresh) /\ ToSet(kept \o fresh) = ToSet(kept) \cup ToSet(fresh)
  BY <1>1, <1>4, ConcatIs
<1>6. \A x \in ToSet(kept \o fresh) : Proven(snapshot, x)
  BY <1>2, <1>4, <1>5 DEF AreProven, IsRequired
<1>7. ASSUME NEW c \in ToSet(prior) PROVE \E k \in ToSet(kept \o fresh) : IsRequired(snapshot, c, k)
  <2>1. PICK i \in 1..Len(prior) : c = prior[i]
    BY <1>1 DEF ToSet
  <2>2. kept[i] \in ToSet(kept \o fresh)
    BY <1>3, <1>5 DEF ToSet
  <2>. QED BY <1>2, <2>1, <2>2
<1>8. AreProven(snapshot, kept \o fresh)
  BY <1>5, <1>6 DEF AreProven
<1>. QED BY <1>7, <1>8 DEF kept

LEMMA CountedIs ==
  ASSUME NEW used, IsUsed(used)
  PROVE  LET u == [used EXCEPT !.count = @ + 1]
         IN  IsUsed(u) /\ u.bytes = used.bytes /\ u.allBytes = used.allBytes /\ u.allTokens = used.allTokens /\ u.count = used.count + 1
<1>1. PICK b, t, n, ab, at, m : /\ used = [bytes |-> b, tokens |-> t, count |-> n, allBytes |-> ab, allTokens |-> at] /\ m = n + 1
                                /\ b \in Nat /\ t \in Nat /\ n \in Nat /\ ab \in Nat /\ at \in Nat
  BY DEF IsUsed
<1> DEFINE u == [used EXCEPT !.count = @ + 1]
<1>2. used.count = n
  BY <1>1
<1>3. u = [used EXCEPT !.count = m]
  BY <1>1, <1>2
<1> HIDE DEF u
<1>4. u = [bytes |-> b, tokens |-> t, count |-> m, allBytes |-> ab, allTokens |-> at]
  BY <1>1, <1>3
<1>5. IsUsed(u) /\ u.bytes = used.bytes /\ u.allBytes = used.allBytes /\ u.allTokens = used.allTokens /\ u.count = used.count + 1
  BY <1>1, <1>4 DEF IsUsed
<1>. QED BY <1>5 DEF u

(* A pack that grew from its base.                                         *)
Unsatisfied(pack) == \E n \in pack.questions : n.code = "BUDGET_UNSATISFIED"
IsGrown(request, next, snapshot, base, r) ==
  /\ r.plan = next /\ r.sources = snapshot
  /\ IsList(r.evidence) /\ (\A c \in ToSet(r.evidence) : Proven(snapshot, c) /\ Lasting(snapshot, c)) /\ IsFiniteSet(r.questions)
  /\ IsUsed(r.used) /\ r.used.count = base.used.count + 1 /\ r.used.allBytes <= request.budget.bytes
  /\ r.used.allBytes >= base.used.allBytes /\ r.used.allTokens >= base.used.allTokens
  /\ Keeps(base, r) \/ Unsatisfied(r)

LEMMA GrownPackIs ==
  ASSUME NEW request, IsRequest(request), NEW snapshot, IsSnapshot(snapshot), NEW next, IsList(next.facets), IsFiniteSet(next.unresolved),
         NEW base, HoldsPack(request, snapshot, base), VerifyDigest(base), NEW got, Finding(got),
         NEW plan, NEW prior, prior = verifyCandidates(plan, request.policies, snapshot, base.evidence), Len(prior.found) = Len(base.evidence)
  PROVE  IsGrown(request, next, snapshot, base, GrownPack(request, next, base, snapshot, prior, got))
<1> DEFINE kept == [i \in DOMAIN prior.found |-> [prior.found[i] EXCEPT !.required = TRUE]]
<1>1. PICK checked, quality, coverage, notes, previous, all, r :
        /\ checked = verifyCandidates(next, request.policies, snapshot, got.found)
        /\ all = kept \o checked.found
        /\ quality = analyzeQuality(next, request.policies, snapshot, all)
        /\ coverage = base.coverage \cup got.coverage
        /\ notes = base.questions \cup prior.notes \cup checked.notes \cup got.notes
        /\ previous = [base.used EXCEPT !.count = @ + 1]
        /\ r = GrownPack(request, next, base, snapshot, prior, got)
  OBVIOUS
<1>2. r = BuildPack(request, next, snapshot, quality, coverage, notes, previous)
  BY <1>1 DEF GrownPack
<1>3. AreProven(snapshot, checked.found) /\ IsFiniteSet(checked.notes)
  <2>1. IsUnits(got.found)
    BY DEF Finding
  <2>. QED BY <1>1, <2>1, VerifyKeeps
<1>4. /\ AreProven(snapshot, prior.found) /\ IsFiniteSet(prior.notes)
      /\ \A c \in ToSet(base.evidence) : \E e \in ToSet(prior.found) : Relabeled(c, e)
  <2>1. IsUnits(base.evidence)
    BY DEF HoldsPack, IsUnits, Proven
  <2>. QED BY <2>1, VerifyKeeps
<1>5. AreProven(snapshot, all) /\ \A c \in ToSet(prior.found) : \E k \in ToSet(all) : IsRequired(snapshot, c, k)
  BY <1>1, <1>3, <1>4, KeptAre
<1> HIDE DEF kept
<1>6. IsQuality(snapshot, all, quality)
  BY <1>1, <1>5, AnalysisIs
<1>7. AreLines(quality.found)
  BY <1>6, AnalysedHasLines DEF IsQuality
<1>8. IsFiniteSet(notes)
  <2>1. IsFiniteSet(base.questions \cup prior.notes)
    BY <1>4, FS_Union DEF HoldsPack
  <2>2. IsFiniteSet((base.questions \cup prior.notes) \cup checked.notes)
    BY <1>3, <2>1, FS_Union
  <2>3. IsFiniteSet(((base.questions \cup prior.notes) \cup checked.notes) \cup got.notes)
    BY <2>2, FS_Union DEF Finding
  <2>. QED BY <1>1, <2>3
<1>9. IsUsed(previous) /\ previous.bytes = base.used.bytes /\ previous.allBytes = base.used.allBytes /\ previous.allTokens = base.used.allTokens
      /\ previous.count = base.used.count + 1
  BY <1>1, CountedIs DEF HoldsPack
<1>10. IsBuilt(request, next, snapshot, quality, coverage, previous, r)
  <2>1. /\ request.budget.bytes \in Nat /\ request.budget.tokens \in Nat /\ request.budget.reserve \in Nat /\ IsFiniteSet(request.policies)
        /\ IsFiniteSet(quality.notes) /\ IsFiniteSet(quality.omissions)
    BY <1>6 DEF IsRequest, IsQuality
  <2>2. previous.bytes <= previous.allBytes /\ previous.allBytes <= request.budget.bytes
    <3>1. base.used.allBytes >= base.used.bytes /\ base.used.allBytes <= request.budget.bytes
      BY DEF VerifyDigest, HoldsPack
    <3>. QED BY <1>9, <3>1 DEF IsUsed
  <2>. QED BY <1>2, <1>7, <1>8, <1>9, <2>1, <2>2, BuildIs
<1>11. ASSUME NEW c \in ToSet(r.evidence) PROVE Proven(snapshot, c) /\ Lasting(snapshot, c)
  <2>1. c \in ToSet(quality.found)
    BY <1>10 DEF IsBuilt
  <2>. QED BY <1>6, <2>1 DEF IsQuality, AreProven
<1>12. ASSUME ~Unsatisfied(r) PROVE Keeps(base, r)
  <2>1. ASSUME NEW c \in ToSet(base.evidence)
        PROVE  \E d \in ToSet(r.evidence) : d.path = c.path /\ d.source = c.source /\ d.span[1] <= c.span[1] /\ d.span[2] >= c.span[2]
    <3>1. PICK e \in ToSet(prior.found) : Relabeled(c, e)
      BY <1>4
    <3>2. Lasting(snapshot, e)
      BY <3>1, RelabeledLasts DEF HoldsPack
    <3>3. PICK k \in ToSet(all) : IsRequired(snapshot, e, k)
      BY <1>5
    <3>4. Lasting(snapshot, k) /\ k.required /\ k.source = c.source /\ k.path = c.path /\ k.span = c.span
      BY <3>1, <3>2, <3>3 DEF IsRequired, Relabeled
    <3>5. PICK d \in ToSet(quality.found) : Covers(k, d)
      BY <1>6, <3>4 DEF IsQuality
    <3>6. d.required /\ d.source = c.source /\ d.path = c.path /\ d.span[1] <= c.span[1] /\ d.span[2] >= c.span[2]
      BY <3>4, <3>5 DEF Covers
    <3>7. d \in ToSet(r.evidence) \/ Told(r, d)
      BY <1>10, <3>6 DEF IsBuilt
    <3>8. ~Told(r, d)
      BY <1>12 DEF Told, Unsatisfied
    <3>. QED BY <3>6, <3>7, <3>8
  <2>. QED BY <2>1 DEF Keeps
<1>13. /\ r.plan = next /\ r.sources = snapshot /\ IsList(r.evidence) /\ IsFiniteSet(r.questions) /\ IsUsed(r.used)
       /\ r.used.count = base.used.count + 1 /\ r.used.allBytes <= request.budget.bytes
       /\ r.used.allBytes >= base.used.allBytes /\ r.used.allTokens >= base.used.allTokens
  BY <1>9, <1>10 DEF IsBuilt, IsAccounted
<1>14. IsGrown(request, next, snapshot, base, r)
  BY <1>11, <1>12, <1>13 DEF IsGrown
<1>. QED BY <1>1, <1>14

(* One expansion: a base or a pack that grew from it, both of what the     *)
(* load reads.                                                             *)
IsExpanded(request, base, ask, before, after, got) ==
  /\ loadFilesystem(request, before) = base.sources
  /\ HoldsPack(request, base.sources, got.pack)
  /\ Keeps(base, got.pack) /\ got.pack.used.allBytes >= base.used.allBytes /\ got.pack.used.allTokens >= base.used.allTokens
  /\ got.grown \in BOOLEAN
  /\ ~got.grown => got.pack = base
  /\ got.grown => loadFilesystem(request, after) = base.sources /\ ~additionalBudgetExceeded(request.budget, base, got.pack, ask)

LEMMA KeepsItself ==
  ASSUME NEW request, NEW snapshot, IsSnapshot(snapshot), NEW base, HoldsPack(request, snapshot, base)
  PROVE  Keeps(base, base)
<1>1. ASSUME NEW c \in ToSet(base.evidence) PROVE Covers(c, c)
  <2>1. Proven(snapshot, c)
    BY DEF HoldsPack
  <2>. QED BY <2>1, CoversItself
<1>. QED BY <1>1 DEF Keeps, Covers

LEMMA ExpandOnceIs ==
  ASSUME NEW request, IsRequest(request), NEW before, IsScan(before), NEW after, NEW base, HoldsPack(request, base.sources, base), NEW ask,
         ExpandOnce(request, base, ask, before, after).ok
  PROVE  IsExpanded(request, base, ask, before, after, ExpandOnce(request, base, ask, before, after))
<1>1. PICK plan, snapshot, f, prior, next, got, p, r, again :
        /\ plan = BuildPlan(request) /\ snapshot = loadFilesystem(request, before) /\ f = ask.facet
        /\ prior = verifyCandidates(plan, request.policies, snapshot, base.evidence)
        /\ next = Grown(plan, base, ask) /\ got = retrieve(request, snapshot, <<f>>)
        /\ p = GrownPack(request, next, base, snapshot, prior, got)
        /\ r = ExpandOnce(request, base, ask, before, after)
        /\ again = loadFilesystem(request, after)
  OBVIOUS
<1>2. r = IF ~VerifyDigest(base) \/ ~plan.ok \/ ~FacetAdmitted(request, f) \/ snapshot # base.sources THEN NoPack
          ELSE IF base.used.count >= request.limits.depth THEN failedDelta(base)
          ELSE IF ~checkRemainingBudget(request.budget, base.used, ask.remaining) THEN failedDelta(base)
          ELSE IF (\E g \in ToSet(base.plan.facets) : g.id = f.id /\ g # f) \/ Len(prior.found) # Len(base.evidence) THEN NoPack
          ELSE IF snapshot # again THEN NoPack
          ELSE Affordable(request, base, ask, p)
  BY <1>1 DEF ExpandOnce, sameSnapshots
<1>3. ~NoPack.ok
  BY DEF NoPack
<1>4. r.ok
  BY <1>1
<1>5. VerifyDigest(base) /\ snapshot = base.sources
  BY <1>2, <1>3, <1>4
<1>6. IsSnapshot(snapshot)
  BY <1>1, SnapshotIs
<1>7. ASSUME r = failedDelta(base)
      PROVE  IsExpanded(request, base, ask, before, after, r)
  <2>1. r.pack = base /\ r.grown = FALSE
    BY <1>7 DEF failedDelta
  <2>2. Keeps(base, base)
    BY <1>5, <1>6, KeepsItself
  <2>3. base.used.allBytes >= base.used.allBytes /\ base.used.allTokens >= base.used.allTokens
    BY DEF HoldsPack, IsUsed
  <2>. QED BY <1>1, <1>5, <2>1, <2>2, <2>3 DEF IsExpanded
<1>8. ASSUME r # failedDelta(base)
      PROVE  IsExpanded(request, base, ask, before, after, r)
  <2>1. /\ ~(base.used.count >= request.limits.depth) /\ Len(prior.found) = Len(base.evidence) /\ snapshot = again
        /\ r = Affordable(request, base, ask, p)
    BY <1>2, <1>3, <1>4, <1>8
  <2>2. /\ ~Unsatisfied(p) /\ ~additionalBudgetExceeded(request.budget, base, p, ask)
        /\ r = [ok |-> TRUE, grown |-> TRUE, pack |-> p]
    BY <1>8, <2>1 DEF Affordable, Unsatisfied
  <2>3. IsPlan(request, plan)
    BY <1>1, PlanIs
  <2>4. IsList(next.facets) /\ IsList(next.history) /\ IsFiniteSet(next.unresolved)
    <3>1. IsList(base.plan.facets) /\ IsList(base.plan.history)
      BY DEF HoldsPack
    <3>2. IsList(next.facets) /\ IsList(next.history) /\ next.unresolved = plan.unresolved
      BY <1>1, <2>3, <3>1, GrownIs
    <3>. QED BY <2>3, <3>2 DEF IsPlan
  <2>5. Finding(got)
    <3>1. IsList(<<f>>)
      <4>1. PICK s : s = <<>>
        OBVIOUS
      <4>2. IsList(s)
        BY <4>1, EmptyList
      <4>3. IsList(Append(s, f))
        BY <4>2, AppendIs
      <4>4. Append(s, f) = <<f>>
        BY <4>1
      <4>. QED BY <4>3, <4>4
    <3>. QED BY <1>1, <1>6, <3>1, RetrieveFinds DEF IsRequest
  <2>6. IsGrown(request, next, snapshot, base, p)
    <3>1. HoldsPack(request, snapshot, base)
      BY <1>5
    <3>. QED BY <1>1, <1>5, <1>6, <2>1, <2>4, <2>5, <3>1, GrownPackIs
  <2>7. r.pack = p /\ r.grown = TRUE
    BY <2>2
  <2>8. p.used.count <= request.limits.depth
    <3>1. p.used.count = base.used.count + 1 /\ base.used.count \in Nat /\ request.limits.depth \in Nat
      BY <2>6 DEF IsGrown, HoldsPack, IsUsed, IsRequest
    <3>. QED BY <2>1, <3>1
  <2>9. HoldsPack(request, base.sources, p)
    BY <1>5, <2>4, <2>6, <2>8 DEF HoldsPack, IsGrown
  <2>10. Keeps(base, p) /\ p.used.allBytes >= base.used.allBytes /\ p.used.allTokens >= base.used.allTokens
    BY <2>2, <2>6 DEF IsGrown
  <2>. QED BY <1>1, <1>5, <2>1, <2>2, <2>7, <2>9, <2>10 DEF IsExpanded
<1>. QED BY <1>1, <1>7, <1>8

(* What is replayed is of what the last load reads.                        *)
LEMMA ReplayHolds ==
  ASSUME NEW request, IsRequest(request), NEW before, IsScan(before), NEW after, IsScan(after), NEW history, Len(history) \in Nat,
         NEW done, IsReplay(done, request, before, after, history), NEW last \in 0..Len(history), done[last].ok
  PROVE  loadFilesystem(request, before) = loadFilesystem(request, after) /\ HoldsPack(request, loadFilesystem(request, after), done[last].pack)
<1> DEFINE Fine(n) == done[n].ok => loadFilesystem(request, before) = loadFilesystem(request, after)
                                    /\ HoldsPack(request, loadFilesystem(request, after), done[n].pack)
           S == {n \in Nat : n <= Len(history) => Fine(n)}
<1>1. 0 \in S
  <2>1. Fine(0)
    BY PreparedIs DEF IsReplay
  <2> HIDE DEF Fine
  <2>. QED BY <2>1
<1>2. ASSUME NEW n \in Nat, n \in S PROVE n + 1 \in S
  <2>1. CASE n + 1 <= Len(history)
    <3>1. Fine(n) /\ n + 1 \in 1..Len(history) /\ (n + 1) - 1 = n
      BY <1>2, <2>1
    <3>2. done[n + 1] = ReplayStep(request, after, done[n], history[n + 1])
      BY <3>1 DEF IsReplay
    <3>3. ASSUME done[n + 1].ok
          PROVE  loadFilesystem(request, before) = loadFilesystem(request, after) /\ HoldsPack(request, loadFilesystem(request, after), done[n + 1].pack)
      <4>1. PICK base, ask, r, snapshot : base = done[n].pack /\ ask = history[n + 1] /\ r = done[n + 1] /\ snapshot = loadFilesystem(request, after)
        OBVIOUS
      <4>2. done[n].ok /\ r = ExpandOnce(request, base, ask, after, after)
        BY <3>2, <3>3, <4>1 DEF ReplayStep, NoPack
      <4>3. loadFilesystem(request, before) = snapshot /\ HoldsPack(request, snapshot, base)
        BY <3>1, <4>1, <4>2
      <4>4. base.sources = snapshot
        BY <4>3 DEF HoldsPack
      <4>5. IsExpanded(request, base, ask, after, after, r)
        BY <3>3, <4>1, <4>2, <4>3, <4>4, ExpandOnceIs
      <4>6. HoldsPack(request, snapshot, r.pack)
        BY <4>4, <4>5 DEF IsExpanded
      <4>. QED BY <4>1, <4>3, <4>6
    <3>4. Fine(n + 1)
      BY <3>3
    <3> HIDE DEF Fine
    <3>. QED BY <3>4
  <2>2. CASE ~(n + 1 <= Len(history))
    BY <2>2
  <2>. QED BY <2>1, <2>2
<1>3. last \in S
  <2>1. last \in Nat
    OBVIOUS
  <2> HIDE DEF S
  <2>. QED BY <1>1, <1>2, <2>1, NumbersFrom
<1>4. Fine(last)
  BY <1>3
<1>. QED BY <1>4

LEMMA ReplayedHolds ==
  ASSUME NEW request, IsRequest(request), NEW before, IsScan(before), NEW after, IsScan(after), NEW history, IsList(history),
         Replayed(request, before, after, history).ok
  PROVE  loadFilesystem(request, before) = loadFilesystem(request, after)
         /\ HoldsPack(request, loadFilesystem(request, after), Replayed(request, before, after, history).pack)
<1>1. Len(history) \in Nat /\ Len(history) \in 0..Len(history)
  BY ListIs
<1>2. PICK done : IsReplay(done, request, before, after, history) /\ Replayed(request, before, after, history) = done[Len(history)]
  BY <1>1, ReplayWalks
<1>3. done[Len(history)].ok
  BY <1>2
<1>4. loadFilesystem(request, before) = loadFilesystem(request, after) /\ HoldsPack(request, loadFilesystem(request, after), done[Len(history)].pack)
  BY <1>1, <1>2, <1>3, ReplayHolds
<1>. QED BY <1>2, <1>4

(* A replay depends on the files only as far as the loads read them.       *)
LEMMA ExpandsTheSame ==
  ASSUME NEW request, NEW base, NEW ask, NEW one, NEW other, loadFilesystem(request, one) = loadFilesystem(request, other)
  PROVE  ExpandOnce(request, base, ask, one, one) = ExpandOnce(request, base, ask, other, other)
BY DEF ExpandOnce

LEMMA ReplaysTheSame ==
  ASSUME NEW request, NEW before, NEW after, NEW now, NEW history, IsList(history),
         loadFilesystem(request, before) = loadFilesystem(request, after), loadFilesystem(request, now) = loadFilesystem(request, after)
  PROVE  Replayed(request, before, after, history) = Replayed(request, now, now, history)
<1>1. Len(history) \in Nat
  BY ListIs
<1>2. PICK done : IsReplay(done, request, before, after, history) /\ Replayed(request, before, after, history) = done[Len(history)]
  BY <1>1, ReplayWalks
<1>3. PICK again : IsReplay(again, request, now, now, history) /\ Replayed(request, now, now, history) = again[Len(history)]
  BY <1>1, ReplayWalks
<1> DEFINE S == {n \in Nat : n <= Len(history) => done[n] = again[n]}
<1>4. 0 \in S
  <2>1. Prepare(request, before, after) = Prepare(request, now, now)
    BY DEF Prepare
  <2>. QED BY <1>2, <1>3, <2>1 DEF IsReplay
<1>5. ASSUME NEW n \in Nat, n \in S PROVE n + 1 \in S
  <2>1. ASSUME n + 1 <= Len(history) PROVE done[n + 1] = again[n + 1]
    <3>1. done[n] = again[n] /\ n + 1 \in 1..Len(history) /\ (n + 1) - 1 = n
      BY <1>1, <1>5, <2>1
    <3>2. done[n + 1] = ReplayStep(request, after, done[n], history[n + 1]) /\ again[n + 1] = ReplayStep(request, now, again[n], history[n + 1])
      BY <1>2, <1>3, <3>1 DEF IsReplay
    <3>3. ExpandOnce(request, done[n].pack, history[n + 1], after, after) = ExpandOnce(request, done[n].pack, history[n + 1], now, now)
      BY ExpandsTheSame
    <3>. QED BY <3>1, <3>2, <3>3 DEF ReplayStep
  <2>. QED BY <2>1
<1>6. Len(history) \in S
  <2> HIDE DEF S
  <2>. QED BY <1>1, <1>4, <1>5, NumbersFrom
<1>. QED BY <1>1, <1>2, <1>3, <1>6

(* An expansion is true: its evidence is what the last load it needed      *)
(* reads, nothing of its base is lost, costs only grow and stay within the *)
(* budget and what was asked for, and its base is what an undisturbed      *)
(* preparation gives (Expand, additionalBudgetExceeded).                   *)
THEOREM ExpansionsAreTrue ==
  ASSUME NEW q, IsRequest(q.request), \A i \in 1..4 : IsScan(q.trees[i]), IsList(q.base.plan.history), q.ask.remaining.bytes \in Nat
  PROVE  ExpansionIsTrue(q)
<1>1. PICK request, base, ask, trees, got, history :
        request = q.request /\ base = q.base /\ ask = q.ask /\ trees = q.trees /\ got = Expand(request, base, ask, trees) /\ history = base.plan.history
  OBVIOUS
<1>2. IsScan(trees[1]) /\ IsScan(trees[2]) /\ IsScan(trees[3]) /\ IsScan(trees[4]) /\ IsList(history) /\ IsRequest(request)
  BY <1>1
<1>3. SUFFICES ASSUME got.ok
               PROVE  /\ EvidenceIsCurrent(request, got.pack, IF got.grown THEN trees[4] ELSE trees[3])
                      /\ Keeps(base, got.pack) /\ CostsAdd(request, base, ask, got)
                      /\ IsBase(base, Replayed(request, trees[1], trees[1], history))
  BY <1>1 DEF ExpansionIsTrue, TrueExpansion
<1>4. PICK end : end = Replayed(request, trees[2], trees[3], history)
  OBVIOUS
<1>5. end.ok /\ end.pack = base /\ got = ExpandOnce(request, base, ask, trees[1], trees[4])
  BY <1>1, <1>3, <1>4 DEF Expand, ReplayGives, IsBase, NoPack
<1>6. loadFilesystem(request, trees[2]) = loadFilesystem(request, trees[3]) /\ HoldsPack(request, loadFilesystem(request, trees[3]), base)
  BY <1>2, <1>4, <1>5, ReplayedHolds
<1>7. base.sources = loadFilesystem(request, trees[3]) /\ HoldsPack(request, base.sources, base)
  BY <1>6 DEF HoldsPack
<1>8. IsExpanded(request, base, ask, trees[1], trees[4], got)
  BY <1>2, <1>3, <1>5, <1>7, ExpandOnceIs
<1>9. EvidenceIsCurrent(request, got.pack, IF got.grown THEN trees[4] ELSE trees[3])
  <2>1. \A c \in ToSet(got.pack.evidence) : Proven(base.sources, c)
    BY <1>8 DEF IsExpanded, HoldsPack
  <2>2. CASE got.grown
    <3>1. EvidenceIsCurrent(request, got.pack, trees[4])
      BY <1>2, <1>8, <2>1, <2>2, EvidenceIs DEF IsExpanded
    <3>. QED BY <2>2, <3>1
  <2>3. CASE ~got.grown
    <3>1. EvidenceIsCurrent(request, got.pack, trees[3])
      BY <1>2, <1>7, <2>1, EvidenceIs
    <3>. QED BY <2>3, <3>1
  <2>. QED BY <2>2, <2>3
<1>10. CostsAdd(request, base, ask, got)
  <2>1. PICK used : used = got.pack.used
    OBVIOUS
  <2>2. /\ used.allBytes >= base.used.allBytes /\ used.allTokens >= base.used.allTokens
        /\ used.allBytes <= request.budget.bytes /\ used.count <= request.limits.depth /\ used.allBytes \in Nat /\ base.used.allBytes \in Nat
    BY <1>7, <1>8, <2>1 DEF IsExpanded, HoldsPack, IsUsed
  <2>3. ASSUME got.grown PROVE ask.remaining.bytes = 0 \/ used.allBytes <= base.used.allBytes + ask.remaining.bytes
    <3>1. ~(ask.remaining.bytes > 0 /\ used.allBytes - base.used.allBytes > ask.remaining.bytes)
      BY <1>8, <2>1, <2>3 DEF IsExpanded, additionalBudgetExceeded
    <3>2. ask.remaining.bytes \in Nat
      BY <1>1
    <3>. QED BY <2>2, <3>1, <3>2
  <2>. QED BY <2>1, <2>2, <2>3 DEF CostsAdd
<1>11. IsBase(base, Replayed(request, trees[1], trees[1], history))
  <2>1. loadFilesystem(request, trees[1]) = loadFilesystem(request, trees[3])
    BY <1>7, <1>8 DEF IsExpanded
  <2>2. Replayed(request, trees[2], trees[3], history) = Replayed(request, trees[1], trees[1], history)
    BY <1>2, <1>6, <2>1, ReplaysTheSame
  <2>. QED BY <1>4, <1>5, <2>2 DEF IsBase
<1>. QED BY <1>8, <1>9, <1>10, <1>11 DEF IsExpanded

(* The questions about packs are of these shapes: what is asked and what   *)
(* is scanned is finite, and its limits are numbers.                       *)
PacksFit(q) ==
  /\ About("pack") => IsRequest(q.request) /\ \A i \in 1..2 : IsScan(q.trees[i])
  /\ About("expand") => /\ IsRequest(q.request) /\ \A i \in 1..4 : IsScan(q.trees[i])
                        /\ IsList(q.base.plan.history) /\ q.ask.remaining.bytes \in Nat
  /\ About("merge") => IsList(q.text) /\ \A s \in {q.a, q.b} : s \in (1..Len(q.text)) \X (1..Len(q.text)) /\ s[1] <= s[2]

(* Every context pack is true, also after an expansion, and excerpts that  *)
(* merge stay excerpts (Prepare, Expand, qualityMergeSpans).               *)
THEOREM PacksAreAlwaysTrue ==
  []PacksFit(question.q) => []PacksAreTrue
<1>1. ASSUME NEW q, PacksFit(q)
      PROVE  /\ About("pack") => PackIsTrue(q)
             /\ About("expand") => ExpansionIsTrue(q)
             /\ About("merge") => MergeIsExcerpt(q.text, q.a, q.b)
  <2>1. ASSUME About("pack") PROVE PackIsTrue(q)
    <3>1. IsRequest(q.request) /\ IsScan(q.trees[1]) /\ IsScan(q.trees[2])
      BY <1>1, <2>1 DEF PacksFit
    <3>. QED BY <3>1, PreparedPacksAreTrue
  <2>2. ASSUME About("expand") PROVE ExpansionIsTrue(q)
    BY <1>1, <2>2, ExpansionsAreTrue DEF PacksFit
  <2>3. ASSUME About("merge") PROVE MergeIsExcerpt(q.text, q.a, q.b)
    BY <1>1, <2>3, MergesAreExcerpts DEF PacksFit
  <2>. QED BY <2>1, <2>2, <2>3
<1>2. PacksFit(question.q) => PacksAreTrue
  BY <1>1 DEF PacksAreTrue
<1>. QED BY <1>2, PTL
=============================================================================
