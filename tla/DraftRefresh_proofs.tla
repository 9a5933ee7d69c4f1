------------------------ MODULE DraftRefresh_proofs ------------------------
(***************************************************************************)
(* For any number of ranks, rows, mini-batches and cycles: the ranks never *)
(* wait in different collectives, every row's policy gradient and every    *)
(* row's head gradient is applied once, every head step is taken at the    *)
(* rate of its own training step, and the rows whose teacher a refresh     *)
(* replaces are the most valuable ones.                                    *)
(***************************************************************************)
EXTENDS DraftRefresh, TLAPS, FiniteSetTheorems, SequenceTheorems

-----------------------------------------------------------------------------
(* Sorting                                                                 *)

\* R is a strict total order on S.
Orders(R, S) ==
    /\ \A x \in S : <<x, x>> \notin R
    /\ \A x, y \in S : x = y \/ <<x, y>> \in R \/ <<y, x>> \in R
    /\ \A x, y, z \in S : <<x, y>> \in R /\ <<y, z>> \in R => <<x, z>> \in R

Below(R, S, x) == {y \in S : <<y, x>> \in R}

\* The more an element has below it, the later it comes.
LEMMA BelowGrows ==
    ASSUME NEW S, IsFiniteSet(S), NEW R, Orders(R, S), NEW x \in S, NEW y \in S, <<x, y>> \in R
    PROVE  Cardinality(Below(R, S, x)) < Cardinality(Below(R, S, y))
  <1>1. Below(R, S, x) \subseteq Below(R, S, y) /\ x \in Below(R, S, y) /\ x \notin Below(R, S, x)
    BY DEF Below, Orders
  <1>2. IsFiniteSet(Below(R, S, x)) /\ IsFiniteSet(Below(R, S, y))
    BY FS_Subset DEF Below
  <1>3. Cardinality(Below(R, S, x)) \in Nat /\ Cardinality(Below(R, S, y)) \in Nat
    BY <1>2, FS_CardinalityType
  <1>4. /\ Cardinality(Below(R, S, x)) <= Cardinality(Below(R, S, y))
        /\ Cardinality(Below(R, S, x)) # Cardinality(Below(R, S, y))
    BY <1>1, <1>2, FS_Subset
  <1>. QED BY <1>3, <1>4

\* Every place is taken.
LEMMA PlacesTaken ==
    ASSUME NEW S, IsFiniteSet(S), NEW R, Orders(R, S)
    PROVE  \A i \in 1 .. Cardinality(S) : \E x \in S : Cardinality(Below(R, S, x)) = i - 1
  <1> DEFINE n == Cardinality(S)
             T == 0 .. n - 1
             f == [x \in S |-> Cardinality(Below(R, S, x))]
  <1>1. n \in Nat
    BY FS_CardinalityType
  <1>2. ASSUME NEW x \in S PROVE f[x] \in T
    <2>1. Below(R, S, x) \in SUBSET S /\ x \notin Below(R, S, x)
      BY DEF Below, Orders
    <2>2. IsFiniteSet(Below(R, S, x)) /\ f[x] <= n /\ f[x] # n
      BY <2>1, FS_Subset
    <2>3. f[x] \in Nat
      BY <2>2, FS_CardinalityType
    <2>. QED BY <1>1, <2>2, <2>3
  <1>3. f \in [S -> T]
    BY <1>2
  <1>4. ASSUME NEW x \in S, NEW y \in S, f[x] = f[y] PROVE x = y
    <2>1. SUFFICES ASSUME x # y PROVE FALSE
      OBVIOUS
    <2>2. <<x, y>> \in R \/ <<y, x>> \in R
      BY <2>1 DEF Orders
    <2>3. f[x] < f[y] \/ f[y] < f[x]
      BY <2>2, BelowGrows
    <2>4. f[x] \in Int /\ f[y] \in Int
      BY <1>1, <1>2
    <2>. HIDE DEF f
    <2>. QED BY <1>4, <2>3, <2>4
  <1>. HIDE DEF f
  <1>5. f \in Injection(S, T)
    BY <1>3, <1>4 DEF Injection, IsInjective
  <1>6. IsFiniteSet(T) /\ Cardinality(T) = n
    BY <1>1, FS_Interval
  <1>7. f \in Surjection(S, T)
    BY <1>5, <1>6, FS_Injection
  <1>8. ASSUME NEW i \in 1 .. n PROVE \E x \in S : Cardinality(Below(R, S, x)) = i - 1
    <2>1. i - 1 \in T
      BY <1>1
    <2>2. PICK x \in S : f[x] = i - 1
      BY <1>7, <2>1 DEF Surjection
    <2>. QED BY <2>2 DEF f
  <1>. QED BY <1>8

\* The list q holds every element of S once.
Sorts(q, S) ==
    /\ q \in Seq(S) /\ Len(q) = Cardinality(S)
    /\ \A i, j \in 1 .. Len(q) : q[i] = q[j] => i = j
    /\ \A x \in S : \E i \in 1 .. Len(q) : q[i] = x

\* A list that holds at every place an element with that many below it holds
\* every element once, in order.
LEMMA PlacedInOrder ==
    ASSUME NEW S, IsFiniteSet(S), NEW R, Orders(R, S),
           NEW q \in [1 .. Cardinality(S) -> S],
           \A i \in 1 .. Cardinality(S) : Cardinality(Below(R, S, q[i])) = i - 1
    PROVE  Sorts(q, S) /\ \A i, j \in 1 .. Len(q) : i < j => <<q[i], q[j]>> \in R
  <1> DEFINE n == Cardinality(S)
  <1>1. n \in Nat
    BY FS_CardinalityType
  <1>2. q \in Seq(S) /\ Len(q) = n
    BY <1>1, LenProperties
  <1>3. ASSUME NEW i \in 1 .. n, NEW j \in 1 .. n, q[i] = q[j] PROVE i = j
    <2>1. i - 1 = j - 1
      BY <1>3
    <2>. QED BY <1>1, <2>1
  <1>4. q \in Surjection(1 .. n, S)
    <2>1. q \in Injection(1 .. n, S)
      BY <1>3 DEF Injection, IsInjective
    <2>2. Cardinality(1 .. n) = n
      BY <1>1, FS_Interval
    <2>. QED BY <2>1, <2>2, FS_Injection
  <1>5. \A x \in S : \E i \in 1 .. n : q[i] = x
    BY <1>4 DEF Surjection
  <1>6. ASSUME NEW i \in 1 .. n, NEW j \in 1 .. n, i < j PROVE <<q[i], q[j]>> \in R
    <2>1. q[i] # q[j]
      BY <1>3, <1>6
    <2>2. CASE <<q[j], q[i]>> \in R
      <3>1. Cardinality(Below(R, S, q[j])) < Cardinality(Below(R, S, q[i]))
        BY <2>2, BelowGrows
      <3>2. j - 1 < i - 1
        BY <3>1
      <3>. QED BY <1>1, <1>6, <3>2
    <2>. QED BY <2>1, <2>2 DEF Orders
  <1>. QED BY <1>2, <1>3, <1>5, <1>6 DEF Sorts

\* Pairs of numbers are sorted.
LEMMA PairsSorted ==
    ASSUME NEW S, IsFiniteSet(S), S \subseteq Int \X Int
    PROVE  Sorts(Sorted(S), S)
  <1> DEFINE R == {p \in S \X S : Before(p[1], p[2])}
             q == Sorted(S)
             n == Cardinality(S)
  <1>1. Orders(R, S)
    <2>1. \A x, y \in S : <<x, y>> \in R <=> Before(x, y)
      OBVIOUS
    <2>2. \A x \in S : x[1] \in Int /\ x[2] \in Int /\ x = <<x[1], x[2]>>
      OBVIOUS
    <2>. HIDE DEF R
    <2>3. \A x \in S : ~Before(x, x)
      BY <2>2 DEF Before
    <2>4. \A x, y \in S : x = y \/ Before(x, y) \/ Before(y, x)
      BY <2>2 DEF Before
    <2>5. \A x, y, z \in S : Before(x, y) /\ Before(y, z) => Before(x, z)
      BY <2>2 DEF Before
    <2>. QED BY <2>1, <2>3, <2>4, <2>5 DEF Orders
  <1>2. \A x \in S : {y \in S : Before(y, x)} = Below(R, S, x)
    BY DEF Below
  <1>. HIDE DEF R
  <1>3. \A i \in 1 .. n : \E x \in S : Cardinality({y \in S : Before(y, x)}) = i - 1
    <2> TAKE i \in 1 .. n
    <2>1. PICK x \in S : Cardinality(Below(R, S, x)) = i - 1
      BY <1>1, PlacesTaken
    <2>2. {y \in S : Before(y, x)} = Below(R, S, x)
      BY <1>2
    <2>3. Cardinality({y \in S : Before(y, x)}) = i - 1
      BY <2>1, <2>2, Zenon
    <2>. QED BY <2>3
  <1>4. \A i \in 1 .. n : q[i] \in S /\ Cardinality({y \in S : Before(y, q[i])}) = i - 1
    BY <1>3 DEF Sorted, InOrder
  <1>5. q \in [1 .. n -> S]
    BY <1>3 DEF Sorted, InOrder
  <1>. HIDE DEF q
  <1>6. \A i \in 1 .. n : Cardinality(Below(R, S, q[i])) = i - 1
    <2> TAKE i \in 1 .. n
    <2>1. Cardinality({y \in S : Before(y, q[i])}) = i - 1 /\ q[i] \in S
      BY <1>4
    <2>2. {y \in S : Before(y, q[i])} = Below(R, S, q[i])
      BY <1>2, <2>1
    <2>. QED BY <2>1, <2>2, Zenon
  <1>7. Sorts(q, S)
    BY <1>1, <1>5, <1>6, PlacedInOrder
  <1>. QED BY <1>7 DEF q

-----------------------------------------------------------------------------
(* Rows, cases and lists of collectives                                    *)

Cases == [row : Keys, cycle : Nat, priority : Nat]

\* The forwards of one kind.
Pass(tag) == {tag} \X (Cases \union (Keys \X Nat))

\* The collectives of each stage.
OpsIn(p) ==
    CASE p = "probe"     -> {<<"coverage">>, <<"cases">>}
      [] p = "gather"    -> Pass("old") \union {<<"gather">>}
      [] p = "loop"      -> Pass("capture")
      [] p = "backward"  -> {"tokens", "cycles"} \X (1 .. NumMini)
      [] p = "step"      -> ({"policy", "head"} \X (1 .. NumMini) \X (1 .. NumRows))
                               \union {<<"norm">>}
      [] p = "score"     -> Pass("score") \union {<<"broadcast">>}
      [] p = "teacher"   -> Pass("teacher")
      [] p = "refresh"   -> {<<"refresh">>, <<"norm">>}
      [] p = "new"       -> Pass("new")
      [] p = "durations" -> {<<"durations">>}
      [] OTHER           -> {}

LEMMA KeysFinite == IsFiniteSet(Keys) /\ Keys \subseteq Int \X Int /\ 0 \in Ranks
  <1>1. Ranks = 0 .. NumRanks - 1 /\ NumRanks - 1 \in Int /\ NumRows \in Int /\ 0 \in Ranks
    BY RefreshAssumption DEF Ranks
  <1>2. IsFiniteSet(Ranks) /\ IsFiniteSet(1 .. NumRows)
    BY <1>1, FS_Interval
  <1>3. IsFiniteSet(Keys)
    BY <1>2, FS_Product DEF Keys
  <1>4. Keys \subseteq Int \X Int
    BY <1>1 DEF Keys
  <1>. QED BY <1>1, <1>3, <1>4

LEMMA ImageFinite ==
    ASSUME NEW I, IsFiniteSet(I), NEW f
    PROVE  IsFiniteSet({f[i] : i \in I})
  <1> DEFINE T == {f[i] : i \in I}
             g == [i \in I |-> f[i]]
  <1>1. g \in Surjection(I, T)
    BY DEF Surjection
  <1>. QED BY <1>1, FS_Surjection

LEMMA UnionFinite ==
    ASSUME NEW I, IsFiniteSet(I), NEW f, \A i \in I : IsFiniteSet(f[i])
    PROVE  IsFiniteSet(UNION {f[i] : i \in I})
  BY ImageFinite, FS_UNION

LEMMA ForwardsType ==
    ASSUME NEW tag, NEW S, NEW q \in Seq(S)
    PROVE  Forwards(tag, q) \in Seq({tag} \X S) /\ Len(Forwards(tag, q)) = Len(q)
  <1>1. Len(q) \in Nat /\ \A i \in 1 .. Len(q) : q[i] \in S
    BY LenProperties, ElementOfSeq
  <1>2. Forwards(tag, q) \in [1 .. Len(q) -> {tag} \X S]
    BY <1>1 DEF Forwards
  <1>. QED BY <1>1, <1>2, LenProperties

LEMMA RecordCasesType ==
    ASSUME batch \in [Keys -> Kinds], NEW q \in Seq(Keys), NEW rows
    PROVE  RecordCases(q, rows) \in Seq(Keys \X Nat)
  <1> DEFINE kept == {i \in 1 .. Len(q) : q[i] \in rows}
             f == [i \in kept |-> {i} \X (1 .. batch[q[i]].cycles)]
             S == UNION {{i} \X (1 .. batch[q[i]].cycles) : i \in kept}
             each == Sorted(S)
  <1>1. Len(q) \in Nat /\ \A i \in 1 .. Len(q) : q[i] \in Keys
    BY LenProperties, ElementOfSeq
  <1>2. \A i \in kept : batch[q[i]].cycles \in Nat
    <2>1. \A r \in Keys : batch[r].cycles \in Nat
      BY RefreshAssumption
    <2>. QED BY <1>1, <2>1
  <1>3. IsFiniteSet(kept)
    <2>1. IsFiniteSet(1 .. Len(q)) /\ kept \in SUBSET (1 .. Len(q))
      BY <1>1, FS_Interval
    <2>. HIDE DEF kept
    <2>. QED BY <2>1, FS_Subset
  <1>4. IsFiniteSet(S)
    <2>1. ASSUME NEW i \in kept PROVE IsFiniteSet(f[i])
      <3>1. IsFiniteSet({i}) /\ IsFiniteSet(1 .. batch[q[i]].cycles)
        <4> DEFINE b == batch[q[i]].cycles
        <4>1. b \in Int
          BY <1>2
        <4>. HIDE DEF b
        <4>2. IsFiniteSet(1 .. b)
          BY <4>1, FS_Interval
        <4>. QED BY <4>2, FS_Singleton DEF b
      <3>2. IsFiniteSet({i} \X (1 .. batch[q[i]].cycles))
        BY <3>1, FS_Product
      <3>. QED BY <3>2
    <2>2. {f[i] : i \in kept} = {{i} \X (1 .. batch[q[i]].cycles) : i \in kept}
      OBVIOUS
    <2>. HIDE DEF f, kept
    <2>3. IsFiniteSet(UNION {f[i] : i \in kept})
      BY <1>3, <2>1, UnionFinite
    <2>. QED BY <2>2, <2>3, Zenon
  <1>5. \A x \in S : x \in Int \X Int /\ x[1] \in 1 .. Len(q) /\ x[2] \in Nat
    BY <1>1, <1>2
  <1>. HIDE DEF S
  <1>6. Sorts(each, S)
    BY <1>4, <1>5, PairsSorted
  <1>7. Len(each) \in Nat /\ \A n \in 1 .. Len(each) : each[n] \in S
    BY <1>6, LenProperties, ElementOfSeq DEF Sorts
  <1>. HIDE DEF each
  <1>8. [n \in 1 .. Len(each) |-> <<q[each[n][1]], each[n][2]>>] \in [1 .. Len(each) -> Keys \X Nat]
    BY <1>1, <1>5, <1>7
  <1>9. [n \in 1 .. Len(each) |-> <<q[each[n][1]], each[n][2]>>] \in Seq(Keys \X Nat)
    BY <1>7, <1>8, SeqDef
  <1>. QED BY <1>9 DEF RecordCases, each, S

LEMMA MinPair ==
    ASSUME NEW a \in Int, NEW b \in Int
    PROVE  Min({a, b}) \in {a, b} /\ Min({a, b}) <= a /\ Min({a, b}) <= b
  <1>1. \E x \in {a, b} : \A y \in {a, b} : x =< y
    <2>1. CASE a <= b
      BY <2>1
    <2>2. CASE b <= a
      BY <2>2
    <2>. QED BY <2>1, <2>2
  <1>. QED BY <1>1 DEF Min

LEMMA MaxPair ==
    ASSUME NEW a \in Int, NEW b \in Int
    PROVE  Max({a, b}) \in {a, b} /\ Max({a, b}) >= a /\ Max({a, b}) >= b
  <1>1. \E x \in {a, b} : \A y \in {a, b} : x >= y
    <2>1. CASE a <= b
      BY <2>1
    <2>2. CASE b <= a
      BY <2>2
    <2>. QED BY <2>1, <2>2
  <1>. QED BY <1>1 DEF Max

\* A finite set of numbers has a greatest element: the one at the last place.
LEMMA MaxType ==
    ASSUME NEW S \in SUBSET Nat, IsFiniteSet(S), S # {}
    PROVE  Max(S) \in S
  <1> DEFINE R == {p \in S \X S : p[1] < p[2]}
             n == Cardinality(S)
  <1>1. Orders(R, S)
    BY DEF Orders
  <1>2. n \in 1 .. n
    <2>1. n \in Nat /\ n # 0
      BY FS_CardinalityType, FS_EmptySet
    <2>. QED BY <2>1
  <1>. HIDE DEF R
  <1>3. \A i \in 1 .. n : \E x \in S : Cardinality(Below(R, S, x)) = i - 1
    BY <1>1, PlacesTaken
  <1>. HIDE DEF n
  <1>10. PICK x \in S : Cardinality(Below(R, S, x)) = n - 1
    BY <1>2, <1>3
  <1>4. ASSUME NEW y \in S PROVE x >= y
    <2>1. CASE x < y
      <3>1. <<x, y>> \in R
        BY <2>1 DEF R
      <3>2. Below(R, S, y) \in SUBSET S /\ y \notin Below(R, S, y)
        BY DEF Below, R
      <3>3. n - 1 < Cardinality(Below(R, S, y))
        BY <1>1, <1>10, <3>1, BelowGrows
      <3>4. /\ IsFiniteSet(Below(R, S, y)) /\ Cardinality(Below(R, S, y)) <= n
            /\ Cardinality(Below(R, S, y)) # n
        BY <3>2, FS_Subset DEF n
      <3>5. Cardinality(Below(R, S, y)) \in Nat
        BY <3>4, FS_CardinalityType
      <3>. QED BY <1>2, <3>3, <3>4, <3>5
    <2>. QED BY <2>1
  <1>. QED BY <1>4 DEF Max

\* The largest cases: a list of cases within the budget.
LEMMA LargestType ==
    ASSUME NEW S, IsFiniteSet(S), S \subseteq Cases, \A a, b \in S : a.row = b.row => a = b
    PROVE  Largest(S) \in Seq(S) /\ Len(Largest(S)) <= MaxCycles
  <1> DEFINE R == {p \in S \X S : Larger(p[1], p[2])}
             q == InOrder(S, Larger)
             n == Cardinality(S)
  <1>1. Orders(R, S)
    <2>1. \A x, y \in S : <<x, y>> \in R <=> Larger(x, y)
      OBVIOUS
    <2>2. \A x \in S : x.priority \in Int /\ x.row[1] \in Int /\ x.row[2] \in Int
                       /\ x.row = <<x.row[1], x.row[2]>>
      BY KeysFinite DEF Cases
    <2>. HIDE DEF R
    <2>3. \A x \in S : ~Larger(x, x)
      BY <2>2 DEF Larger, Before
    <2>4. \A x, y \in S : x = y \/ Larger(x, y) \/ Larger(y, x)
      BY <2>2 DEF Larger, Before
    <2>5. \A x, y, z \in S : Larger(x, y) /\ Larger(y, z) => Larger(x, z)
      BY <2>2 DEF Larger, Before
    <2>. QED BY <2>1, <2>3, <2>4, <2>5 DEF Orders
  <1>2. \A x \in S : {y \in S : Larger(y, x)} = Below(R, S, x)
    BY DEF Below
  <1>. HIDE DEF R
  <1>3. \A i \in 1 .. n : \E x \in S : Cardinality({y \in S : Larger(y, x)}) = i - 1
    <2> TAKE i \in 1 .. n
    <2>1. PICK x \in S : Cardinality(Below(R, S, x)) = i - 1
      BY <1>1, PlacesTaken
    <2>2. {y \in S : Larger(y, x)} = Below(R, S, x)
      BY <1>2
    <2>3. Cardinality({y \in S : Larger(y, x)}) = i - 1
      BY <2>1, <2>2, Zenon
    <2>. QED BY <2>3
  <1>4. q \in [1 .. n -> S]
    BY <1>3 DEF InOrder
  <1>5. n \in Nat
    BY FS_CardinalityType
  <1>6. Largest(S) = SubSeq(q, 1, Min({MaxCycles, Len(q)}))
    BY Zenon DEF Largest
  <1>. HIDE DEF q, n
  <1>7. q \in Seq(S) /\ Len(q) = n /\ MaxCycles \in Nat
    BY <1>4, <1>5, LenProperties, RefreshAssumption
  <1> DEFINE m == Min({MaxCycles, Len(q)})
  <1>8. m \in Nat /\ m <= MaxCycles /\ m <= Len(q)
    <2>1. MaxCycles \in Int /\ Len(q) \in Int /\ MaxCycles >= 0 /\ Len(q) >= 0
      BY <1>5, <1>7
    <2>2. m \in {MaxCycles, Len(q)} /\ m <= MaxCycles /\ m <= Len(q)
      BY <2>1, MinPair
    <2>. HIDE DEF m
    <2>. QED BY <2>1, <2>2
  <1>. HIDE DEF m
  <1>9. \A i \in 1 .. m : q[i] \in S
    BY <1>4, <1>5, <1>7, <1>8
  <1>10. SubSeq(q, 1, m) \in Seq(S) /\ Len(SubSeq(q, 1, m)) = m
    BY <1>7, <1>8, <1>9, SubSeqProperties
  <1>. QED BY <1>6, <1>8, <1>10, Zenon DEF m

\* select_trajectories returns rows.
LEMMA SelectType ==
    ASSUME batch \in [Keys -> Kinds], NEW k \in Ranks, records[k] \in Seq(Keys),
           shift[k] \in [Keys -> Nat]
    PROVE  SelectTrajectories(k) \in Seq(Keys)
  <1> DEFINE S == {r \in ToSet(records[k]) : Score(k, r) > 0}
             better(a, b) == Score(k, a) > Score(k, b) \/ (Score(k, a) = Score(k, b) /\ Before(a, b))
             R == {p \in S \X S : better(p[1], p[2])}
             q == InOrder(S, better)
             n == Cardinality(S)
             c == (FracNum * Len(records[k]) + FracDen - 1) \div FracDen
             count == Min({n, c})
  <1>1. Len(records[k]) \in Nat /\ S \subseteq Keys
    <2>1. \A i \in 1 .. Len(records[k]) : records[k][i] \in Keys
      BY ElementOfSeq
    <2>2. DOMAIN records[k] = 1 .. Len(records[k])
      BY LenProperties
    <2>3. ToSet(records[k]) \subseteq Keys
      BY <2>1, <2>2 DEF ToSet
    <2>4. S \subseteq ToSet(records[k])
      OBVIOUS
    <2>. QED BY <2>3, <2>4, LenProperties
  <1>2. ASSUME NEW r \in Keys PROVE Score(k, r) \in Int
    <2>1. batch[r].advantage \in Int /\ shift[k][r] \in Int
      BY RefreshAssumption
    <2>2. ASSUME NEW a \in Int PROVE Max({a, 0}) \in Int
      <3>1. 0 \in Int
        OBVIOUS
      <3>2. Max({a, 0}) \in {a, 0}
        BY <3>1, MaxPair, Zenon
      <3>. QED BY <3>2
    <2>3. Max({batch[r].advantage, 0}) \in Int
      BY <2>1, <2>2
    <2>. QED BY <2>1, <2>3 DEF Score
  <1>3. Orders(R, S)
    <2>1. \A x, y \in S : <<x, y>> \in R <=> better(x, y)
      OBVIOUS
    <2>2. \A x \in S : x[1] \in Int /\ x[2] \in Int /\ x = <<x[1], x[2]>> /\ Score(k, x) \in Int
      BY <1>1, <1>2, KeysFinite
    <2>. HIDE DEF R, S
    <2>3. \A x \in S : ~better(x, x)
      BY <2>2 DEF Before
    <2>4. \A x, y \in S : x = y \/ better(x, y) \/ better(y, x)
      BY <2>2 DEF Before
    <2>5. \A x, y, z \in S : better(x, y) /\ better(y, z) => better(x, z)
      BY <2>2 DEF Before
    <2>. QED BY <2>1, <2>3, <2>4, <2>5 DEF Orders
  <1>4. IsFiniteSet(S)
    <2>. HIDE DEF S
    <2>. QED BY <1>1, KeysFinite, FS_Subset
  <1>5. \A x \in S : {y \in S : better(y, x)} = Below(R, S, x)
    BY DEF Below
  <1>. HIDE DEF R
  <1>6. \A i \in 1 .. n : \E x \in S : Cardinality({y \in S : better(y, x)}) = i - 1
    <2> TAKE i \in 1 .. n
    <2>. HIDE DEF S
    <2>1. PICK x \in S : Cardinality(Below(R, S, x)) = i - 1
      BY <1>3, <1>4, PlacesTaken
    <2>2. {y \in S : better(y, x)} = Below(R, S, x)
      BY <1>5
    <2>. HIDE DEF better
    <2>3. Cardinality({y \in S : better(y, x)}) = i - 1
      BY <2>1, <2>2, Zenon
    <2>. QED BY <2>3
  <1>8. n \in Nat /\ c \in Int
    <2>1. n \in Nat
      BY <1>4, FS_CardinalityType
    <2>2. c \in Int
      BY <1>1, RefreshAssumption
    <2>. QED BY <2>1, <2>2
  <1>9. SelectTrajectories(k) = SubSeq(q, 1, count)
    BY Zenon DEF SelectTrajectories
  <1>. HIDE DEF S, c
  <1>7. q \in [1 .. n -> S]
    BY <1>6 DEF InOrder
  <1>. HIDE DEF q
  <1>10. count \in Int /\ count <= n
    <2>1. n \in Int /\ c \in Int
      BY <1>8
    <2>. HIDE DEF n
    <2>2. count \in {n, c} /\ count <= n
      BY <2>1, MinPair, Zenon
    <2>. HIDE DEF count
    <2>. QED BY <2>1, <2>2
  <1>. HIDE DEF n, count
  <1>11. q \in Seq(Keys) /\ Len(q) = n
    <2>1. q \in [1 .. n -> Keys]
      BY <1>1, <1>7
    <2>. QED BY <1>8, <2>1, LenProperties
  <1>12. SubSeq(q, 1, count) \in Seq(Keys)
    BY <1>8, <1>10, <1>11, SubSeqProperties
  <1>. QED BY <1>9, <1>12, Zenon

-----------------------------------------------------------------------------
(* Where the ranks are                                                     *)

Stages == {"begin", "probe", "gather", "loop", "backward", "step", "score", "teacher", "refresh",
           "new", "durations", "done", "raised"}
Prologue == {"begin", "probe", "gather"}
Epilogue == {"score", "teacher", "refresh", "new", "durations", "done"}

\* What a stage says of the mini-batches started and of the kind of step.
Shape(k) ==
    /\ pc[k] \in Prologue => mini[k] = 0
    /\ pc[k] \in {"backward", "step"} => mini[k] >= 1
    /\ pc[k] \in Epilogue => mini[k] = NumMini
    /\ pc[k] \in {"probe", "gather", "new"} => mode # "plain"
    /\ pc[k] \in {"score", "teacher", "refresh"} => Deferred

Control ==
    /\ mode \in Modes /\ batch \in [Keys -> Kinds]
    /\ pc \in [Ranks -> Stages]
    /\ mini \in [Ranks -> 0 .. NumMini]
    /\ DOMAIN todo = Ranks
    /\ \A k \in Ranks : todo[k] \in Seq(OpsIn(pc[k])) /\ Shape(k)

LEMMA GotoControl ==
    ASSUME Control, NEW k \in Ranks, NEW from, NEW to \in Stages, NEW ops \in Seq(OpsIn(to)),
           Goto(k, from, to, ops), UNCHANGED <<mode, batch>>,
           mini' \in [Ranks -> 0 .. NumMini], \A j \in Ranks : j # k => mini'[j] = mini[j],
           Shape(k)'
    PROVE  Control'
  <1>1. pc' \in [Ranks -> Stages] /\ DOMAIN todo' = Ranks /\ pc'[k] = to /\ todo'[k] = ops
    BY DEF Control, Goto
  <1>2. \A j \in Ranks : j # k => pc'[j] = pc[j] /\ todo'[j] = todo[j]
    BY DEF Control, Goto
  <1>3. ASSUME NEW j \in Ranks PROVE todo'[j] \in Seq(OpsIn(pc'[j]))
    BY <1>1, <1>2 DEF Control
  <1>4. ASSUME NEW j \in Ranks, j # k PROVE Shape(j)'
    BY <1>2, <1>4 DEF Control, Shape, Deferred
  <1>5. ASSUME NEW j \in Ranks PROVE todo'[j] \in Seq(OpsIn(pc[j]')) /\ Shape(j)'
    BY <1>3, <1>4
  <1>6. mode' \in Modes /\ batch' \in [Keys -> Kinds]
    BY DEF Control
  <1>. QED BY <1>1, <1>5, <1>6 DEF Control

\* The head of a list is in its set and the rest is a list.
LEMMA HeadTail ==
    ASSUME NEW S, NEW q \in Seq(S), q # <<>>
    PROVE  /\ Head(q) \in S /\ Tail(q) \in Seq(S) /\ Len(Tail(q)) = Len(q) - 1
           /\ Len(q) \in Nat \ {0} /\ Head(q) = q[1]
           /\ \A i \in 1 .. Len(q) - 1 : Tail(q)[i] = q[i + 1]
  BY HeadTailProperties, LenProperties

LEMMA CompleteControl ==
    ASSUME Control, NEW op, Complete(op), pc' = pc
    PROVE  Control'
  <1>1. DOMAIN todo' = Ranks /\ \A k \in Ranks : todo'[k] = Tail(todo[k]) /\ todo[k] # <<>>
    BY DEF Complete, Entered
  <1>2. ASSUME NEW k \in Ranks PROVE todo'[k] \in Seq(OpsIn(pc'[k])) /\ Shape(k)'
    <2>1. Tail(todo[k]) \in Seq(OpsIn(pc[k]))
      BY <1>1, HeadTail DEF Control
    <2>2. Shape(k)'
      BY DEF Control, Shape, Deferred, Complete
    <2>. QED BY <1>1, <2>1, <2>2
  <1>. QED BY <1>1, <1>2 DEF Control, Complete

LEMMA RaiseControl ==
    ASSUME Control, NEW op, AllRaise(op)
    PROVE  Control'
  <1>1. pc' \in [Ranks -> Stages] /\ DOMAIN todo' = Ranks
    BY DEF AllRaise, Stages
  <1>2. ASSUME NEW k \in Ranks PROVE todo'[k] \in Seq(OpsIn(pc'[k])) /\ Shape(k)'
    <2>1. todo'[k] = <<>> /\ pc'[k] = "raised"
      BY DEF AllRaise
    <2>2. Shape(k)'
      BY <2>1 DEF Shape, Prologue, Epilogue
    <2>. QED BY <2>1, <2>2
  <1>. QED BY <1>1, <1>2 DEF Control, AllRaise

\* A kind of collective belongs to its stages.
TagsIn(p) ==
    CASE p = "probe"     -> {"coverage", "cases"}
      [] p = "gather"    -> {"old", "gather"}
      [] p = "loop"      -> {"capture"}
      [] p = "backward"  -> {"tokens", "cycles"}
      [] p = "step"      -> {"policy", "head", "norm"}
      [] p = "score"     -> {"score", "broadcast"}
      [] p = "teacher"   -> {"teacher"}
      [] p = "refresh"   -> {"refresh", "norm"}
      [] p = "new"       -> {"new"}
      [] p = "durations" -> {"durations"}
      [] OTHER           -> {}

LEMMA TagOf ==
    ASSUME NEW p \in Stages, NEW op \in OpsIn(p)
    PROVE  op[1] \in TagsIn(p)
  <1>1. CASE p = "probe"
    BY <1>1 DEF OpsIn, TagsIn
  <1>2. CASE p = "gather"
    BY <1>2 DEF OpsIn, TagsIn, Pass
  <1>3. CASE p = "loop"
    BY <1>3 DEF OpsIn, TagsIn, Pass
  <1>4. CASE p = "backward"
    BY <1>4 DEF OpsIn, TagsIn
  <1>5. CASE p = "step"
    BY <1>5 DEF OpsIn, TagsIn
  <1>6. CASE p = "score"
    BY <1>6 DEF OpsIn, TagsIn, Pass
  <1>7. CASE p = "teacher"
    BY <1>7 DEF OpsIn, TagsIn, Pass
  <1>8. CASE p = "refresh"
    BY <1>8 DEF OpsIn, TagsIn
  <1>9. CASE p = "new"
    BY <1>9 DEF OpsIn, TagsIn, Pass
  <1>10. CASE p = "durations"
    BY <1>10 DEF OpsIn, TagsIn
  <1>11. CASE p \in {"begin", "done", "raised"}
    BY <1>11 DEF OpsIn
  <1>. QED BY <1>1, <1>2, <1>3, <1>4, <1>5, <1>6, <1>7, <1>8, <1>9, <1>10, <1>11 DEF Stages

\* A rank that waits in a collective is in a stage of that collective.
LEMMA Waiting ==
    ASSUME Control, NEW k \in Ranks, todo[k] # <<>>
    PROVE  Head(todo[k])[1] \in TagsIn(pc[k]) /\ pc[k] \in Stages
  <1>1. Head(todo[k]) \in OpsIn(pc[k]) /\ pc[k] \in Stages
    BY HeadTail DEF Control
  <1>. QED BY <1>1, TagOf

-----------------------------------------------------------------------------
(* The collectives of each stage                                           *)

ProbeOps == <<<<"coverage">>, <<"cases">>>>
GatherOps(k) == Forwards("old", cases[k]) \o (IF Deferred THEN <<<<"gather">>>> ELSE <<>>)
LoopOps(k) == IF Deferred THEN Forwards("capture", RecordCases(records[k], Positive)) ELSE <<>>
BackwardOps(m) == <<<<"tokens", m>>>> \o (IF Deferred THEN <<>> ELSE <<<<"cycles", m>>>>)
Models(k, m) == IF HeadPass(k, m) THEN <<"policy", "head">> ELSE <<"policy">>
Passes(k, m) == Sorted(MicroBatches(m) \X DOMAIN Models(k, m))
StepOps(k, m) ==
    Append([n \in 1 .. Len(Passes(k, m)) |->
              <<Models(k, m)[Passes(k, m)[n][2]], m, Passes(k, m)[n][1]>>], <<"norm">>)
ScoreOps(k) == Append(Forwards("score", RecordCases(records[k], Positive)), <<"broadcast">>)
TeacherOps(k) == Forwards("teacher", RecordCases(selected[k], Keys))
RefreshOps(k) == IF counts[k].cycles > 0 THEN <<<<"refresh">>, <<"norm">>>> ELSE <<>>
NewOps(k) == Forwards("new", cases[k])
DurationsOps == <<<<"durations">>>>

LEMMA PassType ==
    ASSUME NEW tag, NEW q, q \in Seq(Cases) \/ q \in Seq(Keys \X Nat)
    PROVE  Forwards(tag, q) \in Seq(Pass(tag)) /\ Len(Forwards(tag, q)) = Len(q)
  <1>1. q \in Seq(Cases \union (Keys \X Nat))
    BY SeqMonotonic
  <1>. QED BY <1>1, ForwardsType DEF Pass

\* One list, then one collective more.
LEMMA ThenOne ==
    ASSUME NEW S, NEW q \in Seq(S), NEW op
    PROVE  /\ Append(q, op) \in Seq(S \union {op}) /\ Len(Append(q, op)) = Len(q) + 1
           /\ Append(q, op) # <<>> /\ Append(q, op)[Len(q) + 1] = op
           /\ \A i \in 1 .. Len(q) : Append(q, op)[i] = q[i]
  <1>1. q \in Seq(S \union {op}) /\ op \in S \union {op}
    BY SeqMonotonic
  <1>. QED BY <1>1, AppendProperties

LEMMA GatherOpsType ==
    ASSUME NEW k \in Ranks, cases[k] \in Seq(Cases)
    PROVE  GatherOps(k) \in Seq(OpsIn("gather"))
  <1>1. Forwards("old", cases[k]) \in Seq(Pass("old"))
    BY PassType
  <1>2. OpsIn("gather") = Pass("old") \union {<<"gather">>}
    BY DEF OpsIn
  <1>3. Forwards("old", cases[k]) \in Seq(OpsIn("gather"))
    BY <1>1, <1>2, SeqMonotonic
  <1>4. <<<<"gather">>>> \in Seq(OpsIn("gather")) /\ <<>> \in Seq(OpsIn("gather"))
    BY <1>2
  <1>. QED BY <1>3, <1>4, ConcatProperties DEF GatherOps

LEMMA LoopOpsType ==
    ASSUME batch \in [Keys -> Kinds], NEW k \in Ranks, records[k] \in Seq(Keys)
    PROVE  /\ LoopOps(k) \in Seq(OpsIn("loop"))
           /\ ScoreOps(k) \in Seq(OpsIn("score")) /\ ScoreOps(k) # <<>>
           /\ ScoreOps(k)[Len(ScoreOps(k))] = <<"broadcast">>
  <1> DEFINE q == RecordCases(records[k], Positive)
  <1>1. q \in Seq(Keys \X Nat)
    BY RecordCasesType
  <1>. HIDE DEF q
  <1>2. Forwards("capture", q) \in Seq(Pass("capture")) /\ Forwards("score", q) \in Seq(Pass("score"))
    BY <1>1, PassType
  <1>3. OpsIn("loop") = Pass("capture") /\ OpsIn("score") = Pass("score") \union {<<"broadcast">>}
    BY DEF OpsIn
  <1>4. LoopOps(k) \in Seq(OpsIn("loop"))
    BY <1>2, <1>3 DEF LoopOps, q
  <1> DEFINE w == Forwards("score", q)
  <1>7. w \in Seq(Pass("score"))
    BY <1>2
  <1>. HIDE DEF w
  <1>5. /\ Append(w, <<"broadcast">>) \in Seq(OpsIn("score")) /\ Append(w, <<"broadcast">>) # <<>>
        /\ Len(Append(w, <<"broadcast">>)) = Len(w) + 1
        /\ Append(w, <<"broadcast">>)[Len(w) + 1] = <<"broadcast">>
    BY <1>3, <1>7, ThenOne
  <1>6. ScoreOps(k) = Append(w, <<"broadcast">>)
    BY DEF ScoreOps, w, q
  <1>. QED BY <1>4, <1>5, <1>6

LEMMA TeacherOpsType ==
    ASSUME batch \in [Keys -> Kinds], NEW q \in Seq(Keys)
    PROVE  Forwards("teacher", RecordCases(q, Keys)) \in Seq(OpsIn("teacher"))
  <1>1. RecordCases(q, Keys) \in Seq(Keys \X Nat)
    BY RecordCasesType
  <1>2. OpsIn("teacher") = Pass("teacher")
    BY DEF OpsIn
  <1>. QED BY <1>1, <1>2, PassType

LEMMA NewOpsType ==
    ASSUME NEW k \in Ranks, cases[k] \in Seq(Cases)
    PROVE  NewOps(k) \in Seq(OpsIn("new"))
  <1>1. OpsIn("new") = Pass("new")
    BY DEF OpsIn
  <1>. QED BY <1>1, PassType DEF NewOps

\* The reductions of a mini-batch.
LEMMA BackwardOpsAre ==
    ASSUME NEW m
    PROVE  BackwardOps(m) = IF Deferred THEN <<<<"tokens", m>>>>
                            ELSE <<<<"tokens", m>>, <<"cycles", m>>>>
  <1> DEFINE a == <<"tokens", m>>
             b == <<"cycles", m>>
  <1>1. <<a>> \in Seq({a, b}) /\ b \in {a, b}
    OBVIOUS
  <1>. HIDE DEF a, b
  <1>2. <<a>> \o <<>> = <<a>>
    BY <1>1, ConcatEmptySeq
  <1>3. <<a>> \o <<b>> = <<a, b>>
    <2>1. <<a>> \o <<b>> = Append(<<a>>, b)
      BY <1>1, AppendIsConcat
    <2>2. Append(<<a>>, b) = <<a, b>>
      <3>1. Append(<<a>>, b) \in Seq({a, b}) /\ <<a, b>> \in Seq({a, b})
        BY <1>1, AppendProperties
      <3>2. Len(Append(<<a>>, b)) = 2 /\ Append(<<a>>, b)[1] = a /\ Append(<<a>>, b)[2] = b
        BY <1>1, AppendProperties
      <3> DEFINE u == Append(<<a>>, b)
                 v == <<a, b>>
      <3>3. Len(v) = 2 /\ v[1] = a /\ v[2] = b
        OBVIOUS
      <3>. HIDE DEF u, v
      <3>4. Len(u) = Len(v) /\ \A i \in 1 .. Len(u) : u[i] = v[i]
        BY <3>2, <3>3 DEF u
      <3>5. u \in Seq({a, b}) /\ v \in Seq({a, b})
        BY <3>1 DEF u, v
      <3>6. u = v
        BY <3>4, <3>5, SeqEqual
      <3>. QED BY <3>6 DEF u, v
    <2>. QED BY <2>1, <2>2
  <1>. QED BY <1>2, <1>3 DEF BackwardOps, a, b

\* The passes of a mini-batch: the policy's, and the head's when there are cycles.
LEMMA PassesSorted ==
    ASSUME NEW k \in Ranks, NEW m \in 1 .. NumMini
    PROVE  /\ Sorts(Passes(k, m), MicroBatches(m) \X DOMAIN Models(k, m))
           /\ DOMAIN Models(k, m) \subseteq {1, 2}
           /\ \A n \in DOMAIN Models(k, m) : Models(k, m)[n] = IF n = 1 THEN "policy" ELSE "head"
           /\ DOMAIN Models(k, m) = IF HeadPass(k, m) THEN {1, 2} ELSE {1}
  <1> DEFINE D == DOMAIN Models(k, m)
             M == MicroBatches(m)
  <1>1. /\ D = IF HeadPass(k, m) THEN {1, 2} ELSE {1}
        /\ \A n \in D : Models(k, m)[n] = IF n = 1 THEN "policy" ELSE "head"
    BY DEF Models
  <1>2. D \subseteq 1 .. 2 /\ M \subseteq 1 .. NumRows
    BY <1>1 DEF MicroBatches
  <1>3. IsFiniteSet(1 .. 2) /\ IsFiniteSet(1 .. NumRows)
    <2>1. NumRows \in Int /\ 1 \in Int /\ 2 \in Int
      BY RefreshAssumption
    <2>. QED BY <2>1, FS_Interval
  <1>. HIDE DEF D, M
  <1>4. IsFiniteSet(D) /\ IsFiniteSet(M)
    BY <1>2, <1>3, FS_Subset
  <1>5. IsFiniteSet(M \X D) /\ M \X D \subseteq Int \X Int
    BY <1>2, <1>4, FS_Product, RefreshAssumption
  <1>6. Sorts(Sorted(M \X D), M \X D)
    BY <1>5, PairsSorted
  <1>7. Passes(k, m) = Sorted(M \X D)
    BY Zenon DEF Passes, M, D
  <1>. QED BY <1>1, <1>6, <1>7 DEF M, D

LEMMA StepOpsType ==
    ASSUME NEW k \in Ranks, NEW m \in 1 .. NumMini
    PROVE  /\ StepOps(k, m) \in Seq(OpsIn("step")) /\ StepOps(k, m) # <<>>
           /\ StepOps(k, m)[Len(StepOps(k, m))] = <<"norm">>
           /\ Len(StepOps(k, m)) = Len(Passes(k, m)) + 1
           /\ \A n \in 1 .. Len(Passes(k, m)) :
                StepOps(k, m)[n] = <<Models(k, m)[Passes(k, m)[n][2]], m, Passes(k, m)[n][1]>>
  <1> DEFINE e == Passes(k, m)
             X == {"policy", "head"} \X (1 .. NumMini) \X (1 .. NumRows)
             w == [n \in 1 .. Len(e) |-> <<Models(k, m)[e[n][2]], m, e[n][1]>>]
  <1>1. Len(e) \in Nat /\ \A n \in 1 .. Len(e) : e[n] \in MicroBatches(m) \X DOMAIN Models(k, m)
    <2> DEFINE B == MicroBatches(m) \X DOMAIN Models(k, m)
    <2>1. Sorts(e, B)
      BY PassesSorted
    <2>. HIDE DEF e, B
    <2>2. e \in Seq(B)
      BY <2>1 DEF Sorts
    <2>3. Len(e) \in Nat /\ \A n \in 1 .. Len(e) : e[n] \in B
      BY <2>2, ElementOfSeq, LenProperties
    <2>. QED BY <2>3 DEF B
  <1>2. \A n \in 1 .. Len(e) : e[n][1] \in 1 .. NumRows /\ Models(k, m)[e[n][2]] \in {"policy", "head"}
    <2> TAKE n \in 1 .. Len(e)
    <2>1. e[n][1] \in MicroBatches(m) /\ e[n][2] \in DOMAIN Models(k, m)
      BY <1>1
    <2>2. Models(k, m)[e[n][2]] = IF e[n][2] = 1 THEN "policy" ELSE "head"
      BY <2>1, PassesSorted
    <2>. QED BY <2>1, <2>2 DEF MicroBatches
  <1>. HIDE DEF e
  <1>3. w \in [1 .. Len(e) -> X]
    BY <1>2
  <1>4. w \in Seq(X) /\ Len(w) = Len(e) /\ \A n \in 1 .. Len(e) : w[n] = <<Models(k, m)[e[n][2]], m, e[n][1]>>
    BY <1>1, <1>3, LenProperties
  <1>5. OpsIn("step") = X \union {<<"norm">>}
    BY DEF OpsIn
  <1>6. StepOps(k, m) = Append(w, <<"norm">>)
    BY DEF StepOps, e
  <1>. HIDE DEF w, X
  <1>7. /\ Append(w, <<"norm">>) \in Seq(X \union {<<"norm">>}) /\ Append(w, <<"norm">>) # <<>>
        /\ Len(Append(w, <<"norm">>)) = Len(w) + 1 /\ Append(w, <<"norm">>)[Len(w) + 1] = <<"norm">>
        /\ \A n \in 1 .. Len(w) : Append(w, <<"norm">>)[n] = w[n]
    BY <1>4, ThenOne
  <1>. QED BY <1>4, <1>5, <1>6, <1>7 DEF e

-----------------------------------------------------------------------------
(* Typing                                                                  *)

Taughts == [row : Keys, teacher : {"old", "new"}]
Entries == [case : Keys \X Nat, seen : [Ranks -> Nat]]

Probing ==
    /\ cases \in [Ranks -> Seq(Cases)]
    /\ records \in [Ranks -> Seq(Keys)]
    /\ counts \in [Ranks -> [trajectories : Nat, cycles : Nat]]
    /\ cycles \in [Ranks -> Nat]

Scoring ==
    /\ shift \in [Ranks -> [Keys -> Nat]]
    /\ selected \in [Ranks -> Seq(Keys)]
    /\ cache \in Seq(Entries)
    /\ at \in 0 .. Len(cache)

Optimizing ==
    /\ draftLr \in [Ranks -> Nat] /\ scheduledLr \in [Ranks -> Nat] /\ headLr \in [Ranks -> Nat]
    /\ policyGrad \in [Ranks -> SUBSET Keys]
    /\ headGrad \in [Ranks -> SUBSET Taughts]
    /\ policyLog \in [Ranks -> Seq(SUBSET Keys)]
    /\ headLog \in [Ranks -> Seq([lr : Nat, rows : SUBSET Taughts])]
    /\ skipped \in [Ranks -> SUBSET (0 .. NumMini)]

\* The probe's cases are of different rows, within the budget, and of the
\* rank's own rows until they are exchanged.
Budgeted(k) ==
    /\ Len(cases[k]) <= MaxCycles
    /\ \A i, j \in 1 .. Len(cases[k]) : cases[k][i].row = cases[k][j].row => cases[k][i] = cases[k][j]
    /\ pc[k] = "probe" /\ todo[k] # <<>> => \A i \in 1 .. Len(cases[k]) : cases[k][i].row[1] = k

\* What is left of a stage's collectives; that of a norm or a broadcast is last.
Follows(k) ==
    /\ pc[k] = "probe" => todo[k] \in {ProbeOps, <<<<"cases">>>>, <<>>}
    /\ pc[k] = "backward" => todo[k] \in {BackwardOps(mini[k]), <<<<"cycles", mini[k]>>>>, <<>>}
    /\ pc[k] = "refresh" => todo[k] \in {<<<<"refresh">>, <<"norm">>>>, <<<<"norm">>>>, <<>>}
    /\ pc[k] = "step" /\ todo[k] # <<>> => todo[k][Len(todo[k])] = <<"norm">>
    /\ pc[k] = "score" /\ todo[k] # <<>> => todo[k][Len(todo[k])] = <<"broadcast">>

TypeInv ==
    /\ Control /\ Probing /\ Scoring /\ Optimizing
    /\ \A k \in Ranks : Budgeted(k) /\ Follows(k)

LEMMA ShortLists ==
    ASSUME NEW S, NEW a \in S, NEW b \in S
    PROVE  <<>> \in Seq(S) /\ <<a>> \in Seq(S) /\ <<a, b>> \in Seq(S)
  OBVIOUS

LEMMA TypeInit == Init => TypeInv
  <1> SUFFICES ASSUME Init PROVE TypeInv
    OBVIOUS
  <1>1. Control
    <2>1. /\ mode \in Modes /\ batch \in [Keys -> Kinds] /\ pc \in [Ranks -> Stages]
          /\ mini \in [Ranks -> 0 .. NumMini] /\ DOMAIN todo = Ranks
      BY RefreshAssumption DEF Init, Stages
    <2>2. \A k \in Ranks : todo[k] = <<>> /\ pc[k] = "begin" /\ mini[k] = 0
      BY DEF Init
    <2>3. ASSUME NEW k \in Ranks PROVE todo[k] \in Seq(OpsIn(pc[k])) /\ Shape(k)
      <3>1. Shape(k)
        BY <2>2 DEF Shape, Prologue, Epilogue
      <3>2. <<>> \in Seq(OpsIn(pc[k]))
        OBVIOUS
      <3>3. todo[k] \in Seq(OpsIn(pc[k]))
        BY <2>2, <3>2
      <3>. QED BY <3>1, <3>3
    <2>. QED BY <2>1, <2>3 DEF Control
  <1>2. Probing /\ Scoring
    BY DEF Init, Probing, Scoring
  <1>3. Optimizing
    BY RefreshAssumption DEF Init, Optimizing
  <1>4. \A k \in Ranks : Budgeted(k) /\ Follows(k)
    BY RefreshAssumption DEF Init, Budgeted, Follows
  <1>. QED BY <1>1, <1>2, <1>3, <1>4 DEF TypeInv

\* Every step of a rank of its own leads to a stage with collectives of that stage.
LEMMA LocalControl ==
    ASSUME Control, Probing, Scoring, NEW k \in Ranks, Local(k)
    PROVE  Control'
  <1>1. /\ mode \in Modes /\ batch \in [Keys -> Kinds] /\ pc[k] \in Stages /\ mini[k] \in 0 .. NumMini
        /\ pc \in [Ranks -> Stages] /\ Shape(k) /\ NumMini \in Nat \ {0}
        /\ Modes \subseteq {"plain", "probe", "refresh"}
        /\ cases[k] \in Seq(Cases) /\ records[k] \in Seq(Keys) /\ selected[k] \in Seq(Keys)
        /\ shift[k] \in [Keys -> Nat] /\ mini \in [Ranks -> 0 .. NumMini]
    BY RefreshAssumption DEF Control, Probing, Scoring
  <1>2. CASE CaptureProbe(k)
    <2>1. Goto(k, "begin", "probe", ProbeOps) /\ UNCHANGED <<mode, batch, mini>> /\ mode # "plain"
      BY <1>2 DEF CaptureProbe, ProbeOps
    <2>2. ProbeOps \in Seq(OpsIn("probe"))
      BY DEF ProbeOps, OpsIn
    <2>3. Shape(k)'
      BY <1>1, <2>1 DEF Goto, Shape, Prologue, Epilogue
    <2>. QED BY <1>1, <2>1, <2>2, <2>3, GotoControl DEF Stages
  <1>3. CASE EvaluateOld(k)
    <2>1. Goto(k, "probe", "gather", GatherOps(k)) /\ UNCHANGED <<mode, batch, mini>>
      BY <1>3 DEF EvaluateOld, GatherOps
    <2>2. GatherOps(k) \in Seq(OpsIn("gather"))
      BY <1>1, GatherOpsType
    <2>3. Shape(k)'
      BY <1>1, <2>1 DEF Goto, Shape, Prologue, Epilogue
    <2>. QED BY <1>1, <2>1, <2>2, <2>3, GotoControl DEF Stages
  <1>4. CASE CaptureShift(k)
    <2>1. Goto(k, "gather", "loop", LoopOps(k)) /\ UNCHANGED <<mode, batch, mini>>
      BY <1>4 DEF CaptureShift, LoopOps
    <2>2. LoopOps(k) \in Seq(OpsIn("loop"))
      BY <1>1, LoopOpsType
    <2>3. Shape(k)'
      BY <1>1, <2>1 DEF Goto, Shape, Prologue, Epilogue
    <2>. QED BY <1>1, <2>1, <2>2, <2>3, GotoControl DEF Stages
  <1>5. CASE SkipProbe(k)
    <2>1. Goto(k, "begin", "loop", <<>>) /\ UNCHANGED <<mode, batch, mini>>
      BY <1>5 DEF SkipProbe
    <2>2. <<>> \in Seq(OpsIn("loop"))
      OBVIOUS
    <2>3. Shape(k)'
      BY <1>1, <2>1 DEF Goto, Shape, Prologue, Epilogue
    <2>. QED BY <1>1, <2>1, <2>2, <2>3, GotoControl DEF Stages
  <1>6. CASE TrainBatch(k)
    <2> DEFINE m == mini[k] + 1
    <2>1. /\ Goto(k, "loop", "backward", BackwardOps(m)) /\ UNCHANGED <<mode, batch>>
          /\ m <= NumMini /\ mini' = [mini EXCEPT ![k] = m]
      BY <1>6 DEF TrainBatch, BackwardOps
    <2>2. m \in 1 .. NumMini
      BY <1>1, <2>1
    <2>3. BackwardOps(m) \in Seq(OpsIn("backward"))
      <3>1. OpsIn("backward") = {"tokens", "cycles"} \X (1 .. NumMini)
        BY DEF OpsIn
      <3>2. <<"tokens", m>> \in OpsIn("backward") /\ <<"cycles", m>> \in OpsIn("backward")
        BY <2>2, <3>1
      <3>. HIDE DEF m
      <3>3. <<<<"tokens", m>>>> \in Seq(OpsIn("backward"))
        BY <3>2, ShortLists
      <3>4. <<<<"tokens", m>>, <<"cycles", m>>>> \in Seq(OpsIn("backward"))
        BY <3>2, ShortLists
      <3>. QED BY <3>3, <3>4, BackwardOpsAre
    <2>4. mini' \in [Ranks -> 0 .. NumMini] /\ \A j \in Ranks : j # k => mini'[j] = mini[j]
      BY <1>1, <2>1, <2>2
    <2>5. Shape(k)'
      BY <1>1, <2>1, <2>2 DEF Goto, Shape, Prologue, Epilogue
    <2>. HIDE DEF m
    <2>. QED BY <2>1, <2>3, <2>4, <2>5, GotoControl DEF Stages
  <1>7. CASE ForwardBackward(k)
    <2>1. Goto(k, "backward", "step", StepOps(k, mini[k])) /\ UNCHANGED <<mode, batch, mini>>
      BY <1>7, Zenon DEF ForwardBackward, StepOps, Passes, Models
    <2>2. mini[k] \in 1 .. NumMini
      BY <1>1, <2>1 DEF Goto, Shape
    <2>3. StepOps(k, mini[k]) \in Seq(OpsIn("step"))
      BY <2>2, StepOpsType
    <2>4. Shape(k)'
      BY <1>1, <2>1, <2>2 DEF Goto, Shape, Prologue, Epilogue
    <2>. QED BY <1>1, <2>1, <2>3, <2>4, GotoControl DEF Stages
  <1>8. CASE EndBatch(k)
    <2>1. Goto(k, "step", "loop", <<>>) /\ UNCHANGED <<mode, batch, mini>>
      BY <1>8 DEF EndBatch
    <2>2. <<>> \in Seq(OpsIn("loop"))
      OBVIOUS
    <2>3. Shape(k)'
      BY <1>1, <2>1 DEF Goto, Shape, Prologue, Epilogue
    <2>. QED BY <1>1, <2>1, <2>2, <2>3, GotoControl DEF Stages
  <1>9. CASE ScoreShift(k)
    <2>1. /\ Goto(k, "loop", "score", ScoreOps(k)) /\ UNCHANGED <<mode, batch, mini>>
          /\ Deferred /\ mini[k] = NumMini
      BY <1>9 DEF ScoreShift, ScoreOps
    <2>2. ScoreOps(k) \in Seq(OpsIn("score"))
      BY <1>1, LoopOpsType
    <2>3. Shape(k)'
      BY <1>1, <2>1 DEF Goto, Shape, Prologue, Epilogue, Deferred
    <2>. QED BY <1>1, <2>1, <2>2, <2>3, GotoControl DEF Stages
  <1>10. CASE MixedTeacherBatch(k)
    <2> DEFINE q == selected'[k]
               ops == Forwards("teacher", RecordCases(q, Keys))
    <2>1. /\ Goto(k, "score", "teacher", ops)
          /\ UNCHANGED <<mode, batch, mini>>
          /\ selected' = [selected EXCEPT ![k] = SelectTrajectories(k)]
      BY <1>10 DEF MixedTeacherBatch
    <2>2. q \in Seq(Keys)
      BY <1>1, <2>1, SelectType DEF Scoring
    <2>3. ops \in Seq(OpsIn("teacher"))
      BY <1>1, <2>2, TeacherOpsType
    <2>4. Shape(k)'
      BY <1>1, <2>1 DEF Goto, Shape, Prologue, Epilogue, Deferred
    <2>. HIDE DEF ops
    <2>. QED BY <1>1, <2>1, <2>3, <2>4, GotoControl DEF Stages
  <1>11. CASE RefreshDraftTeacher(k)
    <2>1. Goto(k, "teacher", "refresh", RefreshOps(k)) /\ UNCHANGED <<mode, batch, mini>>
      BY <1>11 DEF RefreshDraftTeacher, RefreshOps
    <2>2. RefreshOps(k) \in Seq(OpsIn("refresh"))
      <3>1. <<"refresh">> \in OpsIn("refresh") /\ <<"norm">> \in OpsIn("refresh")
        BY DEF OpsIn
      <3>. QED BY <3>1, ShortLists DEF RefreshOps
    <2>3. Shape(k)'
      BY <1>1, <2>1 DEF Goto, Shape, Prologue, Epilogue, Deferred
    <2>. QED BY <1>1, <2>1, <2>2, <2>3, GotoControl DEF Stages
  <1>12. CASE RestoreRate(k)
    <2>1. Goto(k, "refresh", "new", NewOps(k)) /\ UNCHANGED <<mode, batch, mini>>
      BY <1>12 DEF RestoreRate, NewOps
    <2>2. NewOps(k) \in Seq(OpsIn("new"))
      BY <1>1, NewOpsType
    <2>3. Shape(k)'
      BY <1>1, <2>1 DEF Goto, Shape, Prologue, Epilogue, Deferred
    <2>. QED BY <1>1, <2>1, <2>2, <2>3, GotoControl DEF Stages
  <1>13. CASE EvaluateNew(k)
    <2>1. /\ Goto(k, "loop", "new", NewOps(k)) /\ UNCHANGED <<mode, batch, mini>>
          /\ mode = "probe" /\ mini[k] = NumMini
      BY <1>13 DEF EvaluateNew, NewOps
    <2>2. NewOps(k) \in Seq(OpsIn("new"))
      BY <1>1, NewOpsType
    <2>3. Shape(k)'
      BY <1>1, <2>1 DEF Goto, Shape, Prologue, Epilogue, Deferred
    <2>. QED BY <1>1, <2>1, <2>2, <2>3, GotoControl DEF Stages
  <1>14. CASE ReduceDurations(k)
    <2> DEFINE from == IF mode = "plain" THEN "loop" ELSE "new"
    <2>1. /\ Goto(k, from, "durations", DurationsOps)
          /\ UNCHANGED <<mode, batch, mini>> /\ mini[k] = NumMini
      BY <1>14 DEF ReduceDurations, DurationsOps
    <2>2. DurationsOps \in Seq(OpsIn("durations"))
      BY DEF DurationsOps, OpsIn
    <2>3. Shape(k)'
      BY <1>1, <2>1 DEF Goto, Shape, Prologue, Epilogue, Deferred
    <2>. HIDE DEF from
    <2>. QED BY <1>1, <2>1, <2>2, <2>3, GotoControl DEF Stages
  <1>15. CASE Return(k)
    <2>1. Goto(k, "durations", "done", <<>>) /\ UNCHANGED <<mode, batch, mini>>
      BY <1>15 DEF Return
    <2>2. <<>> \in Seq(OpsIn("done"))
      OBVIOUS
    <2>3. Shape(k)'
      BY <1>1, <2>1 DEF Goto, Shape, Prologue, Epilogue, Deferred
    <2>. QED BY <1>1, <2>1, <2>2, <2>3, GotoControl DEF Stages
  <1>. QED BY <1>2, <1>3, <1>4, <1>5, <1>6, <1>7, <1>8, <1>9, <1>10, <1>11, <1>12, <1>13, <1>14,
              <1>15 DEF Local

\* What each step of a rank of its own leaves alone.
LEMMA LocalFrame ==
    ASSUME NEW k \in Ranks, Local(k)
    PROVE  /\ UNCHANGED <<mode, batch, records, counts, shift, cache, policyLog, headLog, skipped>>
           /\ CaptureProbe(k) \/ cases' = cases
           /\ TrainBatch(k) \/ UNCHANGED <<cycles, mini>>
           /\ MixedTeacherBatch(k) \/ selected' = selected
           /\ ScoreShift(k) \/ at' = at
           /\ CaptureShift(k) \/ draftLr' = draftLr
           /\ EndBatch(k) \/ RefreshDraftTeacher(k) \/ RestoreRate(k) \/ headLr' = headLr
           /\ RefreshDraftTeacher(k) \/ scheduledLr' = scheduledLr
           /\ \/ TrainBatch(k) \/ RefreshDraftTeacher(k) \/ RestoreRate(k)
              \/ UNCHANGED <<policyGrad, headGrad>>
  BY DEF Local, CaptureProbe, EvaluateOld, CaptureShift, SkipProbe, TrainBatch, ForwardBackward,
         EndBatch, ScoreShift, MixedTeacherBatch, RefreshDraftTeacher, RestoreRate, EvaluateNew,
         ReduceDurations, Return, control, probing, scoring, optimizer

\* And that it moves nobody else.
LEMMA LocalMoves ==
    ASSUME NEW k \in Ranks, Local(k)
    PROVE  \E from, to, ops : Goto(k, from, to, ops)
  BY DEF Local, CaptureProbe, EvaluateOld, CaptureShift, SkipProbe, TrainBatch, ForwardBackward,
         EndBatch, ScoreShift, MixedTeacherBatch, RefreshDraftTeacher, RestoreRate, EvaluateNew,
         ReduceDurations, Return

\* The cases a rank proposes for the probe are of its own rows.
LEMMA ProbeCases ==
    ASSUME Control, NEW k \in Ranks, Probing, CaptureProbe(k)
    PROVE  /\ cases' \in [Ranks -> Seq(Cases)]
           /\ Len(cases'[k]) <= MaxCycles
           /\ \A i \in 1 .. Len(cases'[k]) : cases'[k][i].row[1] = k
           /\ \A i, j \in 1 .. Len(cases'[k]) :
                cases'[k][i].row = cases'[k][j].row => cases'[k][i] = cases'[k][j]
           /\ \A j \in Ranks : j # k => cases'[j] = cases[j]
  <1> DEFINE rows == {r \in LocalRecords(k) : batch[r].fit > 0}
  <1>1. PICK c \in [rows -> UNION {1 .. batch[r].fit : r \in rows}], p \in [rows -> Priorities] :
             cases' = [cases EXCEPT ![k] =
                   Largest({[row |-> r, cycle |-> c[r], priority |-> p[r]] : r \in rows})]
    BY DEF CaptureProbe
  <1> DEFINE f == [r \in rows |-> [row |-> r, cycle |-> c[r], priority |-> p[r]]]
             S == {[row |-> r, cycle |-> c[r], priority |-> p[r]] : r \in rows}
             q == Largest(S)
  <1>2. rows \subseteq Keys /\ \A r \in rows : r[1] = k
    BY DEF LocalRecords, Recorded
  <1>3. \A r \in rows : c[r] \in Nat /\ p[r] \in Nat
    <2>1. \A r \in rows : batch[r].fit \in Nat
      BY <1>2, RefreshAssumption DEF Control
    <2>. HIDE DEF rows
    <2>2. UNION {1 .. batch[r].fit : r \in rows} \subseteq Nat
      BY <2>1
    <2>. QED BY <2>2, RefreshAssumption
  <1>. HIDE DEF rows
  <1>4. S \subseteq Cases
    BY <1>2, <1>3 DEF Cases
  <1>5. \A x \in S : x.row[1] = k
    BY <1>2
  <1>6. \A x, y \in S : x.row = y.row => x = y
    OBVIOUS
  <1>7. IsFiniteSet(S)
    <2>1. IsFiniteSet(rows)
      BY <1>2, KeysFinite, FS_Subset
    <2>2. S = {f[r] : r \in rows}
      OBVIOUS
    <2>. HIDE DEF f
    <2>3. IsFiniteSet({f[r] : r \in rows})
      BY <2>1, ImageFinite
    <2>. QED BY <2>2, <2>3, Zenon
  <1>8. cases' = [cases EXCEPT ![k] = q]
    BY <1>1, Zenon
  <1>. HIDE DEF S
  <1>9. q \in Seq(S) /\ Len(q) <= MaxCycles
    BY <1>4, <1>6, <1>7, LargestType
  <1>10. \A i \in 1 .. Len(q) : q[i] \in S
    BY <1>9, ElementOfSeq
  <1>11. q \in Seq(Cases)
    BY <1>4, <1>9, SeqMonotonic
  <1>. HIDE DEF q
  <1>12. cases'[k] = q /\ \A j \in Ranks : j # k => cases'[j] = cases[j]
    BY <1>8 DEF Probing
  <1>. QED BY <1>5, <1>6, <1>8, <1>9, <1>10, <1>11, <1>12 DEF Probing

LEMMA LocalFollows ==
    ASSUME Control, Probing, Scoring, NEW k \in Ranks, Local(k), \A j \in Ranks : Follows(j)
    PROVE  \A j \in Ranks : Follows(j)'
  <1>1. ASSUME NEW j \in Ranks, j # k PROVE Follows(j)'
    <2>1. pc'[j] = pc[j] /\ todo'[j] = todo[j]
      BY <1>1, LocalMoves DEF Goto, Control
    <2>2. mini'[j] = mini[j] /\ mode' = mode
      <3>1. CASE TrainBatch(k)
        BY <1>1, <3>1 DEF TrainBatch, Control
      <3>. QED BY <3>1, LocalFrame
    <2>. QED BY <2>1, <2>2 DEF Follows, BackwardOps, Deferred
  <1>2. Follows(k)'
    <2>1. CASE CaptureProbe(k)
      <3>1. pc'[k] = "probe" /\ todo'[k] = ProbeOps
        BY <2>1 DEF CaptureProbe, Goto, Control, ProbeOps
      <3>. QED BY <3>1 DEF Follows
    <2>2. CASE TrainBatch(k)
      <3>1. pc'[k] = "backward" /\ todo'[k] = BackwardOps(mini'[k]) /\ mode' = mode
        BY <2>2 DEF TrainBatch, Goto, Control, BackwardOps
      <3>2. todo'[k] = BackwardOps(mini[k])'
        BY <3>1 DEF BackwardOps, Deferred
      <3>. QED BY <3>1, <3>2 DEF Follows
    <2>3. CASE ForwardBackward(k)
      <3>1. Goto(k, "backward", "step", StepOps(k, mini[k]))
        BY <2>3, Zenon DEF ForwardBackward, StepOps, Passes, Models
      <3>2. pc'[k] = "step" /\ todo'[k] = StepOps(k, mini[k])
        BY <3>1 DEF Goto, Control
      <3>3. mini[k] \in 1 .. NumMini
        BY <3>1, RefreshAssumption DEF Goto, Control, Shape
      <3>4. StepOps(k, mini[k])[Len(StepOps(k, mini[k]))] = <<"norm">>
        BY <3>3, StepOpsType
      <3>. QED BY <3>2, <3>4 DEF Follows
    <2>4. CASE ScoreShift(k)
      <3>1. pc'[k] = "score" /\ todo'[k] = ScoreOps(k)
        BY <2>4 DEF ScoreShift, Goto, Control, ScoreOps
      <3>2. ScoreOps(k)[Len(ScoreOps(k))] = <<"broadcast">>
        BY LoopOpsType DEF Control, Probing
      <3>. QED BY <3>1, <3>2 DEF Follows
    <2>5. CASE RefreshDraftTeacher(k)
      <3>1. pc'[k] = "refresh" /\ todo'[k] = RefreshOps(k)
        BY <2>5 DEF RefreshDraftTeacher, Goto, Control, RefreshOps
      <3>. QED BY <3>1 DEF Follows, RefreshOps
    <2>6. CASE ~(CaptureProbe(k) \/ TrainBatch(k) \/ ForwardBackward(k) \/ ScoreShift(k)
                 \/ RefreshDraftTeacher(k))
      <3>1. pc'[k] \notin {"probe", "backward", "step", "score", "refresh"}
        BY <2>6 DEF Local, EvaluateOld, CaptureShift, SkipProbe, EndBatch, MixedTeacherBatch,
               RestoreRate, EvaluateNew, ReduceDurations, Return, Goto, Control
      <3>. QED BY <3>1 DEF Follows
    <2>. QED BY <2>1, <2>2, <2>3, <2>4, <2>5, <2>6
  <1>. QED BY <1>1, <1>2

LEMMA LocalType ==
    ASSUME TypeInv, NEW k \in Ranks, Local(k)
    PROVE  TypeInv'
  <1>1. Control'
    BY LocalControl DEF TypeInv
  <1>2. Probing'
    <2>1. cases' \in [Ranks -> Seq(Cases)]
      BY LocalFrame, ProbeCases DEF TypeInv, Probing
    <2>2. cycles' \in [Ranks -> Nat]
      <3>1. CASE TrainBatch(k)
        <4>1. cycles' = [cycles EXCEPT ![k] = 0]
          BY <3>1 DEF TrainBatch
        <4>. QED BY <4>1 DEF TypeInv, Probing
      <3>. QED BY <3>1, LocalFrame DEF TypeInv, Probing
    <2>. QED BY <2>1, <2>2, LocalFrame DEF TypeInv, Probing
  <1>3. Scoring'
    <2>1. selected' \in [Ranks -> Seq(Keys)]
      <3>1. CASE MixedTeacherBatch(k)
        <4>1. SelectTrajectories(k) \in Seq(Keys)
          BY SelectType DEF TypeInv, Control, Probing, Scoring
        <4>. QED BY <3>1, <4>1 DEF MixedTeacherBatch, TypeInv, Scoring
      <3>. QED BY <3>1, LocalFrame DEF TypeInv, Scoring
    <2>2. at' \in 0 .. Len(cache)
      <3>1. Len(cache) \in Nat
        BY LenProperties DEF TypeInv, Scoring
      <3>. QED BY <3>1, LocalFrame DEF TypeInv, Scoring, ScoreShift
    <2>. QED BY <2>1, <2>2, LocalFrame DEF TypeInv, Scoring
  <1>4. Optimizing'
    <2>1. draftLr' \in [Ranks -> Nat] /\ scheduledLr' \in [Ranks -> Nat]
      BY LocalFrame DEF TypeInv, Optimizing, CaptureShift, RefreshDraftTeacher
    <2>2. headLr' \in [Ranks -> Nat]
      <3>1. CASE EndBatch(k)
        BY <3>1 DEF TypeInv, Optimizing, EndBatch
      <3>2. CASE RefreshDraftTeacher(k)
        BY <3>2 DEF TypeInv, Optimizing, RefreshDraftTeacher
      <3>3. CASE RestoreRate(k)
        BY <3>3 DEF TypeInv, Optimizing, RestoreRate
      <3>. QED BY <3>1, <3>2, <3>3, LocalFrame DEF TypeInv, Optimizing
    <2>3. policyGrad' \in [Ranks -> SUBSET Keys] /\ headGrad' \in [Ranks -> SUBSET Taughts]
      BY LocalFrame DEF TypeInv, Optimizing, TrainBatch, RefreshDraftTeacher, RestoreRate
    <2>. QED BY <2>1, <2>2, <2>3, LocalFrame DEF TypeInv, Optimizing
  <1>5. ASSUME NEW j \in Ranks PROVE Budgeted(j)'
    <2>1. CASE CaptureProbe(k) /\ j = k
      BY <2>1, ProbeCases DEF TypeInv, Budgeted
    <2>2. CASE CaptureProbe(k) /\ j # k
      <3>1. cases'[j] = cases[j] /\ pc'[j] = pc[j] /\ todo'[j] = todo[j]
        BY <2>2, ProbeCases DEF TypeInv, CaptureProbe, Goto, Control
      <3>. QED BY <3>1 DEF TypeInv, Budgeted
    <2>3. CASE ~CaptureProbe(k)
      <3>1. cases' = cases
        BY <2>3, LocalFrame
      <3>2. CASE j # k
        <4>1. pc'[j] = pc[j] /\ todo'[j] = todo[j]
          BY <3>2, LocalMoves DEF TypeInv, Goto, Control
        <4>. QED BY <3>1, <4>1 DEF TypeInv, Budgeted
      <3>3. CASE j = k
        <4>1. pc'[k] # "probe"
          BY <2>3 DEF Local, CaptureProbe, EvaluateOld, CaptureShift, SkipProbe, TrainBatch,
                 ForwardBackward, EndBatch, ScoreShift, MixedTeacherBatch, RefreshDraftTeacher,
                 RestoreRate, EvaluateNew, ReduceDurations, Return, Goto, TypeInv, Control
        <4>. QED BY <3>1, <3>3, <4>1 DEF TypeInv, Budgeted
      <3>. QED BY <3>2, <3>3
    <2>. QED BY <2>1, <2>2, <2>3
  <1>6. ASSUME NEW j \in Ranks PROVE Follows(j)'
    BY LocalFollows DEF TypeInv
  <1>. QED BY <1>1, <1>2, <1>3, <1>4, <1>5, <1>6 DEF TypeInv

\* A collective that every rank has entered belongs to every rank's stage.
LEMMA AllWaiting ==
    ASSUME Control, NEW op, Entered(op)
    PROVE  \A k \in Ranks : todo[k] # <<>> /\ Head(todo[k]) = op /\ op[1] \in TagsIn(pc[k])
                            /\ pc[k] \in Stages \ {"begin", "done", "raised"}
  <1> TAKE k \in Ranks
  <1>1. todo[k] # <<>> /\ Head(todo[k]) = op
    BY DEF Entered
  <1>2. op[1] \in TagsIn(pc[k]) /\ pc[k] \in Stages
    BY <1>1, Waiting
  <1>. QED BY <1>1, <1>2 DEF TagsIn

\* The rest of a short list.
LEMMA Rest ==
    ASSUME NEW a, NEW b
    PROVE  /\ Head(<<a>>) = a /\ Tail(<<a>>) = <<>>
           /\ Head(<<a, b>>) = a /\ Tail(<<a, b>>) = <<b>>
  OBVIOUS

LEMMA CompleteFollows ==
    ASSUME Control, NEW op, Complete(op), pc' = pc, NEW k \in Ranks, Follows(k)
    PROVE  Follows(k)'
  <1>1. todo'[k] = Tail(todo[k]) /\ todo[k] # <<>> /\ mini' = mini /\ mode' = mode
    BY DEF Complete, Entered
  <1>2. CASE pc[k] = "probe"
    <2>1. todo'[k] \in {<<<<"cases">>>>, <<>>}
      <3>1. Tail(ProbeOps) = <<<<"cases">>>> /\ Tail(<<<<"cases">>>>) = <<>>
        BY Rest, Zenon DEF ProbeOps
      <3>2. todo[k] \in {ProbeOps, <<<<"cases">>>>}
        BY <1>1, <1>2 DEF Follows
      <3>. QED BY <1>1, <3>1, <3>2
    <2>. QED BY <1>2, <2>1 DEF Follows
  <1>3. CASE pc[k] = "backward"
    <2> DEFINE m == mini[k]
    <2>1. todo[k] \in {<<<<"tokens", m>>>>, <<<<"tokens", m>>, <<"cycles", m>>>>, <<<<"cycles", m>>>>}
      BY <1>1, <1>3, BackwardOpsAre DEF Follows
    <2>2. todo'[k] \in {<<<<"cycles", m>>>>, <<>>}
      <3>1. /\ Tail(<<<<"tokens", m>>>>) = <<>> /\ Tail(<<<<"cycles", m>>>>) = <<>>
            /\ Tail(<<<<"tokens", m>>, <<"cycles", m>>>>) = <<<<"cycles", m>>>>
        BY Rest, Zenon
      <3>. QED BY <1>1, <2>1, <3>1, Zenon
    <2>. QED BY <1>1, <1>3, <2>2 DEF Follows
  <1>4. CASE pc[k] = "refresh"
    <2>1. todo'[k] \in {<<<<"norm">>>>, <<>>}
      <3>1. Tail(<<<<"refresh">>, <<"norm">>>>) = <<<<"norm">>>> /\ Tail(<<<<"norm">>>>) = <<>>
        BY Rest, Zenon
      <3>2. todo[k] \in {<<<<"refresh">>, <<"norm">>>>, <<<<"norm">>>>}
        BY <1>1, <1>4 DEF Follows
      <3>. QED BY <1>1, <3>1, <3>2
    <2>. QED BY <1>4, <2>1 DEF Follows
  <1>5. CASE pc[k] \in {"step", "score"}
    <2> DEFINE q == todo[k]
               n == Len(q)
    <2>1. q \in Seq(OpsIn(pc[k])) /\ q # <<>>
      BY <1>1 DEF Control
    <2>2. /\ Tail(q) \in Seq(OpsIn(pc[k])) /\ Len(Tail(q)) = n - 1 /\ n \in Nat \ {0}
          /\ \A i \in 1 .. n - 1 : Tail(q)[i] = q[i + 1]
      BY <2>1, HeadTail
    <2>3. Tail(q) # <<>> => Len(Tail(q)) # 0
      BY <2>2, EmptySeq
    <2>4. Tail(q) # <<>> => Tail(q)[Len(Tail(q))] = q[n]
      BY <2>2, <2>3
    <2>. QED BY <1>1, <1>5, <2>4 DEF Follows
  <1>. QED BY <1>2, <1>3, <1>4, <1>5 DEF Follows

LEMMA CompleteBudgeted ==
    ASSUME Control, NEW op, Complete(op), pc' = pc, cases' = cases, NEW k \in Ranks, Budgeted(k)
    PROVE  Budgeted(k)'
  BY DEF Budgeted, Complete, Entered

\* The exchanged cases.
LEMMA ExchangedCases ==
    ASSUME TypeInv, SynchronizedCases
    PROVE  /\ cases' \in [Ranks -> Seq(Cases)]
           /\ \A k \in Ranks : Len(cases'[k]) <= MaxCycles /\ cases'[k] = cases'[0]
           /\ \A k \in Ranks : \A i, j \in 1 .. Len(cases'[k]) :
                cases'[k][i].row = cases'[k][j].row => cases'[k][i] = cases'[k][j]
           /\ \A k \in Ranks : pc[k] = "probe" /\ todo'[k] = <<>>
  <1> DEFINE f == [k \in Ranks |-> ToSet(cases[k])]
             S == UNION {ToSet(cases[k]) : k \in Ranks}
             q == Largest(S)
  <1>1. Entered(<<"cases">>) /\ \A k \in Ranks : todo'[k] = Tail(todo[k])
    BY DEF SynchronizedCases, Complete
  <1>2. ASSUME NEW k \in Ranks PROVE pc[k] = "probe" /\ todo[k] = <<<<"cases">>>>
    <2>1. todo[k] # <<>> /\ Head(todo[k]) = <<"cases">> /\ "cases" \in TagsIn(pc[k]) /\ pc[k] \in Stages
      BY <1>1, AllWaiting DEF TypeInv
    <2>2. pc[k] = "probe"
      BY <2>1 DEF TagsIn, Stages
    <2>3. Head(ProbeOps) = <<"coverage">> /\ <<"coverage">> # <<"cases">>
      BY DEF ProbeOps
    <2>. QED BY <2>1, <2>2, <2>3 DEF TypeInv, Follows
  <1>3. ASSUME NEW k \in Ranks PROVE todo'[k] = <<>>
    BY <1>1, <1>2, Rest
  <1>4. ASSUME NEW k \in Ranks
        PROVE  /\ cases[k] \in Seq(Cases) /\ Len(cases[k]) \in Nat
               /\ ToSet(cases[k]) = {cases[k][i] : i \in 1 .. Len(cases[k])}
               /\ \A i \in 1 .. Len(cases[k]) : cases[k][i] \in Cases
    <2>1. cases[k] \in Seq(Cases)
      BY DEF TypeInv, Probing
    <2>. QED BY <2>1, LenProperties, ElementOfSeq DEF ToSet
  <1>14. ASSUME NEW k \in Ranks, NEW x \in ToSet(cases[k])
         PROVE  x \in Cases /\ \E i \in 1 .. Len(cases[k]) : x = cases[k][i]
    <2>1. ToSet(cases[k]) = {cases[k][i] : i \in 1 .. Len(cases[k])}
      BY <1>4
    <2>2. PICK i \in 1 .. Len(cases[k]) : x = cases[k][i]
      BY <2>1
    <2>. QED BY <1>4, <2>2
  <1>5. S \subseteq Cases
    BY <1>14
  <1>6. ASSUME NEW k \in Ranks, NEW x \in ToSet(cases[k]), NEW y \in ToSet(cases[k]), x.row = y.row
        PROVE  x = y
    <2>1. PICK i \in 1 .. Len(cases[k]) : x = cases[k][i]
      BY <1>14
    <2>2. PICK j \in 1 .. Len(cases[k]) : y = cases[k][j]
      BY <1>14
    <2>. QED BY <1>6, <2>1, <2>2 DEF TypeInv, Budgeted
  <1>7. ASSUME NEW k \in Ranks, NEW x \in ToSet(cases[k]) PROVE x.row[1] = k
    <2>1. PICK i \in 1 .. Len(cases[k]) : x = cases[k][i]
      BY <1>14
    <2>2. pc[k] = "probe" /\ todo[k] # <<>>
      BY <1>2
    <2>. QED BY <2>1, <2>2 DEF TypeInv, Budgeted
  <1>8. \A x, y \in S : x.row = y.row => x = y
    BY <1>6, <1>7
  <1>9. IsFiniteSet(S)
    <2>1. ASSUME NEW k \in Ranks PROVE IsFiniteSet(f[k])
      <3> DEFINE n == Len(cases[k])
                 I == 1 .. n
                 g == cases[k]
      <3>0. n \in Int
        BY <1>4
      <3>1. n \in Int /\ f[k] = {g[i] : i \in I}
        BY <1>4, <3>0
      <3>2. IsFiniteSet(I)
        BY <3>1, FS_Interval
      <3>. HIDE DEF I, g
      <3>3. IsFiniteSet({g[i] : i \in I})
        BY <3>2, ImageFinite
      <3>. QED BY <3>1, <3>3, Zenon
    <2>2. IsFiniteSet(Ranks)
      <3>1. NumRanks - 1 \in Int
        BY RefreshAssumption
      <3>. QED BY <3>1, FS_Interval DEF Ranks
    <2>3. S = UNION {f[k] : k \in Ranks}
      OBVIOUS
    <2>. HIDE DEF f
    <2>4. IsFiniteSet(UNION {f[k] : k \in Ranks})
      BY <2>1, <2>2, UnionFinite
    <2>. QED BY <2>3, <2>4, Zenon
  <1>10. cases' = [k \in Ranks |-> q]
    BY DEF SynchronizedCases
  <1>. HIDE DEF S
  <1>11. q \in Seq(S) /\ Len(q) <= MaxCycles
    BY <1>5, <1>8, <1>9, LargestType
  <1>12. \A i \in 1 .. Len(q) : q[i] \in S
    BY <1>11, ElementOfSeq
  <1>13. q \in Seq(Cases)
    BY <1>5, <1>11, SeqMonotonic
  <1>. HIDE DEF q
  <1>. QED BY <1>2, <1>3, <1>8, <1>10, <1>11, <1>12, <1>13, KeysFinite

\* The cycles of a set of rows can be counted; there are none exactly when no
\* row has one.
LEMMA CyclesCounted ==
    ASSUME batch \in [Keys -> Kinds], NEW rows \in SUBSET Keys
    PROVE  Cycles(rows) \in Nat /\ (Cycles(rows) = 0 <=> \A r \in rows : batch[r].cycles = 0)
  <1> DEFINE f == [r \in rows |-> {r} \X (1 .. batch[r].cycles)]
             S == CyclesOf(rows)
  <1>1. \A r \in rows : batch[r].cycles \in Nat
    BY RefreshAssumption
  <1>2. ASSUME NEW r \in rows PROVE IsFiniteSet(f[r])
    <2> DEFINE b == batch[r].cycles
    <2>1. b \in Int
      BY <1>1
    <2>. HIDE DEF b
    <2>2. IsFiniteSet(1 .. b)
      BY <2>1, FS_Interval
    <2>4. IsFiniteSet({r})
      BY FS_Singleton
    <2>3. IsFiniteSet({r} \X (1 .. b))
      BY <2>2, <2>4, FS_Product
    <2>. QED BY <2>3 DEF b
  <1>3. S = UNION {f[r] : r \in rows}
    BY DEF CyclesOf
  <1>4. IsFiniteSet(rows)
    BY KeysFinite, FS_Subset
  <1>. HIDE DEF f
  <1>5. IsFiniteSet(UNION {f[r] : r \in rows})
    BY <1>2, <1>4, UnionFinite
  <1>6. IsFiniteSet(S)
    BY <1>3, <1>5, Zenon
  <1>7. S = {} <=> \A r \in rows : batch[r].cycles = 0
    <2>1. ASSUME NEW r \in rows, batch[r].cycles # 0 PROVE S # {}
      <3>1. <<r, 1>> \in {r} \X (1 .. batch[r].cycles)
        BY <1>1, <2>1
      <3>. QED BY <3>1 DEF CyclesOf
    <2>2. ASSUME NEW x \in S PROVE \E r \in rows : batch[r].cycles # 0
      <3>1. PICK r \in rows : x \in {r} \X (1 .. batch[r].cycles)
        BY <2>2 DEF CyclesOf
      <3>2. x[2] \in 1 .. batch[r].cycles
        BY <3>1
      <3>. QED BY <1>1, <3>2
    <2>. QED BY <2>1, <2>2
  <1>. HIDE DEF S
  <1>8. Cardinality(S) \in Nat /\ (Cardinality(S) = 0 <=> S = {})
    BY <1>6, FS_CardinalityType, FS_EmptySet
  <1>9. Cycles(rows) = Cardinality(S)
    BY DEF Cycles, S
  <1>. QED BY <1>7, <1>8, <1>9

\* The records are rows, sorted by key.
LEMMA GatheredType ==
    ASSUME NEW S \in SUBSET Keys
    PROVE  Sorted(S) \in Seq(Keys)
  <1>1. IsFiniteSet(S) /\ S \subseteq Int \X Int
    BY KeysFinite, FS_Subset
  <1>2. Sorted(S) \in Seq(S)
    BY <1>1, PairsSorted DEF Sorts
  <1>. QED BY <1>2, SeqMonotonic

LEMMA DivergenceType ==
    ASSUME batch \in [Keys -> Kinds], NEW case \in Keys \X Nat, NEW old
    PROVE  Divergence(case, old) \in Nat
  <1> DEFINE f == [r \in Keys |-> batch[r].kl]
             S == {batch[r].kl : r \in Keys}
  <1>1. \A r \in Keys : batch[r].kl \in Nat
    BY RefreshAssumption
  <1>2. S = {f[r] : r \in Keys}
    OBVIOUS
  <1>3. S \in SUBSET Nat /\ S # {}
    <2>1. <<0, 1>> \in Keys
      BY RefreshAssumption, KeysFinite DEF Keys
    <2>. QED BY <1>1, <2>1
  <1>. HIDE DEF f
  <1>4. IsFiniteSet({f[r] : r \in Keys})
    BY KeysFinite, ImageFinite
  <1>5. IsFiniteSet(S)
    BY <1>2, <1>4, Zenon
  <1>6. Max(S) \in Nat
    <2>. HIDE DEF S
    <2>1. Max(S) \in S
      BY <1>3, <1>5, MaxType
    <2>. QED BY <1>3, <2>1
  <1>7. Divergence(case, old) \in {1 + Max(S), 0, batch[case[1]].kl}
    BY DEF Divergence
  <1>8. case[1] \in Keys
    OBVIOUS
  <1>. HIDE DEF S
  <1>. QED BY <1>1, <1>6, <1>7, <1>8

LEMMA MaxNat ==
    ASSUME NEW a \in Nat, NEW b \in Nat
    PROVE  Max({a, b}) \in Nat
  <1>1. a \in Int /\ b \in Int
    OBVIOUS
  <1>2. Max({a, b}) \in {a, b}
    BY <1>1, MaxPair, Zenon
  <1>. QED BY <1>2

\* What a collective that completes leaves behind has its type.
LEMMA CompleteType ==
    ASSUME TypeInv, NEW op, Complete(op), pc' = pc, Probing', Scoring', Optimizing',
           cases' = cases
    PROVE  TypeInv'
  <1>1. Control'
    BY CompleteControl DEF TypeInv
  <1>2. \A k \in Ranks : Budgeted(k)' /\ Follows(k)'
    BY CompleteBudgeted, CompleteFollows DEF TypeInv
  <1>. QED BY <1>1, <1>2 DEF TypeInv

LEMMA RaiseType ==
    ASSUME TypeInv, NEW op, AllRaise(op)
    PROVE  TypeInv'
  <1>1. Control'
    BY RaiseControl DEF TypeInv
  <1>2. Probing' /\ Scoring' /\ Optimizing' /\ cases' = cases
    BY DEF TypeInv, AllRaise, Probing, Scoring, Optimizing, probing, scoring, optimizer
  <1>3. ASSUME NEW k \in Ranks PROVE Budgeted(k)' /\ Follows(k)'
    <2>1. pc'[k] = "raised"
      BY DEF AllRaise
    <2>. QED BY <1>2, <2>1 DEF TypeInv, Budgeted, Follows
  <1>. QED BY <1>1, <1>2, <1>3 DEF TypeInv

\* A forward of capture_shift that writes its distribution.
WritesOne(r, c) ==
    /\ Complete(<<"capture", <<r, c>>>>)
    /\ cache' = Append(cache, [case |-> <<r, c>>, seen |-> Weights])
    /\ UNCHANGED <<pc, probing, cycles, shift, selected, at, optimizer>>

\* A forward of score_shift for which a distribution is read.
ScoresOne(r, c) ==
    /\ Complete(<<"score", <<r, c>>>>)
    /\ at < Len(cache) /\ at' = at + 1
    /\ shift' = [shift EXCEPT ![0][r] = Max({@, Divergence(<<r, c>>, cache[at + 1])})]
    /\ UNCHANGED <<pc, probing, cycles, selected, cache, optimizer>>

\* One for which rank 0 finds none.
ZeroRaises(r, c) ==
    /\ Entered(<<"score", <<r, c>>>>)
    /\ pc' = [pc EXCEPT ![0] = "raised"]
    /\ todo' = [k \in Ranks |-> IF k = 0 THEN <<>> ELSE Tail(todo[k])]
    /\ UNCHANGED <<mode, batch, mini, probing, cycles, scoring, optimizer>>

LEMMA WriteOldCases ==
    ASSUME WriteOld
    PROVE  \E r \in Keys : \E c \in 1 .. batch[r].cycles :
             AllRaise(<<"capture", <<r, c>>>>) \/ WritesOne(r, c)
  BY DEF WriteOld, WritesOne

LEMMA ReadOldCases ==
    ASSUME ReadOld, TypeInv
    PROVE  \E r \in Keys : \E c \in 1 .. batch[r].cycles :
             AllRaise(<<"score", <<r, c>>>>) \/ ScoresOne(r, c) \/ ZeroRaises(r, c)
  <1>1. at \in Nat /\ Len(cache) \in Nat
    BY LenProperties DEF TypeInv, Scoring
  <1>2. CASE at >= Len(cache)
    BY <1>2 DEF ReadOld, ZeroRaises, scoring
  <1>3. CASE at < Len(cache)
    <2>1. ~(at >= Len(cache))
      BY <1>1, <1>3
    <2>. QED BY <1>3, <2>1 DEF ReadOld, ScoresOne, Complete
  <1>. QED BY <1>1, <1>2, <1>3

LEMMA ReadOldType ==
    ASSUME TypeInv, ReadOld
    PROVE  TypeInv'
  <1>0. /\ Control /\ Probing /\ Scoring /\ Optimizing /\ batch \in [Keys -> Kinds]
        /\ pc \in [Ranks -> Stages] /\ mini \in [Ranks -> 0 .. NumMini]
    BY DEF TypeInv, Control
  <1>5. PICK r \in Keys : \E c \in 1 .. batch[r].cycles :
             AllRaise(<<"score", <<r, c>>>>) \/ ScoresOne(r, c) \/ ZeroRaises(r, c)
    BY ReadOldCases
  <1>1. PICK c \in 1 .. batch[r].cycles :
             AllRaise(<<"score", <<r, c>>>>) \/ ScoresOne(r, c) \/ ZeroRaises(r, c)
    BY <1>5
  <1> DEFINE op == <<"score", <<r, c>>>>
             d == Divergence(<<r, c>>, cache[at + 1])
  <1>2. CASE AllRaise(op)
    <2>. HIDE DEF op
    <2>. QED BY <1>2, RaiseType
  <1>3. CASE /\ Complete(op) /\ at < Len(cache) /\ at' = at + 1 /\ pc' = pc
             /\ shift' = [shift EXCEPT ![0][r] = Max({@, d})]
             /\ UNCHANGED <<probing, cycles, selected, cache, optimizer>>
    <2>1. d \in Nat
      <3>1. <<r, c>> \in Keys \X Nat
        BY <1>0, RefreshAssumption
      <3>. QED BY <1>0, <3>1, DivergenceType
    <2>. HIDE DEF d, op
    <2>2. shift' \in [Ranks -> [Keys -> Nat]]
      <3>1. shift[0][r] \in Nat
        BY <1>0, KeysFinite DEF Scoring
      <3>2. Max({shift[0][r], d}) \in Nat
        BY <2>1, <3>1, MaxNat
      <3>3. shift' = [shift EXCEPT ![0][r] = Max({shift[0][r], d})]
        BY <1>3
      <3>. QED BY <1>0, <3>2, <3>3 DEF Scoring
    <2>3. at' \in 0 .. Len(cache) /\ cases' = cases
      <3>1. Len(cache) \in Nat
        BY <1>0, LenProperties DEF Scoring
      <3>. QED BY <1>0, <1>3, <3>1 DEF Scoring, probing
    <2>4. Probing' /\ Scoring' /\ Optimizing'
      BY <1>0, <1>3, <2>2, <2>3 DEF Probing, Scoring, Optimizing, probing, optimizer
    <2>. QED BY <1>3, <2>3, <2>4, CompleteType
  <1>4. CASE /\ Entered(op) /\ pc' = [pc EXCEPT ![0] = "raised"]
             /\ todo' = [k \in Ranks |-> IF k = 0 THEN <<>> ELSE Tail(todo[k])]
             /\ UNCHANGED <<mode, batch, mini, probing, cycles, scoring, optimizer>>
    <2>1. ASSUME NEW k \in Ranks PROVE todo[k] # <<>> /\ pc[k] = "score"
      <3>1. todo[k] # <<>> /\ op[1] \in TagsIn(pc[k]) /\ pc[k] \in Stages
        <4>. HIDE DEF op
        <4>. QED BY <1>0, <1>4, AllWaiting
      <3>. QED BY <3>1 DEF TagsIn, Stages
    <2>2. Probing' /\ Scoring' /\ Optimizing' /\ cases' = cases
      BY <1>0, <1>4 DEF Probing, Scoring, Optimizing, probing, scoring, optimizer
    <2>3. pc' \in [Ranks -> Stages] /\ DOMAIN todo' = Ranks
      BY <1>0, <1>4 DEF Stages
    <2>4. ASSUME NEW k \in Ranks
          PROVE  todo'[k] \in Seq(OpsIn(pc'[k])) /\ Shape(k)' /\ Budgeted(k)' /\ Follows(k)'
      <3>1. CASE k = 0
        <4>1. pc'[k] = "raised" /\ todo'[k] = <<>>
          BY <1>0, <1>4, <3>1
        <4>2. <<>> \in Seq(OpsIn(pc'[k]))
          OBVIOUS
        <4>. QED BY <2>2, <4>1, <4>2 DEF TypeInv, Shape, Budgeted, Follows, Prologue, Epilogue
      <3>2. CASE k # 0
        <4> DEFINE q == todo[k]
                   n == Len(q)
        <4>1. pc'[k] = "score" /\ todo'[k] = Tail(q)
          BY <1>0, <1>4, <2>1, <3>2
        <4>2. q \in Seq(OpsIn("score")) /\ q # <<>> /\ q[n] = <<"broadcast">>
          BY <1>0, <2>1 DEF TypeInv, Control, Follows
        <4>3. /\ Tail(q) \in Seq(OpsIn("score")) /\ Len(Tail(q)) = n - 1 /\ n \in Nat \ {0}
              /\ \A i \in 1 .. n - 1 : Tail(q)[i] = q[i + 1]
          BY <4>2, HeadTail
        <4>4. Tail(q) # <<>> => Len(Tail(q)) # 0
          BY <4>3, EmptySeq
        <4>5. Tail(q) # <<>> => Tail(q)[Len(Tail(q))] = q[n]
          BY <4>3, <4>4
        <4>6. Follows(k)'
          BY <4>1, <4>2, <4>5 DEF Follows
        <4>7. Shape(k)'
          BY <1>0, <1>4, <2>1, <4>1 DEF Control, Shape, Deferred
        <4>8. Budgeted(k)'
          BY <2>2, <4>1 DEF TypeInv, Budgeted
        <4>9. todo'[k] \in Seq(OpsIn(pc'[k]))
          BY <4>1, <4>3
        <4>. QED BY <4>6, <4>7, <4>8, <4>9
      <3>. QED BY <3>1, <3>2
    <2>. QED BY <1>0, <1>4, <2>2, <2>3, <2>4 DEF TypeInv, Control
  <1>. QED BY <1>1, <1>2, <1>3, <1>4 DEF ScoresOne, ZeroRaises

\* The two outcomes of an optimizer step.
Applies ==
    /\ policyLog' = [k \in Ranks |-> IF policyGrad[k] = {} THEN policyLog[k]
                                      ELSE Append(policyLog[k], policyGrad[k])]
    /\ headLog' = [k \in Ranks |-> IF headGrad[k] = {} THEN headLog[k]
                     ELSE Append(headLog[k], [lr |-> headLr[k], rows |-> headGrad[k]])]
    /\ UNCHANGED <<policyGrad, headGrad, skipped>>
Skips ==
    /\ policyGrad' = [k \in Ranks |-> {}]
    /\ headGrad' = [k \in Ranks |-> {}]
    /\ skipped' = [k \in Ranks |-> skipped[k] \union {StepName(k)}]
    /\ UNCHANGED <<policyLog, headLog>>

LEMMA CollectiveType ==
    ASSUME TypeInv, Collective
    PROVE  TypeInv'
  <1>0. /\ Control /\ Probing /\ Scoring /\ Optimizing /\ batch \in [Keys -> Kinds]
        /\ pc \in [Ranks -> Stages] /\ mini \in [Ranks -> 0 .. NumMini]
    BY DEF TypeInv, Control
  <1>1. CASE PassThrough
    <2>1. /\ Complete(Head(todo[0])) /\ pc' = pc /\ cases' = cases
          /\ UNCHANGED <<probing, cycles, scoring, optimizer>>
      BY <1>1 DEF PassThrough, probing
    <2>2. Probing' /\ Scoring' /\ Optimizing'
      BY <1>0, <2>1 DEF Probing, Scoring, Optimizing, probing, scoring, optimizer
    <2>. QED BY <2>1, <2>2, CompleteType
  <1>2. CASE SynchronizedCases
    <2>1. Complete(<<"cases">>) /\ pc' = pc /\ UNCHANGED <<records, counts, draftLr, cycles, scoring, optimizer>>
      BY <1>2 DEF SynchronizedCases
    <2>2. Control'
      BY <1>0, <2>1, CompleteControl
    <2>3. Probing' /\ Scoring' /\ Optimizing'
      BY <1>0, <1>2, <2>1, ExchangedCases DEF Probing, Scoring, Optimizing, scoring, optimizer
    <2>4. ASSUME NEW k \in Ranks PROVE Budgeted(k)' /\ Follows(k)'
      <3>1. Follows(k)'
        BY <1>0, <2>1, CompleteFollows DEF TypeInv
      <3>2. Budgeted(k)'
        BY <1>2, ExchangedCases DEF Budgeted
      <3>. QED BY <3>1, <3>2
    <2>. QED BY <2>2, <2>3, <2>4 DEF TypeInv
  <1>3. CASE GatherTrajectories
    <2> DEFINE S == UNION {LocalRecords(j) : j \in Ranks}
               q == Sorted(S)
               c == [trajectories |-> Cardinality(Keys), cycles |-> Cycles(Keys)]
    <2>1. /\ Complete(<<"gather">>) /\ pc' = pc /\ cases' = cases
          /\ records' = [k \in Ranks |-> q] /\ counts' = [k \in Ranks |-> c]
          /\ UNCHANGED <<draftLr, cycles, scoring, optimizer>>
      BY <1>3, Zenon DEF GatherTrajectories
    <2>2. S \in SUBSET Keys
      BY DEF LocalRecords, Recorded
    <2>. HIDE DEF S
    <2>3. q \in Seq(Keys)
      BY <2>2, GatheredType
    <2>4. c \in [trajectories : Nat, cycles : Nat]
      <3>1. Cardinality(Keys) \in Nat /\ Cycles(Keys) \in Nat
        BY <1>0, KeysFinite, FS_CardinalityType, CyclesCounted
      <3>. QED BY <3>1
    <2>. HIDE DEF q, c
    <2>5. Probing' /\ Scoring' /\ Optimizing'
      BY <1>0, <2>1, <2>3, <2>4 DEF Probing, Scoring, Optimizing, scoring, optimizer
    <2>. QED BY <2>1, <2>5, CompleteType
  <1>4. CASE WriteOld
    <2>4. PICK r \in Keys : \E c \in 1 .. batch[r].cycles :
               AllRaise(<<"capture", <<r, c>>>>) \/ WritesOne(r, c)
      BY <1>4, WriteOldCases
    <2>1. PICK c \in 1 .. batch[r].cycles : AllRaise(<<"capture", <<r, c>>>>) \/ WritesOne(r, c)
      BY <2>4
    <2> DEFINE op == <<"capture", <<r, c>>>>
               e == [case |-> <<r, c>>, seen |-> Weights]
    <2>2. CASE AllRaise(op)
      <3>. HIDE DEF op
      <3>. QED BY <2>2, RaiseType
    <2>3. CASE ~AllRaise(op)
      <3>1. /\ Complete(op) /\ cache' = Append(cache, e) /\ pc' = pc /\ cases' = cases
            /\ UNCHANGED <<probing, cycles, shift, selected, at, optimizer>>
        BY <2>1, <2>3 DEF probing, WritesOne
      <3>2. e \in Entries
        <4>1. Weights \in [Ranks -> Nat]
          BY <1>0, LenProperties DEF Weights, Optimizing
        <4>2. c \in Nat
          BY <1>0, RefreshAssumption
        <4>. QED BY <4>1, <4>2 DEF Entries
      <3>. HIDE DEF op, e
      <3>3. cache' \in Seq(Entries) /\ Len(cache') = Len(cache) + 1 /\ Len(cache) \in Nat
        BY <1>0, <3>1, <3>2, AppendProperties, LenProperties DEF Scoring
      <3>4. at' \in 0 .. Len(cache')
        BY <1>0, <3>1, <3>3 DEF Scoring
      <3>5. Scoring'
        BY <1>0, <3>1, <3>3, <3>4 DEF Scoring
      <3>6. Probing' /\ Optimizing'
        BY <1>0, <3>1 DEF Probing, Optimizing, probing, optimizer
      <3>. QED BY <3>1, <3>5, <3>6, CompleteType
    <2>. QED BY <2>2, <2>3
  <1>5. CASE ReduceCycles
    <2>1. PICK m \in 1 .. NumMini :
             /\ Complete(<<"cycles", m>>) /\ cycles' = [k \in Ranks |-> Cycles(MiniRows(m))]
             /\ UNCHANGED <<pc, probing, scoring, optimizer>>
      BY <1>5 DEF ReduceCycles
    <2>2. MiniRows(m) \in SUBSET Keys
      BY DEF MiniRows
    <2>3. Cycles(MiniRows(m)) \in Nat
      BY <1>0, <2>2, CyclesCounted
    <2>4. Probing' /\ Scoring' /\ Optimizing' /\ cases' = cases
      BY <1>0, <2>1, <2>3 DEF Probing, Scoring, Optimizing, probing, scoring, optimizer
    <2>. QED BY <2>1, <2>4, CompleteType
  <1>6. CASE PolicyBackward
    <2>1. PICK m \in 1 .. NumMini, i \in 1 .. NumRows :
             /\ Complete(<<"policy", m, i>>)
             /\ policyGrad' = [k \in Ranks |-> policyGrad[k] \union {<<j, i>> : j \in Ranks}]
             /\ UNCHANGED <<pc, probing, cycles, scoring, scheduledLr, headLr, headGrad, policyLog,
                            headLog, skipped>>
      BY <1>6 DEF PolicyBackward
    <2>2. policyGrad' \in [Ranks -> SUBSET Keys]
      BY <1>0, <2>1 DEF Optimizing, Keys
    <2>3. Probing' /\ Scoring' /\ Optimizing' /\ cases' = cases
      BY <1>0, <2>1, <2>2 DEF Probing, Scoring, Optimizing, probing, scoring
    <2>. QED BY <2>1, <2>3, CompleteType
  <1>7. CASE BackwardHead
    <2>1. PICK m \in 1 .. NumMini, i \in 1 .. NumRows :
             /\ Complete(<<"head", m, i>>)
             /\ headGrad' = [k \in Ranks |-> headGrad[k] \union
                    Taught({<<j, i>> : j \in Ranks} \intersect UNION {Recorded(j) : j \in Ranks}, {})]
             /\ UNCHANGED <<pc, probing, cycles, scoring, scheduledLr, headLr, policyGrad, policyLog,
                            headLog, skipped>>
      BY <1>7 DEF BackwardHead
    <2> DEFINE g == {<<j, i>> : j \in Ranks} \intersect UNION {Recorded(j) : j \in Ranks}
    <2>2. g \subseteq Keys
      BY DEF Keys
    <2>. HIDE DEF g
    <2>3. Taught(g, {}) \subseteq Taughts
      BY <2>2 DEF Taught, Taughts
    <2>4. headGrad' \in [Ranks -> SUBSET Taughts]
      BY <1>0, <2>1, <2>3 DEF Optimizing, g
    <2>5. Probing' /\ Scoring' /\ Optimizing' /\ cases' = cases
      BY <1>0, <2>1, <2>4 DEF Probing, Scoring, Optimizing, probing, scoring
    <2>. QED BY <2>1, <2>5, CompleteType
  <1>8. CASE BackwardRefresh
    <2>1. /\ Complete(<<"refresh">>)
          /\ headGrad' = [k \in Ranks |-> headGrad[k] \union
                 UNION {Taught(Recorded(j), ToSet(selected[j])) : j \in Ranks}]
          /\ UNCHANGED <<pc, probing, cycles, scoring, scheduledLr, headLr, policyGrad, policyLog,
                         headLog, skipped>>
      BY <1>8 DEF BackwardRefresh
    <2>2. \A j \in Ranks : Taught(Recorded(j), ToSet(selected[j])) \subseteq Taughts
      BY DEF Taught, Taughts, Recorded
    <2>3. headGrad' \in [Ranks -> SUBSET Taughts]
      BY <1>0, <2>1, <2>2 DEF Optimizing
    <2>4. Probing' /\ Scoring' /\ Optimizing' /\ cases' = cases
      BY <1>0, <2>1, <2>3 DEF Probing, Scoring, Optimizing, probing, scoring
    <2>. QED BY <2>1, <2>4, CompleteType
  <1>9. CASE OptimizerStep
    <2>1. /\ Complete(<<"norm">>) /\ pc' = pc /\ cases' = cases
          /\ UNCHANGED <<probing, cycles, scoring, scheduledLr, headLr>>
      BY <1>9 DEF OptimizerStep, probing
    <2>2. ASSUME Applies PROVE Optimizing'
      <3>1. ASSUME NEW k \in Ranks PROVE policyLog'[k] \in Seq(SUBSET Keys)
        <4>1. policyLog[k] \in Seq(SUBSET Keys) /\ policyGrad[k] \in SUBSET Keys
          BY <1>0 DEF Optimizing
        <4>2. policyLog'[k] \in {policyLog[k], Append(policyLog[k], policyGrad[k])}
          BY <2>2 DEF Applies
        <4>. QED BY <4>1, <4>2, AppendProperties
      <3>2. ASSUME NEW k \in Ranks PROVE headLog'[k] \in Seq([lr : Nat, rows : SUBSET Taughts])
        <4> DEFINE e == [lr |-> headLr[k], rows |-> headGrad[k]]
                   T == [lr : Nat, rows : SUBSET Taughts]
        <4>1. e \in T /\ headLog[k] \in Seq(T)
          BY <1>0 DEF Optimizing
        <4>2. headLog'[k] \in {headLog[k], Append(headLog[k], e)}
          BY <2>2 DEF Applies
        <4>. HIDE DEF e, T
        <4>3. Append(headLog[k], e) \in Seq(T)
          BY <4>1, AppendProperties
        <4>4. headLog'[k] \in Seq(T)
          BY <4>1, <4>2, <4>3
        <4>. QED BY <4>4 DEF T
      <3>3. /\ policyLog' = [k \in Ranks |-> policyLog'[k]] /\ headLog' = [k \in Ranks |-> headLog'[k]]
            /\ UNCHANGED <<policyGrad, headGrad, skipped>>
        BY <2>2 DEF Applies
      <3>. QED BY <1>0, <2>1, <3>1, <3>2, <3>3 DEF Optimizing, probing
    <2>3. ASSUME Skips PROVE Optimizing'
      <3>1. \A k \in Ranks : StepName(k) \in 0 .. NumMini
        BY <1>0, RefreshAssumption DEF StepName
      <3>2. skipped' \in [Ranks -> SUBSET (0 .. NumMini)]
        <4>1. skipped' = [k \in Ranks |-> skipped[k] \union {StepName(k)}]
          BY <2>3 DEF Skips
        <4>2. \A k \in Ranks : skipped[k] \in SUBSET (0 .. NumMini)
          BY <1>0 DEF Optimizing
        <4>. QED BY <3>1, <4>1, <4>2
      <3>3. policyGrad' \in [Ranks -> SUBSET Keys] /\ headGrad' \in [Ranks -> SUBSET Taughts]
        BY <2>3 DEF Skips
      <3>. QED BY <1>0, <2>1, <2>3, <3>2, <3>3 DEF Skips, Optimizing, probing
    <2>4. Applies \/ Skips
      BY <1>9 DEF OptimizerStep, Applies, Skips
    <2>5. Optimizing'
      BY <2>2, <2>3, <2>4
    <2>6. Probing' /\ Scoring' /\ Optimizing'
      BY <1>0, <2>1, <2>5 DEF Probing, Scoring, probing, scoring
    <2>. QED BY <2>1, <2>6, CompleteType
  <1>11. CASE BroadcastScores
    <2>1. /\ Complete(<<"broadcast">>) /\ shift' = [k \in Ranks |-> shift[0]] /\ pc' = pc
          /\ UNCHANGED <<probing, cycles, selected, cache, at, optimizer>> /\ cases' = cases
      BY <1>11 DEF BroadcastScores, probing
    <2>2. Probing' /\ Scoring' /\ Optimizing'
      BY <1>0, <2>1, KeysFinite DEF Probing, Scoring, Optimizing, probing, optimizer
    <2>. QED BY <2>1, <2>2, CompleteType
  <1>10. CASE ReadOld
    BY <1>10, ReadOldType
  <1>. QED BY <1>1, <1>2, <1>3, <1>4, <1>5, <1>6, <1>7, <1>8, <1>9, <1>10, <1>11 DEF Collective

LEMMA TypeStep == TypeInv /\ [Next]_vars => TypeInv'
  <1> SUFFICES ASSUME TypeInv, [Next]_vars PROVE TypeInv'
    OBVIOUS
  <1>1. CASE UNCHANGED vars
    <2>1. UNCHANGED <<mode, batch, pc, todo, mini, cases>>
      BY <1>1 DEF vars, control, probing
    <2>2. Probing' /\ Scoring' /\ Optimizing'
      BY <1>1 DEF TypeInv, Probing, Scoring, Optimizing, vars, probing, scoring, optimizer
    <2>3. \A k \in Ranks : Shape(k)' /\ Follows(k)' /\ Budgeted(k)'
      BY <2>1 DEF TypeInv, Control, Shape, Follows, Budgeted, Deferred, BackwardOps
    <2>4. Control'
      BY <2>1, <2>3 DEF TypeInv, Control
    <2>. QED BY <2>2, <2>3, <2>4 DEF TypeInv
  <1>2. CASE Next
    BY <1>2, LocalType, CollectiveType DEF Next
  <1>. QED BY <1>1, <1>2

\* Every operation is one the type invariant of the model names.
LEMMA OpsTyped ==
    ASSUME NEW p \in Stages, NEW op \in OpsIn(p)
    PROVE  op \in Operations \/ op[1] \in {"old", "capture", "score", "teacher", "new"}
  BY DEF OpsIn, Operations, Pass, Stages

\* The type invariant of the model: with any number of ranks, every rank's
\* state has its type, the probe keeps within its budget of cycles, and rank 0
\* never reads past the end of the cache of old distributions.
THEOREM TypeCorrect == Spec => []TypeOK
  <1>1. TypeInv => TypeOK
    <2> SUFFICES ASSUME TypeInv PROVE TypeOK
      OBVIOUS
    <2>1. ASSUME NEW k \in Ranks, NEW i \in 1 .. Len(todo[k])
          PROVE  todo[k][i] \in Operations \/ todo[k][i][1] \in {"old", "capture", "score", "teacher", "new"}
      <3>1. todo[k][i] \in OpsIn(pc[k]) /\ pc[k] \in Stages
        BY ElementOfSeq DEF TypeInv, Control
      <3>. QED BY <3>1, OpsTyped
    <2>2. ASSUME NEW k \in Ranks
          PROVE  /\ Len(cases[k]) <= MaxCycles /\ records[k] \in Seq(Keys) /\ selected[k] \in Seq(Keys)
                 /\ policyLog[k] \in Seq(SUBSET Keys) /\ policyGrad[k] \subseteq Keys
                 /\ headGrad[k] \subseteq [row : Keys, teacher : {"old", "new"}]
                 /\ skipped[k] \subseteq 0 .. NumMini
      BY DEF TypeInv, Budgeted, Probing, Scoring, Optimizing, Taughts
    <2>. QED BY <2>1, <2>2 DEF TypeInv, TypeOK, Control, Stages, Optimizing, Scoring
  <1>. QED BY <1>1, TypeInit, TypeStep, PTL DEF Spec

-----------------------------------------------------------------------------
(* The learning rate of the head                                           *)

\* The rate is that of the next step after the last mini-batch, except during
\* the refresh, which keeps it aside.
Rate(k) ==
    /\ draftLr[k] = 0
    /\ pc[k] = "refresh" => scheduledLr[k] = 1
    /\ pc[k] # "raised" =>
         headLr[k] = IF \/ pc[k] \in {"score", "teacher", "new", "durations", "done"}
                        \/ pc[k] = "loop" /\ mini[k] = NumMini THEN 1 ELSE 0
    /\ \A i \in 1 .. Len(headLog[k]) : headLog[k][i].lr = 0

RateInv == \A k \in Ranks : Rate(k)

\* A step of a rank of its own touches no other rank's state.
LEMMA LocalOthers ==
    ASSUME TypeInv, NEW k \in Ranks, Local(k), NEW j \in Ranks, j # k
    PROVE  /\ pc'[j] = pc[j] /\ todo'[j] = todo[j] /\ mini'[j] = mini[j] /\ cycles'[j] = cycles[j]
           /\ cases'[j] = cases[j] /\ records'[j] = records[j] /\ counts'[j] = counts[j]
           /\ shift'[j] = shift[j] /\ selected'[j] = selected[j]
           /\ draftLr'[j] = draftLr[j] /\ scheduledLr'[j] = scheduledLr[j] /\ headLr'[j] = headLr[j]
           /\ policyGrad'[j] = policyGrad[j] /\ headGrad'[j] = headGrad[j]
  <1>1. pc'[j] = pc[j] /\ todo'[j] = todo[j]
    BY LocalMoves DEF Goto, TypeInv, Control
  <1>2. mini'[j] = mini[j] /\ cycles'[j] = cycles[j]
    <2>1. CASE TrainBatch(k)
      BY <2>1 DEF TrainBatch, TypeInv, Control, Probing
    <2>. QED BY <2>1, LocalFrame
  <1>3. cases'[j] = cases[j]
    BY LocalFrame, ProbeCases DEF TypeInv
  <1>4. selected'[j] = selected[j]
    <2>1. CASE MixedTeacherBatch(k)
      BY <2>1 DEF MixedTeacherBatch, TypeInv, Scoring
    <2>. QED BY <2>1, LocalFrame
  <1>5. draftLr'[j] = draftLr[j]
    <2>1. CASE CaptureShift(k)
      BY <2>1 DEF CaptureShift, TypeInv, Optimizing
    <2>. QED BY <2>1, LocalFrame
  <1>6. /\ scheduledLr'[j] = scheduledLr[j] /\ headLr'[j] = headLr[j]
        /\ policyGrad'[j] = policyGrad[j] /\ headGrad'[j] = headGrad[j]
    <2>1. CASE TrainBatch(k)
      BY <2>1 DEF TrainBatch, TypeInv, Optimizing
    <2>2. CASE EndBatch(k)
      BY <2>2 DEF EndBatch, TypeInv, Optimizing
    <2>3. CASE RefreshDraftTeacher(k)
      BY <2>3 DEF RefreshDraftTeacher, TypeInv, Optimizing
    <2>4. CASE RestoreRate(k)
      BY <2>4 DEF RestoreRate, TypeInv, Optimizing
    <2>. QED BY <2>1, <2>2, <2>3, <2>4, LocalFrame
  <1>. QED BY <1>1, <1>2, <1>3, <1>4, <1>5, <1>6, LocalFrame

LEMMA LocalRate ==
    ASSUME TypeInv, NEW k \in Ranks, Local(k), RateInv
    PROVE  RateInv'
  <1>0. /\ pc[k] \in Stages /\ mini[k] \in 0 .. NumMini /\ Shape(k) /\ NumMini \in Nat \ {0}
        /\ pc \in [Ranks -> Stages] /\ mini \in [Ranks -> 0 .. NumMini] /\ Rate(k)
        /\ draftLr \in [Ranks -> Nat] /\ scheduledLr \in [Ranks -> Nat] /\ headLr \in [Ranks -> Nat]
    BY RefreshAssumption DEF TypeInv, Control, Optimizing, RateInv
  <1>1. ASSUME NEW j \in Ranks, j # k PROVE Rate(j)'
    BY <1>1, LocalOthers, LocalFrame DEF RateInv, Rate
  <1>2. Rate(k)'
    <2>0. headLog' = headLog
      BY LocalFrame
    <2>1. CASE CaptureProbe(k)
      <3>1. Goto(k, "begin", "probe", <<<<"coverage">>, <<"cases">>>>) /\ UNCHANGED <<mini, draftLr, optimizer>>
        BY <2>1 DEF CaptureProbe
      <3>. QED BY <1>0, <3>1 DEF Goto, Rate, optimizer
    <2>2. CASE EvaluateOld(k)
      BY <1>0, <2>2 DEF EvaluateOld, Goto, Rate, optimizer, probing
    <2>3. CASE CaptureShift(k)
      <3>1. pc'[k] = "loop" /\ pc[k] = "gather" /\ UNCHANGED <<mini, optimizer>>
        BY <1>0, <2>3 DEF CaptureShift, Goto
      <3>2. mini[k] = 0 /\ headLr[k] = 0 /\ mini[k] # NumMini
        BY <1>0, <3>1 DEF Rate, Shape, Prologue
      <3>3. draftLr'[k] = 0
        BY <1>0, <2>3, <3>2 DEF CaptureShift, Rate
      <3>. QED BY <1>0, <3>1, <3>2, <3>3 DEF Rate, optimizer
    <2>4. CASE SkipProbe(k)
      BY <1>0, <2>4 DEF SkipProbe, Goto, Rate, optimizer, probing, Shape, Prologue
    <2>5. CASE TrainBatch(k)
      <3>1. /\ pc[k] = "loop" /\ pc'[k] = "backward" /\ mini[k] + 1 <= NumMini
            /\ UNCHANGED <<probing, scheduledLr, headLr>>
        BY <1>0, <2>5 DEF TrainBatch, Goto
      <3>. QED BY <1>0, <2>0, <3>1 DEF Rate, probing
    <2>6. CASE ForwardBackward(k)
      <3>1. pc[k] = "backward" /\ pc'[k] = "step" /\ UNCHANGED <<probing, optimizer>>
        BY <1>0, <2>6 DEF ForwardBackward, Goto
      <3>. QED BY <1>0, <3>1 DEF Rate, probing, optimizer
    <2>7. CASE EndBatch(k)
      <3>1. pc[k] = "step" /\ pc'[k] = "loop" /\ UNCHANGED <<mini, probing, scheduledLr>>
        BY <1>0, <2>7 DEF EndBatch, Goto
      <3>2. headLr'[k] = IF mini[k] = NumMini THEN 1 ELSE 0
        <4>1. headLr[k] = 0
          BY <1>0, <3>1 DEF Rate
        <4>. QED BY <1>0, <2>7, <4>1 DEF EndBatch
      <3>. QED BY <1>0, <2>0, <3>1, <3>2 DEF Rate, probing
    <2>8. CASE ScoreShift(k)
      BY <1>0, <2>8 DEF ScoreShift, Goto, Rate, optimizer, probing
    <2>9. CASE MixedTeacherBatch(k)
      <3>1. pc[k] = "score" /\ pc'[k] = "teacher" /\ UNCHANGED <<probing, optimizer>>
        BY <1>0, <2>9 DEF MixedTeacherBatch, Goto
      <3>. QED BY <1>0, <3>1 DEF Rate, probing, optimizer
    <2>10. CASE RefreshDraftTeacher(k)
      BY <1>0, <2>10 DEF RefreshDraftTeacher, Goto, Rate, probing
    <2>11. CASE RestoreRate(k)
      BY <1>0, <2>11 DEF RestoreRate, Goto, Rate, probing
    <2>12. CASE EvaluateNew(k)
      BY <1>0, <2>12 DEF EvaluateNew, Goto, Rate, optimizer, probing
    <2>13. CASE ReduceDurations(k)
      BY <1>0, <2>13 DEF ReduceDurations, Goto, Rate, optimizer, probing
    <2>14. CASE Return(k)
      BY <1>0, <2>14 DEF Return, Goto, Rate, optimizer, probing
    <2>. QED BY <2>1, <2>2, <2>3, <2>4, <2>5, <2>6, <2>7, <2>8, <2>9, <2>10, <2>11, <2>12, <2>13,
                <2>14 DEF Local
  <1>. QED BY <1>1, <1>2 DEF RateInv

\* What the collectives leave alone.
LEMMA CollectiveFrame ==
    ASSUME TypeInv, Collective
    PROVE  /\ UNCHANGED <<mode, batch, mini, draftLr, scheduledLr, headLr>>
           /\ SynchronizedCases \/ cases' = cases
           /\ GatherTrajectories \/ UNCHANGED <<records, counts>>
           /\ ReduceCycles \/ cycles' = cycles
           /\ UNCHANGED selected
           /\ ReadOld \/ BroadcastScores \/ shift' = shift
           /\ OptimizerStep \/ UNCHANGED <<policyLog, headLog, skipped>>
           /\ PolicyBackward \/ OptimizerStep \/ UNCHANGED policyGrad
           /\ BackwardHead \/ BackwardRefresh \/ OptimizerStep \/ UNCHANGED headGrad
           /\ \A k \in Ranks : pc'[k] # "raised" => pc'[k] = pc[k] /\ todo'[k] = Tail(todo[k])
           /\ \A k \in Ranks : todo[k] # <<>> /\ pc[k] # "raised" /\ Head(todo[k]) = Head(todo[0])
  <1>1. CASE WriteOld
    <2>1. PICK r \in Keys : \E c \in 1 .. batch[r].cycles :
               AllRaise(<<"capture", <<r, c>>>>) \/ WritesOne(r, c)
      BY <1>1, WriteOldCases
    <2>2. PICK c \in 1 .. batch[r].cycles : AllRaise(<<"capture", <<r, c>>>>) \/ WritesOne(r, c)
      BY <2>1
    <2> DEFINE op == <<"capture", <<r, c>>>>
    <2>3. CASE AllRaise(op)
      <3>. HIDE DEF op
      <3>. QED BY <2>3, AllWaiting, KeysFinite DEF AllRaise, TypeInv, probing, scoring, optimizer
    <2>4. CASE WritesOne(r, c)
      <3>1. Complete(op) /\ UNCHANGED <<pc, probing, cycles, shift, selected, optimizer>>
        BY <2>4 DEF WritesOne
      <3>. HIDE DEF op
      <3>. QED BY <3>1, AllWaiting, KeysFinite DEF Complete, TypeInv, probing, optimizer
    <2>. QED BY <2>2, <2>3, <2>4
  <1>2. CASE ReadOld
    <2>1. PICK r \in Keys : \E c \in 1 .. batch[r].cycles :
               AllRaise(<<"score", <<r, c>>>>) \/ ScoresOne(r, c) \/ ZeroRaises(r, c)
      BY <1>2, ReadOldCases
    <2>2. PICK c \in 1 .. batch[r].cycles :
               AllRaise(<<"score", <<r, c>>>>) \/ ScoresOne(r, c) \/ ZeroRaises(r, c)
      BY <2>1
    <2> DEFINE op == <<"score", <<r, c>>>>
    <2>3. CASE AllRaise(op)
      <3>. HIDE DEF op
      <3>. QED BY <2>3, AllWaiting, KeysFinite DEF AllRaise, TypeInv, probing, scoring, optimizer
    <2>4. CASE ScoresOne(r, c)
      <3>1. Complete(op) /\ UNCHANGED <<pc, probing, cycles, selected, cache, optimizer>>
        BY <2>4 DEF ScoresOne
      <3>. HIDE DEF op
      <3>. QED BY <1>2, <3>1, AllWaiting, KeysFinite DEF Complete, TypeInv, probing, optimizer
    <2>5. CASE ZeroRaises(r, c)
      <3>1. /\ Entered(op) /\ pc' = [pc EXCEPT ![0] = "raised"]
            /\ todo' = [k \in Ranks |-> IF k = 0 THEN <<>> ELSE Tail(todo[k])]
            /\ UNCHANGED <<mode, batch, mini, probing, cycles, scoring, optimizer>>
        BY <2>5 DEF ZeroRaises
      <3>. HIDE DEF op
      <3>. QED BY <3>1, AllWaiting, KeysFinite DEF TypeInv, Control, probing, scoring, optimizer
    <2>. QED BY <2>2, <2>3, <2>4, <2>5
  <1>3. ASSUME NEW op, Complete(op), pc' = pc
        PROVE  /\ \A k \in Ranks : pc'[k] = pc[k] /\ todo'[k] = Tail(todo[k])
               /\ \A k \in Ranks : todo[k] # <<>> /\ pc[k] # "raised" /\ Head(todo[k]) = Head(todo[0])
               /\ UNCHANGED <<mode, batch, mini>>
    BY <1>3, AllWaiting, KeysFinite DEF Complete, TypeInv
  <1>4. CASE PassThrough
    BY <1>3, <1>4 DEF PassThrough, probing, scoring, optimizer
  <1>5. CASE SynchronizedCases
    BY <1>3, <1>5 DEF SynchronizedCases, scoring, optimizer
  <1>6. CASE GatherTrajectories
    BY <1>3, <1>6 DEF GatherTrajectories, scoring, optimizer
  <1>7. CASE ReduceCycles
    BY <1>3, <1>7 DEF ReduceCycles, probing, scoring, optimizer
  <1>8. CASE PolicyBackward
    BY <1>3, <1>8 DEF PolicyBackward, probing, scoring
  <1>9. CASE BackwardHead
    BY <1>3, <1>9 DEF BackwardHead, probing, scoring
  <1>10. CASE BackwardRefresh
    BY <1>3, <1>10 DEF BackwardRefresh, probing, scoring
  <1>11. CASE OptimizerStep
    BY <1>3, <1>11 DEF OptimizerStep, probing, scoring
  <1>12. CASE BroadcastScores
    BY <1>3, <1>12 DEF BroadcastScores, probing, optimizer
  <1>. QED BY <1>1, <1>2, <1>4, <1>5, <1>6, <1>7, <1>8, <1>9, <1>10, <1>11, <1>12 DEF Collective

LEMMA CollectiveRate ==
    ASSUME TypeInv, Collective, RateInv
    PROVE  RateInv'
  <1> SUFFICES ASSUME NEW k \in Ranks PROVE Rate(k)'
    BY DEF RateInv
  <1>1. /\ UNCHANGED <<mini, draftLr, scheduledLr, headLr>>
        /\ pc'[k] # "raised" => pc'[k] = pc[k]
        /\ OptimizerStep \/ headLog' = headLog
    BY CollectiveFrame
  <1>2. ASSUME NEW i \in 1 .. Len(headLog'[k]) PROVE headLog'[k][i].lr = 0
    <2>1. CASE headLog' = headLog
      BY <1>2, <2>1 DEF RateInv, Rate
    <2>2. CASE OptimizerStep /\ headLog' # headLog
      <3> DEFINE e == [lr |-> headLr[k], rows |-> headGrad[k]]
                 T == [lr : Nat, rows : SUBSET Taughts]
      <3>1. Complete(<<"norm">>) /\ Applies
        BY <2>2 DEF OptimizerStep, Applies
      <3>2. "norm" \in TagsIn(pc[k]) /\ pc[k] \in Stages
        <4>1. Entered(<<"norm">>) /\ Control
          BY <3>1 DEF Complete, TypeInv
        <4>. QED BY <4>1, AllWaiting
      <3>3. pc[k] \in {"step", "refresh"}
        BY <3>2 DEF TagsIn, Stages
      <3>4. e.lr = 0
        BY <3>3 DEF RateInv, Rate
      <3>5. e \in T /\ headLog[k] \in Seq(T)
        BY DEF TypeInv, Optimizing
      <3>6. headLog'[k] \in {headLog[k], Append(headLog[k], e)}
        BY <3>1 DEF Applies
      <3>. HIDE DEF e, T
      <3>7. CASE headLog'[k] = headLog[k]
        BY <1>2, <3>7 DEF RateInv, Rate
      <3>8. CASE headLog'[k] = Append(headLog[k], e)
        <4>1. /\ Len(headLog'[k]) = Len(headLog[k]) + 1 /\ headLog'[k][Len(headLog[k]) + 1] = e
              /\ \A h \in 1 .. Len(headLog[k]) : headLog'[k][h] = headLog[k][h]
              /\ Len(headLog[k]) \in Nat
          BY <3>5, <3>8, AppendProperties, LenProperties
        <4>2. CASE i = Len(headLog[k]) + 1
          BY <3>4, <4>1, <4>2
        <4>3. CASE i # Len(headLog[k]) + 1
          <5>1. i \in 1 .. Len(headLog[k])
            BY <1>2, <4>1, <4>3
          <5>2. headLog[k][i].lr = 0
            BY <5>1 DEF RateInv, Rate
          <5>. QED BY <4>1, <5>1, <5>2
        <4>. QED BY <4>2, <4>3
      <3>. QED BY <3>6, <3>7, <3>8
    <2>. QED BY <1>1, <2>1, <2>2
  <1>. QED BY <1>1, <1>2 DEF RateInv, Rate

LEMMA RateInit == Init => RateInv
  BY RefreshAssumption DEF Init, RateInv, Rate

LEMMA RateStep == TypeInv /\ RateInv /\ [Next]_vars => RateInv'
  <1> SUFFICES ASSUME TypeInv, RateInv, [Next]_vars PROVE RateInv'
    OBVIOUS
  <1>1. CASE UNCHANGED vars
    BY <1>1 DEF RateInv, Rate, vars, control, probing, optimizer
  <1>2. CASE Next
    BY <1>2, LocalRate, CollectiveRate DEF Next
  <1>. QED BY <1>1, <1>2

\* Every head step, the deferred one included, is taken at the rate of its own
\* training step, and the call leaves the scheduler's next rate in place.
THEOREM HeadRateKept == Spec => []HeadRate
  <1>1. RateInv => HeadRate
    BY DEF RateInv, Rate, HeadRate, Finished
  <1>. QED BY <1>1, TypeInit, TypeStep, RateInit, RateStep, PTL DEF Spec

-----------------------------------------------------------------------------
(* The ranks' common path                                                  *)

\* The stages in the order of the path, those of a mini-batch counted anew for
\* each.
Loc(k) ==
    CASE pc[k] = "begin"     -> 0
      [] pc[k] = "probe"     -> 1
      [] pc[k] = "gather"    -> 2
      [] pc[k] = "loop"      -> 3 * mini[k] + 3
      [] pc[k] = "backward"  -> 3 * mini[k] + 1
      [] pc[k] = "step"      -> 3 * mini[k] + 2
      [] pc[k] = "score"     -> 3 * NumMini + 4
      [] pc[k] = "teacher"   -> 3 * NumMini + 5
      [] pc[k] = "refresh"   -> 3 * NumMini + 6
      [] pc[k] = "new"       -> 3 * NumMini + 7
      [] pc[k] = "durations" -> 3 * NumMini + 8
      [] pc[k] = "done"      -> 3 * NumMini + 9
      [] pc[k] = "raised"    -> 3 * NumMini + 10

\* All the collectives of the stage a rank is in.
OpsNow(k) ==
    CASE pc[k] = "probe"     -> ProbeOps
      [] pc[k] = "gather"    -> GatherOps(k)
      [] pc[k] = "loop"      -> IF mini[k] = 0 THEN LoopOps(k) ELSE <<>>
      [] pc[k] = "backward"  -> BackwardOps(mini[k])
      [] pc[k] = "step"      -> StepOps(k, mini[k])
      [] pc[k] = "score"     -> ScoreOps(k)
      [] pc[k] = "teacher"   -> TeacherOps(k)
      [] pc[k] = "refresh"   -> RefreshOps(k)
      [] pc[k] = "new"       -> NewOps(k)
      [] pc[k] = "durations" -> DurationsOps
      [] OTHER               -> <<>>

\* Place l of the path holds no collective for rank k.
Clear(k, l) ==
    /\ l = 1 => mode = "plain"
    /\ l = 2 => mode = "plain" \/ GatherOps(k) = <<>>
    /\ l = 3 => LoopOps(k) = <<>>
    /\ \A m \in 1 .. NumMini : l # 3 * m + 1 /\ l # 3 * m + 2
    /\ l = 3 * NumMini + 4 => ~Deferred
    /\ l = 3 * NumMini + 5 => ~Deferred \/ TeacherOps(k) = <<>>
    /\ l = 3 * NumMini + 6 => ~Deferred \/ RefreshOps(k) = <<>>
    /\ l = 3 * NumMini + 7 => mode = "plain" \/ NewOps(k) = <<>>
    /\ l # 3 * NumMini + 8

Up(k) == pc[k] # "raised"

\* Two ranks at one place have the same collectives left; a rank ahead of
\* another has only passed places without collectives since, and has not
\* completed one where it is.
Sync(j, k) ==
    Up(j) /\ Up(k) =>
        /\ Loc(j) = Loc(k) => todo[j] = todo[k]
        /\ Loc(j) < Loc(k) => /\ todo[j] = <<>>
                              /\ todo[k] = OpsNow(k)
                              /\ \A l \in (Loc(j) + 1) .. (Loc(k) - 1) : Clear(k, l)

\* The exchanged cases and the broadcast scores have reached rank k.
CasesKnown(k) == mode # "plain" /\ pc[k] \notin {"begin", "raised"} /\ (pc[k] = "probe" => todo[k] = <<>>)
ScoresKnown(k) == Deferred /\ pc[k] \in Epilogue /\ (pc[k] = "score" => todo[k] = <<>>)

\* What the ranks have learned in the same collectives is the same.
Agree(j, k) ==
    /\ records[j] = records[k] /\ counts[j] = counts[k]
    /\ Up(j) /\ Up(k) /\ mini[j] = mini[k] => cycles[j] = cycles[k]
    /\ CasesKnown(j) /\ CasesKnown(k) => cases[j] = cases[k]
    /\ ScoresKnown(j) /\ ScoresKnown(k) => shift[j] = shift[k]

\* What a rank has worked out for itself.
Own(k) ==
    /\ ScoresKnown(k) /\ pc[k] # "score" => selected[k] = SelectTrajectories(k)
    /\ pc[k] = "backward" /\ todo[k] = BackwardOps(mini[k]) => cycles[k] = 0

SyncInv ==
    /\ \A j, k \in Ranks : Sync(j, k) /\ Agree(j, k)
    /\ \A k \in Ranks : Own(k)

\* A place of the path is a stage.
LEMMA Places ==
    ASSUME Control, NEW k \in Ranks
    PROVE  /\ Loc(k) \in Nat /\ NumMini \in Nat /\ NumMini >= 1
           /\ Loc(k) = 0 <=> pc[k] = "begin"
           /\ Loc(k) = 1 <=> pc[k] = "probe"
           /\ Loc(k) = 2 <=> pc[k] = "gather"
           /\ \A m \in 0 .. NumMini : Loc(k) = 3 * m + 3 <=> pc[k] = "loop" /\ mini[k] = m
           /\ \A m \in 1 .. NumMini : Loc(k) = 3 * m + 1 <=> pc[k] = "backward" /\ mini[k] = m
           /\ \A m \in 1 .. NumMini : Loc(k) = 3 * m + 2 <=> pc[k] = "step" /\ mini[k] = m
           /\ Loc(k) = 3 * NumMini + 4 <=> pc[k] = "score"
           /\ Loc(k) = 3 * NumMini + 5 <=> pc[k] = "teacher"
           /\ Loc(k) = 3 * NumMini + 6 <=> pc[k] = "refresh"
           /\ Loc(k) = 3 * NumMini + 7 <=> pc[k] = "new"
           /\ Loc(k) = 3 * NumMini + 8 <=> pc[k] = "durations"
           /\ Loc(k) = 3 * NumMini + 9 <=> pc[k] = "done"
           /\ Loc(k) = 3 * NumMini + 10 <=> pc[k] = "raised"
  <1>1. /\ pc[k] \in Stages /\ mini[k] \in 0 .. NumMini /\ NumMini \in Nat /\ NumMini >= 1
        /\ pc[k] \in {"backward", "step"} => mini[k] >= 1
    BY RefreshAssumption DEF Control, Shape
  <1>2. CASE pc[k] = "begin"
    BY <1>1, <1>2 DEF Loc
  <1>3. CASE pc[k] = "probe"
    BY <1>1, <1>3 DEF Loc
  <1>4. CASE pc[k] = "gather"
    BY <1>1, <1>4 DEF Loc
  <1>5. CASE pc[k] = "loop"
    <2> DEFINE n == mini[k]
               v == Loc(k)
    <2>1. v = 3 * n + 3 /\ n \in 0 .. NumMini
      BY <1>1, <1>5 DEF Loc
    <2>. HIDE DEF n, v
    <2>2. \A m \in 0 .. NumMini : v = 3 * m + 3 <=> n = m
      BY <1>1, <2>1
    <2>3. \A m \in 1 .. NumMini : v # 3 * m + 1 /\ v # 3 * m + 2
      BY <1>1, <2>1
    <2>4. v \in Nat /\ v \notin {0, 1, 2} /\ v <= 3 * NumMini + 3
      BY <1>1, <2>1
    <2>. QED BY <1>1, <1>5, <2>2, <2>3, <2>4 DEF n, v
  <1>6. CASE pc[k] = "backward"
    BY <1>1, <1>6 DEF Loc
  <1>7. CASE pc[k] = "step"
    BY <1>1, <1>7 DEF Loc
  <1>8. CASE pc[k] = "score"
    BY <1>1, <1>8 DEF Loc
  <1>9. CASE pc[k] = "teacher"
    BY <1>1, <1>9 DEF Loc
  <1>10. CASE pc[k] = "refresh"
    BY <1>1, <1>10 DEF Loc
  <1>11. CASE pc[k] = "new"
    BY <1>1, <1>11 DEF Loc
  <1>12. CASE pc[k] = "durations"
    BY <1>1, <1>12 DEF Loc
  <1>13. CASE pc[k] = "done"
    BY <1>1, <1>13 DEF Loc
  <1>14. CASE pc[k] = "raised"
    BY <1>1, <1>14 DEF Loc
  <1>. QED BY <1>1, <1>2, <1>3, <1>4, <1>5, <1>6, <1>7, <1>8, <1>9, <1>10, <1>11, <1>12, <1>13,
              <1>14 DEF Stages

\* A stage whose collectives are none is a clear place.
LEMMA EmptyIsClear ==
    ASSUME TypeInv, NEW k \in Ranks, Up(k), OpsNow(k) = <<>>
    PROVE  Clear(k, Loc(k))
  <1>0. /\ Control /\ pc[k] \in Stages /\ mini[k] \in 0 .. NumMini /\ Shape(k)
    BY DEF TypeInv, Control
  <1>1. pc[k] # "probe"
    BY DEF OpsNow, ProbeOps
  <1>2. pc[k] # "durations"
    BY DEF OpsNow, DurationsOps
  <1>3. pc[k] # "backward"
    BY BackwardOpsAre DEF OpsNow
  <1>4. pc[k] # "step"
    <2>1. pc[k] = "step" => mini[k] \in 1 .. NumMini
      BY <1>0 DEF Shape
    <2>. QED BY <2>1, StepOpsType DEF OpsNow
  <1>5. pc[k] # "score"
    BY LoopOpsType DEF OpsNow, TypeInv, Control, Probing
  <1>6. /\ Loc(k) \in Nat /\ NumMini \in Nat /\ NumMini >= 1
        /\ Loc(k) # 1 /\ Loc(k) # 3 * NumMini + 4 /\ Loc(k) # 3 * NumMini + 8
        /\ \A m \in 1 .. NumMini : Loc(k) # 3 * m + 1 /\ Loc(k) # 3 * m + 2
    BY <1>0, <1>1, <1>2, <1>3, <1>4, <1>5, Places
  <1>7. Loc(k) = 2 => GatherOps(k) = <<>>
    BY <1>0, Places DEF OpsNow
  <1>8. Loc(k) = 3 => LoopOps(k) = <<>>
    <2>1. Loc(k) = 3 * 0 + 3 => pc[k] = "loop" /\ mini[k] = 0
      BY <1>0, <1>6, Places
    <2>. QED BY <2>1 DEF OpsNow
  <1>9. /\ Loc(k) = 3 * NumMini + 5 => TeacherOps(k) = <<>>
        /\ Loc(k) = 3 * NumMini + 6 => RefreshOps(k) = <<>>
        /\ Loc(k) = 3 * NumMini + 7 => NewOps(k) = <<>>
    BY <1>0, Places DEF OpsNow
  <1>. QED BY <1>6, <1>7, <1>8, <1>9 DEF Clear

\* The collectives of a rank and its clear places depend on what it knows.
LEMMA OpsKept ==
    ASSUME NEW j \in Ranks, UNCHANGED <<mode, batch>>,
           cases'[j] = cases[j], records'[j] = records[j], counts'[j] = counts[j],
           selected'[j] = selected[j]
    PROVE  /\ Deferred' = Deferred
           /\ GatherOps(j)' = GatherOps(j) /\ LoopOps(j)' = LoopOps(j) /\ ScoreOps(j)' = ScoreOps(j)
           /\ TeacherOps(j)' = TeacherOps(j) /\ RefreshOps(j)' = RefreshOps(j) /\ NewOps(j)' = NewOps(j)
           /\ \A l : Clear(j, l)' <=> Clear(j, l)
  <1>1. Deferred' = Deferred /\ Positive' = Positive
    BY DEF Deferred, Positive
  <1>2. /\ GatherOps(j)' = GatherOps(j) /\ LoopOps(j)' = LoopOps(j) /\ ScoreOps(j)' = ScoreOps(j)
        /\ TeacherOps(j)' = TeacherOps(j) /\ RefreshOps(j)' = RefreshOps(j) /\ NewOps(j)' = NewOps(j)
    <2>1. GatherOps(j)' = GatherOps(j) /\ RefreshOps(j)' = RefreshOps(j) /\ NewOps(j)' = NewOps(j)
      BY <1>1 DEF GatherOps, RefreshOps, NewOps, Forwards
    <2>2. RecordCases(records[j], Positive)' = RecordCases(records[j], Positive)
      BY <1>1 DEF RecordCases
    <2>3. RecordCases(selected[j], Keys)' = RecordCases(selected[j], Keys)
      BY DEF RecordCases, Keys
    <2>4. LoopOps(j)' = LoopOps(j) /\ ScoreOps(j)' = ScoreOps(j)
      BY <1>1, <2>2 DEF LoopOps, ScoreOps, Forwards
    <2>5. TeacherOps(j)' = TeacherOps(j)
      BY <2>3 DEF TeacherOps, Forwards
    <2>. QED BY <2>1, <2>4, <2>5
  <1>3. ASSUME NEW l PROVE Clear(j, l)' <=> Clear(j, l)
    BY <1>1, <1>2 DEF Clear
  <1>. QED BY <1>1, <1>2, <1>3

\* A rank whose own state stays as it is keeps its place and its collectives.
LEMMA Kept ==
    ASSUME NEW j \in Ranks, UNCHANGED <<mode, batch>>,
           pc'[j] = pc[j], mini'[j] = mini[j], cycles'[j] = cycles[j],
           cases'[j] = cases[j], records'[j] = records[j], counts'[j] = counts[j],
           selected'[j] = selected[j]
    PROVE  /\ Loc(j)' = Loc(j) /\ OpsNow(j)' = OpsNow(j) /\ (Up(j)' <=> Up(j))
           /\ \A l : Clear(j, l)' <=> Clear(j, l)
  <1>1. /\ Deferred' = Deferred
        /\ GatherOps(j)' = GatherOps(j) /\ LoopOps(j)' = LoopOps(j) /\ ScoreOps(j)' = ScoreOps(j)
        /\ TeacherOps(j)' = TeacherOps(j) /\ RefreshOps(j)' = RefreshOps(j) /\ NewOps(j)' = NewOps(j)
        /\ \A l : Clear(j, l)' <=> Clear(j, l)
    BY OpsKept
  <1>2. BackwardOps(mini[j])' = BackwardOps(mini[j])
    BY <1>1 DEF BackwardOps
  <1>3. StepOps(j, mini[j])' = StepOps(j, mini[j])
    <2>1. Models(j, mini[j])' = Models(j, mini[j])
      BY DEF Models, HeadPass
    <2>2. Passes(j, mini[j])' = Passes(j, mini[j])
      BY <2>1 DEF Passes, MicroBatches
    <2>. QED BY <2>1, <2>2 DEF StepOps
  <1>4. Loc(j)' = Loc(j) /\ (Up(j)' <=> Up(j))
    BY DEF Loc, Up
  <1>5. OpsNow(j)' = OpsNow(j)
    BY <1>1, <1>2, <1>3 DEF OpsNow, ProbeOps, DurationsOps
  <1>. QED BY <1>1, <1>4, <1>5

\* A rank that goes on from a to b, where no rank is in between, keeps in step
\* with every other one.
LEMMA Advance ==
    ASSUME TypeInv, \A i, j \in Ranks : Sync(i, j),
           NEW x \in Ranks, NEW a, NEW b \in Nat, a = Loc(x), b = Loc(x)', Up(x), Up(x)', a < b,
           todo[x] = <<>>, todo'[x] = OpsNow(x)',
           \A j \in Ranks : j # x =>
             /\ Loc(j)' = Loc(j) /\ OpsNow(j)' = OpsNow(j) /\ (Up(j)' <=> Up(j)) /\ todo'[j] = todo[j]
             /\ \A l : Clear(j, l)' <=> Clear(j, l),
           \A l \in (a + 1) .. (b - 1) : Clear(x, l)',
           \A l \in 0 .. a : Clear(x, l) => Clear(x, l)',
           \A j \in Ranks : j # x /\ Up(j) /\ Loc(j) > a =>
             /\ Loc(j) >= b
             /\ Loc(j) = b => OpsNow(j) = OpsNow(x)'
             /\ Loc(j) > b /\ Clear(j, b) => OpsNow(x)' = <<>>
    PROVE  \A i, j \in Ranks : Sync(i, j)'
  <1>1. \A j \in Ranks : Loc(j) \in Nat /\ Loc(j)' \in Nat
    <2>1. \A j \in Ranks : Loc(j) \in Nat
      BY Places DEF TypeInv
    <2>. QED BY <2>1
  <1>2. ASSUME NEW j \in Ranks, j # x, Up(j), Loc(j) <= a
        PROVE  todo[j] = <<>> /\ \A l \in (Loc(j) + 1) .. (b - 1) : Clear(x, l)'
    <2>1. todo[j] = <<>>
      <3>1. CASE Loc(j) = a
        BY <1>2, <3>1 DEF Sync
      <3>2. CASE Loc(j) < a
        BY <1>2, <3>2 DEF Sync
      <3>. QED BY <1>1, <1>2, <3>1, <3>2
    <2>2. ASSUME NEW l \in (Loc(j) + 1) .. (b - 1) PROVE Clear(x, l)'
      <3>0. Loc(j) \in Nat /\ a \in Nat /\ b \in Nat /\ l \in Int
        BY <1>1
      <3>1. CASE l > a
        BY <2>2, <3>0, <3>1
      <3>2. CASE l <= a
        <4>1. Loc(j) < a /\ l \in 0 .. a
          BY <2>2, <3>0, <3>2
        <4>2. todo[x] = OpsNow(x) /\ \A h \in (Loc(j) + 1) .. (a - 1) : Clear(x, h)
          BY <1>2, <4>1 DEF Sync
        <4>3. Clear(x, a)
          BY <4>2, EmptyIsClear
        <4>4. Clear(x, l)
          BY <2>2, <3>0, <3>2, <4>2, <4>3
        <4>. QED BY <4>1, <4>4
      <3>. QED BY <3>0, <3>1, <3>2
    <2>. QED BY <2>1, <2>2
  <1>3. ASSUME NEW j \in Ranks, j # x, Up(j), Loc(j) > a
        PROVE  /\ Loc(j) >= b
               /\ Loc(j) = b => todo[j] = todo'[x]
               /\ Loc(j) > b => todo'[x] = <<>> /\ todo[j] = OpsNow(j)
                                /\ \A l \in (b + 1) .. (Loc(j) - 1) : Clear(j, l)
    <2>1. todo[j] = OpsNow(j) /\ \A l \in (a + 1) .. (Loc(j) - 1) : Clear(j, l)
      BY <1>3 DEF Sync
    <2>2. Loc(j) \in Nat /\ a \in Nat /\ b \in Nat /\ Loc(j) >= b
      BY <1>1, <1>3
    <2>3. Loc(j) = b => todo[j] = todo'[x]
      BY <1>3, <2>1
    <2>4. Loc(j) > b => Clear(j, b) /\ \A l \in (b + 1) .. (Loc(j) - 1) : Clear(j, l)
      BY <2>1, <2>2
    <2>5. Loc(j) > b => todo'[x] = <<>>
      BY <1>3, <2>4
    <2>. QED BY <2>1, <2>2, <2>3, <2>4, <2>5
  <1>4. ASSUME NEW j \in Ranks, j # x PROVE Sync(j, x)' /\ Sync(x, j)'
    <2>0. /\ Loc(j)' = Loc(j) /\ OpsNow(j)' = OpsNow(j) /\ (Up(j)' <=> Up(j)) /\ todo'[j] = todo[j]
          /\ \A l : Clear(j, l)' <=> Clear(j, l)
          /\ Loc(j) \in Nat /\ a \in Nat /\ b \in Nat
      BY <1>1, <1>4
    <2>1. CASE ~Up(j)
      BY <2>0, <2>1 DEF Sync
    <2>2. CASE Up(j) /\ Loc(j) <= a
      <3>1. Loc(j)' < Loc(x)'
        BY <2>0, <2>2
      <3>2. todo'[j] = <<>> /\ \A l \in (Loc(j)' + 1) .. (Loc(x)' - 1) : Clear(x, l)'
        BY <1>2, <1>4, <2>0, <2>2
      <3>3. ~(Loc(x)' < Loc(j)') /\ Loc(x)' # Loc(j)'
        BY <2>0, <2>2
      <3>. QED BY <3>1, <3>2, <3>3 DEF Sync
    <2>3. CASE Up(j) /\ Loc(j) > a
      <3>1. /\ Loc(j) >= b
            /\ Loc(j) = b => todo[j] = todo'[x]
            /\ Loc(j) > b => todo'[x] = <<>> /\ todo[j] = OpsNow(j)
                             /\ \A l \in (b + 1) .. (Loc(j) - 1) : Clear(j, l)
        BY <1>3, <1>4, <2>3
      <3>2. ~(Loc(j)' < Loc(x)')
        BY <2>0, <3>1
      <3>3. Loc(x)' = Loc(j)' => todo'[j] = todo'[x]
        BY <2>0, <3>1
      <3>4. Loc(x)' < Loc(j)' => /\ todo'[x] = <<>> /\ todo'[j] = OpsNow(j)'
                                 /\ \A l \in (Loc(x)' + 1) .. (Loc(j)' - 1) : Clear(j, l)'
        BY <2>0, <3>1
      <3>. QED BY <3>2, <3>3, <3>4 DEF Sync
    <2>. QED BY <2>0, <2>1, <2>2, <2>3
  <1>5. ASSUME NEW i \in Ranks, NEW j \in Ranks, i # x, j # x PROVE Sync(i, j)'
    <2>1. Sync(i, j)
      OBVIOUS
    <2>2. /\ Loc(j)' = Loc(j) /\ OpsNow(j)' = OpsNow(j) /\ (Up(j)' <=> Up(j)) /\ todo'[j] = todo[j]
          /\ \A l : Clear(j, l)' <=> Clear(j, l)
          /\ Loc(i)' = Loc(i) /\ (Up(i)' <=> Up(i)) /\ todo'[i] = todo[i]
      BY <1>5
    <2>. QED BY <2>1, <2>2 DEF Sync
  <1>6. Sync(x, x)'
    BY <1>1 DEF Sync
  <1>. QED BY <1>4, <1>5, <1>6

LEMMA LocalAdvance ==
    ASSUME TypeInv, SyncInv, NEW x \in Ranks, Local(x), NEW b \in Nat, b = Loc(x)', Up(x), Up(x)',
           Loc(x) < b, todo[x] = <<>>, todo'[x] = OpsNow(x)',
           \A l \in (Loc(x) + 1) .. (b - 1) : Clear(x, l)',
           \A l \in 0 .. Loc(x) : Clear(x, l) => Clear(x, l)',
           \A j \in Ranks : j # x /\ Up(j) /\ Loc(j) > Loc(x) =>
             /\ Loc(j) >= b
             /\ Loc(j) = b => OpsNow(j) = OpsNow(x)'
             /\ Loc(j) > b /\ Clear(j, b) => OpsNow(x)' = <<>>
    PROVE  \A i, j \in Ranks : Sync(i, j)'
  <1> DEFINE a == Loc(x)
  <1>1. ASSUME NEW j \in Ranks, j # x
        PROVE  /\ Loc(j)' = Loc(j) /\ OpsNow(j)' = OpsNow(j) /\ (Up(j)' <=> Up(j)) /\ todo'[j] = todo[j]
               /\ \A l : Clear(j, l)' <=> Clear(j, l)
    <2>1. /\ pc'[j] = pc[j] /\ mini'[j] = mini[j] /\ cycles'[j] = cycles[j] /\ todo'[j] = todo[j]
          /\ cases'[j] = cases[j] /\ records'[j] = records[j] /\ counts'[j] = counts[j]
          /\ selected'[j] = selected[j]
      BY <1>1, LocalOthers
    <2>2. UNCHANGED <<mode, batch>>
      BY LocalFrame
    <2>. QED BY <2>1, <2>2, Kept
  <1>2. \A i, j \in Ranks : Sync(i, j)
    BY DEF SyncInv
  <1>3. a = Loc(x)
    OBVIOUS
  <1>. HIDE DEF a
  <1>. QED BY <1>1, <1>2, <1>3, Advance

InStep == \A i, j \in Ranks : Sync(i, j)

LEMMA CaptureProbeSync ==
    ASSUME TypeInv, SyncInv, NEW x \in Ranks, CaptureProbe(x)
    PROVE  InStep'
  <1>1. /\ pc[x] = "begin" /\ todo[x] = <<>> /\ mode # "plain" /\ mode' = mode
        /\ pc'[x] = "probe" /\ todo'[x] = ProbeOps
    BY DEF CaptureProbe, Goto, TypeInv, Control, ProbeOps
  <1>2. Loc(x) = 0 /\ Loc(x)' = 1 /\ Up(x) /\ Up(x)' /\ OpsNow(x)' = ProbeOps /\ Local(x)
    BY <1>1 DEF Loc, Up, OpsNow, Local, ProbeOps
  <1>3. \A l \in 0 .. Loc(x) : Clear(x, l)'
    BY <1>2, RefreshAssumption DEF Clear
  <1>4. ASSUME NEW j \in Ranks, Loc(j) > Loc(x)
        PROVE  /\ Loc(j) >= 1
               /\ Loc(j) = 1 => OpsNow(j) = OpsNow(x)'
               /\ ~Clear(j, 1)
    <2>1. Loc(j) \in Nat /\ (Loc(j) = 1 => pc[j] = "probe")
      BY Places DEF TypeInv
    <2>. QED BY <1>1, <1>2, <1>4, <2>1 DEF OpsNow, Clear
  <1>5. 1 \in Nat /\ Loc(x) < 1 /\ \A l \in (Loc(x) + 1) .. (1 - 1) : Clear(x, l)'
    BY <1>2
  <1>. QED BY <1>1, <1>2, <1>3, <1>4, <1>5, LocalAdvance DEF InStep

LEMMA EvaluateOldSync ==
    ASSUME TypeInv, SyncInv, NEW x \in Ranks, EvaluateOld(x)
    PROVE  InStep'
  <1>1. /\ pc[x] = "probe" /\ todo[x] = <<>> /\ UNCHANGED <<mode, batch, cases, records, counts, selected>>
        /\ pc'[x] = "gather" /\ todo'[x] = GatherOps(x) /\ mode # "plain"
    BY DEF EvaluateOld, Goto, TypeInv, Control, GatherOps, probing, scoring, Shape
  <1>2. GatherOps(x)' = GatherOps(x) /\ \A l : Clear(x, l)' <=> Clear(x, l)
    BY <1>1, OpsKept
  <1>3. Loc(x) = 1 /\ Loc(x)' = 2 /\ Up(x) /\ Up(x)' /\ OpsNow(x)' = GatherOps(x) /\ Local(x)
    BY <1>1, <1>2 DEF Loc, Up, OpsNow, Local
  <1>4. ASSUME NEW j \in Ranks, Up(j), Loc(j) > Loc(x)
        PROVE  /\ Loc(j) >= 2
               /\ Loc(j) = 2 => OpsNow(j) = OpsNow(x)'
               /\ Clear(j, 2) => OpsNow(x)' = <<>>
    <2>1. Loc(j) \in Nat /\ (Loc(j) = 2 => pc[j] = "gather") /\ pc[j] \notin {"begin", "probe"}
      BY <1>3, <1>4, Places DEF TypeInv
    <2>2. CasesKnown(x) /\ CasesKnown(j)
      BY <1>1, <1>4, <2>1 DEF CasesKnown, Up
    <2>3. cases[j] = cases[x]
      BY <2>2 DEF SyncInv, Agree
    <2>4. GatherOps(j) = GatherOps(x)
      BY <2>3 DEF GatherOps
    <2>. QED BY <1>1, <1>3, <1>4, <2>1, <2>4 DEF OpsNow, Clear
  <1>5. 2 \in Nat /\ Loc(x) < 2 /\ \A l \in (Loc(x) + 1) .. (2 - 1) : Clear(x, l)'
    BY <1>3
  <1>. QED BY <1>1, <1>2, <1>3, <1>4, <1>5, LocalAdvance DEF InStep

LEMMA CaptureShiftSync ==
    ASSUME TypeInv, SyncInv, NEW x \in Ranks, CaptureShift(x)
    PROVE  InStep'
  <1>1. /\ pc[x] = "gather" /\ todo[x] = <<>> /\ mini'[x] = 0
        /\ UNCHANGED <<mode, batch, cases, records, counts, selected>>
        /\ pc'[x] = "loop" /\ todo'[x] = LoopOps(x)
    BY DEF CaptureShift, Goto, TypeInv, Control, LoopOps, scoring, Shape, Prologue
  <1>2. LoopOps(x)' = LoopOps(x) /\ \A l : Clear(x, l)' <=> Clear(x, l)
    BY <1>1, OpsKept
  <1>3. Loc(x) = 2 /\ Loc(x)' = 3 /\ Up(x) /\ Up(x)' /\ OpsNow(x)' = LoopOps(x) /\ Local(x)
    BY <1>1, <1>2 DEF Loc, Up, OpsNow, Local
  <1>4. ASSUME NEW j \in Ranks, Up(j), Loc(j) > Loc(x)
        PROVE  /\ Loc(j) >= 3
               /\ Loc(j) = 3 => OpsNow(j) = OpsNow(x)'
               /\ Clear(j, 3) => OpsNow(x)' = <<>>
    <2>1. Loc(j) \in Nat /\ (Loc(j) = 3 * 0 + 3 => pc[j] = "loop" /\ mini[j] = 0)
      <3>1. Control /\ 0 \in 0 .. NumMini
        BY RefreshAssumption DEF TypeInv
      <3>. QED BY <3>1, Places
    <2>2. LoopOps(j) = LoopOps(x)
      BY DEF SyncInv, Agree, LoopOps
    <2>. QED BY <1>1, <1>3, <1>4, <2>1, <2>2 DEF OpsNow, Clear
  <1>5. 3 \in Nat /\ Loc(x) < 3 /\ \A l \in (Loc(x) + 1) .. (3 - 1) : Clear(x, l)'
    BY <1>3
  <1>. QED BY <1>1, <1>2, <1>3, <1>4, <1>5, LocalAdvance DEF InStep

LEMMA SkipProbeSync ==
    ASSUME TypeInv, SyncInv, NEW x \in Ranks, SkipProbe(x)
    PROVE  InStep'
  <1>1. /\ pc[x] = "begin" /\ todo[x] = <<>> /\ mini'[x] = 0 /\ mode = "plain"
        /\ UNCHANGED <<mode, batch, cases, records, counts, selected>>
        /\ pc'[x] = "loop" /\ todo'[x] = <<>>
    BY DEF SkipProbe, Goto, TypeInv, Control, probing, scoring, Shape, Prologue
  <1>2. \A j \in Ranks : LoopOps(j) = <<>> /\ LoopOps(j)' = <<>>
    BY <1>1 DEF LoopOps, Deferred
  <1>3. Loc(x) = 0 /\ Loc(x)' = 3 /\ Up(x) /\ Up(x)' /\ OpsNow(x)' = <<>> /\ Local(x)
    BY <1>1, <1>2 DEF Loc, Up, OpsNow, Local
  <1>4. ASSUME NEW j \in Ranks, Up(j), Loc(j) > Loc(x)
        PROVE  Loc(j) >= 3 /\ (Loc(j) = 3 => OpsNow(j) = OpsNow(x)')
    <2>1. Control /\ 0 \in 0 .. NumMini /\ Shape(j)
      BY RefreshAssumption DEF TypeInv, Control
    <2>2. /\ Loc(j) \in Nat /\ (Loc(j) = 3 * 0 + 3 => pc[j] = "loop" /\ mini[j] = 0)
          /\ (Loc(j) = 1 => pc[j] = "probe") /\ (Loc(j) = 2 => pc[j] = "gather")
      BY <2>1, Places
    <2>3. Loc(j) # 1 /\ Loc(j) # 2
      BY <1>1, <2>1, <2>2 DEF Shape
    <2>. QED BY <1>1, <1>2, <1>3, <1>4, <2>2, <2>3 DEF OpsNow
  <1>5. \A l \in {0, 1, 2} : Clear(x, l)'
    BY <1>1, RefreshAssumption DEF Clear
  <1>6. /\ 3 \in Nat /\ Loc(x) < 3 /\ \A l \in (Loc(x) + 1) .. (3 - 1) : Clear(x, l)'
        /\ \A l \in 0 .. Loc(x) : Clear(x, l)'
    BY <1>3, <1>5
  <1>. QED BY <1>1, <1>3, <1>4, <1>6, LocalAdvance DEF InStep

LEMMA TrainBatchSync ==
    ASSUME TypeInv, SyncInv, NEW x \in Ranks, TrainBatch(x)
    PROVE  InStep'
  <1> DEFINE m == mini[x] + 1
             b == 3 * m + 1
  <1>1. /\ pc[x] = "loop" /\ todo[x] = <<>> /\ mini'[x] = m /\ m \in 1 .. NumMini /\ NumMini \in Nat
        /\ UNCHANGED <<mode, batch, cases, records, counts, selected>> /\ mini[x] \in Nat
        /\ pc'[x] = "backward" /\ todo'[x] = BackwardOps(m)
    BY RefreshAssumption DEF TrainBatch, Goto, TypeInv, Control, probing, scoring, BackwardOps
  <1>2. (\A l : Clear(x, l)' <=> Clear(x, l)) /\ Deferred' = Deferred
    BY <1>1, OpsKept
  <1>3. /\ Loc(x) = 3 * mini[x] + 3 /\ Loc(x)' = b /\ Up(x) /\ Up(x)' /\ Local(x)
        /\ OpsNow(x)' = BackwardOps(m)
    BY <1>1, <1>2 DEF Loc, Up, OpsNow, Local, BackwardOps
  <1>4. b \in Nat /\ b = Loc(x) + 1
    BY <1>1, <1>3
  <1>5. ASSUME NEW j \in Ranks, Up(j), Loc(j) > Loc(x)
        PROVE  /\ Loc(j) >= b /\ (Loc(j) = b => OpsNow(j) = OpsNow(x)') /\ ~Clear(j, b)
    <2>1. Loc(j) \in Nat /\ (Loc(j) = 3 * m + 1 => pc[j] = "backward" /\ mini[j] = m)
      BY <1>1, Places DEF TypeInv
    <2>2. ~Clear(j, b)
      BY <1>1 DEF Clear
    <2>3. Loc(j) >= b
      BY <1>4, <1>5, <2>1, <1>1, <1>3
    <2>. QED BY <1>3, <2>1, <2>2, <2>3 DEF OpsNow
  <1>6. Loc(x) < b /\ \A l \in (Loc(x) + 1) .. (b - 1) : Clear(x, l)'
    BY <1>1, <1>3, <1>4
  <1>. HIDE DEF b
  <1>. QED BY <1>1, <1>2, <1>3, <1>4, <1>5, <1>6, LocalAdvance DEF InStep

LEMMA ForwardBackwardSync ==
    ASSUME TypeInv, SyncInv, NEW x \in Ranks, ForwardBackward(x)
    PROVE  InStep'
  <1> DEFINE m == mini[x]
             b == 3 * m + 2
  <1>1. Goto(x, "backward", "step", StepOps(x, m)) /\ UNCHANGED <<mode, batch, mini, probing, cycles, scoring>>
    BY Zenon DEF ForwardBackward, StepOps, Passes, Models
  <1>2. /\ pc[x] = "backward" /\ todo[x] = <<>> /\ mini'[x] = m /\ m \in 1 .. NumMini /\ NumMini \in Nat
        /\ UNCHANGED <<mode, batch, cases, records, counts, selected, cycles>>
        /\ pc'[x] = "step" /\ todo'[x] = StepOps(x, m)
    BY <1>1, RefreshAssumption DEF Goto, TypeInv, Control, probing, scoring, Shape
  <1>3. (\A l : Clear(x, l)' <=> Clear(x, l)) /\ StepOps(x, m)' = StepOps(x, m)
    <2>1. \A l : Clear(x, l)' <=> Clear(x, l)
      BY <1>2, OpsKept
    <2>2. Models(x, mini[x])' = Models(x, mini[x])
      BY <1>1, <1>2 DEF Models, HeadPass
    <2>3. Passes(x, mini[x])' = Passes(x, mini[x])
      BY <1>2, <2>2 DEF Passes, MicroBatches
    <2>. QED BY <1>2, <2>1, <2>2, <2>3 DEF StepOps
  <1>4. /\ Loc(x) = 3 * m + 1 /\ Loc(x)' = b /\ Up(x) /\ Up(x)' /\ Local(x)
        /\ OpsNow(x)' = StepOps(x, m)
    BY <1>2, <1>3 DEF Loc, Up, OpsNow, Local
  <1>5. b \in Nat /\ b = Loc(x) + 1
    BY <1>2, <1>4
  <1>6. ASSUME NEW j \in Ranks, Up(j), Loc(j) > Loc(x)
        PROVE  /\ Loc(j) >= b /\ (Loc(j) = b => OpsNow(j) = OpsNow(x)') /\ ~Clear(j, b)
    <2>1. Loc(j) \in Nat /\ (Loc(j) = 3 * m + 2 => pc[j] = "step" /\ mini[j] = m)
      BY <1>2, Places DEF TypeInv
    <2>2. ~Clear(j, b)
      BY <1>2 DEF Clear
    <2>3. Loc(j) >= b
      BY <1>2, <1>4, <1>5, <1>6, <2>1
    <2>4. ASSUME Loc(j) = b PROVE OpsNow(j) = StepOps(x, m)
      <3>1. cycles[j] = cycles[x]
        BY <1>4, <1>6, <2>1, <2>4 DEF SyncInv, Agree
      <3>2. Models(j, m) = Models(x, m)
        BY <3>1 DEF Models, HeadPass
      <3>3. Passes(j, m) = Passes(x, m)
        BY <3>2 DEF Passes
      <3>4. StepOps(j, m) = StepOps(x, m)
        BY <3>2, <3>3 DEF StepOps
      <3>. QED BY <2>1, <2>4, <3>4 DEF OpsNow
    <2>. QED BY <1>4, <2>2, <2>3, <2>4
  <1>7. Loc(x) < b /\ \A l \in (Loc(x) + 1) .. (b - 1) : Clear(x, l)'
    BY <1>2, <1>4, <1>5
  <1>. HIDE DEF b
  <1>. QED BY <1>2, <1>3, <1>4, <1>5, <1>6, <1>7, LocalAdvance DEF InStep

LEMMA EndBatchSync ==
    ASSUME TypeInv, SyncInv, NEW x \in Ranks, EndBatch(x)
    PROVE  InStep'
  <1> DEFINE m == mini[x]
             b == 3 * m + 3
  <1>1. /\ pc[x] = "step" /\ todo[x] = <<>> /\ mini'[x] = m /\ m \in 1 .. NumMini /\ NumMini \in Nat
        /\ UNCHANGED <<mode, batch, cases, records, counts, selected>>
        /\ pc'[x] = "loop" /\ todo'[x] = <<>>
    BY RefreshAssumption DEF EndBatch, Goto, TypeInv, Control, probing, scoring, Shape
  <1>2. \A l : Clear(x, l)' <=> Clear(x, l)
    BY <1>1, OpsKept
  <1>3. Loc(x) = 3 * m + 2 /\ Loc(x)' = b /\ Up(x) /\ Up(x)' /\ Local(x) /\ OpsNow(x)' = <<>>
    BY <1>1 DEF Loc, Up, OpsNow, Local
  <1>4. b \in Nat /\ b = Loc(x) + 1
    BY <1>1, <1>3
  <1>5. ASSUME NEW j \in Ranks, Up(j), Loc(j) > Loc(x)
        PROVE  Loc(j) >= b /\ (Loc(j) = b => OpsNow(j) = OpsNow(x)')
    <2>1. Loc(j) \in Nat /\ (Loc(j) = 3 * m + 3 => pc[j] = "loop" /\ mini[j] = m)
      <3>1. Control /\ m \in 0 .. NumMini
        BY <1>1 DEF TypeInv
      <3>. QED BY <3>1, Places
    <2>2. Loc(j) >= b
      BY <1>1, <1>3, <1>4, <1>5, <2>1
    <2>. QED BY <1>1, <1>3, <2>1, <2>2 DEF OpsNow
  <1>6. Loc(x) < b /\ \A l \in (Loc(x) + 1) .. (b - 1) : Clear(x, l)'
    BY <1>1, <1>3, <1>4
  <1>. HIDE DEF b
  <1>. QED BY <1>1, <1>2, <1>3, <1>4, <1>5, <1>6, LocalAdvance DEF InStep

LEMMA ScoreShiftSync ==
    ASSUME TypeInv, SyncInv, NEW x \in Ranks, ScoreShift(x)
    PROVE  InStep'
  <1> DEFINE b == 3 * NumMini + 4
  <1>1. /\ pc[x] = "loop" /\ todo[x] = <<>> /\ mini[x] = NumMini /\ NumMini \in Nat /\ NumMini >= 1
        /\ UNCHANGED <<mode, batch, cases, records, counts, selected>> /\ Deferred
        /\ pc'[x] = "score" /\ todo'[x] = ScoreOps(x)
    BY RefreshAssumption DEF ScoreShift, Goto, TypeInv, Control, probing, ScoreOps
  <1>2. (\A l : Clear(x, l)' <=> Clear(x, l)) /\ ScoreOps(x)' = ScoreOps(x)
    BY <1>1, OpsKept
  <1>3. /\ Loc(x) = 3 * NumMini + 3 /\ Loc(x)' = b /\ Up(x) /\ Up(x)' /\ Local(x)
        /\ OpsNow(x)' = ScoreOps(x)
    BY <1>1, <1>2 DEF Loc, Up, OpsNow, Local
  <1>4. b \in Nat /\ b = Loc(x) + 1
    BY <1>1, <1>3
  <1>5. ASSUME NEW j \in Ranks, Up(j), Loc(j) > Loc(x)
        PROVE  /\ Loc(j) >= b /\ (Loc(j) = b => OpsNow(j) = OpsNow(x)') /\ ~Clear(j, b)
    <2>1. Loc(j) \in Nat /\ (Loc(j) = b => pc[j] = "score")
      BY Places DEF TypeInv
    <2>2. ~Clear(j, b)
      BY <1>1 DEF Clear
    <2>3. Loc(j) >= b
      BY <1>1, <1>3, <1>4, <1>5, <2>1
    <2>4. ScoreOps(j) = ScoreOps(x)
      BY DEF SyncInv, Agree, ScoreOps
    <2>. QED BY <1>3, <2>1, <2>2, <2>3, <2>4 DEF OpsNow
  <1>6. Loc(x) < b /\ \A l \in (Loc(x) + 1) .. (b - 1) : Clear(x, l)'
    BY <1>1, <1>3, <1>4
  <1>. HIDE DEF b
  <1>. QED BY <1>1, <1>2, <1>3, <1>4, <1>5, <1>6, LocalAdvance DEF InStep

\* The selection depends on the records and the scores.
Selection(q, d) ==
    LET score(r) == Max({batch[r].advantage, 0}) * d[r]
        positive == {r \in ToSet(q) : score(r) > 0}
        count == Min({Cardinality(positive), (FracNum * Len(q) + FracDen - 1) \div FracDen})
        better(a, b) == score(a) > score(b) \/ (score(a) = score(b) /\ Before(a, b))
    IN  SubSeq(InOrder(positive, better), 1, count)

LEMMA SameSelection ==
    ASSUME NEW j \in Ranks, NEW k \in Ranks, records[j] = records[k], shift[j] = shift[k]
    PROVE  SelectTrajectories(j) = SelectTrajectories(k)
  <1>1. \A i : SelectTrajectories(i) = Selection(records[i], shift[i])
    BY Zenon DEF SelectTrajectories, Selection, Score, InOrder
  <1>. QED BY <1>1

LEMMA MixedTeacherBatchSync ==
    ASSUME TypeInv, SyncInv, NEW x \in Ranks, MixedTeacherBatch(x)
    PROVE  InStep'
  <1> DEFINE b == 3 * NumMini + 5
             ops == Forwards("teacher", RecordCases(SelectTrajectories(x), Keys))
  <1>1. /\ selected' = [selected EXCEPT ![x] = SelectTrajectories(x)]
        /\ Goto(x, "score", "teacher", Forwards("teacher", RecordCases(selected'[x], Keys)))
        /\ UNCHANGED <<mode, batch, mini, probing, cycles, shift, cache, at, optimizer>>
    BY DEF MixedTeacherBatch
  <1>2. /\ pc[x] = "score" /\ todo[x] = <<>> /\ NumMini \in Nat /\ NumMini >= 1
        /\ UNCHANGED <<mode, batch, cases, records, counts>> /\ Deferred
        /\ selected'[x] = SelectTrajectories(x)
        /\ pc'[x] = "teacher" /\ todo'[x] = ops
    BY <1>1, RefreshAssumption DEF Goto, TypeInv, Control, Scoring, probing, Shape
  <1>3. TeacherOps(x)' = ops
    <2>1. RecordCases(selected[x], Keys)' = RecordCases(SelectTrajectories(x), Keys)
      BY <1>2 DEF RecordCases, Keys
    <2>. QED BY <2>1 DEF TeacherOps, Forwards
  <1>4. /\ Loc(x) = 3 * NumMini + 4 /\ Loc(x)' = b /\ Up(x) /\ Up(x)' /\ Local(x) /\ OpsNow(x)' = ops
    BY <1>2, <1>3 DEF Loc, Up, OpsNow, Local
  <1>5. b \in Nat /\ b = Loc(x) + 1
    BY <1>2, <1>4
  <1>6. ASSUME NEW l \in 0 .. Loc(x), Clear(x, l) PROVE Clear(x, l)'
    <2>1. /\ Deferred' = Deferred
          /\ GatherOps(x)' = GatherOps(x) /\ LoopOps(x)' = LoopOps(x)
      <3>1. Deferred' = Deferred /\ Positive' = Positive
        BY <1>2 DEF Deferred, Positive
      <3>2. GatherOps(x)' = GatherOps(x)
        BY <1>2, <3>1 DEF GatherOps, Forwards
      <3>3. RecordCases(records[x], Positive)' = RecordCases(records[x], Positive)
        BY <1>2, <3>1 DEF RecordCases
      <3>4. LoopOps(x)' = LoopOps(x)
        BY <3>1, <3>3 DEF LoopOps, Forwards
      <3>. QED BY <3>1, <3>2, <3>4
    <2>2. /\ l # 3 * NumMini + 5 /\ l # 3 * NumMini + 6 /\ l # 3 * NumMini + 7
      BY <1>2, <1>4
    <2>. QED BY <1>2, <1>6, <2>1, <2>2 DEF Clear
  <1>7. ASSUME NEW j \in Ranks, Up(j), Loc(j) > Loc(x)
        PROVE  /\ Loc(j) >= b /\ (Loc(j) = b => OpsNow(j) = OpsNow(x)')
               /\ Clear(j, b) => OpsNow(x)' = <<>>
    <2>1. /\ Loc(j) \in Nat /\ (Loc(j) = b => pc[j] = "teacher")
          /\ pc[j] \in {"teacher", "refresh", "new", "durations", "done"}
      <3>1. Control /\ pc[j] \in Stages /\ mini[j] \in 0 .. NumMini
        BY DEF TypeInv, Control
      <3>2. Loc(j) \in Nat /\ (Loc(j) = b => pc[j] = "teacher")
        BY <3>1, Places
      <3>3. pc[j] \notin {"begin", "probe", "gather", "loop", "backward", "step", "score"}
        BY <1>2, <1>4, <1>7, <3>1 DEF Loc
      <3>. QED BY <1>7, <3>1, <3>2, <3>3 DEF Up, Stages
    <2>2. Loc(j) >= b
      BY <1>2, <1>4, <1>5, <1>7, <2>1
    <2>3. ScoresKnown(j) /\ ScoresKnown(x)
      BY <1>2, <2>1 DEF ScoresKnown, Epilogue
    <2>4. selected[j] = SelectTrajectories(j) /\ records[j] = records[x] /\ shift[j] = shift[x]
      BY <2>1, <2>3 DEF SyncInv, Own, Agree
    <2>5. selected[j] = SelectTrajectories(x)
      BY <2>4, SameSelection
    <2>6. TeacherOps(j) = ops
      BY <2>5 DEF TeacherOps
    <2>7. Clear(j, b) => TeacherOps(j) = <<>>
      BY <1>2 DEF Clear
    <2>. QED BY <1>4, <2>1, <2>2, <2>6, <2>7 DEF OpsNow
  <1>8. Loc(x) < b /\ \A l \in (Loc(x) + 1) .. (b - 1) : Clear(x, l)'
    BY <1>2, <1>4, <1>5
  <1>. HIDE DEF b, ops
  <1>. QED BY <1>2, <1>4, <1>5, <1>6, <1>7, <1>8, LocalAdvance DEF InStep

LEMMA RefreshSync ==
    ASSUME TypeInv, SyncInv, NEW x \in Ranks, RefreshDraftTeacher(x)
    PROVE  InStep'
  <1> DEFINE b == 3 * NumMini + 6
  <1>1. /\ pc[x] = "teacher" /\ todo[x] = <<>> /\ NumMini \in Nat /\ NumMini >= 1
        /\ UNCHANGED <<mode, batch, cases, records, counts, selected>> /\ Deferred
        /\ pc'[x] = "refresh" /\ todo'[x] = RefreshOps(x)
    BY RefreshAssumption
       DEF RefreshDraftTeacher, Goto, TypeInv, Control, probing, scoring, Shape, RefreshOps
  <1>2. (\A l : Clear(x, l)' <=> Clear(x, l)) /\ RefreshOps(x)' = RefreshOps(x)
    BY <1>1, OpsKept
  <1>3. /\ Loc(x) = 3 * NumMini + 5 /\ Loc(x)' = b /\ Up(x) /\ Up(x)' /\ Local(x)
        /\ OpsNow(x)' = RefreshOps(x)
    BY <1>1, <1>2 DEF Loc, Up, OpsNow, Local
  <1>4. b \in Nat /\ b = Loc(x) + 1
    BY <1>1, <1>3
  <1>5. ASSUME NEW j \in Ranks, Up(j), Loc(j) > Loc(x)
        PROVE  /\ Loc(j) >= b /\ (Loc(j) = b => OpsNow(j) = OpsNow(x)')
               /\ Clear(j, b) => OpsNow(x)' = <<>>
    <2>1. Loc(j) \in Nat /\ (Loc(j) = b => pc[j] = "refresh")
      BY Places DEF TypeInv
    <2>2. Loc(j) >= b
      BY <1>1, <1>3, <1>4, <1>5, <2>1
    <2>3. RefreshOps(j) = RefreshOps(x)
      BY DEF SyncInv, Agree, RefreshOps
    <2>4. Clear(j, b) => RefreshOps(j) = <<>>
      BY <1>1 DEF Clear
    <2>. QED BY <1>3, <2>1, <2>2, <2>3, <2>4 DEF OpsNow
  <1>6. Loc(x) < b /\ \A l \in (Loc(x) + 1) .. (b - 1) : Clear(x, l)'
    BY <1>1, <1>3, <1>4
  <1>. HIDE DEF b
  <1>. QED BY <1>1, <1>2, <1>3, <1>4, <1>5, <1>6, LocalAdvance DEF InStep

\* The repeated probe, reached from the refresh or directly.
LEMMA NewSync ==
    ASSUME TypeInv, SyncInv, NEW x \in Ranks, RestoreRate(x) \/ EvaluateNew(x)
    PROVE  InStep'
  <1> DEFINE b == 3 * NumMini + 7
  <1>1. /\ todo[x] = <<>> /\ NumMini \in Nat /\ NumMini >= 1
        /\ UNCHANGED <<mode, batch, cases, records, counts, selected>> /\ mode # "plain"
        /\ pc'[x] = "new" /\ todo'[x] = NewOps(x)
        /\ \/ pc[x] = "refresh"
           \/ pc[x] = "loop" /\ mini[x] = NumMini /\ ~Deferred
    BY RefreshAssumption
       DEF RestoreRate, EvaluateNew, Goto, TypeInv, Control, probing, scoring, Shape, NewOps, Deferred
  <1>2. (\A l : Clear(x, l)' <=> Clear(x, l)) /\ NewOps(x)' = NewOps(x)
    BY <1>1, OpsKept
  <1>3. /\ Loc(x)' = b /\ Up(x) /\ Up(x)' /\ Local(x) /\ OpsNow(x)' = NewOps(x)
        /\ Loc(x) \in {3 * NumMini + 3, 3 * NumMini + 6}
        /\ Loc(x) = 3 * NumMini + 3 => ~Deferred
    BY <1>1, <1>2 DEF Loc, Up, OpsNow, Local
  <1>4. b \in Nat /\ Loc(x) < b
    BY <1>1, <1>3
  <1>5. ASSUME NEW j \in Ranks, Up(j), Loc(j) > Loc(x)
        PROVE  /\ Loc(j) >= b /\ (Loc(j) = b => OpsNow(j) = OpsNow(x)')
               /\ Clear(j, b) => OpsNow(x)' = <<>>
    <2>0. Control /\ Shape(j) /\ pc[j] \in Stages /\ mini[j] \in 0 .. NumMini
      BY DEF TypeInv, Control
    <2>1. /\ Loc(j) \in Nat /\ (Loc(j) = b => pc[j] = "new")
          /\ (Loc(j) = 3 * NumMini + 4 => pc[j] = "score")
          /\ (Loc(j) = 3 * NumMini + 5 => pc[j] = "teacher")
          /\ (Loc(j) = 3 * NumMini + 6 => pc[j] = "refresh")
      BY <2>0, Places
    <2>2. Loc(j) >= b
      <3>1. CASE Loc(x) = 3 * NumMini + 6
        BY <1>1, <1>5, <2>1, <3>1
      <3>2. CASE Loc(x) = 3 * NumMini + 3
        <4>1. Loc(j) \notin {3 * NumMini + 4, 3 * NumMini + 5, 3 * NumMini + 6}
          BY <1>3, <2>0, <2>1, <3>2 DEF Shape
        <4>. QED BY <1>1, <1>5, <2>1, <3>2, <4>1
      <3>. QED BY <1>3, <3>1, <3>2
    <2>3. NewOps(j) = NewOps(x)
      <3>1. pc[j] \notin {"begin", "probe"}
        BY <1>1, <2>2 DEF Loc
      <3>2. CasesKnown(j) /\ CasesKnown(x)
        BY <1>1, <1>5, <3>1 DEF CasesKnown, Up
      <3>. QED BY <3>2 DEF SyncInv, Agree, NewOps
    <2>4. Clear(j, b) => NewOps(j) = <<>>
      BY <1>1 DEF Clear
    <2>. QED BY <1>3, <2>1, <2>2, <2>3, <2>4 DEF OpsNow
  <1>6. ASSUME NEW l \in (Loc(x) + 1) .. (b - 1) PROVE Clear(x, l)'
    <2>1. l \in 3 * NumMini + 4 .. 3 * NumMini + 6 /\ ~Deferred
      BY <1>1, <1>3
    <2>2. Clear(x, l)
      BY <1>1, <2>1 DEF Clear
    <2>. QED BY <1>2, <2>2
  <1>. HIDE DEF b
  <1>. QED BY <1>1, <1>2, <1>3, <1>4, <1>5, <1>6, LocalAdvance DEF InStep

LEMMA DurationsSync ==
    ASSUME TypeInv, SyncInv, NEW x \in Ranks, ReduceDurations(x)
    PROVE  InStep'
  <1> DEFINE b == 3 * NumMini + 8
  <1>1. /\ todo[x] = <<>> /\ NumMini \in Nat /\ NumMini >= 1
        /\ UNCHANGED <<mode, batch, cases, records, counts, selected>> /\ mini[x] = NumMini
        /\ pc'[x] = "durations" /\ todo'[x] = DurationsOps
        /\ pc[x] = IF mode = "plain" THEN "loop" ELSE "new"
    BY RefreshAssumption
       DEF ReduceDurations, Goto, TypeInv, Control, probing, scoring, DurationsOps
  <1>2. \A l : Clear(x, l)' <=> Clear(x, l)
    BY <1>1, OpsKept
  <1>3. /\ Loc(x)' = b /\ Up(x) /\ Up(x)' /\ Local(x) /\ OpsNow(x)' = DurationsOps
        /\ Loc(x) = IF mode = "plain" THEN 3 * NumMini + 3 ELSE 3 * NumMini + 7
    BY <1>1 DEF Loc, Up, OpsNow, Local, DurationsOps
  <1>4. b \in Nat /\ Loc(x) < b
    BY <1>1, <1>3
  <1>5. ASSUME NEW j \in Ranks, Up(j), Loc(j) > Loc(x)
        PROVE  /\ Loc(j) >= b /\ (Loc(j) = b => OpsNow(j) = OpsNow(x)') /\ ~Clear(j, b)
    <2>0. Control /\ Shape(j) /\ pc[j] \in Stages /\ mini[j] \in 0 .. NumMini
      BY DEF TypeInv, Control
    <2>1. /\ Loc(j) \in Nat /\ (Loc(j) = b => pc[j] = "durations")
          /\ (Loc(j) = 3 * NumMini + 4 => pc[j] = "score")
          /\ (Loc(j) = 3 * NumMini + 5 => pc[j] = "teacher")
          /\ (Loc(j) = 3 * NumMini + 6 => pc[j] = "refresh")
          /\ (Loc(j) = 3 * NumMini + 7 => pc[j] = "new")
      BY <2>0, Places
    <2>2. Loc(j) >= b
      <3>1. CASE mode # "plain"
        BY <1>1, <1>3, <1>5, <2>1, <3>1
      <3>2. CASE mode = "plain"
        <4>1. Loc(j) \notin {3 * NumMini + 4, 3 * NumMini + 5, 3 * NumMini + 6, 3 * NumMini + 7}
          BY <2>0, <2>1, <3>2 DEF Shape, Deferred
        <4>. QED BY <1>1, <1>3, <1>5, <2>1, <3>2, <4>1
      <3>. QED BY <3>1, <3>2
    <2>3. ~Clear(j, b)
      BY <1>1 DEF Clear
    <2>. QED BY <1>3, <2>1, <2>2, <2>3 DEF OpsNow
  <1>6. ASSUME NEW l \in (Loc(x) + 1) .. (b - 1) PROVE Clear(x, l)'
    <2>1. l \in 3 * NumMini + 4 .. 3 * NumMini + 7 /\ mode = "plain" /\ ~Deferred
      BY <1>1, <1>3 DEF Deferred
    <2>2. Clear(x, l)
      BY <1>1, <2>1 DEF Clear
    <2>. QED BY <1>2, <2>2
  <1>. HIDE DEF b
  <1>. QED BY <1>1, <1>2, <1>3, <1>4, <1>5, <1>6, LocalAdvance DEF InStep

LEMMA ReturnSync ==
    ASSUME TypeInv, SyncInv, NEW x \in Ranks, Return(x)
    PROVE  InStep'
  <1> DEFINE b == 3 * NumMini + 9
  <1>1. /\ pc[x] = "durations" /\ todo[x] = <<>> /\ NumMini \in Nat /\ NumMini >= 1
        /\ UNCHANGED <<mode, batch, cases, records, counts, selected>>
        /\ pc'[x] = "done" /\ todo'[x] = <<>>
    BY RefreshAssumption DEF Return, Goto, TypeInv, Control, probing, scoring
  <1>2. \A l : Clear(x, l)' <=> Clear(x, l)
    BY <1>1, OpsKept
  <1>3. Loc(x) = 3 * NumMini + 8 /\ Loc(x)' = b /\ Up(x) /\ Up(x)' /\ Local(x) /\ OpsNow(x)' = <<>>
    BY <1>1 DEF Loc, Up, OpsNow, Local
  <1>4. b \in Nat /\ b = Loc(x) + 1
    BY <1>1, <1>3
  <1>5. ASSUME NEW j \in Ranks, Up(j), Loc(j) > Loc(x)
        PROVE  Loc(j) >= b /\ (Loc(j) = b => OpsNow(j) = OpsNow(x)')
    <2>1. Loc(j) \in Nat /\ (Loc(j) = b => pc[j] = "done")
      BY Places DEF TypeInv
    <2>2. Loc(j) >= b
      BY <1>1, <1>3, <1>4, <1>5, <2>1
    <2>. QED BY <1>3, <2>1, <2>2 DEF OpsNow
  <1>6. Loc(x) < b /\ \A l \in (Loc(x) + 1) .. (b - 1) : Clear(x, l)'
    BY <1>1, <1>3, <1>4
  <1>. HIDE DEF b
  <1>. QED BY <1>1, <1>2, <1>3, <1>4, <1>5, <1>6, LocalAdvance DEF InStep

LEMMA LocalSync ==
    ASSUME TypeInv, SyncInv, NEW x \in Ranks, Local(x)
    PROVE  InStep'
  BY CaptureProbeSync, EvaluateOldSync, CaptureShiftSync, SkipProbeSync, TrainBatchSync,
     ForwardBackwardSync, EndBatchSync, ScoreShiftSync, MixedTeacherBatchSync, RefreshSync, NewSync,
     DurationsSync, ReturnSync DEF Local

LEMMA SelectionKept ==
    ASSUME NEW j \in Ranks, batch' = batch, records'[j] = records[j], shift'[j] = shift[j]
    PROVE  SelectTrajectories(j)' = SelectTrajectories(j)
  <1>1. SelectTrajectories(j) = Selection(records[j], shift[j])
    BY Zenon DEF SelectTrajectories, Selection, Score, InOrder
  <1>2. SelectTrajectories(j)' = Selection(records[j], shift[j])'
    BY Zenon DEF SelectTrajectories, Selection, Score, InOrder
  <1>3. Selection(records[j], shift[j])' = Selection(records[j], shift[j])
    BY DEF Selection, InOrder
  <1>. QED BY <1>1, <1>2, <1>3

\* A rank that starts a mini-batch finds those that have started it before the
\* count of its cycles.
LEMMA TrainBatchCycles ==
    ASSUME TypeInv, SyncInv, NEW x \in Ranks, TrainBatch(x), NEW k \in Ranks, Up(k),
           mini[k] = mini[x] + 1
    PROVE  cycles[k] = 0
  <1> DEFINE m == mini[k]
  <1>0. /\ Control /\ pc[k] \in Stages /\ mini[k] \in 0 .. NumMini /\ mini[x] \in 0 .. NumMini /\ Shape(k)
        /\ NumMini \in Nat /\ NumMini >= 1
    BY RefreshAssumption DEF TypeInv, Control
  <1>1. pc[x] = "loop" /\ m \in 1 .. NumMini /\ Loc(x) = 3 * m /\ Up(x)
    BY <1>0 DEF TrainBatch, Goto, Loc, Up
  <1>2. Loc(k) \in Nat /\ Loc(k) > 3 * m
    <2>1. pc[k] \notin Prologue
      BY <1>0, <1>1 DEF Shape
    <2>. QED BY <1>0, <1>1, <2>1 DEF Shape, Prologue, Epilogue, Loc, Stages, Up
  <1>3. todo[k] = OpsNow(k) /\ \A l \in (3 * m + 1) .. (Loc(k) - 1) : Clear(k, l)
    BY <1>1, <1>2 DEF SyncInv, Sync
  <1>4. ~Clear(k, 3 * m + 1)
    BY <1>1 DEF Clear
  <1>5. Loc(k) = 3 * m + 1
    BY <1>0, <1>1, <1>2, <1>3, <1>4
  <1>6. pc[k] = "backward"
    BY <1>0, <1>1, <1>5, Places
  <1>. QED BY <1>3, <1>6 DEF OpsNow, SyncInv, Own

\* What a rank's own step adds to what it knows.
LEMMA LocalKnown ==
    ASSUME TypeInv, NEW x \in Ranks, Local(x)
    PROVE  /\ Up(x) /\ mode' = mode
           /\ CasesKnown(x)' => CasesKnown(x) /\ cases' = cases
           /\ ScoresKnown(x)' => ScoresKnown(x)
           /\ pc'[x] = "backward" => cycles'[x] = 0
           /\ ScoresKnown(x)' /\ pc'[x] # "score" =>
                \/ selected'[x] = SelectTrajectories(x)
                \/ selected'[x] = selected[x] /\ pc[x] # "score"
  <1>0. /\ pc[x] \in Stages /\ Shape(x) /\ pc \in [Ranks -> Stages] /\ DOMAIN todo = Ranks
        /\ ScoreOps(x) # <<>> /\ cycles \in [Ranks -> Nat] /\ selected \in [Ranks -> Seq(Keys)]
    BY LoopOpsType DEF TypeInv, Control, Probing, Scoring
  <1>1. CASE CaptureProbe(x)
    <2>1. pc[x] = "begin" /\ pc'[x] = "probe" /\ todo'[x] = ProbeOps /\ mode' = mode
      BY <1>0, <1>1 DEF CaptureProbe, Goto, ProbeOps
    <2>2. ProbeOps # <<>>
      BY DEF ProbeOps
    <2>. QED BY <2>1, <2>2 DEF CasesKnown, ScoresKnown, Up, Epilogue
  <1>2. CASE EvaluateOld(x)
    BY <1>0, <1>2 DEF EvaluateOld, Goto, CasesKnown, ScoresKnown, Up, Epilogue, probing
  <1>3. CASE CaptureShift(x)
    BY <1>0, <1>3 DEF CaptureShift, Goto, CasesKnown, ScoresKnown, Up, Epilogue
  <1>4. CASE SkipProbe(x)
    BY <1>0, <1>4 DEF SkipProbe, Goto, CasesKnown, ScoresKnown, Up, Epilogue
  <1>5. CASE TrainBatch(x)
    <2>1. pc[x] = "loop" /\ pc'[x] = "backward" /\ cycles'[x] = 0 /\ mode' = mode /\ cases' = cases
      BY <1>0, <1>5 DEF TrainBatch, Goto, probing
    <2>. QED BY <2>1 DEF CasesKnown, ScoresKnown, Up, Epilogue
  <1>6. CASE ForwardBackward(x)
    <2>1. pc[x] = "backward" /\ pc'[x] = "step" /\ mode' = mode /\ cases' = cases
      BY <1>0, <1>6 DEF ForwardBackward, Goto, probing
    <2>. QED BY <2>1 DEF CasesKnown, ScoresKnown, Up, Epilogue
  <1>7. CASE EndBatch(x)
    <2>1. pc[x] = "step" /\ pc'[x] = "loop" /\ mode' = mode /\ cases' = cases
      BY <1>0, <1>7 DEF EndBatch, Goto, probing
    <2>. QED BY <2>1 DEF CasesKnown, ScoresKnown, Up, Epilogue
  <1>8. CASE ScoreShift(x)
    <2>1. pc[x] = "loop" /\ pc'[x] = "score" /\ mode' = mode /\ cases' = cases /\ todo'[x] = ScoreOps(x)
      BY <1>0, <1>8 DEF ScoreShift, Goto, probing, ScoreOps
    <2>. QED BY <1>0, <2>1 DEF CasesKnown, ScoresKnown, Up, Epilogue
  <1>9. CASE MixedTeacherBatch(x)
    <2>1. /\ pc[x] = "score" /\ pc'[x] = "teacher" /\ mode' = mode /\ cases' = cases /\ todo[x] = <<>>
          /\ selected'[x] = SelectTrajectories(x)
      BY <1>0, <1>9 DEF MixedTeacherBatch, Goto, probing
    <2>. QED BY <2>1 DEF CasesKnown, ScoresKnown, Up, Epilogue, Deferred
  <1>10. CASE RefreshDraftTeacher(x)
    <2>1. /\ pc[x] = "teacher" /\ pc'[x] = "refresh" /\ mode' = mode /\ cases' = cases
          /\ selected' = selected
      BY <1>0, <1>10 DEF RefreshDraftTeacher, Goto, probing, scoring
    <2>. QED BY <2>1 DEF CasesKnown, ScoresKnown, Up, Epilogue, Deferred
  <1>11. CASE RestoreRate(x)
    <2>1. /\ pc[x] = "refresh" /\ pc'[x] = "new" /\ mode' = mode /\ cases' = cases
          /\ selected' = selected
      BY <1>0, <1>11 DEF RestoreRate, Goto, probing, scoring
    <2>. QED BY <2>1 DEF CasesKnown, ScoresKnown, Up, Epilogue, Deferred
  <1>12. CASE EvaluateNew(x)
    <2>1. /\ pc[x] = "loop" /\ pc'[x] = "new" /\ mode' = mode /\ cases' = cases /\ mode = "probe"
          /\ todo[x] = <<>>
      BY <1>0, <1>12 DEF EvaluateNew, Goto, probing
    <2>. QED BY <2>1 DEF CasesKnown, ScoresKnown, Up, Deferred
  <1>13. CASE ReduceDurations(x)
    <2>1. /\ pc[x] = (IF mode = "plain" THEN "loop" ELSE "new") /\ pc'[x] = "durations" /\ mode' = mode
          /\ cases' = cases /\ selected' = selected
      BY <1>0, <1>13 DEF ReduceDurations, Goto, probing, scoring
    <2>. QED BY <2>1 DEF CasesKnown, ScoresKnown, Up, Epilogue, Deferred
  <1>14. CASE Return(x)
    <2>1. /\ pc[x] = "durations" /\ pc'[x] = "done" /\ mode' = mode /\ cases' = cases
          /\ selected' = selected
      BY <1>0, <1>14 DEF Return, Goto, probing, scoring
    <2>. QED BY <2>1 DEF CasesKnown, ScoresKnown, Up, Epilogue, Deferred
  <1>. QED BY <1>1, <1>2, <1>3, <1>4, <1>5, <1>6, <1>7, <1>8, <1>9, <1>10, <1>11, <1>12, <1>13,
              <1>14 DEF Local

LEMMA LocalAgree ==
    ASSUME TypeInv, SyncInv, NEW x \in Ranks, Local(x)
    PROVE  SyncInv'
  <1>0. /\ \A i, j \in Ranks : Sync(i, j)' /\ UNCHANGED <<mode, batch, records, counts, shift>>
    BY LocalSync, LocalFrame DEF InStep
  <1>1. ASSUME NEW j \in Ranks, j # x
        PROVE  /\ (CasesKnown(j)' <=> CasesKnown(j)) /\ (ScoresKnown(j)' <=> ScoresKnown(j))
               /\ (Up(j)' <=> Up(j)) /\ Own(j)' /\ mini'[j] = mini[j] /\ cycles'[j] = cycles[j]
               /\ cases'[j] = cases[j]
    <2>1. /\ pc'[j] = pc[j] /\ todo'[j] = todo[j] /\ mini'[j] = mini[j] /\ cycles'[j] = cycles[j]
          /\ cases'[j] = cases[j] /\ selected'[j] = selected[j] /\ Deferred' = Deferred
      BY <1>0, <1>1, LocalOthers DEF Deferred
    <2>2. (CasesKnown(j)' <=> CasesKnown(j)) /\ (ScoresKnown(j)' <=> ScoresKnown(j)) /\ (Up(j)' <=> Up(j))
      BY <1>0, <2>1 DEF CasesKnown, ScoresKnown, Up
    <2>3. SelectTrajectories(j)' = SelectTrajectories(j)
      BY <1>0, SelectionKept
    <2>4. BackwardOps(mini[j])' = BackwardOps(mini[j])
      BY <2>1 DEF BackwardOps
    <2>5. Own(j)'
      BY <2>1, <2>2, <2>3, <2>4 DEF SyncInv, Own
    <2>. QED BY <2>1, <2>2, <2>5
  <1>2. /\ Up(x) /\ (CasesKnown(x)' => CasesKnown(x) /\ cases' = cases)
        /\ (ScoresKnown(x)' => ScoresKnown(x))
    BY LocalKnown
  <1>3. Own(x)'
    <2>1. SelectTrajectories(x)' = SelectTrajectories(x)
      BY <1>0, SelectionKept
    <2>2. pc'[x] = "backward" => cycles'[x] = 0
      BY LocalKnown
    <2>3. ScoresKnown(x)' /\ pc'[x] # "score" => selected'[x] = SelectTrajectories(x)
      <3>1. ScoresKnown(x)' /\ pc'[x] # "score" =>
               \/ selected'[x] = SelectTrajectories(x)
               \/ selected'[x] = selected[x] /\ pc[x] # "score"
        BY LocalKnown
      <3>. QED BY <1>2, <3>1 DEF SyncInv, Own
    <2>. QED BY <2>1, <2>2, <2>3 DEF Own
  <1>4. ASSUME NEW j \in Ranks, j # x, Up(j), Up(x)', mini'[j] = mini'[x] PROVE cycles'[j] = cycles'[x]
    <2>1. CASE TrainBatch(x)
      <3>1. mini'[x] = mini[x] + 1 /\ cycles'[x] = 0
        BY <2>1 DEF TrainBatch, TypeInv, Control, Probing
      <3>. QED BY <1>1, <1>4, <2>1, <3>1, TrainBatchCycles
    <2>2. CASE ~TrainBatch(x)
      <3>1. UNCHANGED <<cycles, mini>>
        BY <2>2, LocalFrame
      <3>. QED BY <1>2, <1>4, <3>1 DEF SyncInv, Agree
    <2>. QED BY <2>1, <2>2
  <1>5. ASSUME NEW i \in Ranks, NEW j \in Ranks PROVE Agree(i, j)'
    <2>0. Agree(i, j)
      BY DEF SyncInv
    <2>1. records'[i] = records'[j] /\ counts'[i] = counts'[j]
      BY <1>0, <2>0 DEF Agree
    <2>2. Up(i)' /\ Up(j)' /\ mini'[i] = mini'[j] => cycles'[i] = cycles'[j]
      <3>1. CASE i # x /\ j # x
        BY <1>1, <2>0, <3>1 DEF Agree
      <3>2. CASE i = x /\ j # x
        BY <1>1, <1>4, <3>2
      <3>3. CASE i # x /\ j = x
        BY <1>1, <1>4, <3>3
      <3>. QED BY <3>1, <3>2, <3>3
    <2>3. CasesKnown(i)' /\ CasesKnown(j)' => cases'[i] = cases'[j]
      BY <1>1, <1>2, <2>0 DEF Agree
    <2>4. ScoresKnown(i)' /\ ScoresKnown(j)' => shift'[i] = shift'[j]
      BY <1>0, <1>1, <1>2, <2>0 DEF Agree
    <2>. QED BY <2>1, <2>2, <2>3, <2>4 DEF Agree
  <1>. QED BY <1>0, <1>1, <1>3, <1>5 DEF SyncInv

\* What completes a collective is decided by its kind.
LEMMA CollectiveTags ==
    ASSUME TypeInv, Collective
    PROVE  LET tag == Head(todo[0])[1]
           IN  /\ tag = "cases" <=> SynchronizedCases
               /\ tag = "gather" <=> GatherTrajectories
               /\ tag = "cycles" <=> ReduceCycles
               /\ tag = "policy" <=> PolicyBackward
               /\ tag = "head" <=> BackwardHead
               /\ tag = "refresh" <=> BackwardRefresh
               /\ tag = "norm" <=> OptimizerStep
               /\ tag = "broadcast" <=> BroadcastScores
               /\ tag = "capture" <=> WriteOld
               /\ tag = "score" <=> ReadOld
               /\ tag \in Passing <=> PassThrough
  <1> DEFINE tag == Head(todo[0])[1]
  <1>0. 0 \in Ranks /\ \A op : Entered(op) => Head(todo[0]) = op
    BY KeysFinite DEF Entered
  <1>1. PassThrough => tag \in Passing
    BY DEF PassThrough
  <1>2. SynchronizedCases => tag = "cases"
    BY <1>0 DEF SynchronizedCases, Complete
  <1>3. GatherTrajectories => tag = "gather"
    BY <1>0 DEF GatherTrajectories, Complete
  <1>4. ReduceCycles => tag = "cycles"
    BY <1>0 DEF ReduceCycles, Complete
  <1>5. PolicyBackward => tag = "policy"
    BY <1>0 DEF PolicyBackward, Complete
  <1>6. BackwardHead => tag = "head"
    BY <1>0 DEF BackwardHead, Complete
  <1>7. BackwardRefresh => tag = "refresh"
    BY <1>0 DEF BackwardRefresh, Complete
  <1>8. OptimizerStep => tag = "norm"
    BY <1>0 DEF OptimizerStep, Complete
  <1>9. BroadcastScores => tag = "broadcast"
    BY <1>0 DEF BroadcastScores, Complete
  <1>10. WriteOld => tag = "capture"
    <2> SUFFICES ASSUME WriteOld PROVE tag = "capture"
      OBVIOUS
    <2>1. PICK r \in Keys : \E c \in 1 .. batch[r].cycles :
               AllRaise(<<"capture", <<r, c>>>>) \/ WritesOne(r, c)
      BY WriteOldCases
    <2>2. PICK c \in 1 .. batch[r].cycles : AllRaise(<<"capture", <<r, c>>>>) \/ WritesOne(r, c)
      BY <2>1
    <2>3. Entered(<<"capture", <<r, c>>>>)
      BY <2>2 DEF AllRaise, WritesOne, Complete
    <2>4. Head(todo[0]) = <<"capture", <<r, c>>>>
      BY <1>0, <2>3
    <2>. QED BY <2>4
  <1>11. ReadOld => tag = "score"
    <2> SUFFICES ASSUME ReadOld PROVE tag = "score"
      OBVIOUS
    <2>1. PICK r \in Keys : \E c \in 1 .. batch[r].cycles :
               AllRaise(<<"score", <<r, c>>>>) \/ ScoresOne(r, c) \/ ZeroRaises(r, c)
      BY ReadOldCases
    <2>2. PICK c \in 1 .. batch[r].cycles :
               AllRaise(<<"score", <<r, c>>>>) \/ ScoresOne(r, c) \/ ZeroRaises(r, c)
      BY <2>1
    <2>3. Entered(<<"score", <<r, c>>>>)
      BY <2>2 DEF AllRaise, ScoresOne, ZeroRaises, Complete
    <2>4. Head(todo[0]) = <<"score", <<r, c>>>>
      BY <1>0, <2>3
    <2>. QED BY <2>4
  <1>12. \/ PassThrough \/ SynchronizedCases \/ GatherTrajectories \/ WriteOld \/ ReduceCycles
         \/ PolicyBackward \/ BackwardHead \/ BackwardRefresh \/ OptimizerStep \/ ReadOld \/ BroadcastScores
    BY DEF Collective
  <1>. HIDE DEF tag
  <1>13. /\ tag = "cases" <=> SynchronizedCases
         /\ tag = "gather" <=> GatherTrajectories
         /\ tag = "cycles" <=> ReduceCycles
         /\ tag = "policy" <=> PolicyBackward
         /\ tag = "head" <=> BackwardHead
         /\ tag = "refresh" <=> BackwardRefresh
         /\ tag = "norm" <=> OptimizerStep
         /\ tag = "broadcast" <=> BroadcastScores
         /\ tag = "capture" <=> WriteOld
         /\ tag = "score" <=> ReadOld
         /\ tag \in Passing <=> PassThrough
    BY <1>1, <1>2, <1>3, <1>4, <1>5, <1>6, <1>7, <1>8, <1>9, <1>10, <1>11, <1>12 DEF Passing
  <1>. QED BY <1>13 DEF tag

\* A collective finds every rank at the same place, with the same list, and
\* takes its head off the list of each rank that does not raise.
LEMMA CollectiveMeets ==
    ASSUME TypeInv, SyncInv, Collective
    PROVE  /\ \A j, k \in Ranks : Loc(j) = Loc(k) /\ todo[j] = todo[k]
           /\ \A k \in Ranks : /\ todo[k] # <<>> /\ Head(todo[k])[1] \in TagsIn(pc[k])
                               /\ Head(todo[k]) = Head(todo[0]) /\ Up(k)
           /\ \A k \in Ranks : Up(k)' => pc'[k] = pc[k] /\ todo'[k] = Tail(todo[k]) /\ Loc(k)' = Loc(k)
  <1>1. \A k \in Ranks : /\ todo[k] # <<>> /\ Up(k) /\ Loc(k) \in Nat
                         /\ Head(todo[k]) = Head(todo[0]) /\ Head(todo[k])[1] \in TagsIn(pc[k])
    BY CollectiveFrame, Places, Waiting DEF Up, TypeInv
  <1>2. \A k \in Ranks : Up(k)' => pc'[k] = pc[k] /\ todo'[k] = Tail(todo[k]) /\ mini'[k] = mini[k]
    BY CollectiveFrame DEF Up
  <1>3. ASSUME NEW k \in Ranks, Up(k)' PROVE Loc(k)' = Loc(k)
    BY <1>2, <1>3 DEF Loc
  <1>4. ASSUME NEW j \in Ranks, NEW k \in Ranks PROVE Loc(j) = Loc(k) /\ todo[j] = todo[k]
    <2>1. ~(Loc(j) < Loc(k)) /\ ~(Loc(k) < Loc(j))
      BY <1>1 DEF SyncInv, Sync
    <2>. QED BY <1>1, <2>1 DEF SyncInv, Sync
  <1>. QED BY <1>1, <1>2, <1>3, <1>4

\* A list of one operation left ends with its head.
LEMMA LastIsHead ==
    ASSUME NEW S, NEW q \in Seq(S), q # <<>>, Tail(q) = <<>>
    PROVE  Len(q) = 1 /\ q[Len(q)] = Head(q)
  <1> DEFINE t == Tail(q)
  <1>1. Len(t) = Len(q) - 1 /\ Len(q) \in Nat \ {0} /\ Head(q) = q[1] /\ t = <<>>
    BY HeadTail
  <1>. HIDE DEF t
  <1>2. Len(t) = 0
    BY <1>1
  <1>3. Len(q) = 1
    BY <1>1, <1>2
  <1>. QED BY <1>1, <1>3

\* What rank k knows after a collective.
LEMMA CollectiveKnown ==
    ASSUME TypeInv, SyncInv, Collective, NEW k \in Ranks
    PROVE  /\ CasesKnown(k)' /\ ~SynchronizedCases => CasesKnown(k)
           /\ ScoresKnown(k)' /\ ~BroadcastScores => ScoresKnown(k) /\ shift' = shift
           /\ ScoresKnown(k)' /\ pc'[k] # "score" =>
                ScoresKnown(k) /\ pc[k] # "score" /\ UNCHANGED <<shift, records>>
           /\ pc'[k] = "backward" => todo'[k] # BackwardOps(mini[k])
  <1> DEFINE tag == Head(todo[0])[1]
             q == todo[k]
  <1>0. /\ q # <<>> /\ tag \in TagsIn(pc[k]) /\ Head(q) = Head(todo[0]) /\ Up(k)
        /\ Up(k)' => pc'[k] = pc[k] /\ todo'[k] = Tail(q)
        /\ pc[k] \in Stages /\ q \in Seq(OpsIn(pc[k])) /\ Follows(k)
        /\ mode' = mode /\ (Deferred' <=> Deferred)
    BY CollectiveMeets, CollectiveFrame DEF TypeInv, Control, Deferred
  <1>1. /\ tag = "cases" <=> SynchronizedCases
        /\ tag = "gather" <=> GatherTrajectories
        /\ tag = "broadcast" <=> BroadcastScores
        /\ tag = "score" <=> ReadOld
    BY CollectiveTags
  <1>2. /\ GatherTrajectories \/ UNCHANGED <<records, counts>>
        /\ ReadOld \/ BroadcastScores \/ shift' = shift
    BY CollectiveFrame
  <1>3. ASSUME CasesKnown(k)', ~SynchronizedCases PROVE CasesKnown(k)
    <2>1. Up(k)' /\ mode # "plain" /\ pc[k] \notin {"begin", "raised"}
      BY <1>0, <1>3 DEF CasesKnown, Up
    <2>2. pc[k] # "probe"
      <3> SUFFICES ASSUME pc[k] = "probe" PROVE FALSE
        OBVIOUS
      <3>1. Tail(q) = <<>>
        BY <1>0, <1>3, <2>1 DEF CasesKnown
      <3>a. Tail(ProbeOps) = <<<<"cases">>>> /\ Head(<<<<"cases">>>>) = <<"cases">>
        BY Rest, Zenon DEF ProbeOps
      <3>2. Tail(ProbeOps) # <<>> /\ Head(<<<<"cases">>>>) = <<"cases">>
        BY <3>a
      <3>3. q = <<<<"cases">>>>
        BY <1>0, <3>1, <3>2 DEF Follows
      <3>4. tag = "cases"
        BY <1>0, <3>2, <3>3
      <3>. QED BY <1>1, <1>3, <3>4
    <2>. QED BY <2>1, <2>2 DEF CasesKnown
  <1>4. ASSUME ScoresKnown(k)', ~BroadcastScores PROVE ScoresKnown(k) /\ pc[k] # "score"
    <2>1. Up(k)' /\ Deferred /\ pc[k] \in Epilogue
      BY <1>0, <1>4 DEF ScoresKnown, Up, Epilogue
    <2>2. pc[k] # "score"
      <3> SUFFICES ASSUME pc[k] = "score" PROVE FALSE
        OBVIOUS
      <3>1. Tail(q) = <<>>
        BY <1>0, <1>4, <2>1 DEF ScoresKnown
      <3>2. Head(q) = <<"broadcast">>
        BY <1>0, <3>1, LastIsHead DEF Follows
      <3>. QED BY <1>0, <1>1, <1>4, <3>2
    <2>. QED BY <2>1, <2>2 DEF ScoresKnown
  <1>5. ASSUME ScoresKnown(k)', ~BroadcastScores PROVE shift' = shift
    <2>1. tag # "score"
      BY <1>0, <1>4, <1>5 DEF TagsIn, Stages
    <2>. QED BY <1>1, <1>2, <1>5, <2>1
  <1>6. ASSUME ScoresKnown(k)', pc'[k] # "score"
        PROVE  ScoresKnown(k) /\ pc[k] # "score" /\ UNCHANGED <<shift, records>>
    <2>1. Up(k)' /\ pc[k] \in Epilogue \ {"score"}
      BY <1>0, <1>6 DEF ScoresKnown, Up, Epilogue
    <2>2. tag \notin {"broadcast", "score", "gather"}
      BY <1>0, <2>1 DEF TagsIn, Epilogue
    <2>. QED BY <1>1, <1>2, <1>4, <1>6, <2>2
  <1>7. ASSUME pc'[k] = "backward" PROVE todo'[k] # BackwardOps(mini[k])
    <2> DEFINE m == mini[k]
    <2>1. pc[k] = "backward" /\ todo'[k] = Tail(q)
      BY <1>0, <1>7 DEF Up
    <2>2. q \in {<<<<"tokens", m>>>>, <<<<"tokens", m>>, <<"cycles", m>>>>, <<<<"cycles", m>>>>}
      BY <1>0, <2>1, BackwardOpsAre DEF Follows
    <2>3. Tail(q) \in {<<<<"cycles", m>>>>, <<>>}
      <3>1. /\ Tail(<<<<"tokens", m>>>>) = <<>> /\ Tail(<<<<"cycles", m>>>>) = <<>>
            /\ Tail(<<<<"tokens", m>>, <<"cycles", m>>>>) = <<<<"cycles", m>>>>
        BY Rest, Zenon
      <3>. QED BY <2>2, <3>1, Zenon
    <2>4. BackwardOps(m) \in {<<<<"tokens", m>>>>, <<<<"tokens", m>>, <<"cycles", m>>>>}
      BY BackwardOpsAre
    <2>5. BackwardOps(m)[1] = <<"tokens", m>> /\ BackwardOps(m) # <<>>
      BY <2>4
    <2>6. <<"tokens", m>> # <<"cycles", m>>
      OBVIOUS
    <2>7. CASE Tail(q) = <<<<"cycles", m>>>>
      <3>1. <<<<"cycles", m>>>>[1] = <<"cycles", m>>
        OBVIOUS
      <3>. HIDE DEF q, m
      <3>2. BackwardOps(m) # <<<<"cycles", m>>>>
        BY <2>5, <2>6, <3>1
      <3>. QED BY <2>1, <2>7, <3>2, Zenon DEF m
    <2>8. CASE Tail(q) = <<>>
      BY <2>1, <2>5, <2>8
    <2>. QED BY <2>3, <2>7, <2>8
  <1>. QED BY <1>3, <1>4, <1>5, <1>6, <1>7

LEMMA CollectiveSync ==
    ASSUME TypeInv, SyncInv, Collective
    PROVE  SyncInv'
  <1>0. /\ UNCHANGED <<mode, batch, mini, selected>>
        /\ SynchronizedCases \/ cases' = cases
        /\ GatherTrajectories \/ UNCHANGED <<records, counts>>
        /\ ReduceCycles \/ cycles' = cycles
    BY CollectiveFrame
  <1>1. ASSUME NEW j \in Ranks, NEW k \in Ranks PROVE Sync(j, k)'
    <2> SUFFICES ASSUME Up(j)', Up(k)' PROVE todo'[j] = todo'[k] /\ Loc(j)' = Loc(k)' /\ Loc(j)' \in Nat
      BY DEF Sync
    <2>1. Loc(j) = Loc(k) /\ todo[j] = todo[k] /\ Loc(j)' = Loc(j) /\ Loc(k)' = Loc(k)
      BY CollectiveMeets
    <2>2. todo'[j] = Tail(todo[j]) /\ todo'[k] = Tail(todo[k]) /\ Loc(j) \in Nat
      BY CollectiveMeets, Places DEF TypeInv
    <2>. QED BY <2>1, <2>2
  <1>2. ASSUME NEW k \in Ranks PROVE Own(k)'
    <2>1. ASSUME ScoresKnown(k)', pc'[k] # "score" PROVE selected'[k] = SelectTrajectories(k)'
      <3>1. ScoresKnown(k) /\ pc[k] # "score" /\ UNCHANGED <<shift, records>>
        BY <2>1, CollectiveKnown
      <3>2. SelectTrajectories(k)' = SelectTrajectories(k)
        BY <1>0, <3>1, SelectionKept
      <3>. QED BY <1>0, <3>1, <3>2 DEF SyncInv, Own
    <2>2. BackwardOps(mini[k])' = BackwardOps(mini[k])
      BY <1>0 DEF BackwardOps, Deferred
    <2>3. pc'[k] = "backward" => todo'[k] # BackwardOps(mini[k])
      BY CollectiveKnown
    <2>. QED BY <2>1, <2>2, <2>3 DEF Own
  <1>3. ASSUME NEW j \in Ranks, NEW k \in Ranks PROVE Agree(j, k)'
    <2>0. Agree(j, k)
      BY DEF SyncInv
    <2>1. records'[j] = records'[k] /\ counts'[j] = counts'[k]
      BY <1>0, <2>0 DEF Agree, GatherTrajectories
    <2>2. Up(j)' /\ Up(k)' /\ mini'[j] = mini'[k] => cycles'[j] = cycles'[k]
      <3>1. Up(j) /\ Up(k)
        BY CollectiveMeets
      <3>. QED BY <1>0, <2>0, <3>1 DEF Agree, ReduceCycles
    <2>3. CasesKnown(j)' /\ CasesKnown(k)' => cases'[j] = cases'[k]
      <3>1. CASE SynchronizedCases
        BY <3>1, ExchangedCases
      <3>2. CASE ~SynchronizedCases
        BY <1>0, <2>0, <3>2, CollectiveKnown DEF Agree
      <3>. QED BY <3>1, <3>2
    <2>4. ScoresKnown(j)' /\ ScoresKnown(k)' => shift'[j] = shift'[k]
      <3>1. CASE BroadcastScores
        BY <3>1 DEF BroadcastScores
      <3>2. CASE ~BroadcastScores
        BY <2>0, <3>2, CollectiveKnown DEF Agree
      <3>. QED BY <3>1, <3>2
    <2>. QED BY <2>1, <2>2, <2>3, <2>4 DEF Agree
  <1>. QED BY <1>1, <1>2, <1>3 DEF SyncInv

LEMMA SyncInit == Init => SyncInv
  <1> SUFFICES ASSUME Init PROVE SyncInv
    OBVIOUS
  <1>1. \A k \in Ranks : pc[k] = "begin" /\ todo[k] = <<>> /\ Loc(k) = 0
    BY DEF Init, Loc
  <1>2. \A j, k \in Ranks : Sync(j, k)
    BY <1>1 DEF Sync
  <1>3. \A j, k \in Ranks : Agree(j, k)
    BY DEF Init, Agree
  <1>4. \A k \in Ranks : Own(k)
    BY <1>1 DEF Own, ScoresKnown, Epilogue
  <1>. QED BY <1>2, <1>3, <1>4 DEF SyncInv

LEMMA SyncStep == TypeInv /\ SyncInv /\ [Next]_vars => SyncInv'
  <1> SUFFICES ASSUME TypeInv, SyncInv, [Next]_vars PROVE SyncInv'
    OBVIOUS
  <1>1. CASE UNCHANGED vars
    <2>1. UNCHANGED <<mode, batch, pc, todo, mini, cases, records, counts, cycles, shift, selected>>
      BY <1>1 DEF vars, control, probing, scoring
    <2>2. \A k \in Ranks : /\ Loc(k)' = Loc(k) /\ OpsNow(k)' = OpsNow(k) /\ (Up(k)' <=> Up(k))
                           /\ \A l : Clear(k, l)' <=> Clear(k, l)
      BY <2>1, Kept
    <2>3. \A j, k \in Ranks : Sync(j, k)'
      BY <2>1, <2>2 DEF SyncInv, Sync
    <2>4. \A k \in Ranks : (CasesKnown(k)' <=> CasesKnown(k)) /\ (ScoresKnown(k)' <=> ScoresKnown(k))
      BY <2>1 DEF CasesKnown, ScoresKnown, Deferred
    <2>5. \A j, k \in Ranks : Agree(j, k)'
      BY <2>1, <2>2, <2>4 DEF SyncInv, Agree
    <2>6. \A k \in Ranks : SelectTrajectories(k)' = SelectTrajectories(k)
      BY <2>1, SelectionKept
    <2>7. \A k \in Ranks : BackwardOps(mini[k])' = BackwardOps(mini[k])
      BY <2>1 DEF BackwardOps, Deferred
    <2>8. \A k \in Ranks : Own(k)'
      BY <2>1, <2>4, <2>6, <2>7 DEF SyncInv, Own
    <2>. QED BY <2>3, <2>5, <2>8 DEF SyncInv
  <1>2. CASE Next
    BY <1>2, LocalAgree, CollectiveSync DEF Next
  <1>. QED BY <1>1, <1>2

\* Ranks that wait in a collective wait in the same one, whatever the number
\* of ranks and however the cycles, the records and the probe's cases are
\* spread over them: no two ranks can be in different collectives.
THEOREM CollectivesMatch == Spec => []CollectivesAgree
  <1>1. TypeInv /\ SyncInv => CollectivesAgree
    <2> SUFFICES ASSUME TypeInv, SyncInv, NEW j \in Ranks, NEW k \in Ranks, todo[j] # <<>>, todo[k] # <<>>
                 PROVE  Head(todo[j]) = Head(todo[k])
      BY DEF CollectivesAgree
    <2>1. Up(j) /\ Up(k)
      BY Waiting DEF TypeInv, Up, TagsIn
    <2>2. Loc(j) \in Nat /\ Loc(k) \in Nat
      BY Places DEF TypeInv
    <2>. QED BY <2>1, <2>2 DEF SyncInv, Sync
  <1>. QED BY <1>1, TypeInit, TypeStep, SyncInit, SyncStep, PTL DEF Spec

-----------------------------------------------------------------------------
(* The passes of a mini-batch that are left                                *)

ItemsOf(q) == {q[n] : n \in 1 .. Len(q)}
Distinct(q) == \A i, j \in 1 .. Len(q) : q[i] = q[j] => i = j

\* The collectives rank k has not completed in its stage.
Left(k) == ItemsOf(todo[k])

\* Of a list without repetition the head is gone from the rest.
LEMMA TailItems ==
    ASSUME NEW S, NEW q \in Seq(S), q # <<>>, Distinct(q)
    PROVE  Distinct(Tail(q)) /\ ItemsOf(Tail(q)) = ItemsOf(q) \ {Head(q)}
  <1> DEFINE t == Tail(q)
             n == Len(q)
  <1>1. /\ Len(t) = n - 1 /\ n \in Nat \ {0} /\ Head(q) = q[1]
        /\ \A i \in 1 .. n - 1 : t[i] = q[i + 1]
    BY HeadTail
  <1>2. \A i, j \in 1 .. n : q[i] = q[j] => i = j
    BY DEF Distinct
  <1>. HIDE DEF t, n
  <1>3. ASSUME NEW i \in 1 .. n - 1, NEW j \in 1 .. n - 1, t[i] = t[j] PROVE i = j
    <2>1. q[i + 1] = q[j + 1] /\ i + 1 \in 1 .. n /\ j + 1 \in 1 .. n
      BY <1>1, <1>3
    <2>2. i + 1 = j + 1
      BY <1>2, <2>1
    <2>. QED BY <1>1, <2>2
  <1>4. ASSUME NEW i \in 1 .. n - 1 PROVE t[i] \in ItemsOf(q) \ {Head(q)}
    <2>1. i + 1 \in 1 .. n /\ 1 \in 1 .. n /\ i + 1 # 1
      BY <1>1
    <2>2. q[i + 1] # q[1]
      BY <1>2, <2>1
    <2>3. q[i + 1] \in ItemsOf(q)
      BY <2>1 DEF ItemsOf, n
    <2>. QED BY <1>1, <2>2, <2>3
  <1>5. ASSUME NEW x \in ItemsOf(q) \ {Head(q)} PROVE x \in ItemsOf(t)
    <2>1. PICK i \in 1 .. n : x = q[i]
      BY DEF ItemsOf, n
    <2>2. i # 1
      BY <1>1, <2>1
    <2>3. i - 1 \in 1 .. n - 1 /\ (i - 1) + 1 = i
      BY <1>1, <2>2
    <2>4. t[i - 1] = q[i]
      BY <1>1, <2>3
    <2>. QED BY <1>1, <2>1, <2>3, <2>4 DEF ItemsOf
  <1>6. ItemsOf(t) = ItemsOf(q) \ {Head(q)}
    <2>1. ASSUME NEW x \in ItemsOf(t) PROVE x \in ItemsOf(q) \ {Head(q)}
      <3>1. PICK i \in 1 .. n - 1 : x = t[i]
        BY <1>1 DEF ItemsOf
      <3>. QED BY <1>4, <3>1
    <2>. QED BY <1>5, <2>1
  <1>7. Distinct(t)
    BY <1>1, <1>3 DEF Distinct
  <1>. QED BY <1>6, <1>7 DEF t

\* The last of such a list comes first only when it is alone.
LEMMA LastAlone ==
    ASSUME NEW S, NEW q \in Seq(S), q # <<>>, Distinct(q), Head(q) = q[Len(q)]
    PROVE  Tail(q) = <<>> /\ ItemsOf(q) = {Head(q)}
  <1> DEFINE t == Tail(q)
             n == Len(q)
  <1>1. Len(t) = n - 1 /\ n \in Nat \ {0} /\ Head(q) = q[1] /\ t \in Seq(S)
    BY HeadTail
  <1>2. n = 1
    BY <1>1 DEF Distinct
  <1>3. t = <<>>
    <2>. HIDE DEF t, n
    <2>1. Len(t) = 0
      BY <1>1, <1>2
    <2>. QED BY <1>1, <2>1, EmptySeq
  <1>4. ItemsOf(q) = {q[1]}
    BY <1>2 DEF ItemsOf
  <1>. QED BY <1>1, <1>3, <1>4

\* A mini-batch's passes: one of the policy and, when the head has one, one of
\* the head for each of its micro-batches, and the norm.
LEMMA StepOpsHold ==
    ASSUME NEW k \in Ranks, NEW m \in 1 .. NumMini
    PROVE  LET q == StepOps(k, m)
           IN  /\ Distinct(q)
               /\ \A op \in ItemsOf(q) :
                    \/ op = <<"norm">>
                    \/ \E i \in MicroBatches(m) :
                         op = <<"policy", m, i>> \/ (op = <<"head", m, i>> /\ HeadPass(k, m))
               /\ \A i \in MicroBatches(m) : <<"policy", m, i>> \in ItemsOf(q)
               /\ HeadPass(k, m) => \A i \in MicroBatches(m) : <<"head", m, i>> \in ItemsOf(q)
  <1> DEFINE q == StepOps(k, m)
             e == Passes(k, m)
             D == DOMAIN Models(k, m)
             M == MicroBatches(m)
             F(d) == IF d = 1 THEN "policy" ELSE "head"
  <1>1. /\ Sorts(e, M \X D) /\ D \subseteq {1, 2}
        /\ \A n \in D : Models(k, m)[n] = F(n)
        /\ D = IF HeadPass(k, m) THEN {1, 2} ELSE {1}
    BY PassesSorted
  <1>2. /\ q[Len(q)] = <<"norm">> /\ Len(q) = Len(e) + 1
        /\ \A n \in 1 .. Len(e) : q[n] = <<Models(k, m)[e[n][2]], m, e[n][1]>>
    BY StepOpsType
  <1>3. Len(e) \in Nat /\ \A n \in 1 .. Len(e) : e[n] \in M \X D
    <2>1. e \in Seq(M \X D)
      BY <1>1 DEF Sorts
    <2>. HIDE DEF e, M, D
    <2>. QED BY <2>1, ElementOfSeq, LenProperties
  <1>4. ASSUME NEW n \in 1 .. Len(e)
        PROVE  q[n] = <<F(e[n][2]), m, e[n][1]>> /\ e[n][1] \in M /\ e[n][2] \in D /\ e[n] = <<e[n][1], e[n][2]>>
    BY <1>1, <1>2, <1>3
  <1>. HIDE DEF q, e, D, M
  <1>5. \A n \in 1 .. Len(e) : q[n] # <<"norm">>
    BY <1>4
  <1>6. ASSUME NEW i \in 1 .. Len(e), NEW j \in 1 .. Len(e), q[i] = q[j] PROVE i = j
    <2>1. e[i][1] = e[j][1] /\ F(e[i][2]) = F(e[j][2])
      BY <1>4, <1>6
    <2>2. e[i][2] \in {1, 2} /\ e[j][2] \in {1, 2}
      BY <1>1, <1>4
    <2>3. e[i][2] = e[j][2]
      BY <2>1, <2>2
    <2>4. e[i] = e[j]
      BY <1>4, <2>1, <2>3
    <2>. QED BY <1>1, <2>4 DEF Sorts
  <1>7. \A i \in 1 .. Len(q) : i \in 1 .. Len(e) \/ (i = Len(q) /\ q[i] = <<"norm">>)
    BY <1>2, <1>3
  <1>8. Distinct(q)
    BY <1>5, <1>6, <1>7 DEF Distinct
  <1>9. ASSUME NEW op \in ItemsOf(q)
        PROVE  \/ op = <<"norm">>
               \/ \E i \in M : op = <<"policy", m, i>> \/ (op = <<"head", m, i>> /\ HeadPass(k, m))
    <2>1. PICK n \in 1 .. Len(q) : op = q[n]
      BY DEF ItemsOf
    <2>2. CASE n \in 1 .. Len(e)
      <3>1. op = <<F(e[n][2]), m, e[n][1]>> /\ e[n][1] \in M /\ e[n][2] \in D
        BY <1>4, <2>1, <2>2
      <3>2. e[n][2] = 1 \/ (e[n][2] = 2 /\ HeadPass(k, m))
        BY <1>1, <3>1
      <3>. QED BY <3>1, <3>2
    <2>. QED BY <1>7, <2>1, <2>2
  <1>10. ASSUME NEW i \in M, NEW d \in D PROVE <<F(d), m, i>> \in ItemsOf(q)
    <2>1. PICK n \in 1 .. Len(e) : e[n] = <<i, d>>
      BY <1>1 DEF Sorts
    <2>2. q[n] = <<F(d), m, i>>
      BY <1>4, <2>1
    <2>3. n \in 1 .. Len(q)
      BY <1>2, <1>3
    <2>. QED BY <2>2, <2>3 DEF ItemsOf
  <1>11. \A i \in M : <<"policy", m, i>> \in ItemsOf(q)
    <2>1. 1 \in D /\ F(1) = "policy"
      BY <1>1
    <2>. QED BY <1>10, <2>1
  <1>12. HeadPass(k, m) => \A i \in M : <<"head", m, i>> \in ItemsOf(q)
    <2>1. HeadPass(k, m) => 2 \in D
      BY <1>1
    <2>2. F(2) = "head"
      OBVIOUS
    <2>. QED BY <1>10, <2>1, <2>2
  <1>. QED BY <1>8, <1>9, <1>11, <1>12 DEF q, M

\* In a mini-batch: its own passes, each at most once, the head's only when
\* its batch has cycles.
StepLeft(k) ==
    pc[k] = "step" =>
      /\ Distinct(todo[k])
      /\ \A op \in Left(k) :
           \/ op = <<"norm">>
           \/ \E i \in MicroBatches(mini[k]) :
                op = <<"policy", mini[k], i>> \/ (op = <<"head", mini[k], i>> /\ cycles[k] # 0)

\* On a refresh step the mini-batches reduce no cycles, and the records are
\* gathered last.
DeferredLeft(k) ==
    Deferred =>
      /\ pc[k] = "backward" => todo[k] \in {<<<<"tokens", mini[k]>>>>, <<>>}
      /\ pc[k] = "gather" /\ todo[k] # <<>> => todo[k][Len(todo[k])] = <<"gather">>

LeftInv == \A k \in Ranks : StepLeft(k) /\ DeferredLeft(k)

\* The mini-batches whose optimizer step is over, and whether the refresh is.
Stepped(k) == IF pc[k] = "backward" \/ (pc[k] = "step" /\ todo[k] # <<>>) THEN mini[k] - 1 ELSE mini[k]
Refreshed(k) == pc[k] \in {"new", "durations", "done"} \/ (pc[k] = "refresh" /\ todo[k] = <<>>)

\* The ways a rank goes on by itself.
LEMMA LocalPath ==
    ASSUME TypeInv, NEW k \in Ranks, Local(k)
    PROVE  /\ todo[k] = <<>> /\ (Deferred' <=> Deferred)
           /\ \/ pc[k] = "begin" /\ pc'[k] = "probe" /\ mini'[k] = mini[k]
              \/ pc[k] = "probe" /\ pc'[k] = "gather" /\ todo'[k] = GatherOps(k) /\ mini'[k] = mini[k]
              \/ pc[k] = "gather" /\ pc'[k] = "loop" /\ mini'[k] = mini[k]
              \/ pc[k] = "begin" /\ pc'[k] = "loop" /\ ~Deferred /\ mini'[k] = mini[k]
              \/ /\ pc[k] = "loop" /\ pc'[k] = "backward" /\ TrainBatch(k)
                 /\ mini'[k] = mini[k] + 1 /\ todo'[k] = BackwardOps(mini'[k])
                 /\ cycles'[k] = 0 /\ policyGrad'[k] = {} /\ headGrad'[k] = {}
              \/ /\ pc[k] = "backward" /\ pc'[k] = "step" /\ mini'[k] = mini[k]
                 /\ todo'[k] = StepOps(k, mini[k]) /\ UNCHANGED <<policyGrad, headGrad>>
              \/ pc[k] = "step" /\ pc'[k] = "loop" /\ mini'[k] = mini[k]
              \/ pc[k] = "loop" /\ pc'[k] = "score" /\ mini'[k] = mini[k] /\ Deferred
              \/ pc[k] = "score" /\ pc'[k] = "teacher" /\ mini'[k] = mini[k]
              \/ /\ pc[k] = "teacher" /\ pc'[k] = "refresh" /\ mini'[k] = mini[k]
                 /\ todo'[k] = RefreshOps(k) /\ policyGrad'[k] = {} /\ headGrad'[k] = {}
              \/ pc[k] = "refresh" /\ pc'[k] = "new" /\ mini'[k] = mini[k]
              \/ pc[k] = "loop" /\ pc'[k] = "new" /\ mini'[k] = mini[k] /\ ~Deferred
              \/ /\ pc[k] = (IF mode = "plain" THEN "loop" ELSE "new") /\ pc'[k] = "durations"
                 /\ mini'[k] = mini[k]
              \/ pc[k] = "durations" /\ pc'[k] = "done" /\ mini'[k] = mini[k]
  <1>0. /\ pc \in [Ranks -> Stages] /\ DOMAIN todo = Ranks /\ mini \in [Ranks -> 0 .. NumMini]
        /\ cycles \in [Ranks -> Nat] /\ policyGrad \in [Ranks -> SUBSET Keys]
        /\ headGrad \in [Ranks -> SUBSET Taughts]
    BY DEF TypeInv, Control, Probing, Optimizing
  <1>1. mode' = mode /\ (Deferred' <=> Deferred)
    BY LocalFrame DEF Deferred
  <1>2. CASE CaptureProbe(k)
    BY <1>0, <1>1, <1>2 DEF CaptureProbe, Goto
  <1>3. CASE EvaluateOld(k)
    <2>1. Goto(k, "probe", "gather", GatherOps(k)) /\ mini' = mini
      BY <1>3 DEF EvaluateOld, GatherOps
    <2>. QED BY <1>0, <1>1, <2>1 DEF Goto
  <1>4. CASE CaptureShift(k)
    BY <1>0, <1>1, <1>4 DEF CaptureShift, Goto
  <1>5. CASE SkipProbe(k)
    BY <1>0, <1>1, <1>5 DEF SkipProbe, Goto, Deferred
  <1>6. CASE TrainBatch(k)
    <2>1. /\ Goto(k, "loop", "backward", BackwardOps(mini[k] + 1)) /\ mini'[k] = mini[k] + 1
          /\ cycles'[k] = 0 /\ policyGrad'[k] = {} /\ headGrad'[k] = {}
      BY <1>0, <1>6 DEF TrainBatch, BackwardOps
    <2>. QED BY <1>0, <1>1, <1>6, <2>1 DEF Goto
  <1>7. CASE ForwardBackward(k)
    <2>1. /\ Goto(k, "backward", "step", StepOps(k, mini[k])) /\ mini' = mini
          /\ UNCHANGED <<policyGrad, headGrad>>
      BY <1>7, Zenon DEF ForwardBackward, StepOps, Passes, Models, optimizer
    <2>. QED BY <1>0, <1>1, <2>1 DEF Goto
  <1>8. CASE EndBatch(k)
    BY <1>0, <1>1, <1>8 DEF EndBatch, Goto
  <1>9. CASE ScoreShift(k)
    <2>1. pc[k] = "loop" /\ todo[k] = <<>> /\ pc'[k] = "score" /\ mini' = mini /\ Deferred
      BY <1>0, <1>9 DEF ScoreShift, Goto
    <2>. QED BY <1>1, <2>1
  <1>10. CASE MixedTeacherBatch(k)
    <2>1. pc[k] = "score" /\ todo[k] = <<>> /\ pc'[k] = "teacher" /\ mini' = mini
      BY <1>0, <1>10 DEF MixedTeacherBatch, Goto
    <2>. QED BY <1>1, <2>1
  <1>11. CASE RefreshDraftTeacher(k)
    <2>1. /\ Goto(k, "teacher", "refresh", RefreshOps(k)) /\ mini' = mini
          /\ policyGrad'[k] = {} /\ headGrad'[k] = {}
      BY <1>0, <1>11 DEF RefreshDraftTeacher, RefreshOps
    <2>. QED BY <1>0, <1>1, <2>1 DEF Goto
  <1>12. CASE RestoreRate(k)
    BY <1>0, <1>1, <1>12 DEF RestoreRate, Goto
  <1>13. CASE EvaluateNew(k)
    BY <1>0, <1>1, <1>13 DEF EvaluateNew, Goto, Deferred
  <1>14. CASE ReduceDurations(k)
    BY <1>0, <1>1, <1>14 DEF ReduceDurations, Goto
  <1>15. CASE Return(k)
    BY <1>0, <1>1, <1>15 DEF Return, Goto
  <1>. QED BY <1>2, <1>3, <1>4, <1>5, <1>6, <1>7, <1>8, <1>9, <1>10, <1>11, <1>12, <1>13, <1>14,
              <1>15 DEF Local

\* What it takes from one place to the next.
LEMMA LocalArrives ==
    ASSUME TypeInv, NEW k \in Ranks, Local(k)
    PROVE  /\ Up(k) /\ Up(k)' /\ Stepped(k)' = Stepped(k)
           /\ pc'[k] = "step" => /\ pc[k] = "backward" /\ mini'[k] = mini[k] /\ mini[k] \in 1 .. NumMini
                                 /\ todo'[k] = StepOps(k, mini[k]) /\ cycles'[k] = cycles[k]
                                 /\ todo[k] = <<>> /\ UNCHANGED <<policyGrad, headGrad>>
           /\ pc'[k] = "backward" => /\ todo'[k] = BackwardOps(mini'[k])
                                     /\ policyGrad'[k] = {} /\ headGrad'[k] = {}
           /\ pc'[k] = "gather" => todo'[k] = GatherOps(k)
           /\ pc'[k] = "refresh" => /\ pc[k] = "teacher" /\ todo'[k] = RefreshOps(k)
                                    /\ policyGrad'[k] = {} /\ headGrad'[k] = {}
           /\ Refreshed(k) => Refreshed(k)'
           /\ Deferred /\ Refreshed(k)' => Refreshed(k) \/ pc'[k] = "refresh"
           /\ Deferred /\ pc'[k] \notin {"begin", "probe", "gather"} =>
                pc[k] \notin {"begin", "probe"} /\ todo[k] = <<>>
           /\ cycles'[k] = 0 \/ cycles'[k] = cycles[k]
  <1>0. /\ pc[k] \in Stages /\ mini[k] \in 0 .. NumMini /\ Shape(k) /\ NumMini \in Nat
        /\ TrainBatch(k) \/ cycles' = cycles
    BY LocalFrame, RefreshAssumption DEF TypeInv, Control
  <1>1. pc[k] = "backward" => mini[k] \in 1 .. NumMini
    BY <1>0 DEF Shape
  <1>2. pc'[k] = "step" => StepOps(k, mini[k]) # <<>>
    <2>1. pc'[k] = "step" => pc[k] = "backward"
      BY LocalPath
    <2>. QED BY <1>1, <2>1, StepOpsType
  <1>3. Up(k) /\ Up(k)' /\ Stepped(k)' = Stepped(k)
    BY <1>0, <1>2, LocalPath DEF Up, Stepped
  <1>4. pc'[k] # "backward" => cycles'[k] = cycles[k]
    <2>1. TrainBatch(k) => pc'[k] = "backward"
      BY DEF TrainBatch, Goto, TypeInv, Control
    <2>. QED BY <1>0, <2>1
  <1>5. pc'[k] = "backward" => cycles'[k] = 0
    BY LocalKnown
  <1>6. /\ Refreshed(k) => Refreshed(k)'
        /\ Deferred /\ Refreshed(k)' => Refreshed(k) \/ pc'[k] = "refresh"
    BY LocalPath DEF Refreshed, Deferred
  <1>7. /\ pc'[k] = "step" => /\ pc[k] = "backward" /\ mini'[k] = mini[k] /\ todo[k] = <<>>
                              /\ todo'[k] = StepOps(k, mini[k]) /\ UNCHANGED <<policyGrad, headGrad>>
        /\ pc'[k] = "backward" => /\ todo'[k] = BackwardOps(mini'[k])
                                  /\ policyGrad'[k] = {} /\ headGrad'[k] = {}
        /\ pc'[k] = "gather" => todo'[k] = GatherOps(k)
        /\ pc'[k] = "refresh" => /\ pc[k] = "teacher" /\ todo'[k] = RefreshOps(k)
                                 /\ policyGrad'[k] = {} /\ headGrad'[k] = {}
    BY LocalPath
  <1>8. Deferred /\ pc'[k] \notin {"begin", "probe", "gather"} => pc[k] \notin {"begin", "probe"} /\ todo[k] = <<>>
    BY LocalPath DEF Deferred
  <1>. QED BY <1>1, <1>3, <1>4, <1>5, <1>6, <1>7, <1>8

\* On a refresh step the records are gathered after the probe's forwards.
LEMMA GatherLast ==
    ASSUME NEW k \in Ranks, cases[k] \in Seq(Cases), Deferred
    PROVE  GatherOps(k) # <<>> /\ GatherOps(k)[Len(GatherOps(k))] = <<"gather">>
  <1> DEFINE w == Forwards("old", cases[k])
  <1>1. w \in Seq(Pass("old"))
    BY PassType
  <1>2. GatherOps(k) = w \o <<<<"gather">>>>
    BY DEF GatherOps
  <1>. HIDE DEF w
  <1>3. w \in Seq(Pass("old") \union {<<"gather">>})
    BY <1>1, SeqMonotonic
  <1>4. w \o <<<<"gather">>>> = Append(w, <<"gather">>)
    BY <1>3, AppendIsConcat
  <1>5. ASSUME NEW op
        PROVE  Len(Append(w, op)) = Len(w) + 1 /\ Append(w, op)[Len(w) + 1] = op /\ Append(w, op) # <<>>
    BY <1>1, ThenOne
  <1>. QED BY <1>2, <1>4, <1>5

LEMMA LocalLeft ==
    ASSUME TypeInv, LeftInv, NEW x \in Ranks, Local(x)
    PROVE  LeftInv'
  <1>0. (Deferred' <=> Deferred) /\ NumMini \in Nat
    BY LocalFrame, RefreshAssumption DEF Deferred
  <1>1. ASSUME NEW k \in Ranks, k # x PROVE StepLeft(k)' /\ DeferredLeft(k)'
    <2>1. pc'[k] = pc[k] /\ todo'[k] = todo[k] /\ mini'[k] = mini[k] /\ cycles'[k] = cycles[k]
      BY <1>1, LocalOthers
    <2>2. MicroBatches(mini[k])' = MicroBatches(mini[k]) /\ Left(k)' = Left(k)
      BY <2>1 DEF MicroBatches, Left, ItemsOf
    <2>. QED BY <1>0, <2>1, <2>2 DEF LeftInv, StepLeft, DeferredLeft, Distinct
  <1>2. StepLeft(x)'
    <2> SUFFICES ASSUME pc'[x] = "step" PROVE StepLeft(x)'
      BY DEF StepLeft
    <2> DEFINE m == mini[x]
               q == StepOps(x, m)
    <2>1. /\ mini'[x] = m /\ m \in 1 .. NumMini /\ todo'[x] = q /\ cycles'[x] = cycles[x]
      BY LocalArrives
    <2>2. /\ Distinct(q)
          /\ \A op \in ItemsOf(q) :
               \/ op = <<"norm">>
               \/ \E i \in MicroBatches(m) :
                    op = <<"policy", m, i>> \/ (op = <<"head", m, i>> /\ HeadPass(x, m))
      BY <2>1, StepOpsHold
    <2>3. MicroBatches(mini[x])' = MicroBatches(m)
      BY <2>1 DEF MicroBatches
    <2>4. Left(x)' = ItemsOf(q) /\ (Distinct(todo[x])' <=> Distinct(q))
      BY <2>1 DEF Left, ItemsOf, Distinct
    <2>. HIDE DEF q
    <2>. QED BY <2>1, <2>2, <2>3, <2>4 DEF StepLeft, HeadPass
  <1>3. DeferredLeft(x)'
    <2>1. ASSUME Deferred, pc'[x] = "backward" PROVE todo'[x] = <<<<"tokens", mini'[x]>>>>
      <3>1. todo'[x] = BackwardOps(mini'[x])
        BY <2>1, LocalArrives
      <3> DEFINE n == mini'[x]
      <3>. HIDE DEF n
      <3>2. BackwardOps(n) = <<<<"tokens", n>>>>
        BY <2>1, BackwardOpsAre
      <3>. QED BY <3>1, <3>2 DEF n
    <2>2. ASSUME Deferred, pc'[x] = "gather" PROVE todo'[x][Len(todo'[x])] = <<"gather">>
      BY <2>2, GatherLast, LocalArrives DEF TypeInv, Probing
    <2>. QED BY <1>0, <2>1, <2>2 DEF DeferredLeft
  <1>. QED BY <1>1, <1>2, <1>3 DEF LeftInv

\* What a collective does to rank k, if it does not raise.
LEMMA CollectiveTakes ==
    ASSUME TypeInv, Collective, NEW k \in Ranks, Up(k)'
    PROVE  /\ pc'[k] = pc[k] /\ todo'[k] = Tail(todo[k]) /\ mini'[k] = mini[k] /\ mode' = mode
           /\ todo[k] # <<>> /\ Head(todo[k]) = Head(todo[0]) /\ Head(todo[k])[1] \in TagsIn(pc[k])
           /\ pc[k] \in Stages /\ todo[k] \in Seq(OpsIn(pc[k])) /\ Up(k) /\ batch' = batch
           /\ (Deferred' <=> Deferred)
           /\ pc[k] = "step" => cycles' = cycles
  <1>1. /\ pc'[k] = pc[k] /\ todo'[k] = Tail(todo[k]) /\ UNCHANGED <<mode, batch, mini>>
        /\ todo[k] # <<>> /\ Head(todo[k]) = Head(todo[0])
        /\ ReduceCycles \/ cycles' = cycles
    BY CollectiveFrame DEF Up
  <1>2. /\ Head(todo[k])[1] \in TagsIn(pc[k]) /\ pc[k] \in Stages /\ todo[k] \in Seq(OpsIn(pc[k]))
    BY <1>1, Waiting DEF TypeInv, Control
  <1>3. ReduceCycles => Head(todo[0])[1] = "cycles"
    BY CollectiveTags
  <1>4. pc[k] = "step" => cycles' = cycles
    BY <1>1, <1>2, <1>3 DEF TagsIn
  <1>. QED BY <1>1, <1>2, <1>4 DEF Up, Deferred

LEMMA CollectiveLeft ==
    ASSUME TypeInv, LeftInv, Collective
    PROVE  LeftInv'
  <1> SUFFICES ASSUME NEW k \in Ranks PROVE StepLeft(k)' /\ DeferredLeft(k)'
    BY DEF LeftInv
  <1>1. CASE ~Up(k)'
    BY <1>1 DEF Up, StepLeft, DeferredLeft
  <1>2. CASE Up(k)'
    <2> DEFINE q == todo[k]
               m == mini[k]
    <2>1. /\ pc'[k] = pc[k] /\ todo'[k] = Tail(q) /\ mini'[k] = m /\ (Deferred' <=> Deferred)
          /\ q # <<>> /\ q \in Seq(OpsIn(pc[k])) /\ (pc[k] = "step" => cycles' = cycles)
      BY <1>2, CollectiveTakes
    <2>2. StepLeft(k)'
      <3> SUFFICES ASSUME pc'[k] = "step" PROVE StepLeft(k)'
        BY DEF StepLeft
      <3>1. Distinct(q) /\ \A op \in Left(k) :
               \/ op = <<"norm">>
               \/ \E i \in MicroBatches(m) : op = <<"policy", m, i>> \/ (op = <<"head", m, i>> /\ cycles[k] # 0)
        BY <2>1 DEF LeftInv, StepLeft
      <3>2. Distinct(Tail(q)) /\ ItemsOf(Tail(q)) = ItemsOf(q) \ {Head(q)}
        BY <2>1, <3>1, TailItems
      <3>3. Left(k)' = ItemsOf(Tail(q)) /\ (Distinct(todo[k])' <=> Distinct(Tail(q)))
            /\ MicroBatches(mini[k])' = MicroBatches(m) /\ Left(k) = ItemsOf(q)
        BY <2>1 DEF Left, ItemsOf, Distinct, MicroBatches
      <3>. HIDE DEF q
      <3>. QED BY <2>1, <3>1, <3>2, <3>3 DEF StepLeft
    <2>3. DeferredLeft(k)'
      <3>1. ASSUME Deferred, pc[k] = "backward" PROVE Tail(q) = <<>>
        <4>1. q = <<<<"tokens", m>>>>
          BY <2>1, <3>1 DEF LeftInv, DeferredLeft
        <4>2. Tail(<<<<"tokens", m>>>>) = <<>>
          BY Rest
        <4>. QED BY <4>1, <4>2
      <3>2. ASSUME Deferred, pc[k] = "gather", Tail(q) # <<>> PROVE Tail(q)[Len(Tail(q))] = <<"gather">>
        <4> DEFINE t == Tail(q)
                   n == Len(q)
        <4>1. q[n] = <<"gather">>
          BY <2>1, <3>2 DEF LeftInv, DeferredLeft
        <4>2. /\ t \in Seq(OpsIn(pc[k])) /\ Len(t) = n - 1 /\ n \in Nat \ {0}
              /\ \A i \in 1 .. n - 1 : t[i] = q[i + 1]
          BY <2>1, HeadTail
        <4>3. Len(t) # 0 /\ t # <<>>
          BY <3>2, <4>2, EmptySeq
        <4>. HIDE DEF t, n, q
        <4>4. t[n - 1] = q[(n - 1) + 1] /\ (n - 1) + 1 = n
          BY <4>2, <4>3
        <4>5. t[Len(t)] = <<"gather">>
          BY <4>1, <4>2, <4>4
        <4>. QED BY <4>5 DEF t
      <3>. QED BY <2>1, <3>1, <3>2 DEF DeferredLeft
    <2>. QED BY <2>2, <2>3
  <1>. QED BY <1>1, <1>2

LEMMA LeftInit == Init => LeftInv
  BY DEF Init, LeftInv, StepLeft, DeferredLeft

LEMMA LeftStep == TypeInv /\ LeftInv /\ [Next]_vars => LeftInv'
  <1> SUFFICES ASSUME TypeInv, LeftInv, [Next]_vars PROVE LeftInv'
    OBVIOUS
  <1>1. CASE UNCHANGED vars
    <2>1. UNCHANGED <<mode, pc, todo, mini, cycles>>
      BY <1>1 DEF vars, control
    <2>2. \A k \in Ranks : MicroBatches(mini[k])' = MicroBatches(mini[k]) /\ Left(k)' = Left(k)
      BY <2>1 DEF MicroBatches, Left, ItemsOf
    <2>. QED BY <2>1, <2>2 DEF LeftInv, StepLeft, DeferredLeft, Distinct, Deferred
  <1>2. CASE Next
    BY <1>2, LocalLeft, CollectiveLeft DEF Next
  <1>. QED BY <1>1, <1>2

-----------------------------------------------------------------------------
(* The number of cycles                                                    *)

\* A mini-batch of an ordinary step has counted its cycles over all ranks; a
\* refresh step counts those of the whole batch, and none in a mini-batch.
CountedRight(k) ==
    /\ Deferred => cycles[k] = 0
    /\ ~Deferred /\ (pc[k] = "step" \/ (pc[k] = "backward" /\ todo[k] = <<>>)) =>
         cycles[k] = Cycles(MiniRows(mini[k]))
    /\ Deferred /\ pc[k] \notin {"begin", "probe", "raised"} /\ (pc[k] = "gather" => todo[k] = <<>>) =>
         counts[k].cycles = Cycles(Keys)

CountInv == \A k \in Ranks : CountedRight(k)

LEMMA CyclesKept ==
    ASSUME batch' = batch
    PROVE  /\ Cycles(Keys)' = Cycles(Keys)
           /\ \A m : Cycles(MiniRows(m))' = Cycles(MiniRows(m))
           /\ \A k \in Ranks : mini'[k] = mini[k] => Cycles(MiniRows(mini[k]))' = Cycles(MiniRows(mini[k]))
  <1>1. \A rows : CyclesOf(rows)' = CyclesOf(rows)
    BY DEF CyclesOf
  <1>2. \A rows : Cycles(rows)' = Cycles(rows)
    BY <1>1 DEF Cycles
  <1>. QED BY <1>2 DEF MiniRows, Cycles, CyclesOf

LEMMA LocalCount ==
    ASSUME TypeInv, CountInv, NEW x \in Ranks, Local(x)
    PROVE  CountInv'
  <1>0. /\ (Deferred' <=> Deferred) /\ UNCHANGED <<batch, counts>>
    BY LocalFrame DEF Deferred
  <1>1. ASSUME NEW k \in Ranks, k # x PROVE CountedRight(k)'
    <2>1. pc'[k] = pc[k] /\ todo'[k] = todo[k] /\ mini'[k] = mini[k] /\ cycles'[k] = cycles[k]
      BY <1>1, LocalOthers
    <2>2. Cycles(Keys)' = Cycles(Keys) /\ Cycles(MiniRows(mini[k]))' = Cycles(MiniRows(mini[k]))
      BY <1>0, <2>1, CyclesKept
    <2>. QED BY <1>0, <2>1, <2>2 DEF CountInv, CountedRight
  <1>2. CountedRight(x)'
    <2>0. CountedRight(x)
      BY DEF CountInv
    <2>1. Deferred => cycles'[x] = 0
      BY <2>0, LocalArrives DEF CountedRight
    <2>2. ASSUME ~Deferred, pc'[x] = "step" PROVE cycles'[x] = Cycles(MiniRows(mini[x]))'
      <3>1. pc[x] = "backward" /\ todo[x] = <<>> /\ mini'[x] = mini[x] /\ cycles'[x] = cycles[x]
        BY <2>2, LocalArrives
      <3>2. Cycles(MiniRows(mini[x]))' = Cycles(MiniRows(mini[x]))
        BY <1>0, <3>1, CyclesKept
      <3>. QED BY <2>0, <2>2, <3>1, <3>2 DEF CountedRight
    <2>3. pc'[x] = "backward" => todo'[x] # <<>>
      <3>1. \A n : BackwardOps(n) # <<>>
        BY BackwardOpsAre
      <3>. QED BY <3>1, LocalArrives
    <2>4. ASSUME Deferred, pc'[x] \notin {"begin", "probe", "raised"}, pc'[x] = "gather" => todo'[x] = <<>>
          PROVE  counts'[x].cycles = Cycles(Keys)'
      <3>1. pc'[x] # "gather"
        BY <2>4, GatherLast, LocalArrives DEF TypeInv, Probing
      <3>2. pc[x] \notin {"begin", "probe"} /\ todo[x] = <<>> /\ Up(x)
        BY <2>4, <3>1, LocalArrives
      <3>3. Cycles(Keys)' = Cycles(Keys)
        BY <1>0, CyclesKept
      <3>. QED BY <1>0, <2>0, <2>4, <3>2, <3>3 DEF CountedRight, Up
    <2>. QED BY <1>0, <2>1, <2>2, <2>3, <2>4 DEF CountedRight
  <1>. QED BY <1>1, <1>2 DEF CountInv

LEMMA CollectiveCount ==
    ASSUME TypeInv, LeftInv, CountInv, Collective
    PROVE  CountInv'
  <1> SUFFICES ASSUME NEW k \in Ranks PROVE CountedRight(k)'
    BY DEF CountInv
  <1> DEFINE q == todo[k]
             m == mini[k]
             tag == Head(todo[0])[1]
  <1>0. /\ CountedRight(k) /\ DeferredLeft(k) /\ Follows(k)
    BY DEF CountInv, LeftInv, TypeInv
  <1>1. /\ UNCHANGED <<mode, batch, mini>> /\ (Deferred' <=> Deferred)
        /\ ReduceCycles \/ cycles' = cycles
        /\ GatherTrajectories \/ counts' = counts
        /\ q # <<>> /\ Head(q) = Head(todo[0]) /\ pc[k] # "raised"
        /\ Head(q)[1] \in TagsIn(pc[k]) /\ pc[k] \in Stages /\ q \in Seq(OpsIn(pc[k]))
    BY CollectiveFrame, Waiting DEF TypeInv, Control, Deferred
  <1>2. /\ tag = "gather" <=> GatherTrajectories
        /\ tag = "cycles" <=> ReduceCycles
    BY CollectiveTags
  <1>3. /\ Cycles(Keys)' = Cycles(Keys) /\ Cycles(MiniRows(mini[k]))' = Cycles(MiniRows(m))
    BY <1>1, CyclesKept
  <1>4. Deferred => cycles'[k] = 0
    <2>1. ASSUME Deferred PROVE tag # "cycles"
      <3>1. SUFFICES ASSUME tag = "cycles" PROVE FALSE
        OBVIOUS
      <3>2. pc[k] = "backward"
        BY <1>1, <3>1 DEF TagsIn, Stages
      <3>3. q = <<<<"tokens", m>>>>
        BY <1>0, <1>1, <2>1, <3>2 DEF DeferredLeft
      <3>4. Head(<<<<"tokens", m>>>>) = <<"tokens", m>>
        BY Rest
      <3>. QED BY <1>1, <3>1, <3>3, <3>4
    <2>. QED BY <1>0, <1>1, <1>2, <2>1 DEF CountedRight
  <1>5. ASSUME ~Deferred, pc'[k] = "step" PROVE cycles'[k] = Cycles(MiniRows(m))
    <2>1. Up(k)'
      BY <1>5 DEF Up
    <2>2. pc[k] = "step" /\ cycles' = cycles
      BY <1>5, <2>1, CollectiveTakes
    <2>. QED BY <1>0, <1>5, <2>2 DEF CountedRight
  <1>6. ASSUME ~Deferred, pc'[k] = "backward", todo'[k] = <<>> PROVE cycles'[k] = Cycles(MiniRows(m))
    <2>1. Up(k)'
      BY <1>6 DEF Up
    <2>2. pc[k] = "backward" /\ Tail(q) = <<>>
      BY <1>6, <2>1, CollectiveTakes
    <2>3. BackwardOps(m) = <<<<"tokens", m>>, <<"cycles", m>>>>
      BY <1>6, BackwardOpsAre
    <2>4. Tail(<<<<"tokens", m>>, <<"cycles", m>>>>) = <<<<"cycles", m>>>> /\ Head(<<<<"cycles", m>>>>) = <<"cycles", m>>
      BY Rest, Zenon
    <2>5. q = <<<<"cycles", m>>>>
      <3>1. <<<<"cycles", m>>>> # <<>>
        OBVIOUS
      <3>. HIDE DEF q, m
      <3>2. q \in {BackwardOps(m), <<<<"cycles", m>>>>}
        BY <1>0, <1>1, <2>2 DEF Follows, q, m
      <3>. QED BY <2>2, <2>3, <2>4, <3>1, <3>2
    <2>6. Head(todo[0]) = <<"cycles", m>> /\ tag = "cycles"
      BY <1>1, <2>4, <2>5
    <2>7. PICK n \in 1 .. NumMini : Complete(<<"cycles", n>>) /\ cycles' = [j \in Ranks |-> Cycles(MiniRows(n))]
      BY <1>2, <2>6 DEF ReduceCycles
    <2>8. Head(q) = <<"cycles", n>>
      BY <2>7 DEF Complete, Entered
    <2>9. n = m
      BY <1>1, <2>6, <2>8
    <2>. QED BY <2>7, <2>9
  <1>7. ASSUME Deferred, pc'[k] \notin {"begin", "probe", "raised"}, pc'[k] = "gather" => todo'[k] = <<>>
        PROVE  counts'[k].cycles = Cycles(Keys)
    <2>1. Up(k)'
      BY <1>7 DEF Up
    <2>2. pc'[k] = pc[k] /\ todo'[k] = Tail(q)
      BY <2>1, CollectiveTakes
    <2>3. CASE pc[k] = "gather"
      <3>1. Head(q) = <<"gather">>
        BY <1>0, <1>1, <1>7, <2>2, <2>3, LastIsHead DEF DeferredLeft
      <3>. QED BY <1>1, <1>2, <3>1 DEF GatherTrajectories
    <2>4. CASE pc[k] # "gather"
      <3>1. tag # "gather"
        BY <1>1, <2>4 DEF TagsIn, Stages
      <3>. QED BY <1>0, <1>1, <1>2, <1>7, <2>2, <2>4, <3>1 DEF CountedRight
    <2>. QED BY <2>3, <2>4
  <1>. QED BY <1>1, <1>3, <1>4, <1>5, <1>6, <1>7 DEF CountedRight

LEMMA CountInit == Init => CountInv
  BY DEF Init, CountInv, CountedRight

LEMMA CountStep == TypeInv /\ LeftInv /\ CountInv /\ [Next]_vars => CountInv'
  <1> SUFFICES ASSUME TypeInv, LeftInv, CountInv, [Next]_vars PROVE CountInv'
    OBVIOUS
  <1>1. CASE UNCHANGED vars
    <2>1. UNCHANGED <<mode, batch, pc, todo, mini, cycles, counts>>
      BY <1>1 DEF vars, control, probing
    <2>2. Cycles(Keys)' = Cycles(Keys) /\ \A k \in Ranks : Cycles(MiniRows(mini[k]))' = Cycles(MiniRows(mini[k]))
      BY <2>1, CyclesKept
    <2>. QED BY <2>1, <2>2 DEF CountInv, CountedRight, Deferred
  <1>2. CASE Next
    BY <1>2, LocalCount, CollectiveCount DEF Next
  <1>. QED BY <1>1, <1>2

-----------------------------------------------------------------------------
(* The gradients on their way                                              *)

HeadRows(k) == {g.row : g \in headGrad[k]}

\* A gradient holds the rows whose pass is done, and starts empty.
Pending(k) ==
    /\ pc[k] = "backward" => policyGrad[k] = {} /\ headGrad[k] = {}
    /\ pc[k] = "step" /\ todo[k] # <<>> =>
         /\ policyGrad[k] = {r \in MiniRows(mini[k]) : <<"policy", mini[k], r[2]>> \notin Left(k)}
         /\ HeadRows(k) = {r \in MiniRows(mini[k]) : /\ cycles[k] # 0 /\ batch[r].cycles > 0
                                                     /\ <<"head", mini[k], r[2]>> \notin Left(k)}
    /\ pc[k] = "refresh" /\ todo[k] # <<>> =>
         /\ policyGrad[k] = {}
         /\ HeadRows(k) = {r \in Keys : batch[r].cycles > 0 /\ <<"refresh">> \notin Left(k)}

GradInv == \A k \in Ranks : Pending(k)

LEMMA RowsOf ==
    /\ \A m : \A r \in MiniRows(m) : r \in Keys /\ r[2] \in MicroBatches(m) /\ r[1] \in Ranks
    /\ \A m : \A i \in MicroBatches(m) : {<<j, i>> : j \in Ranks} = {r \in MiniRows(m) : r[2] = i}
    /\ UNION {Recorded(j) : j \in Ranks} = {r \in Keys : batch[r].cycles > 0}
  <1>1. \A m : \A r \in MiniRows(m) : r \in Keys /\ r[2] \in MicroBatches(m) /\ r[1] \in Ranks
    BY DEF MiniRows, MicroBatches, Keys
  <1>2. ASSUME NEW m, NEW i \in MicroBatches(m) PROVE {<<j, i>> : j \in Ranks} = {r \in MiniRows(m) : r[2] = i}
    <2>1. i \in 1 .. NumRows /\ MiniOf(i) = m
      BY DEF MicroBatches
    <2>2. ASSUME NEW j \in Ranks PROVE <<j, i>> \in MiniRows(m) /\ <<j, i>>[2] = i
      BY <2>1 DEF MiniRows, Keys
    <2>3. ASSUME NEW r \in MiniRows(m), r[2] = i PROVE r = <<r[1], i>> /\ r[1] \in Ranks
      BY <2>3 DEF MiniRows, Keys
    <2>. QED BY <2>2, <2>3
  <1>3. UNION {Recorded(j) : j \in Ranks} = {r \in Keys : batch[r].cycles > 0}
    <2>1. \A r \in Keys : r[1] \in Ranks
      BY DEF Keys
    <2>. QED BY <2>1 DEF Recorded
  <1>. QED BY <1>1, <1>2, <1>3

LEMMA TaughtRows ==
    ASSUME NEW rows, NEW new
    PROVE  {g.row : g \in Taught(rows, new)} = rows
  <1>1. ASSUME NEW g \in Taught(rows, new) PROVE g.row \in rows
    BY DEF Taught
  <1>2. ASSUME NEW r \in rows PROVE \E g \in Taught(rows, new) : g.row = r
    <2> DEFINE g == [row |-> r, teacher |-> IF r \in new THEN "new" ELSE "old"]
    <2>1. g \in Taught(rows, new) /\ g.row = r
      BY DEF Taught
    <2>. QED BY <2>1
  <1>. QED BY <1>1, <1>2

LEMMA LocalGrad ==
    ASSUME TypeInv, GradInv, NEW x \in Ranks, Local(x)
    PROVE  GradInv'
  <1>0. batch' = batch
    BY LocalFrame
  <1>1. ASSUME NEW k \in Ranks, k # x PROVE Pending(k)'
    <2>1. /\ pc'[k] = pc[k] /\ todo'[k] = todo[k] /\ mini'[k] = mini[k] /\ cycles'[k] = cycles[k]
          /\ policyGrad'[k] = policyGrad[k] /\ headGrad'[k] = headGrad[k]
      BY <1>1, LocalOthers
    <2>2. /\ MiniRows(mini[k])' = MiniRows(mini[k]) /\ Left(k)' = Left(k) /\ HeadRows(k)' = HeadRows(k)
      BY <2>1 DEF MiniRows, Left, ItemsOf, HeadRows
    <2>. QED BY <1>0, <2>1, <2>2 DEF GradInv, Pending
  <1>2. Pending(x)'
    <2>0. Pending(x)
      BY DEF GradInv
    <2>1. pc'[x] = "backward" => policyGrad'[x] = {} /\ headGrad'[x] = {}
      BY LocalArrives
    <2>2. ASSUME pc'[x] = "step"
          PROVE  /\ policyGrad'[x] = {r \in MiniRows(mini[x]) : <<"policy", mini[x], r[2]>> \notin Left(x)}'
                 /\ HeadRows(x)' = {r \in MiniRows(mini[x]) : /\ cycles[x] # 0 /\ batch[r].cycles > 0
                                                              /\ <<"head", mini[x], r[2]>> \notin Left(x)}'
      <3> DEFINE m == mini[x]
                 q == StepOps(x, m)
      <3>1. /\ pc[x] = "backward" /\ mini'[x] = m /\ m \in 1 .. NumMini /\ todo'[x] = q
            /\ cycles'[x] = cycles[x] /\ UNCHANGED <<policyGrad, headGrad>>
        BY <2>2, LocalArrives
      <3>2. policyGrad'[x] = {} /\ HeadRows(x)' = {}
        BY <2>0, <3>1 DEF Pending, HeadRows
      <3>3. Left(x)' = ItemsOf(q) /\ MiniRows(mini[x])' = MiniRows(m)
        BY <3>1 DEF Left, ItemsOf, MiniRows
      <3>4. ASSUME NEW r \in MiniRows(m) PROVE <<"policy", m, r[2]>> \in ItemsOf(q)
        BY <3>1, StepOpsHold, RowsOf
      <3>5. ASSUME NEW r \in MiniRows(m), cycles[x] # 0 PROVE <<"head", m, r[2]>> \in ItemsOf(q)
        <4>1. HeadPass(x, m)
          BY <3>5 DEF HeadPass
        <4>. QED BY <3>1, <4>1, StepOpsHold, RowsOf
      <3>. HIDE DEF q
      <3>. QED BY <3>1, <3>2, <3>3, <3>4, <3>5
    <2>3. ASSUME pc'[x] = "refresh", todo'[x] # <<>>
          PROVE  policyGrad'[x] = {} /\ HeadRows(x)' = {} /\ <<"refresh">> \in Left(x)'
      <3>1. policyGrad'[x] = {} /\ headGrad'[x] = {} /\ todo'[x] = RefreshOps(x)
        BY <2>3, LocalArrives
      <3>2. todo'[x] = <<<<"refresh">>, <<"norm">>>>
        BY <2>3, <3>1 DEF RefreshOps
      <3>3. \E n \in 1 .. Len(todo'[x]) : todo'[x][n] = <<"refresh">>
        BY <3>2
      <3>. QED BY <3>1, <3>3 DEF HeadRows, Left, ItemsOf
    <2>. QED BY <2>1, <2>2, <2>3 DEF Pending
  <1>. QED BY <1>1, <1>2 DEF GradInv

\* The pass a mini-batch is at, on a rank that has more to do after it.
LEMMA StepHead ==
    ASSUME TypeInv, LeftInv, Collective, NEW k \in Ranks, Up(k)', pc[k] = "step"
    PROVE  LET q == todo[k]
               m == mini[k]
           IN  /\ Left(k)' = Left(k) \ {Head(q)}
               /\ \/ Head(q) = <<"norm">> /\ OptimizerStep /\ Tail(q) = <<>> /\ Left(k) = {<<"norm">>}
                  \/ /\ Tail(q) # <<>> /\ ~OptimizerStep
                     /\ \E i \in MicroBatches(m) :
                          \/ Head(q) = <<"policy", m, i>> /\ PolicyBackward
                          \/ Head(q) = <<"head", m, i>> /\ cycles[k] # 0 /\ BackwardHead
  <1> DEFINE q == todo[k]
             m == mini[k]
             t == Tail(q)
  <1>1. /\ todo'[k] = t /\ q # <<>> /\ q \in Seq(OpsIn(pc[k])) /\ Head(q) = Head(todo[0])
    BY CollectiveTakes
  <1>2. Distinct(q) /\ \A op \in Left(k) :
               \/ op = <<"norm">>
               \/ \E i \in MicroBatches(m) : op = <<"policy", m, i>> \/ (op = <<"head", m, i>> /\ cycles[k] # 0)
    BY DEF LeftInv, StepLeft
  <1>3. ItemsOf(t) = ItemsOf(q) \ {Head(q)}
    BY <1>1, <1>2, TailItems
  <1>4. Left(k)' = ItemsOf(t) /\ Left(k) = ItemsOf(q)
    BY <1>1 DEF Left, ItemsOf
  <1>5. /\ Head(q)[1] = "norm" <=> OptimizerStep
        /\ Head(q)[1] = "policy" <=> PolicyBackward
        /\ Head(q)[1] = "head" <=> BackwardHead
    BY <1>1, CollectiveTags
  <1>6. Head(q) \in Left(k)
    <2>1. Len(q) \in Nat \ {0} /\ Head(q) = q[1]
      BY <1>1, HeadTail
    <2>. QED BY <2>1 DEF Left, ItemsOf
  <1>7. q[Len(q)] = <<"norm">>
    BY <1>1 DEF TypeInv, Follows
  <1>8. CASE Head(q) = <<"norm">>
    <2>1. t = <<>> /\ ItemsOf(q) = {Head(q)}
      BY <1>1, <1>2, <1>7, <1>8, LastAlone
    <2>2. OptimizerStep
      BY <1>5, <1>8
    <2>. QED BY <1>3, <1>4, <1>8, <2>1, <2>2
  <1>9. CASE Head(q) # <<"norm">>
    <2>1. PICK i \in MicroBatches(m) : Head(q) = <<"policy", m, i>> \/ (Head(q) = <<"head", m, i>> /\ cycles[k] # 0)
      BY <1>2, <1>6, <1>9
    <2>2. t # <<>>
      BY <1>1, <1>7, <1>9, LastIsHead
    <2>3. (Head(q) = <<"policy", m, i>> /\ PolicyBackward) \/ (Head(q) = <<"head", m, i>> /\ cycles[k] # 0 /\ BackwardHead)
      BY <1>5, <2>1
    <2>4. ~OptimizerStep
      BY <1>5, <2>1
    <2>. QED BY <1>3, <1>4, <2>2, <2>3, <2>4
  <1>. QED BY <1>8, <1>9

LEMMA PolicyPassAdds ==
    ASSUME TypeInv, LeftInv, Collective, NEW k \in Ranks, Up(k)', pc[k] = "step", Pending(k),
           NEW i \in MicroBatches(mini[k]), Head(todo[k]) = <<"policy", mini[k], i>>, PolicyBackward,
           Left(k)' = Left(k) \ {Head(todo[k])}
    PROVE  LET m == mini[k]
           IN  /\ policyGrad'[k] = {r \in MiniRows(m) : <<"policy", m, r[2]>> \notin Left(k)'}
               /\ HeadRows(k)' = {r \in MiniRows(m) : /\ cycles[k] # 0 /\ batch[r].cycles > 0
                                                      /\ <<"head", m, r[2]>> \notin Left(k)'}
  <1> DEFINE m == mini[k]
             op == <<"policy", m, i>>
  <1>1. todo[k] # <<>>
    BY CollectiveTakes
  <1>2. /\ policyGrad[k] = {r \in MiniRows(m) : <<"policy", m, r[2]>> \notin Left(k)}
        /\ HeadRows(k) = {r \in MiniRows(m) : /\ cycles[k] # 0 /\ batch[r].cycles > 0
                                              /\ <<"head", m, r[2]>> \notin Left(k)}
    BY <1>1 DEF Pending
  <1>3. PICK n \in 1 .. NumMini, h \in 1 .. NumRows :
             /\ Complete(<<"policy", n, h>>) /\ UNCHANGED headGrad
             /\ policyGrad' = [j \in Ranks |-> policyGrad[j] \union {<<z, h>> : z \in Ranks}]
    BY DEF PolicyBackward
  <1>4. Head(todo[k]) = <<"policy", n, h>>
    BY <1>3 DEF Complete, Entered
  <1>5. h = i
    BY <1>4
  <1>6. policyGrad'[k] = policyGrad[k] \union {r \in MiniRows(m) : r[2] = i}
    BY <1>3, <1>5, RowsOf
  <1>7. \A r \in MiniRows(m) : /\ <<"policy", m, r[2]>> = op <=> r[2] = i
                               /\ <<"head", m, r[2]>> # op
    OBVIOUS
  <1>8. HeadRows(k)' = HeadRows(k) /\ Left(k)' = Left(k) \ {op}
    BY <1>3 DEF HeadRows
  <1>9. policyGrad'[k] = {r \in MiniRows(m) : <<"policy", m, r[2]>> \notin Left(k)'}
    BY <1>2, <1>6, <1>7, <1>8
  <1>10. HeadRows(k)' = {r \in MiniRows(m) : /\ cycles[k] # 0 /\ batch[r].cycles > 0
                                             /\ <<"head", m, r[2]>> \notin Left(k)'}
    BY <1>2, <1>7, <1>8
  <1>. QED BY <1>9, <1>10

LEMMA HeadPassAdds ==
    ASSUME TypeInv, LeftInv, Collective, NEW k \in Ranks, Up(k)', pc[k] = "step", Pending(k),
           NEW i \in MicroBatches(mini[k]), Head(todo[k]) = <<"head", mini[k], i>>, BackwardHead,
           cycles[k] # 0, Left(k)' = Left(k) \ {Head(todo[k])}
    PROVE  LET m == mini[k]
           IN  /\ policyGrad'[k] = {r \in MiniRows(m) : <<"policy", m, r[2]>> \notin Left(k)'}
               /\ HeadRows(k)' = {r \in MiniRows(m) : /\ cycles[k] # 0 /\ batch[r].cycles > 0
                                                      /\ <<"head", m, r[2]>> \notin Left(k)'}
  <1> DEFINE m == mini[k]
             op == <<"head", m, i>>
             W == UNION {Recorded(j) : j \in Ranks}
  <1>1. todo[k] # <<>>
    BY CollectiveTakes
  <1>2. /\ policyGrad[k] = {r \in MiniRows(m) : <<"policy", m, r[2]>> \notin Left(k)}
        /\ HeadRows(k) = {r \in MiniRows(m) : /\ cycles[k] # 0 /\ batch[r].cycles > 0
                                              /\ <<"head", m, r[2]>> \notin Left(k)}
    BY <1>1 DEF Pending
  <1>3. PICK n \in 1 .. NumMini, h \in 1 .. NumRows :
             /\ Complete(<<"head", n, h>>) /\ UNCHANGED policyGrad
             /\ headGrad' = [j \in Ranks |-> headGrad[j] \union Taught({<<z, h>> : z \in Ranks} \intersect W, {})]
    BY DEF BackwardHead
  <1>4. Head(todo[k]) = <<"head", n, h>>
    BY <1>3 DEF Complete, Entered
  <1>5. h = i
    BY <1>4
  <1>6. W = {r \in Keys : batch[r].cycles > 0} /\ {<<z, i>> : z \in Ranks} = {r \in MiniRows(m) : r[2] = i}
    BY RowsOf
  <1> DEFINE N == {r \in MiniRows(m) : r[2] = i /\ batch[r].cycles > 0}
  <1>7. {<<z, i>> : z \in Ranks} \intersect W = N
    BY <1>6, RowsOf
  <1>8. headGrad'[k] = headGrad[k] \union Taught(N, {})
    BY <1>3, <1>5, <1>7
  <1>9. {g.row : g \in Taught(N, {})} = N
    BY TaughtRows
  <1>. HIDE DEF N, W
  <1>10. HeadRows(k)' = HeadRows(k) \union N
    <2>1. HeadRows(k)' = {g.row : g \in headGrad[k] \union Taught(N, {})}
      BY <1>8 DEF HeadRows
    <2>2. {g.row : g \in headGrad[k] \union Taught(N, {})} = HeadRows(k) \union {g.row : g \in Taught(N, {})}
      BY DEF HeadRows
    <2>. QED BY <1>9, <2>1, <2>2
  <1>11. \A r \in MiniRows(m) : /\ <<"head", m, r[2]>> = op <=> r[2] = i
                                /\ <<"policy", m, r[2]>> # op
    OBVIOUS
  <1>12. policyGrad'[k] = policyGrad[k] /\ Left(k)' = Left(k) \ {op}
    BY <1>3
  <1>13. HeadRows(k)' = {r \in MiniRows(m) : /\ cycles[k] # 0 /\ batch[r].cycles > 0
                                             /\ <<"head", m, r[2]>> \notin Left(k)'}
    BY <1>2, <1>10, <1>11, <1>12 DEF N
  <1>14. policyGrad'[k] = {r \in MiniRows(m) : <<"policy", m, r[2]>> \notin Left(k)'}
    BY <1>2, <1>11, <1>12
  <1>. QED BY <1>13, <1>14

LEMMA CollectiveGrad ==
    ASSUME TypeInv, LeftInv, GradInv, Collective
    PROVE  GradInv'
  <1> SUFFICES ASSUME NEW k \in Ranks PROVE Pending(k)'
    BY DEF GradInv
  <1>0. CASE ~Up(k)'
    BY <1>0 DEF Up, Pending
  <1> SUFFICES ASSUME Up(k)' PROVE Pending(k)'
    BY <1>0
  <1> DEFINE q == todo[k]
             m == mini[k]
             tag == Head(q)[1]
  <1>1. /\ pc'[k] = pc[k] /\ todo'[k] = Tail(q) /\ mini'[k] = m /\ batch' = batch
        /\ q # <<>> /\ Head(q) = Head(todo[0]) /\ tag \in TagsIn(pc[k])
        /\ pc[k] = "step" => cycles' = cycles
    BY CollectiveTakes
  <1>2. /\ PolicyBackward \/ OptimizerStep \/ UNCHANGED policyGrad
        /\ BackwardHead \/ BackwardRefresh \/ OptimizerStep \/ UNCHANGED headGrad
    BY CollectiveFrame
  <1>3. /\ tag = "policy" <=> PolicyBackward
        /\ tag = "head" <=> BackwardHead
        /\ tag = "refresh" <=> BackwardRefresh
        /\ tag = "norm" <=> OptimizerStep
    BY <1>1, CollectiveTags
  <1>4. Pending(k) /\ Follows(k)
    BY DEF GradInv, TypeInv
  <1>5. CASE pc[k] = "backward"
    <2>1. tag \notin {"policy", "head", "refresh", "norm"}
      BY <1>1, <1>5 DEF TagsIn
    <2>2. UNCHANGED <<policyGrad, headGrad>>
      BY <1>2, <1>3, <2>1
    <2>. QED BY <1>1, <1>4, <1>5, <2>2 DEF Pending
  <1>6. CASE pc[k] = "step" /\ Tail(q) # <<>>
    <2>1. MiniRows(mini[k])' = MiniRows(m)
      BY <1>1 DEF MiniRows
    <2>2. /\ Left(k)' = Left(k) \ {Head(q)}
          /\ \E i \in MicroBatches(m) :
               \/ Head(q) = <<"policy", m, i>> /\ PolicyBackward
               \/ Head(q) = <<"head", m, i>> /\ cycles[k] # 0 /\ BackwardHead
      BY <1>6, StepHead
    <2>3. PICK i \in MicroBatches(m) :
               \/ Head(q) = <<"policy", m, i>> /\ PolicyBackward
               \/ Head(q) = <<"head", m, i>> /\ cycles[k] # 0 /\ BackwardHead
      BY <2>2
    <2>4. /\ policyGrad'[k] = {r \in MiniRows(m) : <<"policy", m, r[2]>> \notin Left(k)'}
          /\ HeadRows(k)' = {r \in MiniRows(m) : /\ cycles[k] # 0 /\ batch[r].cycles > 0
                                                 /\ <<"head", m, r[2]>> \notin Left(k)'}
      BY <1>4, <1>6, <2>2, <2>3, PolicyPassAdds, HeadPassAdds
    <2>. QED BY <1>1, <1>6, <2>1, <2>4 DEF Pending
  <1>7. CASE pc[k] = "refresh" /\ Tail(q) # <<>>
    <2> DEFINE W == UNION {Taught(Recorded(j), ToSet(selected[j])) : j \in Ranks}
    <2>1. /\ Tail(<<<<"norm">>>>) = <<>> /\ Tail(<<<<"refresh">>, <<"norm">>>>) = <<<<"norm">>>>
          /\ Head(<<<<"refresh">>, <<"norm">>>>) = <<"refresh">>
      BY Rest, Zenon
    <2>2. q = <<<<"refresh">>, <<"norm">>>>
      BY <1>1, <1>4, <1>7, <2>1 DEF Follows
    <2>3. Head(q) = <<"refresh">> /\ todo'[k] = <<<<"norm">>>>
      BY <1>1, <2>1, <2>2
    <2>4. BackwardRefresh
      BY <1>3, <2>3
    <2>5. <<"refresh">> \in Left(k) /\ <<"refresh">> \notin Left(k)'
      <3>1. q[1] = <<"refresh">> /\ 1 \in 1 .. Len(q)
        BY <2>2
      <3>2. \A n \in 1 .. Len(todo'[k]) : todo'[k][n] = <<"norm">>
        BY <2>3
      <3>3. <<"norm">> # <<"refresh">>
        OBVIOUS
      <3>. QED BY <3>1, <3>2, <3>3 DEF Left, ItemsOf
    <2>6. policyGrad[k] = {} /\ headGrad[k] = {}
      BY <1>1, <1>4, <1>7, <2>5 DEF Pending, HeadRows
    <2>7. policyGrad'[k] = {} /\ headGrad'[k] = W
      BY <2>4, <2>6 DEF BackwardRefresh
    <2>8. {g.row : g \in W} = UNION {Recorded(j) : j \in Ranks}
      <3>1. \A j \in Ranks : {g.row : g \in Taught(Recorded(j), ToSet(selected[j]))} = Recorded(j)
        BY TaughtRows
      <3>2. ASSUME NEW g \in W PROVE g.row \in UNION {Recorded(j) : j \in Ranks}
        BY <3>1
      <3>3. ASSUME NEW r \in UNION {Recorded(j) : j \in Ranks} PROVE \E g \in W : g.row = r
        <4>1. PICK j \in Ranks : r \in Recorded(j)
          OBVIOUS
        <4>2. PICK g \in Taught(Recorded(j), ToSet(selected[j])) : g.row = r
          BY <3>1, <4>1
        <4>. QED BY <4>2
      <3>. HIDE DEF W
      <3>. QED BY <3>2, <3>3
    <2>9. HeadRows(k)' = {r \in Keys : batch[r].cycles > 0}
      BY <2>7, <2>8, RowsOf DEF HeadRows
    <2>. QED BY <1>1, <1>7, <2>5, <2>7, <2>9 DEF Pending
  <1>8. CASE pc[k] \notin {"backward", "step", "refresh"} \/ (pc[k] # "backward" /\ Tail(q) = <<>>)
    BY <1>1, <1>8 DEF Pending
  <1>. QED BY <1>5, <1>6, <1>7, <1>8

LEMMA GradInit == Init => GradInv
  BY DEF Init, GradInv, Pending

LEMMA GradStep == TypeInv /\ LeftInv /\ GradInv /\ [Next]_vars => GradInv'
  <1> SUFFICES ASSUME TypeInv, LeftInv, GradInv, [Next]_vars PROVE GradInv'
    OBVIOUS
  <1>1. CASE UNCHANGED vars
    <2>1. UNCHANGED <<batch, pc, todo, mini, cycles, policyGrad, headGrad>>
      BY <1>1 DEF vars, control, optimizer
    <2>2. \A k \in Ranks : /\ MiniRows(mini[k])' = MiniRows(mini[k]) /\ Left(k)' = Left(k)
                           /\ HeadRows(k)' = HeadRows(k)
      BY <2>1 DEF MiniRows, Left, ItemsOf, HeadRows
    <2>. QED BY <2>1, <2>2 DEF GradInv, Pending
  <1>2. CASE Next
    BY <1>2, LocalGrad, CollectiveGrad DEF Next
  <1>. QED BY <1>1, <1>2

-----------------------------------------------------------------------------
(* The gradients that have been applied                                    *)

\* The optimizer steps that applied row r to the policy, and to the head.
PolicyHits(k, r) == {i \in 1 .. Len(policyLog[k]) : r \in policyLog[k][i]}
HeadHits(k, r) == {i \in 1 .. Len(headLog[k]) : r \in {g.row : g \in headLog[k][i].rows}}

Once(P, due) == IF due THEN \E i : P = {i} ELSE P = {}

\* The step of row r's mini-batch is over and was not skipped; so is that of
\* the refresh.
InBatch(k, r) == MiniOf(r[2]) <= Stepped(k) /\ MiniOf(r[2]) \notin skipped[k]
InRefresh(k) == Refreshed(k) /\ 0 \notin skipped[k]

HeadDue(k, r) == batch[r].cycles > 0 /\ IF Deferred THEN InRefresh(k) ELSE InBatch(k, r)

Applied(k) ==
    /\ skipped[k] \subseteq 0 .. Stepped(k)
    /\ 0 \in skipped[k] => Deferred /\ Refreshed(k)
    /\ \A r \in Keys : Once(PolicyHits(k, r), InBatch(k, r)) /\ Once(HeadHits(k, r), HeadDue(k, r))

AppliedInv == \A k \in Ranks : Up(k) => Applied(k)

\* Every row belongs to one of the mini-batches.
LEMMA MiniRange ==
    ASSUME NEW r \in Keys
    PROVE  MiniOf(r[2]) \in 1 .. NumMini
  <1> DEFINE R == NumRows
             M == NumMini
             a == r[2] - 1
             d == (a * M) \div R
  <1>1. R \in Nat /\ R > 0 /\ M \in Nat /\ M > 0 /\ a \in Nat /\ a <= R - 1
    BY RefreshAssumption DEF Keys
  <1>. HIDE DEF R, M, a
  <1>2. a * M \in Nat /\ a * M <= (R - 1) * M
    BY <1>1
  <1>3. (R - 1) * M = M * R - M
    BY <1>1
  <1>4. a * M < M * R
    BY <1>1, <1>2, <1>3
  <1> DEFINE p == a * M
  <1>5. p \in Nat /\ p < M * R
    BY <1>2, <1>4
  <1>. HIDE DEF p
  <1>6. p \div R \in Nat /\ R * (p \div R) <= p
    BY <1>1, <1>5
  <1>7. R * (p \div R) < R * M
    BY <1>1, <1>5, <1>6
  <1>8. p \div R < M
    BY <1>1, <1>6, <1>7
  <1>9. (p \div R) + 1 \in 1 .. M
    BY <1>1, <1>6, <1>8
  <1>. QED BY <1>9 DEF MiniOf, p, a, M, R

\* One more entry of a log, of those in W or not.
LEMMA LogHits ==
    ASSUME NEW T, NEW log \in Seq(T), NEW e \in T, NEW W
    PROVE  LET q == Append(log, e)
               P == {i \in 1 .. Len(log) : log[i] \in W}
           IN  {i \in 1 .. Len(q) : q[i] \in W} = IF e \in W THEN P \union {Len(log) + 1} ELSE P
  <1> DEFINE q == Append(log, e)
             n == Len(log)
  <1>1. n \in Nat /\ Len(q) = n + 1 /\ q[n + 1] = e /\ \A i \in 1 .. n : q[i] = log[i]
    BY AppendProperties, LenProperties
  <1>. HIDE DEF q, n
  <1>2. 1 .. n + 1 = (1 .. n) \union {n + 1}
    BY <1>1
  <1>3. {i \in 1 .. Len(q) : q[i] \in W} = IF e \in W THEN {i \in 1 .. n : log[i] \in W} \union {n + 1}
                                          ELSE {i \in 1 .. n : log[i] \in W}
    BY <1>1, <1>2
  <1>. QED BY <1>3 DEF q, n

\* An optimizer step that is taken applies what the gradients hold.
LEMMA AppliesHits ==
    ASSUME TypeInv, Applies, NEW k \in Ranks, NEW r \in Keys
    PROVE  /\ PolicyHits(k, r)' = IF r \in policyGrad[k] THEN PolicyHits(k, r) \union {Len(policyLog[k]) + 1}
                                  ELSE PolicyHits(k, r)
           /\ HeadHits(k, r)' = IF r \in HeadRows(k) THEN HeadHits(k, r) \union {Len(headLog[k]) + 1}
                                ELSE HeadHits(k, r)
  <1>1. /\ PolicyHits(k, r)' = IF r \in policyGrad[k] THEN PolicyHits(k, r) \union {Len(policyLog[k]) + 1}
                               ELSE PolicyHits(k, r)
    <2> DEFINE log == policyLog[k]
               e == policyGrad[k]
               T == SUBSET Keys
               W == {g \in T : r \in g}
               P(q) == {i \in 1 .. Len(q) : q[i] \in W}
    <2>1. log \in Seq(T) /\ e \in T
      BY DEF TypeInv, Optimizing
    <2>2. policyLog'[k] = IF e = {} THEN log ELSE Append(log, e)
      BY DEF Applies
    <2>3. policyLog'[k] \in Seq(T)
      BY <2>1, <2>2, AppendProperties
    <2>4. ASSUME NEW q \in Seq(T) PROVE {i \in 1 .. Len(q) : r \in q[i]} = P(q)
      BY ElementOfSeq
    <2>5. PolicyHits(k, r) = P(log)
      BY <2>1, <2>4 DEF PolicyHits
    <2>6. PolicyHits(k, r)' = P(policyLog'[k])
      BY <2>3, <2>4 DEF PolicyHits
    <2>7. P(Append(log, e)) = IF e \in W THEN P(log) \union {Len(log) + 1} ELSE P(log)
      <3>. HIDE DEF W, T, log, e
      <3>. QED BY <2>1, LogHits
    <2>8. (e \in W <=> r \in policyGrad[k]) /\ (e = {} => e \notin W)
      BY <2>1
    <2>. HIDE DEF W, P, T
    <2>. QED BY <2>2, <2>5, <2>6, <2>7, <2>8
  <1>2. HeadHits(k, r)' = IF r \in HeadRows(k) THEN HeadHits(k, r) \union {Len(headLog[k]) + 1}
                          ELSE HeadHits(k, r)
    <2> DEFINE log == headLog[k]
               e == [lr |-> headLr[k], rows |-> headGrad[k]]
               T == [lr : Nat, rows : SUBSET Taughts]
               W == {h \in T : r \in {g.row : g \in h.rows}}
               P(q) == {i \in 1 .. Len(q) : q[i] \in W}
    <2>1. log \in Seq(T) /\ e \in T
      BY DEF TypeInv, Optimizing
    <2>2. headLog'[k] = IF headGrad[k] = {} THEN log ELSE Append(log, e)
      BY DEF Applies
    <2>8. (e \in W <=> r \in HeadRows(k)) /\ (headGrad[k] = {} => e \notin W)
      BY <2>1 DEF HeadRows
    <2>. HIDE DEF e
    <2>3. headLog'[k] \in Seq(T)
      <3>. HIDE DEF T, log
      <3>. QED BY <2>1, <2>2, AppendProperties
    <2>4. ASSUME NEW q \in Seq(T) PROVE {i \in 1 .. Len(q) : r \in {g.row : g \in q[i].rows}} = P(q)
      <3>1. \A i \in 1 .. Len(q) : q[i] \in T
        BY ElementOfSeq
      <3>. HIDE DEF T
      <3>. QED BY <3>1
    <2>5. HeadHits(k, r) = P(log)
      BY <2>1, <2>4 DEF HeadHits
    <2>6. HeadHits(k, r)' = P(headLog'[k])
      BY <2>3, <2>4 DEF HeadHits
    <2>7. P(Append(log, e)) = IF e \in W THEN P(log) \union {Len(log) + 1} ELSE P(log)
      <3>. HIDE DEF W, T, log, e
      <3>. QED BY <2>1, LogHits
    <2>. HIDE DEF W, P, T
    <2>. QED BY <2>2, <2>5, <2>6, <2>7, <2>8
  <1>. QED BY <1>1, <1>2

\* What is applied depends on the logs and on where the rank is.
LEMMA AppliedKept ==
    ASSUME NEW k \in Ranks, UNCHANGED <<mode, batch, policyLog, headLog, skipped>>, Applied(k),
           Stepped(k)' = Stepped(k), Refreshed(k)' <=> Refreshed(k)
    PROVE  Applied(k)'
  <1>1. (Deferred' <=> Deferred) /\ (InRefresh(k)' <=> InRefresh(k))
    BY DEF Deferred, InRefresh
  <1>2. ASSUME NEW r \in Keys PROVE Once(PolicyHits(k, r), InBatch(k, r))' /\ Once(HeadHits(k, r), HeadDue(k, r))'
    <2>1. PolicyHits(k, r)' = PolicyHits(k, r) /\ HeadHits(k, r)' = HeadHits(k, r)
      BY DEF PolicyHits, HeadHits
    <2>2. InBatch(k, r)' <=> InBatch(k, r)
      BY DEF InBatch, MiniOf
    <2>3. HeadDue(k, r)' <=> HeadDue(k, r)
      BY <1>1, <2>2 DEF HeadDue
    <2>. QED BY <2>1, <2>2, <2>3, Zenon DEF Applied, Once
  <1>. QED BY <1>1, <1>2 DEF Applied

LEMMA LocalApplied ==
    ASSUME TypeInv, CountInv, AppliedInv, NEW x \in Ranks, Local(x)
    PROVE  AppliedInv'
  <1>0. UNCHANGED <<mode, batch, counts, policyLog, headLog, skipped>> /\ (Deferred' <=> Deferred)
    BY LocalFrame DEF Deferred
  <1>1. ASSUME NEW k \in Ranks, k # x, Up(k)' PROVE Applied(k)'
    <2>1. pc'[k] = pc[k] /\ todo'[k] = todo[k] /\ mini'[k] = mini[k]
      BY <1>1, LocalOthers
    <2>2. Stepped(k)' = Stepped(k) /\ (Refreshed(k)' <=> Refreshed(k)) /\ Up(k)
      BY <1>1, <2>1 DEF Stepped, Refreshed, Up
    <2>. QED BY <1>0, <2>2, AppliedKept DEF AppliedInv
  <1>2. Applied(x)'
    <2>0. Up(x) /\ Applied(x) /\ Stepped(x)' = Stepped(x)
      BY LocalArrives DEF AppliedInv
    <2>1. CASE Refreshed(x)' <=> Refreshed(x)
      BY <1>0, <2>0, <2>1, AppliedKept
    <2>2. CASE ~(Refreshed(x)' <=> Refreshed(x))
      <3>1. Refreshed(x)' /\ ~Refreshed(x)
        BY <2>2, LocalArrives
      <3>2. CASE Deferred
        <4>1. pc'[x] = "refresh" /\ pc[x] = "teacher" /\ todo'[x] = RefreshOps(x)
          BY <3>1, <3>2, LocalArrives
        <4>2. todo'[x] = <<>>
          BY <3>1, <4>1 DEF Refreshed
        <4>3. ~(counts[x].cycles > 0)
          BY <4>1, <4>2 DEF RefreshOps
        <4>4. counts[x].cycles = Cycles(Keys)
          BY <3>2, <4>1 DEF CountInv, CountedRight
        <4>5. \A r \in Keys : batch[r].cycles = 0
          <5>1. batch \in [Keys -> Kinds] /\ Keys \in SUBSET Keys
            BY DEF TypeInv, Control
          <5>2. Cycles(Keys) \in Nat /\ (Cycles(Keys) = 0 <=> \A r \in Keys : batch[r].cycles = 0)
            BY <5>1, CyclesCounted
          <5>. QED BY <4>3, <4>4, <5>2
        <4>6. ASSUME NEW r \in Keys PROVE Once(PolicyHits(x, r), InBatch(x, r))' /\ Once(HeadHits(x, r), HeadDue(x, r))'
          <5>1. PolicyHits(x, r)' = PolicyHits(x, r) /\ HeadHits(x, r)' = HeadHits(x, r)
            BY <1>0 DEF PolicyHits, HeadHits
          <5>2. InBatch(x, r)' <=> InBatch(x, r)
            BY <1>0, <2>0 DEF InBatch, MiniOf
          <5>3. ~HeadDue(x, r)' /\ ~HeadDue(x, r)
            BY <1>0, <4>5 DEF HeadDue
          <5>. QED BY <2>0, <5>1, <5>2, <5>3, Zenon DEF Applied, Once
        <4>. QED BY <1>0, <2>0, <3>1, <4>6 DEF Applied
      <3>3. CASE ~Deferred
        <4>1. ASSUME NEW r \in Keys PROVE Once(PolicyHits(x, r), InBatch(x, r))' /\ Once(HeadHits(x, r), HeadDue(x, r))'
          <5>1. PolicyHits(x, r)' = PolicyHits(x, r) /\ HeadHits(x, r)' = HeadHits(x, r)
            BY <1>0 DEF PolicyHits, HeadHits
          <5>2. InBatch(x, r)' <=> InBatch(x, r)
            BY <1>0, <2>0 DEF InBatch, MiniOf
          <5>3. HeadDue(x, r)' <=> HeadDue(x, r)
            BY <1>0, <3>3, <5>2 DEF HeadDue
          <5>. QED BY <2>0, <5>1, <5>2, <5>3, Zenon DEF Applied, Once
        <4>. QED BY <1>0, <2>0, <3>3, <4>1 DEF Applied
      <3>. QED BY <3>2, <3>3
    <2>. QED BY <2>1, <2>2
  <1>. QED BY <1>1, <1>2 DEF AppliedInv

\* The optimizer step of a mini-batch.
LEMMA BatchApplied ==
    ASSUME TypeInv, LeftInv, CountInv, GradInv, Collective, OptimizerStep,
           NEW k \in Ranks, Up(k)', pc[k] = "step", Applied(k)
    PROVE  Applied(k)'
  <1> DEFINE m == mini[k]
             C(r) == batch[r].cycles > 0
  <1>1. /\ pc'[k] = "step" /\ todo'[k] = Tail(todo[k]) /\ mini'[k] = m /\ batch' = batch
        /\ todo[k] # <<>> /\ (Deferred' <=> Deferred)
    BY CollectiveTakes
  <1>2. Tail(todo[k]) = <<>> /\ Left(k) = {<<"norm">>}
    BY StepHead
  <1>3. m \in 1 .. NumMini /\ NumMini \in Nat /\ Stepped(k) = m - 1 /\ Stepped(k)' = m
    <2>1. m \in 0 .. NumMini /\ m >= 1 /\ NumMini \in Nat
      BY RefreshAssumption DEF TypeInv, Control, Shape
    <2>. QED BY <1>1, <1>2, <2>1 DEF Stepped
  <1>4. ~Refreshed(k) /\ ~Refreshed(k)'
    BY <1>1 DEF Refreshed
  <1>5. m \notin skipped[k] /\ 0 \notin skipped[k]
    BY <1>3, <1>4 DEF Applied
  <1>6. policyGrad[k] = MiniRows(m)
    BY <1>1, <1>2 DEF GradInv, Pending
  <1>7. HeadRows(k) = {r \in MiniRows(m) : ~Deferred /\ C(r)}
    <2>1. HeadRows(k) = {r \in MiniRows(m) : cycles[k] # 0 /\ C(r)}
      BY <1>1, <1>2 DEF GradInv, Pending
    <2>2. CASE Deferred
      <3>1. cycles[k] = 0
        BY <2>2 DEF CountInv, CountedRight
      <3>. QED BY <2>1, <2>2, <3>1
    <2>3. CASE ~Deferred
      <3>1. cycles[k] = Cycles(MiniRows(m))
        BY <2>3 DEF CountInv, CountedRight
      <3>2. batch \in [Keys -> Kinds] /\ MiniRows(m) \in SUBSET Keys
        BY DEF TypeInv, Control, MiniRows
      <3>3. Cycles(MiniRows(m)) = 0 <=> \A r \in MiniRows(m) : batch[r].cycles = 0
        BY <3>2, CyclesCounted
      <3>4. \A r \in MiniRows(m) : C(r) => cycles[k] # 0
        BY <3>1, <3>3
      <3>. HIDE DEF C
      <3>. QED BY <2>1, <2>3, <3>4
    <2>. QED BY <2>2, <2>3
  <1>8. \A r \in Keys : MiniOf(r[2]) \in 1 .. NumMini /\ (r \in MiniRows(m) <=> MiniOf(r[2]) = m)
    BY MiniRange DEF MiniRows
  <1>9. CASE Applies
    <2>1. skipped' = skipped
      BY <1>9 DEF Applies
    <2>2. ASSUME NEW r \in Keys PROVE Once(PolicyHits(k, r), InBatch(k, r))' /\ Once(HeadHits(k, r), HeadDue(k, r))'
      <3>1. /\ PolicyHits(k, r)' = IF r \in policyGrad[k] THEN PolicyHits(k, r) \union {Len(policyLog[k]) + 1}
                                  ELSE PolicyHits(k, r)
            /\ HeadHits(k, r)' = IF r \in HeadRows(k) THEN HeadHits(k, r) \union {Len(headLog[k]) + 1}
                                ELSE HeadHits(k, r)
        BY <1>9, AppliesHits
      <3>2. InBatch(k, r) <=> MiniOf(r[2]) <= m - 1 /\ MiniOf(r[2]) \notin skipped[k]
        BY <1>3 DEF InBatch
      <3>3. InBatch(k, r)' <=> MiniOf(r[2]) <= m /\ MiniOf(r[2]) \notin skipped[k]
        BY <1>3, <2>1 DEF InBatch, MiniOf
      <3>4. /\ r \in policyGrad[k] => ~InBatch(k, r) /\ InBatch(k, r)'
            /\ r \notin policyGrad[k] => (InBatch(k, r)' <=> InBatch(k, r))
        BY <1>3, <1>5, <1>6, <1>8, <3>2, <3>3
      <3>5. HeadDue(k, r) <=> C(r) /\ ~Deferred /\ InBatch(k, r)
        BY <1>4 DEF HeadDue, InRefresh
      <3>6. HeadDue(k, r)' <=> C(r) /\ ~Deferred /\ InBatch(k, r)'
        BY <1>1, <1>4 DEF HeadDue, InRefresh
      <3>7. r \in HeadRows(k) <=> r \in policyGrad[k] /\ ~Deferred /\ C(r)
        BY <1>6, <1>7
      <3>8. /\ r \in HeadRows(k) => ~HeadDue(k, r) /\ HeadDue(k, r)'
            /\ r \notin HeadRows(k) => (HeadDue(k, r)' <=> HeadDue(k, r))
        BY <3>4, <3>5, <3>6, <3>7
      <3>9. Once(PolicyHits(k, r), InBatch(k, r)) /\ Once(HeadHits(k, r), HeadDue(k, r))
        BY DEF Applied
      <3>10. Once(PolicyHits(k, r)', InBatch(k, r)')
        <4>1. CASE r \in policyGrad[k]
          <5>1. PolicyHits(k, r) = {} /\ InBatch(k, r)'
            BY <3>4, <3>9, <4>1 DEF Once
          <5>2. PolicyHits(k, r)' = {Len(policyLog[k]) + 1}
            BY <3>1, <4>1, <5>1
          <5>. QED BY <5>1, <5>2 DEF Once
        <4>2. CASE ~(r \in policyGrad[k])
          BY <3>1, <3>4, <3>9, <4>2, Zenon DEF Once
        <4>. QED BY <4>1, <4>2
      <3>11. Once(HeadHits(k, r)', HeadDue(k, r)')
        <4>1. CASE r \in HeadRows(k)
          <5>1. HeadHits(k, r) = {} /\ HeadDue(k, r)'
            BY <3>8, <3>9, <4>1 DEF Once
          <5>2. HeadHits(k, r)' = {Len(headLog[k]) + 1}
            BY <3>1, <4>1, <5>1
          <5>. QED BY <5>1, <5>2 DEF Once
        <4>2. CASE ~(r \in HeadRows(k))
          BY <3>1, <3>8, <3>9, <4>2, Zenon DEF Once
        <4>. QED BY <4>1, <4>2
      <3>. QED BY <3>10, <3>11, Zenon DEF Once
    <2>3. skipped'[k] \subseteq 0 .. m /\ 0 \notin skipped'[k]
      BY <1>3, <1>5, <2>1 DEF Applied
    <2>. QED BY <1>3, <2>2, <2>3 DEF Applied
  <1>10. CASE Skips
    <2>1. skipped'[k] = skipped[k] \union {m} /\ UNCHANGED <<policyLog, headLog>>
      BY <1>10 DEF Skips, StepName
    <2>2. ASSUME NEW r \in Keys PROVE Once(PolicyHits(k, r), InBatch(k, r))' /\ Once(HeadHits(k, r), HeadDue(k, r))'
      <3>1. PolicyHits(k, r)' = PolicyHits(k, r) /\ HeadHits(k, r)' = HeadHits(k, r)
        BY <2>1 DEF PolicyHits, HeadHits
      <3>2. InBatch(k, r) <=> MiniOf(r[2]) <= m - 1 /\ MiniOf(r[2]) \notin skipped[k]
        BY <1>3 DEF InBatch
      <3>3. InBatch(k, r)' <=> MiniOf(r[2]) <= m /\ MiniOf(r[2]) \notin skipped[k] \union {m}
        BY <1>3, <2>1 DEF InBatch, MiniOf
      <3>4. InBatch(k, r)' <=> InBatch(k, r)
        BY <1>3, <1>8, <3>2, <3>3
      <3>5. HeadDue(k, r)' <=> HeadDue(k, r)
        BY <1>1, <1>4, <3>4 DEF HeadDue, InRefresh
      <3>. QED BY <3>1, <3>4, <3>5, Zenon DEF Applied, Once
    <2>3. skipped'[k] \subseteq 0 .. m /\ 0 \notin skipped'[k]
      BY <1>3, <1>5, <2>1 DEF Applied
    <2>. QED BY <1>3, <2>2, <2>3 DEF Applied
  <1>11. Applies \/ Skips
    BY DEF OptimizerStep, Applies, Skips
  <1>. QED BY <1>9, <1>10, <1>11

\* The optimizer step of the refresh.
LEMMA RefreshApplied ==
    ASSUME TypeInv, GradInv, Collective, OptimizerStep, NEW k \in Ranks, Up(k)', pc[k] = "refresh", Applied(k)
    PROVE  Applied(k)'
  <1> DEFINE m == mini[k]
             C(r) == batch[r].cycles > 0
  <1>1. /\ pc'[k] = "refresh" /\ todo'[k] = Tail(todo[k]) /\ mini'[k] = m /\ batch' = batch
        /\ todo[k] # <<>> /\ (Deferred' <=> Deferred) /\ Head(todo[k]) = Head(todo[0])
    BY CollectiveTakes
  <1>2. Deferred /\ m \in Nat
    BY RefreshAssumption DEF TypeInv, Control, Shape
  <1>3. todo[k] = <<<<"norm">>>> /\ todo'[k] = <<>>
    <2>1. Head(todo[0])[1] = "norm"
      BY CollectiveTags
    <2>2. Head(<<<<"refresh">>, <<"norm">>>>) = <<"refresh">> /\ Tail(<<<<"norm">>>>) = <<>>
      BY Rest, Zenon
    <2>3. todo[k] \in {<<<<"refresh">>, <<"norm">>>>, <<<<"norm">>>>}
      BY <1>1 DEF TypeInv, Follows
    <2>4. todo[k] = <<<<"norm">>>>
      BY <1>1, <2>1, <2>2, <2>3
    <2>. QED BY <1>1, <2>2, <2>4
  <1>4. Stepped(k) = m /\ Stepped(k)' = m /\ ~Refreshed(k) /\ Refreshed(k)'
    BY <1>1, <1>3 DEF Stepped, Refreshed
  <1>5. <<"refresh">> \notin Left(k)
    <2>1. \A n \in 1 .. Len(todo[k]) : todo[k][n] = <<"norm">>
      BY <1>3
    <2>2. <<"norm">> # <<"refresh">>
      OBVIOUS
    <2>. QED BY <2>1, <2>2 DEF Left, ItemsOf
  <1>6. policyGrad[k] = {} /\ HeadRows(k) = {r \in Keys : C(r)}
    BY <1>1, <1>5 DEF GradInv, Pending
  <1>7. 0 \notin skipped[k] /\ skipped[k] \subseteq 0 .. m
    BY <1>4 DEF Applied
  <1>8. CASE Applies
    <2>1. skipped' = skipped
      BY <1>8 DEF Applies
    <2>2. ASSUME NEW r \in Keys PROVE Once(PolicyHits(k, r), InBatch(k, r))' /\ Once(HeadHits(k, r), HeadDue(k, r))'
      <3>1. /\ PolicyHits(k, r)' = PolicyHits(k, r)
            /\ HeadHits(k, r)' = IF r \in HeadRows(k) THEN HeadHits(k, r) \union {Len(headLog[k]) + 1}
                                ELSE HeadHits(k, r)
        BY <1>6, <1>8, AppliesHits
      <3>2. InBatch(k, r)' <=> InBatch(k, r)
        BY <1>4, <2>1 DEF InBatch, MiniOf
      <3>3. ~HeadDue(k, r) /\ (HeadDue(k, r)' <=> C(r))
        BY <1>1, <1>2, <1>4, <1>7, <2>1 DEF HeadDue, InRefresh
      <3>4. r \in HeadRows(k) <=> C(r)
        BY <1>6
      <3>5. Once(PolicyHits(k, r), InBatch(k, r)) /\ Once(HeadHits(k, r), HeadDue(k, r))
        BY DEF Applied
      <3>6. Once(HeadHits(k, r)', HeadDue(k, r)')
        <4>1. CASE r \in HeadRows(k)
          <5>1. HeadHits(k, r) = {} /\ HeadDue(k, r)'
            BY <3>3, <3>4, <3>5, <4>1 DEF Once
          <5>2. HeadHits(k, r)' = {Len(headLog[k]) + 1}
            BY <3>1, <4>1, <5>1
          <5>. QED BY <5>1, <5>2 DEF Once
        <4>2. CASE ~(r \in HeadRows(k))
          BY <3>1, <3>3, <3>4, <3>5, <4>2, Zenon DEF Once
        <4>. QED BY <4>1, <4>2
      <3>. QED BY <3>1, <3>2, <3>5, <3>6, Zenon DEF Once
    <2>. QED BY <1>4, <1>7, <2>1, <2>2 DEF Applied
  <1>9. CASE Skips
    <2>1. skipped'[k] = skipped[k] \union {0} /\ UNCHANGED <<policyLog, headLog>>
      BY <1>9 DEF Skips, StepName
    <2>2. ASSUME NEW r \in Keys PROVE Once(PolicyHits(k, r), InBatch(k, r))' /\ Once(HeadHits(k, r), HeadDue(k, r))'
      <3>1. PolicyHits(k, r)' = PolicyHits(k, r) /\ HeadHits(k, r)' = HeadHits(k, r)
        BY <2>1 DEF PolicyHits, HeadHits
      <3>2. MiniOf(r[2]) # 0
        BY MiniRange
      <3>3. InBatch(k, r)' <=> InBatch(k, r)
        BY <1>4, <2>1, <3>2 DEF InBatch, MiniOf
      <3>4. ~HeadDue(k, r)' /\ ~HeadDue(k, r)
        BY <1>1, <1>2, <1>4, <2>1 DEF HeadDue, InRefresh
      <3>. QED BY <3>1, <3>3, <3>4, Zenon DEF Applied, Once
    <2>3. skipped'[k] \subseteq 0 .. m
      BY <1>2, <1>7, <2>1
    <2>. QED BY <1>1, <1>2, <1>4, <2>2, <2>3 DEF Applied
  <1>10. Applies \/ Skips
    BY DEF OptimizerStep, Applies, Skips
  <1>. QED BY <1>8, <1>9, <1>10

LEMMA CollectiveApplied ==
    ASSUME TypeInv, LeftInv, CountInv, GradInv, AppliedInv, Collective
    PROVE  AppliedInv'
  <1> SUFFICES ASSUME NEW k \in Ranks, Up(k)' PROVE Applied(k)'
    BY DEF AppliedInv
  <1>1. /\ pc'[k] = pc[k] /\ todo'[k] = Tail(todo[k]) /\ mini'[k] = mini[k] /\ UNCHANGED <<mode, batch>>
        /\ todo[k] # <<>> /\ Head(todo[k]) = Head(todo[0]) /\ Head(todo[k])[1] \in TagsIn(pc[k])
        /\ Up(k) /\ pc[k] \in Stages
    BY CollectiveTakes
  <1>2. Applied(k) /\ Follows(k) /\ (Head(todo[k])[1] = "norm" <=> OptimizerStep)
    BY <1>1, CollectiveTags DEF AppliedInv, TypeInv
  <1>3. CASE OptimizerStep
    <2>1. pc[k] \in {"step", "refresh"}
      BY <1>1, <1>2, <1>3 DEF TagsIn, Stages
    <2>. QED BY <1>2, <1>3, <2>1, BatchApplied, RefreshApplied
  <1>4. CASE ~OptimizerStep
    <2>1. UNCHANGED <<policyLog, headLog, skipped>>
      BY <1>4, CollectiveFrame
    <2>2. pc[k] = "step" => Tail(todo[k]) # <<>>
      BY <1>4, StepHead
    <2>3. pc[k] = "refresh" => Tail(todo[k]) # <<>>
      <3> SUFFICES ASSUME pc[k] = "refresh" PROVE Tail(todo[k]) # <<>>
        OBVIOUS
      <3>1. /\ Tail(<<<<"refresh">>, <<"norm">>>>) = <<<<"norm">>>> /\ Head(<<<<"norm">>>>) = <<"norm">>
        BY Rest, Zenon
      <3>2. <<<<"norm">>>> # <<>> /\ <<"norm">>[1] = "norm"
        OBVIOUS
      <3>3. todo[k] \in {<<<<"refresh">>, <<"norm">>>>, <<<<"norm">>>>}
        BY <1>1, <1>2 DEF Follows
      <3>4. todo[k] # <<<<"norm">>>>
        BY <1>2, <1>4, <3>1, <3>2
      <3>. QED BY <3>1, <3>2, <3>3, <3>4
    <2>4. Stepped(k)' = Stepped(k)
      BY <1>1, <2>2 DEF Stepped
    <2>5. Refreshed(k)' <=> Refreshed(k)
      BY <1>1, <2>3 DEF Refreshed
    <2>. QED BY <1>1, <1>2, <2>1, <2>4, <2>5, AppliedKept
  <1>. QED BY <1>3, <1>4

LEMMA AppliedInit == Init => AppliedInv
  <1> SUFFICES ASSUME Init, NEW k \in Ranks PROVE Applied(k)
    BY DEF AppliedInv
  <1>1. /\ pc[k] = "begin" /\ todo[k] = <<>> /\ mini[k] = 0 /\ policyLog[k] = <<>> /\ headLog[k] = <<>>
        /\ skipped[k] = {}
    BY DEF Init
  <1>2. Stepped(k) = 0 /\ ~Refreshed(k)
    BY <1>1 DEF Stepped, Refreshed
  <1>3. ASSUME NEW r \in Keys PROVE Once(PolicyHits(k, r), InBatch(k, r)) /\ Once(HeadHits(k, r), HeadDue(k, r))
    <2>1. PolicyHits(k, r) = {} /\ HeadHits(k, r) = {}
      BY <1>1 DEF PolicyHits, HeadHits
    <2>2. ~InBatch(k, r)
      BY <1>2, MiniRange DEF InBatch
    <2>3. ~HeadDue(k, r)
      BY <1>2, <2>2 DEF HeadDue, InRefresh
    <2>. QED BY <2>1, <2>2, <2>3 DEF Once
  <1>. QED BY <1>1, <1>3 DEF Applied

LEMMA AppliedStep ==
    TypeInv /\ LeftInv /\ CountInv /\ GradInv /\ AppliedInv /\ [Next]_vars => AppliedInv'
  <1> SUFFICES ASSUME TypeInv, LeftInv, CountInv, GradInv, AppliedInv, [Next]_vars PROVE AppliedInv'
    OBVIOUS
  <1>1. CASE UNCHANGED vars
    <2>1. UNCHANGED <<mode, batch, pc, todo, mini, policyLog, headLog, skipped>>
      BY <1>1 DEF vars, control, optimizer
    <2>2. \A k \in Ranks : Stepped(k)' = Stepped(k) /\ (Refreshed(k)' <=> Refreshed(k)) /\ (Up(k)' <=> Up(k))
      BY <2>1 DEF Stepped, Refreshed, Up
    <2>. QED BY <2>1, <2>2, AppliedKept DEF AppliedInv
  <1>2. CASE Next
    BY <1>2, LocalApplied, CollectiveApplied DEF Next
  <1>. QED BY <1>1, <1>2

\* A set of hits that is due is one step.
LEMMA OnceCounts ==
    ASSUME NEW P, NEW due, Once(P, due)
    PROVE  Cardinality(P) = IF due THEN 1 ELSE 0
  <1>1. CASE due
    <2>1. PICK i : P = {i}
      BY <1>1 DEF Once
    <2>. QED BY <1>1, <2>1, FS_Singleton
  <1>2. CASE ~due
    BY <1>2, FS_EmptySet DEF Once
  <1>. QED BY <1>1, <1>2

\* When every rank has returned, each row's policy gradient has been applied
\* by exactly one optimizer step, unless the step of its mini-batch was skipped
\* for a non-finite norm: neither the probe nor the refresh that follows the
\* policy's last step applies it again, and no rank loses one.
THEOREM PolicyAppliedOnce == Spec => []PolicyGradientOnce
  <1>1. TypeInv /\ AppliedInv => PolicyGradientOnce
    <2> SUFFICES ASSUME TypeInv, AppliedInv, Finished, NEW k \in Ranks, NEW r \in Keys
                 PROVE  Cardinality({i \in 1 .. Len(policyLog[k]) : r \in policyLog[k][i]})
                          = IF MiniOf(r[2]) \in skipped[k] THEN 0 ELSE 1
      BY DEF PolicyGradientOnce
    <2>1. pc[k] = "done" /\ mini[k] = NumMini
      BY DEF Finished, TypeInv, Control, Shape, Epilogue
    <2>2. Stepped(k) = NumMini /\ Applied(k)
      BY <2>1 DEF Stepped, AppliedInv, Up
    <2>3. InBatch(k, r) <=> MiniOf(r[2]) \notin skipped[k]
      BY <2>2, MiniRange DEF InBatch
    <2>4. Once(PolicyHits(k, r), InBatch(k, r))
      BY <2>2 DEF Applied
    <2>5. Cardinality(PolicyHits(k, r)) = IF InBatch(k, r) THEN 1 ELSE 0
      BY <2>4, OnceCounts
    <2>. QED BY <2>3, <2>5 DEF PolicyHits
  <1>. QED BY <1>1, TypeInit, TypeStep, LeftInit, LeftStep, CountInit, CountStep, GradInit, GradStep,
              AppliedInit, AppliedStep, PTL DEF Spec

\* When every rank has returned, each row with cycles has trained the head in
\* exactly one optimizer step, that of its mini-batch or, on a refresh step,
\* the deferred one, unless that step was skipped; a row without cycles in none.
THEOREM HeadAppliedOnce == Spec => []HeadTrainedOnce
  <1>1. TypeInv /\ AppliedInv => HeadTrainedOnce
    <2> SUFFICES ASSUME TypeInv, AppliedInv, Finished, NEW k \in Ranks, NEW r \in Keys
                 PROVE  Cardinality({i \in 1 .. Len(headLog[k]) : r \in {g.row : g \in headLog[k][i].rows}})
                          = IF batch[r].cycles > 0 /\ (IF Deferred THEN 0 ELSE MiniOf(r[2])) \notin skipped[k]
                            THEN 1 ELSE 0
      BY DEF HeadTrainedOnce
    <2>1. pc[k] = "done" /\ mini[k] = NumMini
      BY DEF Finished, TypeInv, Control, Shape, Epilogue
    <2>2. Stepped(k) = NumMini /\ Applied(k) /\ Refreshed(k)
      BY <2>1 DEF Stepped, Refreshed, AppliedInv, Up
    <2>3. HeadDue(k, r) <=> batch[r].cycles > 0 /\ (IF Deferred THEN 0 ELSE MiniOf(r[2])) \notin skipped[k]
      BY <2>2, MiniRange DEF HeadDue, InRefresh, InBatch
    <2>4. Once(HeadHits(k, r), HeadDue(k, r))
      BY <2>2 DEF Applied
    <2>5. Cardinality(HeadHits(k, r)) = IF HeadDue(k, r) THEN 1 ELSE 0
      BY <2>4, OnceCounts
    <2>. QED BY <2>3, <2>5 DEF HeadHits
  <1>. QED BY <1>1, TypeInit, TypeStep, LeftInit, LeftStep, CountInit, CountStep, GradInit, GradStep,
              AppliedInit, AppliedStep, PTL DEF Spec

-----------------------------------------------------------------------------
(* The selection                                                           *)

\* A fraction rounded up.
LEMMA RoundedUp ==
    ASSUME NEW a \in Nat, NEW d \in Nat \ {0}
    PROVE  LET q == (a + d - 1) \div d
           IN  q \in Nat /\ q * d >= a /\ \A m \in Nat : m * d >= a => q <= m
  <1> DEFINE q == (a + d - 1) \div d
             p == (a + d - 1) % d
  <1>1. a + d - 1 \in Nat
    OBVIOUS
  <1>2. q \in Int /\ p \in 0 .. d - 1 /\ a + d - 1 = d * q + p
    BY <1>1
  <1>. HIDE DEF q, p
  <1>3. q >= 0
    <2>1. SUFFICES ASSUME q <= -1 PROVE FALSE
      BY <1>2
    <2>2. d * q <= d * (-1)
      BY <1>2, <2>1
    <2>. QED BY <1>1, <1>2, <2>2
  <1>4. q * d >= a
    BY <1>2
  <1>5. ASSUME NEW m \in Nat, m * d >= a PROVE q <= m
    <2>1. SUFFICES ASSUME q >= m + 1 PROVE FALSE
      BY <1>2
    <2>2. d * q >= d * (m + 1)
      BY <1>2, <2>1
    <2>3. d * (m + 1) = m * d + d
      OBVIOUS
    <2>. QED BY <1>2, <1>5, <2>2, <2>3
  <1>6. q \in Nat
    BY <1>2, <1>3
  <1>. QED BY <1>4, <1>5, <1>6 DEF q

\* The first n elements of a list without repetitions are n elements.
LEMMA FirstOf ==
    ASSUME NEW S, IsFiniteSet(S), NEW q, Sorts(q, S), NEW n \in 0 .. Len(q)
    PROVE  /\ ToSet(SubSeq(q, 1, n)) = {q[i] : i \in 1 .. n}
           /\ Cardinality(ToSet(SubSeq(q, 1, n))) = n
  <1> DEFINE T == {q[i] : i \in 1 .. n}
             f == [i \in 1 .. n |-> q[i]]
             s == SubSeq(q, 1, n)
  <1>1. q \in Seq(S) /\ Len(q) \in Nat /\ \A i, j \in 1 .. Len(q) : q[i] = q[j] => i = j
    BY LenProperties DEF Sorts
  <1>2. \A i \in 1 .. n : q[i] \in S
    BY <1>1, ElementOfSeq
  <1>3. Len(s) = n /\ s \in Seq(S) /\ \A i \in 1 .. n : s[i] = q[i]
    <2>1. SubSeq(q, 1, n) \in Seq(S) /\ Len(SubSeq(q, 1, n)) = n
      BY <1>1, <1>2, SubSeqProperties
    <2>2. \A i \in 1 .. n : SubSeq(q, 1, n)[i] = q[1 + i - 1]
      BY <1>1, SubSeqProperties
    <2>3. \A i \in 1 .. n : 1 + i - 1 = i
      OBVIOUS
    <2>. QED BY <2>1, <2>2, <2>3
  <1>. HIDE DEF s
  <1>4. DOMAIN s = 1 .. n
    BY <1>3, LenProperties
  <1>5. ToSet(s) = T
    BY <1>3, <1>4 DEF ToSet
  <1>6. f \in Bijection(1 .. n, T)
    BY <1>1 DEF Bijection, Injection, Surjection, IsInjective
  <1>7. IsFiniteSet(1 .. n) /\ Cardinality(1 .. n) = n
    BY FS_Interval
  <1>. HIDE DEF T, f
  <1>8. Cardinality(T) = n
    <2>1. ExistsBijection(1 .. n, T)
      BY <1>6 DEF ExistsBijection
    <2>. QED BY <1>7, <2>1, FS_Bijection
  <1>. QED BY <1>5, <1>8 DEF T, s

\* What select_trajectories returns: of the rows with a positive score as many
\* of the best as the fraction of the records allows.
LEMMA SelectsBest ==
    ASSUME batch \in [Keys -> Kinds], NEW k \in Ranks, records[k] \in Seq(Keys),
           shift[k] \in [Keys -> Nat]
    PROVE  LET S == {r \in ToSet(records[k]) : Score(k, r) > 0}
               T == ToSet(SelectTrajectories(k))
               c == (FracNum * Len(records[k]) + FracDen - 1) \div FracDen
           IN  /\ T \subseteq S
               /\ \A r \in S \ T, t \in T : Score(k, r) <= Score(k, t)
               /\ Cardinality(T) = Min({Cardinality(S), c})
  <1> DEFINE S == {r \in ToSet(records[k]) : Score(k, r) > 0}
             better(a, b) == Score(k, a) > Score(k, b) \/ (Score(k, a) = Score(k, b) /\ Before(a, b))
             R == {p \in S \X S : better(p[1], p[2])}
             q == InOrder(S, better)
             n == Cardinality(S)
             c == (FracNum * Len(records[k]) + FracDen - 1) \div FracDen
             count == Min({n, c})
             T == ToSet(SelectTrajectories(k))
  <1>1. Len(records[k]) \in Nat /\ S \subseteq Keys
    <2>1. \A i \in 1 .. Len(records[k]) : records[k][i] \in Keys
      BY ElementOfSeq
    <2>2. DOMAIN records[k] = 1 .. Len(records[k])
      BY LenProperties
    <2>3. ToSet(records[k]) \subseteq Keys
      BY <2>1, <2>2 DEF ToSet
    <2>4. S \subseteq ToSet(records[k])
      OBVIOUS
    <2>. QED BY <2>3, <2>4, LenProperties
  <1>2. ASSUME NEW r \in Keys PROVE Score(k, r) \in Int
    <2>1. batch[r].advantage \in Int /\ shift[k][r] \in Int
      BY RefreshAssumption
    <2>2. ASSUME NEW a \in Int PROVE Max({a, 0}) \in Int
      <3>1. 0 \in Int
        OBVIOUS
      <3>2. Max({a, 0}) \in {a, 0}
        BY <3>1, MaxPair, Zenon
      <3>. QED BY <3>2
    <2>3. Max({batch[r].advantage, 0}) \in Int
      BY <2>1, <2>2
    <2>. QED BY <2>1, <2>3 DEF Score
  <1>a. \A x, y \in S : <<x, y>> \in R <=> better(x, y)
    OBVIOUS
  <1>b. \A x \in S : x[1] \in Int /\ x[2] \in Int /\ x = <<x[1], x[2]>> /\ Score(k, x) \in Int
    BY <1>1, <1>2, KeysFinite
  <1>3. Orders(R, S)
    <2>. HIDE DEF R, S
    <2>3. \A x \in S : ~better(x, x)
      BY <1>b DEF Before
    <2>4. \A x, y \in S : x = y \/ better(x, y) \/ better(y, x)
      BY <1>b DEF Before
    <2>5. \A x, y, z \in S : better(x, y) /\ better(y, z) => better(x, z)
      BY <1>b DEF Before
    <2>. QED BY <1>a, <2>3, <2>4, <2>5 DEF Orders
  <1>4. IsFiniteSet(S)
    <2>. HIDE DEF S
    <2>. QED BY <1>1, KeysFinite, FS_Subset
  <1>5. \A x \in S : {y \in S : better(y, x)} = Below(R, S, x)
    BY DEF Below
  <1>. HIDE DEF R
  <1>6. \A i \in 1 .. n : \E x \in S : Cardinality({y \in S : better(y, x)}) = i - 1
    <2> TAKE i \in 1 .. n
    <2>. HIDE DEF S
    <2>1. PICK x \in S : Cardinality(Below(R, S, x)) = i - 1
      BY <1>3, <1>4, PlacesTaken
    <2>2. {y \in S : better(y, x)} = Below(R, S, x)
      BY <1>5
    <2>. HIDE DEF better
    <2>3. Cardinality({y \in S : better(y, x)}) = i - 1
      BY <2>1, <2>2, Zenon
    <2>. QED BY <2>3
  <1>7. n \in Nat
    BY <1>4, FS_CardinalityType
  <1>8. c \in Nat
    <2> DEFINE a == FracNum * Len(records[k])
    <2>1. a \in Nat /\ FracDen \in Nat \ {0}
      BY <1>1, RefreshAssumption
    <2>. HIDE DEF a
    <2>2. (a + FracDen - 1) \div FracDen \in Nat
      BY <2>1, RoundedUp
    <2>. QED BY <2>2 DEF a
  <1>9. SelectTrajectories(k) = SubSeq(q, 1, count)
    BY Zenon DEF SelectTrajectories
  <1>. HIDE DEF S, c
  <1>10. /\ q \in [1 .. n -> S]
         /\ \A i \in 1 .. n : Cardinality({y \in S : better(y, q[i])}) = i - 1
    BY <1>6 DEF InOrder
  <1>. HIDE DEF q
  <1>11. \A i \in 1 .. n : Cardinality(Below(R, S, q[i])) = i - 1
    <2> TAKE i \in 1 .. n
    <2>1. Cardinality({y \in S : better(y, q[i])}) = i - 1 /\ q[i] \in S
      BY <1>10
    <2>2. {y \in S : better(y, q[i])} = Below(R, S, q[i])
      BY <1>5, <2>1
    <2>. HIDE DEF better
    <2>. QED BY <2>1, <2>2, Zenon
  <1>12. Sorts(q, S) /\ \A i, j \in 1 .. Len(q) : i < j => <<q[i], q[j]>> \in R
    BY <1>3, <1>4, <1>10, <1>11, PlacedInOrder
  <1>13. Len(q) = n /\ \A i \in 1 .. n : q[i] \in S
    BY <1>10, <1>12 DEF Sorts
  <1>14. count \in 0 .. n
    <2>1. n \in Int /\ c \in Int
      BY <1>7, <1>8
    <2>. HIDE DEF n
    <2>2. count \in {n, c} /\ count <= n
      BY <2>1, MinPair, Zenon
    <2>. HIDE DEF count
    <2>. QED BY <1>7, <1>8, <2>2
  <1>. HIDE DEF n, count
  <1>15. T = {q[i] : i \in 1 .. count} /\ Cardinality(T) = count
    BY <1>4, <1>9, <1>12, <1>13, <1>14, FirstOf
  <1>. HIDE DEF T
  <1>16. T \subseteq S
    BY <1>7, <1>13, <1>14, <1>15
  <1>17. ASSUME NEW r \in S \ T, NEW t \in T PROVE Score(k, r) <= Score(k, t)
    <2>1. PICK j \in 1 .. n : q[j] = r
      BY <1>12, <1>13 DEF Sorts
    <2>2. PICK i \in 1 .. count : q[i] = t
      BY <1>15
    <2>3. j > count
      BY <1>7, <1>14, <1>15, <2>1
    <2>4. <<t, r>> \in R
      BY <1>7, <1>12, <1>13, <1>14, <2>1, <2>2, <2>3
    <2>5. better(t, r) /\ t \in S
      BY <1>16, <1>a, <2>4
    <2>. QED BY <1>b, <2>5
  <1>. QED BY <1>15, <1>16, <1>17 DEF T, S, count, n, c

\* record_cases has a case of every record it keeps that has cycles.
LEMMA RecordCasesHit ==
    ASSUME batch \in [Keys -> Kinds], NEW q \in Seq(Keys), NEW rows,
           NEW h \in 1 .. Len(q), q[h] \in rows, batch[q[h]].cycles > 0
    PROVE  \E n \in 1 .. Len(RecordCases(q, rows)) : RecordCases(q, rows)[n][1] = q[h]
  <1> DEFINE kept == {i \in 1 .. Len(q) : q[i] \in rows}
             f == [i \in kept |-> {i} \X (1 .. batch[q[i]].cycles)]
             S == UNION {{i} \X (1 .. batch[q[i]].cycles) : i \in kept}
             each == Sorted(S)
             w == [n \in 1 .. Len(each) |-> <<q[each[n][1]], each[n][2]>>]
  <1>1. Len(q) \in Nat /\ \A i \in 1 .. Len(q) : q[i] \in Keys
    BY LenProperties, ElementOfSeq
  <1>2. \A i \in kept : batch[q[i]].cycles \in Nat
    <2>1. \A r \in Keys : batch[r].cycles \in Nat
      BY RefreshAssumption
    <2>. QED BY <1>1, <2>1
  <1>3. IsFiniteSet(kept)
    <2>1. IsFiniteSet(1 .. Len(q)) /\ kept \in SUBSET (1 .. Len(q))
      BY <1>1, FS_Interval
    <2>. HIDE DEF kept
    <2>. QED BY <2>1, FS_Subset
  <1>4. IsFiniteSet(S)
    <2>1. ASSUME NEW i \in kept PROVE IsFiniteSet(f[i])
      <3>1. IsFiniteSet({i}) /\ IsFiniteSet(1 .. batch[q[i]].cycles)
        <4> DEFINE b == batch[q[i]].cycles
        <4>1. b \in Int
          BY <1>2
        <4>. HIDE DEF b
        <4>2. IsFiniteSet(1 .. b)
          BY <4>1, FS_Interval
        <4>. QED BY <4>2, FS_Singleton DEF b
      <3>2. IsFiniteSet({i} \X (1 .. batch[q[i]].cycles))
        BY <3>1, FS_Product
      <3>. QED BY <3>2
    <2>2. {f[i] : i \in kept} = {{i} \X (1 .. batch[q[i]].cycles) : i \in kept}
      OBVIOUS
    <2>. HIDE DEF f, kept
    <2>3. IsFiniteSet(UNION {f[i] : i \in kept})
      BY <1>3, <2>1, UnionFinite
    <2>. QED BY <2>2, <2>3, Zenon
  <1>5. \A x \in S : x \in Int \X Int
    BY <1>1, <1>2
  <1>6. <<h, 1>> \in S
    <2>1. h \in kept
      OBVIOUS
    <2>2. <<h, 1>> \in {h} \X (1 .. batch[q[h]].cycles)
      BY <1>2, <2>1
    <2>. HIDE DEF kept
    <2>. QED BY <2>1, <2>2
  <1>. HIDE DEF S
  <1>7. Sorts(each, S)
    BY <1>4, <1>5, PairsSorted
  <1>. HIDE DEF each
  <1>8. PICK n \in 1 .. Len(each) : each[n] = <<h, 1>>
    BY <1>6, <1>7 DEF Sorts
  <1>9. Len(each) \in Nat
    BY <1>7, LenProperties DEF Sorts
  <1>10. DOMAIN w = 1 .. Len(each) /\ Len(w) = Len(each)
    BY <1>9
  <1>11. w[n][1] = q[h]
    BY <1>8
  <1>12. RecordCases(q, rows) = w
    BY DEF RecordCases, each, S
  <1>. HIDE DEF w
  <1>. QED BY <1>8, <1>10, <1>11, <1>12

-----------------------------------------------------------------------------
(* The records and the old distributions                                   *)

\* The records of all ranks, and the cases whose distributions are compared.
GatheredRows == UNION {LocalRecords(j) : j \in Ranks}
Gathered == Sorted(GatheredRows)
ShiftCases == RecordCases(Gathered, Positive)

LEMMA GatheredIs ==
    ASSUME batch \in [Keys -> Kinds]
    PROVE  /\ GatheredRows = {r \in Keys : batch[r].cycles > 0 /\ batch[r].finite}
           /\ IsFiniteSet(GatheredRows)
           /\ Gathered \in Seq(Keys) /\ Len(Gathered) = Cardinality(GatheredRows)
           /\ ToSet(Gathered) = GatheredRows
           /\ ShiftCases \in Seq(Keys \X Nat)
  <1>1. GatheredRows = {r \in Keys : batch[r].cycles > 0 /\ batch[r].finite}
    <2>1. \A r \in Keys : r[1] \in Ranks
      BY DEF Keys
    <2>. QED BY <2>1 DEF GatheredRows, LocalRecords, Recorded
  <1>2. IsFiniteSet(GatheredRows) /\ GatheredRows \subseteq Int \X Int /\ GatheredRows \in SUBSET Keys
    BY <1>1, KeysFinite, FS_Subset
  <1>3. Sorts(Gathered, GatheredRows)
    BY <1>2, PairsSorted DEF Gathered
  <1>4. Gathered \in Seq(Keys)
    BY <1>2, GatheredType DEF Gathered
  <1>5. DOMAIN Gathered = 1 .. Len(Gathered)
    BY <1>4, LenProperties
  <1>6. \A i \in 1 .. Len(Gathered) : Gathered[i] \in GatheredRows
    BY <1>3, ElementOfSeq DEF Sorts
  <1>7. ToSet(Gathered) = GatheredRows
    BY <1>3, <1>5, <1>6 DEF Sorts, ToSet
  <1>8. ShiftCases \in Seq(Keys \X Nat)
    BY <1>4, RecordCasesType DEF ShiftCases
  <1>. QED BY <1>1, <1>2, <1>3, <1>4, <1>7, <1>8 DEF Sorts

\* Every record with a positive advantage is compared.
LEMMA PositiveCompared ==
    ASSUME batch \in [Keys -> Kinds], NEW r \in GatheredRows, batch[r].advantage > 0
    PROVE  \E i \in 1 .. Len(ShiftCases) : ShiftCases[i][1] = r
  <1>1. /\ r \in Keys /\ batch[r].cycles > 0 /\ Gathered \in Seq(Keys) /\ ToSet(Gathered) = GatheredRows
    BY GatheredIs
  <1>2. PICK h \in 1 .. Len(Gathered) : Gathered[h] = r
    BY <1>1, LenProperties DEF ToSet
  <1>3. Gathered[h] \in Positive /\ batch[Gathered[h]].cycles > 0
    BY <1>1, <1>2 DEF Positive
  <1>4. \E n \in 1 .. Len(RecordCases(Gathered, Positive)) : RecordCases(Gathered, Positive)[n][1] = Gathered[h]
    BY <1>1, <1>3, RecordCasesHit
  <1>. QED BY <1>2, <1>4 DEF ShiftCases

\* The scores of the first n cases: the divergence of their rows once a policy
\* step has been applied.
Measured(k, n) ==
    [r \in Keys |-> IF policyLog[k] # <<>> /\ \E i \in 1 .. n : ShiftCases[i][1] = r
                    THEN batch[r].kl ELSE 0]

\* A rank with the records and the scores selects the most valuable rows.
LEMMA SelectionTop ==
    ASSUME batch \in [Keys -> Kinds], NEW k \in Ranks, records[k] = Gathered,
           shift[k] = Measured(k, Len(ShiftCases))
    PROVE  LET new == ToSet(SelectTrajectories(k))
               worthy == {r \in Keys : Worth(k, r) > 0}
               all == Cardinality(UNION {LocalRecords(j) : j \in Ranks})
               limit == Min({n \in 0 .. all : n * FracDen >= FracNum * all})
           IN  /\ new \subseteq worthy /\ worthy \subseteq GatheredRows
               /\ \A r \in worthy \ new, q \in new : Worth(k, r) <= Worth(k, q)
               /\ Cardinality(new) = Min({Cardinality(worthy), limit})
  <1> DEFINE S == {r \in ToSet(records[k]) : Score(k, r) > 0}
             T == ToSet(SelectTrajectories(k))
             all == Cardinality(GatheredRows)
             c == (FracNum * Len(records[k]) + FracDen - 1) \div FracDen
             W == {r \in Keys : Worth(k, r) > 0}
             L == {n \in 0 .. all : n * FracDen >= FracNum * all}
  <1>1. /\ GatheredRows = {r \in Keys : batch[r].cycles > 0 /\ batch[r].finite}
        /\ IsFiniteSet(GatheredRows) /\ Gathered \in Seq(Keys) /\ Len(Gathered) = all
        /\ ToSet(Gathered) = GatheredRows
    BY GatheredIs
  <1>2. \A r \in Keys : batch[r].kl \in Nat /\ batch[r].advantage \in Int
    BY RefreshAssumption
  <1>3. shift[k] \in [Keys -> Nat]
    BY <1>2 DEF Measured
  <1>4. ASSUME NEW r \in GatheredRows PROVE Score(k, r) = Worth(k, r)
    <2>0. r \in Keys /\ batch[r].cycles > 0 /\ batch[r].finite
      BY <1>1
    <2>1. CASE batch[r].advantage > 0
      <3>1. \E i \in 1 .. Len(ShiftCases) : ShiftCases[i][1] = r
        BY <2>1, PositiveCompared
      <3>2. shift[k][r] = IF policyLog[k] # <<>> THEN batch[r].kl ELSE 0
        BY <2>0, <3>1 DEF Measured
      <3>3. Max({batch[r].advantage, 0}) = batch[r].advantage
        <4> DEFINE a == batch[r].advantage
        <4>1. a \in Int /\ 0 \in Int /\ a > 0
          BY <1>2, <2>0, <2>1
        <4>. HIDE DEF a
        <4>2. Max({a, 0}) \in {a, 0} /\ Max({a, 0}) >= a
          BY <4>1, MaxPair
        <4>3. Max({a, 0}) = a
          BY <4>1, <4>2
        <4>. QED BY <4>3 DEF a
      <3>. QED BY <1>2, <2>0, <2>1, <3>2, <3>3 DEF Score, Worth
    <2>2. CASE ~(batch[r].advantage > 0)
      <3>1. Max({batch[r].advantage, 0}) = 0
        <4> DEFINE a == batch[r].advantage
        <4>1. a \in Int /\ 0 \in Int /\ ~(a > 0)
          BY <1>2, <2>0, <2>2
        <4>. HIDE DEF a
        <4>2. Max({a, 0}) \in {a, 0} /\ Max({a, 0}) >= 0
          BY <4>1, MaxPair
        <4>3. Max({a, 0}) = 0
          BY <4>1, <4>2
        <4>. QED BY <4>3 DEF a
      <3>2. shift[k][r] \in Int
        BY <1>3, <2>0
      <3>. QED BY <2>2, <3>1, <3>2 DEF Score, Worth
    <2>. QED BY <2>1, <2>2
  <1>5. ASSUME NEW r \in Keys, Worth(k, r) > 0 PROVE r \in GatheredRows
    BY <1>1, <1>5 DEF Worth
  <1>6. S = W /\ W \subseteq GatheredRows
    BY <1>1, <1>4, <1>5
  <1>7. /\ T \subseteq S
        /\ \A r \in S \ T, t \in T : Score(k, r) <= Score(k, t)
        /\ Cardinality(T) = Min({Cardinality(S), c})
    BY <1>1, <1>3, SelectsBest
  <1>8. Min(L) = c
    <2>1. all \in Nat /\ FracNum \in Nat /\ FracDen \in Nat \ {0} /\ FracNum <= FracDen /\ Len(records[k]) = all
      BY <1>1, FS_CardinalityType, RefreshAssumption
    <2> DEFINE a == FracNum * all
    <2>2. a \in Nat /\ all * FracDen >= a
      BY <2>1
    <2>3. c = (a + FracDen - 1) \div FracDen
      BY <2>1
    <2>. HIDE DEF a, all, c
    <2>4. c \in Nat /\ c * FracDen >= a /\ \A m \in Nat : m * FracDen >= a => c <= m
      BY <2>1, <2>2, <2>3, RoundedUp
    <2>5. c \in 0 .. all
      BY <2>1, <2>2, <2>4
    <2>6. L = {n \in 0 .. all : n * FracDen >= a}
      BY DEF a
    <2>. HIDE DEF L
    <2>8. \A x \in L : x \in Nat /\ x * FracDen >= a
      BY <2>1, <2>6
    <2>7. c \in L /\ \A y \in L : c <= y
      BY <2>4, <2>5, <2>6, <2>8
    <2>9. \A x \in L : (\A y \in L : x <= y) => x = c
      BY <2>4, <2>7, <2>8
    <2>. QED BY <2>7, <2>9 DEF Min
  <1>9. all = Cardinality(UNION {LocalRecords(j) : j \in Ranks})
    BY DEF GatheredRows
  <1>. HIDE DEF S, T, c
  <1>10. \A r \in W \ T, q \in T : Worth(k, r) <= Worth(k, q)
    <2>. HIDE DEF W
    <2>1. \A r \in S : r \in GatheredRows /\ Score(k, r) = Worth(k, r)
      BY <1>4, <1>6
    <2>. QED BY <1>6, <1>7, <2>1
  <1>11. T \subseteq W /\ Cardinality(T) = Min({Cardinality(W), Min(L)})
    BY <1>6, <1>7, <1>8
  <1>. QED BY <1>6, <1>9, <1>10, <1>11 DEF T

LEMMA GatheredKept ==
    ASSUME batch' = batch
    PROVE  /\ GatheredRows' = GatheredRows /\ Gathered' = Gathered /\ ShiftCases' = ShiftCases
           /\ Positive' = Positive
  <1>1. GatheredRows' = GatheredRows /\ Positive' = Positive
    BY DEF GatheredRows, LocalRecords, Recorded, Positive
  <1>2. Gathered' = Gathered
    BY <1>1 DEF Gathered
  <1>3. ShiftCases' = ShiftCases
    BY <1>1, <1>2 DEF ShiftCases, RecordCases
  <1>. QED BY <1>1, <1>2, <1>3

\* On a refresh step a rank that has passed the gather has the records of all.
HasRecords(k) ==
    Deferred /\ pc[k] \notin {"begin", "probe", "raised"} /\ (pc[k] = "gather" => todo[k] = <<>>)

RecordInv == \A k \in Ranks : HasRecords(k) => records[k] = Gathered

LEMMA LocalRecord ==
    ASSUME TypeInv, RecordInv, NEW x \in Ranks, Local(x)
    PROVE  RecordInv'
  <1>0. (Deferred' <=> Deferred) /\ UNCHANGED <<batch, records>>
    BY LocalFrame DEF Deferred
  <1>1. Gathered' = Gathered
    BY <1>0, GatheredKept
  <1>2. ASSUME NEW k \in Ranks, k # x, HasRecords(k)' PROVE records'[k] = Gathered'
    <2>1. pc'[k] = pc[k] /\ todo'[k] = todo[k]
      BY <1>2, LocalOthers
    <2>2. HasRecords(k)
      BY <1>0, <1>2, <2>1 DEF HasRecords
    <2>. QED BY <1>0, <1>1, <2>2 DEF RecordInv
  <1>3. ASSUME HasRecords(x)' PROVE records'[x] = Gathered'
    <2>1. Deferred /\ pc'[x] \notin {"begin", "probe", "raised"} /\ (pc'[x] = "gather" => todo'[x] = <<>>)
      BY <1>0, <1>3 DEF HasRecords
    <2>2. pc'[x] # "gather"
      BY <2>1, GatherLast, LocalArrives DEF TypeInv, Probing
    <2>3. pc[x] \notin {"begin", "probe"} /\ todo[x] = <<>> /\ Up(x)
      BY <2>1, <2>2, LocalArrives
    <2>4. HasRecords(x)
      BY <2>1, <2>3 DEF HasRecords, Up
    <2>. QED BY <1>0, <1>1, <2>4 DEF RecordInv
  <1>. QED BY <1>2, <1>3 DEF RecordInv

LEMMA CollectiveRecord ==
    ASSUME TypeInv, LeftInv, RecordInv, Collective
    PROVE  RecordInv'
  <1> SUFFICES ASSUME NEW k \in Ranks, HasRecords(k)' PROVE records'[k] = Gathered'
    BY DEF RecordInv
  <1> DEFINE q == todo[k]
             tag == Head(todo[0])[1]
  <1>1. Up(k)'
    BY DEF HasRecords, Up
  <1>2. /\ pc'[k] = pc[k] /\ todo'[k] = Tail(q) /\ (Deferred' <=> Deferred) /\ batch' = batch
        /\ q # <<>> /\ Head(q) = Head(todo[0]) /\ Head(q)[1] \in TagsIn(pc[k]) /\ pc[k] \in Stages
        /\ q \in Seq(OpsIn(pc[k]))
    BY <1>1, CollectiveTakes
  <1>3. /\ tag = "gather" <=> GatherTrajectories
        /\ GatherTrajectories \/ records' = records
    BY CollectiveFrame, CollectiveTags
  <1>4. Gathered' = Gathered
    BY <1>2, GatheredKept
  <1>5. Deferred /\ pc[k] \notin {"begin", "probe", "raised"} /\ (pc[k] = "gather" => Tail(q) = <<>>)
    BY <1>2 DEF HasRecords
  <1>6. CASE pc[k] = "gather"
    <2>1. q[Len(q)] = <<"gather">>
      BY <1>2, <1>5, <1>6 DEF LeftInv, DeferredLeft
    <2>2. Head(q) = <<"gather">>
      BY <1>2, <1>5, <1>6, <2>1, LastIsHead
    <2>3. GatherTrajectories
      BY <1>2, <1>3, <2>2
    <2>4. records'[k] = Sorted(UNION {LocalRecords(j) : j \in Ranks})
      BY <2>3 DEF GatherTrajectories
    <2>. QED BY <1>4, <2>4 DEF Gathered, GatheredRows
  <1>7. CASE pc[k] # "gather"
    <2>1. tag # "gather"
      BY <1>2, <1>7 DEF TagsIn, Stages
    <2>2. HasRecords(k)
      BY <1>5, <1>7 DEF HasRecords
    <2>. QED BY <1>3, <1>4, <2>1, <2>2 DEF RecordInv
  <1>. QED BY <1>6, <1>7

LEMMA RecordInit == Init => RecordInv
  BY DEF Init, RecordInv, HasRecords

LEMMA RecordStep == TypeInv /\ LeftInv /\ RecordInv /\ [Next]_vars => RecordInv'
  <1> SUFFICES ASSUME TypeInv, LeftInv, RecordInv, [Next]_vars PROVE RecordInv'
    OBVIOUS
  <1>1. CASE UNCHANGED vars
    <2>1. UNCHANGED <<mode, batch, pc, todo, records>>
      BY <1>1 DEF vars, control, probing
    <2>2. Gathered' = Gathered
      BY <2>1, GatheredKept
    <2>. QED BY <2>1, <2>2 DEF RecordInv, HasRecords, Deferred
  <1>2. CASE Next
    BY <1>2, LocalRecord, CollectiveRecord DEF Next
  <1>. QED BY <1>1, <1>2

\* What an optimizer step finds on rank k.
LEMMA NormFinds ==
    ASSUME TypeInv, LeftInv, GradInv, OptimizerStep, NEW k \in Ranks
    PROVE  /\ todo[k] # <<>> /\ pc'[k] = pc[k] /\ mini[k] >= 1
           /\ Applies \/ (Skips /\ policyLog' = policyLog /\ headLog' = headLog)
           /\ \/ /\ pc[k] = "step" /\ policyGrad[k] = MiniRows(mini[k])
                 /\ cycles[k] = 0 => headGrad[k] = {}
              \/ pc[k] = "refresh" /\ policyGrad[k] = {}
  <1>1. Collective /\ Complete(<<"norm">>) /\ pc' = pc
    BY DEF OptimizerStep, Collective
  <1>2. Entered(<<"norm">>)
    BY <1>1 DEF Complete
  <1>3. todo[k] # <<>> /\ "norm" \in TagsIn(pc[k]) /\ pc[k] \in Stages \ {"begin", "done", "raised"}
        /\ Head(todo[k]) = <<"norm">>
    BY <1>2, AllWaiting DEF TypeInv
  <1>4. pc[k] \in {"step", "refresh"} /\ Up(k)'
    BY <1>1, <1>3 DEF TagsIn, Stages, Up
  <1>5. mini[k] >= 1
    <2>1. Shape(k) /\ NumMini \in Nat \ {0}
      BY RefreshAssumption DEF TypeInv, Control
    <2>. QED BY <1>4, <2>1 DEF Shape, Epilogue
  <1>6. Pending(k)
    BY DEF GradInv
  <1>9. Applies \/ (Skips /\ policyLog' = policyLog /\ headLog' = headLog)
    BY DEF OptimizerStep, Applies, Skips
  <1>7. CASE pc[k] = "step"
    <2>1. Left(k) = {<<"norm">>}
      <3>1. \A i : <<"policy", mini[k], i>> # <<"norm">> /\ <<"head", mini[k], i>> # <<"norm">>
        OBVIOUS
      <3>. QED BY <1>1, <1>3, <1>4, <1>7, <3>1, StepHead
    <2>2. \A r \in MiniRows(mini[k]) : <<"policy", mini[k], r[2]>> \notin Left(k)
      BY <2>1
    <2>3. policyGrad[k] = {r \in MiniRows(mini[k]) : <<"policy", mini[k], r[2]>> \notin Left(k)}
      BY <1>3, <1>6, <1>7 DEF Pending
    <2>4. cycles[k] = 0 => HeadRows(k) = {}
      BY <1>3, <1>6, <1>7 DEF Pending
    <2>5. policyGrad[k] = MiniRows(mini[k])
      BY <2>2, <2>3
    <2>6. cycles[k] = 0 => headGrad[k] = {}
      BY <2>4 DEF HeadRows
    <2>. QED BY <1>1, <1>3, <1>5, <1>7, <1>9, <2>5, <2>6
  <1>8. CASE pc[k] = "refresh"
    BY <1>1, <1>3, <1>5, <1>6, <1>8, <1>9 DEF Pending
  <1>. QED BY <1>4, <1>7, <1>8

\* The ranks have applied the same policy steps, none before the first
\* mini-batch.
LogInv ==
    /\ \A j, k \in Ranks : policyLog[j] = policyLog[k]
    /\ \A k \in Ranks : Up(k) /\ mini[k] = 0 => policyLog[k] = <<>>

LEMMA LogStep == TypeInv /\ SyncInv /\ LeftInv /\ GradInv /\ LogInv /\ [Next]_vars => LogInv'
  <1> SUFFICES ASSUME TypeInv, SyncInv, LeftInv, GradInv, LogInv, [Next]_vars PROVE LogInv'
    OBVIOUS
  <1>1. CASE UNCHANGED vars
    BY <1>1 DEF vars, control, optimizer, LogInv, Up
  <1>2. ASSUME NEW x \in Ranks, Local(x) PROVE LogInv'
    <2>1. policyLog' = policyLog
      BY <1>2, LocalFrame
    <2>2. ASSUME NEW k \in Ranks, Up(k)', mini'[k] = 0 PROVE Up(k) /\ mini[k] = 0
      <3>1. CASE k = x
        <4>1. Up(x) /\ (TrainBatch(x) \/ mini' = mini)
          BY <1>2, LocalArrives, LocalFrame
        <4>2. TrainBatch(x) => mini'[x] = mini[x] + 1
          BY DEF TrainBatch, TypeInv, Control
        <4>3. mini[x] \in Nat
          BY DEF TypeInv, Control
        <4>. QED BY <2>2, <3>1, <4>1, <4>2, <4>3
      <3>2. CASE k # x
        BY <1>2, <2>2, <3>2, LocalOthers DEF Up
      <3>. QED BY <3>1, <3>2
    <2>. QED BY <2>1, <2>2 DEF LogInv
  <1>3. CASE Collective
    <2>0. mini' = mini /\ (OptimizerStep \/ policyLog' = policyLog)
          /\ \A k \in Ranks : Up(k)' => Up(k)
      BY <1>3, CollectiveFrame DEF Up
    <2>1. CASE ~OptimizerStep
      BY <2>0, <2>1 DEF LogInv
    <2>2. CASE OptimizerStep
      <3>1. ASSUME NEW j \in Ranks, NEW k \in Ranks PROVE policyGrad[j] = policyGrad[k]
        <4>0. Loc(j) = Loc(k) /\ Control
          BY <1>3, CollectiveMeets DEF TypeInv
        <4>1. CASE pc[k] = "step"
          <5>1. mini[k] \in 1 .. NumMini
            BY <2>2, NormFinds DEF TypeInv, Control
          <5>2. Loc(k) = 3 * mini[k] + 2
            BY <4>1 DEF Loc
          <5>3. pc[j] = "step" /\ mini[j] = mini[k]
            BY <4>0, <5>1, <5>2, Places
          <5>. QED BY <2>2, <4>1, <5>3, NormFinds
        <4>2. CASE pc[k] = "refresh"
          <5>1. Loc(k) = 3 * NumMini + 6
            BY <4>2 DEF Loc
          <5>2. pc[j] = "refresh"
            BY <4>0, <5>1, Places
          <5>. QED BY <2>2, <4>2, <5>2, NormFinds
        <4>. QED BY <2>2, <4>1, <4>2, NormFinds
      <3>2. Applies \/ policyLog' = policyLog
        BY <2>2, NormFinds, KeysFinite
      <3>3. ASSUME NEW j \in Ranks, NEW k \in Ranks PROVE policyLog'[j] = policyLog'[k]
        <4>1. policyGrad[j] = policyGrad[k] /\ policyLog[j] = policyLog[k]
          BY <3>1 DEF LogInv
        <4>2. CASE Applies
          <5>1. /\ policyLog'[j] = IF policyGrad[j] = {} THEN policyLog[j] ELSE Append(policyLog[j], policyGrad[j])
                /\ policyLog'[k] = IF policyGrad[k] = {} THEN policyLog[k] ELSE Append(policyLog[k], policyGrad[k])
            BY <4>2 DEF Applies
          <5>. QED BY <4>1, <5>1
        <4>. QED BY <3>2, <4>1, <4>2
      <3>4. \A k \in Ranks : mini[k] # 0
        <4> TAKE k \in Ranks
        <4>1. mini[k] >= 1 /\ mini[k] \in Nat
          BY <2>2, NormFinds DEF TypeInv, Control
        <4>. QED BY <4>1
      <3>. QED BY <2>0, <3>3, <3>4 DEF LogInv
    <2>. QED BY <2>1, <2>2
  <1>. QED BY <1>1, <1>2, <1>3 DEF Next

LEMMA LogInit == Init => LogInv
  BY DEF Init, LogInv

\* Where the passes that compare the distributions come from.
LEMMA LocalPasses ==
    ASSUME TypeInv, NEW k \in Ranks, Local(k)
    PROVE  /\ pc[k] = "gather" => pc'[k] = "loop" /\ todo'[k] = LoopOps(k)
           /\ pc[k] = "step" => todo'[k] = <<>>
           /\ pc'[k] = "score" => pc[k] = "loop" /\ ScoreShift(k) /\ todo'[k] = ScoreOps(k)
  <1>0. pc \in [Ranks -> Stages] /\ DOMAIN todo = Ranks
    BY DEF TypeInv, Control
  <1>1. CASE CaptureShift(k)
    BY <1>0, <1>1 DEF CaptureShift, Goto, LoopOps
  <1>2. CASE EndBatch(k)
    BY <1>0, <1>2 DEF EndBatch, Goto
  <1>3. CASE ScoreShift(k)
    <2>1. Goto(k, "loop", "score", ScoreOps(k))
      BY <1>3 DEF ScoreShift, ScoreOps
    <2>. QED BY <1>0, <1>3, <2>1 DEF Goto
  <1>4. CASE ~CaptureShift(k) /\ ~EndBatch(k) /\ ~ScoreShift(k)
    <2>1. PICK from \in Stages \ {"gather", "step"}, to \in Stages \ {"score"} : \E ops : Goto(k, from, to, ops)
      BY <1>4 DEF Local, CaptureProbe, EvaluateOld, SkipProbe, TrainBatch, ForwardBackward, MixedTeacherBatch,
                  RefreshDraftTeacher, RestoreRate, EvaluateNew, ReduceDurations, Return, Stages
    <2>. QED BY <1>0, <2>1 DEF Goto
  <1>. QED BY <1>1, <1>2, <1>3, <1>4

LEMMA CollectiveCache ==
    ASSUME TypeInv, Collective
    PROVE  (WriteOld \/ cache' = cache) /\ (ReadOld \/ at' = at)
  <1>1. CASE WriteOld
    <2>1. PICK r \in Keys : \E c \in 1 .. batch[r].cycles :
               AllRaise(<<"capture", <<r, c>>>>) \/ WritesOne(r, c)
      BY <1>1, WriteOldCases
    <2>. QED BY <1>1, <2>1 DEF AllRaise, WritesOne, scoring
  <1>2. CASE ReadOld
    <2>1. PICK r \in Keys : \E c \in 1 .. batch[r].cycles :
               AllRaise(<<"score", <<r, c>>>>) \/ ScoresOne(r, c) \/ ZeroRaises(r, c)
      BY <1>2, ReadOldCases
    <2>. QED BY <1>2, <2>1 DEF AllRaise, ScoresOne, ZeroRaises, scoring
  <1>3. CASE ~WriteOld /\ ~ReadOld
    BY <1>3 DEF Collective, PassThrough, SynchronizedCases, GatherTrajectories, ReduceCycles, PolicyBackward,
                BackwardHead, BackwardRefresh, OptimizerStep, BroadcastScores, scoring
  <1>. QED BY <1>1, <1>2, <1>3

\* The cases that are left are those after the n-th, in order.
Remaining(tag, n) ==
    /\ n + Len(todo[0]) = Len(ShiftCases)
    /\ \A i \in 1 .. Len(todo[0]) : todo[0][i] = <<tag, ShiftCases[n + i]>>

\* The first distributions are of the first cases, under the weights the call
\* started with.
Written ==
    \A i \in 1 .. Len(cache) :
        i <= Len(ShiftCases) /\ cache[i].case = ShiftCases[i] /\ cache[i].seen = [k \in Ranks |-> 0]

\* Rank 0's file fills up before the first mini-batch.
CacheInv ==
    Deferred =>
      /\ pc[0] \in Prologue => cache = <<>>
      /\ pc[0] = "loop" /\ mini[0] = 0 => Remaining("capture", Len(cache))
      /\ pc[0] = "loop" /\ mini[0] >= 1 => todo[0] = <<>>
      /\ Up(0) /\ mini[0] >= 1 => Len(cache) = Len(ShiftCases)
      /\ Written

LEMMA LocalCache ==
    ASSUME TypeInv, RecordInv, CacheInv, NEW x \in Ranks, Local(x)
    PROVE  CacheInv'
  <1> SUFFICES ASSUME Deferred' PROVE CacheInv'
    BY DEF CacheInv
  <1>0. /\ Deferred /\ UNCHANGED <<batch, cache, policyLog>> /\ 0 \in Ranks
        /\ batch \in [Keys -> Kinds]
    BY LocalFrame, KeysFinite DEF Deferred, TypeInv, Control
  <1>1. ShiftCases' = ShiftCases /\ ShiftCases \in Seq(Keys \X Nat) /\ Len(ShiftCases) \in Nat
    BY <1>0, GatheredKept, GatheredIs, LenProperties
  <1>2. Written' /\ Written
    BY <1>0, <1>1 DEF CacheInv, Written
  <1>3. CASE x # 0
    <2>1. pc'[0] = pc[0] /\ todo'[0] = todo[0] /\ mini'[0] = mini[0]
      BY <1>0, <1>3, LocalOthers
    <2>2. Remaining("capture", Len(cache))' <=> Remaining("capture", Len(cache))
      BY <1>0, <1>1, <2>1 DEF Remaining
    <2>. QED BY <1>0, <1>1, <1>2, <2>1, <2>2 DEF CacheInv, Up
  <1>4. CASE x = 0
    <2>0. /\ Up(0) /\ pc[0] \in Stages /\ Shape(0) /\ mini[0] \in Nat /\ NumMini \in Nat \ {0}
          /\ todo[0] = <<>>
      BY <1>0, <1>4, LocalArrives, LocalPath, RefreshAssumption DEF TypeInv, Control
    <2>1. pc'[0] \in Prologue => pc[0] \in Prologue
      BY <1>0, <1>4, LocalPath DEF Prologue
    <2>2. pc'[0] = "loop" => pc[0] \in {"gather", "step"} /\ mini'[0] = mini[0]
      BY <1>0, <1>4, LocalPath
    <2>3. mini'[0] = mini[0] \/ (pc[0] = "loop" /\ pc'[0] = "backward" /\ mini'[0] = mini[0] + 1)
      BY <1>0, <1>4, LocalPath
    <2>4. ASSUME pc'[0] = "loop", mini'[0] = 0 PROVE Remaining("capture", Len(cache))'
      <3>1. pc[0] = "gather"
        BY <2>0, <2>2, <2>4 DEF Shape
      <3>2. todo'[0] = LoopOps(0) /\ records[0] = Gathered /\ cache = <<>>
        BY <1>0, <1>4, <2>0, <3>1, LocalPasses DEF RecordInv, HasRecords, CacheInv, Prologue
      <3>3. todo'[0] = Forwards("capture", ShiftCases)
        BY <1>0, <3>2 DEF LoopOps, ShiftCases
      <3>4. Len(Forwards("capture", ShiftCases)) = Len(ShiftCases)
        BY <1>1, ForwardsType
      <3>5. \A i \in 1 .. Len(ShiftCases) : Forwards("capture", ShiftCases)[i] = <<"capture", ShiftCases[i]>>
        BY DEF Forwards
      <3>6. Len(cache) = 0 /\ cache' = cache
        BY <1>0, <3>2
      <3> DEFINE w == Forwards("capture", ShiftCases)
      <3>. HIDE DEF w
      <3>7. todo'[0] = w /\ Len(w) = Len(ShiftCases) /\ \A i \in 1 .. Len(w) : w[i] = <<"capture", ShiftCases[0 + i]>>
        BY <1>1, <3>3, <3>4, <3>5 DEF w
      <3>. QED BY <1>1, <3>6, <3>7 DEF Remaining
    <2>5. ASSUME pc'[0] = "loop", mini'[0] >= 1 PROVE todo'[0] = <<>>
      <3>1. pc[0] = "step"
        BY <2>0, <2>2, <2>5 DEF Shape, Prologue
      <3>. QED BY <1>4, <3>1, LocalPasses
    <2>6. ASSUME mini'[0] >= 1 PROVE Len(cache) = Len(ShiftCases)
      <3>1. CASE mini[0] >= 1
        BY <1>0, <2>0, <3>1 DEF CacheInv
      <3>2. CASE mini[0] = 0
        <4>1. pc[0] = "loop"
          BY <2>3, <2>6, <3>2
        <4>2. Remaining("capture", Len(cache))
          BY <1>0, <3>2, <4>1 DEF CacheInv
        <4>3. Len(todo[0]) = 0 /\ Len(cache) \in Nat
          BY <2>0, LenProperties DEF TypeInv, Scoring
        <4>. QED BY <1>1, <4>2, <4>3 DEF Remaining
      <3>. QED BY <2>0, <3>1, <3>2
    <2>. QED BY <1>0, <1>1, <1>2, <2>1, <2>4, <2>5, <2>6 DEF CacheInv
  <1>. QED BY <1>3, <1>4

\* Taking a case off the list.
LEMMA RemainingTail ==
    ASSUME TypeInv, NEW tag, NEW n \in Nat, Remaining(tag, n), todo[0] # <<>>,
           ShiftCases' = ShiftCases, todo'[0] = Tail(todo[0]), Len(ShiftCases) \in Nat
    PROVE  /\ (n + 1) + Len(todo'[0]) = Len(ShiftCases) /\ n + 1 <= Len(ShiftCases)
           /\ \A i \in 1 .. Len(todo'[0]) : todo'[0][i] = <<tag, ShiftCases[(n + 1) + i]>>
           /\ Head(todo[0]) = <<tag, ShiftCases[n + 1]>>
  <1> DEFINE q == todo[0]
             t == Tail(q)
  <1>1. q \in Seq(OpsIn(pc[0])) /\ q # <<>>
    BY KeysFinite DEF TypeInv, Control
  <1>2. /\ Head(q) = q[1] /\ Len(t) = Len(q) - 1 /\ Len(q) \in Nat \ {0}
        /\ \A i \in 1 .. Len(q) - 1 : t[i] = q[i + 1]
    BY <1>1, HeadTail
  <1>3. n + Len(q) = Len(ShiftCases) /\ \A i \in 1 .. Len(q) : q[i] = <<tag, ShiftCases[n + i]>>
    BY DEF Remaining
  <1>4. todo'[0] = t
    OBVIOUS
  <1>. HIDE DEF t, q
  <1>5. Head(q) = <<tag, ShiftCases[n + 1]>> /\ n + 1 <= Len(ShiftCases)
    BY <1>2, <1>3
  <1>6. (n + 1) + Len(t) = Len(ShiftCases)
    <2>1. Len(t) = Len(q) - 1 /\ Len(q) \in Nat /\ n + Len(q) = Len(ShiftCases)
      BY <1>2, <1>3
    <2>. QED BY <2>1
  <1>7. ASSUME NEW i \in 1 .. Len(t) PROVE t[i] = <<tag, ShiftCases[(n + 1) + i]>>
    <2>1. i \in 1 .. Len(q) - 1 /\ i + 1 \in 1 .. Len(q) /\ n + (i + 1) = (n + 1) + i
      BY <1>2
    <2>. QED BY <1>2, <1>3, <2>1
  <1>. QED BY <1>4, <1>5, <1>6, <1>7 DEF q

LEMMA CollectiveCached ==
    ASSUME TypeInv, LogInv, CacheInv, Collective
    PROVE  CacheInv'
  <1> SUFFICES ASSUME Deferred' PROVE CacheInv'
    BY DEF CacheInv
  <1> DEFINE q == todo[0]
             n == Len(cache)
  <1>0. /\ Deferred /\ UNCHANGED <<batch, mini>> /\ 0 \in Ranks /\ batch \in [Keys -> Kinds]
        /\ Up(0)' => pc'[0] = pc[0] /\ todo'[0] = Tail(q)
        /\ q # <<>> /\ Head(q)[1] \in TagsIn(pc[0]) /\ Up(0) /\ pc[0] \in Stages
        /\ mini[0] \in Nat /\ n \in Nat /\ cache \in Seq(Entries)
    BY CollectiveFrame, KeysFinite, Waiting, LenProperties DEF Deferred, TypeInv, Control, Up, Scoring
  <1>1. ShiftCases' = ShiftCases /\ ShiftCases \in Seq(Keys \X Nat) /\ Len(ShiftCases) \in Nat
    BY <1>0, GatheredKept, GatheredIs, LenProperties
  <1>2. pc[0] = "loop" => mini[0] = 0 /\ Remaining("capture", n)
    BY <1>0 DEF CacheInv
  <1>3. (Head(q)[1] = "capture" <=> WriteOld) /\ (WriteOld \/ cache' = cache)
    BY CollectiveTags, CollectiveCache
  <1>4. CASE WriteOld
    <2>1. pc[0] = "loop"
      BY <1>0, <1>3, <1>4 DEF TagsIn, Stages
    <2>2. PICK r \in Keys : \E c \in 1 .. batch[r].cycles :
               AllRaise(<<"capture", <<r, c>>>>) \/ WritesOne(r, c)
      BY <1>4, WriteOldCases
    <2>3. PICK c \in 1 .. batch[r].cycles : AllRaise(<<"capture", <<r, c>>>>) \/ WritesOne(r, c)
      BY <2>2
    <2>4. CASE AllRaise(<<"capture", <<r, c>>>>)
      <3>1. pc'[0] = "raised" /\ cache' = cache
        BY <1>0, <2>4 DEF AllRaise, scoring
      <3>2. Written'
        BY <1>0, <1>1, <3>1 DEF CacheInv, Written
      <3>. QED BY <3>1, <3>2 DEF CacheInv, Up, Prologue
    <2>5. CASE WritesOne(r, c)
      <3> DEFINE e == [case |-> <<r, c>>, seen |-> Weights]
      <3>1. /\ Head(q) = <<"capture", <<r, c>>>> /\ cache' = Append(cache, e) /\ pc' = pc
        BY <1>0, <2>5 DEF WritesOne, Complete, Entered
      <3>2. Up(0)' /\ todo'[0] = Tail(q)
        BY <1>0, <3>1 DEF Up
      <3>3. /\ (n + 1) + Len(todo'[0]) = Len(ShiftCases) /\ n + 1 <= Len(ShiftCases)
            /\ Head(q) = <<"capture", ShiftCases[n + 1]>>
            /\ \A i \in 1 .. Len(todo'[0]) : todo'[0][i] = <<"capture", ShiftCases[(n + 1) + i]>>
        BY <1>0, <1>1, <1>2, <2>1, <3>2, RemainingTail
      <3>4. Weights = [k \in Ranks |-> 0]
        <4>1. \A k \in Ranks : policyLog[k] = <<>>
          BY <1>0, <1>2, <2>1 DEF LogInv
        <4>2. \A k \in Ranks : Len(policyLog[k]) = 0
          BY <4>1
        <4>. QED BY <4>2 DEF Weights
      <3>5. e.case = ShiftCases[n + 1] /\ e.seen = [k \in Ranks |-> 0]
        <4>1. <<r, c>> = ShiftCases[n + 1]
          <5> DEFINE v == ShiftCases[n + 1]
                     u == <<r, c>>
          <5>1. <<"capture", u>> = <<"capture", v>>
            BY <3>1, <3>3
          <5>. HIDE DEF u, v
          <5>2. u = v
            BY <5>1
          <5>. QED BY <5>2 DEF u, v
        <4>. QED BY <3>4, <4>1
      <3>6. e \in Entries
        <4>1. Len(policyLog[0]) \in Nat /\ c \in Nat
          BY <1>0, RefreshAssumption
        <4>2. [k \in Ranks |-> 0] \in [Ranks -> Nat] /\ <<r, c>> \in Keys \X Nat
          BY <4>1
        <4>. QED BY <3>4, <4>2 DEF Entries
      <3>. HIDE DEF e
      <3>7. /\ Len(cache') = n + 1 /\ cache'[n + 1] = e
            /\ \A i \in 1 .. n : cache'[i] = cache[i]
        BY <1>0, <3>1, <3>6, AppendProperties
      <3>8. Written'
        <4> SUFFICES ASSUME NEW i \in 1 .. n + 1
                     PROVE  /\ i <= Len(ShiftCases) /\ cache'[i].case = ShiftCases[i]
                            /\ cache'[i].seen = [k \in Ranks |-> 0]
          BY <1>1, <3>7 DEF Written
        <4>1. CASE i = n + 1
          BY <3>3, <3>5, <3>7, <4>1
        <4>2. CASE i \in 1 .. n
          BY <1>0, <3>7, <4>2 DEF CacheInv, Written
        <4>. QED BY <1>0, <4>1, <4>2
      <3>9. Remaining("capture", Len(cache))'
        <4>1. Remaining("capture", Len(cache))' <=>
                /\ Len(cache') + Len(todo'[0]) = Len(ShiftCases')
                /\ \A i \in 1 .. Len(todo'[0]) : todo'[0][i] = <<"capture", ShiftCases'[Len(cache') + i]>>
          BY DEF Remaining
        <4>. QED BY <1>1, <3>3, <3>7, <4>1
      <3>10. pc'[0] = "loop" /\ mini'[0] = 0
        BY <1>0, <1>2, <2>1, <3>1
      <3>. QED BY <3>8, <3>9, <3>10 DEF CacheInv, Prologue
    <2>. QED BY <2>3, <2>4, <2>5
  <1>5. CASE ~WriteOld
    <2>1. pc[0] # "loop" /\ cache' = cache
      BY <1>0, <1>3, <1>5 DEF TagsIn
    <2>2. Written'
      BY <1>0, <1>1, <2>1 DEF CacheInv, Written
    <2>3. CASE Up(0)'
      BY <1>0, <1>1, <2>1, <2>2, <2>3 DEF CacheInv
    <2>4. CASE ~Up(0)'
      BY <2>2, <2>4 DEF CacheInv, Up, Prologue
    <2>. QED BY <2>3, <2>4
  <1>. QED BY <1>4, <1>5

LEMMA CacheInit == Init => CacheInv
  <1> SUFFICES ASSUME Init PROVE CacheInv
    OBVIOUS
  <1>1. pc[0] = "begin" /\ mini[0] = 0 /\ cache = <<>> /\ Len(cache) = 0
    BY KeysFinite DEF Init
  <1>2. Written
    BY <1>1 DEF Written
  <1>. QED BY <1>1, <1>2 DEF CacheInv

LEMMA CacheStep == TypeInv /\ RecordInv /\ LogInv /\ CacheInv /\ [Next]_vars => CacheInv'
  <1> SUFFICES ASSUME TypeInv, RecordInv, LogInv, CacheInv, [Next]_vars PROVE CacheInv'
    OBVIOUS
  <1>1. CASE UNCHANGED vars
    <2>1. UNCHANGED <<mode, batch, pc, todo, mini, cache>>
      BY <1>1 DEF vars, control, scoring
    <2>2. ShiftCases' = ShiftCases
      BY <2>1, GatheredKept
    <2>3. (Written' <=> Written) /\ (Remaining("capture", Len(cache))' <=> Remaining("capture", Len(cache)))
      BY <2>1, <2>2 DEF Written, Remaining
    <2>. QED BY <2>1, <2>2, <2>3 DEF CacheInv, Deferred, Up
  <1>2. CASE Next
    BY <1>2, LocalCache, CollectiveCached DEF Next
  <1>. QED BY <1>1, <1>2

-----------------------------------------------------------------------------
(* The scores                                                              *)

\* The cases after the n-th are left, then the broadcast.
ScoresLeft(n) ==
    /\ n + Len(todo[0]) = Len(ShiftCases) + 1
    /\ \A i \in 1 .. Len(todo[0]) - 1 : todo[0][i] = <<"score", ShiftCases[n + i]>>

\* Rank 0 has scored the cases it has read, and every rank that knows the
\* scores has those of all cases.
ScoreInv ==
    Deferred =>
      /\ Up(0) /\ pc[0] \notin Epilogue => shift[0] = [r \in Keys |-> 0]
      /\ pc[0] = "score" /\ todo[0] # <<>> => ScoresLeft(at) /\ shift[0] = Measured(0, at)
      /\ \A k \in Ranks : ScoresKnown(k) => shift[k] = Measured(k, Len(ShiftCases))

LEMMA MeasuredKept ==
    ASSUME batch' = batch, NEW k \in Ranks, policyLog'[k] = policyLog[k]
    PROVE  /\ Measured(k, Len(ShiftCases))' = Measured(k, Len(ShiftCases))
           /\ at' = at => Measured(k, at)' = Measured(k, at)
  <1>1. ShiftCases' = ShiftCases
    BY GatheredKept
  <1>. QED BY <1>1 DEF Measured

LEMMA LocalScore ==
    ASSUME TypeInv, RecordInv, ScoreInv, NEW x \in Ranks, Local(x)
    PROVE  ScoreInv'
  <1> SUFFICES ASSUME Deferred' PROVE ScoreInv'
    BY DEF ScoreInv
  <1>0. /\ Deferred /\ UNCHANGED <<batch, shift, policyLog, mode>> /\ 0 \in Ranks
        /\ batch \in [Keys -> Kinds]
    BY LocalFrame, KeysFinite DEF Deferred, TypeInv, Control
  <1>1. ShiftCases' = ShiftCases /\ ShiftCases \in Seq(Keys \X Nat) /\ Len(ShiftCases) \in Nat
    BY <1>0, GatheredKept, GatheredIs, LenProperties
  <1>2. ASSUME NEW k \in Ranks, ScoresKnown(k)' PROVE shift'[k] = Measured(k, Len(ShiftCases))'
    <2>1. ScoresKnown(k)
      <3>1. CASE k = x
        BY <1>2, <3>1, LocalKnown
      <3>2. CASE k # x
        BY <1>0, <1>2, <3>2, LocalOthers DEF ScoresKnown
      <3>. QED BY <3>1, <3>2
    <2>2. Measured(k, Len(ShiftCases))' = Measured(k, Len(ShiftCases))
      BY <1>0, MeasuredKept
    <2>. QED BY <1>0, <2>1, <2>2 DEF ScoreInv
  <1>3. CASE x # 0
    <2>1. pc'[0] = pc[0] /\ todo'[0] = todo[0]
      BY <1>0, <1>3, LocalOthers
    <2>2. at' = at
      BY <1>3, LocalFrame DEF ScoreShift
    <2>3. ScoresLeft(at)' <=> ScoresLeft(at)
      BY <1>1, <2>1, <2>2 DEF ScoresLeft
    <2>4. Measured(0, at)' = Measured(0, at)
      BY <1>0, <2>2, MeasuredKept
    <2>. QED BY <1>0, <1>2, <2>1, <2>3, <2>4 DEF ScoreInv, Up
  <1>4. CASE x = 0
    <2>1. Up(0)
      BY <1>4, LocalArrives
    <2>2. pc'[0] \notin Epilogue => pc[0] \notin Epilogue
      BY <1>0, <1>4, LocalPath DEF Epilogue, Deferred
    <2>3. ASSUME pc'[0] = "score" PROVE ScoresLeft(at)' /\ shift'[0] = Measured(0, at)'
      <3>1. pc[0] = "loop" /\ ScoreShift(0) /\ todo'[0] = ScoreOps(0)
        BY <1>4, <2>3, LocalPasses
      <3>2. at' = 0 /\ records[0] = Gathered /\ shift[0] = [r \in Keys |-> 0]
        BY <1>0, <2>1, <3>1 DEF ScoreShift, RecordInv, HasRecords, ScoreInv, Epilogue
      <3> DEFINE f == Forwards("score", ShiftCases)
                 w == Append(f, <<"broadcast">>)
      <3>3. todo'[0] = w
        BY <3>1, <3>2 DEF ScoreOps, ShiftCases
      <3>4. Len(f) = Len(ShiftCases) /\ f \in Seq({"score"} \X (Keys \X Nat))
        BY <1>1, ForwardsType
      <3>5. \A i \in 1 .. Len(ShiftCases) : f[i] = <<"score", ShiftCases[i]>>
        BY DEF Forwards
      <3>. HIDE DEF f
      <3>6. Len(w) = Len(f) + 1 /\ \A i \in 1 .. Len(f) : w[i] = f[i]
        BY <3>4, ThenOne
      <3>. HIDE DEF w
      <3>7. ASSUME NEW i \in 1 .. Len(w) - 1 PROVE w[i] = <<"score", ShiftCases[0 + i]>>
        <4>1. i \in 1 .. Len(f) /\ 0 + i = i /\ Len(f) = Len(ShiftCases)
          BY <1>1, <3>4, <3>6
        <4>2. w[i] = f[i]
          BY <3>6, <4>1
        <4>3. f[i] = <<"score", ShiftCases[i]>>
          BY <3>5, <4>1
        <4>. QED BY <4>1, <4>2, <4>3
      <3>8. 0 + Len(w) = Len(ShiftCases) + 1
        BY <1>1, <3>4, <3>6
      <3>9. ScoresLeft(at)'
        <4>1. ScoresLeft(at)' <=>
                /\ at' + Len(todo'[0]) = Len(ShiftCases') + 1
                /\ \A i \in 1 .. Len(todo'[0]) - 1 : todo'[0][i] = <<"score", ShiftCases'[at' + i]>>
          BY DEF ScoresLeft
        <4>. QED BY <1>1, <3>2, <3>3, <3>7, <3>8, <4>1
      <3>10. Measured(0, at)' = [r \in Keys |-> 0]
        <4>1. ~\E i \in 1 .. 0 : TRUE
          OBVIOUS
        <4>. QED BY <3>2, <4>1 DEF Measured
      <3>. QED BY <1>0, <3>2, <3>9, <3>10
    <2>. QED BY <1>0, <1>2, <2>1, <2>2, <2>3 DEF ScoreInv
  <1>. QED BY <1>3, <1>4

\* A distribution is compared with the one of its own case, taken before the
\* policy's first step.
LEMMA DivergenceIs ==
    ASSUME TypeInv, LogInv, NEW r \in Keys, NEW c, NEW e, e.case = <<r, c>>, e.seen = [k \in Ranks |-> 0]
    PROVE  Divergence(<<r, c>>, e) = IF policyLog[0] # <<>> THEN batch[r].kl ELSE 0
  <1>1. 0 \in Ranks /\ policyLog \in [Ranks -> Seq(SUBSET Keys)]
    BY KeysFinite DEF TypeInv, Optimizing
  <1>2. CASE policyLog[0] = <<>>
    <2>1. \A k \in Ranks : policyLog[k] = <<>>
      BY <1>1, <1>2 DEF LogInv
    <2>2. \A k \in Ranks : Len(policyLog[k]) = 0
      BY <2>1
    <2>3. Weights = [k \in Ranks |-> 0]
      BY <2>2 DEF Weights
    <2>. QED BY <1>2, <2>3 DEF Divergence
  <1>3. CASE policyLog[0] # <<>>
    <2>1. Len(policyLog[0]) # 0
      BY <1>1, <1>3, EmptySeq
    <2>2. Weights[0] # 0 /\ [k \in Ranks |-> 0][0] = 0
      BY <1>1, <2>1 DEF Weights
    <2>3. Weights # [k \in Ranks |-> 0]
      BY <2>2
    <2>4. <<r, c>>[1] = r
      OBVIOUS
    <2>. QED BY <1>3, <2>3, <2>4 DEF Divergence
  <1>. QED BY <1>2, <1>3

\* Reading one more distribution.
LEMMA ScoresNext ==
    ASSUME TypeInv, LogInv, CacheInv, Deferred, NEW r \in Keys, NEW c, ScoresOne(r, c),
           <<r, c>> = ShiftCases[at + 1], shift[0] = Measured(0, at)
    PROVE  shift'[0] = Measured(0, at)'
  <1> DEFINE n == at
             kl == batch[r].kl
             d == Divergence(<<r, c>>, cache[n + 1])
             v == IF policyLog[0] # <<>> THEN kl ELSE 0
             M == Measured(0, n)
  <1>0. /\ 0 \in Ranks /\ n \in Nat /\ n + 1 \in 1 .. Len(cache) /\ kl \in Nat
        /\ shift \in [Ranks -> [Keys -> Nat]]
    BY KeysFinite, RefreshAssumption, LenProperties DEF TypeInv, Control, Scoring, ScoresOne
  <1>1. /\ at' = n + 1 /\ shift' = [shift EXCEPT ![0][r] = Max({shift[0][r], d})]
        /\ batch' = batch /\ policyLog' = policyLog
    BY DEF ScoresOne, Complete, optimizer
  <1>2. ShiftCases' = ShiftCases
    BY <1>1, GatheredKept
  <1>3. d = v
    <2>1. cache[n + 1].case = <<r, c>> /\ cache[n + 1].seen = [k \in Ranks |-> 0]
      BY <1>0 DEF CacheInv, Written
    <2>. QED BY <2>1, DivergenceIs
  <1>. HIDE DEF d
  <1>4. M[r] \in {0, v} /\ (policyLog[0] = <<>> => M[r] = 0) /\ v \in Nat
    BY <1>0 DEF Measured
  <1>5. Max({M[r], v}) = v
    <2> DEFINE a == M[r]
               b == v
    <2>1. a \in {0, b} /\ b \in Nat
      BY <1>4
    <2>. HIDE DEF a, b
    <2>2. a \in Int /\ b \in Int
      BY <2>1
    <2>3. Max({a, b}) \in {a, b} /\ Max({a, b}) >= a /\ Max({a, b}) >= b
      BY <2>2, MaxPair
    <2>4. Max({a, b}) = b
      BY <2>1, <2>2, <2>3
    <2>. QED BY <2>4 DEF a, b
  <1>6. shift'[0] = [M EXCEPT ![r] = v]
    <2>1. shift'[0] = [shift[0] EXCEPT ![r] = Max({shift[0][r], d})]
      BY <1>0, <1>1
    <2>. QED BY <1>3, <1>5, <2>1
  <1>7. ShiftCases[n + 1][1] = r
    OBVIOUS
  <1>8. ASSUME NEW s \in Keys PROVE [M EXCEPT ![r] = v][s] = Measured(0, at)'[s]
    <2>1. Measured(0, at)'[s] = IF policyLog[0] # <<>> /\ \E i \in 1 .. n + 1 : ShiftCases[i][1] = s
                                THEN batch[s].kl ELSE 0
      BY <1>1, <1>2 DEF Measured
    <2>2. M[s] = IF policyLog[0] # <<>> /\ \E i \in 1 .. n : ShiftCases[i][1] = s
                 THEN batch[s].kl ELSE 0
      BY DEF Measured
    <2>3. CASE s = r
      <3>1. \E i \in 1 .. n + 1 : ShiftCases[i][1] = s
        BY <1>0, <1>7, <2>3
      <3>2. [M EXCEPT ![r] = v][s] = v
        BY <2>3 DEF Measured
      <3>. QED BY <2>1, <2>3, <3>1, <3>2
    <2>4. CASE s # r
      <3>1. (\E i \in 1 .. n + 1 : ShiftCases[i][1] = s) <=> \E i \in 1 .. n : ShiftCases[i][1] = s
        <4>1. \A i \in 1 .. n + 1 : ShiftCases[i][1] = s => i \in 1 .. n
          BY <1>0, <1>7, <2>4
        <4>2. \A i \in 1 .. n : i \in 1 .. n + 1
          BY <1>0
        <4>. QED BY <4>1, <4>2
      <3>2. [M EXCEPT ![r] = v][s] = M[s]
        BY <2>4 DEF Measured
      <3>. QED BY <2>1, <2>2, <3>1, <3>2
    <2>. QED BY <2>3, <2>4
  <1>9. Measured(0, at)' = [s \in Keys |-> Measured(0, at)'[s]] /\ [M EXCEPT ![r] = v] = [s \in Keys |-> [M EXCEPT ![r] = v][s]]
    BY DEF Measured
  <1>. QED BY <1>6, <1>8, <1>9

LEMMA CollectiveScore ==
    ASSUME TypeInv, SyncInv, LeftInv, GradInv, LogInv, CacheInv, ScoreInv, Collective
    PROVE  ScoreInv'
  <1> SUFFICES ASSUME Deferred' PROVE ScoreInv'
    BY DEF ScoreInv
  <1> DEFINE q == todo[0]
             t == Tail(q)
             tag == Head(q)[1]
  <1>0. /\ Deferred /\ UNCHANGED <<batch, mini>> /\ 0 \in Ranks /\ batch \in [Keys -> Kinds]
        /\ Up(0)' => pc'[0] = pc[0] /\ todo'[0] = t
        /\ q # <<>> /\ q \in Seq(OpsIn(pc[0])) /\ tag \in TagsIn(pc[0]) /\ Up(0) /\ pc[0] \in Stages
        /\ at \in Nat
    BY CollectiveFrame, KeysFinite, Waiting DEF Deferred, TypeInv, Control, Up, Scoring
  <1>1. ShiftCases' = ShiftCases /\ ShiftCases \in Seq(Keys \X Nat) /\ Len(ShiftCases) \in Nat
    BY <1>0, GatheredKept, GatheredIs, LenProperties
  <1>2. /\ tag = "score" <=> ReadOld
        /\ tag = "broadcast" <=> BroadcastScores
        /\ tag = "norm" <=> OptimizerStep
        /\ ReadOld \/ BroadcastScores \/ shift' = shift
        /\ OptimizerStep \/ policyLog' = policyLog
    BY CollectiveTags, CollectiveFrame
  <1>3. /\ Head(q) = q[1] /\ Len(t) = Len(q) - 1 /\ Len(q) \in Nat \ {0}
        /\ \A i \in 1 .. Len(q) - 1 : t[i] = q[i + 1]
    BY <1>0, HeadTail
  <1>4. ASSUME Up(0)', pc'[0] \notin Epilogue PROVE shift'[0] = [r \in Keys |-> 0]
    <2>1. pc[0] \notin Epilogue
      BY <1>0, <1>4
    <2>2. tag \notin {"score", "broadcast"}
      BY <1>0, <2>1 DEF TagsIn, Stages, Epilogue
    <2>3. shift' = shift
      BY <1>2, <2>2
    <2>. QED BY <1>0, <2>1, <2>3 DEF ScoreInv
  <1>5. ASSUME pc'[0] = "score", todo'[0] # <<>> PROVE ScoresLeft(at)' /\ shift'[0] = Measured(0, at)'
    <2>1. Up(0)' /\ pc[0] = "score" /\ todo'[0] = t /\ t # <<>>
      BY <1>0, <1>5 DEF Up
    <2>2. ScoresLeft(at) /\ shift[0] = Measured(0, at)
      BY <1>0, <2>1 DEF ScoreInv
    <2>3. Len(q) - 1 >= 1
      <3>1. t \in Seq(OpsIn(pc[0]))
        BY <1>0, HeadTail
      <3>2. Len(t) # 0
        BY <2>1, <3>1, EmptySeq
      <3>. HIDE DEF q, t
      <3>3. Len(t) = Len(q) - 1 /\ Len(q) \in Nat \ {0}
        BY <1>3
      <3>. QED BY <3>2, <3>3
    <2>4. Head(q) = <<"score", ShiftCases[at + 1]>>
      BY <1>3, <2>2, <2>3 DEF ScoresLeft
    <2>5. ReadOld
      BY <1>2, <2>4
    <2>6. PICK r \in Keys : \E c \in 1 .. batch[r].cycles :
               AllRaise(<<"score", <<r, c>>>>) \/ ScoresOne(r, c) \/ ZeroRaises(r, c)
      BY <2>5, ReadOldCases
    <2>7. PICK c \in 1 .. batch[r].cycles :
               AllRaise(<<"score", <<r, c>>>>) \/ ScoresOne(r, c) \/ ZeroRaises(r, c)
      BY <2>6
    <2>8. ScoresOne(r, c)
      <3>1. ~AllRaise(<<"score", <<r, c>>>>)
        BY <1>0, <1>5 DEF AllRaise
      <3>2. ~ZeroRaises(r, c)
        BY <1>0, <1>5 DEF ZeroRaises, TypeInv, Control
      <3>. QED BY <2>7, <3>1, <3>2
    <2>9. <<r, c>> = ShiftCases[at + 1]
      <3> DEFINE u == <<r, c>>
                 v == ShiftCases[at + 1]
      <3>1. Head(q) = <<"score", u>>
        BY <1>0, <2>8 DEF ScoresOne, Complete, Entered
      <3>2. <<"score", u>> = <<"score", v>>
        BY <2>4, <3>1
      <3>. HIDE DEF u, v
      <3>3. u = v
        BY <3>2
      <3>. QED BY <3>3 DEF u, v
    <2>10. shift'[0] = Measured(0, at)'
      BY <1>0, <2>2, <2>8, <2>9, ScoresNext
    <2>11. at' = at + 1
      BY <2>8 DEF ScoresOne
    <2>12. ScoresLeft(at)'
      <3>1. at + Len(q) = Len(ShiftCases) + 1 /\ \A i \in 1 .. Len(q) - 1 : q[i] = <<"score", ShiftCases[at + i]>>
        BY <2>2 DEF ScoresLeft
      <3>. HIDE DEF q, t
      <3>2. (at + 1) + Len(t) = Len(ShiftCases) + 1
        <4>1. Len(t) = Len(q) - 1 /\ Len(q) \in Nat /\ at + Len(q) = Len(ShiftCases) + 1
          BY <1>3, <3>1
        <4>. QED BY <1>0, <4>1
      <3>3. ASSUME NEW i \in 1 .. Len(t) - 1 PROVE t[i] = <<"score", ShiftCases[(at + 1) + i]>>
        <4>1. i \in 1 .. Len(q) - 1 /\ i + 1 \in 1 .. Len(q) - 1 /\ at + (i + 1) = (at + 1) + i
          BY <1>0, <1>3
        <4>. QED BY <1>3, <3>1, <4>1
      <3>4. ScoresLeft(at)' <=>
                /\ at' + Len(todo'[0]) = Len(ShiftCases') + 1
                /\ \A i \in 1 .. Len(todo'[0]) - 1 : todo'[0][i] = <<"score", ShiftCases'[at' + i]>>
        BY DEF ScoresLeft
      <3>. QED BY <1>1, <2>1, <2>11, <3>2, <3>3, <3>4
    <2>. QED BY <2>10, <2>12
  <1>6. ASSUME NEW k \in Ranks, ScoresKnown(k)' PROVE shift'[k] = Measured(k, Len(ShiftCases))'
    <2>1. CASE BroadcastScores
      <3>1. pc[0] = "score" /\ policyLog' = policyLog /\ shift'[k] = shift[0]
        BY <1>0, <1>2, <2>1 DEF TagsIn, Stages, BroadcastScores
      <3>2. ScoresLeft(at) /\ shift[0] = Measured(0, at)
        BY <1>0, <3>1 DEF ScoreInv
      <3>3. Len(q) = 1
        <4>1. SUFFICES ASSUME Len(q) # 1 PROVE FALSE
          OBVIOUS
        <4>2. 1 \in 1 .. Len(q) - 1
          <5> DEFINE a == Len(q)
          <5>1. a \in Nat /\ a # 0 /\ a # 1
            BY <1>3, <4>1
          <5>. HIDE DEF a
          <5>2. a - 1 \in Nat /\ 1 <= a - 1
            BY <5>1
          <5>3. 1 \in 1 .. a - 1
            BY <5>2
          <5>. QED BY <5>3 DEF a
        <4>3. Head(q) = <<"score", ShiftCases[at + 1]>>
          BY <1>3, <3>2, <4>2 DEF ScoresLeft
        <4>. QED BY <1>2, <2>1, <4>3
      <3>4. at = Len(ShiftCases)
        BY <1>0, <1>1, <3>2, <3>3 DEF ScoresLeft
      <3>5. Measured(k, Len(ShiftCases))' = Measured(k, Len(ShiftCases))
        BY <1>0, <3>1, MeasuredKept
      <3>6. Measured(k, Len(ShiftCases)) = Measured(0, Len(ShiftCases))
        <4>1. policyLog[k] = policyLog[0]
          BY <1>0 DEF LogInv
        <4>. QED BY <4>1 DEF Measured
      <3>. QED BY <3>1, <3>2, <3>4, <3>5, <3>6
    <2>2. CASE ~BroadcastScores
      <3>1. ScoresKnown(k) /\ shift' = shift /\ pc[k] \in Epilogue
        BY <1>6, <2>2, CollectiveKnown DEF ScoresKnown
      <3>2. policyLog'[k] = policyLog[k]
        <4>1. CASE OptimizerStep
          <5>1. pc[k] = "refresh" /\ policyGrad[k] = {} /\ (Applies \/ policyLog' = policyLog)
            BY <3>1, <4>1, NormFinds DEF Epilogue
          <5>. QED BY <5>1 DEF Applies
        <4>. QED BY <1>2, <4>1
      <3>3. Measured(k, Len(ShiftCases))' = Measured(k, Len(ShiftCases))
        BY <1>0, <3>2, MeasuredKept
      <3>. QED BY <1>0, <3>1, <3>3 DEF ScoreInv
    <2>. QED BY <2>1, <2>2
  <1>. QED BY <1>4, <1>5, <1>6 DEF ScoreInv

LEMMA ScoreInit == Init => ScoreInv
  <1> SUFFICES ASSUME Init PROVE ScoreInv
    OBVIOUS
  <1>1. 0 \in Ranks /\ (\A k \in Ranks : pc[k] = "begin") /\ shift = [k \in Ranks |-> [r \in Keys |-> 0]]
    BY KeysFinite DEF Init
  <1>2. shift[0] = [r \in Keys |-> 0]
    BY <1>1
  <1>. QED BY <1>1, <1>2 DEF ScoreInv, ScoresKnown, Epilogue

LEMMA ScoreStep ==
    TypeInv /\ SyncInv /\ LeftInv /\ GradInv /\ RecordInv /\ LogInv /\ CacheInv /\ ScoreInv /\ [Next]_vars
      => ScoreInv'
  <1> SUFFICES ASSUME TypeInv, SyncInv, LeftInv, GradInv, RecordInv, LogInv, CacheInv, ScoreInv, [Next]_vars
               PROVE  ScoreInv'
    OBVIOUS
  <1>1. CASE UNCHANGED vars
    <2>1. UNCHANGED <<mode, batch, pc, todo, shift, at, policyLog>>
      BY <1>1 DEF vars, control, scoring, optimizer
    <2>2. ShiftCases' = ShiftCases /\ 0 \in Ranks
      BY <2>1, GatheredKept, KeysFinite
    <2>3. /\ ScoresLeft(at)' <=> ScoresLeft(at)
          /\ Measured(0, at)' = Measured(0, at)
          /\ \A k \in Ranks : Measured(k, Len(ShiftCases))' = Measured(k, Len(ShiftCases))
      BY <2>1, <2>2, MeasuredKept DEF ScoresLeft
    <2>4. \A k \in Ranks : ScoresKnown(k)' <=> ScoresKnown(k)
      BY <2>1 DEF ScoresKnown, Deferred
    <2>. QED BY <2>1, <2>3, <2>4 DEF ScoreInv, Deferred, Up
  <1>2. CASE Next
    BY <1>2, LocalScore, CollectiveScore DEF Next
  <1>. QED BY <1>1, <1>2

-----------------------------------------------------------------------------
(* The refresh step of the head                                            *)

\* What the deferred step teaches: every row with cycles, by its new teacher
\* where rank k has selected it.
Lesson(k) == Taught({r \in Keys : batch[r].cycles > 0}, ToSet(selected[k]))

AfterTeacher == {"refresh", "new", "durations", "done"}

Headed(k) ==
    /\ pc[k] = "refresh" /\ todo[k] # <<>> => headGrad[k] \in {{}, Lesson(k)}
    /\ \A i \in 1 .. Len(headLog[k]) : pc[k] \in AfterTeacher /\ headLog[k][i].rows = Lesson(k)

\* On a refresh step the head is stepped by nothing but the refresh.
HeadInv == Deferred => \A k \in Ranks : Headed(k)

LEMMA LocalHead ==
    ASSUME TypeInv, HeadInv, NEW x \in Ranks, Local(x)
    PROVE  HeadInv'
  <1> SUFFICES ASSUME Deferred', NEW k \in Ranks PROVE Headed(k)'
    BY DEF HeadInv
  <1>0. Deferred /\ UNCHANGED <<batch, headLog, mode>> /\ Headed(k)
    BY LocalFrame DEF Deferred, HeadInv
  <1>1. CASE k # x
    <2>1. pc'[k] = pc[k] /\ todo'[k] = todo[k] /\ selected'[k] = selected[k] /\ headGrad'[k] = headGrad[k]
      BY <1>1, LocalOthers
    <2>2. Lesson(k)' = Lesson(k)
      BY <1>0, <2>1 DEF Lesson
    <2>. QED BY <1>0, <2>1, <2>2 DEF Headed
  <1>2. CASE k = x
    <2>1. pc'[x] = "refresh" => headGrad'[x] = {}
      BY LocalArrives
    <2>2. pc[x] \in AfterTeacher => pc'[x] \in AfterTeacher /\ selected' = selected
      <3>1. MixedTeacherBatch(x) => pc[x] = "score"
        BY DEF MixedTeacherBatch, Goto
      <3>2. MixedTeacherBatch(x) \/ selected' = selected
        BY LocalFrame
      <3>. QED BY <3>1, <3>2, LocalPath DEF AfterTeacher
    <2>3. ASSUME NEW i \in 1 .. Len(headLog'[x])
          PROVE  pc'[x] \in AfterTeacher /\ headLog'[x][i].rows = Lesson(x)'
      <3>1. pc[x] \in AfterTeacher /\ headLog[x][i].rows = Lesson(x)
        BY <1>0, <1>2, <2>3 DEF Headed
      <3>2. Lesson(x)' = Lesson(x)
        BY <1>0, <2>2, <3>1 DEF Lesson
      <3>. QED BY <1>0, <2>2, <3>1, <3>2
    <2>. QED BY <1>2, <2>1, <2>3 DEF Headed
  <1>. QED BY <1>1, <1>2

\* Only the passes that compare distributions can raise.
LEMMA CollectiveRaises ==
    ASSUME TypeInv, Collective, NEW k \in Ranks
    PROVE  pc'[k] = pc[k] \/ pc[k] \in {"loop", "score"}
  <1>1. pc' = pc \/ WriteOld \/ ReadOld
    BY DEF Collective, PassThrough, SynchronizedCases, GatherTrajectories, ReduceCycles, PolicyBackward,
           BackwardHead, BackwardRefresh, OptimizerStep, BroadcastScores
  <1>2. WriteOld \/ ReadOld => Head(todo[k])[1] \in {"capture", "score"}
    BY CollectiveTags, CollectiveFrame
  <1>3. todo[k] # <<>> /\ Head(todo[k])[1] \in TagsIn(pc[k]) /\ pc[k] \in Stages
    BY CollectiveFrame, Waiting DEF TypeInv, Control
  <1>4. Head(todo[k])[1] \in {"capture", "score"} => pc[k] \in {"loop", "score"}
    BY <1>3 DEF TagsIn, Stages
  <1>. QED BY <1>1, <1>2, <1>4

\* The refresh's pass: every rank has selected the same rows.
LEMMA RefreshTeaches ==
    ASSUME TypeInv, SyncInv, Deferred, BackwardRefresh, NEW k \in Ranks, pc[k] = "refresh"
    PROVE  UNION {Taught(Recorded(j), ToSet(selected[j])) : j \in Ranks} = Lesson(k)
  <1>1. ASSUME NEW j \in Ranks PROVE selected[j] = selected[k]
    <2>1. Collective /\ Control
      BY DEF Collective, TypeInv
    <2>2. Loc(j) = Loc(k)
      BY <2>1, CollectiveMeets
    <2>3. pc[j] = "refresh"
      BY <2>1, <2>2, Places
    <2>4. ScoresKnown(j) /\ ScoresKnown(k)
      BY <2>3 DEF ScoresKnown, Epilogue
    <2>5. records[j] = records[k] /\ shift[j] = shift[k]
      BY <2>4 DEF SyncInv, Agree
    <2>6. SelectTrajectories(j) = SelectTrajectories(k)
      BY <2>5, SameSelection
    <2>7. selected[j] = SelectTrajectories(j) /\ selected[k] = SelectTrajectories(k)
      BY <2>3, <2>4 DEF SyncInv, Own
    <2>. QED BY <2>6, <2>7
  <1> DEFINE N == ToSet(selected[k])
             W == {r \in Keys : batch[r].cycles > 0}
  <1>2. UNION {Taught(Recorded(j), ToSet(selected[j])) : j \in Ranks} = UNION {Taught(Recorded(j), N) : j \in Ranks}
    BY <1>1
  <1>3. UNION {Recorded(j) : j \in Ranks} = W
    BY RowsOf
  <1>4. Lesson(k) = Taught(W, N)
    BY DEF Lesson
  <1>. HIDE DEF N, W
  <1>5. ASSUME NEW R, NEW g PROVE g \in Taught(R, N) <=> \E r \in R : g = [row |-> r, teacher |-> IF r \in N THEN "new" ELSE "old"]
    BY DEF Taught
  <1>6. UNION {Taught(Recorded(j), N) : j \in Ranks} = Taught(UNION {Recorded(j) : j \in Ranks}, N)
    <2>1. ASSUME NEW g \in UNION {Taught(Recorded(j), N) : j \in Ranks}
          PROVE  g \in Taught(UNION {Recorded(j) : j \in Ranks}, N)
      <3>1. PICK j \in Ranks : g \in Taught(Recorded(j), N)
        OBVIOUS
      <3>2. PICK r \in Recorded(j) : g = [row |-> r, teacher |-> IF r \in N THEN "new" ELSE "old"]
        BY <1>5, <3>1
      <3>3. r \in UNION {Recorded(i) : i \in Ranks}
        OBVIOUS
      <3>. QED BY <1>5, <3>2, <3>3
    <2>2. ASSUME NEW g \in Taught(UNION {Recorded(j) : j \in Ranks}, N)
          PROVE  g \in UNION {Taught(Recorded(j), N) : j \in Ranks}
      <3>1. PICK r \in UNION {Recorded(j) : j \in Ranks} :
                 g = [row |-> r, teacher |-> IF r \in N THEN "new" ELSE "old"]
        BY <1>5
      <3>2. PICK j \in Ranks : r \in Recorded(j)
        OBVIOUS
      <3>3. g \in Taught(Recorded(j), N)
        BY <1>5, <3>1, <3>2
      <3>. QED BY <3>3
    <2>. QED BY <2>1, <2>2
  <1>. QED BY <1>2, <1>3, <1>4, <1>6

LEMMA CollectiveHead ==
    ASSUME TypeInv, SyncInv, LeftInv, CountInv, GradInv, HeadInv, Collective
    PROVE  HeadInv'
  <1> SUFFICES ASSUME Deferred', NEW k \in Ranks PROVE Headed(k)'
    BY DEF HeadInv
  <1>0. /\ Deferred /\ UNCHANGED <<batch, mode, selected>> /\ Headed(k) /\ cycles[k] = 0
        /\ OptimizerStep \/ headLog' = headLog
        /\ BackwardHead \/ BackwardRefresh \/ OptimizerStep \/ UNCHANGED headGrad
    BY CollectiveFrame DEF Deferred, HeadInv, CountInv, CountedRight
  <1>1. Lesson(k)' = Lesson(k)
    BY <1>0 DEF Lesson
  <1>2. pc[k] \in AfterTeacher => pc'[k] = pc[k]
    BY CollectiveRaises DEF AfterTeacher
  <1>3. ASSUME pc'[k] = "refresh", todo'[k] # <<>> PROVE headGrad'[k] \in {{}, Lesson(k)}
    <2>1. Up(k)'
      BY <1>3 DEF Up
    <2>2. /\ pc[k] = "refresh" /\ todo'[k] = Tail(todo[k]) /\ todo[k] # <<>>
          /\ Head(todo[k]) = Head(todo[0]) /\ Follows(k) /\ Pending(k)
      BY <1>3, <2>1, CollectiveTakes DEF TypeInv, GradInv
    <2>3. /\ Tail(<<<<"norm">>>>) = <<>> /\ Head(<<<<"refresh">>, <<"norm">>>>) = <<"refresh">>
      BY Rest, Zenon
    <2>4. todo[k] = <<<<"refresh">>, <<"norm">>>>
      BY <1>3, <2>2, <2>3 DEF Follows
    <2>5. BackwardRefresh
      BY <2>2, <2>3, <2>4, CollectiveTags
    <2>6. headGrad[k] = {}
      <3>1. todo[k][1] = <<"refresh">> /\ 1 \in 1 .. Len(todo[k])
        BY <2>4
      <3>2. <<"refresh">> \in Left(k)
        BY <3>1 DEF Left, ItemsOf
      <3>3. HeadRows(k) = {r \in Keys : batch[r].cycles > 0 /\ <<"refresh">> \notin Left(k)}
        BY <2>2 DEF Pending
      <3>4. HeadRows(k) = {}
        BY <3>2, <3>3
      <3>. QED BY <3>4 DEF HeadRows
    <2>7. UNION {Taught(Recorded(j), ToSet(selected[j])) : j \in Ranks} = Lesson(k)
      BY <1>0, <2>2, <2>5, RefreshTeaches
    <2>8. headGrad'[k] = Lesson(k)
      BY <2>5, <2>6, <2>7 DEF BackwardRefresh
    <2>. QED BY <2>8
  <1>4. ASSUME NEW i \in 1 .. Len(headLog'[k])
        PROVE  pc'[k] \in AfterTeacher /\ headLog'[k][i].rows = Lesson(k)
    <2>1. CASE headLog'[k] = headLog[k]
      BY <1>0, <1>2, <1>4, <2>1 DEF Headed
    <2>2. CASE headLog'[k] # headLog[k]
      <3> DEFINE e == [lr |-> headLr[k], rows |-> headGrad[k]]
                 T == [lr : Nat, rows : SUBSET Taughts]
      <3>1. OptimizerStep
        BY <1>0, <2>2
      <3>2. /\ todo[k] # <<>> /\ Applies
            /\ (pc[k] = "step" /\ headGrad[k] = {}) \/ pc[k] = "refresh"
        BY <1>0, <2>2, <3>1, NormFinds
      <3>3. headGrad[k] # {} /\ headLog'[k] = Append(headLog[k], e)
        BY <2>2, <3>2 DEF Applies
      <3>4. pc[k] = "refresh" /\ e.rows = Lesson(k)
        BY <1>0, <3>2, <3>3 DEF Headed
      <3>5. e \in T /\ headLog[k] \in Seq(T)
        BY DEF TypeInv, Optimizing
      <3>. HIDE DEF e, T
      <3>6. /\ Len(headLog'[k]) = Len(headLog[k]) + 1 /\ headLog'[k][Len(headLog[k]) + 1] = e
            /\ \A h \in 1 .. Len(headLog[k]) : headLog'[k][h] = headLog[k][h]
            /\ Len(headLog[k]) \in Nat
        BY <3>3, <3>5, AppendProperties, LenProperties
      <3>7. pc'[k] \in AfterTeacher
        BY <1>2, <3>4 DEF AfterTeacher
      <3>8. CASE i = Len(headLog[k]) + 1
        BY <3>4, <3>6, <3>7, <3>8
      <3>9. CASE i # Len(headLog[k]) + 1
        <4>1. i \in 1 .. Len(headLog[k])
          BY <1>4, <3>6, <3>9
        <4>. QED BY <1>0, <3>6, <3>7, <4>1 DEF Headed
      <3>. QED BY <3>8, <3>9
    <2>. QED BY <2>1, <2>2
  <1>. QED BY <1>1, <1>3, <1>4 DEF Headed

LEMMA HeadInit == Init => HeadInv
  BY DEF Init, HeadInv, Headed

LEMMA HeadStep == TypeInv /\ SyncInv /\ LeftInv /\ CountInv /\ GradInv /\ HeadInv /\ [Next]_vars => HeadInv'
  <1> SUFFICES ASSUME TypeInv, SyncInv, LeftInv, CountInv, GradInv, HeadInv, [Next]_vars PROVE HeadInv'
    OBVIOUS
  <1>1. CASE UNCHANGED vars
    <2>1. UNCHANGED <<mode, batch, pc, todo, selected, headGrad, headLog>>
      BY <1>1 DEF vars, control, scoring, optimizer
    <2>2. \A k \in Ranks : Lesson(k)' = Lesson(k)
      BY <2>1 DEF Lesson
    <2>. QED BY <2>1, <2>2 DEF HeadInv, Headed, Deferred
  <1>2. CASE Next
    BY <1>2, LocalHead, CollectiveHead DEF Next
  <1>. QED BY <1>1, <1>2

\* On a refresh step the head is taught by the new teacher exactly in the rows
\* that are worth most: the divergences rank 0 measures are those of the cases
\* it has cached, taken before the first policy step, and every rank selects by
\* them alike, up to the fraction of all records and never a row of no value.
THEOREM RefreshedTop == Spec => []RefreshedAreTop
  <1>1. TypeInv /\ SyncInv /\ RecordInv /\ ScoreInv /\ HeadInv => RefreshedAreTop
    <2> SUFFICES ASSUME TypeInv, SyncInv, RecordInv, ScoreInv, HeadInv, Deferred,
                        NEW k \in Ranks, NEW i \in 1 .. Len(headLog[k])
                 PROVE  LET new == {g.row : g \in {h \in headLog[k][i].rows : h.teacher = "new"}}
                            worthy == {r \in Keys : Worth(k, r) > 0}
                            all == Cardinality(UNION {LocalRecords(j) : j \in Ranks})
                            limit == Min({n \in 0 .. all : n * FracDen >= FracNum * all})
                        IN  /\ new \subseteq worthy
                            /\ \A r \in worthy \ new, q \in new : Worth(k, r) <= Worth(k, q)
                            /\ Cardinality(new) = Min({Cardinality(worthy), limit})
      BY DEF RefreshedAreTop
    <2> DEFINE N == ToSet(SelectTrajectories(k))
               C == {r \in Keys : batch[r].cycles > 0}
               new == {g.row : g \in {h \in headLog[k][i].rows : h.teacher = "new"}}
    <2>1. pc[k] \in AfterTeacher /\ headLog[k][i].rows = Lesson(k)
      BY DEF HeadInv, Headed
    <2>2. ScoresKnown(k) /\ pc[k] # "score" /\ HasRecords(k)
      BY <2>1 DEF AfterTeacher, ScoresKnown, Epilogue, HasRecords
    <2>3. /\ selected[k] = SelectTrajectories(k) /\ records[k] = Gathered
          /\ shift[k] = Measured(k, Len(ShiftCases)) /\ batch \in [Keys -> Kinds]
      BY <2>2 DEF SyncInv, Own, RecordInv, ScoreInv, TypeInv, Control
    <2>4. N \subseteq C
      <3>1. N \subseteq {r \in Keys : Worth(k, r) > 0}
        BY <2>3, SelectionTop
      <3>2. ASSUME NEW r \in Keys, Worth(k, r) > 0 PROVE batch[r].cycles > 0
        BY <3>2 DEF Worth
      <3>. QED BY <3>1, <3>2
    <2>5. headLog[k][i].rows = Taught(C, N)
      BY <2>1, <2>3 DEF Lesson
    <2>6. new = N
      <3>. HIDE DEF N, C
      <3>1. ASSUME NEW r \in new PROVE r \in N
        <4>1. PICK g \in Taught(C, N) : g.teacher = "new" /\ r = g.row
          BY <2>5
        <4>2. PICK s \in C : g = [row |-> s, teacher |-> IF s \in N THEN "new" ELSE "old"]
          BY DEF Taught
        <4>. QED BY <4>1, <4>2
      <3>2. ASSUME NEW r \in N PROVE r \in new
        <4> DEFINE g == [row |-> r, teacher |-> "new"]
        <4>1. g \in Taught(C, N) /\ g.row = r /\ g.teacher = "new"
          BY <2>4 DEF Taught
        <4>. QED BY <2>5, <4>1
      <3>. QED BY <3>1, <3>2
    <2>. QED BY <2>3, <2>6, SelectionTop
  <1>. QED BY <1>1, TypeInit, TypeStep, SyncInit, SyncStep, LeftInit, LeftStep, CountInit, CountStep, GradInit,
              GradStep, RecordInit, RecordStep, LogInit, LogStep, CacheInit, CacheStep, ScoreInit, ScoreStep,
              HeadInit, HeadStep, PTL DEF Spec
=============================================================================
