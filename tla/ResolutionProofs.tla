-------------------------- MODULE ResolutionProofs --------------------------
(***************************************************************************)
(* Proofs about Resolution, for any dictionary, texts and locale: what the *)
(* merge computes is what its closed form says, and what the coverage says *)
(* is so.                                                                  *)
(***************************************************************************)
EXTENDS Resolution, FiniteSetTheorems, SequenceTheorems, WellFoundedInduction, TLAPS

(***************************************************************************)
(* Induction.  The induction theorems of the library take an operator; its *)
(* theorem about minimal elements takes a set, and is enough: a set that   *)
(* has 0 and with a number the next one has them all, or there would be a  *)
(* least one that is missing.                                              *)
(***************************************************************************)
LEMMA LeastNumber ==
  ASSUME NEW T, T \subseteq Nat, T # {}
  PROVE  \E n \in T : \A m \in T : n <= m
<1>1. PICK n \in T : \A m \in T : <<m, n>> \notin OpToRel(<, Nat)
  BY NatLessThanWellFounded, WFMin, Zenon
<1>2. \A m \in T : ~(m < n)
  BY <1>1, Zenon DEF OpToRel
<1> QED
  BY <1>2

LEMMA AllNumbers ==
  ASSUME NEW T, 0 \in T, \A n \in Nat : n \in T => n + 1 \in T
  PROVE  Nat \subseteq T
<1> SUFFICES ASSUME Nat \ T # {} PROVE FALSE
  OBVIOUS
<1>1. PICK n \in Nat \ T : \A m \in Nat \ T : n <= m
  BY LeastNumber
<1>2. n # 0 /\ n - 1 \in Nat
  BY <1>1
<1>3. n - 1 \in T
  BY <1>1, <1>2
<1> QED
  BY <1>1, <1>2, <1>3

\* Up to a bound.
LEMMA AllUpTo ==
  ASSUME NEW N \in Nat, NEW T, 0 \in T, \A n \in 1 .. N : n - 1 \in T => n \in T
  PROVE  0 .. N \subseteq T
<1> DEFINE U == {n \in Nat : n <= N => n \in T}
<1>1. 0 \in U
  OBVIOUS
<1>2. \A n \in Nat : n \in U => n + 1 \in U
  OBVIOUS
<1>3. Nat \subseteq U
  <2> HIDE DEF U
  <2> QED
    BY <1>1, <1>2, AllNumbers
<1> QED
  BY <1>3

LEMMA MaxOfNumbers ==
  ASSUME NEW N \in Nat, NEW T, T \subseteq 0 .. N, T # {}
  PROVE  Max(T) \in T /\ \A n \in T : n <= Max(T)
<1> DEFINE U == {N - n : n \in T}
<1>1. U \subseteq Nat /\ U # {}
  <2>1. \A n \in T : N - n \in Nat
    OBVIOUS
  <2>2. PICK n : n \in T
    OBVIOUS
  <2>3. N - n \in U
    BY <2>2
  <2> QED
    BY <2>1, <2>3
<1>2. PICK u \in U : \A v \in U : u <= v
  <2> HIDE DEF U
  <2> QED
    BY <1>1, LeastNumber
<1>3. N - u \in T /\ \A n \in T : N - u >= n
  BY <1>2
<1>4. Max(T) \in T /\ \A n \in T : Max(T) >= n
  BY <1>3 DEF Max
<1> QED
  BY <1>4

LEMMA MinOfNumbers ==
  ASSUME NEW T, T \subseteq Nat, T # {}
  PROVE  Min(T) \in T /\ \A n \in T : Min(T) <= n
<1>1. PICK n \in T : \A m \in T : n <= m
  BY LeastNumber
<1> QED
  BY <1>1 DEF Min

-----------------------------------------------------------------------------
(***************************************************************************)
(* Loops.  A fold is a recursive function on the sets of positions, which  *)
(* exists for the rounds of any loop (round[n][v] is what the n-th makes   *)
(* of v), and after n rounds has done the n-th with what it had before.    *)
(***************************************************************************)
FoldOf(f, N, base, round) ==
  \A t \in SUBSET (1 .. N) :
    f[t] = IF t = {} THEN base ELSE round[Max(t)][f[t \ {Max(t)}]]

LEMMA MaxUpTo ==
  ASSUME NEW n \in Nat, n # 0
  PROVE  Max(1 .. n) = n
<1>1. 1 .. n \subseteq 0 .. n /\ 1 .. n # {} /\ n \in 1 .. n
  OBVIOUS
<1>2. Max(1 .. n) \in 1 .. n /\ n <= Max(1 .. n)
  BY <1>1, MaxOfNumbers
<1> QED
  BY <1>2

LEMMA FoldsExist ==
  ASSUME NEW N \in Nat, NEW V, NEW base \in V, NEW round \in [1 .. N -> [V -> V]]
  PROVE  \E f \in [SUBSET (1 .. N) -> V] : FoldOf(f, N, base, round)
<1> DEFINE T == {n \in 0 .. N : \E f \in [SUBSET (1 .. n) -> V] :
                                  FoldOf(f, n, base, round)}
<1>1. 0 \in T
  <2> DEFINE f == [t \in SUBSET (1 .. 0) |-> base]
  <2>1. f \in [SUBSET (1 .. 0) -> V] /\ FoldOf(f, 0, base, round)
    BY DEF FoldOf
  <2> QED
    BY <2>1
<1>2. ASSUME NEW n \in 1 .. N, n - 1 \in T
      PROVE  n \in T
  <2>0. n \in Nat
    OBVIOUS
  <2>1. PICK f \in [SUBSET (1 .. (n - 1)) -> V] : FoldOf(f, n - 1, base, round)
    BY <1>2
  <2> DEFINE g == [t \in SUBSET (1 .. n) |->
                     IF n \in t THEN round[n][f[t \ {n}]] ELSE f[t]]
  <2>2. \A t \in SUBSET (1 .. n) :
          /\ t \ {n} \in SUBSET (1 .. (n - 1))
          /\ n \notin t => t \in SUBSET (1 .. (n - 1))
          /\ t \subseteq 0 .. n
    OBVIOUS
  <2>3. g \in [SUBSET (1 .. n) -> V]
    <3>1. \A v \in V : round[n][v] \in V
      OBVIOUS
    <3>2. \A t \in SUBSET (1 .. n) : IF n \in t THEN round[n][f[t \ {n}]] \in V ELSE f[t] \in V
      BY <2>2, <3>1
    <3> QED
      BY <3>2
  <2>4. ASSUME NEW t \in SUBSET (1 .. n)
        PROVE  g[t] = IF t = {} THEN base ELSE round[Max(t)][g[t \ {Max(t)}]]
    <3>1. CASE t = {}
      <4>1. f[t] = base
        BY <2>1, <2>2, <3>1 DEF FoldOf
      <4> QED
        BY <3>1, <4>1
    <3>2. CASE n \in t
      <4>1. Max(t) = n
        <5>1. t \subseteq 0 .. n /\ t # {}
          BY <3>2
        <5>2. Max(t) \in t /\ n <= Max(t)
          BY <2>0, <3>2, <5>1, MaxOfNumbers
        <5>3. Max(t) \in 1 .. n
          BY <5>2
        <5> QED
          BY <2>0, <5>2, <5>3
      <4>2. t \ {n} \in SUBSET (1 .. n) /\ n \notin t \ {n}
        OBVIOUS
      <4>3. g[t] = round[n][f[t \ {n}]] /\ g[t \ {n}] = f[t \ {n}]
        BY <3>2, <4>2
      <4> QED
        BY <3>2, <4>1, <4>3
    <3>3. CASE t # {} /\ n \notin t
      <4>1. t \subseteq 0 .. n
        OBVIOUS
      <4>2. Max(t) \in t
        BY <2>0, <3>3, <4>1, MaxOfNumbers
      <4>3. t \in SUBSET (1 .. (n - 1))
        BY <2>2, <3>3
      <4>4. f[t] = round[Max(t)][f[t \ {Max(t)}]]
        BY <2>1, <3>3, <4>3 DEF FoldOf
      <4>5. t \ {Max(t)} \in SUBSET (1 .. n) /\ n \notin t \ {Max(t)}
        BY <3>3
      <4>6. g[t] = f[t] /\ g[t \ {Max(t)}] = f[t \ {Max(t)}]
        BY <3>3, <4>5
      <4> QED
        BY <3>3, <4>4, <4>6
    <3> QED
      BY <3>1, <3>2, <3>3
  <2> HIDE DEF g
  <2>5. FoldOf(g, n, base, round)
    BY <2>4 DEF FoldOf
  <2> QED
    BY <2>3, <2>5
<1>3. 0 .. N \subseteq T
  <2> HIDE DEF T
  <2> QED
    BY <1>1, <1>2, AllUpTo
<1>4. N \in T
  <2> HIDE DEF T
  <2> QED
    BY <1>3
<1> QED
  BY <1>4

\* What goes on like a fold where it has a value in V has its rounds.
GoesOn(fold, N, V, base, round) ==
  /\ fold[{}] = base
  /\ \A t \in SUBSET (1 .. N) : t # {} /\ fold[t \ {Max(t)}] \in V =>
       fold[t] = round[Max(t)][fold[t \ {Max(t)}]]

LEMMA UpTo ==
  ASSUME NEW N \in Nat, NEW n \in 1 .. N
  PROVE  /\ Max(1 .. n) = n
         /\ 1 .. n \in SUBSET (1 .. N) /\ 1 .. n # {}
         /\ (1 .. n) \ {n} = 1 .. (n - 1)
<1>1. Max(1 .. n) = n
  BY MaxUpTo
<1>2. 1 .. n \in SUBSET (1 .. N) /\ 1 .. n # {} /\ (1 .. n) \ {n} = 1 .. (n - 1)
  OBVIOUS
<1> QED
  BY <1>1, <1>2

HasRounds(N, V, base, round, last) ==
  \E r \in [0 .. N -> V] :
    /\ r[0] = base
    /\ \A n \in 1 .. N : r[n] = round[n][r[n - 1]]
    /\ r[N] = last

LEMMA RoundsOfAFold ==
  ASSUME NEW N \in Nat, NEW V, NEW base \in V, NEW round \in [1 .. N -> [V -> V]],
         NEW fold, GoesOn(fold, N, V, base, round)
  PROVE  HasRounds(N, V, base, round, fold[1 .. N])
<1> DEFINE r == [n \in 0 .. N |-> fold[1 .. n]]
<1>1. r[0] = base
  <2>1. 1 .. 0 = {} /\ 0 \in 0 .. N
    OBVIOUS
  <2> QED
    BY <2>1 DEF GoesOn
<1>2. ASSUME NEW n \in 1 .. N, r[n - 1] \in V
      PROVE  r[n] = round[n][r[n - 1]] /\ r[n] \in V
  <2>2. /\ Max(1 .. n) = n
        /\ 1 .. n \in SUBSET (1 .. N) /\ 1 .. n # {}
        /\ (1 .. n) \ {n} = 1 .. (n - 1)
    BY UpTo
  <2>3. n \in 0 .. N /\ n - 1 \in 0 .. N
    OBVIOUS
  <2>4. r[n - 1] = fold[1 .. (n - 1)] /\ r[n] = fold[1 .. n]
    BY <2>3
  <2>5. fold[1 .. n] = round[n][fold[1 .. (n - 1)]]
    BY <1>2, <2>2, <2>4 DEF GoesOn
  <2> QED
    BY <1>2, <2>4, <2>5
<1>3. \A n \in 0 .. N : r[n] \in V
  <2> DEFINE T == {n \in 0 .. N : r[n] \in V}
  <2> HIDE DEF r
  <2>1. 0 \in T
    BY <1>1
  <2>2. ASSUME NEW n \in 1 .. N, n - 1 \in T PROVE n \in T
    BY <1>2, <2>2
  <2> HIDE DEF T
  <2>3. 0 .. N \subseteq T
    BY <2>1, <2>2, AllUpTo
  <2> QED
    BY <2>3 DEF T
<1>4. r \in [0 .. N -> V] /\ r[N] = fold[1 .. N]
  BY <1>3
<1>5. \A n \in 1 .. N : r[n] = round[n][r[n - 1]]
  <2> HIDE DEF r
  <2> QED
    BY <1>2, <1>3
<1> HIDE DEF r
<1> QED
  BY <1>1, <1>4, <1>5 DEF HasRounds

-----------------------------------------------------------------------------
(***************************************************************************)
(* The loops of the merge.                                                 *)
(***************************************************************************)
Maps == UNION {[D -> Item] : D \in SUBSET Keys}

LEMMA OrOfTwo ==
  ASSUME NEW S, NEW x \in S, NEW y \in S
  PROVE  Or(x, y) \in S
BY DEF Or

LEMMA FieldsTyped ==
  ASSUME NEW i \in Item
  PROVE  /\ i.key \in Keys \cup {Blank} /\ i.locale \in Locales \cup {Blank}
         /\ i.value \in Words \cup {Blank} /\ i.label \in Words \cup {Blank}
         /\ i.description \in Words \cup {Blank} /\ i.order \in Orders
         /\ i.status \in {"active", "disabled", Blank}
         /\ i.color \in Words \cup {Blank} /\ i.ui \in Words \cup {Blank}
         /\ i.config \in Words \cup {Blank}
         /\ KeyAsWord[i.key] \in Words \cup {Blank}
BY KeysAreWords DEF Item

LEMMA ItemsStayItems ==
  ASSUME NEW i \in Item
  PROVE  /\ NormalizeDictionaryItem(i) \in Item
         /\ NormalizeDictionaryItem(i).key = i.key
         /\ \A base \in Item : Inherit(i, base) \in Item /\ Inherit(i, base).key = i.key
<1> DEFINE W == Words \cup {Blank}
<1>1. NormalizeDictionaryItem(i) \in Item
  <2> DEFINE value == Or(i.value, KeyAsWord[i.key])
             label == Or(i.label, value)
             status == Or(i.status, "active")
             ui == Or(i.ui, i.config)
             color == Or(i.color, Or(ui, i.config))
  <2>1. /\ value \in W /\ label \in W /\ status \in {"active", "disabled", Blank}
        /\ ui \in W /\ color \in W
    BY FieldsTyped DEF Or
  <2>2. [i EXCEPT !.value = value, !.label = label, !.status = status, !.ui = ui,
                  !.color = color] \in Item
    <3> HIDE DEF value, label, status, ui, color
    <3> QED
      BY <2>1 DEF Item
  <2> QED
    BY <2>2 DEF NormalizeDictionaryItem
<1>2. NormalizeDictionaryItem(i).key = i.key
  BY DEF NormalizeDictionaryItem, Item
<1>3. ASSUME NEW base \in Item
      PROVE  Inherit(i, base) \in Item
  <2> DEFINE value == Or(i.value, base.value)
             description == Or(i.description, base.description)
             order == IF i.order = 0 THEN base.order ELSE i.order
             status == Or(i.status, base.status)
             color == Or(i.color, base.color)
             ui == Or(i.ui, base.ui)
  <2>1. /\ value \in W /\ description \in W /\ order \in Orders
        /\ status \in {"active", "disabled", Blank} /\ color \in W /\ ui \in W
    BY FieldsTyped DEF Or
  <2>2. [i EXCEPT !.value = value, !.description = description, !.order = order,
                  !.status = status, !.color = color, !.ui = ui] \in Item
    <3> HIDE DEF value, description, order, status, color, ui
    <3> QED
      BY <2>1 DEF Item
  <2> QED
    BY <2>2 DEF Inherit
<1>4. \A base \in Item : Inherit(i, base).key = i.key
  BY DEF Inherit, Item
<1> QED
  BY <1>1, <1>2, <1>3, <1>4

LEMMA MapsStayMaps ==
  ASSUME NEW merged \in Maps, NEW i \in Item
  PROVE  Put(merged, i) \in Maps /\ PutLocalized(merged, i) \in Maps
<1>1. ASSUME NEW j \in Item
      PROVE  Put(merged, j) \in Maps
  <2>1. CASE j.key = Blank
    BY <2>1 DEF Put
  <2>2. CASE j.key # Blank
    <3>1. PICK D \in SUBSET Keys : merged \in [D -> Item]
      BY DEF Maps
    <3>2. j.key \in Keys
      BY <2>2 DEF Item
    <3>3. NormalizeDictionaryItem(j) \in Item
      BY ItemsStayItems
    <3>4. Put(merged, j) \in [D \cup {j.key} -> Item]
      BY <2>2, <3>1, <3>3 DEF Put
    <3> QED
      BY <3>2, <3>4 DEF Maps
  <2> QED
    BY <2>1, <2>2
<1>2. i.key \in DOMAIN merged => merged[i.key] \in Item
  BY DEF Maps
<1>3. PutLocalized(merged, i) \in Maps
  BY <1>1, <1>2, ItemsStayItems DEF PutLocalized
<1> QED
  BY <1>1, <1>3

LEMMA EmptyMap == <<>> \in Maps /\ DOMAIN <<>> = {}
<1>1. <<>> \in [{} -> Item]
  OBVIOUS
<1> QED
  BY <1>1 DEF Maps

LEMMA LoopOfPut ==
  ASSUME NEW s \in Seq(Item)
  PROVE  \E r \in [0 .. Len(s) -> Maps] :
           /\ r[0] = <<>>
           /\ \A n \in 1 .. Len(s) : r[n] = Put(r[n - 1], s[n])
           /\ FoldLeft(Put, <<>>, s) = r[Len(s)]
<1> DEFINE N == Len(s)
           round == [n \in 1 .. N |-> [v \in Maps |-> Put(v, s[n])]]
           Equation(f) == f = [t \in SUBSET DOMAIN s |->
                                 IF t = {} THEN <<>>
                                 ELSE Put(f[t \ {Max(t)}], s[Max(t)])]
           fold == CHOOSE f : Equation(f)
<1>1. N \in Nat /\ DOMAIN s = 1 .. N /\ \A n \in 1 .. N : s[n] \in Item
  OBVIOUS
<1>2. round \in [1 .. N -> [Maps -> Maps]]
  BY <1>1, MapsStayMaps
<1>3. PICK f \in [SUBSET (1 .. N) -> Maps] : FoldOf(f, N, <<>>, round)
  <2>1. <<>> \in Maps
    BY EmptyMap
  <2> HIDE DEF round, N
  <2> QED
    BY <1>1, <1>2, <2>1, FoldsExist
<1>4. Equation(f)
  <2>1. ASSUME NEW t \in SUBSET (1 .. N)
        PROVE  f[t] = IF t = {} THEN <<>> ELSE Put(f[t \ {Max(t)}], s[Max(t)])
    <3>1. CASE t = {}
      BY <1>3, <3>1 DEF FoldOf
    <3>2. CASE t # {}
      <4>1. Max(t) \in t
        <5>1. t \subseteq 0 .. N
          OBVIOUS
        <5> QED
          BY <1>1, <3>2, <5>1, MaxOfNumbers
      <4>2. f[t \ {Max(t)}] \in Maps
        OBVIOUS
      <4>3. f[t] = round[Max(t)][f[t \ {Max(t)}]]
        BY <1>3, <3>2 DEF FoldOf
      <4> QED
        BY <3>2, <4>1, <4>2, <4>3
    <3> QED
      BY <3>1, <3>2
  <2> QED
    BY <1>1, <2>1
<1>5. Equation(fold)
  <2> HIDE DEF Equation
  <2> QED
    BY <1>4
<1>6. FoldLeft(Put, <<>>, s) = fold[1 .. N]
  BY <1>1 DEF FoldLeft, MapThenFoldSet
<1>7. GoesOn(fold, N, Maps, <<>>, round)
  <2> HIDE DEF fold
  <2>1. fold[{}] = <<>>
    BY <1>5
  <2>2. ASSUME NEW t \in SUBSET (1 .. N), t # {}, fold[t \ {Max(t)}] \in Maps
        PROVE  fold[t] = round[Max(t)][fold[t \ {Max(t)}]]
    <3>1. t \subseteq 0 .. N
      OBVIOUS
    <3>2. Max(t) \in 1 .. N
      BY <1>1, <2>2, <3>1, MaxOfNumbers
    <3>3. fold[t] = Put(fold[t \ {Max(t)}], s[Max(t)])
      BY <1>1, <1>5, <2>2
    <3> HIDE DEF Equation
    <3> QED
      BY <2>2, <3>2, <3>3
  <2> HIDE DEF N, round, Equation
  <2> QED
    BY <2>1, <2>2 DEF GoesOn
<1>8. PICK r \in [0 .. N -> Maps] :
        /\ r[0] = <<>>
        /\ \A n \in 1 .. N : r[n] = round[n][r[n - 1]]
        /\ r[N] = fold[1 .. N]
  <2> DEFINE start == <<>>
  <2>1. start \in Maps /\ GoesOn(fold, N, Maps, start, round)
    BY <1>7, EmptyMap
  <2>2. HasRounds(N, Maps, start, round, fold[1 .. N])
    <3> HIDE DEF N, round, fold, Equation, start
    <3>1. N \in Nat
      BY <1>1
    <3> QED
      BY <3>1, <1>2, <2>1, RoundsOfAFold
  <2> HIDE DEF N, round, fold, Equation
  <2> QED
    BY <2>2 DEF HasRounds
<1>9. \A n \in 1 .. N : r[n] = Put(r[n - 1], s[n])
  <2> HIDE DEF fold, Equation
  <2>1. \A n \in 1 .. N : r[n - 1] \in Maps
    BY <1>1
  <2> QED
    BY <1>8, <2>1
<1> HIDE DEF fold, Equation, round
<1> QED
  BY <1>6, <1>8, <1>9

PutAll(base, s) == FoldLeft(PutLocalized, base, s)

LEMMA LoopOfPutLocalized ==
  ASSUME NEW s \in Seq(Item), NEW base \in Maps
  PROVE  \E r \in [0 .. Len(s) -> Maps] :
           /\ r[0] = base
           /\ \A n \in 1 .. Len(s) : r[n] = PutLocalized(r[n - 1], s[n])
           /\ PutAll(base, s) = r[Len(s)]
<1> DEFINE N == Len(s)
           round == [n \in 1 .. N |-> [v \in Maps |-> PutLocalized(v, s[n])]]
           Equation(f) == f = [t \in SUBSET DOMAIN s |->
                                 IF t = {} THEN base
                                 ELSE PutLocalized(f[t \ {Max(t)}], s[Max(t)])]
           fold == CHOOSE f : Equation(f)
<1>1. N \in Nat /\ DOMAIN s = 1 .. N /\ \A n \in 1 .. N : s[n] \in Item
  OBVIOUS
<1>2. round \in [1 .. N -> [Maps -> Maps]]
  BY <1>1, MapsStayMaps
<1>3. PICK f \in [SUBSET (1 .. N) -> Maps] : FoldOf(f, N, base, round)
  <2>1. base \in Maps
    OBVIOUS
  <2> HIDE DEF round, N
  <2> QED
    BY <1>1, <1>2, <2>1, FoldsExist
<1>4. Equation(f)
  <2>1. ASSUME NEW t \in SUBSET (1 .. N)
        PROVE  f[t] = IF t = {} THEN base ELSE PutLocalized(f[t \ {Max(t)}], s[Max(t)])
    <3>1. CASE t = {}
      BY <1>3, <3>1 DEF FoldOf
    <3>2. CASE t # {}
      <4>1. Max(t) \in t
        <5>1. t \subseteq 0 .. N
          OBVIOUS
        <5> QED
          BY <1>1, <3>2, <5>1, MaxOfNumbers
      <4>2. f[t \ {Max(t)}] \in Maps
        OBVIOUS
      <4>3. f[t] = round[Max(t)][f[t \ {Max(t)}]]
        BY <1>3, <3>2 DEF FoldOf
      <4> QED
        BY <3>2, <4>1, <4>2, <4>3
    <3> QED
      BY <3>1, <3>2
  <2> QED
    BY <1>1, <2>1
<1>5. Equation(fold)
  <2> HIDE DEF Equation
  <2> QED
    BY <1>4
<1>6. PutAll(base, s) = fold[1 .. N]
  BY <1>1 DEF PutAll, FoldLeft, MapThenFoldSet
<1>7. GoesOn(fold, N, Maps, base, round)
  <2> HIDE DEF fold
  <2>1. fold[{}] = base
    BY <1>5
  <2>2. ASSUME NEW t \in SUBSET (1 .. N), t # {}, fold[t \ {Max(t)}] \in Maps
        PROVE  fold[t] = round[Max(t)][fold[t \ {Max(t)}]]
    <3>1. t \subseteq 0 .. N
      OBVIOUS
    <3>2. Max(t) \in 1 .. N
      BY <1>1, <2>2, <3>1, MaxOfNumbers
    <3>3. fold[t] = PutLocalized(fold[t \ {Max(t)}], s[Max(t)])
      BY <1>1, <1>5, <2>2
    <3> HIDE DEF Equation
    <3> QED
      BY <2>2, <3>2, <3>3
  <2> HIDE DEF N, round, Equation
  <2> QED
    BY <2>1, <2>2 DEF GoesOn
<1>8. PICK r \in [0 .. N -> Maps] :
        /\ r[0] = base
        /\ \A n \in 1 .. N : r[n] = round[n][r[n - 1]]
        /\ r[N] = fold[1 .. N]
  <2>1. base \in Maps
    OBVIOUS
  <2> HIDE DEF N, round, fold, Equation
  <2> QED
    <3>1. HasRounds(N, Maps, base, round, fold[1 .. N])
      BY <1>1, <1>2, <1>7, <2>1, RoundsOfAFold
    <3> QED
      BY <3>1 DEF HasRounds
<1>9. \A n \in 1 .. N : r[n] = PutLocalized(r[n - 1], s[n])
  <2> HIDE DEF fold, Equation
  <2>1. \A n \in 1 .. N : r[n - 1] \in Maps
    BY <1>1
  <2> QED
    BY <1>8, <2>1
<1> HIDE DEF fold, Equation, round
<1> QED
  BY <1>6, <1>8, <1>9

LEMMA LoopOfSelect ==
  ASSUME NEW s \in Seq(Item), NEW wanted
  PROVE  \E r \in [0 .. Len(s) -> Seq(Item)] :
           /\ r[0] = <<>>
           /\ \A n \in 1 .. Len(s) : r[n] = IF s[n] \in wanted THEN Append(r[n - 1], s[n]) ELSE r[n - 1]
           /\ Select(s, wanted) = r[Len(s)]
<1> DEFINE N == Len(s)
           round == [n \in 1 .. N |-> [v \in Seq(Item) |-> IF s[n] \in wanted THEN Append(v, s[n]) ELSE v]]
           Equation(f) == f = [t \in SUBSET DOMAIN s |->
                                 IF t = {} THEN <<>>
                                 ELSE IF s[Max(t)] \in wanted THEN Append(f[t \ {Max(t)}], s[Max(t)]) ELSE f[t \ {Max(t)}]]
           fold == CHOOSE f : Equation(f)
<1>1. N \in Nat /\ DOMAIN s = 1 .. N /\ \A n \in 1 .. N : s[n] \in Item
  OBVIOUS
<1>2. round \in [1 .. N -> [Seq(Item) -> Seq(Item)]]
  BY <1>1
<1>3. PICK f \in [SUBSET (1 .. N) -> Seq(Item)] : FoldOf(f, N, <<>>, round)
  <2>1. <<>> \in Seq(Item)
    OBVIOUS
  <2> HIDE DEF round, N
  <2> QED
    BY <1>1, <1>2, <2>1, FoldsExist
<1>4. Equation(f)
  <2>1. ASSUME NEW t \in SUBSET (1 .. N)
        PROVE  f[t] = IF t = {} THEN <<>> ELSE IF s[Max(t)] \in wanted THEN Append(f[t \ {Max(t)}], s[Max(t)]) ELSE f[t \ {Max(t)}]
    <3>1. CASE t = {}
      BY <1>3, <3>1 DEF FoldOf
    <3>2. CASE t # {}
      <4>1. Max(t) \in t
        <5>1. t \subseteq 0 .. N
          OBVIOUS
        <5> QED
          BY <1>1, <3>2, <5>1, MaxOfNumbers
      <4>2. f[t \ {Max(t)}] \in Seq(Item)
        OBVIOUS
      <4>3. f[t] = round[Max(t)][f[t \ {Max(t)}]]
        BY <1>3, <3>2 DEF FoldOf
      <4> QED
        BY <3>2, <4>1, <4>2, <4>3
    <3> QED
      BY <3>1, <3>2
  <2> QED
    BY <1>1, <2>1
<1>5. Equation(fold)
  <2> HIDE DEF Equation
  <2> QED
    BY <1>4
<1>6. Select(s, wanted) = fold[1 .. N]
  BY <1>1 DEF Select, FoldLeft, MapThenFoldSet
<1>7. GoesOn(fold, N, Seq(Item), <<>>, round)
  <2> HIDE DEF fold
  <2>1. fold[{}] = <<>>
    BY <1>5
  <2>2. ASSUME NEW t \in SUBSET (1 .. N), t # {}, fold[t \ {Max(t)}] \in Seq(Item)
        PROVE  fold[t] = round[Max(t)][fold[t \ {Max(t)}]]
    <3>1. t \subseteq 0 .. N
      OBVIOUS
    <3>2. Max(t) \in 1 .. N
      BY <1>1, <2>2, <3>1, MaxOfNumbers
    <3>3. fold[t] = IF s[Max(t)] \in wanted THEN Append(fold[t \ {Max(t)}], s[Max(t)]) ELSE fold[t \ {Max(t)}]
      BY <1>1, <1>5, <2>2
    <3> HIDE DEF Equation
    <3> QED
      BY <2>2, <3>2, <3>3
  <2> HIDE DEF N, round, Equation
  <2> QED
    BY <2>1, <2>2 DEF GoesOn
<1>8. PICK r \in [0 .. N -> Seq(Item)] :
        /\ r[0] = <<>>
        /\ \A n \in 1 .. N : r[n] = round[n][r[n - 1]]
        /\ r[N] = fold[1 .. N]
  <2> DEFINE start == <<>>
  <2>1. start \in Seq(Item) /\ GoesOn(fold, N, Seq(Item), start, round)
    BY <1>7
  <2>2. HasRounds(N, Seq(Item), start, round, fold[1 .. N])
    <3> HIDE DEF N, round, fold, Equation, start
    <3> QED
      BY <1>1, <1>2, <2>1, RoundsOfAFold
  <2> HIDE DEF N, round, fold, Equation
  <2> QED
    BY <2>2 DEF HasRounds
<1>9. \A n \in 1 .. N : r[n] = IF s[n] \in wanted THEN Append(r[n - 1], s[n]) ELSE r[n - 1]
  <2> HIDE DEF fold, Equation
  <2>1. \A n \in 1 .. N : r[n - 1] \in Seq(Item)
    BY <1>1
  <2> QED
    BY <1>8, <2>1
<1> HIDE DEF fold, Equation, round
<1> QED
  BY <1>6, <1>8, <1>9

-----------------------------------------------------------------------------
(***************************************************************************)
(* A loop over what is selected is the loop over everything that skips     *)
(* what is not wanted.                                                     *)
(***************************************************************************)
Selects(r, s, wanted) ==
  /\ r \in [0 .. Len(s) -> Seq(Item)]
  /\ r[0] = <<>>
  /\ \A n \in 1 .. Len(s) :
       r[n] = IF s[n] \in wanted THEN Append(r[n - 1], s[n]) ELSE r[n - 1]

LEMMA Selection ==
  ASSUME NEW s \in Seq(Item), NEW wanted
  PROVE  \E r : Selects(r, s, wanted) /\ Select(s, wanted) = r[Len(s)]
<1>1. PICK r \in [0 .. Len(s) -> Seq(Item)] :
        /\ r[0] = <<>>
        /\ \A n \in 1 .. Len(s) :
             r[n] = IF s[n] \in wanted THEN Append(r[n - 1], s[n]) ELSE r[n - 1]
        /\ Select(s, wanted) = r[Len(s)]
  BY LoopOfSelect, Zenon
<1>2. Selects(r, s, wanted)
  BY <1>1 DEF Selects
<1> QED
  BY <1>1, <1>2

LEMMA PlaceOfASelected ==
  ASSUME NEW s \in Seq(Item), NEW wanted, NEW r, Selects(r, s, wanted),
         NEW n \in 1 .. Len(s)
  PROVE  /\ Len(r[n]) \in 0 .. Len(r[Len(s)])
         /\ s[n] \in wanted => /\ Len(r[n]) = Len(r[n - 1]) + 1
                               /\ r[Len(s)][Len(r[n])] = s[n]
         /\ s[n] \notin wanted => r[n] = r[n - 1]
<1> DEFINE N == Len(s)
           T == {m \in 0 .. N : \A j \in 0 .. m :
                   /\ Len(r[j]) <= Len(r[m])
                   /\ \A p \in 1 .. Len(r[j]) : r[m][p] = r[j][p]}
<1>1. N \in Nat /\ n \in 0 .. N /\ n - 1 \in 0 .. N /\ s[n] \in Item
  OBVIOUS
<1>2. \A m \in 0 .. N : r[m] \in Seq(Item) /\ Len(r[m]) \in Nat
  BY DEF Selects
<1>3. 0 \in T
  BY <1>1, <1>2
<1>4. ASSUME NEW m \in 1 .. N, m - 1 \in T
      PROVE  m \in T
  <2>1. m - 1 \in 0 .. N /\ m \in 0 .. N /\ s[m] \in Item
    BY <1>1
  <2>2. r[m] = IF s[m] \in wanted THEN Append(r[m - 1], s[m]) ELSE r[m - 1]
    BY DEF Selects
  <2>3. /\ Len(r[m - 1]) <= Len(r[m])
        /\ \A p \in 1 .. Len(r[m - 1]) : r[m][p] = r[m - 1][p]
    BY <1>2, <2>1, <2>2
  <2>4. ASSUME NEW j \in 0 .. m
        PROVE  /\ Len(r[j]) <= Len(r[m])
               /\ \A p \in 1 .. Len(r[j]) : r[m][p] = r[j][p]
    <3>1. CASE j = m
      BY <1>2, <2>1, <3>1
    <3>2. CASE j # m
      <4>1. j \in 0 .. (m - 1) /\ j \in 0 .. N
        BY <1>1, <3>2
      <4>2. /\ Len(r[j]) <= Len(r[m - 1])
            /\ \A p \in 1 .. Len(r[j]) : r[m - 1][p] = r[j][p]
        BY <1>4, <4>1
      <4> QED
        BY <1>2, <2>1, <2>3, <4>1, <4>2
    <3> QED
      BY <3>1, <3>2
  <2> QED
    BY <2>1, <2>4
<1>5. N \in T
  <2> HIDE DEF T
  <2>1. 0 .. N \subseteq T
    BY <1>1, <1>3, <1>4, AllUpTo
  <2> QED
    BY <1>1, <2>1
<1>6. /\ Len(r[n]) <= Len(r[N])
      /\ \A p \in 1 .. Len(r[n]) : r[N][p] = r[n][p]
  BY <1>1, <1>5
<1>7. r[n] = IF s[n] \in wanted THEN Append(r[n - 1], s[n]) ELSE r[n - 1]
  BY DEF Selects
<1>8. r[n - 1] \in Seq(Item) /\ r[n] \in Seq(Item) /\ Len(r[n]) \in Nat /\ Len(r[N]) \in Nat
  BY <1>1, <1>2
<1>9. s[n] \in wanted => Len(r[n]) = Len(r[n - 1]) + 1 /\ r[n][Len(r[n])] = s[n]
  BY <1>1, <1>7, <1>8
<1>10. s[n] \in wanted => Len(r[n]) \in 1 .. Len(r[n])
  BY <1>8, <1>9
<1> HIDE DEF T
<1> QED
  BY <1>6, <1>7, <1>8, <1>9, <1>10

LEMMA PutSelected ==
  ASSUME NEW s \in Seq(Item), NEW wanted
  PROVE  \E merged \in [0 .. Len(s) -> Maps] :
           /\ merged[0] = <<>>
           /\ \A n \in 1 .. Len(s) :
                merged[n] = IF s[n] \in wanted THEN Put(merged[n - 1], s[n])
                            ELSE merged[n - 1]
           /\ merged[Len(s)] = FoldLeft(Put, <<>>, Select(s, wanted))
<1> DEFINE N == Len(s)
           selected == Select(s, wanted)
<1>1. PICK r : Selects(r, s, wanted) /\ selected = r[N]
  BY Selection
<1>2. N \in Nat /\ selected \in Seq(Item) /\ r[0] = <<>> /\ Len(r[0]) = 0
  BY <1>1 DEF Selects
<1> HIDE DEF selected
<1>3. PICK q \in [0 .. Len(selected) -> Maps] :
        /\ q[0] = <<>>
        /\ \A n \in 1 .. Len(selected) : q[n] = Put(q[n - 1], selected[n])
        /\ FoldLeft(Put, <<>>, selected) = q[Len(selected)]
  BY <1>2, LoopOfPut
<1> DEFINE merged == [n \in 0 .. N |-> q[Len(r[n])]]
<1>4. Len(r[0]) \in 0 .. Len(selected)
  BY <1>1, <1>2
<1>5. ASSUME NEW n \in 1 .. N
      PROVE  /\ merged[n] = IF s[n] \in wanted THEN Put(merged[n - 1], s[n])
                            ELSE merged[n - 1]
             /\ Len(r[n]) \in 0 .. Len(selected)
  <2>1. /\ Len(r[n]) \in 0 .. Len(r[N])
        /\ s[n] \in wanted => /\ Len(r[n]) = Len(r[n - 1]) + 1
                              /\ r[N][Len(r[n])] = s[n]
        /\ s[n] \notin wanted => r[n] = r[n - 1]
    BY <1>1, PlaceOfASelected
  <2>2. n \in 0 .. N /\ n - 1 \in 0 .. N
    BY <1>2
  <2>3. Len(r[n - 1]) \in Nat
    BY <1>1, <2>2 DEF Selects
  <2>4. merged[n] = q[Len(r[n])] /\ merged[n - 1] = q[Len(r[n - 1])]
    BY <2>2
  <2> HIDE DEF merged
  <2>5. CASE s[n] \in wanted
    <3>1. Len(r[n]) \in 1 .. Len(selected) /\ Len(r[n]) - 1 = Len(r[n - 1])
      BY <1>1, <1>2, <2>1, <2>3, <2>5
    <3>2. q[Len(r[n])] = Put(q[Len(r[n - 1])], s[n])
      BY <1>1, <1>3, <2>1, <2>5, <3>1
    <3> QED
      BY <1>1, <2>1, <2>4, <2>5, <3>2
  <2>6. CASE s[n] \notin wanted
    BY <1>1, <2>1, <2>4, <2>6
  <2> QED
    BY <2>5, <2>6
<1>6. \A n \in 0 .. N : Len(r[n]) \in 0 .. Len(selected)
  <2>1. \A n \in 0 .. N : n = 0 \/ n \in 1 .. N
    BY <1>2
  <2> HIDE DEF merged
  <2> QED
    BY <1>4, <1>5, <2>1
<1>7. merged \in [0 .. N -> Maps] /\ merged[0] = <<>>
  BY <1>2, <1>3, <1>6
<1>8. merged[N] = FoldLeft(Put, <<>>, selected)
  BY <1>1, <1>2, <1>3
<1> HIDE DEF merged
<1> QED
  BY <1>5, <1>7, <1>8 DEF selected

MergedInRounds(s, wanted, base) ==
  \E merged \in [0 .. Len(s) -> Maps] :
    /\ merged[0] = base
    /\ \A n \in 1 .. Len(s) :
         merged[n] = IF s[n] \in wanted THEN PutLocalized(merged[n - 1], s[n])
                     ELSE merged[n - 1]
    /\ merged[Len(s)] = PutAll(base, Select(s, wanted))

LEMMA PutLocalizedSelected ==
  ASSUME NEW s \in Seq(Item), NEW wanted, NEW base \in Maps
  PROVE  MergedInRounds(s, wanted, base)
<1> DEFINE N == Len(s)
           selected == Select(s, wanted)
<1>1. PICK r : Selects(r, s, wanted) /\ selected = r[N]
  BY Selection
<1>2. N \in Nat /\ selected \in Seq(Item) /\ r[0] = <<>> /\ Len(r[0]) = 0
  BY <1>1 DEF Selects
<1> HIDE DEF selected
<1>3. PICK q \in [0 .. Len(selected) -> Maps] :
        /\ q[0] = base
        /\ \A n \in 1 .. Len(selected) : q[n] = PutLocalized(q[n - 1], selected[n])
        /\ PutAll(base, selected) = q[Len(selected)]
  BY <1>2, LoopOfPutLocalized
<1> DEFINE merged == [n \in 0 .. N |-> q[Len(r[n])]]
<1>4. Len(r[0]) \in 0 .. Len(selected)
  BY <1>1, <1>2
<1>5. ASSUME NEW n \in 1 .. N
      PROVE  /\ merged[n] = IF s[n] \in wanted THEN PutLocalized(merged[n - 1], s[n])
                            ELSE merged[n - 1]
             /\ Len(r[n]) \in 0 .. Len(selected)
  <2>1. /\ Len(r[n]) \in 0 .. Len(r[N])
        /\ s[n] \in wanted => /\ Len(r[n]) = Len(r[n - 1]) + 1
                              /\ r[N][Len(r[n])] = s[n]
        /\ s[n] \notin wanted => r[n] = r[n - 1]
    BY <1>1, PlaceOfASelected
  <2>2. n \in 0 .. N /\ n - 1 \in 0 .. N
    BY <1>2
  <2>3. Len(r[n - 1]) \in Nat
    BY <1>1, <2>2 DEF Selects
  <2>4. merged[n] = q[Len(r[n])] /\ merged[n - 1] = q[Len(r[n - 1])]
    BY <2>2
  <2> HIDE DEF merged
  <2>5. CASE s[n] \in wanted
    <3>1. Len(r[n]) \in 1 .. Len(selected) /\ Len(r[n]) - 1 = Len(r[n - 1])
      BY <1>1, <1>2, <2>1, <2>3, <2>5
    <3>2. q[Len(r[n])] = PutLocalized(q[Len(r[n - 1])], s[n])
      BY <1>1, <1>3, <2>1, <2>5, <3>1
    <3> QED
      BY <1>1, <2>1, <2>4, <2>5, <3>2
  <2>6. CASE s[n] \notin wanted
    BY <1>1, <2>1, <2>4, <2>6
  <2> QED
    BY <2>5, <2>6
<1>6. \A n \in 0 .. N : Len(r[n]) \in 0 .. Len(selected)
  <2>1. \A n \in 0 .. N : n = 0 \/ n \in 1 .. N
    BY <1>2
  <2> HIDE DEF merged
  <2> QED
    BY <1>4, <1>5, <2>1
<1>7. merged \in [0 .. N -> Maps] /\ merged[0] = base
  BY <1>2, <1>3, <1>6
<1>8. merged[N] = PutAll(base, selected)
  BY <1>1, <1>2, <1>3
<1> HIDE DEF merged
<1> QED
  BY <1>5, <1>7, <1>8 DEF selected, MergedInRounds

-----------------------------------------------------------------------------
(***************************************************************************)
(* The closed form, an item at a time: an item that inherits from what a   *)
(* chain describes is what the chain with that item describes.             *)
(***************************************************************************)
LEMMA LastSetOfOne ==
  ASSUME NEW p \in Nat, NEW values, DOMAIN values = {p}, NEW unset
  PROVE  LastSet(values, unset) = values[p]
<1>1. CASE values[p] = unset
  <2>1. {n \in DOMAIN values : values[n] # unset} = {}
    BY <1>1
  <2> QED
    BY <1>1, <2>1 DEF LastSet
<1>2. CASE values[p] # unset
  <2>1. {n \in DOMAIN values : values[n] # unset} = {p}
    BY <1>2
  <2>2. Max({p}) = p
    BY MaxOfNumbers
  <2> QED
    BY <2>1, <2>2 DEF LastSet
<1> QED
  BY <1>1, <1>2

\* More values: one at n, after the others.
Extends(more, values, n) ==
  /\ DOMAIN values \subseteq 0 .. (n - 1)
  /\ DOMAIN more = DOMAIN values \cup {n}
  /\ \A m \in DOMAIN values : more[m] = values[m]

LEMMA LastSetGrows ==
  ASSUME NEW n \in Nat, NEW values, NEW more, NEW unset, Extends(more, values, n)
  PROVE  LastSet(more, unset) =
           IF more[n] = unset THEN LastSet(values, unset) ELSE more[n]
<1> DEFINE old == {m \in DOMAIN values : values[m] # unset}
           new == {m \in DOMAIN more : more[m] # unset}
<1>0. /\ DOMAIN values \subseteq 0 .. (n - 1) /\ DOMAIN more = DOMAIN values \cup {n}
      /\ \A m \in DOMAIN values : more[m] = values[m]
  BY DEF Extends
<1>1. \A m \in DOMAIN values : m \in 0 .. n /\ m < n
  BY <1>0
<1>2. LastSet(values, unset) = IF old = {} THEN unset ELSE values[Max(old)]
  BY DEF LastSet
<1>3. LastSet(more, unset) = IF new = {} THEN unset ELSE more[Max(new)]
  BY DEF LastSet
<1>4. CASE more[n] = unset
  <2>1. new = old
    BY <1>0, <1>1, <1>4
  <2>2. old # {} => Max(old) \in old
    <3>1. old \subseteq 0 .. n
      BY <1>1
    <3> QED
      BY <3>1, MaxOfNumbers
  <2>3. old # {} => more[Max(old)] = values[Max(old)]
    BY <1>0, <2>2
  <2> QED
    BY <1>2, <1>3, <1>4, <2>1, <2>3
<1>5. CASE more[n] # unset
  <2>1. n \in new /\ new \subseteq 0 .. n
    BY <1>0, <1>1, <1>5
  <2>2. Max(new) \in new /\ n <= Max(new)
    <3> HIDE DEF new
    <3> QED
      BY <2>1, MaxOfNumbers
  <2>3. Max(new) = n
    <3>1. Max(new) \in 0 .. n
      BY <2>1, <2>2
    <3> QED
      BY <2>2, <3>1
  <2> QED
    BY <1>3, <1>5, <2>1, <2>3
<1> QED
  BY <1>4, <1>5

\* An item has the fields that a closed form d says, and a colour if it has
\* one in a map.
Fits(i, d) ==
  /\ i.key = d.key /\ i.value = d.value /\ i.label = d.label
  /\ i.description = d.description /\ i.order = d.order /\ i.status = d.status
  /\ i.color = d.color
  /\ i.color = Blank => i.ui = Blank

LEMMA FieldsOfNormalized ==
  ASSUME NEW i \in Item, NEW j, j = NormalizeDictionaryItem(i)
  PROVE  /\ j.key = i.key /\ j.value = Or(i.value, KeyAsWord[i.key])
         /\ j.label = Or(i.label, j.value) /\ j.description = i.description
         /\ j.order = i.order /\ j.status = Or(i.status, "active")
         /\ j.ui = Or(i.ui, i.config) /\ j.color = Or(i.color, j.ui)
<1>1. /\ j.key = i.key /\ j.value = Or(i.value, KeyAsWord[i.key])
      /\ j.label = Or(i.label, j.value) /\ j.description = i.description
      /\ j.order = i.order /\ j.status = Or(i.status, "active")
      /\ j.ui = Or(i.ui, i.config)
      /\ j.color = Or(i.color, Or(Or(i.ui, i.config), i.config))
  BY DEF NormalizeDictionaryItem, Item
<1>2. Or(Or(i.ui, i.config), i.config) = Or(i.ui, i.config)
  BY DEF Or
<1> QED
  BY <1>1, <1>2

LEMMA FieldsOfAnHeir ==
  ASSUME NEW i \in Item, NEW base \in Item, NEW j, j = Inherit(i, base)
  PROVE  /\ j.key = i.key /\ j.value = Or(i.value, base.value) /\ j.label = i.label
         /\ j.description = Or(i.description, base.description)
         /\ j.order = IF i.order = 0 THEN base.order ELSE i.order
         /\ j.status = Or(i.status, base.status) /\ j.color = Or(i.color, base.color)
         /\ j.ui = Or(i.ui, base.ui) /\ j.config = i.config
BY DEF Inherit, Item

LEMMA OneIsDescribed ==
  ASSUME NEW p \in Nat, NEW chain, DOMAIN chain = {p}, chain[p] \in Item,
         NEW k \in Keys, chain[p].key = k
  PROVE  Fits(NormalizeDictionaryItem(chain[p]), Described(k, chain))
<1> DEFINE i == chain[p]
           j == NormalizeDictionaryItem(i)
<1>1. /\ j.key = i.key /\ j.value = Or(i.value, KeyAsWord[i.key])
      /\ j.label = Or(i.label, j.value) /\ j.description = i.description
      /\ j.order = i.order /\ j.status = Or(i.status, "active")
      /\ j.ui = Or(i.ui, i.config) /\ j.color = Or(i.color, j.ui)
  BY FieldsOfNormalized
<1> HIDE DEF j
<1>2. /\ LastSet([n \in DOMAIN chain |-> chain[n].value], Blank) = i.value
      /\ LastSet([n \in DOMAIN chain |-> chain[n].description], Blank) = i.description
      /\ LastSet([n \in DOMAIN chain |-> chain[n].order], 0) = i.order
      /\ LastSet([n \in DOMAIN chain |-> chain[n].status], Blank) = i.status
      /\ LastSet([n \in DOMAIN chain |-> chain[n].color], Blank) = i.color
  BY LastSetOfOne
<1>3. Max(DOMAIN chain) = p
  BY MaxOfNumbers
<1>4. Colour(chain) = j.color
  <2> DEFINE mapped == {n \in DOMAIN chain : Or(chain[n].ui, chain[n].config) # Blank}
  <2>1. mapped = IF Or(i.ui, i.config) = Blank THEN {} ELSE {p}
    OBVIOUS
  <2>2. Min({p}) = p
    BY MinOfNumbers
  <2> HIDE DEF mapped
  <2>3. Colour(chain) = IF i.color # Blank \/ mapped = {} THEN i.color
                        ELSE Or(chain[Min(mapped)].ui, chain[Min(mapped)].config)
    BY <1>2 DEF Colour, mapped
  <2> QED
    BY <1>1, <2>1, <2>2, <2>3 DEF Or
<1>5. j.color = Blank => j.ui = Blank
  BY <1>1 DEF Or
<1> QED
  BY <1>1, <1>2, <1>3, <1>4, <1>5 DEF Fits, Described, j

LEMMA MoreIsDescribed ==
  ASSUME NEW n \in Nat, NEW chain, NEW more, NEW base \in Item, NEW k \in Keys,
         Extends(more, chain, n), DOMAIN chain # {},
         more[n] \in Item, more[n].key = k,
         Fits(base, Described(k, chain))
  PROVE  Fits(NormalizeDictionaryItem(Inherit(more[n], base)), Described(k, more))
<1> DEFINE i == more[n]
           h == Inherit(i, base)
           j == NormalizeDictionaryItem(h)
           mapped(c) == {m \in DOMAIN c : Or(c[m].ui, c[m].config) # Blank}
<1>1. /\ h \in Item /\ h.key = k /\ h.value = Or(i.value, base.value) /\ h.label = i.label
      /\ h.description = Or(i.description, base.description)
      /\ h.order = IF i.order = 0 THEN base.order ELSE i.order
      /\ h.status = Or(i.status, base.status) /\ h.color = Or(i.color, base.color)
      /\ h.ui = Or(i.ui, base.ui) /\ h.config = i.config
  <2>1. h \in Item
    BY ItemsStayItems
  <2> QED
    BY <2>1, FieldsOfAnHeir
<1> HIDE DEF h
<1>2. /\ j.key = h.key /\ j.value = Or(h.value, KeyAsWord[h.key])
      /\ j.label = Or(h.label, j.value) /\ j.description = h.description
      /\ j.order = h.order /\ j.status = Or(h.status, "active")
      /\ j.ui = Or(h.ui, h.config) /\ j.color = Or(h.color, j.ui)
  BY <1>1, FieldsOfNormalized
<1> HIDE DEF j
<1> DEFINE V(c) == LastSet([m \in DOMAIN c |-> c[m].value], Blank)
           D(c) == LastSet([m \in DOMAIN c |-> c[m].description], Blank)
           O(c) == LastSet([m \in DOMAIN c |-> c[m].order], 0)
           S(c) == LastSet([m \in DOMAIN c |-> c[m].status], Blank)
           C(c) == LastSet([m \in DOMAIN c |-> c[m].color], Blank)
<1>0. /\ DOMAIN chain \subseteq 0 .. (n - 1) /\ DOMAIN more = DOMAIN chain \cup {n}
      /\ \A m \in DOMAIN chain : more[m] = chain[m]
  BY DEF Extends
<1>3. n \in DOMAIN more
  BY <1>0
<1>4. V(more) = Or(i.value, V(chain))
  <2> DEFINE f == [m \in DOMAIN chain |-> chain[m].value]
             g == [m \in DOMAIN more |-> more[m].value]
  <2>1. Extends(g, f, n) /\ g[n] = i.value
    BY <1>0, <1>3 DEF Extends
  <2>2. LastSet(g, Blank) = IF g[n] = Blank THEN LastSet(f, Blank) ELSE g[n]
    <3> HIDE DEF f, g
    <3> QED
      BY <2>1, LastSetGrows
  <2> QED
    BY <2>1, <2>2 DEF Or
<1>5. D(more) = Or(i.description, D(chain))
  <2> DEFINE f == [m \in DOMAIN chain |-> chain[m].description]
             g == [m \in DOMAIN more |-> more[m].description]
  <2>1. Extends(g, f, n) /\ g[n] = i.description
    BY <1>0, <1>3 DEF Extends
  <2>2. LastSet(g, Blank) = IF g[n] = Blank THEN LastSet(f, Blank) ELSE g[n]
    <3> HIDE DEF f, g
    <3> QED
      BY <2>1, LastSetGrows
  <2> QED
    BY <2>1, <2>2 DEF Or
<1>6. O(more) = IF i.order = 0 THEN O(chain) ELSE i.order
  <2> DEFINE f == [m \in DOMAIN chain |-> chain[m].order]
             g == [m \in DOMAIN more |-> more[m].order]
  <2>1. Extends(g, f, n) /\ g[n] = i.order
    BY <1>0, <1>3 DEF Extends
  <2>2. LastSet(g, 0) = IF g[n] = 0 THEN LastSet(f, 0) ELSE g[n]
    <3> HIDE DEF f, g
    <3> QED
      BY <2>1, LastSetGrows
  <2> QED
    BY <2>1, <2>2 DEF Or
<1>7. S(more) = Or(i.status, S(chain))
  <2> DEFINE f == [m \in DOMAIN chain |-> chain[m].status]
             g == [m \in DOMAIN more |-> more[m].status]
  <2>1. Extends(g, f, n) /\ g[n] = i.status
    BY <1>0, <1>3 DEF Extends
  <2>2. LastSet(g, Blank) = IF g[n] = Blank THEN LastSet(f, Blank) ELSE g[n]
    <3> HIDE DEF f, g
    <3> QED
      BY <2>1, LastSetGrows
  <2> QED
    BY <2>1, <2>2 DEF Or
<1>8. C(more) = Or(i.color, C(chain))
  <2> DEFINE f == [m \in DOMAIN chain |-> chain[m].color]
             g == [m \in DOMAIN more |-> more[m].color]
  <2>1. Extends(g, f, n) /\ g[n] = i.color
    BY <1>0, <1>3 DEF Extends
  <2>2. LastSet(g, Blank) = IF g[n] = Blank THEN LastSet(f, Blank) ELSE g[n]
    <3> HIDE DEF f, g
    <3> QED
      BY <2>1, LastSetGrows
  <2> QED
    BY <2>1, <2>2 DEF Or
<1>9. Max(DOMAIN more) = n
  <2>1. DOMAIN more \subseteq 0 .. n /\ DOMAIN more # {}
    BY <1>0
  <2>2. Max(DOMAIN more) \in 0 .. n /\ n <= Max(DOMAIN more)
    BY <1>3, <2>1, MaxOfNumbers
  <2> QED
    BY <2>2
<1>10. Colour(chain) = IF C(chain) # Blank \/ mapped(chain) = {} THEN C(chain)
                       ELSE Or(chain[Min(mapped(chain))].ui, chain[Min(mapped(chain))].config)
  BY DEF Colour
<1>11. Colour(more) = IF C(more) # Blank \/ mapped(more) = {} THEN C(more)
                      ELSE Or(more[Min(mapped(more))].ui, more[Min(mapped(more))].config)
  BY DEF Colour
<1>12. /\ base.key = k /\ base.value = Or(V(chain), KeyAsWord[k])
       /\ base.description = D(chain) /\ base.order = O(chain)
       /\ base.status = Or(S(chain), "active") /\ base.color = Colour(chain)
       /\ base.color = Blank => base.ui = Blank
  BY DEF Fits, Described
<1>13. /\ Described(k, more).key = k
       /\ Described(k, more).value = Or(V(more), KeyAsWord[k])
       /\ Described(k, more).label = Or(i.label, Or(V(more), KeyAsWord[k]))
       /\ Described(k, more).description = D(more) /\ Described(k, more).order = O(more)
       /\ Described(k, more).status = Or(S(more), "active")
       /\ Described(k, more).color = Colour(more)
  BY <1>9 DEF Described
<1> HIDE DEF V, D, O, S, C
<1>14. j.key = k /\ j.value = Or(V(more), KeyAsWord[k])
  BY <1>1, <1>2, <1>4, <1>12 DEF Or
<1>15. j.label = Or(i.label, Or(V(more), KeyAsWord[k]))
  BY <1>1, <1>2, <1>14
<1>16. j.description = D(more) /\ j.order = O(more) /\ j.status = Or(S(more), "active")
  BY <1>1, <1>2, <1>5, <1>6, <1>7, <1>12 DEF Or
<1>17. j.color = Colour(more)
  <2>1. \A m \in mapped(chain) : m \in mapped(more) /\ more[m] = chain[m] /\ m < n
    BY <1>0
  <2>2. n \in mapped(more) <=> Or(i.ui, i.config) # Blank
    BY <1>3
  <2>3. \A m \in mapped(more) : m = n \/ m \in mapped(chain)
    BY <1>0
  <2>4. mapped(chain) # {} => Min(mapped(more)) = Min(mapped(chain))
    <3> SUFFICES ASSUME mapped(chain) # {} PROVE Min(mapped(more)) = Min(mapped(chain))
      OBVIOUS
    <3>1. mapped(chain) \subseteq Nat /\ mapped(more) \subseteq Nat /\ mapped(more) # {}
      BY <1>0, <2>1
    <3> HIDE DEF mapped
    <3>2. /\ Min(mapped(chain)) \in mapped(chain)
          /\ \A m \in mapped(chain) : Min(mapped(chain)) <= m
      BY <3>1, MinOfNumbers
    <3>3. /\ Min(mapped(more)) \in mapped(more)
          /\ \A m \in mapped(more) : Min(mapped(more)) <= m
      BY <3>1, MinOfNumbers
    <3>4. Min(mapped(more)) <= Min(mapped(chain)) /\ Min(mapped(chain)) < n
      BY <2>1, <3>2, <3>3
    <3>5. Min(mapped(more)) \in mapped(chain)
      BY <2>3, <3>1, <3>2, <3>3, <3>4
    <3>6. Min(mapped(chain)) <= Min(mapped(more))
      BY <3>2, <3>5
    <3> QED
      BY <3>1, <3>2, <3>3, <3>4, <3>6
  <2>5. mapped(chain) # {} => Min(mapped(chain)) \in mapped(chain)
    <3>1. mapped(chain) \subseteq Nat
      BY <1>0
    <3> HIDE DEF mapped
    <3> QED
      BY <3>1, MinOfNumbers
  <2>6. mapped(chain) = {} /\ n \in mapped(more) => Min(mapped(more)) = n
    <3>1. mapped(chain) = {} /\ n \in mapped(more) => mapped(more) = {n}
      BY <2>3
    <3>2. Min({n}) = n
      BY MinOfNumbers
    <3> HIDE DEF mapped
    <3> QED
      BY <3>1, <3>2
  <2> HIDE DEF mapped
  <2>7. j.color = Or(Or(i.color, base.color), Or(Or(i.ui, base.ui), i.config))
    BY <1>1, <1>2
  <2>8. CASE i.color # Blank
    BY <1>8, <1>11, <2>7, <2>8 DEF Or
  <2>9. CASE i.color = Blank /\ C(chain) # Blank
    BY <1>8, <1>10, <1>11, <1>12, <2>7, <2>9 DEF Or
  <2>10. CASE i.color = Blank /\ C(chain) = Blank /\ mapped(chain) # {}
    <3>1. base.color = Or(chain[Min(mapped(chain))].ui, chain[Min(mapped(chain))].config)
      BY <1>10, <1>12, <2>10
    <3>2. base.color # Blank
      BY <2>5, <2>10, <3>1 DEF mapped
    <3>3. j.color = base.color
      BY <2>7, <2>10, <3>2 DEF Or
    <3>4. Colour(more) = Or(more[Min(mapped(chain))].ui, more[Min(mapped(chain))].config)
      BY <1>8, <1>11, <2>1, <2>4, <2>5, <2>10 DEF Or
    <3> QED
      BY <2>1, <2>5, <2>10, <3>1, <3>3, <3>4
  <2>11. CASE i.color = Blank /\ C(chain) = Blank /\ mapped(chain) = {}
    <3>1. base.color = Blank /\ base.ui = Blank
      BY <1>10, <1>12, <2>11
    <3>2. j.color = Or(i.ui, i.config)
      BY <2>7, <2>11, <3>1 DEF Or
    <3>3. CASE n \in mapped(more)
      BY <1>8, <1>11, <2>6, <2>11, <3>2, <3>3 DEF Or
    <3>4. CASE n \notin mapped(more)
      <4>1. mapped(more) = {}
        BY <2>3, <2>11, <3>4
      <4> QED
        BY <1>8, <1>11, <2>2, <2>11, <3>2, <3>4, <4>1 DEF Or
    <3> QED
      BY <3>3, <3>4
  <2> QED
    BY <2>8, <2>9, <2>10, <2>11
<1>18. j.color = Blank => j.ui = Blank
  BY <1>2 DEF Or
<1> QED
  BY <1>13, <1>14, <1>15, <1>16, <1>17, <1>18 DEF Fits, j, h

-----------------------------------------------------------------------------
(***************************************************************************)
(* The merge: after every round of its two loops the map has the keys that *)
(* are described so far, and what fits their description.                  *)
(***************************************************************************)
Base(its, loc) == FoldLeft(Put, <<>>, Defaults(its, loc))

Merged(its, loc) ==
  PutAll(Base(its, loc), Select(its, InLocale(its, loc)))

IsDefault(its, loc, n) ==
  \/ its[n] \in InNoLocale(its)
  \/ InNoLocale(its) \cup InLocale(its, loc) = {}

DefaultsUpTo(its, loc, k, n) == {m \in DefaultsFor(its, loc, k) : m <= n}

LEMMA RoundsOfDefaults ==
  ASSUME NEW its \in Seq(Item), NEW loc
  PROVE  \E merged \in [0 .. Len(its) -> Maps] :
           /\ merged[0] = <<>>
           /\ \A n \in 1 .. Len(its) :
                merged[n] = IF IsDefault(its, loc, n) THEN Put(merged[n - 1], its[n])
                            ELSE merged[n - 1]
           /\ merged[Len(its)] = Base(its, loc)
<1>1. CASE InNoLocale(its) \cup InLocale(its, loc) # {}
  <2>1. PICK merged \in [0 .. Len(its) -> Maps] :
          /\ merged[0] = <<>>
          /\ \A n \in 1 .. Len(its) :
               merged[n] = IF its[n] \in InNoLocale(its) THEN Put(merged[n - 1], its[n])
                           ELSE merged[n - 1]
          /\ merged[Len(its)] = FoldLeft(Put, <<>>, Select(its, InNoLocale(its)))
    BY PutSelected, Zenon
  <2>2. Base(its, loc) = FoldLeft(Put, <<>>, Select(its, InNoLocale(its)))
    BY <1>1, Zenon DEF Base, Defaults
  <2>3. \A n \in 1 .. Len(its) : IsDefault(its, loc, n) <=> its[n] \in InNoLocale(its)
    BY <1>1 DEF IsDefault
  <2> QED
    BY <2>1, <2>2, <2>3, Zenon
<1>2. CASE InNoLocale(its) \cup InLocale(its, loc) = {}
  <2>1. PICK merged \in [0 .. Len(its) -> Maps] :
          /\ merged[0] = <<>>
          /\ \A n \in 1 .. Len(its) : merged[n] = Put(merged[n - 1], its[n])
          /\ FoldLeft(Put, <<>>, its) = merged[Len(its)]
    BY LoopOfPut, Zenon
  <2>2. Base(its, loc) = FoldLeft(Put, <<>>, its)
    BY <1>2, Zenon DEF Base, Defaults
  <2>3. \A n \in 1 .. Len(its) : IsDefault(its, loc, n)
    BY <1>2 DEF IsDefault
  <2> QED
    BY <2>1, <2>2, <2>3, Zenon
<1> QED
  BY <1>1, <1>2

LEMMA KeysOfPut ==
  ASSUME NEW merged \in Maps, NEW i \in Item, NEW k \in Keys
  PROVE  /\ i.key = k => /\ k \in DOMAIN Put(merged, i)
                         /\ Put(merged, i)[k] = NormalizeDictionaryItem(i)
         /\ i.key # k => /\ k \in DOMAIN Put(merged, i) <=> k \in DOMAIN merged
                         /\ k \in DOMAIN merged => Put(merged, i)[k] = merged[k]
BY BlankIsNothing DEF Put

LEMMA MaxOfMore ==
  ASSUME NEW n \in Nat, NEW T, T \subseteq 0 .. n, n \in T
  PROVE  Max(T) = n
<1>1. Max(T) \in T /\ n <= Max(T)
  BY MaxOfNumbers
<1>2. Max(T) \in 0 .. n
  BY <1>1
<1> QED
  BY <1>1, <1>2

LEMMA BaseIsTheLastDefaults ==
  ASSUME NEW its \in Seq(Item), NEW loc, NEW k \in Keys
  PROVE  /\ Base(its, loc) \in Maps
         /\ k \in DOMAIN Base(its, loc) <=> DefaultsFor(its, loc, k) # {}
         /\ DefaultsFor(its, loc, k) # {} =>
              Base(its, loc)[k] =
                NormalizeDictionaryItem(its[Max(DefaultsFor(its, loc, k))])
<1> DEFINE N == Len(its)
           F(n) == DefaultsUpTo(its, loc, k, n)
<1>1. PICK merged \in [0 .. N -> Maps] :
        /\ merged[0] = <<>>
        /\ \A n \in 1 .. N :
             merged[n] = IF IsDefault(its, loc, n) THEN Put(merged[n - 1], its[n])
                         ELSE merged[n - 1]
        /\ merged[N] = Base(its, loc)
  BY RoundsOfDefaults, Zenon
<1>2. N \in Nat /\ DOMAIN its = 1 .. N /\ \A n \in 1 .. N : its[n] \in Item
  OBVIOUS
<1>3. DefaultsFor(its, loc, k) = {n \in 1 .. N : its[n].key = k /\ IsDefault(its, loc, n)}
  BY <1>2 DEF DefaultsFor, IsDefault
<1> DEFINE T == {n \in 0 .. N :
                   /\ k \in DOMAIN merged[n] <=> F(n) # {}
                   /\ F(n) # {} => merged[n][k] = NormalizeDictionaryItem(its[Max(F(n))])}
<1>4. 0 \in T
  <2>1. F(0) = {}
    BY <1>3 DEF DefaultsUpTo
  <2>2. k \notin DOMAIN merged[0]
    BY <1>1, EmptyMap
  <2> QED
    BY <1>2, <2>1, <2>2
<1>5. ASSUME NEW n \in 1 .. N, n - 1 \in T
      PROVE  n \in T
  <2>1. n \in Nat /\ n \in 0 .. N /\ n - 1 \in 0 .. N /\ its[n] \in Item /\ merged[n - 1] \in Maps
    BY <1>1, <1>2
  <2>2. /\ k \in DOMAIN merged[n - 1] <=> F(n - 1) # {}
        /\ F(n - 1) # {} => merged[n - 1][k] = NormalizeDictionaryItem(its[Max(F(n - 1))])
    BY <1>5
  <2>3. merged[n] = IF IsDefault(its, loc, n) THEN Put(merged[n - 1], its[n])
                    ELSE merged[n - 1]
    BY <1>1
  <2>4. CASE IsDefault(its, loc, n) /\ its[n].key = k
    <3>1. n \in F(n) /\ F(n) \subseteq 0 .. n
      BY <1>2, <1>3, <2>1, <2>4 DEF DefaultsUpTo
    <3>2. Max(F(n)) = n
      <4> HIDE DEF F
      <4> QED
        BY <2>1, <3>1, MaxOfMore
    <3>3. k \in DOMAIN merged[n] /\ merged[n][k] = NormalizeDictionaryItem(its[n])
      BY <2>1, <2>3, <2>4, KeysOfPut
    <3> QED
      BY <2>1, <3>1, <3>2, <3>3
  <2>5. CASE ~(IsDefault(its, loc, n) /\ its[n].key = k)
    <3>1. F(n) = F(n - 1)
      BY <1>2, <1>3, <2>1, <2>5 DEF DefaultsUpTo
    <3>2. /\ k \in DOMAIN merged[n] <=> k \in DOMAIN merged[n - 1]
          /\ k \in DOMAIN merged[n - 1] => merged[n][k] = merged[n - 1][k]
      BY <2>1, <2>3, <2>5, KeysOfPut
    <3> HIDE DEF F
    <3> QED
      BY <2>1, <2>2, <3>1, <3>2
  <2> QED
    BY <2>4, <2>5
<1>6. N \in T
  <2> HIDE DEF T
  <2>1. 0 .. N \subseteq T
    BY <1>2, <1>4, <1>5, AllUpTo
  <2> QED
    BY <1>2, <2>1
<1>7. F(N) = DefaultsFor(its, loc, k)
  BY <1>2, <1>3 DEF DefaultsUpTo
<1>8. merged[N] \in Maps
  BY <1>1, <1>2
<1> QED
  BY <1>1, <1>6, <1>7, <1>8

LEMMA MergedIsAMap ==
  ASSUME NEW its \in Seq(Item), NEW loc
  PROVE  Merged(its, loc) \in Maps
<1>1. PICK r \in [0 .. Len(its) -> Maps] : r[Len(its)] = Base(its, loc)
  BY RoundsOfDefaults, Zenon
<1>2. Base(its, loc) \in Maps
  BY <1>1
<1>3. MergedInRounds(its, InLocale(its, loc), Base(its, loc))
  BY <1>2, PutLocalizedSelected
<1>4. PICK q \in [0 .. Len(its) -> Maps] : q[Len(its)] = Merged(its, loc)
  BY <1>3, Zenon DEF MergedInRounds, Merged
<1> QED
  BY <1>4

ChainUpTo(its, loc, k, n) ==
  [m \in {p \in DOMAIN Chain(its, loc, k) : p <= n} |-> Chain(its, loc, k)[m]]

IsChain(its, loc, k) ==
  /\ DefaultsFor(its, loc, k) \subseteq DOMAIN its
  /\ DefaultsFor(its, loc, k) # {} =>
       /\ Max(DefaultsFor(its, loc, k)) \in DefaultsFor(its, loc, k)
       /\ its[Max(DefaultsFor(its, loc, k))] \in Item
       /\ its[Max(DefaultsFor(its, loc, k))].key = k
  /\ DOMAIN Chain(its, loc, k) =
       {n \in 1 .. Len(its) : its[n].key = k /\ its[n] \in InLocale(its, loc)}
         \cup IF DefaultsFor(its, loc, k) = {} THEN {} ELSE {0}
  /\ \A n \in DOMAIN Chain(its, loc, k) :
       Chain(its, loc, k)[n] =
         its[IF n = 0 THEN Max(DefaultsFor(its, loc, k)) ELSE n]

LEMMA ChainTyped ==
  ASSUME NEW its \in Seq(Item), NEW loc, NEW k \in Keys
  PROVE  IsChain(its, loc, k)
<1> DEFINE D == DefaultsFor(its, loc, k)
<1>1. D \subseteq DOMAIN its /\ \A n \in D : its[n].key = k /\ its[n] \in Item
  BY DEF DefaultsFor
<1>2. D # {} => Max(D) \in D
  <2>1. D \subseteq 0 .. Len(its) /\ Len(its) \in Nat
    BY <1>1
  <2> HIDE DEF D
  <2> QED
    BY <2>1, MaxOfNumbers
<1> HIDE DEF D
<1>3. /\ DOMAIN Chain(its, loc, k) =
           {n \in 1 .. Len(its) : its[n].key = k /\ its[n] \in InLocale(its, loc)}
             \cup IF D = {} THEN {} ELSE {0}
      /\ \A n \in DOMAIN Chain(its, loc, k) :
           Chain(its, loc, k)[n] = its[IF n = 0 THEN Max(D) ELSE n]
  BY DEF Chain, D
<1> QED
  BY <1>1, <1>2, <1>3 DEF D, IsChain

LEMMA MergedIsDescribed ==
  ASSUME NEW its \in Seq(Item), NEW loc, NEW k \in Keys
  PROVE  /\ Merged(its, loc) \in Maps
         /\ k \in DOMAIN Merged(its, loc) <=> DOMAIN Chain(its, loc, k) # {}
         /\ k \in DOMAIN Merged(its, loc) =>
              Fits(Merged(its, loc)[k], Described(k, Chain(its, loc, k)))
<1> DEFINE N == Len(its)
           wanted == InLocale(its, loc)
           D == DefaultsFor(its, loc, k)
           C(n) == ChainUpTo(its, loc, k, n)
<1>1. /\ Base(its, loc) \in Maps
      /\ k \in DOMAIN Base(its, loc) <=> D # {}
      /\ D # {} => Base(its, loc)[k] = NormalizeDictionaryItem(its[Max(D)])
  BY BaseIsTheLastDefaults
<1>2. PICK merged \in [0 .. N -> Maps] :
        /\ merged[0] = Base(its, loc)
        /\ \A n \in 1 .. N :
             merged[n] = IF its[n] \in wanted THEN PutLocalized(merged[n - 1], its[n])
                         ELSE merged[n - 1]
        /\ merged[N] = Merged(its, loc)
  <2>1. MergedInRounds(its, wanted, Base(its, loc))
    <3> HIDE DEF wanted
    <3> QED
      BY <1>1, PutLocalizedSelected
  <2> QED
    BY <2>1, Zenon DEF Merged, MergedInRounds
<1>3. N \in Nat /\ DOMAIN its = 1 .. N /\ \A n \in 1 .. N : its[n] \in Item
  OBVIOUS
<1>4. /\ D \subseteq DOMAIN its
      /\ D # {} => Max(D) \in D /\ its[Max(D)] \in Item /\ its[Max(D)].key = k
      /\ DOMAIN Chain(its, loc, k) =
           {n \in 1 .. N : its[n].key = k /\ its[n] \in wanted}
             \cup IF D = {} THEN {} ELSE {0}
      /\ \A n \in DOMAIN Chain(its, loc, k) :
           Chain(its, loc, k)[n] = its[IF n = 0 THEN Max(D) ELSE n]
  BY ChainTyped DEF IsChain
<1> HIDE DEF wanted, D
<1> DEFINE T == {n \in 0 .. N :
                   /\ k \in DOMAIN merged[n] <=> DOMAIN C(n) # {}
                   /\ k \in DOMAIN merged[n] => Fits(merged[n][k], Described(k, C(n)))}
<1>5. \A n \in Nat : /\ DOMAIN C(n) = {p \in DOMAIN Chain(its, loc, k) : p <= n}
                     /\ \A p \in DOMAIN C(n) : C(n)[p] = its[IF p = 0 THEN Max(D) ELSE p]
  BY <1>4 DEF ChainUpTo
<1>6. 0 \in T
  <2>0. /\ \A p \in DOMAIN Chain(its, loc, k) : p \in Nat
        /\ 0 \in DOMAIN Chain(its, loc, k) <=> D # {}
    BY <1>3, <1>4
  <2>1. DOMAIN C(0) = IF D = {} THEN {} ELSE {0}
    <3>1. DOMAIN C(0) = {p \in DOMAIN Chain(its, loc, k) : p <= 0}
      BY <1>5
    <3> HIDE DEF C
    <3>2. \A p \in DOMAIN C(0) : p = 0
      BY <2>0, <3>1
    <3>3. 0 \in DOMAIN C(0) <=> D # {}
      BY <2>0, <3>1
    <3> QED
      BY <3>2, <3>3
  <2>2. D # {} => C(0)[0] = its[Max(D)]
    BY <1>5, <2>1
  <2> HIDE DEF C
  <2>3. D # {} => Fits(NormalizeDictionaryItem(C(0)[0]), Described(k, C(0)))
    BY <1>4, <2>1, <2>2, OneIsDescribed
  <2> QED
    BY <1>1, <1>2, <1>3, <2>1, <2>2, <2>3
<1>7. ASSUME NEW n \in 1 .. N, n - 1 \in T
      PROVE  n \in T
  <2>1. /\ n \in Nat /\ n - 1 \in Nat /\ n # 0 /\ n \in 0 .. N /\ n - 1 \in 0 .. N
        /\ its[n] \in Item /\ merged[n - 1] \in Maps
    BY <1>2, <1>3
  <2>2. /\ k \in DOMAIN merged[n - 1] <=> DOMAIN C(n - 1) # {}
        /\ k \in DOMAIN merged[n - 1] => Fits(merged[n - 1][k], Described(k, C(n - 1)))
    BY <1>7
  <2>3. merged[n] = IF its[n] \in wanted THEN PutLocalized(merged[n - 1], its[n])
                    ELSE merged[n - 1]
    BY <1>2
  <2>4. CASE its[n] \in wanted /\ its[n].key = k
    <3>1. n \in DOMAIN Chain(its, loc, k)
      BY <1>4, <2>4
    <3>2. Extends(C(n), C(n - 1), n)
      <4>1. \A p \in DOMAIN Chain(its, loc, k) : p \in Nat
        BY <1>3, <1>4
      <4>2. DOMAIN C(n - 1) \subseteq 0 .. (n - 1)
        BY <1>5, <2>1, <4>1
      <4>3. DOMAIN C(n) = DOMAIN C(n - 1) \cup {n}
        <5>1. /\ DOMAIN C(n) = {p \in DOMAIN Chain(its, loc, k) : p <= n}
              /\ DOMAIN C(n - 1) = {p \in DOMAIN Chain(its, loc, k) : p <= n - 1}
          BY <1>5, <2>1
        <5> HIDE DEF C
        <5>2. \A p \in DOMAIN Chain(its, loc, k) : p <= n <=> p <= n - 1 \/ p = n
          BY <2>1, <4>1
        <5> QED
          BY <2>1, <3>1, <5>1, <5>2
      <4>4. \A p \in DOMAIN C(n - 1) : C(n)[p] = C(n - 1)[p]
        BY <1>5, <2>1, <4>3
      <4> QED
        BY <4>2, <4>3, <4>4 DEF Extends
    <3>3. C(n)[n] = its[n] /\ DOMAIN C(n) = DOMAIN C(n - 1) \cup {n}
      BY <1>5, <2>1, <3>1, <3>2 DEF Extends
    <3> HIDE DEF C
    <3>4. CASE k \in DOMAIN merged[n - 1]
      <4>1. merged[n - 1][k] \in Item
        BY <2>1, <3>4 DEF Maps
      <4>2. Fits(NormalizeDictionaryItem(Inherit(C(n)[n], merged[n - 1][k])),
                 Described(k, C(n)))
        BY <2>1, <2>2, <2>4, <3>2, <3>3, <3>4, <4>1, MoreIsDescribed
      <4>3. PutLocalized(merged[n - 1], its[n]) =
              Put(merged[n - 1], Inherit(its[n], merged[n - 1][k]))
        BY <2>4, <3>4 DEF PutLocalized
      <4>4. Inherit(its[n], merged[n - 1][k]) \in Item
            /\ Inherit(its[n], merged[n - 1][k]).key = k
        BY <2>1, <2>4, <4>1, ItemsStayItems
      <4>5. k \in DOMAIN merged[n]
            /\ merged[n][k] = NormalizeDictionaryItem(Inherit(its[n], merged[n - 1][k]))
        BY <2>1, <2>3, <2>4, <4>3, <4>4, KeysOfPut
      <4> QED
        BY <2>1, <3>3, <4>2, <4>5
    <3>5. CASE k \notin DOMAIN merged[n - 1]
      <4>1. DOMAIN C(n) = {n}
        BY <2>2, <3>3, <3>5
      <4>2. Fits(NormalizeDictionaryItem(C(n)[n]), Described(k, C(n)))
        BY <2>1, <2>4, <3>3, <4>1, OneIsDescribed
      <4>3. PutLocalized(merged[n - 1], its[n]) = Put(merged[n - 1], its[n])
        BY <2>4, <3>5 DEF PutLocalized
      <4>4. k \in DOMAIN merged[n] /\ merged[n][k] = NormalizeDictionaryItem(its[n])
        BY <2>1, <2>3, <2>4, <4>3, KeysOfPut
      <4> QED
        BY <2>1, <3>3, <4>1, <4>2, <4>4
    <3> QED
      BY <3>4, <3>5
  <2>5. CASE ~(its[n] \in wanted /\ its[n].key = k)
    <3>1. n \notin DOMAIN Chain(its, loc, k)
      BY <1>4, <2>1, <2>5
    <3>2. C(n) = C(n - 1)
      <4>1. \A p \in DOMAIN Chain(its, loc, k) : p \in Nat
        BY <1>3, <1>4
      <4>2. {p \in DOMAIN Chain(its, loc, k) : p <= n} =
              {p \in DOMAIN Chain(its, loc, k) : p <= n - 1}
        BY <2>1, <3>1, <4>1
      <4> QED
        BY <4>2 DEF ChainUpTo
    <3>3. /\ k \in DOMAIN merged[n] <=> k \in DOMAIN merged[n - 1]
          /\ k \in DOMAIN merged[n - 1] => merged[n][k] = merged[n - 1][k]
      <4>1. CASE its[n] \notin wanted
        BY <2>3, <4>1
      <4>2. CASE its[n] \in wanted
        <5>1. \A j \in Item : j.key = its[n].key =>
                /\ k \in DOMAIN Put(merged[n - 1], j) <=> k \in DOMAIN merged[n - 1]
                /\ k \in DOMAIN merged[n - 1] => Put(merged[n - 1], j)[k] = merged[n - 1][k]
          BY <2>1, <2>5, <4>2, KeysOfPut
        <5>2. its[n].key \in DOMAIN merged[n - 1] =>
                /\ Inherit(its[n], merged[n - 1][its[n].key]) \in Item
                /\ Inherit(its[n], merged[n - 1][its[n].key]).key = its[n].key
          <6>1. its[n].key \in DOMAIN merged[n - 1] => merged[n - 1][its[n].key] \in Item
            BY <2>1 DEF Maps
          <6> QED
            BY <2>1, <6>1, ItemsStayItems
        <5> QED
          BY <2>1, <2>3, <4>2, <5>1, <5>2 DEF PutLocalized
      <4> QED
        BY <4>1, <4>2
    <3> HIDE DEF C
    <3> QED
      BY <2>1, <2>2, <3>2, <3>3
  <2> QED
    BY <2>4, <2>5
<1>8. N \in T
  <2> HIDE DEF T
  <2>1. 0 .. N \subseteq T
    BY <1>3, <1>6, <1>7, AllUpTo
  <2> QED
    BY <1>3, <2>1
<1>9. C(N) = Chain(its, loc, k)
  <2>1. {p \in DOMAIN Chain(its, loc, k) : p <= N} = DOMAIN Chain(its, loc, k)
    BY <1>3, <1>4
  <2>2. Chain(its, loc, k) = [m \in DOMAIN Chain(its, loc, k) |-> Chain(its, loc, k)[m]]
    BY DEF Chain
  <2> QED
    BY <2>1, <2>2 DEF ChainUpTo
<1>10. merged[N] \in Maps
  BY <1>2, <1>3
<1> HIDE DEF C
<1> QED
  BY <1>2, <1>8, <1>9, <1>10

-----------------------------------------------------------------------------
(***************************************************************************)
(* Order.  In a finite set with a strict order the number of those before  *)
(* an element is its place: no two have the same, so all places are taken. *)
(***************************************************************************)
StrictOrder(S, R) ==
  /\ \A x \in S : <<x, x>> \notin R
  /\ \A x, y, z \in S : <<x, y>> \in R /\ <<y, z>> \in R => <<x, z>> \in R
  /\ \A x, y \in S : x = y \/ <<x, y>> \in R \/ <<y, x>> \in R

Placed(S, R) ==
  LET places == {<<Cardinality({y \in S : <<y, x>> \in R}), x>> : x \in S}
  IN  [n \in 1 .. Cardinality(S) |-> (CHOOSE p \in places : p[1] = n - 1)[2]]

Lists(o, S, R) ==
  /\ o \in [1 .. Cardinality(S) -> S]
  /\ \A x \in S : \E n \in 1 .. Cardinality(S) : o[n] = x
  /\ \A m, n \in 1 .. Cardinality(S) : m < n => <<o[m], o[n]>> \in R /\ o[m] # o[n]

LEMMA OrderLists ==
  ASSUME NEW S, IsFiniteSet(S), NEW R, StrictOrder(S, R)
  PROVE  Lists(Placed(S, R), S, R)
<1> DEFINE below(x) == {y \in S : <<y, x>> \in R}
           place == [x \in S |-> Cardinality(below(x))]
           N == Cardinality(S)
<1>1. N \in Nat
  BY FS_CardinalityType
<1>2. ASSUME NEW x \in S
      PROVE  IsFiniteSet(below(x)) /\ place[x] \in Nat /\ place[x] < N
  <2>1. below(x) \in SUBSET S /\ below(x) # S
    BY DEF StrictOrder
  <2>2. /\ IsFiniteSet(below(x)) /\ Cardinality(below(x)) <= N
        /\ N = Cardinality(below(x)) => S = below(x)
    <3> HIDE DEF below
    <3> QED
      BY <2>1, FS_Subset
  <2>3. Cardinality(below(x)) \in Nat
    BY <2>2, FS_CardinalityType
  <2> QED
    BY <1>1, <2>1, <2>2, <2>3
<1>3. ASSUME NEW x \in S, NEW y \in S, <<x, y>> \in R
      PROVE  place[x] < place[y]
  <2>1. below(x) \in SUBSET below(y) /\ below(x) # below(y)
    BY <1>3 DEF StrictOrder
  <2>2. /\ Cardinality(below(x)) <= Cardinality(below(y))
        /\ Cardinality(below(y)) = Cardinality(below(x)) => below(y) = below(x)
    <3>1. IsFiniteSet(below(y))
      BY <1>2
    <3> HIDE DEF below
    <3> QED
      BY <2>1, <3>1, FS_Subset
  <2>3. place[x] = Cardinality(below(x)) /\ place[y] = Cardinality(below(y))
    OBVIOUS
  <2> HIDE DEF below, place
  <2> QED
    BY <1>2, <2>1, <2>2, <2>3
<1> DEFINE places == {<<Cardinality(below(x)), x>> : x \in S}
           o == Placed(S, R)
<1>4. o = [n \in 1 .. N |-> (CHOOSE p \in places : p[1] = n - 1)[2]]
  BY DEF Placed
<1>5. \A x \in S : <<place[x], x>> \in places
  OBVIOUS
<1>6. \A p \in places : \E x \in S : p = <<place[x], x>>
  OBVIOUS
<1>7. place = [x \in S |-> place[x]]
  OBVIOUS
<1> HIDE DEF o, place, places, below, N
<1>8. place \in Injection(S, 0 .. (N - 1))
  <2>1. place \in [S -> 0 .. (N - 1)]
    <3>1. \A x \in S : place[x] \in 0 .. (N - 1)
      BY <1>1, <1>2
    <3> QED
      BY <1>7, <3>1
  <2>2. ASSUME NEW x \in S, NEW y \in S, x # y
        PROVE  place[x] # place[y]
    <3>1. <<x, y>> \in R \/ <<y, x>> \in R
      BY <2>2 DEF StrictOrder
    <3>2. place[x] \in Nat /\ place[y] \in Nat
      BY <1>2
    <3>3. place[x] < place[y] \/ place[y] < place[x]
      BY <1>3, <3>1
    <3> QED
      BY <3>2, <3>3
  <2> QED
    BY <2>1, <2>2 DEF Injection, IsInjective
<1>9. IsFiniteSet(0 .. (N - 1)) /\ Cardinality(0 .. (N - 1)) = N
  <2>1. 0 \in Int /\ N - 1 \in Int
    BY <1>1
  <2>2. /\ IsFiniteSet(0 .. (N - 1))
        /\ Cardinality(0 .. (N - 1)) = IF 0 > N - 1 THEN 0 ELSE (N - 1) - 0 + 1
    BY <2>1, FS_Interval
  <2> QED
    BY <1>1, <2>2
<1>10. \A m \in 0 .. (N - 1) : \E x \in S : place[x] = m
  <2>1. N = Cardinality(S)
    BY DEF N
  <2>2. place \in Surjection(S, 0 .. (N - 1))
    BY <1>8, <1>9, <2>1, FS_Injection
  <2> QED
    BY <2>2 DEF Surjection
<1>11. ASSUME NEW n \in 1 .. N
       PROVE  o[n] \in S /\ place[o[n]] = n - 1
  <2>1. n - 1 \in 0 .. (N - 1)
    BY <1>1
  <2>2. PICK x \in S : place[x] = n - 1
    BY <1>10, <2>1
  <2>3. \E p \in places : p[1] = n - 1
    BY <1>5, <2>2
  <2>4. PICK p \in places : p[1] = n - 1 /\ o[n] = p[2]
    BY <1>4, <2>3
  <2>5. PICK y \in S : p = <<place[y], y>>
    BY <1>6
  <2> QED
    BY <2>4, <2>5
<1>12. o \in [1 .. N -> S]
  <2>1. DOMAIN o = 1 .. N
    BY <1>4
  <2>2. o = [n \in 1 .. N |-> o[n]]
    BY <1>4
  <2> QED
    BY <1>11, <2>2
<1>13. ASSUME NEW x \in S
       PROVE  \E n \in 1 .. N : o[n] = x
  <2>1. place[x] + 1 \in 1 .. N
    BY <1>1, <1>2
  <2>2. place[o[place[x] + 1]] = place[x] /\ o[place[x] + 1] \in S
    BY <1>2, <1>11, <2>1
  <2>3. o[place[x] + 1] = x
    BY <1>8, <2>2 DEF Injection, IsInjective
  <2> QED
    BY <2>1, <2>3
<1>14. ASSUME NEW m \in 1 .. N, NEW n \in 1 .. N, m < n
       PROVE  <<o[m], o[n]>> \in R /\ o[m] # o[n]
  <2>1. place[o[m]] < place[o[n]] /\ o[m] \in S /\ o[n] \in S
    BY <1>2, <1>11, <1>14
  <2>2. o[m] # o[n] /\ <<o[n], o[m]>> \notin R
    BY <1>2, <1>3, <2>1
  <2> QED
    BY <2>1, <2>2 DEF StrictOrder
<1> QED
  BY <1>12, <1>13, <1>14 DEF Lists, o, N

LEMMA KeysAreFinite == IsFiniteSet(Keys)
<1>1. KeyOrder \in Surjection(1 .. Len(KeyOrder), Keys)
  BY KeysAreOrdered DEF Surjection
<1>2. IsFiniteSet(1 .. Len(KeyOrder))
  <2>1. 1 \in Int /\ Len(KeyOrder) \in Int
    BY KeysAreOrdered
  <2> QED
    BY <2>1, FS_Interval
<1> QED
  BY <1>1, <1>2, FS_Surjection

LEMMA ActiveAreFinite ==
  ASSUME NEW merged \in Maps
  PROVE  IsFiniteSet(Active(merged))
<1> DEFINE S == Active(merged)
           image == [k \in DOMAIN merged |-> merged[k]]
           all == {merged[k] : k \in DOMAIN merged}
<1>1. image \in Surjection(DOMAIN merged, all)
  BY DEF Surjection
<1>2. IsFiniteSet(DOMAIN merged)
  <2>1. DOMAIN merged \subseteq Keys
    BY DEF Maps
  <2> QED
    BY <2>1, KeysAreFinite, FS_Subset
<1>3. IsFiniteSet(all)
  <2> HIDE DEF all, image
  <2> QED
    BY <1>1, <1>2, FS_Surjection
<1>4. S \in SUBSET all
  BY DEF Active
<1> HIDE DEF all, image, S
<1>5. IsFiniteSet(S)
  BY <1>3, <1>4, FS_Subset
<1> QED
  BY <1>5 DEF S

ByPlace(places, N) ==
  [n \in 1 .. N |-> (CHOOSE p \in places : p[1] = n - 1)[2]]

Precedence(S) == {p \in S \X S : Before(p[1], p[2])}

LEMMA PositionsDiffer ==
  ASSUME NEW k \in Keys
  PROVE  Position(k) \in Nat /\ KeyOrder[Position(k)] = k
<1>1. \E n \in DOMAIN KeyOrder : KeyOrder[n] = k
  BY KeysAreOrdered
<1>2. Position(k) \in DOMAIN KeyOrder /\ KeyOrder[Position(k)] = k
  BY <1>1 DEF Position
<1> QED
  BY <1>2, KeysAreOrdered

LEMMA ActiveAreListed ==
  ASSUME NEW merged \in Maps, \A k \in DOMAIN merged : merged[k].key = k
  PROVE  Lists(InOrder(Active(merged), Before), Active(merged), Precedence(Active(merged)))
<1> DEFINE S == Active(merged)
           R == Precedence(S)
<1>1. DOMAIN merged \subseteq Keys /\ \A k \in DOMAIN merged : merged[k] \in Item
  BY DEF Maps
<1>2. \A i \in S : i \in Item /\ i.key \in Keys /\ i = merged[i.key]
  BY <1>1 DEF Active
<1>3. IsFiniteSet(S)
  BY ActiveAreFinite
<1> HIDE DEF S
<1>4. \A i \in S : i.order \in Nat /\ Position(i.key) \in Nat
  <2>1. \A i \in S : i.order \in Orders
    BY <1>2, FieldsTyped
  <2> QED
    BY <1>2, <2>1, PositionsDiffer, OrdersAreNumbers
<1>5. \A x, y \in S : <<x, y>> \in R <=> Before(x, y)
  BY DEF Precedence
<1> HIDE DEF R
<1>6. StrictOrder(S, R)
  <2>1. \A x \in S : <<x, x>> \notin R
    BY <1>4, <1>5 DEF Before
  <2>2. \A x, y, z \in S : <<x, y>> \in R /\ <<y, z>> \in R => <<x, z>> \in R
    BY <1>4, <1>5 DEF Before
  <2>3. ASSUME NEW x \in S, NEW y \in S, <<x, y>> \notin R, <<y, x>> \notin R
        PROVE  x = y
    <3>1. x.order = y.order /\ Position(x.key) = Position(y.key)
      BY <1>4, <1>5, <2>3 DEF Before
    <3>2. x.key = y.key
      BY <1>2, <3>1, PositionsDiffer
    <3> QED
      BY <1>2, <3>2
  <2> QED
    BY <2>1, <2>2, <2>3 DEF StrictOrder
<1>7. InOrder(S, Before) = Placed(S, R)
  <2>1. \A x \in S : {y \in S : Before(y, x)} = {y \in S : <<y, x>> \in R}
    BY <1>5
  <2> DEFINE before == {<<Cardinality({y \in S : Before(y, x)}), x>> : x \in S}
             related == {<<Cardinality({y \in S : <<y, x>> \in R}), x>> : x \in S}
  <2>2. before = related
    BY <2>1
  <2>3. InOrder(S, Before) = ByPlace(before, Cardinality(S))
    BY DEF InOrder, ByPlace
  <2>4. Placed(S, R) = ByPlace(related, Cardinality(S))
    BY DEF Placed, ByPlace
  <2> HIDE DEF before, related
  <2> QED
    BY <2>2, <2>3, <2>4
<1> QED
  BY <1>3, <1>6, <1>7, OrderLists DEF S, R

-----------------------------------------------------------------------------
(***************************************************************************)
(* What is resolved.                                                       *)
(***************************************************************************)
Bare(i) ==
  [key |-> i.key, value |-> i.value, label |-> i.label,
   description |-> i.description, order |-> i.order,
   status |-> i.status, color |-> i.color]

\* The items of a locale are the active ones of the merge, in order.
ListsActive(o, N, its, loc) ==
  /\ o \in [1 .. N -> Active(Merged(its, loc))]
  /\ DictionaryItemsForLocale(its, loc) = o
  /\ \A i \in Active(Merged(its, loc)) : \E n \in 1 .. N : o[n] = i
  /\ \A m, n \in 1 .. N : m < n => o[m].order <= o[n].order /\ o[m].key # o[n].key

LEMMA ResolvedItems ==
  ASSUME NEW its \in Seq(Item), NEW loc
  PROVE  \E N \in Nat : \E o : ListsActive(o, N, its, loc)
<1> DEFINE merged == Merged(its, loc)
           S == Active(merged)
           o == InOrder(S, Before)
           N == Cardinality(S)
<1>1. merged \in Maps /\ \A k \in DOMAIN merged : k \in Keys
  <2>1. merged \in Maps
    BY MergedIsAMap
  <2> QED
    BY <2>1 DEF Maps
<1>2. \A k \in DOMAIN merged : merged[k].key = k
  <2>1. \A k \in DOMAIN merged : Fits(merged[k], Described(k, Chain(its, loc, k)))
    BY <1>1, MergedIsDescribed
  <2> QED
    BY <2>1 DEF Fits, Described
<1>3. Lists(o, S, Precedence(S))
  <2> HIDE DEF merged
  <2> QED
    BY <1>1, <1>2, ActiveAreListed
<1>4. DictionaryItemsForLocale(its, loc) = o
  BY Zenon DEF DictionaryItemsForLocale, MergeDictionaryItems, Merged, Base, PutAll
<1>5. ASSUME NEW m \in 1 .. N, NEW n \in 1 .. N, m < n
      PROVE  o[m].order <= o[n].order /\ o[m].key # o[n].key
  <2> HIDE DEF o, N
  <2>1. /\ <<o[m], o[n]>> \in Precedence(S) /\ o[m] # o[n]
        /\ o[m] \in S /\ o[n] \in S
    BY <1>3, <1>5 DEF Lists, N
  <2>2. Before(o[m], o[n])
    BY <2>1 DEF Precedence
  <2>3. \A i \in S : i = merged[i.key] /\ i \in Item
    BY <1>1, <1>2 DEF Active, Maps
  <2>4. o[m].key # o[n].key
    <3> HIDE DEF S, merged
    <3> QED
      BY <2>1, <2>3
  <2>5. o[m].order \in Nat /\ o[n].order \in Nat
    BY <2>1, <2>3, FieldsTyped, OrdersAreNumbers
  <2> QED
    BY <2>2, <2>4, <2>5 DEF Before
<1>6. N \in Nat
  <2>1. IsFiniteSet(S)
    BY <1>1, ActiveAreFinite
  <2> HIDE DEF S
  <2> QED
    BY <2>1, FS_CardinalityType
<1>7. o \in [1 .. N -> S] /\ \A i \in S : \E n \in 1 .. N : o[n] = i
  BY <1>3, Zenon DEF Lists
<1>8. ListsActive(o, N, its, loc)
  <2> HIDE DEF o, N
  <2> QED
    BY <1>4, <1>5, <1>7 DEF ListsActive
<1> QED
  BY <1>6, <1>8

LEMMA ActiveFit ==
  ASSUME NEW its \in Seq(Item), NEW loc
  PROVE  /\ \A i \in Active(Merged(its, loc)) :
              /\ i \in Item /\ i.key \in Keys /\ i.status = "active"
              /\ DOMAIN Chain(its, loc, i.key) # {}
              /\ Fits(i, Described(i.key, Chain(its, loc, i.key)))
         /\ \A k \in Keys :
              DOMAIN Chain(its, loc, k) # {}
              /\ Described(k, Chain(its, loc, k)).status = "active" =>
                \E i \in Active(Merged(its, loc)) : i.key = k
<1> DEFINE merged == Merged(its, loc)
<1>1. /\ merged \in Maps /\ \A k \in DOMAIN merged : k \in Keys /\ merged[k] \in Item
  <2>1. merged \in Maps
    BY MergedIsAMap
  <2> QED
    BY <2>1 DEF Maps
<1>2. \A k \in Keys :
        /\ k \in DOMAIN merged <=> DOMAIN Chain(its, loc, k) # {}
        /\ k \in DOMAIN merged => Fits(merged[k], Described(k, Chain(its, loc, k)))
  BY MergedIsDescribed
<1> HIDE DEF merged
<1>3. \A k \in DOMAIN merged : merged[k].key = k
  BY <1>1, <1>2 DEF Fits, Described
<1>4. \A i \in Active(merged) :
        /\ i.status = "active"
        /\ \E k \in DOMAIN merged : i = merged[k]
  BY DEF Active
<1>5. ASSUME NEW i \in Active(merged)
      PROVE  /\ i \in Item /\ i.key \in Keys /\ i.status = "active"
             /\ DOMAIN Chain(its, loc, i.key) # {}
             /\ Fits(i, Described(i.key, Chain(its, loc, i.key)))
  BY <1>1, <1>2, <1>3, <1>4
<1>6. ASSUME NEW k \in Keys, DOMAIN Chain(its, loc, k) # {},
             Described(k, Chain(its, loc, k)).status = "active"
      PROVE  \E i \in Active(merged) : i.key = k
  <2>1. k \in DOMAIN merged /\ merged[k].status = "active"
    BY <1>2, <1>6 DEF Fits
  <2>2. merged[k] \in Active(merged)
    BY <2>1 DEF Active
  <2> QED
    BY <1>3, <2>1, <2>2
<1> QED
  BY <1>5, <1>6 DEF merged

LEMMA BareOfTexts ==
  ASSUME NEW i \in Item, NEW k \in Keys, NEW chain, Fits(i, Described(k, chain)), NEW table
  PROVE  /\ Bare(WithTexts(i, table)) = WithTexts(Described(k, chain), table)
         /\ WithTexts(i, table).key = i.key /\ WithTexts(i, table).order = i.order
<1> DEFINE j == WithTexts(i, table)
           d == Described(k, chain)
           e == WithTexts(d, table)
           label == Or(table[k].label, i.label)
           description == Or(table[k].description, i.description)
<1>1. i.key = k
  BY DEF Fits, Described
<1>2. /\ j.key = i.key /\ j.value = i.value /\ j.label = label
      /\ j.description = description /\ j.order = i.order
      /\ j.status = i.status /\ j.color = i.color
  BY <1>1 DEF WithTexts, Item
<1>3. d.key = k /\ d = Bare(i)
  <2>1. d = [key |-> d.key, value |-> d.value, label |-> d.label,
             description |-> d.description, order |-> d.order,
             status |-> d.status, color |-> d.color]
    BY DEF Described
  <2>2. /\ i.key = d.key /\ i.value = d.value /\ i.label = d.label
        /\ i.description = d.description /\ i.order = d.order /\ i.status = d.status
        /\ i.color = d.color
    BY DEF Fits
  <2> HIDE DEF d
  <2> QED
    BY <1>1, <2>1, <2>2 DEF Bare
<1>4. e = [Bare(i) EXCEPT !.label = label, !.description = description]
  <2> HIDE DEF d
  <2>1. d.label = i.label /\ d.description = i.description
    BY <1>3 DEF Bare
  <2>2. e = [d EXCEPT !.label = Or(table[d.key].label, d.label),
                      !.description = Or(table[d.key].description, d.description)]
    BY DEF WithTexts
  <2> QED
    BY <1>3, <2>1, <2>2
<1>5. Bare(j) = [key |-> i.key, value |-> i.value, label |-> label,
                 description |-> description, order |-> i.order,
                 status |-> i.status, color |-> i.color]
  <2> HIDE DEF j, label, description
  <2> QED
    BY <1>2 DEF Bare
<1>6. [Bare(i) EXCEPT !.label = label, !.description = description] =
        [key |-> i.key, value |-> i.value, label |-> label,
         description |-> description, order |-> i.order,
         status |-> i.status, color |-> i.color]
  <2> DEFINE r == Bare(i)
  <2>1. r = [key |-> i.key, value |-> i.value, label |-> i.label,
             description |-> i.description, order |-> i.order,
             status |-> i.status, color |-> i.color]
    BY DEF Bare
  <2> DEFINE q == [r EXCEPT !.label = label]
  <2> HIDE DEF label, description, r
  <2>2. q = [key |-> i.key, value |-> i.value, label |-> label,
             description |-> i.description, order |-> i.order,
             status |-> i.status, color |-> i.color]
    BY <2>1
  <2> HIDE DEF q
  <2>3. [q EXCEPT !.description = description] =
          [key |-> i.key, value |-> i.value, label |-> label,
           description |-> description, order |-> i.order,
           status |-> i.status, color |-> i.color]
    BY <2>2
  <2> QED
    BY <2>3 DEF q, r
<1> QED
  BY <1>2, <1>4, <1>5, <1>6

LEMMA ResolvedAreReferred ==
  ASSUME NEW its \in Seq(Item), NEW loc, NEW table
  PROVE  LET resolved == Resolve(its, loc, table)
         IN  /\ {Bare(resolved[n]) : n \in DOMAIN resolved} = Reference(its, loc, table)
             /\ \A m, n \in DOMAIN resolved :
                  m < n => /\ resolved[m].order <= resolved[n].order
                           /\ resolved[m].key # resolved[n].key
<1> DEFINE resolved == Resolve(its, loc, table)
           S == Active(Merged(its, loc))
           D(k) == Described(k, Chain(its, loc, k))
           Keyed == {k \in Keys : DOMAIN Chain(its, loc, k) # {}}
           All == {D(k) : k \in Keyed}
           shown == {i \in All : i.status = "active"}
<1>0. PICK N \in Nat : \E o : ListsActive(o, N, its, loc)
  BY ResolvedItems
<1>1. PICK o : ListsActive(o, N, its, loc)
  BY <1>0
<1>2. /\ o \in [1 .. N -> S]
      /\ DictionaryItemsForLocale(its, loc) = o
      /\ \A i \in S : \E n \in 1 .. N : o[n] = i
      /\ \A m, n \in 1 .. N : m < n => o[m].order <= o[n].order /\ o[m].key # o[n].key
  BY <1>1, Zenon DEF ListsActive
<1>3. resolved = [n \in DOMAIN o |-> WithTexts(o[n], table)]
  BY <1>2, Zenon DEF Resolve, LocalizeDictionaryItems
<1>4. DOMAIN resolved = 1 .. N /\ \A n \in 1 .. N : resolved[n] = WithTexts(o[n], table)
  BY <1>2, <1>3
<1>5. /\ \A i \in S : /\ i \in Item /\ i.key \in Keys /\ i.status = "active"
                      /\ DOMAIN Chain(its, loc, i.key) # {}
                      /\ Fits(i, D(i.key))
      /\ \A k \in Keys : DOMAIN Chain(its, loc, k) # {} /\ D(k).status = "active" =>
           \E i \in S : i.key = k
  BY ActiveFit
<1>6. \A i \in S : /\ Bare(WithTexts(i, table)) = WithTexts(D(i.key), table)
                   /\ WithTexts(i, table).key = i.key /\ WithTexts(i, table).order = i.order
  BY <1>5, BareOfTexts
<1>7. Reference(its, loc, table) = {WithTexts(i, table) : i \in shown}
  BY DEF Reference
<1>8. \A i \in S : D(i.key) \in shown
  <2>1. ASSUME NEW i \in S
        PROVE  i.key \in Keyed /\ D(i.key).status = "active"
    BY <1>5 DEF Fits
  <2> HIDE DEF D, Keyed
  <2> QED
    BY <2>1
<1>9. \A d \in shown : \E i \in S : d = D(i.key)
  <2>1. ASSUME NEW k \in Keyed, D(k).status = "active"
        PROVE  \E i \in S : D(k) = D(i.key)
    BY <1>5, <2>1
  <2> HIDE DEF D, Keyed
  <2> QED
    BY <2>1
<1> HIDE DEF S, D, shown, resolved
<1>10. ASSUME NEW n \in 1 .. N
       PROVE  Bare(resolved[n]) \in {WithTexts(i, table) : i \in shown}
  <2>1. o[n] \in S
    BY <1>2
  <2>2. Bare(resolved[n]) = WithTexts(D(o[n].key), table) /\ D(o[n].key) \in shown
    BY <1>4, <1>6, <1>8, <2>1
  <2> QED
    BY <2>2
<1>11. ASSUME NEW d \in shown
       PROVE  \E n \in 1 .. N : Bare(resolved[n]) = WithTexts(d, table)
  <2>1. PICK i \in S : d = D(i.key)
    BY <1>9
  <2>2. PICK n \in 1 .. N : o[n] = i
    BY <1>2
  <2>3. Bare(resolved[n]) = WithTexts(D(i.key), table)
    BY <1>4, <1>6, <2>2
  <2> QED
    BY <2>1, <2>3
<1>12. {Bare(resolved[n]) : n \in DOMAIN resolved} = Reference(its, loc, table)
  <2>1. \A n \in DOMAIN resolved : Bare(resolved[n]) \in Reference(its, loc, table)
    BY <1>4, <1>7, <1>10
  <2>2. ASSUME NEW x \in Reference(its, loc, table)
        PROVE  x \in {Bare(resolved[n]) : n \in DOMAIN resolved}
    <3>1. PICK d \in shown : x = WithTexts(d, table)
      BY <1>7
    <3> QED
      BY <1>4, <1>11, <3>1
  <2> QED
    BY <2>1, <2>2
<1>13. ASSUME NEW m \in DOMAIN resolved, NEW n \in DOMAIN resolved, m < n
       PROVE  /\ resolved[m].order <= resolved[n].order
              /\ resolved[m].key # resolved[n].key
  <2>1. o[m] \in S /\ o[n] \in S
    BY <1>2, <1>4
  <2>2. o[m].order <= o[n].order /\ o[m].key # o[n].key
    BY <1>2, <1>4, <1>13
  <2>3. /\ resolved[m].order = o[m].order /\ resolved[n].order = o[n].order
        /\ resolved[m].key = o[m].key /\ resolved[n].key = o[n].key
    BY <1>4, <1>6, <2>1
  <2> QED
    BY <2>2, <2>3
<1> QED
  BY <1>12, <1>13 DEF resolved

LEMMA SomethingIsResolved ==
  ASSUME NEW its \in Seq(Item), NEW loc, NEW table, its # <<>>,
         \A n \in DOMAIN its : its[n].key # Blank /\ its[n].status # "disabled"
  PROVE  Resolve(its, loc, table) # <<>>
<1> DEFINE S == Active(Merged(its, loc))
           C(k) == Chain(its, loc, k)
<1>1. PICK n \in DOMAIN its : IsDefault(its, loc, n) \/ its[n] \in InLocale(its, loc)
  <2>1. 1 \in DOMAIN its
    OBVIOUS
  <2>2. CASE InNoLocale(its) \cup InLocale(its, loc) = {}
    BY <2>1, <2>2 DEF IsDefault
  <2>3. CASE InNoLocale(its) \cup InLocale(its, loc) # {}
    <3>1. PICK i \in InNoLocale(its) \cup InLocale(its, loc) : TRUE
      BY <2>3
    <3>2. PICK n \in DOMAIN its : its[n] = i
      BY <3>1 DEF InNoLocale, InLocale, Range
    <3> QED
      BY <3>1, <3>2 DEF IsDefault
  <2> QED
    BY <2>2, <2>3
<1> DEFINE k == its[n].key
<1>2. k \in Keys /\ n \in 1 .. Len(its) /\ n # 0 /\ k = its[n].key
  <2>1. its[n] \in Item
    OBVIOUS
  <2> QED
    BY <2>1 DEF Item
<1> HIDE DEF k
<1>0. IsChain(its, loc, k)
  BY <1>2, ChainTyped
<1>3. DOMAIN C(k) # {}
  <2>1. CASE its[n] \in InLocale(its, loc)
    BY <1>0, <1>2, <2>1 DEF IsChain
  <2>2. CASE IsDefault(its, loc, n)
    <3>1. n \in DefaultsFor(its, loc, k)
      BY <1>2, <2>2 DEF DefaultsFor, IsDefault
    <3> QED
      BY <1>0, <1>2, <3>1 DEF IsChain
  <2> QED
    BY <1>1, <2>1, <2>2
<1>4. \A m \in DOMAIN C(k) : C(k)[m].status \in {"active", Blank}
  <2>1. \A m \in DOMAIN its : its[m].status \in {"active", Blank}
    <3>1. \A m \in DOMAIN its : its[m] \in Item
      OBVIOUS
    <3> QED
      BY <3>1, FieldsTyped
  <2>2. ASSUME NEW m \in DOMAIN C(k)
        PROVE  \E p \in DOMAIN its : C(k)[m] = its[p]
    <3>1. /\ DefaultsFor(its, loc, k) \subseteq DOMAIN its
          /\ DefaultsFor(its, loc, k) # {} =>
               Max(DefaultsFor(its, loc, k)) \in DefaultsFor(its, loc, k)
          /\ m \in {q \in 1 .. Len(its) : its[q].key = k /\ its[q] \in InLocale(its, loc)}
                     \cup IF DefaultsFor(its, loc, k) = {} THEN {} ELSE {0}
          /\ C(k)[m] = its[IF m = 0 THEN Max(DefaultsFor(its, loc, k)) ELSE m]
      BY <1>0, <1>2 DEF IsChain
    <3> HIDE DEF C
    <3> QED
      BY <3>1
  <2> QED
    BY <2>1, <2>2
<1>5. Described(k, C(k)).status = "active"
  <2> DEFINE statuses == [m \in DOMAIN C(k) |-> C(k)[m].status]
             set == {m \in DOMAIN statuses : statuses[m] # Blank}
  <2>1. LastSet(statuses, Blank) = IF set = {} THEN Blank ELSE statuses[Max(set)]
    BY DEF LastSet
  <2>2. set # {} => Max(set) \in set
    <3>1. set \subseteq 0 .. Len(its)
      <4>1. DOMAIN C(k) \subseteq 0 .. Len(its)
        <5>1. DOMAIN C(k) =
                {m \in 1 .. Len(its) : its[m].key = k /\ its[m] \in InLocale(its, loc)}
                  \cup IF DefaultsFor(its, loc, k) = {} THEN {} ELSE {0}
          BY <1>0, <1>2 DEF IsChain
        <5>2. Len(its) \in Nat
          OBVIOUS
        <5> HIDE DEF C
        <5> QED
          BY <5>1, <5>2
      <4> HIDE DEF C
      <4> QED
        BY <4>1
    <3>2. Len(its) \in Nat
      OBVIOUS
    <3> HIDE DEF set
    <3> QED
      BY <3>1, <3>2, MaxOfNumbers
  <2>3. set # {} => statuses[Max(set)] = "active"
    <3> HIDE DEF C
    <3> QED
      BY <1>4, <2>2
  <2>4. Or(LastSet(statuses, Blank), "active") = "active"
    <3> HIDE DEF statuses, set
    <3> QED
      BY <2>1, <2>3 DEF Or
  <2> QED
    BY <2>4 DEF Described
<1>6. PICK i \in S : i.key = k
  BY <1>2, <1>3, <1>5, ActiveFit
<1>6a. PICK N \in Nat : \E o : ListsActive(o, N, its, loc)
  BY ResolvedItems
<1>7. PICK o : ListsActive(o, N, its, loc)
  BY <1>6a
<1>8. /\ o \in [1 .. N -> S]
      /\ DictionaryItemsForLocale(its, loc) = o
      /\ \A j \in S : \E m \in 1 .. N : o[m] = j
  BY <1>7, Zenon DEF ListsActive
<1>9. Resolve(its, loc, table) = [m \in DOMAIN o |-> WithTexts(o[m], table)]
  BY <1>8, Zenon DEF Resolve, LocalizeDictionaryItems
<1>10. DOMAIN Resolve(its, loc, table) # {}
  <2> HIDE DEF S
  <2> QED
    BY <1>6, <1>8, <1>9
<1> QED
  BY <1>10, EmptyMap

-----------------------------------------------------------------------------
(***************************************************************************)
(* Theorems about the merge.                                               *)
(***************************************************************************)
Written ==
  /\ items \in Seq(Pool) /\ others \in Seq(Definitions)
  /\ locale \in Locales \cup {Blank} /\ texts \in TextTables

LEMMA WrittenAlways == Spec => []Written
<1>1. Init => Written
  BY DEF Init, Written
<1>2. Written /\ [WriteItem \/ WriteDefinition]_vars => Written'
  <2> SUFFICES ASSUME Written, [WriteItem \/ WriteDefinition]_vars
               PROVE  Written'
    OBVIOUS
  <2>1. CASE WriteItem
    BY <2>1 DEF Written, WriteItem
  <2>2. CASE WriteDefinition
    BY <2>2 DEF Written, WriteDefinition
  <2>3. CASE UNCHANGED vars
    BY <2>3 DEF Written, vars
  <2> QED
    BY <2>1, <2>2, <2>3
<1> QED
  BY <1>1, <1>2, PTL DEF Spec

LEMMA ItemsAreItems ==
  ASSUME Written
  PROVE  items \in Seq(Item)
BY CatalogsTyped DEF Written

\* Whatever the dictionary, the locale and the texts: what the loops of
\* dictionaryItemsForLocale and mergeDictionaryItems leave in the map of items
\* is, sorted, the closed form of the inheritance: no key is twice in the
\* answer, and the answer is in order.
THEOREM AnswersAreAsDescribed == Spec => []ResolvesAsDescribed
<1>1. Written => ResolvesAsDescribed
  <2> SUFFICES ASSUME Written PROVE ResolvesAsDescribed
    OBVIOUS
  <2> DEFINE table == TextsOfItems(texts, Dictionary.key, locale)
             resolved == Resolve(items, locale, table)
  <2>1. /\ {Bare(resolved[n]) : n \in DOMAIN resolved} = Reference(items, locale, table)
        /\ \A m, n \in DOMAIN resolved :
             m < n => /\ resolved[m].order <= resolved[n].order
                      /\ resolved[m].key # resolved[n].key
    <3> HIDE DEF table
    <3> QED
      BY ItemsAreItems, ResolvedAreReferred
  <2>2. Resolved = resolved
    BY DEF Resolved
  <2> HIDE DEF table, resolved
  <2> QED
    BY <2>1, <2>2, Zenon DEF ResolvesAsDescribed, Bare, table
<1> QED
  BY <1>1, WrittenAlways, PTL

\* Whatever the dictionary: the fallback of dictionaryItemsForLocale leaves no
\* locale without items.
THEOREM EveryLocaleHasItems == Spec => []NoLocaleIsEmpty
<1>1. Written => NoLocaleIsEmpty
  BY ItemsAreItems, SomethingIsResolved DEF NoLocaleIsEmpty, Resolved
<1> QED
  BY <1>1, WrittenAlways, PTL

-----------------------------------------------------------------------------
(***************************************************************************)
(* Sequences put together from sequences: what is in them, and how many of *)
(* it are of a kind.                                                       *)
(***************************************************************************)
LEMMA RangeOfConcat ==
  ASSUME NEW V, NEW s \in Seq(V), NEW t \in Seq(V)
  PROVE  Range(s \o t) = Range(s) \cup Range(t)
<1>1. /\ Len(s) \in Nat /\ Len(t) \in Nat /\ s \o t \in Seq(V)
      /\ Len(s \o t) = Len(s) + Len(t)
      /\ \A n \in 1 .. Len(s) : (s \o t)[n] = s[n]
      /\ \A n \in 1 .. Len(t) : (s \o t)[Len(s) + n] = t[n]
  OBVIOUS
<1>2. ASSUME NEW n \in 1 .. Len(s) + Len(t)
      PROVE  (s \o t)[n] \in Range(s) \cup Range(t)
  <2>1. CASE n <= Len(s)
    <3>1. n \in 1 .. Len(s) /\ n \in DOMAIN s
      BY <1>1, <2>1
    <3> QED
      BY <1>1, <3>1 DEF Range
  <2>2. CASE n > Len(s)
    <3>1. n - Len(s) \in 1 .. Len(t) /\ Len(s) + (n - Len(s)) = n
      BY <1>1, <2>2
    <3>2. (s \o t)[n] = t[n - Len(s)]
      BY <1>1, <3>1
    <3> QED
      BY <3>1, <3>2 DEF Range
  <2> QED
    BY <1>1, <2>1, <2>2
<1>3. ASSUME NEW x \in Range(s) \cup Range(t)
      PROVE  \E n \in 1 .. Len(s) + Len(t) : (s \o t)[n] = x
  <2>1. CASE x \in Range(s)
    <3>1. PICK n \in 1 .. Len(s) : x = s[n]
      BY <2>1 DEF Range
    <3> QED
      BY <1>1, <3>1
  <2>2. CASE x \in Range(t)
    <3>1. PICK n \in 1 .. Len(t) : x = t[n]
      BY <2>2 DEF Range
    <3>2. Len(s) + n \in 1 .. Len(s) + Len(t)
      BY <1>1
    <3> QED
      BY <1>1, <3>1, <3>2
  <2> QED
    BY <2>1, <2>2
<1>4. DOMAIN (s \o t) = 1 .. Len(s) + Len(t)
  BY <1>1
<1> QED
  BY <1>2, <1>3, <1>4 DEF Range

\* The number of those in W.
Count(s, W) == Cardinality({n \in DOMAIN s : s[n] \in W})

LEMMA CountOfConcat ==
  ASSUME NEW V, NEW s \in Seq(V), NEW t \in Seq(V), NEW W
  PROVE  /\ Count(s, W) \in Nat /\ Count(t, W) \in Nat
         /\ Count(s \o t, W) = Count(s, W) + Count(t, W)
<1> DEFINE A == {n \in DOMAIN s : s[n] \in W}
           B == {n \in DOMAIN t : t[n] \in W}
           C == {n \in DOMAIN (s \o t) : (s \o t)[n] \in W}
           L == Len(s)
           shifted == [n \in B |-> L + n]
           D == {L + n : n \in B}
<1>1. /\ L \in Nat /\ Len(t) \in Nat /\ DOMAIN s = 1 .. L /\ DOMAIN t = 1 .. Len(t)
      /\ DOMAIN (s \o t) = 1 .. L + Len(t)
      /\ \A n \in 1 .. L : (s \o t)[n] = s[n]
      /\ \A n \in 1 .. Len(t) : (s \o t)[L + n] = t[n]
  OBVIOUS
<1>2. IsFiniteSet(A) /\ IsFiniteSet(B)
  <2>1. IsFiniteSet(1 .. L) /\ IsFiniteSet(1 .. Len(t))
    <3>1. 1 \in Int /\ L \in Int /\ Len(t) \in Int
      BY <1>1
    <3> HIDE DEF L
    <3> QED
      BY <3>1, FS_Interval
  <2>2. A \in SUBSET (1 .. L) /\ B \in SUBSET (1 .. Len(t))
    BY <1>1
  <2> HIDE DEF A, B, L
  <2> QED
    BY <2>1, <2>2, FS_Subset
<1>3. IsFiniteSet(D) /\ Cardinality(D) = Cardinality(B)
  <2>1. \A n \in B : n \in Nat
    BY <1>1
  <2>2. shifted \in Bijection(B, D)
    <3>1. shifted \in [B -> D] /\ \A d \in D : \E n \in B : shifted[n] = d
      OBVIOUS
    <3>2. \A m, n \in B : shifted[m] = shifted[n] => m = n
      BY <1>1, <2>1
    <3> HIDE DEF shifted, B, D
    <3> QED
      BY <3>1, <3>2 DEF Bijection, Injection, Surjection, IsInjective
  <2>3. ExistsBijection(B, D)
    <3> HIDE DEF shifted, B, D
    <3> QED
      BY <2>2 DEF ExistsBijection
  <2> HIDE DEF B, D
  <2> QED
    BY <1>2, <2>3, FS_Bijection
<1>4. C = A \cup D
  <2>1. ASSUME NEW n \in C
        PROVE  n \in A \cup D
    <3>1. n \in 1 .. L + Len(t) /\ (s \o t)[n] \in W
      BY <1>1
    <3>2. CASE n <= L
      <4>1. n \in 1 .. L
        BY <1>1, <3>1, <3>2
      <4> QED
        BY <1>1, <3>1, <4>1
    <3>3. CASE n > L
      <4>1. n - L \in 1 .. Len(t) /\ L + (n - L) = n
        BY <1>1, <3>1, <3>3
      <4>2. n - L \in B
        BY <1>1, <3>1, <4>1
      <4> QED
        BY <4>1, <4>2
    <3> QED
      BY <1>1, <3>1, <3>2, <3>3
  <2>2. A \subseteq C
    BY <1>1
  <2>3. ASSUME NEW n \in B
        PROVE  L + n \in C
    BY <1>1
  <2> QED
    BY <2>1, <2>2, <2>3
<1>5. A \cap D = {}
  BY <1>1
<1>6. Cardinality(A \cup D) = Cardinality(A) + Cardinality(D)
  <2>1. Cardinality(A \cup D) = Cardinality(A) + Cardinality(D) - Cardinality(A \cap D)
    <3> HIDE DEF A, D
    <3> QED
      BY <1>2, <1>3, FS_Union
  <2>2. Cardinality(A \cap D) = 0
    <3> HIDE DEF A, D
    <3> QED
      BY <1>5, FS_EmptySet
  <2>3. Cardinality(A) \in Nat /\ Cardinality(D) \in Nat
    <3> HIDE DEF A, D
    <3> QED
      BY <1>2, <1>3, FS_CardinalityType
  <2> HIDE DEF A, D
  <2> QED
    BY <2>1, <2>2, <2>3
<1>7. Cardinality(A) \in Nat /\ Cardinality(B) \in Nat
  <2> HIDE DEF A, B
  <2> QED
    BY <1>2, FS_CardinalityType
<1>8. Count(s, W) = Cardinality(A) /\ Count(t, W) = Cardinality(B) /\ Count(s \o t, W) = Cardinality(C)
  BY DEF Count
<1> HIDE DEF A, B, C, D
<1> QED
  BY <1>3, <1>4, <1>6, <1>7, <1>8

\* The rounds of FlattenSeq.
Flattens(r, seqs, V) ==
  /\ r \in [0 .. Len(seqs) -> Seq(V)]
  /\ r[0] = <<>>
  /\ \A n \in 1 .. Len(seqs) : r[n] = r[n - 1] \o seqs[n]
  /\ FlattenSeq(seqs) = r[Len(seqs)]

LEMMA FlattenRounds ==
  ASSUME NEW V, NEW seqs \in Seq(Seq(V))
  PROVE  \E r : Flattens(r, seqs, V)
<1> DEFINE N == Len(seqs)
           S == Seq(V)
           round == [n \in 1 .. N |-> [v \in S |-> v \o seqs[n]]]
           Equation(f) == f = [i \in 1 .. N |->
                                 IF i = 1 THEN seqs[i] ELSE f[i - 1] \o seqs[i]]
           flatten == CHOOSE f : Equation(f)
           start == <<>>
<1>1. N \in Nat /\ DOMAIN seqs = 1 .. N /\ \A n \in 1 .. N : seqs[n] \in S
  OBVIOUS
<1>2. round \in [1 .. N -> [S -> S]] /\ start \in S
  BY <1>1
<1>3. PICK f \in [SUBSET (1 .. N) -> S] : FoldOf(f, N, start, round)
  <2> HIDE DEF N, S, round, start
  <2> QED
    BY <1>1, <1>2, FoldsExist
<1>4. /\ f[{}] = start
      /\ \A n \in 1 .. N : f[1 .. n] = round[n][f[1 .. (n - 1)]] /\ f[1 .. n] \in S
  <2>1. f[{}] = start
    BY <1>3 DEF FoldOf
  <2>2. ASSUME NEW n \in 1 .. N
        PROVE  f[1 .. n] = round[n][f[1 .. (n - 1)]] /\ f[1 .. n] \in S
    <3>1. /\ Max(1 .. n) = n
          /\ 1 .. n \in SUBSET (1 .. N) /\ 1 .. n # {}
          /\ (1 .. n) \ {n} = 1 .. (n - 1)
      BY <1>1, UpTo
    <3> HIDE DEF round, start, S, N
    <3> QED
      BY <1>3, <3>1 DEF FoldOf
  <2> QED
    BY <2>1, <2>2
<1> DEFINE r == [n \in 0 .. N |-> f[1 .. n]]
<1>5. r[0] = <<>> /\ r \in [0 .. N -> S]
  <2>1. 1 .. 0 = {} /\ \A n \in 0 .. N : n = 0 \/ n \in 1 .. N
    BY <1>1
  <2>2. \A n \in 0 .. N : f[1 .. n] \in S
    <3> HIDE DEF S, N, round
    <3> QED
      BY <1>2, <1>4, <2>1
  <2>3. 0 \in 0 .. N
    BY <1>1
  <2> QED
    BY <1>4, <2>1, <2>2, <2>3
<1>6. ASSUME NEW n \in 1 .. N
      PROVE  r[n] = r[n - 1] \o seqs[n]
  <2>1. n \in 0 .. N /\ n - 1 \in 0 .. N
    BY <1>1
  <2>2. r[n] = round[n][r[n - 1]] /\ r[n - 1] \in S
    BY <1>4, <1>5, <2>1
  <2> HIDE DEF r
  <2> QED
    BY <2>2
<1> HIDE DEF r, start
<1>7. Equation([i \in 1 .. N |-> r[i]])
  <2>1. ASSUME NEW i \in 1 .. N
        PROVE  r[i] = IF i = 1 THEN seqs[i] ELSE [j \in 1 .. N |-> r[j]][i - 1] \o seqs[i]
    <3>1. CASE i = 1
      <4>1. 1 \in 1 .. N /\ 1 - 1 = 0
        BY <3>1
      <4>2. r[1] = r[0] \o seqs[1]
        BY <1>6, <4>1
      <4>3. seqs[1] \in Seq(V)
        BY <1>1, <4>1
      <4>4. <<>> \o seqs[1] = seqs[1]
        BY <4>3
      <4> QED
        BY <1>5, <3>1, <4>2, <4>4
    <3>2. CASE i # 1
      <4>1. i - 1 \in 1 .. N
        BY <1>1, <3>2
      <4> QED
        BY <1>6, <3>2, <4>1
    <3> QED
      BY <3>1, <3>2
  <2> QED
    BY <2>1
<1>8. Equation(flatten)
  <2> HIDE DEF Equation
  <2> QED
    BY <1>7
<1>9. FlattenSeq(seqs) = IF N = 0 THEN seqs ELSE flatten[N]
  BY DEF FlattenSeq
<1> HIDE DEF flatten
<1>10. \A n \in 1 .. N :
         flatten[n] = IF n = 1 THEN seqs[n] ELSE flatten[n - 1] \o seqs[n]
  BY <1>8
<1> HIDE DEF Equation
<1>11. \A n \in 1 .. N : flatten[n] = r[n]
  <2> DEFINE T == {n \in 0 .. N : n # 0 => flatten[n] = r[n]}
  <2>1. 0 \in T
    BY <1>1
  <2>2. ASSUME NEW n \in 1 .. N, n - 1 \in T
        PROVE  n \in T
    <3>1. r[n] = r[n - 1] \o seqs[n]
      BY <1>6
    <3>2. CASE n = 1
      <4>1. r[1] = seqs[1]
        <5>1. seqs[1] \in Seq(V)
          BY <1>1, <3>2
        <5>2. <<>> \o seqs[1] = seqs[1]
          BY <5>1
        <5>3. n - 1 = 0
          BY <3>2
        <5> QED
          BY <1>5, <3>1, <3>2, <5>2, <5>3
      <4> QED
        BY <1>1, <1>10, <3>2, <4>1
    <3>3. CASE n # 1
      <4>1. flatten[n] = flatten[n - 1] \o seqs[n]
        BY <1>10, <3>3
      <4>2. n - 1 # 0 /\ n \in 0 .. N
        BY <1>1, <3>3
      <4>3. flatten[n - 1] = r[n - 1]
        BY <2>2, <4>2
      <4> QED
        BY <3>1, <4>1, <4>2, <4>3
    <3> QED
      BY <3>2, <3>3
  <2> HIDE DEF T, N
  <2>3. 0 .. N \subseteq T
    BY <1>1, <2>1, <2>2, AllUpTo
  <2> QED
    BY <1>1, <2>3 DEF T
<1>12. FlattenSeq(seqs) = r[N]
  <2>1. CASE N = 0
    <3>1. seqs = <<>>
      BY <2>1
    <3> QED
      BY <1>5, <1>9, <2>1, <3>1
  <2>2. CASE N # 0
    <3>1. N \in 1 .. N
      BY <1>1, <2>2
    <3> QED
      BY <1>9, <1>11, <2>2, <3>1
  <2> QED
    BY <2>1, <2>2
<1> QED
  BY <1>5, <1>6, <1>12 DEF Flattens

LEMMA RangeOfFlatten ==
  ASSUME NEW V, NEW seqs \in Seq(Seq(V))
  PROVE  /\ FlattenSeq(seqs) \in Seq(V)
         /\ \A e : e \in Range(FlattenSeq(seqs)) <=> \E m \in DOMAIN seqs : e \in Range(seqs[m])
<1> DEFINE N == Len(seqs)
<1>1. N \in Nat /\ DOMAIN seqs = 1 .. N /\ \A n \in 1 .. N : seqs[n] \in Seq(V)
  OBVIOUS
<1>2. PICK r : Flattens(r, seqs, V)
  BY FlattenRounds
<1>3. /\ r \in [0 .. N -> Seq(V)] /\ r[0] = <<>> /\ FlattenSeq(seqs) = r[N]
      /\ \A n \in 1 .. N : r[n] = r[n - 1] \o seqs[n]
  BY <1>2 DEF Flattens
<1> DEFINE some(n) == UNION {Range(seqs[m]) : m \in 1 .. n}
           T == {n \in 0 .. N : Range(r[n]) = some(n)}
<1>4. 0 \in T
  <2>1. Range(r[0]) = {}
    BY <1>3 DEF Range
  <2>2. some(0) = {}
    OBVIOUS
  <2> QED
    BY <1>1, <2>1, <2>2
<1>5. ASSUME NEW n \in 1 .. N, n - 1 \in T
      PROVE  n \in T
  <2>1. n \in 0 .. N /\ n - 1 \in 0 .. N /\ r[n - 1] \in Seq(V) /\ seqs[n] \in Seq(V)
    <3>1. n \in 0 .. N /\ n - 1 \in 0 .. N
      BY <1>1
    <3> HIDE DEF N
    <3> QED
      BY <1>1, <1>3, <3>1, Zenon
  <2>2. Range(r[n - 1] \o seqs[n]) = Range(r[n - 1]) \cup Range(seqs[n])
    BY <2>1, RangeOfConcat, Zenon
  <2>3. some(n) = some(n - 1) \cup Range(seqs[n])
    <3>1. 1 .. n = (1 .. (n - 1)) \cup {n}
      BY <1>1
    <3> QED
      BY <3>1
  <2>4. Range(r[n - 1]) = some(n - 1)
    BY <1>5
  <2> HIDE DEF some
  <2> QED
    BY <1>3, <2>1, <2>2, <2>3, <2>4
<1>6. 0 .. N \subseteq T
  <2> HIDE DEF T, N
  <2> QED
    BY <1>1, <1>4, <1>5, AllUpTo
<1>7. Range(r[N]) = some(N) /\ r[N] \in Seq(V)
  <2>1. N \in 0 .. N
    BY <1>1
  <2> HIDE DEF N, some
  <2> QED
    BY <1>3, <1>6, <2>1
<1> QED
  BY <1>1, <1>3, <1>7

Continues(seqs, more) ==
  Len(seqs) <= Len(more) /\ \A n \in 1 .. Len(seqs) : more[n] = seqs[n]

LEMMA RoundsAgree ==
  ASSUME NEW V, NEW seqs \in Seq(Seq(V)), NEW more \in Seq(Seq(V)),
         Continues(seqs, more), NEW r, Flattens(r, seqs, V), NEW q, Flattens(q, more, V)
  PROVE  q[Len(seqs)] = r[Len(seqs)]
<1> DEFINE N == Len(seqs)
           T == {n \in 0 .. N : q[n] = r[n]}
<1>1. N \in Nat /\ \A n \in 1 .. N : n \in 1 .. Len(more) /\ more[n] = seqs[n]
  BY DEF Continues
<1>2. 0 \in T
  BY <1>1 DEF Flattens
<1>3. ASSUME NEW n \in 1 .. N, n - 1 \in T
      PROVE  n \in T
  <2>1. n \in 1 .. Len(more) /\ n \in 0 .. N /\ q[n - 1] = r[n - 1] /\ more[n] = seqs[n]
    BY <1>1, <1>3
  <2>2. q[n] = q[n - 1] \o more[n]
    BY <2>1, Zenon DEF Flattens
  <2>3. r[n] = r[n - 1] \o seqs[n]
    BY Zenon DEF Flattens
  <2> QED
    BY <2>1, <2>2, <2>3
<1>4. 0 .. N \subseteq T
  <2> HIDE DEF T, N
  <2> QED
    BY <1>1, <1>2, <1>3, AllUpTo
<1> QED
  BY <1>1, <1>4

LEMMA FlattenOfAppend ==
  ASSUME NEW V, NEW seqs \in Seq(Seq(V)), NEW t \in Seq(V)
  PROVE  FlattenSeq(Append(seqs, t)) = FlattenSeq(seqs) \o t
<1> DEFINE N == Len(seqs)
           more == Append(seqs, t)
<1>1. /\ N \in Nat /\ more \in Seq(Seq(V)) /\ Len(more) = N + 1
      /\ \A n \in 1 .. N : more[n] = seqs[n]
      /\ more[N + 1] = t
  OBVIOUS
<1> HIDE DEF more
<1>2. PICK r : Flattens(r, seqs, V)
  BY FlattenRounds
<1>3. PICK q : Flattens(q, more, V)
  BY <1>1, FlattenRounds
<1>4. q[N] = r[N]
  <2>1. Continues(seqs, more)
    BY <1>1 DEF Continues
  <2> QED
    BY <1>1, <1>2, <1>3, <2>1, RoundsAgree
<1>5. q[N + 1] = q[N] \o t
  <2>1. N + 1 \in 1 .. Len(more) /\ (N + 1) - 1 = N
    BY <1>1
  <2> QED
    BY <1>1, <1>3, <2>1 DEF Flattens
<1>6. FlattenSeq(more) = q[N + 1] /\ FlattenSeq(seqs) = r[N]
  BY <1>1, <1>2, <1>3 DEF Flattens
<1> QED
  BY <1>4, <1>5, <1>6 DEF more

LEMMA FlattenOfMore ==
  ASSUME NEW V, NEW s \in Seq(V), NEW seqs \in Seq(Seq(V))
  PROVE  FlattenSeq(<<s>> \o seqs) = s \o FlattenSeq(seqs)
<1> DEFINE N == Len(seqs)
           more == <<s>> \o seqs
<1>1. /\ N \in Nat /\ more \in Seq(Seq(V)) /\ Len(more) = N + 1
      /\ more[1] = s /\ \A n \in 1 .. N : more[n + 1] = seqs[n] /\ seqs[n] \in Seq(V)
  OBVIOUS
<1> HIDE DEF more
<1>2. PICK r : Flattens(r, seqs, V)
  BY FlattenRounds
<1>3. PICK q : Flattens(q, more, V)
  BY <1>1, FlattenRounds
<1>4. /\ r \in [0 .. N -> Seq(V)] /\ r[0] = <<>> /\ FlattenSeq(seqs) = r[N]
      /\ \A n \in 1 .. N : r[n] = r[n - 1] \o seqs[n]
  BY <1>2 DEF Flattens
<1>5. /\ q[0] = <<>> /\ FlattenSeq(more) = q[N + 1]
      /\ \A n \in 1 .. (N + 1) : q[n] = q[n - 1] \o more[n]
  BY <1>1, <1>3 DEF Flattens
<1> DEFINE T == {n \in 0 .. N : q[n + 1] = s \o r[n]}
<1>6. 0 \in T
  <2>1. 1 \in 1 .. (N + 1) /\ 1 - 1 = 0 /\ 0 + 1 = 1 /\ 0 \in 0 .. N
    BY <1>1
  <2>2. q[1] = q[0] \o s
    BY <1>1, <1>5, <2>1
  <2>3. q[0] \o s = s
    BY <1>5, ConcatEmptySeq
  <2>4. s \o r[0] = s
    BY <1>4, ConcatEmptySeq
  <2> QED
    BY <2>1, <2>2, <2>3, <2>4
<1>7. ASSUME NEW n \in 1 .. N, n - 1 \in T
      PROVE  n \in T
  <2>1. n + 1 \in 1 .. (N + 1) /\ (n + 1) - 1 = n /\ n \in 0 .. N /\ n - 1 \in 0 .. N /\ (n - 1) + 1 = n
    BY <1>1
  <2>2. q[n + 1] = q[n] \o seqs[n]
    BY <1>1, <1>5, <2>1
  <2>3. q[n] = s \o r[n - 1]
    BY <1>7, <2>1
  <2>4. r[n - 1] \in Seq(V) /\ seqs[n] \in Seq(V)
    <3> HIDE DEF N
    <3> QED
      BY <1>1, <1>4, <2>1, Zenon
  <2>5. (s \o r[n - 1]) \o seqs[n] = s \o (r[n - 1] \o seqs[n])
    <3> DEFINE p == r[n - 1]
               o == seqs[n]
    <3>1. p \in Seq(V) /\ o \in Seq(V)
      BY <2>4
    <3> HIDE DEF p, o
    <3>2. s \in Seq(V)
      OBVIOUS
    <3>3. (s \o p) \o o = s \o (p \o o)
      BY <3>1, <3>2, ConcatAssociative
    <3> QED
      BY <3>3 DEF p, o
  <2>6. r[n] = r[n - 1] \o seqs[n]
    BY <1>4
  <2> QED
    BY <2>1, <2>2, <2>3, <2>5, <2>6
<1>8. 0 .. N \subseteq T
  <2> HIDE DEF T, N
  <2> QED
    BY <1>1, <1>6, <1>7, AllUpTo
<1>9. q[N + 1] = s \o r[N]
  <2>1. N \in 0 .. N
    BY <1>1
  <2>2. N \in T
    BY <1>8, <2>1, Zenon
  <2> QED
    BY <2>2, Zenon
<1> QED
  BY <1>4, <1>5, <1>9 DEF more

-----------------------------------------------------------------------------
(***************************************************************************)
(* The coverage of what is expected: a line for each text, the missing     *)
(* ones first.                                                             *)
(***************************************************************************)
Names == Words \cup Keys \cup {Blank}

EntityKeys ==
  {Join(key, part) : key \in Names, part \in Names}
    \cup {Split[name] : name \in Names} \cup {<<"app">>}

Kinds ==
  Types \cup {"app", "dictionary_item", "field_option", "action_payload_field"}

Properties == {"name", "label", "message", "description"}

Entities == [type : Kinds, key : EntityKeys, property : Properties]

Expectation == [entity : Entities, default : Words \cup {Blank}]

HasPlaces(expected) == \A n \in DOMAIN expected : expected[n].entity \in DOMAIN Place

Answer(table, loc, fallback, expected, n) == ResolveText(table, loc, fallback, expected[n])

LinesOf(table, loc, fallback, expected) ==
  {Line(n, Answer(table, loc, fallback, expected, n)) : n \in DOMAIN expected}

LineOrder(S) == {p \in S \X S : SortsBefore(p[1], p[2])}

Unsaid(table, loc) == {e \in Expectation : Said(table, loc, e.entity) = Blank}

LEMMA TextsAreResolved ==
  ASSUME NEW table, NEW loc, NEW fallback, NEW e
  PROVE  LET i    == ResolveText(table, loc, fallback, e)
             said == Said(table, loc, e.entity)
         IN  /\ i.entity = e.entity
             /\ i.missing \in BOOLEAN
             /\ i.missing <=> said = Blank
             /\ said # Blank => i.text = said
<1> DEFINE said  == Said(table, loc, e.entity)
           other == Said(table, fallback, e.entity)
           i     == ResolveText(table, loc, fallback, e)
           As(text, from) == [entity |-> e.entity, text |-> text, from |-> from,
                              missing |-> from # "requested_locale"]
<1>1. i = IF said # Blank THEN As(said, "requested_locale")
          ELSE IF other # Blank THEN As(other, "fallback_locale")
          ELSE IF e.default # Blank THEN As(e.default, "default_field")
          ELSE As(HumanizeMetadataKey(e.entity.key), "humanized_key")
  BY DEF ResolveText
<1> HIDE DEF said, other, i
<1>2. CASE said # Blank
  <2>1. i = [entity |-> e.entity, text |-> said, from |-> "requested_locale",
             missing |-> FALSE]
    <3>1. ("requested_locale" # "requested_locale") = FALSE
      OBVIOUS
    <3> QED
      BY <1>1, <1>2, <3>1
  <2>2. i.entity = e.entity /\ i.text = said /\ i.missing = FALSE
    BY <2>1
  <2> QED
    BY <1>2, <2>2 DEF said, i
<1>3. CASE said = Blank
  <2>1. ASSUME NEW text, NEW from, from # "requested_locale", i = As(text, from)
        PROVE  i.entity = e.entity /\ i.missing = TRUE
    <3>1. (from # "requested_locale") = TRUE
      BY <2>1
    <3>2. i = [entity |-> e.entity, text |-> text, from |-> from, missing |-> TRUE]
      BY <2>1, <3>1
    <3> QED
      BY <3>2
  <2>2. /\ "fallback_locale" # "requested_locale" /\ "default_field" # "requested_locale"
        /\ "humanized_key" # "requested_locale"
    OBVIOUS
  <2>3. \/ i = As(other, "fallback_locale") \/ i = As(e.default, "default_field")
        \/ i = As(HumanizeMetadataKey(e.entity.key), "humanized_key")
    BY <1>1, <1>3
  <2> HIDE DEF As
  <2>4. i.entity = e.entity /\ i.missing = TRUE
    BY <2>1, <2>2, <2>3
  <2> QED
    BY <1>3, <2>4 DEF said, i
<1> QED
  BY <1>2, <1>3

LEMMA LinesOfTexts ==
  ASSUME NEW expected \in Seq(Expectation), HasPlaces(expected),
         NEW table, NEW loc, NEW fallback, NEW n \in DOMAIN expected
  PROVE  LET l == Line(n, Answer(table, loc, fallback, expected, n))
         IN  /\ l[1] \in Nat /\ l[2] \in Nat /\ l[3] = n /\ n \in Nat
             /\ l[1] = 0 <=> Said(table, loc, expected[n].entity) = Blank
             /\ l[1] = 0 <=> l[4].missing
             /\ l[4] = Answer(table, loc, fallback, expected, n)
<1> DEFINE i == Answer(table, loc, fallback, expected, n)
           e == expected[n]
<1>1. /\ i.entity = e.entity /\ i.missing \in BOOLEAN
      /\ i.missing <=> Said(table, loc, e.entity) = Blank
  BY TextsAreResolved DEF Answer
<1>2. Place[e.entity] \in Nat
  BY EntitiesHaveAPlace DEF HasPlaces
<1>3. n \in Nat
  OBVIOUS
<1> HIDE DEF i, e
<1>4. /\ Line(n, i)[1] = IF i.missing THEN 0 ELSE 1
      /\ Line(n, i)[2] = Place[i.entity]
      /\ Line(n, i)[3] = n /\ Line(n, i)[4] = i
  BY DEF Line
<1>5. Line(n, i)[1] \in Nat /\ (Line(n, i)[1] = 0 <=> i.missing)
  BY <1>1, <1>4
<1> QED
  BY <1>1, <1>2, <1>3, <1>4, <1>5 DEF i, e

LEMMA LinesAreListed ==
  ASSUME NEW expected \in Seq(Expectation), HasPlaces(expected),
         NEW table, NEW loc, NEW fallback
  PROVE  LET lines == LinesOf(table, loc, fallback, expected)
         IN  /\ IsFiniteSet(lines)
             /\ Lists(InOrder(lines, SortsBefore), lines, LineOrder(lines))
<1> DEFINE A(n) == Answer(table, loc, fallback, expected, n)
           S == LinesOf(table, loc, fallback, expected)
           R == LineOrder(S)
           image == [n \in DOMAIN expected |-> Line(n, A(n))]
<1>1. \A x \in S : \E n \in DOMAIN expected : x = Line(n, A(n))
  BY DEF LinesOf
<1>2. IsFiniteSet(S)
  <2>1. image \in Surjection(DOMAIN expected, S)
    BY DEF Surjection, LinesOf
  <2>2. IsFiniteSet(DOMAIN expected)
    <3>1. DOMAIN expected = 1 .. Len(expected) /\ 1 \in Int /\ Len(expected) \in Int
      OBVIOUS
    <3> QED
      BY <3>1, FS_Interval
  <2> HIDE DEF image, S
  <2> QED
    BY <2>1, <2>2, FS_Surjection
<1>3. \A x \in S : x[1] \in Nat /\ x[2] \in Nat /\ x[3] \in Nat
  <2>1. \A n \in DOMAIN expected :
          /\ Line(n, A(n))[1] \in Nat /\ Line(n, A(n))[2] \in Nat
          /\ Line(n, A(n))[3] \in Nat
    BY LinesOfTexts
  <2> HIDE DEF S, A
  <2> QED
    BY <1>1, <2>1
<1>4. \A x, y \in S : x[3] = y[3] => x = y
  <2>1. \A n \in DOMAIN expected : Line(n, A(n))[3] = n
    BY LinesOfTexts
  <2> HIDE DEF S, A
  <2> QED
    BY <1>1, <2>1
<1> HIDE DEF S
<1>5. \A x, y \in S : <<x, y>> \in R <=> SortsBefore(x, y)
  BY DEF LineOrder
<1> HIDE DEF R
<1>6. StrictOrder(S, R)
  <2>1. \A x \in S : <<x, x>> \notin R
    BY <1>3, <1>5 DEF SortsBefore
  <2>2. ASSUME NEW x \in S, NEW y \in S, NEW z \in S, <<x, y>> \in R, <<y, z>> \in R
        PROVE  <<x, z>> \in R
    <3>1. SortsBefore(x, y) /\ SortsBefore(y, z)
      BY <1>5, <2>2
    <3>2. /\ x[1] \in Nat /\ x[2] \in Nat /\ x[3] \in Nat
          /\ y[1] \in Nat /\ y[2] \in Nat /\ y[3] \in Nat
          /\ z[1] \in Nat /\ z[2] \in Nat /\ z[3] \in Nat
      BY <1>3
    <3>3. SortsBefore(x, z)
      BY <3>1, <3>2 DEF SortsBefore
    <3> QED
      BY <1>5, <3>3
  <2>3. ASSUME NEW x \in S, NEW y \in S, <<x, y>> \notin R, <<y, x>> \notin R
        PROVE  x = y
    <3>1. x[3] = y[3]
      BY <1>3, <1>5, <2>3 DEF SortsBefore
    <3> QED
      BY <1>4, <3>1
  <2> QED
    BY <2>1, <2>2, <2>3 DEF StrictOrder
<1>7. InOrder(S, SortsBefore) = Placed(S, R)
  <2>1. \A x \in S : {y \in S : SortsBefore(y, x)} = {y \in S : <<y, x>> \in R}
    BY <1>5
  <2> DEFINE before == {<<Cardinality({y \in S : SortsBefore(y, x)}), x>> : x \in S}
             related == {<<Cardinality({y \in S : <<y, x>> \in R}), x>> : x \in S}
  <2>2. before = related
    BY <2>1
  <2>3. InOrder(S, SortsBefore) = ByPlace(before, Cardinality(S))
    BY DEF InOrder, ByPlace
  <2>4. Placed(S, R) = ByPlace(related, Cardinality(S))
    BY DEF Placed, ByPlace
  <2> HIDE DEF before, related
  <2> QED
    BY <2>2, <2>3, <2>4
<1> QED
  BY <1>2, <1>6, <1>7, OrderLists DEF S, R

LEMMA InitialSegment ==
  ASSUME NEW N \in Nat, NEW P, P \subseteq 1 .. N,
         \A m \in P : \A n \in 1 .. N : n < m => n \in P
  PROVE  Cardinality(P) \in Nat /\ \A m \in 1 .. N : m \in P <=> m <= Cardinality(P)
<1>1. CASE P = {}
  <2>1. Cardinality(P) = 0
    BY <1>1, FS_EmptySet
  <2> QED
    BY <1>1, <2>1
<1>2. CASE P # {}
  <2> DEFINE M == Max(P)
  <2>1. M \in P /\ \A n \in P : n <= M
    <3>1. P \subseteq 0 .. N
      OBVIOUS
    <3> QED
      BY <1>2, <3>1, MaxOfNumbers
  <2> HIDE DEF M
  <2>2. P = 1 .. M /\ M \in Nat
    <3>1. M \in 1 .. N /\ M \in Nat
      BY <2>1
    <3>2. ASSUME NEW n \in 1 .. M
          PROVE  n \in P
      <4>1. n \in 1 .. N /\ (n = M \/ n < M)
        BY <3>1
      <4> QED
        BY <2>1, <4>1
    <3>3. \A n \in P : n \in 1 .. M
      BY <2>1, <3>1
    <3> QED
      BY <3>1, <3>2, <3>3
  <2>3. Cardinality(1 .. M) = M
    <3>1. 1 \in Int /\ M \in Int /\ (IF 1 > M THEN 0 ELSE M - 1 + 1) = M
      BY <2>2
    <3> QED
      BY <3>1, FS_Interval
  <2>4. Cardinality(P) = M
    BY <2>2, <2>3
  <2> QED
    BY <2>2, <2>4
<1> QED
  BY <1>1, <1>2

\* A coverage in terms of what is expected.
CoverageOf(table, loc, fallback, expected) ==
  LET lines   == LinesOf(table, loc, fallback, expected)
      ordered == InOrder(lines, SortsBefore)
  IN  [items   |-> [n \in DOMAIN ordered |-> ordered[n][4]],
       missing |-> Cardinality({l \in lines : l[4].missing}),
       total   |-> Len(expected)]

Covers(c, table, loc, fallback, expected) ==
  /\ c.missing \in Nat /\ c.missing = Count(expected, Unsaid(table, loc))
  /\ \A m \in DOMAIN c.items :
       /\ c.items[m].missing <=> m <= c.missing
       /\ \E n \in DOMAIN expected :
            c.items[m] = Answer(table, loc, fallback, expected, n)
  /\ \A n \in DOMAIN expected :
       \E m \in DOMAIN c.items :
         c.items[m] = Answer(table, loc, fallback, expected, n)

LEMMA ACoverageCovers ==
  ASSUME NEW expected \in Seq(Expectation), HasPlaces(expected),
         NEW table, NEW loc, NEW fallback
  PROVE  Covers(CoverageOf(table, loc, fallback, expected), table, loc, fallback, expected)
<1> DEFINE A(n) == Answer(table, loc, fallback, expected, n)
           S == LinesOf(table, loc, fallback, expected)
           R == LineOrder(S)
           o == InOrder(S, SortsBefore)
           N == Cardinality(S)
           P == {m \in 1 .. N : o[m][1] = 0}
           M == {l \in S : l[4].missing}
           Q == {n \in DOMAIN expected : expected[n] \in Unsaid(table, loc)}
           c == CoverageOf(table, loc, fallback, expected)
<1>1. IsFiniteSet(S) /\ Lists(o, S, R)
  BY LinesAreListed
<1>2. \A n \in DOMAIN expected :
        /\ n \in Nat /\ Line(n, A(n))[1] \in Nat /\ Line(n, A(n))[3] = n
        /\ Line(n, A(n))[1] = 0 <=> n \in Q
        /\ Line(n, A(n))[1] = 0 <=> Line(n, A(n))[4].missing
        /\ Line(n, A(n))[4] = A(n)
  <2>1. \A n \in DOMAIN expected : expected[n] \in Expectation
    OBVIOUS
  <2>2. \A n \in DOMAIN expected :
          n \in Q <=> Said(table, loc, expected[n].entity) = Blank
    BY <2>1 DEF Unsaid
  <2> HIDE DEF Q, A
  <2> QED
    BY <2>2, LinesOfTexts DEF A
<1>3. \A x \in S : \E n \in DOMAIN expected : x = Line(n, A(n))
  BY DEF LinesOf
<1>4. \A n \in DOMAIN expected : Line(n, A(n)) \in S
  BY DEF LinesOf
<1>5. \A x, y \in S : <<x, y>> \in R => SortsBefore(x, y)
  BY DEF LineOrder
<1>6. /\ c.items = [m \in DOMAIN o |-> o[m][4]] /\ c.missing = Cardinality(M)
  BY DEF CoverageOf
<1> HIDE DEF A, S, R, o, c, Q
<1>7. /\ N \in Nat /\ o \in [1 .. N -> S]
      /\ \A x \in S : \E n \in 1 .. N : o[n] = x
      /\ \A m, n \in 1 .. N : m < n => <<o[m], o[n]>> \in R /\ o[m] # o[n]
  <2>1. N \in Nat
    BY <1>1, FS_CardinalityType
  <2> QED
    BY <1>1, <2>1, Zenon DEF Lists
<1> HIDE DEF N
<1>8. \A x \in S : x[1] \in Nat /\ (x[1] = 0 <=> x[4].missing)
  BY <1>2, <1>3
<1>9. Cardinality(P) \in Nat /\ \A m \in 1 .. N : m \in P <=> m <= Cardinality(P)
  <2>1. ASSUME NEW m \in P, NEW n \in 1 .. N, n < m
        PROVE  n \in P
    <3>1. SortsBefore(o[n], o[m]) /\ o[n] \in S /\ o[m] \in S /\ o[m][1] = 0
      BY <1>5, <1>7, <2>1
    <3>2. o[n][1] \in Nat
      BY <1>8, <3>1
    <3>3. o[n][1] = 0
      BY <3>1, <3>2 DEF SortsBefore
    <3> QED
      BY <3>3
  <2>2. P \subseteq 1 .. N
    OBVIOUS
  <2> HIDE DEF P
  <2> QED
    BY <1>7, <2>1, <2>2, InitialSegment
<1>10. Cardinality(M) = Cardinality(P) /\ IsFiniteSet(M)
  <2> DEFINE line == [m \in P |-> o[m]]
  <2>1. line \in Bijection(P, M)
    <3>1. line \in [P -> M]
      BY <1>7, <1>8
    <3>2. \A m, n \in P : line[m] = line[n] => m = n
      <4>1. \A m, n \in P : m \in Nat /\ n \in Nat /\ (m = n \/ m < n \/ n < m)
        OBVIOUS
      <4> QED
        BY <1>7, <4>1
    <3>3. ASSUME NEW x \in M
          PROVE  \E m \in P : line[m] = x
      <4>1. PICK m \in 1 .. N : o[m] = x
        BY <1>7
      <4>2. x[1] = 0
        BY <1>8
      <4>3. m \in P
        BY <4>1, <4>2
      <4> QED
        BY <4>1, <4>3
    <3> HIDE DEF line, P, M
    <3> QED
      BY <3>1, <3>2, <3>3 DEF Bijection, Injection, Surjection, IsInjective
  <2>2. ExistsBijection(P, M)
    <3> HIDE DEF line, P, M
    <3> QED
      BY <2>1 DEF ExistsBijection
  <2>3. IsFiniteSet(P)
    <3>1. IsFiniteSet(1 .. N)
      <4>1. 1 \in Int /\ N \in Int
        BY <1>7
      <4> QED
        BY <4>1, FS_Interval
    <3>2. P \in SUBSET (1 .. N)
      OBVIOUS
    <3> HIDE DEF P
    <3> QED
      BY <3>1, <3>2, FS_Subset
  <2> HIDE DEF P, M
  <2> QED
    BY <2>2, <2>3, FS_Bijection
<1>11. Cardinality(M) = Cardinality(Q)
  <2> DEFINE line == [n \in Q |-> Line(n, A(n))]
  <2>0. Q \subseteq DOMAIN expected
    BY DEF Q
  <2>1. line \in Bijection(Q, M)
    <3>1. line \in [Q -> M]
      BY <1>2, <1>4, <2>0
    <3>2. \A m, n \in Q : line[m] = line[n] => m = n
      <4>1. \A n \in Q : line[n] = Line(n, A(n)) /\ Line(n, A(n))[3] = n
        BY <1>2, <2>0
      <4> HIDE DEF line
      <4> QED
        BY <4>1
    <3>3. ASSUME NEW x \in M
          PROVE  \E n \in Q : line[n] = x
      <4>1. PICK n \in DOMAIN expected : x = Line(n, A(n))
        BY <1>3
      <4>2. n \in Q
        BY <1>2, <4>1
      <4> QED
        BY <4>1, <4>2
    <3> HIDE DEF line, M
    <3> QED
      BY <3>1, <3>2, <3>3 DEF Bijection, Injection, Surjection, IsInjective
  <2>2. ExistsBijection(Q, M)
    <3> HIDE DEF line, M
    <3> QED
      BY <2>1 DEF ExistsBijection
  <2>3. IsFiniteSet(Q)
    <3>1. IsFiniteSet(DOMAIN expected)
      <4>1. DOMAIN expected = 1 .. Len(expected) /\ 1 \in Int /\ Len(expected) \in Int
        OBVIOUS
      <4> QED
        BY <4>1, FS_Interval
    <3>2. Q \in SUBSET DOMAIN expected
      BY <2>0
    <3> QED
      BY <3>1, <3>2, FS_Subset
  <2> HIDE DEF M
  <2> QED
    BY <2>2, <2>3, FS_Bijection
<1>12. c.missing \in Nat /\ c.missing = Count(expected, Unsaid(table, loc))
  BY <1>6, <1>9, <1>10, <1>11 DEF Q, Count
<1>13. DOMAIN c.items = 1 .. N /\ \A m \in 1 .. N : c.items[m] = o[m][4]
  BY <1>6, <1>7
<1>14. ASSUME NEW m \in DOMAIN c.items
       PROVE  /\ c.items[m].missing <=> m <= c.missing
              /\ \E n \in DOMAIN expected : c.items[m] = A(n)
  <2>1. m \in 1 .. N /\ c.items[m] = o[m][4] /\ o[m] \in S
    BY <1>7, <1>13, <1>14
  <2>2. o[m][4].missing <=> m \in P
    BY <1>8, <2>1
  <2>3. PICK n \in DOMAIN expected : o[m] = Line(n, A(n))
    BY <1>3, <2>1
  <2>4. c.items[m] = A(n)
    BY <1>2, <2>1, <2>3
  <2> HIDE DEF P, M
  <2> QED
    BY <1>6, <1>9, <1>10, <2>1, <2>2, <2>4
<1>15. ASSUME NEW n \in DOMAIN expected
       PROVE  \E m \in DOMAIN c.items : c.items[m] = A(n)
  <2>1. PICK m \in 1 .. N : o[m] = Line(n, A(n))
    BY <1>4, <1>7
  <2> QED
    BY <1>2, <1>13, <2>1
<1>16. Covers(c, table, loc, fallback, expected)
  BY <1>12, <1>14, <1>15, Zenon DEF Covers, A
<1> QED
  BY <1>16 DEF c

-----------------------------------------------------------------------------
(***************************************************************************)
(* What is expected of a catalog.                                          *)
(***************************************************************************)
LEMMA ExpectationsTyped ==
  ASSUME NEW type \in Kinds, NEW key \in EntityKeys, NEW property \in Properties,
         NEW default \in Words \cup {Blank}
  PROVE  /\ Expect(type, key, property, default) \in Expectation
         /\ Expect(type, key, property, default).entity =
              [type |-> type, key |-> key, property |-> property]
BY DEF Expect, Expectation, Entities

LEMMA NamesJoined ==
  ASSUME NEW key \in Names, NEW part \in Names
  PROVE  Join(key, part) \in EntityKeys /\ Split[key] \in EntityKeys
BY DEF EntityKeys

LEMMA DefinitionTyped ==
  ASSUME NEW d \in Definition
  PROVE  /\ d.type \in Types /\ d.type \in Kinds /\ d.key \in Words /\ d.key \in Names
         /\ d.name \in Words \cup {Blank} /\ d.title \in Words \cup {Blank}
         /\ d.description \in Words \cup {Blank}
         /\ d.parts \in Seq(Part) /\ d.items \in Seq(Item)
<1>1. d.type \in Types /\ d.key \in Words
  BY DEF Definition, ResourceKeys
<1>2. /\ d.name \in Words \cup {Blank} /\ d.title \in Words \cup {Blank}
      /\ d.description \in Words \cup {Blank}
      /\ d.parts \in Seq(Part) /\ d.items \in Seq(Item)
  BY DEF Definition
<1> QED
  BY <1>1, <1>2, Zenon DEF Kinds, Names

LEMMA KindsAndProperties ==
  /\ "app" \in Kinds /\ "dictionary_item" \in Kinds /\ "field_option" \in Kinds
  /\ "action_payload_field" \in Kinds
  /\ "name" \in Properties /\ "label" \in Properties
  /\ "message" \in Properties /\ "description" \in Properties
BY DEF Kinds, Properties

LEMMA ItemTextsTyped ==
  ASSUME NEW d \in Definition, NEW i \in Item
  PROVE  ItemTexts(d, i) \in Seq(Expectation)
<1>1. /\ i.key \in Names /\ i.value \in Names
      /\ i.label \in Words \cup {Blank} /\ i.description \in Words \cup {Blank}
  BY DEF Item, Names
<1>2. ItemKey(d, i) \in EntityKeys
  <2>1. Or(i.key, i.value) \in Names
    BY <1>1 DEF Or
  <2> QED
    BY <2>1, DefinitionTyped, NamesJoined DEF ItemKey
<1>3. \A property \in Properties, default \in Words \cup {Blank} :
        Expect("dictionary_item", ItemKey(d, i), property, default) \in Expectation
  BY <1>2, ExpectationsTyped, KindsAndProperties
<1>4. /\ Expect("dictionary_item", ItemKey(d, i), "label", i.label) \in Expectation
      /\ Expect("dictionary_item", ItemKey(d, i), "description", i.description) \in Expectation
  BY <1>1, <1>3, KindsAndProperties
<1> QED
  BY <1>4 DEF ItemTexts

LEMMA OptionTextsTyped ==
  ASSUME NEW d \in Definition, NEW o \in Part
  PROVE  OptionTexts(d, o) \in Seq(Expectation)
<1> DEFINE key == Or(o.value, o.key)
           Text(property, text) ==
             IF key = Blank \/ text = Blank THEN <<>>
             ELSE <<Expect("field_option", Join(d.key, key), property, text)>>
<1>1. /\ o.key \in Names /\ o.value \in Names
      /\ o.label \in Words \cup {Blank} /\ o.description \in Words \cup {Blank}
  BY DEF Part, Names
<1>2. key \in Names
  BY <1>1 DEF Or
<1>3. Join(d.key, key) \in EntityKeys
  BY <1>2, DefinitionTyped, NamesJoined
<1>4. ASSUME NEW property \in Properties, NEW text \in Words \cup {Blank}
      PROVE  Text(property, text) \in Seq(Expectation)
  <2>1. Expect("field_option", Join(d.key, key), property, text) \in Expectation
    BY <1>3, ExpectationsTyped, KindsAndProperties
  <2> HIDE DEF key
  <2> QED
    BY <2>1
<1>5. Text("label", o.label) \in Seq(Expectation) /\ Text("description", o.description) \in Seq(Expectation)
  <2> HIDE DEF Text
  <2> QED
    BY <1>1, <1>4, KindsAndProperties
<1>6. OptionTexts(d, o) = Text("label", o.label) \o Text("description", o.description)
  BY DEF OptionTexts
<1> HIDE DEF Text
<1> QED
  BY <1>5, <1>6

LEMMA PayloadFieldsTyped ==
  ASSUME NEW d \in Definition, NEW o \in Part
  PROVE  PayloadFieldText(d, o) \in Expectation
<1>1. o.key \in Names /\ o.label \in Words \cup {Blank}
  BY DEF Part, Names
<1>2. Join(d.key, o.key) \in EntityKeys
  BY <1>1, DefinitionTyped, NamesJoined
<1> QED
  BY <1>1, <1>2, ExpectationsTyped, KindsAndProperties DEF PayloadFieldText

\* The texts of the definition itself, and of its parts.
OwnText(d, property, text) == <<Expect(d.type, Split[d.key], property, text)>>

TextsOfParts(d)  == [n \in DOMAIN d.parts |-> OptionTexts(d, d.parts[n])]
TextsOfFields(d) == [n \in DOMAIN d.parts |-> PayloadFieldText(d, d.parts[n])]
TextsOfEntries(d) == [n \in DOMAIN d.items |-> ItemTexts(d, d.items[n])]

LEMMA TextsByType ==
  ASSUME NEW d \in Definition
  PROVE  LET name == Or(d.name, d.title)
         IN  /\ d.type \in {"object", "skill", "agent"} =>
                  DefinitionTexts(d) =
                    OwnText(d, "name", name) \o OwnText(d, "description", d.description)
             /\ d.type \in {"workflow", "report"} =>
                  DefinitionTexts(d) = OwnText(d, "name", name)
             /\ d.type = "validation" => DefinitionTexts(d) = OwnText(d, "message", name)
             /\ d.type = "field" =>
                  DefinitionTexts(d) = OwnText(d, "name", name) \o FlattenSeq(TextsOfParts(d))
             /\ d.type = "action" =>
                  DefinitionTexts(d) = OwnText(d, "label", name) \o TextsOfFields(d)
             /\ d.type = "dictionary" /\ d.readable =>
                  DefinitionTexts(d) =
                    OwnText(d, "name", Or(d.title, d.name))
                      \o OwnText(d, "description", d.description)
                      \o FlattenSeq(TextsOfEntries(d))
             /\ d.type = "dictionary" /\ ~d.readable => DefinitionTexts(d) = <<>>
             /\ d.type \notin Displayed => DefinitionTexts(d) = <<>>
<1> DEFINE t == d.type
           name == Or(d.name, d.title)
           named == OwnText(d, "name", name) \o OwnText(d, "description", d.description)
           short == OwnText(d, "name", name)
           message == OwnText(d, "message", name)
           field == OwnText(d, "name", name) \o FlattenSeq(TextsOfParts(d))
           action == OwnText(d, "label", name) \o TextsOfFields(d)
           entries == OwnText(d, "name", Or(d.title, d.name))
                        \o OwnText(d, "description", d.description)
                        \o FlattenSeq(TextsOfEntries(d))
<1>1. DefinitionTexts(d) =
        CASE t \in {"object", "skill", "agent"} -> named
          [] t \in {"workflow", "report"} -> short
          [] t = "validation" -> message
          [] t = "field" -> field
          [] t = "action" -> action
          [] t = "dictionary" /\ d.readable -> entries
          [] OTHER -> <<>>
  BY Zenon DEF DefinitionTexts, OwnText, TextsOfParts, TextsOfFields, TextsOfEntries
<1> HIDE DEF t, named, short, message, field, action, entries
<1>2. t \in {"object", "skill", "agent"} => DefinitionTexts(d) = named
  BY <1>1
<1>3. t \in {"workflow", "report"} => DefinitionTexts(d) = short
  BY <1>1
<1>4. t = "validation" => DefinitionTexts(d) = message
  BY <1>1
<1>5. t = "field" => DefinitionTexts(d) = field
  BY <1>1
<1>6. t = "action" => DefinitionTexts(d) = action
  BY <1>1
<1>7. t = "dictionary" /\ d.readable => DefinitionTexts(d) = entries
  BY <1>1
<1>8. t = "dictionary" /\ ~d.readable => DefinitionTexts(d) = <<>>
  BY <1>1
<1>9. t \notin Displayed => DefinitionTexts(d) = <<>>
  BY <1>1 DEF Displayed
<1> QED
  BY <1>2, <1>3, <1>4, <1>5, <1>6, <1>7, <1>8, <1>9, Zenon
     DEF t, named, short, message, field, action, entries

LEMMA FunctionsAreSequences ==
  ASSUME NEW V, NEW n \in Nat, NEW f \in [1 .. n -> V]
  PROVE  f \in Seq(V)
OBVIOUS

LEMMA PartsTyped ==
  ASSUME NEW d \in Definition
  PROVE  /\ TextsOfParts(d) \in Seq(Seq(Expectation))
         /\ TextsOfFields(d) \in Seq(Expectation)
         /\ TextsOfEntries(d) \in Seq(Seq(Expectation))
<1>1. \A n \in DOMAIN d.parts : d.parts[n] \in Part
  BY DefinitionTyped
<1>2. \A n \in DOMAIN d.items : d.items[n] \in Item
  BY DefinitionTyped
<1>3. /\ Len(d.parts) \in Nat /\ DOMAIN d.parts = 1 .. Len(d.parts)
      /\ Len(d.items) \in Nat /\ DOMAIN d.items = 1 .. Len(d.items)
  BY DefinitionTyped
<1>4. \A n \in 1 .. Len(d.parts) :
        OptionTexts(d, d.parts[n]) \in Seq(Expectation) /\ PayloadFieldText(d, d.parts[n]) \in Expectation
  BY <1>1, <1>3, OptionTextsTyped, PayloadFieldsTyped
<1>5. \A n \in 1 .. Len(d.items) : ItemTexts(d, d.items[n]) \in Seq(Expectation)
  BY <1>2, <1>3, ItemTextsTyped
<1>6. /\ TextsOfParts(d) \in [1 .. Len(d.parts) -> Seq(Expectation)]
      /\ TextsOfFields(d) \in [1 .. Len(d.parts) -> Expectation]
      /\ TextsOfEntries(d) \in [1 .. Len(d.items) -> Seq(Expectation)]
  BY <1>3, <1>4, <1>5 DEF TextsOfParts, TextsOfFields, TextsOfEntries
<1> QED
  BY <1>3, <1>6, FunctionsAreSequences

LEMMA OwnTextsTyped ==
  ASSUME NEW d \in Definition, NEW property \in Properties, NEW text \in Words \cup {Blank}
  PROVE  OwnText(d, property, text) \in Seq(Expectation)
<1>1. Split[d.key] \in EntityKeys
  BY DefinitionTyped, NamesJoined
<1>2. Expect(d.type, Split[d.key], property, text) \in Expectation
  BY <1>1, DefinitionTyped, ExpectationsTyped
<1> QED
  BY <1>2 DEF OwnText

LEMMA TextsTyped ==
  ASSUME NEW d \in Definition
  PROVE  DefinitionTexts(d) \in Seq(Expectation)
<1> DEFINE name == Or(d.name, d.title)
           title == Or(d.title, d.name)
           S == Seq(Expectation)
<1>1. name \in Words \cup {Blank} /\ title \in Words \cup {Blank} /\ d.description \in Words \cup {Blank}
  BY DefinitionTyped DEF Or
<1> HIDE DEF name, title, S
<1>2. \A property \in Properties, text \in Words \cup {Blank} : OwnText(d, property, text) \in S
  BY OwnTextsTyped DEF S
<1>3. /\ OwnText(d, "name", name) \in S /\ OwnText(d, "description", d.description) \in S
      /\ OwnText(d, "message", name) \in S /\ OwnText(d, "label", name) \in S
      /\ OwnText(d, "name", title) \in S
  BY <1>1, <1>2, KindsAndProperties
<1>4. /\ FlattenSeq(TextsOfParts(d)) \in S /\ TextsOfFields(d) \in S
      /\ FlattenSeq(TextsOfEntries(d)) \in S
  BY PartsTyped, RangeOfFlatten DEF S
<1>5. \A s, t \in S : s \o t \in S
  BY DEF S
<1>6. <<>> \in S
  BY DEF S
<1>7. \/ d.type \in {"object", "skill", "agent"} \/ d.type \in {"workflow", "report"}
      \/ d.type = "validation" \/ d.type = "field" \/ d.type = "action"
      \/ d.type = "dictionary" \/ d.type \notin Displayed
  BY DEF Displayed
<1>8. DefinitionTexts(d) \in S
  <2>1. CASE d.type \in {"object", "skill", "agent"}
    BY <1>3, <1>5, <2>1, TextsByType DEF name
  <2>2. CASE d.type \in {"workflow", "report"}
    BY <1>3, <2>2, TextsByType DEF name
  <2>3. CASE d.type = "validation"
    BY <1>3, <2>3, TextsByType DEF name
  <2>4. CASE d.type = "field"
    BY <1>3, <1>4, <1>5, <2>4, TextsByType DEF name
  <2>5. CASE d.type = "action"
    BY <1>3, <1>4, <1>5, <2>5, TextsByType DEF name
  <2>6. CASE d.type = "dictionary" /\ d.readable
    <3>1. OwnText(d, "name", title) \o OwnText(d, "description", d.description) \in S
      BY <1>3, <1>5, Zenon
    <3>2. OwnText(d, "name", title) \o OwnText(d, "description", d.description)
            \o FlattenSeq(TextsOfEntries(d)) \in S
      BY <1>4, <1>5, <3>1, Zenon
    <3>3. DefinitionTexts(d) = OwnText(d, "name", title)
            \o OwnText(d, "description", d.description) \o FlattenSeq(TextsOfEntries(d))
      BY <2>6, TextsByType, Zenon DEF title
    <3> QED
      BY <3>2, <3>3, Zenon
  <2>7. CASE d.type = "dictionary" /\ ~d.readable
    BY <1>6, <2>7, TextsByType
  <2>8. CASE d.type \notin Displayed
    BY <1>6, <2>8, TextsByType
  <2> QED
    BY <1>7, <2>1, <2>2, <2>3, <2>4, <2>5, <2>6, <2>7, <2>8
<1> QED
  BY <1>8 DEF S

\* A catalog, part by part.
AppText == <<Expect("app", <<"app">>, "name", Blank)>>

HeadTexts ==
  OwnText(Dictionary, "name", Or(Dictionary.title, Dictionary.name))
    \o OwnText(Dictionary, "description", Dictionary.description)

EntryTexts(its) == [n \in DOMAIN its |-> ItemTexts(Dictionary, its[n])]
OtherTexts(defs) == [n \in DOMAIN defs |-> DefinitionTexts(defs[n])]

Expected(its, defs) == LocalizedTextExpectedItems(Blank, Catalog(its, defs))

WithItems(its) == [Dictionary EXCEPT !.items = its]

LEMMA DictionaryWithItems ==
  ASSUME NEW its \in Seq(Item)
  PROVE  /\ WithItems(its) \in Definition
         /\ DefinitionTexts(WithItems(its)) = HeadTexts \o FlattenSeq(EntryTexts(its))
<1> DEFINE d == WithItems(its)
<1>1. Dictionary \in Definition /\ Dictionary.type = "dictionary" /\ Dictionary.readable
  BY CatalogsTyped
<1>2. /\ d \in Definition /\ d.items = its /\ d.type = "dictionary" /\ d.readable
      /\ d.key = Dictionary.key /\ d.type = Dictionary.type
      /\ d.title = Dictionary.title /\ d.name = Dictionary.name
      /\ d.description = Dictionary.description
  BY <1>1 DEF WithItems, Definition
<1> HIDE DEF d
<1>3. DefinitionTexts(d) = OwnText(d, "name", Or(d.title, d.name))
                             \o OwnText(d, "description", d.description)
                             \o FlattenSeq(TextsOfEntries(d))
  BY <1>2, TextsByType
<1>4. /\ OwnText(d, "name", Or(d.title, d.name)) =
           OwnText(Dictionary, "name", Or(Dictionary.title, Dictionary.name))
      /\ OwnText(d, "description", d.description) =
           OwnText(Dictionary, "description", Dictionary.description)
  BY <1>2, Zenon DEF OwnText
<1>5. \A i : ItemTexts(d, i) = ItemTexts(Dictionary, i)
  BY <1>2, Zenon DEF ItemTexts, ItemKey
<1>6. TextsOfEntries(d) = EntryTexts(its)
  BY <1>2, <1>5 DEF TextsOfEntries, EntryTexts
<1>7. DefinitionTexts(d) = HeadTexts \o FlattenSeq(EntryTexts(its))
  BY <1>3, <1>4, <1>6, Zenon DEF HeadTexts
<1> QED
  BY <1>2, <1>7 DEF d

LEMMA EntriesTyped ==
  ASSUME NEW its \in Seq(Item)
  PROVE  /\ EntryTexts(its) \in Seq(Seq(Expectation))
         /\ FlattenSeq(EntryTexts(its)) \in Seq(Expectation)
<1>1. Len(its) \in Nat /\ DOMAIN its = 1 .. Len(its) /\ \A n \in DOMAIN its : its[n] \in Item
  OBVIOUS
<1>2. \A n \in 1 .. Len(its) : ItemTexts(Dictionary, its[n]) \in Seq(Expectation)
  BY <1>1, CatalogsTyped, ItemTextsTyped
<1>3. EntryTexts(its) \in [1 .. Len(its) -> Seq(Expectation)]
  BY <1>1, <1>2 DEF EntryTexts
<1>4. EntryTexts(its) \in Seq(Seq(Expectation))
  BY <1>1, <1>3, FunctionsAreSequences
<1> QED
  BY <1>4, RangeOfFlatten

LEMMA OthersTyped ==
  ASSUME NEW defs \in Seq(Definition)
  PROVE  /\ OtherTexts(defs) \in Seq(Seq(Expectation))
         /\ FlattenSeq(OtherTexts(defs)) \in Seq(Expectation)
<1>1. Len(defs) \in Nat /\ DOMAIN defs = 1 .. Len(defs) /\ \A n \in DOMAIN defs : defs[n] \in Definition
  OBVIOUS
<1>2. \A n \in 1 .. Len(defs) : DefinitionTexts(defs[n]) \in Seq(Expectation)
  BY <1>1, TextsTyped
<1>3. OtherTexts(defs) \in [1 .. Len(defs) -> Seq(Expectation)]
  BY <1>1, <1>2 DEF OtherTexts
<1>4. OtherTexts(defs) \in Seq(Seq(Expectation))
  BY <1>1, <1>3, FunctionsAreSequences
<1> QED
  BY <1>4, RangeOfFlatten

LEMMA HeadsTyped ==
  AppText \in Seq(Expectation) /\ HeadTexts \in Seq(Expectation)
<1>1. AppText \in Seq(Expectation)
  <2>1. <<"app">> \in EntityKeys /\ Blank \in Words \cup {Blank}
    BY DEF EntityKeys
  <2>2. Expect("app", <<"app">>, "name", Blank) \in Expectation
    BY <2>1, ExpectationsTyped, KindsAndProperties
  <2> QED
    BY <2>2 DEF AppText
<1>2. /\ Or(Dictionary.title, Dictionary.name) \in Words \cup {Blank}
      /\ Dictionary.description \in Words \cup {Blank} /\ Dictionary \in Definition
  BY CatalogsTyped, DefinitionTyped DEF Or
<1>3. /\ OwnText(Dictionary, "name", Or(Dictionary.title, Dictionary.name)) \in Seq(Expectation)
      /\ OwnText(Dictionary, "description", Dictionary.description) \in Seq(Expectation)
  BY <1>2, OwnTextsTyped, KindsAndProperties
<1> QED
  BY <1>1, <1>3 DEF HeadTexts

LEMMA ExpectedOfCatalog ==
  ASSUME NEW its \in Seq(Item), NEW defs \in Seq(Definition)
  PROVE  /\ Expected(its, defs) \in Seq(Expectation)
         /\ Expected(its, defs) =
              AppText \o ((HeadTexts \o FlattenSeq(EntryTexts(its)))
                            \o FlattenSeq(OtherTexts(defs)))
<1> DEFINE C == Catalog(its, defs)
           N == Len(defs)
           all == [n \in DOMAIN C |-> DefinitionTexts(C[n])]
           d == WithItems(its)
           more == <<DefinitionTexts(d)>> \o OtherTexts(defs)
           S == Seq(Expectation)
<1>1. /\ N \in Nat /\ C \in Seq(Definition) /\ Len(C) = N + 1 /\ DOMAIN C = 1 .. (N + 1)
      /\ C[1] = d /\ \A n \in 1 .. N : C[n + 1] = defs[n]
  <2>1. d \in Definition
    BY DictionaryWithItems
  <2>2. C = <<d>> \o defs
    BY DEF Catalog, WithItems
  <2> HIDE DEF C, d
  <2> QED
    BY <2>1, <2>2
<1>2. /\ DefinitionTexts(d) \in S /\ OtherTexts(defs) \in Seq(S)
      /\ FlattenSeq(OtherTexts(defs)) \in S
  BY DictionaryWithItems, TextsTyped, OthersTyped
<1>3. /\ more \in Seq(S) /\ Len(more) = N + 1 /\ DOMAIN more = 1 .. (N + 1)
      /\ more[1] = DefinitionTexts(d)
      /\ \A n \in 1 .. N : more[n + 1] = DefinitionTexts(defs[n])
  <2>1. Len(OtherTexts(defs)) = N /\ \A n \in 1 .. N : OtherTexts(defs)[n] = DefinitionTexts(defs[n])
    BY <1>2 DEF OtherTexts
  <2> HIDE DEF S
  <2> QED
    BY <1>1, <1>2, <2>1
<1>4. all = more
  <2>1. ASSUME NEW n \in 1 .. (N + 1)
        PROVE  all[n] = more[n]
    <3>1. CASE n = 1
      BY <1>1, <1>3, <3>1
    <3>2. CASE n # 1
      <4>1. n - 1 \in 1 .. N /\ (n - 1) + 1 = n
        BY <1>1, <3>2
      <4>2. C[n] = defs[n - 1] /\ more[n] = DefinitionTexts(defs[n - 1])
        BY <1>1, <1>3, <4>1
      <4> HIDE DEF C, more
      <4> QED
        BY <1>1, <4>2
    <3> QED
      BY <3>1, <3>2
  <2>2. DOMAIN all = 1 .. (N + 1) /\ all = [n \in DOMAIN all |-> all[n]]
    BY <1>1
  <2>3. more = [n \in DOMAIN more |-> more[n]]
    BY <1>3
  <2> HIDE DEF all, more
  <2> QED
    BY <1>3, <2>1, <2>2, <2>3
<1>5. FlattenSeq(all) = DefinitionTexts(d) \o FlattenSeq(OtherTexts(defs))
  <2> HIDE DEF all, S
  <2>1. FlattenSeq(more) = DefinitionTexts(d) \o FlattenSeq(OtherTexts(defs))
    BY <1>2, FlattenOfMore DEF S
  <2> QED
    BY <1>4, <2>1, Zenon
<1>6. Expected(its, defs) = AppText \o FlattenSeq(all)
  BY Zenon DEF Expected, LocalizedTextExpectedItems, AppText
<1>7. DefinitionTexts(d) = HeadTexts \o FlattenSeq(EntryTexts(its))
  BY DictionaryWithItems
<1>8. FlattenSeq(all) \in S
  <2> HIDE DEF all, d
  <2> QED
    BY <1>2, <1>5
<1>9. AppText \o FlattenSeq(all) \in S
  <2> HIDE DEF all
  <2> QED
    BY <1>8, HeadsTyped
<1> HIDE DEF all, S, d
<1>10. Expected(its, defs) \in S
  BY <1>6, <1>9, Zenon
<1>11. Expected(its, defs) = AppText \o ((HeadTexts \o FlattenSeq(EntryTexts(its)))
                                           \o FlattenSeq(OtherTexts(defs)))
  BY <1>5, <1>6, <1>7, Zenon
<1> QED
  BY <1>10, <1>11, Zenon DEF S

\* What a catalog expects, and how much of it is of a kind.
LEMMA ExpectedParts ==
  ASSUME NEW its \in Seq(Item), NEW defs \in Seq(Definition)
  PROVE  /\ \A e : e \in Range(Expected(its, defs)) <=>
              \/ e \in Range(AppText) \/ e \in Range(HeadTexts)
              \/ \E n \in DOMAIN its : e \in Range(ItemTexts(Dictionary, its[n]))
              \/ \E n \in DOMAIN defs : e \in Range(DefinitionTexts(defs[n]))
         /\ \A W : Count(Expected(its, defs), W) =
              Count(AppText, W) + ((Count(HeadTexts, W) + Count(FlattenSeq(EntryTexts(its)), W))
                                     + Count(FlattenSeq(OtherTexts(defs)), W))
<1> DEFINE S == Seq(Expectation)
           a == AppText
           h == HeadTexts
           i == FlattenSeq(EntryTexts(its))
           o == FlattenSeq(OtherTexts(defs))
<1>1. a \in S /\ h \in S /\ i \in S /\ o \in S
  BY HeadsTyped, EntriesTyped, OthersTyped
<1>2. Expected(its, defs) = a \o ((h \o i) \o o)
  BY ExpectedOfCatalog
<1>3. /\ \A e : e \in Range(i) <=> \E n \in DOMAIN EntryTexts(its) : e \in Range(EntryTexts(its)[n])
      /\ \A e : e \in Range(o) <=> \E n \in DOMAIN OtherTexts(defs) : e \in Range(OtherTexts(defs)[n])
  BY EntriesTyped, OthersTyped, RangeOfFlatten
<1>4. /\ \A e : e \in Range(i) <=> \E n \in DOMAIN its : e \in Range(ItemTexts(Dictionary, its[n]))
      /\ \A e : e \in Range(o) <=> \E n \in DOMAIN defs : e \in Range(DefinitionTexts(defs[n]))
  <2>1. /\ DOMAIN EntryTexts(its) = DOMAIN its
        /\ \A n \in DOMAIN its : EntryTexts(its)[n] = ItemTexts(Dictionary, its[n])
        /\ DOMAIN OtherTexts(defs) = DOMAIN defs
        /\ \A n \in DOMAIN defs : OtherTexts(defs)[n] = DefinitionTexts(defs[n])
    BY DEF EntryTexts, OtherTexts
  <2> HIDE DEF i, o
  <2> QED
    BY <1>3, <2>1
<1> HIDE DEF a, h, i, o
<1>5. h \o i \in S /\ (h \o i) \o o \in S
  BY <1>1
<1>6. /\ Range(h \o i) = Range(h) \cup Range(i)
      /\ Range((h \o i) \o o) = Range(h \o i) \cup Range(o)
      /\ Range(a \o ((h \o i) \o o)) = Range(a) \cup Range((h \o i) \o o)
  <2>1. \A s \in S : \A t \in S : Range(s \o t) = Range(s) \cup Range(t)
    BY RangeOfConcat
  <2> HIDE DEF S
  <2>2. Range(h \o i) = Range(h) \cup Range(i)
    BY <1>1, <2>1, Zenon
  <2>3. Range((h \o i) \o o) = Range(h \o i) \cup Range(o)
    BY <1>1, <1>5, <2>1, Zenon
  <2>4. Range(a \o ((h \o i) \o o)) = Range(a) \cup Range((h \o i) \o o)
    BY <1>1, <1>5, <2>1, Zenon
  <2> QED
    BY <2>2, <2>3, <2>4
<1>7. ASSUME NEW W
      PROVE  /\ Count(h \o i, W) = Count(h, W) + Count(i, W)
             /\ Count((h \o i) \o o, W) = Count(h \o i, W) + Count(o, W)
             /\ Count(a \o ((h \o i) \o o), W) = Count(a, W) + Count((h \o i) \o o, W)
  BY <1>1, <1>5, CountOfConcat, Zenon
<1>8. Range(Expected(its, defs)) = Range(a) \cup ((Range(h) \cup Range(i)) \cup Range(o))
  BY <1>2, <1>6, Zenon
<1>9. ASSUME NEW e
      PROVE  e \in Range(Expected(its, defs)) <=>
               \/ e \in Range(a) \/ e \in Range(h)
               \/ \E n \in DOMAIN its : e \in Range(ItemTexts(Dictionary, its[n]))
               \/ \E n \in DOMAIN defs : e \in Range(DefinitionTexts(defs[n]))
  BY <1>4, <1>8, Zenon
<1>10. ASSUME NEW W
       PROVE  Count(Expected(its, defs), W) =
                Count(a, W) + ((Count(h, W) + Count(i, W)) + Count(o, W))
  BY <1>2, <1>7, Zenon
<1> QED
  BY <1>9, <1>10, Zenon DEF a, h, i, o

LEMMA CountsSome ==
  ASSUME NEW V, NEW s \in Seq(V), NEW W
  PROVE  /\ Count(s, W) \in Nat
         /\ \A x \in Range(s) : x \in W => Count(s, W) > 0
<1> DEFINE A == {n \in DOMAIN s : s[n] \in W}
<1>1. IsFiniteSet(A)
  <2>1. DOMAIN s = 1 .. Len(s) /\ 1 \in Int /\ Len(s) \in Int
    OBVIOUS
  <2>2. IsFiniteSet(DOMAIN s)
    BY <2>1, FS_Interval
  <2>3. A \in SUBSET DOMAIN s
    OBVIOUS
  <2> HIDE DEF A
  <2> QED
    BY <2>2, <2>3, FS_Subset
<1>2. Cardinality(A) \in Nat /\ (Cardinality(A) = 0 <=> A = {})
  <2> HIDE DEF A
  <2> QED
    BY <1>1, FS_CardinalityType, FS_EmptySet
<1>3. ASSUME NEW x \in Range(s), x \in W
      PROVE  A # {}
  BY <1>3 DEF Range
<1> HIDE DEF A
<1>4. Count(s, W) = Cardinality(A)
  BY DEF Count, A
<1> QED
  BY <1>2, <1>3, <1>4

LEMMA CatalogHasPlaces ==
  ASSUME NEW its \in Seq(Pool), NEW defs \in Seq(Definitions)
  PROVE  HasPlaces(Expected(its, defs))
<1> DEFINE P(s) == \A e \in Range(s) : e.entity \in DOMAIN Place
           none == <<>>
<1>1. \A s : (\A n \in DOMAIN s : s[n].entity \in DOMAIN Place) => P(s)
  BY DEF Range
<1>2. /\ P(LocalizedTextExpectedItems(Blank, <<WithItems(<<>>)>>))
      /\ \A i \in Pool : P(ItemTexts(Dictionary, i))
      /\ \A d \in Definitions : P(DefinitionTexts(d))
  <2> HIDE DEF P
  <2> QED
    BY <1>1, EntitiesHaveAPlace, Zenon DEF WithItems
<1>3. its \in Seq(Item) /\ defs \in Seq(Definition)
  BY CatalogsTyped
<1>4. none \in Seq(Item) /\ none \in Seq(Definition) /\ DOMAIN none = {}
  OBVIOUS
<1>5. Expected(none, none) = LocalizedTextExpectedItems(Blank, <<WithItems(<<>>)>>)
  <2>1. Catalog(none, none) = <<WithItems(none)>> \o none
    BY Zenon DEF Catalog, WithItems
  <2>2. <<WithItems(none)>> \o none = <<WithItems(none)>>
    <3>1. <<WithItems(none)>> \in Seq({WithItems(none)})
      OBVIOUS
    <3> QED
      BY <3>1, ConcatEmptySeq
  <2>3. Expected(none, none) = LocalizedTextExpectedItems(Blank, <<WithItems(none)>>)
    <3> HIDE DEF none
    <3> QED
      BY <2>1, <2>2, Zenon DEF Expected
  <2> QED
    BY <2>3
<1>6. P(Expected(none, none))
  <2> HIDE DEF P, none
  <2> QED
    BY <1>2, <1>5, Zenon
<1> HIDE DEF none
<1>7. P(AppText) /\ P(HeadTexts)
  <2>1. \A e : e \in Range(AppText) \/ e \in Range(HeadTexts) => e \in Range(Expected(none, none))
    BY <1>4, ExpectedParts
  <2> QED
    BY <1>6, <2>1
<1>8. ASSUME NEW e \in Range(Expected(its, defs))
      PROVE  e.entity \in DOMAIN Place
  <2>1. \/ e \in Range(AppText) \/ e \in Range(HeadTexts)
        \/ \E n \in DOMAIN its : e \in Range(ItemTexts(Dictionary, its[n]))
        \/ \E n \in DOMAIN defs : e \in Range(DefinitionTexts(defs[n]))
    BY <1>3, ExpectedParts
  <2>2. CASE e \in Range(AppText) \/ e \in Range(HeadTexts)
    BY <1>7, <2>2
  <2>3. CASE \E n \in DOMAIN its : e \in Range(ItemTexts(Dictionary, its[n]))
    <3>1. \A n \in DOMAIN its : its[n] \in Pool
      OBVIOUS
    <3> QED
      BY <1>2, <2>3, <3>1
  <2>4. CASE \E n \in DOMAIN defs : e \in Range(DefinitionTexts(defs[n]))
    <3>1. \A n \in DOMAIN defs : defs[n] \in Definitions
      OBVIOUS
    <3> QED
      BY <1>2, <2>4, <3>1
  <2> QED
    BY <2>1, <2>2, <2>3, <2>4
<1> QED
  BY <1>8 DEF HasPlaces, Range

-----------------------------------------------------------------------------
(***************************************************************************)
(* Theorems about the coverage.                                            *)
(***************************************************************************)
Other(fallback, loc) == IF fallback = loc THEN Blank ELSE fallback

LEMMA CatalogIsCovered ==
  ASSUME NEW its \in Seq(Pool), NEW defs \in Seq(Definitions),
         NEW loc, NEW fallback, NEW table
  PROVE  Covers(Coverage(loc, fallback, Blank, Catalog(its, defs), table),
                table, loc, Other(fallback, loc), Expected(its, defs))
<1>1. Expected(its, defs) \in Seq(Expectation) /\ HasPlaces(Expected(its, defs))
  <2>1. its \in Seq(Item) /\ defs \in Seq(Definition)
    BY CatalogsTyped
  <2> QED
    BY <2>1, ExpectedOfCatalog, CatalogHasPlaces
<1>2. Coverage(loc, fallback, Blank, Catalog(its, defs), table) =
        CoverageOf(table, loc, Other(fallback, loc), Expected(its, defs))
  BY Zenon DEF Coverage, LocalizedTextCoverage, CoverageOf, Expected, Other, LinesOf, Answer
<1> QED
  BY <1>1, <1>2, ACoverageCovers

\* Whatever the catalog, the texts and the locales: ResolveText never takes a
\* text of the fallback for a translation, and the sort of the coverage puts
\* what is missing, all of it, first.
THEOREM NoFallbackTranslates == Spec => []FallbackIsNoTranslation
<1>1. Written => FallbackIsNoTranslation
  <2> SUFFICES ASSUME Written PROVE FallbackIsNoTranslation
    OBVIOUS
  <2>1. \A fallback : Covers(Covered(fallback), texts, locale, Other(fallback, locale),
                             Expected(items, others))
    BY CatalogIsCovered DEF Covered, Written
  <2>2. \A fallback :
          /\ Covered(fallback).missing = Count(Expected(items, others), Unsaid(texts, locale))
          /\ \A n \in DOMAIN Covered(fallback).items :
               Covered(fallback).items[n].missing <=> n <= Covered(fallback).missing
    BY <2>1, Zenon DEF Covers
  <2> QED
    BY <2>2, Zenon DEF FallbackIsNoTranslation
<1> QED
  BY <1>1, WrittenAlways, PTL

LEMMA SomethingIsSaid ==
  ASSUME NEW table \in TextTables, NEW loc, NEW e
  PROVE  /\ loc # Blank => (Said(table, loc, e) = Blank <=> <<loc, e>> \notin DOMAIN table)
         /\ (loc = Blank \/ <<loc, e>> \notin DOMAIN table) => Said(table, loc, e) = Blank
BY StoredTextsAreSomething DEF Said

\* An item with a key is known by it.
LEMMA ItemsAreExpected ==
  ASSUME NEW i \in Item, i.key # Blank
  PROVE  \E e \in Range(ItemTexts(Dictionary, i)) :
           /\ e \in Expectation
           /\ e.entity = Entity("dictionary_item", Join(Dictionary.key, i.key), "label")
<1> DEFINE e == Expect("dictionary_item", ItemKey(Dictionary, i), "label", i.label)
           more == Expect("dictionary_item", ItemKey(Dictionary, i), "description", i.description)
<1>1. ItemKey(Dictionary, i) = Join(Dictionary.key, i.key)
  BY DEF ItemKey, Or
<1>2. ItemTexts(Dictionary, i) = <<e, more>>
  BY DEF ItemTexts
<1>3. e.entity = Entity("dictionary_item", Join(Dictionary.key, i.key), "label")
  BY <1>1 DEF Expect, Entity
<1> HIDE DEF e, more
<1>4. e \in Range(ItemTexts(Dictionary, i))
  <2>1. <<e, more>>[1] = e /\ 1 \in DOMAIN <<e, more>>
    OBVIOUS
  <2> QED
    BY <1>2, <2>1 DEF Range
<1>5. e \in Expectation
  <2>1. ItemTexts(Dictionary, i) \in Seq(Expectation)
    BY CatalogsTyped, ItemTextsTyped
  <2> QED
    BY <1>4, <2>1 DEF Range
<1> QED
  BY <1>3, <1>4, <1>5

LEMMA ResolvedHaveItems ==
  ASSUME NEW its \in Seq(Item), NEW loc, NEW table,
         NEW n \in DOMAIN Resolve(its, loc, table)
  PROVE  LET i == Resolve(its, loc, table)[n]
         IN  /\ i.key \in Keys
             /\ table[i.key].label # Blank => i.label = table[i.key].label
             /\ \E m \in DOMAIN its : its[m].key = i.key
<1>1. PICK N \in Nat : \E q : ListsActive(q, N, its, loc)
  BY ResolvedItems
<1>2. PICK o : ListsActive(o, N, its, loc)
  BY <1>1
<1> DEFINE i == Resolve(its, loc, table)[n]
           plain == o[n]
           k == plain.key
<1>3. n \in 1 .. N /\ i = WithTexts(plain, table) /\ plain \in Active(Merged(its, loc))
  <2>1. /\ o \in [1 .. N -> Active(Merged(its, loc))]
        /\ DictionaryItemsForLocale(its, loc) = o
    BY <1>2 DEF ListsActive
  <2>2. Resolve(its, loc, table) = [m \in DOMAIN o |-> WithTexts(o[m], table)]
    BY <2>1 DEF Resolve, LocalizeDictionaryItems
  <2> QED
    BY <2>1, <2>2
<1>4. plain \in Item /\ k \in Keys /\ DOMAIN Chain(its, loc, k) # {}
  BY <1>3, ActiveFit
<1> HIDE DEF plain, i
<1>5. i.key = k /\ i.label = Or(table[k].label, plain.label)
  <2>1. /\ WithTexts(plain, table).key = plain.key
        /\ WithTexts(plain, table).label = Or(table[plain.key].label, plain.label)
    BY <1>4 DEF WithTexts, Item
  <2> QED
    BY <1>3, <2>1, Zenon
<1>6. table[k].label # Blank => i.label = table[k].label
  BY <1>5 DEF Or
<1>7. \E m \in DOMAIN its : its[m].key = k
  BY <1>4, Zenon DEF Chain, DefaultsFor
<1> HIDE DEF k
<1>8. /\ i.key \in Keys
      /\ table[i.key].label # Blank => i.label = table[i.key].label
      /\ \E m \in DOMAIN its : its[m].key = i.key
  BY <1>4, <1>5, <1>6, <1>7, Zenon DEF k
<1> QED
  BY <1>8, Zenon DEF i

\* Whatever the dictionary, the catalog around it, the texts and the locale:
\* the coverage, which goes through the definitions, and the resolution, which
\* goes through the merged items, look the same text up.
THEOREM CoverageAndItemsAgree == Spec => []CoverageSpeaksOfItems
<1>1. Written => CoverageSpeaksOfItems
  <2> DEFINE resolved == Resolved
             c == Covered(Blank)
             table == TextsOfItems(texts, Dictionary.key, locale)
             expected == Expected(items, others)
             Label(i) == Entity("dictionary_item", Join(Dictionary.key, i.key), "label")
  <2> SUFFICES ASSUME Written, locale # Blank, NEW n \in DOMAIN resolved
               PROVE  LET i == resolved[n]
                          Lines == {m \in DOMAIN c.items : c.items[m].entity = Label(i)}
                      IN  /\ Lines # {}
                          /\ \A m \in Lines :
                               Within(Join(Dictionary.key, i.key), Dictionary.key) =>
                               IF c.items[m].missing
                               THEN <<locale, Label(i)>> \notin DOMAIN texts
                               ELSE i.label = c.items[m].text
    BY Zenon DEF CoverageSpeaksOfItems
  <2> DEFINE i == resolved[n]
             e == Label(i)
             said == Said(texts, locale, e)
             within == Within(Join(Dictionary.key, i.key), Dictionary.key)
  <2>1. /\ i.key \in Keys
        /\ table[i.key].label # Blank => i.label = table[i.key].label
        /\ \E m \in DOMAIN items : items[m].key = i.key
    <3>1. resolved = Resolve(items, locale, table)
      BY Zenon DEF Resolved
    <3>2. items \in Seq(Item)
      BY ItemsAreItems
    <3> HIDE DEF table, resolved
    <3> QED
      BY <3>1, <3>2, ResolvedHaveItems
  <2>2. Covers(c, texts, locale, Other(Blank, locale), expected)
    BY CatalogIsCovered DEF Covered, Written
  <2>3. texts \in TextTables /\ items \in Seq(Item) /\ others \in Seq(Definition)
    BY CatalogsTyped, ItemsAreItems DEF Written
  <2> HIDE DEF resolved, i, c, expected
  <2>4. within => table[i.key].label = said
    <3> HIDE DEF said
    <3>1. within => TextsOfItems(texts, Dictionary.key, locale)[i.key].label = said
      BY <2>1 DEF TextsOfItems, Entity, said
    <3> QED
      BY <3>1
  <2> HIDE DEF table
  <2>5. said = Blank <=> <<locale, e>> \notin DOMAIN texts
    BY <2>3, SomethingIsSaid
  <2>6. \E m \in DOMAIN expected : expected[m].entity = e
    <3>1. PICK m \in DOMAIN items : items[m].key = i.key
      BY <2>1
    <3>2. items[m] \in Item /\ items[m].key # Blank
      <4>1. items[m] \in Item
        BY <2>3
      <4> QED
        BY <2>1, <3>1, <4>1, BlankIsNothing
    <3>3. PICK x \in Range(ItemTexts(Dictionary, items[m])) :
            x.entity = Entity("dictionary_item", Join(Dictionary.key, items[m].key), "label")
      BY <3>2, ItemsAreExpected
    <3>4. x \in Range(expected)
      BY <2>3, <3>3, ExpectedParts DEF expected
    <3>5. x.entity = e
      BY <3>1, <3>3
    <3> QED
      BY <3>4, <3>5, Zenon DEF Range
  <2> HIDE DEF e, said, within
  <2>7. \A k \in DOMAIN expected :
          LET a == Answer(texts, locale, Other(Blank, locale), expected, k)
          IN  /\ a.entity = expected[k].entity
              /\ a.missing <=> Said(texts, locale, expected[k].entity) = Blank
              /\ Said(texts, locale, expected[k].entity) # Blank =>
                   a.text = Said(texts, locale, expected[k].entity)
    BY TextsAreResolved DEF Answer
  <2>8. \E m \in DOMAIN c.items : c.items[m].entity = e
    BY <2>2, <2>6, <2>7, Zenon DEF Covers
  <2>9. ASSUME NEW m \in DOMAIN c.items, c.items[m].entity = e
        PROVE  IF c.items[m].missing
               THEN <<locale, e>> \notin DOMAIN texts
               ELSE within => i.label = c.items[m].text
    <3>1. PICK k \in DOMAIN expected :
            c.items[m] = Answer(texts, locale, Other(Blank, locale), expected, k)
      BY <2>2, Zenon DEF Covers
    <3>2. /\ c.items[m].missing <=> said = Blank
          /\ said # Blank => c.items[m].text = said
      BY <2>7, <2>9, <3>1, Zenon DEF said
    <3> QED
      BY <2>1, <2>4, <2>5, <3>2, Zenon
  <2> QED
    BY <2>8, <2>9, Zenon DEF e, i, within
<1> QED
  BY <1>1, WrittenAlways, PTL

\* One more item, or one more definition.
LEMMA OneMoreItem ==
  ASSUME NEW its \in Seq(Item), NEW i \in Item, NEW defs \in Seq(Definition), NEW W
  PROVE  /\ Count(Expected(its, defs), W) \in Nat
         /\ Count(Expected(Append(its, i), defs), W) =
              Count(Expected(its, defs), W) + Count(ItemTexts(Dictionary, i), W)
<1> DEFINE S == Seq(Expectation)
           more == Append(its, i)
           t == ItemTexts(Dictionary, i)
           old == FlattenSeq(EntryTexts(its))
           new == FlattenSeq(EntryTexts(more))
           o == FlattenSeq(OtherTexts(defs))
<1>1. more \in Seq(Item)
  OBVIOUS
<1>2. AppText \in S /\ HeadTexts \in S /\ old \in S /\ new \in S /\ o \in S /\ t \in S
  BY <1>1, CatalogsTyped, HeadsTyped, EntriesTyped, OthersTyped, ItemTextsTyped
<1>3. EntryTexts(more) = Append(EntryTexts(its), t)
  <2>1. /\ Len(more) = Len(its) + 1 /\ DOMAIN more = 1 .. (Len(its) + 1) /\ Len(its) \in Nat
        /\ DOMAIN its = 1 .. Len(its)
        /\ \A n \in 1 .. Len(its) : more[n] = its[n]
        /\ more[Len(its) + 1] = i
    OBVIOUS
  <2> HIDE DEF more
  <2>2. EntryTexts(its) \in Seq(S)
    BY EntriesTyped
  <2>3. Len(EntryTexts(its)) = Len(its)
    BY <2>1, <2>2 DEF EntryTexts
  <2>4. /\ DOMAIN Append(EntryTexts(its), t) = 1 .. (Len(its) + 1)
        /\ \A n \in 1 .. Len(its) : Append(EntryTexts(its), t)[n] = EntryTexts(its)[n]
        /\ Append(EntryTexts(its), t)[Len(its) + 1] = t
        /\ Append(EntryTexts(its), t) \in Seq(S)
    <3> HIDE DEF t, S
    <3> QED
      BY <1>2, <2>1, <2>2, <2>3
  <2>5. \A n \in 1 .. (Len(its) + 1) : n \in 1 .. Len(its) \/ n = Len(its) + 1
    BY <2>1
  <2>6. \A n \in 1 .. (Len(its) + 1) : ItemTexts(Dictionary, more[n]) = Append(EntryTexts(its), t)[n]
    <3>1. \A n \in 1 .. Len(its) : EntryTexts(its)[n] = ItemTexts(Dictionary, its[n])
      BY <2>1 DEF EntryTexts
    <3> QED
      BY <2>1, <2>4, <2>5, <3>1, Zenon
  <2> DEFINE all == Append(EntryTexts(its), t)
             now == EntryTexts(more)
  <2>7. /\ now \in Seq(S) /\ DOMAIN now = 1 .. (Len(its) + 1)
        /\ \A n \in 1 .. (Len(its) + 1) : now[n] = ItemTexts(Dictionary, more[n])
    BY <1>1, <2>1, EntriesTyped DEF EntryTexts
  <2>8. /\ all \in Seq(S) /\ DOMAIN all = 1 .. (Len(its) + 1)
        /\ \A n \in 1 .. (Len(its) + 1) : all[n] = ItemTexts(Dictionary, more[n])
    BY <2>4, <2>6
  <2> HIDE DEF all, now, S
  <2>9. now = all
    BY <2>7, <2>8
  <2> QED
    BY <2>9 DEF all, now
<1>4. new = old \o t
  <2> HIDE DEF t, more
  <2> QED
    BY <1>2, <1>3, EntriesTyped, FlattenOfAppend
<1>5. Count(new, W) = Count(old, W) + Count(t, W)
  <2> HIDE DEF old, new, t
  <2> QED
    BY <1>2, <1>4, CountOfConcat
<1>6. /\ Count(AppText, W) \in Nat /\ Count(HeadTexts, W) \in Nat /\ Count(old, W) \in Nat
      /\ Count(o, W) \in Nat /\ Count(t, W) \in Nat
  <2> HIDE DEF old, new, t, o
  <2> QED
    BY <1>2, CountsSome
<1>7. /\ Count(Expected(its, defs), W) =
           Count(AppText, W) + ((Count(HeadTexts, W) + Count(old, W)) + Count(o, W))
      /\ Count(Expected(more, defs), W) =
           Count(AppText, W) + ((Count(HeadTexts, W) + Count(new, W)) + Count(o, W))
  BY <1>1, ExpectedParts
<1> HIDE DEF old, new, t, o, more
<1>8. /\ Count(Expected(its, defs), W) \in Nat
      /\ Count(Expected(more, defs), W) = Count(Expected(its, defs), W) + Count(t, W)
  BY <1>5, <1>6, <1>7
<1> QED
  BY <1>8 DEF more, t

LEMMA OneMoreDefinition ==
  ASSUME NEW its \in Seq(Item), NEW defs \in Seq(Definition), NEW d \in Definition, NEW W
  PROVE  /\ Count(Expected(its, defs), W) \in Nat
         /\ Count(Expected(its, Append(defs, d)), W) =
              Count(Expected(its, defs), W) + Count(DefinitionTexts(d), W)
<1> DEFINE S == Seq(Expectation)
           more == Append(defs, d)
           t == DefinitionTexts(d)
           old == FlattenSeq(OtherTexts(defs))
           new == FlattenSeq(OtherTexts(more))
           i == FlattenSeq(EntryTexts(its))
<1>1. more \in Seq(Definition)
  OBVIOUS
<1>2. AppText \in S /\ HeadTexts \in S /\ old \in S /\ new \in S /\ i \in S /\ t \in S
  BY <1>1, HeadsTyped, EntriesTyped, OthersTyped, TextsTyped
<1>3. OtherTexts(more) = Append(OtherTexts(defs), t)
  <2>1. /\ Len(more) = Len(defs) + 1 /\ DOMAIN more = 1 .. (Len(defs) + 1) /\ Len(defs) \in Nat
        /\ DOMAIN defs = 1 .. Len(defs)
        /\ \A n \in 1 .. Len(defs) : more[n] = defs[n]
        /\ more[Len(defs) + 1] = d
    OBVIOUS
  <2> HIDE DEF more
  <2>2. OtherTexts(defs) \in Seq(S)
    BY OthersTyped
  <2>3. Len(OtherTexts(defs)) = Len(defs)
    BY <2>1, <2>2 DEF OtherTexts
  <2>4. /\ DOMAIN Append(OtherTexts(defs), t) = 1 .. (Len(defs) + 1)
        /\ \A n \in 1 .. Len(defs) : Append(OtherTexts(defs), t)[n] = OtherTexts(defs)[n]
        /\ Append(OtherTexts(defs), t)[Len(defs) + 1] = t
        /\ Append(OtherTexts(defs), t) \in Seq(S)
    <3> HIDE DEF t, S
    <3> QED
      BY <1>2, <2>1, <2>2, <2>3
  <2>5. \A n \in 1 .. (Len(defs) + 1) : n \in 1 .. Len(defs) \/ n = Len(defs) + 1
    BY <2>1
  <2>6. \A n \in 1 .. (Len(defs) + 1) : DefinitionTexts(more[n]) = Append(OtherTexts(defs), t)[n]
    <3>1. \A n \in 1 .. Len(defs) : OtherTexts(defs)[n] = DefinitionTexts(defs[n])
      BY <2>1 DEF OtherTexts
    <3> QED
      BY <2>1, <2>4, <2>5, <3>1, Zenon
  <2> DEFINE all == Append(OtherTexts(defs), t)
             now == OtherTexts(more)
  <2>7. /\ now \in Seq(S) /\ DOMAIN now = 1 .. (Len(defs) + 1)
        /\ \A n \in 1 .. (Len(defs) + 1) : now[n] = DefinitionTexts(more[n])
    BY <1>1, <2>1, OthersTyped DEF OtherTexts
  <2>8. /\ all \in Seq(S) /\ DOMAIN all = 1 .. (Len(defs) + 1)
        /\ \A n \in 1 .. (Len(defs) + 1) : all[n] = DefinitionTexts(more[n])
    BY <2>4, <2>6
  <2> HIDE DEF all, now, S
  <2>9. now = all
    BY <2>7, <2>8
  <2> QED
    BY <2>9 DEF all, now
<1>4. new = old \o t
  <2> HIDE DEF t, more
  <2> QED
    BY <1>2, <1>3, OthersTyped, FlattenOfAppend
<1>5. Count(new, W) = Count(old, W) + Count(t, W)
  <2> HIDE DEF old, new, t
  <2> QED
    BY <1>2, <1>4, CountOfConcat
<1>6. /\ Count(AppText, W) \in Nat /\ Count(HeadTexts, W) \in Nat /\ Count(old, W) \in Nat
      /\ Count(i, W) \in Nat /\ Count(t, W) \in Nat
  <2> HIDE DEF old, new, t, i
  <2> QED
    BY <1>2, CountsSome
<1>7. /\ Count(Expected(its, defs), W) =
           Count(AppText, W) + ((Count(HeadTexts, W) + Count(i, W)) + Count(old, W))
      /\ Count(Expected(its, more), W) =
           Count(AppText, W) + ((Count(HeadTexts, W) + Count(i, W)) + Count(new, W))
  BY <1>1, ExpectedParts
<1> HIDE DEF old, new, t, i, more
<1>8. /\ Count(Expected(its, defs), W) \in Nat
      /\ Count(Expected(its, more), W) = Count(Expected(its, defs), W) + Count(t, W)
  BY <1>5, <1>6, <1>7
<1> QED
  BY <1>8 DEF more, t

\* A definition that is displayed is known by its key.
LEMMA DefinitionsAreExpected ==
  ASSUME NEW d \in Definition, IsDisplayed(d)
  PROVE  \E e \in Range(DefinitionTexts(d)) :
           e \in Expectation /\ e.entity = DefinitionEntity(d)
<1> DEFINE S == Seq(Expectation)
           name == Or(d.name, d.title)
           title == Or(d.title, d.name)
<1>1. name \in Words \cup {Blank} /\ title \in Words \cup {Blank} /\ d.description \in Words \cup {Blank}
  BY DefinitionTyped DEF Or
<1>2. /\ OwnText(d, "name", name) \in S /\ OwnText(d, "description", d.description) \in S
      /\ OwnText(d, "message", name) \in S /\ OwnText(d, "label", name) \in S
      /\ OwnText(d, "name", title) \in S
  <2> HIDE DEF name, title
  <2> QED
    BY <1>1, OwnTextsTyped, KindsAndProperties
<1>3. /\ FlattenSeq(TextsOfParts(d)) \in S /\ TextsOfFields(d) \in S
      /\ FlattenSeq(TextsOfEntries(d)) \in S
  BY PartsTyped, RangeOfFlatten
<1>4. ASSUME NEW property, NEW text
      PROVE  /\ Expect(d.type, Split[d.key], property, text) \in Range(OwnText(d, property, text))
             /\ Expect(d.type, Split[d.key], property, text).entity = Entity(d.type, Split[d.key], property)
  <2> DEFINE e == Expect(d.type, Split[d.key], property, text)
  <2>1. e.entity = Entity(d.type, Split[d.key], property)
    BY DEF Expect, Entity
  <2> HIDE DEF e
  <2>2. OwnText(d, property, text) = <<e>>
    BY Zenon DEF OwnText, e
  <2>3. <<e>>[1] = e /\ 1 \in DOMAIN <<e>>
    OBVIOUS
  <2>4. e \in Range(OwnText(d, property, text))
    BY <2>2, <2>3 DEF Range
  <2> QED
    BY <2>1, <2>4 DEF e
<1> HIDE DEF name, title
<1> DEFINE Has(s, property) == \E e \in Range(s) : e.entity = Entity(d.type, Split[d.key], property)
<1>5. \A property, text : Has(OwnText(d, property, text), property)
  BY <1>4, Zenon
<1>6. ASSUME NEW s \in S, NEW t \in S, NEW property, Has(s, property)
      PROVE  Has(s \o t, property)
  <2>1. Range(s \o t) = Range(s) \cup Range(t)
    BY RangeOfConcat
  <2> QED
    BY <1>6, <2>1, Zenon
<1>7. \A s, t \in S : s \o t \in S
  OBVIOUS
<1> HIDE DEF Has, S
<1>8. /\ d.type \in {"object", "skill", "agent"} => Has(DefinitionTexts(d), "name")
      /\ d.type \in {"workflow", "report"} => Has(DefinitionTexts(d), "name")
      /\ d.type = "validation" => Has(DefinitionTexts(d), "message")
      /\ d.type = "field" => Has(DefinitionTexts(d), "name")
      /\ d.type = "action" => Has(DefinitionTexts(d), "label")
      /\ d.type = "dictionary" /\ d.readable => Has(DefinitionTexts(d), "name")
  <2>1. CASE d.type \in {"object", "skill", "agent"}
    <3>1. DefinitionTexts(d) = OwnText(d, "name", name) \o OwnText(d, "description", d.description)
      BY <2>1, TextsByType, Zenon DEF name
    <3>2. Has(OwnText(d, "name", name) \o OwnText(d, "description", d.description), "name")
      BY <1>2, <1>3, <1>5, <1>6, Zenon
    <3>3. Has(DefinitionTexts(d), "name")
      BY <3>1, <3>2, Zenon
    <3> QED
      BY <2>1, <3>3
  <2>2. CASE d.type \in {"workflow", "report"}
    <3>1. DefinitionTexts(d) = OwnText(d, "name", name)
      BY <2>2, TextsByType, Zenon DEF name
    <3>2. Has(DefinitionTexts(d), "name")
      BY <1>5, <3>1, Zenon
    <3> QED
      BY <2>2, <3>2
  <2>3. CASE d.type = "validation"
    <3>1. DefinitionTexts(d) = OwnText(d, "message", name)
      BY <2>3, TextsByType, Zenon DEF name
    <3>2. Has(DefinitionTexts(d), "message")
      BY <1>5, <3>1, Zenon
    <3> QED
      BY <2>3, <3>2
  <2>4. CASE d.type = "field"
    <3>1. DefinitionTexts(d) = OwnText(d, "name", name) \o FlattenSeq(TextsOfParts(d))
      BY <2>4, TextsByType, Zenon DEF name
    <3>2. Has(OwnText(d, "name", name) \o FlattenSeq(TextsOfParts(d)), "name")
      BY <1>2, <1>3, <1>5, <1>6, Zenon
    <3>3. Has(DefinitionTexts(d), "name")
      BY <3>1, <3>2, Zenon
    <3> QED
      BY <2>4, <3>3
  <2>5. CASE d.type = "action"
    <3>1. DefinitionTexts(d) = OwnText(d, "label", name) \o TextsOfFields(d)
      BY <2>5, TextsByType, Zenon DEF name
    <3>2. Has(OwnText(d, "label", name) \o TextsOfFields(d), "label")
      BY <1>2, <1>3, <1>5, <1>6, Zenon
    <3>3. Has(DefinitionTexts(d), "label")
      BY <3>1, <3>2, Zenon
    <3> QED
      BY <2>5, <3>3
  <2>6. CASE d.type = "dictionary" /\ d.readable
    <3>1. DefinitionTexts(d) = OwnText(d, "name", title)
            \o OwnText(d, "description", d.description) \o FlattenSeq(TextsOfEntries(d))
      BY <2>6, TextsByType, Zenon DEF title
    <3>2. /\ Has(OwnText(d, "name", title) \o OwnText(d, "description", d.description), "name")
          /\ OwnText(d, "name", title) \o OwnText(d, "description", d.description) \in S
      BY <1>2, <1>5, <1>6, <1>7, Zenon
    <3>3. Has(DefinitionTexts(d), "name")
      BY <1>3, <1>6, <3>1, <3>2, Zenon
    <3> QED
      BY <2>6, <3>3
  <2> QED
    BY <2>1, <2>2, <2>3, <2>4, <2>5, <2>6
<1>9. \E e \in Range(DefinitionTexts(d)) : e.entity = DefinitionEntity(d)
  <2>1. \/ d.type \in {"object", "skill", "agent"} \/ d.type \in {"workflow", "report"}
        \/ d.type = "validation" \/ d.type = "field" \/ d.type = "action"
        \/ d.type = "dictionary" /\ d.readable
    BY DEF IsDisplayed, Displayed
  <2>2. /\ d.type = "validation" => DefinitionEntity(d) = Entity(d.type, Split[d.key], "message")
        /\ d.type = "action" => DefinitionEntity(d) = Entity(d.type, Split[d.key], "label")
        /\ d.type # "validation" /\ d.type # "action" =>
             DefinitionEntity(d) = Entity(d.type, Split[d.key], "name")
    BY DEF DefinitionEntity
  <2>3. /\ d.type = "validation" => Has(DefinitionTexts(d), "message")
        /\ d.type = "action" => Has(DefinitionTexts(d), "label")
        /\ d.type # "validation" /\ d.type # "action" => Has(DefinitionTexts(d), "name")
    BY <1>8, <2>1
  <2> QED
    BY <2>2, <2>3, Zenon DEF Has
<1>10. \A e \in Range(DefinitionTexts(d)) : e \in Expectation
  BY TextsTyped DEF Range
<1> QED
  BY <1>9, <1>10

LEMMA FrontAndLast ==
  ASSUME NEW V, NEW s \in Seq(V), s # <<>>
  PROVE  Front(s) \in Seq(V) /\ Last(s) \in V /\ s = Append(Front(s), Last(s))
<1> DEFINE N == Len(s)
<1>1. N \in Nat /\ N # 0 /\ N - 1 \in Nat /\ \A n \in 1 .. N : s[n] \in V
  OBVIOUS
<1>2. /\ Front(s) \in Seq(V) /\ Len(Front(s)) = N - 1
      /\ \A n \in 1 .. (N - 1) : Front(s)[n] = s[n]
  <2>1. Front(s) = [n \in 1 .. (N - 1) |-> s[n]]
    BY <1>1 DEF Front
  <2>2. [n \in 1 .. (N - 1) |-> s[n]] \in [1 .. (N - 1) -> V]
    BY <1>1
  <2> HIDE DEF N
  <2>3. Front(s) \in Seq(V)
    BY <1>1, <2>1, <2>2, FunctionsAreSequences
  <2>4. DOMAIN Front(s) = 1 .. (N - 1)
    BY <2>1
  <2>5. Len(Front(s)) = N - 1
    BY <1>1, <2>3, <2>4
  <2> QED
    BY <2>1, <2>3, <2>5
<1>3. Last(s) = s[N] /\ Last(s) \in V
  BY <1>1 DEF Last
<1> DEFINE f == Front(s)
           all == Append(f, Last(s))
<1>4. /\ all \in Seq(V) /\ Len(all) = N
      /\ \A n \in 1 .. N : all[n] = s[n]
  <2>1. /\ all \in Seq(V) /\ Len(all) = N
        /\ \A n \in 1 .. (N - 1) : all[n] = f[n]
        /\ all[N] = Last(s)
    <3> HIDE DEF f, N
    <3> QED
      BY <1>1, <1>2, <1>3 DEF f
  <2>2. \A n \in 1 .. N : n \in 1 .. (N - 1) \/ n = N
    BY <1>1
  <2> HIDE DEF all, N
  <2> QED
    BY <1>2, <1>3, <2>1, <2>2
<1> HIDE DEF all
<1>5. s = all
  BY <1>4, SeqEqual
<1> QED
  BY <1>2, <1>3, <1>5 DEF all

\* What lowers the coverage is a text that is not said.
LEMMA CoverageFalls ==
  ASSUME NEW its \in Seq(Pool), NEW defs \in Seq(Definitions),
         NEW its2 \in Seq(Pool), NEW defs2 \in Seq(Definitions),
         NEW loc, NEW table, NEW t \in Seq(Expectation),
         NEW e \in Range(t), e \in Expectation, Said(table, loc, e.entity) = Blank,
         Count(Expected(its, defs), Unsaid(table, loc)) \in Nat,
         Count(Expected(its2, defs2), Unsaid(table, loc)) =
           Count(Expected(its, defs), Unsaid(table, loc)) + Count(t, Unsaid(table, loc))
  PROVE  Coverage(loc, Blank, Blank, Catalog(its2, defs2), table).missing >
           Coverage(loc, Blank, Blank, Catalog(its, defs), table).missing
<1> DEFINE U == Unsaid(table, loc)
<1>1. e \in U
  BY DEF Unsaid
<1>2. Count(t, U) \in Nat /\ Count(t, U) > 0
  <2> HIDE DEF U
  <2> QED
    BY <1>1, CountsSome
<1>3. /\ Coverage(loc, Blank, Blank, Catalog(its, defs), table).missing = Count(Expected(its, defs), U)
      /\ Coverage(loc, Blank, Blank, Catalog(its2, defs2), table).missing = Count(Expected(its2, defs2), U)
  <2>1. /\ Covers(Coverage(loc, Blank, Blank, Catalog(its, defs), table),
                  table, loc, Other(Blank, loc), Expected(its, defs))
        /\ Covers(Coverage(loc, Blank, Blank, Catalog(its2, defs2), table),
                  table, loc, Other(Blank, loc), Expected(its2, defs2))
    BY CatalogIsCovered
  <2> QED
    BY <2>1, Zenon DEF Covers
<1> QED
  BY <1>2, <1>3

\* Whatever is added, in whatever catalog: the walk of LocalizedTextExpectedItems
\* leaves no item with a key and no definition of a displayed type out, save the
\* dictionaries it cannot read, so a new one lowers the coverage until its own
\* key is translated.
THEOREM NewKeysLowerCoverage == Spec => []NewKeyLowersCoverage
<1> DEFINE U == Unsaid(texts, locale)
<1>1. ASSUME Written, items # <<>>, Last(items).key # Blank
      PROVE  LowersCoverage(Catalog(Front(items), others), ItemEntity(Last(items)))
  <2> DEFINE i == Last(items)
             its == Front(items)
             t == ItemTexts(Dictionary, i)
  <2>1. /\ items \in Seq(Pool) /\ its \in Seq(Pool) /\ i \in Pool
        /\ items = Append(its, i)
    BY <1>1, FrontAndLast DEF Written
  <2>2. /\ its \in Seq(Item) /\ i \in Item /\ others \in Seq(Definition)
        /\ others \in Seq(Definitions) /\ texts \in TextTables
    BY <1>1, <2>1, CatalogsTyped DEF Written
  <2> HIDE DEF i, its
  <2>3. /\ Count(Expected(its, others), U) \in Nat
        /\ Count(Expected(items, others), U) = Count(Expected(its, others), U) + Count(t, U)
    <3> HIDE DEF U
    <3> QED
      BY <2>1, <2>2, OneMoreItem
  <2>4. PICK e \in Range(t) : e \in Expectation /\ e.entity = ItemEntity(i)
    BY <1>1, <2>2, ItemsAreExpected, Zenon DEF ItemEntity, i
  <2>5. t \in Seq(Expectation)
    BY <2>2, CatalogsTyped, ItemTextsTyped
  <2> SUFFICES ASSUME locale = Blank \/ <<locale, ItemEntity(i)>> \notin DOMAIN texts
               PROVE  Covered(Blank).missing >
                        Coverage(locale, Blank, Blank, Catalog(its, others), texts).missing
    BY Zenon DEF LowersCoverage, i, its
  <2>6. Said(texts, locale, e.entity) = Blank
    BY <2>2, <2>4, SomethingIsSaid
  <2> HIDE DEF t
  <2>7. Coverage(locale, Blank, Blank, Catalog(items, others), texts).missing >
          Coverage(locale, Blank, Blank, Catalog(its, others), texts).missing
    BY <2>1, <2>2, <2>3, <2>4, <2>5, <2>6, CoverageFalls
  <2> QED
    BY <2>7, Zenon DEF Covered
<1>2. ASSUME Written, others # <<>>, IsDisplayed(Last(others))
      PROVE  LowersCoverage(Catalog(items, Front(others)), DefinitionEntity(Last(others)))
  <2> DEFINE d == Last(others)
             defs == Front(others)
             t == DefinitionTexts(d)
  <2>1. /\ others \in Seq(Definitions) /\ defs \in Seq(Definitions) /\ d \in Definitions
        /\ others = Append(defs, d)
    BY <1>2, FrontAndLast DEF Written
  <2>2. /\ defs \in Seq(Definition) /\ d \in Definition /\ items \in Seq(Item)
        /\ items \in Seq(Pool) /\ texts \in TextTables
    BY <1>2, <2>1, CatalogsTyped DEF Written
  <2> HIDE DEF d, defs
  <2>3. /\ Count(Expected(items, defs), U) \in Nat
        /\ Count(Expected(items, others), U) = Count(Expected(items, defs), U) + Count(t, U)
    <3> HIDE DEF U
    <3> QED
      BY <2>1, <2>2, OneMoreDefinition
  <2>4. PICK e \in Range(t) : e \in Expectation /\ e.entity = DefinitionEntity(d)
    BY <1>2, <2>2, DefinitionsAreExpected, Zenon DEF d
  <2>5. t \in Seq(Expectation)
    BY <2>2, TextsTyped
  <2> SUFFICES ASSUME locale = Blank \/ <<locale, DefinitionEntity(d)>> \notin DOMAIN texts
               PROVE  Covered(Blank).missing >
                        Coverage(locale, Blank, Blank, Catalog(items, defs), texts).missing
    BY Zenon DEF LowersCoverage, d, defs
  <2>6. Said(texts, locale, e.entity) = Blank
    BY <2>2, <2>4, SomethingIsSaid
  <2> HIDE DEF t
  <2>7. Coverage(locale, Blank, Blank, Catalog(items, others), texts).missing >
          Coverage(locale, Blank, Blank, Catalog(items, defs), texts).missing
    BY <2>1, <2>2, <2>3, <2>4, <2>5, <2>6, CoverageFalls
  <2> QED
    BY <2>7, Zenon DEF Covered
<1>3. Written => NewKeyLowersCoverage
  BY <1>1, <1>2 DEF NewKeyLowersCoverage
<1> QED
  BY <1>3, WrittenAlways, PTL

=============================================================================
