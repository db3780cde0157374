----------------------------- MODULE OrderProofs -----------------------------
(***************************************************************************)
(* The order and the groups that TableOrder computes, for any schema: an   *)
(* order exists unless tables depend on each other in a circle, has every  *)
(* table once and after all that its statements read; and the groups keep  *)
(* it together, each duplicated table with its parent.                     *)
(***************************************************************************)
EXTENDS TableOrder, DataLemmas, FiniteSetTheorems

(***************************************************************************)
(* Sorting a finite set by distinct keys goes through all of it, once.     *)
(***************************************************************************)
LEMMA Sorted ==
  ASSUME NEW key, IsFiniteSet(DOMAIN key), \A x \in DOMAIN key : key[x] \in Nat \X Nat,
         \A x, y \in DOMAIN key : key[x] = key[y] => x = y
  PROVE  /\ InOrderOf(key) \in Seq(DOMAIN key)
         /\ Range(InOrderOf(key)) = DOMAIN key
         /\ IsInjective(InOrderOf(key))
<1> DEFINE D == DOMAIN key
           n == Cardinality(D)
           Below(x) == {y \in D : Sooner(key[y], key[x])}
           rank == [x \in D |-> Cardinality(Below(x))]
<1>1. n \in Nat
  BY FS_CardinalityType
<1>2. ASSUME NEW x \in D
      PROVE  /\ IsFiniteSet(Below(x)) /\ Cardinality(Below(x)) \in Nat
             /\ Cardinality(Below(x)) < n
  <2>1. Below(x) \in SUBSET D /\ x \notin Below(x)
    BY DEF Sooner
  <2>2. IsFiniteSet(Below(x)) /\ Cardinality(Below(x)) <= n /\ Cardinality(Below(x)) # n
    BY <2>1, FS_Subset
  <2> QED
    BY <1>1, <2>2, FS_CardinalityType
<1>3. ASSUME NEW x \in D, NEW y \in D, Sooner(key[x], key[y])
      PROVE  Cardinality(Below(x)) < Cardinality(Below(y))
  <2>1. Below(x) \subseteq Below(y) /\ x \in Below(y) /\ x \notin Below(x)
    BY <1>3 DEF Sooner
  <2>2. IsFiniteSet(Below(y)) /\ Below(x) \in SUBSET Below(y) /\ Below(x) # Below(y)
    BY <1>2, <2>1
  <2>3. Cardinality(Below(x)) <= Cardinality(Below(y)) /\ Cardinality(Below(x)) # Cardinality(Below(y))
    BY <2>2, FS_Subset
  <2>4. Cardinality(Below(x)) \in Nat /\ Cardinality(Below(y)) \in Nat
    BY <1>2
  <2> HIDE DEF Below
  <2> QED
    BY <2>3, <2>4
<1>4. \A x, y \in D : x # y => Sooner(key[x], key[y]) \/ Sooner(key[y], key[x])
  <2> SUFFICES ASSUME NEW x \in D, NEW y \in D, x # y
               PROVE  Sooner(key[x], key[y]) \/ Sooner(key[y], key[x])
    OBVIOUS
  <2>1. key[x] \in Nat \X Nat /\ key[y] \in Nat \X Nat /\ key[x] # key[y]
    OBVIOUS
  <2> QED
    BY <2>1 DEF Sooner
<1>5. \A x, y \in D : rank[x] = rank[y] => x = y
  <2> SUFFICES ASSUME NEW x \in D, NEW y \in D, x # y PROVE rank[x] # rank[y]
    OBVIOUS
  <2>1. Cardinality(Below(x)) \in Nat /\ Cardinality(Below(y)) \in Nat
    BY <1>2
  <2>2. Cardinality(Below(x)) < Cardinality(Below(y)) \/ Cardinality(Below(y)) < Cardinality(Below(x))
    BY <1>3, <1>4
  <2> QED
    BY <2>1, <2>2
<1>6. rank \in [D -> 0..(n - 1)]
  <2>1. ASSUME NEW x \in D PROVE Cardinality(Below(x)) \in 0..(n - 1)
    <3>1. Cardinality(Below(x)) \in Nat /\ Cardinality(Below(x)) < n
      BY <1>2
    <3> HIDE DEF Below, n
    <3> QED
      BY <1>1, <3>1
  <2> HIDE DEF Below, n
  <2> QED
    BY <2>1
<1>7. rank \in Injection(D, 0..(n - 1))
  BY <1>5, <1>6 DEF Injection, IsInjective
<1>8. IsFiniteSet(0..(n - 1)) /\ Cardinality(0..(n - 1)) = n
  <2>1. 0 \in Int /\ n - 1 \in Int
    BY <1>1
  <2> QED
    BY <1>1, <2>1, FS_Interval
<1>9. rank \in Surjection(D, 0..(n - 1))
  BY <1>7, <1>8, FS_Injection
<1>10. \A j \in 0..(n - 1) : \E x \in D : rank[x] = j
  BY <1>9 DEF Surjection
<1> DEFINE Nth(i) == CHOOSE x \in D : Cardinality(Below(x)) = i - 1
           s == [i \in 1..n |-> Nth(i)]
<1>11. InOrderOf(key) = s
  BY DEF InOrderOf
<1>12. ASSUME NEW i \in 1..n PROVE s[i] \in D /\ rank[s[i]] = i - 1
  <2>1. i - 1 \in 0..(n - 1)
    BY <1>1
  <2>2. \E x \in D : Cardinality(Below(x)) = i - 1
    BY <1>10, <2>1
  <2> QED
    BY <2>2
<1>13. DOMAIN s = 1..n /\ s = [i \in 1..n |-> s[i]]
  <2> HIDE DEF Nth, n
  <2> QED
    OBVIOUS
<1> HIDE DEF s, rank, n, Nth
<1>14. s \in Seq(D)
  <2>1. \A i \in 1..n : s[i] \in D
    BY <1>12
  <2> QED
    BY <1>1, <1>13, <2>1
<1>15. D \subseteq Range(s)
  <2> SUFFICES ASSUME NEW x \in D PROVE \E i \in 1..n : s[i] = x
    BY <1>13 DEF Range
  <2>1. rank[x] \in 0..(n - 1)
    BY <1>6
  <2>2. rank[x] + 1 \in 1..n /\ (rank[x] + 1) - 1 = rank[x]
    BY <1>1, <2>1
  <2>3. rank[s[rank[x] + 1]] = rank[x] /\ s[rank[x] + 1] \in D
    BY <1>12, <2>2
  <2> QED
    BY <1>5, <2>2, <2>3
<1>16. Range(s) \subseteq D
  BY <1>12, <1>13 DEF Range
<1>17. IsInjective(s)
  <2> SUFFICES ASSUME NEW i \in 1..n, NEW j \in 1..n, s[i] = s[j] PROVE i = j
    BY <1>13 DEF IsInjective
  <2>1. i - 1 = j - 1
    BY <1>12
  <2> QED
    BY <1>1, <2>1
<1> QED
  BY <1>11, <1>14, <1>15, <1>16, <1>17

-----------------------------------------------------------------------------
(***************************************************************************)
(* A recursive function over the numbers to n exists, whatever the step,   *)
(* so that it is what its definition says.                                 *)
(***************************************************************************)
LEMMA RoundsDef ==
  ASSUME NEW sch, Cardinality(Known(sch)) \in Nat
  PROVE  /\ Rounds(sch)[0] = [order |-> <<>>, ready |-> FirstReady(sch)]
         /\ \A k \in 0..(Cardinality(Known(sch)) - 1) :
              Rounds(sch)[k + 1] = Yield(sch, Rounds(sch)[k])
<1> DEFINE N == Cardinality(Known(sch))
           First == [order |-> <<>>, ready |-> FirstReady(sch)]
           Next(st) == Yield(sch, st)
           Is(g, n) == g = [k \in 0..n |-> IF k = 0 THEN First ELSE Next(g[k - 1])]
           S == {n \in Nat : \E g : Is(g, n)}
<1> HIDE DEF First, Next
<1>1. 0 \in S
  <2>1. [k \in 0..0 |-> First] = [k \in 0..0 |-> IF k = 0 THEN First ELSE Next([j \in 0..0 |-> First][k - 1])]
    OBVIOUS
  <2> QED
    BY <2>1
<1>2. ASSUME NEW n \in Nat, n \in S PROVE n + 1 \in S
  <2>1. PICK g : Is(g, n)
    BY <1>2
  <2> DEFINE h == [k \in 0..(n + 1) |-> IF k = n + 1 THEN Next(g[n]) ELSE g[k]]
  <2>2. ASSUME NEW k \in 0..(n + 1) PROVE h[k] = IF k = 0 THEN First ELSE Next(h[k - 1])
    <3>1. CASE k = n + 1
      BY <3>1
    <3>2. CASE k # n + 1
      <4>1. k \in 0..n /\ h[k] = g[k] /\ (k # 0 => k - 1 \in 0..(n + 1) /\ k - 1 # n + 1)
        BY <3>2
      <4> QED
        BY <2>1, <4>1
    <3> QED
      BY <3>1, <3>2
  <2>3. h = [k \in 0..(n + 1) |-> h[k]]
    OBVIOUS
  <2> HIDE DEF h
  <2>4. h = [k \in 0..(n + 1) |-> IF k = 0 THEN First ELSE Next(h[k - 1])]
    BY <2>2, <2>3
  <2> QED
    BY <2>4
<1>3. N \in S
  <2>1. Nat \subseteq S
    <3> HIDE DEF S
    <3> QED
      BY <1>1, <1>2, SetInduction
  <2> QED
    BY <2>1
<1>4. \E g : Is(g, N)
  BY <1>3
<1>5. Is(CHOOSE g : Is(g, N), N)
  <2> HIDE DEF Is
  <2> QED
    BY <1>4
<1>6. Rounds(sch) = CHOOSE g : Is(g, N)
  BY DEF Rounds, First, Next
<1>7. Is(Rounds(sch), N)
  <2> HIDE DEF Is
  <2> QED
    BY <1>5, <1>6
<1> HIDE DEF N
<1>8. \A k \in 0..N : Rounds(sch)[k] = IF k = 0 THEN First ELSE Next(Rounds(sch)[k - 1])
  BY <1>7
<1> QED
  <2>1. N \in Nat
    BY DEF N
  <2>2. Rounds(sch)[0] = First
    BY <1>8, <2>1
  <2>3. \A k \in 0..(N - 1) : Rounds(sch)[k + 1] = Next(Rounds(sch)[k])
    BY <1>8, <2>1
  <2> QED
    BY <2>2, <2>3 DEF First, Next, N

-----------------------------------------------------------------------------
(***************************************************************************)
(* What depends on what.                                                   *)
(***************************************************************************)
Others(sch) == {f.other : f \in sch.fields}

LEMMA ParentTyped ==
  ASSUME NEW sch, IsSchema(sch), ~Rejected(sch), NEW t \in TableSet(sch), IsDuplicated(sch, t)
  PROVE  /\ ParentOf(sch, t) \in TableSet(sch)
         /\ \A f \in sch.fields : f.other = t => f.table = ParentOf(sch, t)
<1>1. Cardinality(FieldsTo(sch, t)) = 1
  BY DEF Rejected
<1>2. IsFiniteSet(FieldsTo(sch, t))
  <2>1. IsFiniteSet(sch.fields) /\ FieldsTo(sch, t) \in SUBSET sch.fields
    BY DEF IsSchema, FieldsTo
  <2> QED
    BY <2>1, FS_Subset
<1>3. \E g : FieldsTo(sch, t) = {g}
  BY <1>1, <1>2, FS_Singleton
<1>4. PICK g : FieldsTo(sch, t) = {g}
  BY <1>3
<1>5. (CHOOSE f \in FieldsTo(sch, t) : TRUE) = g
  BY <1>4
<1>6. ParentOf(sch, t) = g.table
  BY <1>5 DEF ParentOf
<1> QED
  BY <1>4, <1>6 DEF FieldsTo, IsSchema

LEMMA DependenciesTyped ==
  ASSUME NEW sch, IsSchema(sch), ~Rejected(sch), NEW t \in TableSet(sch)
  PROVE  \A x \in Dependencies(sch, t) :
           (x \in sch.reused /\ x \in Others(sch)) \/ x \in TableSet(sch)
  BY ParentTyped DEF Dependencies, Others, FieldsOf, IsDuplicated

LEMMA KnownTyped ==
  ASSUME NEW sch, IsSchema(sch), ~Rejected(sch)
  PROVE  /\ IsFiniteSet(Known(sch)) /\ Known(sch) \subseteq Nat \ {0}
         /\ TableSet(sch) \subseteq Known(sch)
         /\ \A t \in TableSet(sch) : Dependencies(sch, t) \subseteq Known(sch)
         /\ \A x \in Known(sch) \ TableSet(sch) : Dependencies(sch, x) = {}
<1>1. IsFiniteSet(TableSet(sch)) /\ TableSet(sch) \subseteq Nat \ {0}
  <2>1. sch.tables \in Seq(Nat \ {0}) /\ Len(sch.tables) \in Nat /\ DOMAIN sch.tables = 1..Len(sch.tables)
    BY DEF IsSchema
  <2>2. IsFiniteSet(1..Len(sch.tables))
    BY <2>1, FS_Interval
  <2>3. sch.tables \in Surjection(1..Len(sch.tables), TableSet(sch))
    BY <2>1 DEF TableSet, Range, Surjection
  <2>4. IsFiniteSet(TableSet(sch))
    BY <2>2, <2>3, FS_Surjection
  <2> QED
    BY <2>1, <2>4 DEF TableSet, Range
<1>2. IsFiniteSet(Others(sch)) /\ Others(sch) \subseteq Nat \ {0}
  <2>1. IsFiniteSet(sch.fields) /\ \A f \in sch.fields : f.other \in Nat \ {0}
    BY DEF IsSchema
  <2> DEFINE other == [f \in sch.fields |-> f.other]
  <2>2. other \in Surjection(sch.fields, Others(sch))
    BY DEF Others, Surjection
  <2>3. IsFiniteSet(Others(sch))
    <3> HIDE DEF other
    <3> QED
      BY <2>1, <2>2, FS_Surjection
  <2> QED
    BY <2>1, <2>3 DEF Others
<1>3. \A t \in TableSet(sch) : \A x \in Dependencies(sch, t) :
        (x \in sch.reused /\ x \in Others(sch)) \/ x \in TableSet(sch)
  BY DependenciesTyped
<1>4. Known(sch) \in SUBSET (TableSet(sch) \union Others(sch))
  BY <1>3 DEF Known
<1>5. IsFiniteSet(TableSet(sch) \union Others(sch))
  BY <1>1, <1>2, FS_Union
<1>6. IsFiniteSet(Known(sch))
  BY <1>4, <1>5, FS_Subset
<1>7. ASSUME NEW x \in Known(sch) \ TableSet(sch) PROVE Dependencies(sch, x) = {}
  <2>1. x \in sch.reused
    BY <1>3 DEF Known
  <2>2. FieldsOf(sch, x) = {}
    BY DEF FieldsOf, IsSchema
  <2> QED
    BY <2>1, <2>2 DEF Dependencies, IsDuplicated
<1>8. TableSet(sch) \subseteq Known(sch) /\ \A t \in TableSet(sch) : Dependencies(sch, t) \subseteq Known(sch)
  BY DEF Known
<1> QED
  BY <1>1, <1>2, <1>4, <1>6, <1>7, <1>8

(***************************************************************************)
(* The two sorts of graphlib's nodes: the nodes without a dependency in    *)
(* the order in which they are met, and the released ones in the order of  *)
(* their last dependency.                                                  *)
(***************************************************************************)
LEMMA FirstReadyIs ==
  ASSUME NEW sch, IsSchema(sch), ~Rejected(sch)
  PROVE  LET none == {x \in Known(sch) : Dependencies(sch, x) = {}}
         IN /\ FirstReady(sch) \in Seq(Known(sch)) /\ IsInjective(FirstReady(sch))
            /\ Range(FirstReady(sch)) = none
<1> DEFINE none == {x \in Known(sch) : Dependencies(sch, x) = {}}
           key == [x \in none |-> MetKey(sch, x)]
           Meets(x) == {j \in DOMAIN sch.tables :
                          x \in {sch.tables[j]} \union Dependencies(sch, sch.tables[j])}
<1>1. DOMAIN sch.tables \subseteq Nat \ {0} /\ sch.tables \in [DOMAIN sch.tables -> TableSet(sch)]
  BY DEF IsSchema, TableSet, Range
<1>2. ASSUME NEW x \in Known(sch) PROVE Min(Meets(x)) \in Meets(x)
  <2>1. \E j \in DOMAIN sch.tables : x \in {sch.tables[j]} \union Dependencies(sch, sch.tables[j])
    BY DEF Known, TableSet, Range
  <2>2. Meets(x) # {} /\ Meets(x) \subseteq Nat
    BY <1>1, <2>1
  <2> HIDE DEF Meets
  <2> QED
    BY <2>2, LeastIs
<1>3. \A x \in Known(sch) :
        MetKey(sch, x) = <<Min(Meets(x)), IF x = sch.tables[Min(Meets(x))] THEN 0 ELSE x>>
  BY DEF MetKey
<1>4. \A x \in none : key[x] \in Nat \X Nat
  <2> SUFFICES ASSUME NEW x \in none PROVE key[x] \in Nat \X Nat
    OBVIOUS
  <2>1. x \in Nat
    BY KnownTyped
  <2>2. Min(Meets(x)) \in Nat
    BY <1>1, <1>2
  <2> HIDE DEF Meets
  <2> QED
    BY <1>3, <2>1, <2>2
<1>5. \A x, y \in none : key[x] = key[y] => x = y
  <2> SUFFICES ASSUME NEW x \in none, NEW y \in none, key[x] = key[y] PROVE x = y
    OBVIOUS
  <2>1. x \in Nat \ {0} /\ y \in Nat \ {0}
    BY KnownTyped
  <2> HIDE DEF Meets
  <2>2. /\ Min(Meets(x)) = Min(Meets(y))
        /\ (IF x = sch.tables[Min(Meets(x))] THEN 0 ELSE x) = (IF y = sch.tables[Min(Meets(y))] THEN 0 ELSE y)
    BY <1>3
  <2> QED
    BY <2>1, <2>2
<1>6. IsFiniteSet(none) /\ DOMAIN key = none
  <2>1. none \in SUBSET Known(sch) /\ IsFiniteSet(Known(sch))
    BY KnownTyped
  <2> QED
    BY <2>1, FS_Subset
<1>7. FirstReady(sch) = InOrderOf(key)
  BY DEF FirstReady
<1> HIDE DEF key
<1>8. InOrderOf(key) \in Seq(none) /\ Range(InOrderOf(key)) = none /\ IsInjective(InOrderOf(key))
  <2> HIDE DEF none
  <2> QED
    BY <1>4, <1>5, <1>6, Sorted
<1> QED
  BY <1>7, <1>8

LEMMA ReleasedIs ==
  ASSUME NEW sch, IsSchema(sch), ~Rejected(sch), NEW order, NEW ready \in Seq(Known(sch))
  PROVE  LET next == InOrderOf([t \in Released(sch, order, ready) |-> DoneKey(sch, ready, t)])
         IN next \in Seq(Known(sch)) /\ IsInjective(next) /\ Range(next) = Released(sch, order, ready)
<1> DEFINE R == Released(sch, order, ready)
           key == [t \in R |-> DoneKey(sch, ready, t)]
           Last(t) == {i \in DOMAIN ready : ready[i] \in Dependencies(sch, t)}
           At(t) == CHOOSE i \in DOMAIN sch.tables : sch.tables[i] = t
<1>1. R \in SUBSET TableSet(sch) /\ R \in SUBSET Known(sch) /\ IsFiniteSet(R)
  <2>1. R \in SUBSET TableSet(sch)
    BY DEF Released
  <2>2. R \in SUBSET Known(sch) /\ IsFiniteSet(Known(sch))
    BY <2>1, KnownTyped
  <2> QED
    BY <2>1, <2>2, FS_Subset
<1>2. ASSUME NEW t \in R PROVE At(t) \in DOMAIN sch.tables /\ sch.tables[At(t)] = t /\ At(t) \in Nat
  <2>1. \E i \in DOMAIN sch.tables : sch.tables[i] = t
    BY <1>1 DEF TableSet, Range
  <2>2. DOMAIN sch.tables \subseteq Nat
    BY DEF IsSchema
  <2> QED
    BY <2>1, <2>2
<1>3. ASSUME NEW t \in R PROVE Max(Last(t)) \in Nat
  <2>1. Len(ready) \in Nat /\ DOMAIN ready = 1..Len(ready)
    OBVIOUS
  <2>2. \E i \in DOMAIN ready : ready[i] \in Dependencies(sch, t)
    BY DEF Released, Range
  <2>3. Last(t) \subseteq 0..Len(ready) /\ Last(t) # {}
    BY <2>1, <2>2
  <2>4. Max(Last(t)) \in Last(t)
    <3> HIDE DEF Last
    <3> QED
      BY <2>1, <2>3, GreatestIs
  <2> QED
    BY <2>1, <2>4
<1>4. \A t \in R : key[t] = <<Max(Last(t)), At(t)>>
  BY DEF DoneKey
<1> HIDE DEF Last, At
<1>5. \A t \in R : key[t] \in Nat \X Nat
  BY <1>2, <1>3, <1>4
<1>6. \A t, u \in R : key[t] = key[u] => t = u
  <2> SUFFICES ASSUME NEW t \in R, NEW u \in R, key[t] = key[u] PROVE t = u
    OBVIOUS
  <2>1. At(t) = At(u)
    BY <1>4
  <2> QED
    BY <1>2, <2>1
<1>7. DOMAIN key = R
  OBVIOUS
<1> HIDE DEF key
<1>8. InOrderOf(key) \in Seq(R) /\ Range(InOrderOf(key)) = R /\ IsInjective(InOrderOf(key))
  <2> HIDE DEF R
  <2> QED
    BY <1>1, <1>5, <1>6, <1>7, Sorted
<1>9. InOrderOf(key) \in Seq(Known(sch))
  <2> HIDE DEF R
  <2> QED
    BY <1>1, <1>8
<1> QED
  BY <1>8, <1>9 DEF key

-----------------------------------------------------------------------------
(***************************************************************************)
(* Every table of an order comes after all that it depends on.             *)
(***************************************************************************)
Before(order, i) == {order[j] : j \in 1..(i - 1)}
AfterDependencies(sch, order) ==
  \A i \in DOMAIN order : Dependencies(sch, order[i]) \subseteq Before(order, i)

(***************************************************************************)
(* After k rounds: nothing is ordered twice, nor ready that was ordered;   *)
(* dependencies come first; whatever has all its dependencies in the order *)
(* is in it or ready; and while something is ready, each round added to    *)
(* the order.                                                              *)
(***************************************************************************)
RoundOK(sch, k, st) ==
  /\ st.order \in Seq(Known(sch)) /\ IsInjective(st.order)
  /\ st.ready \in Seq(Known(sch)) /\ IsInjective(st.ready)
  /\ Range(st.order) \intersect Range(st.ready) = {}
  /\ AfterDependencies(sch, st.order)
  /\ \A x \in Range(st.ready) : Dependencies(sch, x) \subseteq Range(st.order)
  /\ \A x \in Known(sch) :
       Dependencies(sch, x) \subseteq Range(st.order) => x \in Range(st.order) \union Range(st.ready)
  /\ st.ready = <<>> \/ Len(st.order) >= k

LEMMA FirstRound ==
  ASSUME NEW sch, IsSchema(sch), ~Rejected(sch)
  PROVE  RoundOK(sch, 0, [order |-> <<>>, ready |-> FirstReady(sch)])
<1> DEFINE st == [order |-> <<>>, ready |-> FirstReady(sch)]
<1>1. st.order = <<>> /\ st.ready = FirstReady(sch)
  OBVIOUS
<1>2. Range(<<>>) = {} /\ IsInjective(<<>>) /\ <<>> \in Seq(Known(sch)) /\ Len(<<>>) = 0 /\ AfterDependencies(sch, <<>>)
  BY DEF Range, IsInjective, AfterDependencies
<1>3. /\ FirstReady(sch) \in Seq(Known(sch)) /\ IsInjective(FirstReady(sch))
      /\ Range(FirstReady(sch)) = {x \in Known(sch) : Dependencies(sch, x) = {}}
  BY FirstReadyIs
<1> HIDE DEF st
<1> QED
  BY <1>1, <1>2, <1>3 DEF RoundOK

LEMMA NextRound ==
  ASSUME NEW sch, IsSchema(sch), ~Rejected(sch), NEW k \in Nat, NEW st, RoundOK(sch, k, st)
  PROVE  RoundOK(sch, k + 1, Yield(sch, st))
<1> DEFINE new == Yield(sch, st)
           R == Released(sch, st.order, st.ready)
           next == InOrderOf([t \in R |-> DoneKey(sch, st.ready, t)])
<1>1. new.order = st.order \o st.ready /\ new.ready = next
  BY DEF Yield
<1>2. st.order \in Seq(Known(sch)) /\ st.ready \in Seq(Known(sch))
  BY DEF RoundOK
<1>3. next \in Seq(Known(sch)) /\ IsInjective(next) /\ Range(next) = R
  BY <1>2, ReleasedIs
<1> HIDE DEF next, new
<1>4. new.order \in Seq(Known(sch)) /\ IsInjective(new.order) /\ Range(new.order) = Range(st.order) \union Range(st.ready)
  BY <1>1, <1>2, Joined, RangeConcatenation, JoinedInjective DEF RoundOK
<1>5. Range(new.order) \intersect Range(new.ready) = {}
  <2> SUFFICES ASSUME NEW x \in R, x \in Range(st.order) \union Range(st.ready) PROVE FALSE
    BY <1>1, <1>3, <1>4
  <2>1. Dependencies(sch, x) \subseteq Range(st.order)
    <3>1. CASE x \in Range(st.ready)
      BY <3>1 DEF RoundOK
    <3>2. CASE x \in Range(st.order)
      <4>1. PICK i \in DOMAIN st.order : st.order[i] = x
        BY <3>2 DEF Range
      <4>2. Before(st.order, i) \subseteq Range(st.order)
        <5>1. DOMAIN st.order = 1..Len(st.order) /\ Len(st.order) \in Nat
          BY <1>2
        <5>2. \A j \in 1..(i - 1) : j \in DOMAIN st.order
          BY <5>1
        <5> QED
          BY <5>2 DEF Before, Range
      <4> QED
        BY <4>1, <4>2 DEF RoundOK, AfterDependencies
    <3> QED
      BY <3>1, <3>2
  <2> QED
    BY <2>1 DEF Released, RoundOK
<1>6. AfterDependencies(sch, new.order)
  <2> DEFINE a == st.order
             b == st.ready
  <2>0. a \in Seq(Known(sch)) /\ b \in Seq(Known(sch)) /\ new.order = a \o b
    BY <1>1, <1>2
  <2>1. /\ DOMAIN new.order = 1..(Len(st.order) + Len(st.ready))
        /\ Len(st.order) \in Nat /\ Len(st.ready) \in Nat
        /\ DOMAIN st.order = 1..Len(st.order) /\ DOMAIN st.ready = 1..Len(st.ready)
        /\ \A i \in 1..Len(st.order) : new.order[i] = st.order[i]
        /\ \A i \in 1..(Len(st.order) + Len(st.ready)) :
             i \in 1..Len(st.order) \/ (i - Len(st.order) \in 1..Len(st.ready) /\ new.order[i] = st.ready[i - Len(st.order)])
    <3> HIDE DEF a, b
    <3>1. /\ DOMAIN new.order = 1..(Len(a) + Len(b)) /\ Len(a) \in Nat /\ Len(b) \in Nat
          /\ DOMAIN a = 1..Len(a) /\ DOMAIN b = 1..Len(b)
      BY <2>0, Joined
    <3>2. \A i \in 1..Len(a) : new.order[i] = a[i]
      BY <2>0, Joined
    <3>3. \A i \in 1..(Len(a) + Len(b)) :
            i \in 1..Len(a) \/ (i - Len(a) \in 1..Len(b) /\ new.order[i] = b[i - Len(a)])
      BY <2>0, Joined
    <3> QED
      BY <3>1, <3>2, <3>3 DEF a, b
  <2> SUFFICES ASSUME NEW i \in 1..(Len(st.order) + Len(st.ready))
               PROVE  Dependencies(sch, new.order[i]) \subseteq Before(new.order, i)
    BY <2>1 DEF AfterDependencies
  <2>2. CASE i \in 1..Len(st.order)
    <3>1. \A j \in 1..(i - 1) : j \in 1..Len(st.order)
      BY <2>1, <2>2
    <3>2. Before(new.order, i) = Before(st.order, i)
      BY <2>1, <3>1 DEF Before
    <3> QED
      BY <2>1, <2>2, <3>2 DEF RoundOK, AfterDependencies
  <2>3. CASE i \notin 1..Len(st.order)
    <3>1. i - Len(st.order) \in 1..Len(st.ready) /\ new.order[i] = st.ready[i - Len(st.order)]
      BY <2>1, <2>3
    <3>2. new.order[i] \in Range(st.ready)
      BY <2>1, <3>1 DEF Range
    <3>3. Range(st.order) \subseteq Before(new.order, i)
      <4> SUFFICES ASSUME NEW j \in 1..Len(st.order) PROVE st.order[j] \in Before(new.order, i)
        BY <2>1 DEF Range
      <4>1. j \in 1..(i - 1) /\ new.order[j] = st.order[j]
        BY <2>1, <2>3
      <4> QED
        BY <4>1 DEF Before
    <3> QED
      BY <3>2, <3>3 DEF RoundOK
  <2> QED
    BY <2>2, <2>3
<1>7. \A x \in Range(new.ready) : Dependencies(sch, x) \subseteq Range(new.order)
  BY <1>1, <1>3, <1>4 DEF Released
<1>8. ASSUME NEW x \in Known(sch), Dependencies(sch, x) \subseteq Range(new.order)
      PROVE  x \in Range(new.order) \union Range(new.ready)
  <2>1. CASE Dependencies(sch, x) \intersect Range(st.ready) = {}
    BY <1>4, <1>8, <2>1 DEF RoundOK
  <2>2. CASE Dependencies(sch, x) \intersect Range(st.ready) # {}
    <3>1. x \in TableSet(sch)
      BY <2>2, KnownTyped
    <3> QED
      BY <1>1, <1>3, <1>4, <1>8, <2>2, <3>1 DEF Released
  <2> QED
    BY <2>1, <2>2
<1>9. new.ready = <<>> \/ Len(new.order) >= k + 1
  <2>1. CASE st.ready = <<>>
    <3>1. R = {}
      <4>1. Range(st.ready) = {}
        BY <2>1 DEF Range
      <4> QED
        BY <4>1 DEF Released
    <3>2. next = <<>>
      <4>1. Range(next) = {} /\ Len(next) \in Nat /\ DOMAIN next = 1..Len(next)
        BY <1>3, <3>1
      <4>2. DOMAIN next = {}
        BY <4>1 DEF Range
      <4>3. Len(next) = 0
        BY <4>1, <4>2
      <4> QED
        BY <1>3, <4>3
    <3> QED
      BY <1>1, <3>2
  <2>2. CASE st.ready # <<>>
    <3>1. Len(st.order) >= k
      BY <2>2 DEF RoundOK
    <3>2. Len(new.order) = Len(st.order) + Len(st.ready) /\ Len(st.order) \in Nat /\ Len(st.ready) \in Nat
      BY <1>1, <1>2, Joined
    <3>3. Len(st.ready) # 0
      BY <1>2, <2>2
    <3>4. \A a, b \in Nat : a >= k /\ b # 0 => a + b >= k + 1
      OBVIOUS
    <3> QED
      BY <3>1, <3>2, <3>3, <3>4
  <2> QED
    BY <2>1, <2>2
<1>10. new.ready \in Seq(Known(sch)) /\ IsInjective(new.ready)
  BY <1>1, <1>3
<1> QED
  BY <1>4, <1>5, <1>6, <1>7, <1>8, <1>9, <1>10 DEF RoundOK, new

LEMMA EveryRound ==
  ASSUME NEW sch, IsSchema(sch), ~Rejected(sch)
  PROVE  \A k \in 0..Cardinality(Known(sch)) : RoundOK(sch, k, Rounds(sch)[k])
<1> DEFINE N == Cardinality(Known(sch))
           S == {k \in Nat : k <= N => RoundOK(sch, k, Rounds(sch)[k])}
<1>1. N \in Nat
  BY KnownTyped, FS_CardinalityType
<1>2. /\ Rounds(sch)[0] = [order |-> <<>>, ready |-> FirstReady(sch)]
      /\ \A k \in 0..(N - 1) : Rounds(sch)[k + 1] = Yield(sch, Rounds(sch)[k])
  BY <1>1, RoundsDef
<1> HIDE DEF N
<1>3. 0 \in S
  BY <1>2, FirstRound
<1>4. ASSUME NEW k \in Nat, k \in S PROVE k + 1 \in S
  <2> SUFFICES ASSUME k + 1 <= N PROVE RoundOK(sch, k + 1, Rounds(sch)[k + 1])
    OBVIOUS
  <2>1. k <= N /\ k \in 0..(N - 1)
    BY <1>1
  <2>2. RoundOK(sch, k, Rounds(sch)[k])
    BY <1>4, <2>1
  <2>3. RoundOK(sch, k + 1, Yield(sch, Rounds(sch)[k]))
    BY <2>2, NextRound
  <2> QED
    BY <1>2, <2>1, <2>3
<1>5. Nat \subseteq S
  <2> HIDE DEF S
  <2> QED
    BY <1>3, <1>4, SetInduction
<1>6. \A k \in 0..N : RoundOK(sch, k, Rounds(sch)[k])
  BY <1>1, <1>5
<1> QED
  BY <1>6 DEF N

-----------------------------------------------------------------------------
(***************************************************************************)
(* static_order of any schema whose duplicated tables have one parent: no  *)
(* table twice, each after its dependencies; and a table is left out only  *)
(* because of one of its dependencies.                                     *)
(***************************************************************************)
THEOREM OrderAfterDependencies ==
  ASSUME NEW sch, IsSchema(sch), ~Rejected(sch)
  PROVE  /\ StaticOrder(sch) \in Seq(Known(sch)) /\ IsInjective(StaticOrder(sch))
         /\ AfterDependencies(sch, StaticOrder(sch))
         /\ \A x \in Known(sch) :
              Dependencies(sch, x) \subseteq Range(StaticOrder(sch)) => x \in Range(StaticOrder(sch))
<1> DEFINE N == Cardinality(Known(sch))
           st == Rounds(sch)[N]
<1>1. N \in Nat /\ IsFiniteSet(Known(sch))
  BY KnownTyped, FS_CardinalityType
<1>2. RoundOK(sch, N, st)
  BY <1>1, EveryRound
<1>3. StaticOrder(sch) = st.order
  BY DEF StaticOrder
<1> HIDE DEF st, N
<1>4. st.ready = <<>>
  <2> SUFFICES ASSUME st.ready # <<>> PROVE FALSE
    OBVIOUS
  <2>1. st.order \in Seq(Known(sch)) /\ st.ready \in Seq(Known(sch)) /\ Len(st.order) >= N
    BY <1>2 DEF RoundOK
  <2> DEFINE all == st.order \o st.ready
  <2>2. all \in Seq(Known(sch)) /\ IsInjective(all) /\ Len(all) = Len(st.order) + Len(st.ready)
    BY <2>1, Joined, JoinedInjective, <1>2 DEF RoundOK
  <2>3. Len(st.order) \in Nat /\ Len(st.ready) \in Nat /\ Len(st.ready) # 0
    BY <2>1
  <2> HIDE DEF all
  <2>4. Len(all) \in Nat /\ Len(all) > N
    <3>1. \A a, b \in Nat : a >= N /\ b # 0 => a + b \in Nat /\ a + b > N
      BY <1>1
    <3> QED
      BY <2>1, <2>2, <2>3, <3>1
  <2>5. IsFiniteSet(1..Len(all)) /\ Cardinality(1..Len(all)) = Len(all)
    <3>1. 1 \in Int /\ Len(all) \in Int /\ (IF 1 > Len(all) THEN 0 ELSE Len(all) - 1 + 1) = Len(all)
      BY <2>4
    <3> QED
      BY <3>1, FS_Interval
  <2>6. all \in [1..Len(all) -> Known(sch)] /\ DOMAIN all = 1..Len(all)
    BY <2>2, LenProperties
  <2>7. \E x, y \in 1..Len(all) : x # y /\ all[x] = all[y]
    BY <1>1, <2>4, <2>5, <2>6, FS_PigeonHole DEF N
  <2> QED
    BY <2>6, <2>7, <2>2 DEF IsInjective
<1>5. Range(st.ready) = {}
  BY <1>4 DEF Range
<1> QED
  BY <1>2, <1>3, <1>5 DEF RoundOK

(***************************************************************************)
(* What is ordered: every table, exactly if no tables depend on each other *)
(* in a circle.  And what is not a table is ordered too: a relation that   *)
(* was left to a table that was dropped.                                   *)
(***************************************************************************)
THEOREM OrderUnlessCycle ==
  ASSUME NEW sch, IsSchema(sch), ~Rejected(sch)
  PROVE  /\ Acyclic(sch) <=> TableSet(sch) \subseteq Range(StaticOrder(sch))
         /\ Acyclic(sch) => Range(StaticOrder(sch)) = Known(sch)
<1> DEFINE o == StaticOrder(sch)
<1>1. /\ o \in Seq(Known(sch)) /\ AfterDependencies(sch, o)
      /\ \A x \in Known(sch) : Dependencies(sch, x) \subseteq Range(o) => x \in Range(o)
  BY OrderAfterDependencies
<1> HIDE DEF o
<1>2. \A x \in Known(sch) \ TableSet(sch) : x \in Range(o)
  BY <1>1, KnownTyped
<1>3. ASSUME Acyclic(sch) PROVE TableSet(sch) \subseteq Range(o)
  <2> SUFFICES ASSUME TableSet(sch) \ Range(o) # {} PROVE FALSE
    OBVIOUS
  <2>1. PICK t \in TableSet(sch) \ Range(o) : Dependencies(sch, t) \intersect (TableSet(sch) \ Range(o)) = {}
    BY <1>3 DEF Acyclic
  <2>2. Dependencies(sch, t) \subseteq Known(sch) /\ t \in Known(sch)
    BY KnownTyped
  <2>3. Dependencies(sch, t) \subseteq Range(o)
    BY <1>2, <2>1, <2>2
  <2> QED
    BY <1>1, <2>1, <2>2, <2>3
<1>4. ASSUME TableSet(sch) \subseteq Range(o) PROVE Acyclic(sch)
  <2> SUFFICES ASSUME NEW S \in SUBSET TableSet(sch), S # {}
               PROVE  \E t \in S : Dependencies(sch, t) \intersect S = {}
    BY DEF Acyclic
  <2> DEFINE I == {i \in DOMAIN o : o[i] \in S}
  <2>1. DOMAIN o = 1..Len(o) /\ Len(o) \in Nat
    BY <1>1
  <2>2. I \subseteq Nat /\ I # {}
    BY <1>4, <2>1 DEF Range
  <2>3. PICK i \in I : \A j \in I : i <= j
    <3> HIDE DEF I
    <3> QED
      BY <2>2, LeastNumber
  <2>4. ASSUME NEW x \in Before(o, i) PROVE x \notin S
    <3>1. PICK j \in 1..(i - 1) : o[j] = x
      BY DEF Before
    <3>2. j \in DOMAIN o /\ ~(i <= j)
      BY <2>1
    <3> QED
      BY <2>3, <3>1, <3>2
  <2>5. Dependencies(sch, o[i]) \subseteq Before(o, i) /\ o[i] \in S
    BY <1>1 DEF AfterDependencies
  <2> QED
    BY <2>4, <2>5
<1>5. Range(o) \subseteq Known(sch)
  BY <1>1 DEF Range
<1> QED
  BY <1>2, <1>3, <1>4, <1>5, KnownTyped DEF o

-----------------------------------------------------------------------------
(***************************************************************************)
(* The order as a plan of one transaction.                                 *)
(***************************************************************************)
LEMMA OneTransaction ==
  ASSUME NEW K, NEW o \in Seq(K)
  PROVE  \A t, u : /\ Earlier(<<o>>, t, u) <=> \E p, q \in DOMAIN o : o[p] = t /\ o[q] = u /\ p < q
                   /\ Together(<<o>>, t, u) <=> t \in Range(o) /\ u \in Range(o)
<1>1. DOMAIN <<o>> = {1} /\ <<o>>[1] = o
  OBVIOUS
<1> QED
  BY <1>1 DEF Earlier, Together, Range

LEMMA DependencyEarlier ==
  ASSUME NEW sch, NEW K, NEW o \in Seq(K), AfterDependencies(sch, o), NEW u \in Range(o)
  PROVE  \A t \in Dependencies(sch, u) : Earlier(<<o>>, t, u)
<1>1. PICK q \in DOMAIN o : o[q] = u
  BY DEF Range
<1> SUFFICES ASSUME NEW t \in Dependencies(sch, u) PROVE Earlier(<<o>>, t, u)
  OBVIOUS
<1>2. t \in Before(o, q)
  BY <1>1 DEF AfterDependencies
<1>3. PICK p \in 1..(q - 1) : o[p] = t
  BY <1>2 DEF Before
<1>4. DOMAIN o = 1..Len(o) /\ Len(o) \in Nat
  OBVIOUS
<1>5. p \in DOMAIN o /\ p < q
  BY <1>4
<1> QED
  BY <1>1, <1>3, <1>5, OneTransaction

(***************************************************************************)
(* What the statements of a table read is what the table depends on, or    *)
(* depends on it.                                                          *)
(***************************************************************************)
LEMMA ReadsAreDependencies ==
  ASSUME NEW sch, IsSchema(sch), ~Rejected(sch), ~Dangling(sch)
  PROVE  /\ \A f \in sch.fields : IF f.other \in sch.reused THEN f.other \in Dependencies(sch, f.table)
                                  ELSE f.table = ParentOf(sch, f.other)
         /\ \A t \in TableSet(sch) \ sch.reused : /\ ParentOf(sch, t) \in Dependencies(sch, t)
                                                  /\ ParentOf(sch, t) \in TableSet(sch)
         /\ \A t \in TableSet(sch) : Dependencies(sch, t) \subseteq TableSet(sch)
<1>1. \A f \in sch.fields : f.other \in TableSet(sch) /\ f.table \in TableSet(sch)
  BY DEF Dangling, IsSchema
<1>2. ASSUME NEW f \in sch.fields, f.other \in sch.reused PROVE f.other \in Dependencies(sch, f.table)
  BY <1>2 DEF Dependencies, FieldsOf
<1>3. ASSUME NEW f \in sch.fields, f.other \notin sch.reused PROVE f.table = ParentOf(sch, f.other)
  BY <1>1, <1>3, ParentTyped DEF IsDuplicated
<1>4. ASSUME NEW t \in TableSet(sch) \ sch.reused
      PROVE  ParentOf(sch, t) \in Dependencies(sch, t) /\ ParentOf(sch, t) \in TableSet(sch)
  BY ParentTyped DEF Dependencies, IsDuplicated
<1>5. \A t \in TableSet(sch) : Dependencies(sch, t) \subseteq TableSet(sch)
  BY <1>1, DependenciesTyped DEF Others
<1> QED
  BY <1>2, <1>3, <1>4, <1>5

LEMMA AllOrdered ==
  ASSUME NEW sch, IsSchema(sch), ~Rejected(sch), ~Dangling(sch), Acyclic(sch)
  PROVE  /\ StaticOrder(sch) \in Seq(TableSet(sch)) /\ IsInjective(StaticOrder(sch))
         /\ Range(StaticOrder(sch)) = TableSet(sch)
         /\ AfterDependencies(sch, StaticOrder(sch))
<1>1. Known(sch) = TableSet(sch)
  BY KnownTyped, ReadsAreDependencies DEF Known
<1> QED
  BY <1>1, OrderAfterDependencies, OrderUnlessCycle

(***************************************************************************)
(* The order, unless there is none: every table once, and whatever the     *)
(* statements of a table read before it.                                   *)
(***************************************************************************)
THEOREM OrderReadsFirst ==
  ASSUME NEW sch, IsSchema(sch), ~Rejected(sch), ~Dangling(sch), Acyclic(sch), TableSet(sch) # {}
  PROVE  LET plan == <<StaticOrder(sch)>>
         IN /\ EachOnce(TableSet(sch), plan)
            /\ SubtreesTogether(sch, plan)
            /\ ReadBefore(sch, plan, TableSet(sch))
<1> DEFINE o == StaticOrder(sch)
<1>1. o \in Seq(TableSet(sch)) /\ IsInjective(o) /\ Range(o) = TableSet(sch) /\ AfterDependencies(sch, o)
  BY AllOrdered
<1> HIDE DEF o
<1>2. \A t, u : /\ Earlier(<<o>>, t, u) <=> \E p, q \in DOMAIN o : o[p] = t /\ o[q] = u /\ p < q
                /\ Together(<<o>>, t, u) <=> t \in Range(o) /\ u \in Range(o)
  BY <1>1, OneTransaction
<1>3. \A u \in TableSet(sch) : \A t \in Dependencies(sch, u) : Earlier(<<o>>, t, u)
  BY <1>1, DependencyEarlier
<1>4. EachOnce(TableSet(sch), <<o>>)
  <2>1. o # <<>>
    BY <1>1 DEF Range
  <2>2. \A t \in TableSet(sch) : Together(<<o>>, t, t)
    BY <1>1, <1>2
  <2>3. ASSUME NEW t \in TableSet(sch), Earlier(<<o>>, t, t) PROVE FALSE
    <3>1. PICK p \in DOMAIN o, q \in DOMAIN o : o[p] = t /\ o[q] = t /\ p < q
      BY <1>2, <2>3
    <3>2. p = q
      BY <1>1, <3>1 DEF IsInjective
    <3>3. p \in Nat
      BY <1>1
    <3> QED
      BY <3>1, <3>2, <3>3
  <2>4. \A g \in DOMAIN <<o>> : <<o>>[g] = o
    OBVIOUS
  <2> QED
    BY <1>1, <2>1, <2>2, <2>3, <2>4 DEF EachOnce
<1>5. SubtreesTogether(sch, <<o>>)
  BY <1>1, <1>2, <1>3, ReadsAreDependencies DEF SubtreesTogether
<1>6. ReadBefore(sch, <<o>>, TableSet(sch))
  <2> SUFFICES ASSUME NEW f \in sch.fields
               PROVE  IF f.other \in sch.reused THEN Earlier(<<o>>, f.other, f.table)
                      ELSE Earlier(<<o>>, f.table, f.other)
    BY DEF ReadBefore
  <2>1. f.table \in TableSet(sch) /\ f.other \in TableSet(sch)
    BY DEF IsSchema, Dangling
  <2>2. CASE f.other \in sch.reused
    BY <1>3, <2>1, <2>2, ReadsAreDependencies
  <2>3. CASE f.other \notin sch.reused
    <3>1. f.table = ParentOf(sch, f.other) /\ ParentOf(sch, f.other) \in Dependencies(sch, f.other)
      BY <2>1, <2>3, ReadsAreDependencies
    <3> QED
      BY <1>3, <2>1, <2>3, <3>1
  <2> QED
    BY <2>2, <2>3
<1> QED
  BY <1>4, <1>5, <1>6 DEF o

-----------------------------------------------------------------------------
LEMMA GroupedDef ==
  ASSUME NEW sch, NEW K, NEW o \in Seq(K)
  PROVE  /\ Grouped(sch, o)[0] = <<>>
         /\ \A k \in 0..(Len(o) - 1) : Grouped(sch, o)[k + 1] = Assigned(sch, Grouped(sch, o)[k], o[k + 1])
<1> DEFINE N == Len(o)
           Next(groups, k) == Assigned(sch, groups, o[k])
           Is(g, n) == g = [k \in 0..n |-> IF k = 0 THEN <<>> ELSE Next(g[k - 1], k)]
           S == {n \in Nat : \E g : Is(g, n)}
<1> HIDE DEF Next
<1>1. 0 \in S
  <2>1. [k \in 0..0 |-> <<>>] = [k \in 0..0 |-> IF k = 0 THEN <<>> ELSE Next([j \in 0..0 |-> <<>>][k - 1], k)]
    OBVIOUS
  <2> QED
    BY <2>1
<1>2. ASSUME NEW n \in Nat, n \in S PROVE n + 1 \in S
  <2>1. PICK g : Is(g, n)
    BY <1>2
  <2> DEFINE h == [k \in 0..(n + 1) |-> IF k = n + 1 THEN Next(g[n], n + 1) ELSE g[k]]
  <2>2. ASSUME NEW k \in 0..(n + 1) PROVE h[k] = IF k = 0 THEN <<>> ELSE Next(h[k - 1], k)
    <3>1. CASE k = n + 1
      BY <3>1
    <3>2. CASE k # n + 1
      <4>1. k \in 0..n /\ h[k] = g[k] /\ (k # 0 => k - 1 \in 0..(n + 1) /\ k - 1 # n + 1)
        BY <3>2
      <4> QED
        BY <2>1, <4>1
    <3> QED
      BY <3>1, <3>2
  <2>3. h = [k \in 0..(n + 1) |-> h[k]]
    OBVIOUS
  <2> HIDE DEF h
  <2>4. h = [k \in 0..(n + 1) |-> IF k = 0 THEN <<>> ELSE Next(h[k - 1], k)]
    BY <2>2, <2>3
  <2> QED
    BY <2>4
<1>3. N \in Nat
  OBVIOUS
<1>4. N \in S
  <2>1. Nat \subseteq S
    <3> HIDE DEF S
    <3> QED
      BY <1>1, <1>2, SetInduction
  <2> QED
    BY <1>3, <2>1
<1>5. Is(CHOOSE g : Is(g, N), N)
  <2>1. \E g : Is(g, N)
    BY <1>4
  <2> HIDE DEF Is
  <2> QED
    BY <2>1
<1>6. Grouped(sch, o) = CHOOSE g : Is(g, N)
  BY DEF Grouped, Next
<1>7. Is(Grouped(sch, o), N)
  <2> HIDE DEF Is
  <2> QED
    BY <1>5, <1>6
<1> HIDE DEF N
<1>8. \A k \in 0..N : Grouped(sch, o)[k] = IF k = 0 THEN <<>> ELSE Next(Grouped(sch, o)[k - 1], k)
  BY <1>7
<1>9. Grouped(sch, o)[0] = <<>>
  BY <1>3, <1>8
<1>10. \A k \in 0..(N - 1) : Grouped(sch, o)[k + 1] = Next(Grouped(sch, o)[k], k + 1)
  BY <1>3, <1>8
<1> QED
  BY <1>9, <1>10 DEF Next, N

(***************************************************************************)
(* Assigning a table adds to the end of groups, or a group to the end: what*)
(* was earlier stays earlier, what was together stays together.            *)
(***************************************************************************)
Extends(groups, new) ==
  /\ DOMAIN groups \subseteq DOMAIN new
  /\ \A g \in DOMAIN groups : /\ DOMAIN groups[g] \subseteq DOMAIN new[g]
                              /\ \A p \in DOMAIN groups[g] : new[g][p] = groups[g][p]

LEMMA ExtensionKeeps ==
  ASSUME NEW groups, NEW new, Extends(groups, new), NEW t, NEW u
  PROVE  /\ Earlier(groups, t, u) => Earlier(new, t, u)
         /\ Together(groups, t, u) => Together(new, t, u)
<1>1. \A g \in DOMAIN groups : g \in DOMAIN new
        /\ \A p \in DOMAIN groups[g] : p \in DOMAIN new[g] /\ new[g][p] = groups[g][p]
  BY DEF Extends
<1>2. ASSUME Earlier(groups, t, u) PROVE Earlier(new, t, u)
  <2>1. PICK g \in DOMAIN groups, h \in DOMAIN groups :
          \E p \in DOMAIN groups[g], q \in DOMAIN groups[h] :
            groups[g][p] = t /\ groups[h][q] = u /\ (g < h \/ (g = h /\ p < q))
    BY <1>2 DEF Earlier
  <2>2. PICK p \in DOMAIN groups[g], q \in DOMAIN groups[h] :
          groups[g][p] = t /\ groups[h][q] = u /\ (g < h \/ (g = h /\ p < q))
    BY <2>1
  <2>3. g \in DOMAIN new /\ h \in DOMAIN new /\ p \in DOMAIN new[g] /\ q \in DOMAIN new[h]
        /\ new[g][p] = t /\ new[h][q] = u
    BY <1>1, <2>2
  <2> QED
    BY <2>2, <2>3 DEF Earlier
<1>3. ASSUME Together(groups, t, u) PROVE Together(new, t, u)
  BY <1>1, <1>3 DEF Together
<1> QED
  BY <1>2, <1>3

(***************************************************************************)
(* After the first k tables of the order: they are in the groups, each at  *)
(* one place; a duplicated one behind its parent, in its group; a reused   *)
(* one behind what it depends on.                                          *)
(***************************************************************************)
GroupsOK(sch, o, k, groups) ==
  /\ groups \in Seq(Seq(TableSet(sch)) \ {<<>>})
  /\ \A t : Together(groups, t, t) <=> t \in Before(o, k + 1)
  /\ \A g, h \in DOMAIN groups : \A p \in DOMAIN groups[g], q \in DOMAIN groups[h] :
       groups[g][p] = groups[h][q] => g = h /\ p = q
  /\ \A t \in Before(o, k + 1) \ sch.reused :
       Earlier(groups, ParentOf(sch, t), t) /\ Together(groups, ParentOf(sch, t), t)
  /\ \A t \in Before(o, k + 1) \intersect sch.reused :
       \A d \in Dependencies(sch, t) : Earlier(groups, d, t)

LEMMA TogetherSelf ==
  ASSUME NEW groups, NEW t
  PROVE  Together(groups, t, t) <=> \E g \in DOMAIN groups : \E p \in DOMAIN groups[g] : groups[g][p] = t
  BY DEF Together

(***************************************************************************)
(* One place is new, and holds the table that is assigned.                 *)
(***************************************************************************)
AddedAt(groups, new, t, g1, p1) ==
  /\ g1 \in DOMAIN new /\ p1 \in DOMAIN new[g1] /\ new[g1][p1] = t
  /\ \A g \in DOMAIN new : \A p \in DOMAIN new[g] :
       \/ g \in DOMAIN groups /\ p \in DOMAIN groups[g]
       \/ g = g1 /\ p = p1

LEMMA AppendIs ==
  ASSUME NEW K, NEW s \in Seq(K), NEW x \in K
  PROVE  /\ Append(s, x) \in Seq(K) /\ Append(s, x) # <<>>
         /\ Len(s) \in Nat /\ DOMAIN s = 1..Len(s) /\ DOMAIN Append(s, x) = 1..(Len(s) + 1)
         /\ \A i \in 1..Len(s) : Append(s, x)[i] = s[i]
         /\ Append(s, x)[Len(s) + 1] = x
  OBVIOUS

LEMMA OpensGroup ==
  ASSUME NEW T, NEW groups \in Seq(Seq(T) \ {<<>>}), NEW t \in T
  PROVE  LET new == Append(groups, <<t>>)
         IN /\ new \in Seq(Seq(T) \ {<<>>}) /\ Extends(groups, new)
            /\ AddedAt(groups, new, t, Len(groups) + 1, 1)
            /\ Len(groups) \in Nat /\ \A g \in DOMAIN groups : g < Len(groups) + 1
<1> DEFINE new == Append(groups, <<t>>)
           n == Len(groups)
<1>1. <<t>> \in Seq(T) \ {<<>>} /\ DOMAIN <<t>> = {1} /\ <<t>>[1] = t
  OBVIOUS
<1>2. /\ new \in Seq(Seq(T) \ {<<>>}) /\ n \in Nat /\ DOMAIN groups = 1..n /\ DOMAIN new = 1..(n + 1)
      /\ \A g \in 1..n : new[g] = groups[g]
      /\ new[n + 1] = <<t>>
  BY <1>1, AppendIs
<1> HIDE DEF new, n
<1>3. Extends(groups, new)
  BY <1>2 DEF Extends
<1>4. AddedAt(groups, new, t, n + 1, 1)
  <2>1. ASSUME NEW g \in 1..(n + 1), NEW p \in DOMAIN new[g]
        PROVE  (g \in DOMAIN groups /\ p \in DOMAIN groups[g]) \/ (g = n + 1 /\ p = 1)
    <3>1. CASE g \in 1..n
      BY <1>2, <3>1
    <3>2. CASE g = n + 1
      BY <1>1, <1>2, <3>2
    <3> QED
      BY <1>2, <3>1, <3>2
  <2>2. n + 1 \in 1..(n + 1)
    BY <1>2
  <2> QED
    BY <1>1, <1>2, <2>1, <2>2 DEF AddedAt
<1> QED
  BY <1>2, <1>3, <1>4 DEF new, n

LEMMA JoinsGroup ==
  ASSUME NEW sch, NEW T, NEW groups \in Seq(Seq(T) \ {<<>>}), NEW t \in T, t \notin sch.reused,
         NEW g0 \in DOMAIN groups, NEW p0 \in DOMAIN groups[g0], groups[g0][p0] = ParentOf(sch, t),
         \A g \in DOMAIN groups : \A p \in DOMAIN groups[g] : groups[g][p] = groups[g0][p0] => g = g0
  PROVE  LET new == Assigned(sch, groups, t)
         IN /\ new \in Seq(Seq(T) \ {<<>>}) /\ Extends(groups, new)
            /\ AddedAt(groups, new, t, g0, Len(groups[g0]) + 1)
            /\ p0 < Len(groups[g0]) + 1
<1> DEFINE new == Assigned(sch, groups, t)
           n == Len(groups)
<1>1. n \in Nat /\ DOMAIN groups = 1..n /\ \A g \in 1..n : groups[g] \in Seq(T) /\ groups[g] # <<>>
  OBVIOUS
<1>2. new = [g \in 1..n |-> IF ParentOf(sch, t) \in Range(groups[g]) THEN Append(groups[g], t) ELSE groups[g]]
  BY <1>1 DEF Assigned
<1>3. \A g \in 1..n : ParentOf(sch, t) \in Range(groups[g]) <=> g = g0
  BY <1>1 DEF Range
<1>4. DOMAIN new = 1..n /\ new[g0] = Append(groups[g0], t) /\ \A g \in 1..n : g # g0 => new[g] = groups[g]
  BY <1>1, <1>2, <1>3
<1>5. /\ new[g0] \in Seq(T) /\ new[g0] # <<>>
      /\ Len(groups[g0]) \in Nat /\ DOMAIN groups[g0] = 1..Len(groups[g0])
      /\ DOMAIN new[g0] = 1..(Len(groups[g0]) + 1)
      /\ \A p \in 1..Len(groups[g0]) : new[g0][p] = groups[g0][p]
      /\ new[g0][Len(groups[g0]) + 1] = t
  BY <1>1, <1>4, AppendIs
<1>6. new \in Seq(Seq(T) \ {<<>>})
  <2>1. \A g \in 1..n : new[g] \in Seq(T) \ {<<>>}
    BY <1>1, <1>4, <1>5
  <2>2. new = [g \in 1..n |-> new[g]]
    BY <1>2
  <2> DEFINE K == Seq(T) \ {<<>>}
  <2>3. \A g \in 1..n : new[g] \in K
    BY <2>1
  <2>4. n \in Nat
    BY <1>1
  <2> HIDE DEF new, n, K
  <2>5. new \in [1..n -> K]
    BY <2>2, <2>3
  <2>6. new \in Seq(K)
    BY <2>4, <2>5, IsSequence
  <2> QED
    BY <2>6 DEF K
<1> HIDE DEF new, n
<1>7. Extends(groups, new)
  <2>1. ASSUME NEW g \in 1..n
        PROVE  DOMAIN groups[g] \subseteq DOMAIN new[g] /\ \A p \in DOMAIN groups[g] : new[g][p] = groups[g][p]
    <3>1. CASE g # g0
      BY <1>4, <3>1
    <3>2. CASE g = g0
      BY <1>5, <3>2
    <3> QED
      BY <3>1, <3>2
  <2> QED
    BY <1>1, <1>4, <2>1 DEF Extends
<1>8. AddedAt(groups, new, t, g0, Len(groups[g0]) + 1)
  <2>1. ASSUME NEW g \in 1..n, NEW p \in DOMAIN new[g]
        PROVE  p \in DOMAIN groups[g] \/ (g = g0 /\ p = Len(groups[g0]) + 1)
    <3>1. CASE g # g0
      BY <1>4, <3>1
    <3>2. CASE g = g0
      BY <1>5, <3>2
    <3> QED
      BY <3>1, <3>2
  <2>2. Len(groups[g0]) + 1 \in DOMAIN new[g0]
    BY <1>5
  <2> QED
    BY <1>1, <1>4, <1>5, <2>1, <2>2 DEF AddedAt
<1>9. p0 < Len(groups[g0]) + 1
  BY <1>5
<1> QED
  BY <1>6, <1>7, <1>8, <1>9 DEF new

(***************************************************************************)
(* So the tables that were there are there, each at its place, and the     *)
(* assigned one at one place.                                              *)
(***************************************************************************)
LEMMA AddedOnce ==
  ASSUME NEW groups, NEW new, NEW t, NEW g1, NEW p1, Extends(groups, new), AddedAt(groups, new, t, g1, p1),
         ~Together(groups, t, t),
         \A g, h \in DOMAIN groups : \A p \in DOMAIN groups[g], q \in DOMAIN groups[h] :
           groups[g][p] = groups[h][q] => g = h /\ p = q
  PROVE  /\ \A x : Together(new, x, x) <=> Together(groups, x, x) \/ x = t
         /\ \A g, h \in DOMAIN new : \A p \in DOMAIN new[g], q \in DOMAIN new[h] :
              new[g][p] = new[h][q] => g = h /\ p = q
<1>1. \A g \in DOMAIN new : \A p \in DOMAIN new[g] :
        \/ g \in DOMAIN groups /\ p \in DOMAIN groups[g] /\ new[g][p] = groups[g][p] /\ new[g][p] # t
        \/ g = g1 /\ p = p1
  <2> SUFFICES ASSUME NEW g \in DOMAIN new, NEW p \in DOMAIN new[g], ~(g = g1 /\ p = p1)
               PROVE  g \in DOMAIN groups /\ p \in DOMAIN groups[g] /\ new[g][p] = groups[g][p] /\ new[g][p] # t
    OBVIOUS
  <2>1. g \in DOMAIN groups /\ p \in DOMAIN groups[g]
    BY DEF AddedAt
  <2>2. new[g][p] = groups[g][p]
    BY <2>1 DEF Extends
  <2> QED
    BY <2>1, <2>2, TogetherSelf
<1>2. g1 \in DOMAIN new /\ p1 \in DOMAIN new[g1] /\ new[g1][p1] = t
  BY DEF AddedAt
<1>3. \A x : Together(new, x, x) <=> Together(groups, x, x) \/ x = t
  <2> SUFFICES ASSUME NEW x PROVE Together(new, x, x) <=> Together(groups, x, x) \/ x = t
    OBVIOUS
  <2>1. Together(groups, x, x) => Together(new, x, x)
    BY ExtensionKeeps
  <2>2. Together(new, t, t)
    BY <1>2, TogetherSelf
  <2>3. ASSUME Together(new, x, x), x # t PROVE Together(groups, x, x)
    BY <1>1, <1>2, <2>3, TogetherSelf
  <2> QED
    BY <2>1, <2>2, <2>3
<1>4. ASSUME NEW g \in DOMAIN new, NEW h \in DOMAIN new, NEW p \in DOMAIN new[g], NEW q \in DOMAIN new[h],
             new[g][p] = new[h][q]
      PROVE  g = h /\ p = q
  BY <1>1, <1>2, <1>4
<1> QED
  BY <1>3, <1>4

LEMMA NextAssigned ==
  ASSUME NEW sch, IsSchema(sch), ~Rejected(sch), ~Dangling(sch), NEW o \in Seq(TableSet(sch)),
         IsInjective(o), AfterDependencies(sch, o), NEW k \in 0..(Len(o) - 1), NEW groups,
         GroupsOK(sch, o, k, groups)
  PROVE  GroupsOK(sch, o, k + 1, Assigned(sch, groups, o[k + 1]))
<1> DEFINE t == o[k + 1]
           new == Assigned(sch, groups, t)
           T == TableSet(sch)
<1>1. DOMAIN o = 1..Len(o) /\ Len(o) \in Nat /\ k + 1 \in 1..Len(o) /\ (k + 1) - 1 = k /\ (k + 1) + 1 - 1 = k + 1
  OBVIOUS
<1>2. t \in T /\ Dependencies(sch, t) \subseteq Before(o, k + 1) /\ Dependencies(sch, t) \subseteq T
  BY <1>1, ReadsAreDependencies DEF AfterDependencies
<1>3. Before(o, (k + 1) + 1) = Before(o, k + 1) \union {t}
  <2>1. 1..k \union {k + 1} = 1..(k + 1)
    OBVIOUS
  <2> QED
    BY <1>1, <2>1 DEF Before
<1>4. t \notin Before(o, k + 1)
  <2> SUFFICES ASSUME NEW j \in 1..k, o[j] = o[k + 1] PROVE FALSE
    BY <1>1 DEF Before
  <2>1. j \in DOMAIN o
    BY <1>1
  <2> QED
    BY <1>1, <2>1 DEF IsInjective
<1> HIDE DEF t, new, T
<1>5. /\ groups \in Seq(Seq(T) \ {<<>>})
      /\ \A x : Together(groups, x, x) <=> x \in Before(o, k + 1)
      /\ \A g, h \in DOMAIN groups : \A p \in DOMAIN groups[g], q \in DOMAIN groups[h] :
           groups[g][p] = groups[h][q] => g = h /\ p = q
  BY DEF GroupsOK, T
<1>6. ASSUME new \in Seq(Seq(T) \ {<<>>}), Extends(groups, new), \E g1, p1 : AddedAt(groups, new, t, g1, p1),
             t \notin sch.reused => Earlier(new, ParentOf(sch, t), t) /\ Together(new, ParentOf(sch, t), t),
             t \in sch.reused => \A d \in Dependencies(sch, t) : Earlier(new, d, t)
      PROVE  GroupsOK(sch, o, k + 1, new)
  <2>0. PICK g1, p1 : AddedAt(groups, new, t, g1, p1)
    BY <1>6
  <2>1. /\ \A x : Together(new, x, x) <=> Together(groups, x, x) \/ x = t
        /\ \A g, h \in DOMAIN new : \A p \in DOMAIN new[g], q \in DOMAIN new[h] :
             new[g][p] = new[h][q] => g = h /\ p = q
    BY <1>4, <1>5, <1>6, <2>0, AddedOnce
  <2>2. \A x : Together(new, x, x) <=> x \in Before(o, (k + 1) + 1)
    BY <1>3, <1>5, <2>1
  <2>3. \A x \in Before(o, (k + 1) + 1) \ sch.reused :
          Earlier(new, ParentOf(sch, x), x) /\ Together(new, ParentOf(sch, x), x)
    BY <1>3, <1>6, ExtensionKeeps DEF GroupsOK
  <2>4. \A x \in Before(o, (k + 1) + 1) \intersect sch.reused : \A d \in Dependencies(sch, x) : Earlier(new, d, x)
    BY <1>3, <1>6, ExtensionKeeps DEF GroupsOK
  <2> QED
    BY <1>6, <2>1, <2>2, <2>3, <2>4 DEF GroupsOK, T
<1>7. CASE t \in sch.reused
  <2>1. new = Append(groups, <<t>>)
    BY <1>7 DEF new, Assigned
  <2>2. /\ new \in Seq(Seq(T) \ {<<>>}) /\ Extends(groups, new)
        /\ AddedAt(groups, new, t, Len(groups) + 1, 1)
        /\ \A g \in DOMAIN groups : g < Len(groups) + 1
    BY <1>2, <1>5, <2>1, OpensGroup
  <2>3. ASSUME NEW d \in Dependencies(sch, t) PROVE Earlier(new, d, t)
    <3>1. PICK g \in DOMAIN groups : \E p \in DOMAIN groups[g] : groups[g][p] = d
      BY <1>2, <1>5, TogetherSelf
    <3>2. PICK p \in DOMAIN groups[g] : groups[g][p] = d
      BY <3>1
    <3>3. g \in DOMAIN new /\ p \in DOMAIN new[g] /\ new[g][p] = d
      BY <2>2, <3>2 DEF Extends
    <3>4. Len(groups) + 1 \in DOMAIN new /\ 1 \in DOMAIN new[Len(groups) + 1] /\ new[Len(groups) + 1][1] = t
      BY <2>2 DEF AddedAt
    <3> QED
      BY <2>2, <3>3, <3>4 DEF Earlier
  <2>4. new \in Seq(Seq(T) \ {<<>>}) /\ Extends(groups, new) /\ \E g1, p1 : AddedAt(groups, new, t, g1, p1)
    BY <2>2
  <2>5. \A d \in Dependencies(sch, t) : Earlier(new, d, t)
    BY <2>3
  <2> QED
    BY <1>6, <1>7, <2>4, <2>5 DEF new, t
<1>8. CASE t \notin sch.reused
  <2>1. ParentOf(sch, t) \in Before(o, k + 1)
    BY <1>2, <1>8, ReadsAreDependencies DEF T
  <2>2. PICK g0 \in DOMAIN groups : \E p \in DOMAIN groups[g0] : groups[g0][p] = ParentOf(sch, t)
    BY <1>5, <2>1, TogetherSelf
  <2>3. PICK p0 \in DOMAIN groups[g0] : groups[g0][p0] = ParentOf(sch, t)
    BY <2>2
  <2>4. /\ new \in Seq(Seq(T) \ {<<>>}) /\ Extends(groups, new)
        /\ AddedAt(groups, new, t, g0, Len(groups[g0]) + 1)
        /\ p0 < Len(groups[g0]) + 1
    <3>1. \A g \in DOMAIN groups : \A p \in DOMAIN groups[g] : groups[g][p] = groups[g0][p0] => g = g0
      BY <1>5
    <3> QED
      BY <1>2, <1>5, <1>8, <2>3, <3>1, JoinsGroup DEF new
  <2>5. Earlier(new, ParentOf(sch, t), t) /\ Together(new, ParentOf(sch, t), t)
    <3>1. g0 \in DOMAIN new /\ p0 \in DOMAIN new[g0] /\ new[g0][p0] = ParentOf(sch, t)
      BY <2>3, <2>4 DEF Extends
    <3>2. Len(groups[g0]) + 1 \in DOMAIN new[g0] /\ new[g0][Len(groups[g0]) + 1] = t
      BY <2>4 DEF AddedAt
    <3> QED
      BY <2>4, <3>1, <3>2 DEF Earlier, Together
  <2>6. new \in Seq(Seq(T) \ {<<>>}) /\ Extends(groups, new) /\ \E g1, p1 : AddedAt(groups, new, t, g1, p1)
    BY <2>4
  <2> QED
    BY <1>6, <1>8, <2>5, <2>6 DEF new, t
<1> QED
  BY <1>7, <1>8

LEMMA EveryAssigned ==
  ASSUME NEW sch, IsSchema(sch), ~Rejected(sch), ~Dangling(sch), NEW o \in Seq(TableSet(sch)),
         IsInjective(o), AfterDependencies(sch, o)
  PROVE  GroupsOK(sch, o, Len(o), Grouped(sch, o)[Len(o)])
<1> DEFINE G == Grouped(sch, o)
           S == {k \in Nat : k <= Len(o) => GroupsOK(sch, o, k, G[k])}
<1>1. /\ G[0] = <<>> /\ Len(o) \in Nat
      /\ \A k \in 0..(Len(o) - 1) : G[k + 1] = Assigned(sch, G[k], o[k + 1])
  BY GroupedDef
<1> HIDE DEF G
<1>2. 0 \in S
  <2>1. Before(o, 0 + 1) = {}
    BY DEF Before
  <2>2. DOMAIN <<>> = {} /\ <<>> \in Seq(Seq(TableSet(sch)) \ {<<>>})
    OBVIOUS
  <2>3. GroupsOK(sch, o, 0, <<>>)
    BY <2>1, <2>2 DEF GroupsOK, Together
  <2> QED
    BY <1>1, <2>3
<1>3. ASSUME NEW k \in Nat, k \in S PROVE k + 1 \in S
  <2> SUFFICES ASSUME k + 1 <= Len(o) PROVE GroupsOK(sch, o, k + 1, G[k + 1])
    OBVIOUS
  <2>1. k <= Len(o) /\ k \in 0..(Len(o) - 1)
    BY <1>1
  <2>2. GroupsOK(sch, o, k, G[k])
    BY <1>3, <2>1
  <2>3. GroupsOK(sch, o, k + 1, Assigned(sch, G[k], o[k + 1]))
    BY <2>1, <2>2, NextAssigned
  <2> QED
    BY <1>1, <2>1, <2>3
<1>4. Nat \subseteq S
  <2> HIDE DEF S
  <2> QED
    BY <1>2, <1>3, SetInduction
<1> QED
  BY <1>1, <1>4 DEF G

(***************************************************************************)
(* The transaction groups of any schema that has an order: every table     *)
(* once; a duplicated table in the group of its parent, behind it, so that *)
(* a subtree is committed whole; and what a reused table reads before it.  *)
(* (What a duplicated table reads may come after its group.)               *)
(***************************************************************************)
THEOREM GroupsKeepOrder ==
  ASSUME NEW sch, IsSchema(sch), ~Rejected(sch), ~Dangling(sch), Acyclic(sch)
  PROVE  LET plan == TransactionGroupsOf(sch)
         IN /\ plan \in Seq(Seq(TableSet(sch)) \ {<<>>})
            /\ EachOnce(TableSet(sch), plan)
            /\ SubtreesTogether(sch, plan)
            /\ ReadBefore(sch, plan, sch.reused)
<1> DEFINE o == StaticOrder(sch)
           plan == TransactionGroupsOf(sch)
           T == TableSet(sch)
<1>1. o \in Seq(T) /\ IsInjective(o) /\ Range(o) = T /\ AfterDependencies(sch, o)
  BY AllOrdered
<1>2. GroupsOK(sch, o, Len(o), plan)
  BY <1>1, EveryAssigned DEF TransactionGroupsOf
<1> HIDE DEF o, plan
<1>3. Before(o, Len(o) + 1) = T
  <2>1. DOMAIN o = 1..((Len(o) + 1) - 1)
    BY <1>1
  <2> QED
    BY <1>1, <2>1 DEF Before, Range
<1>4. plan \in Seq(Seq(T) \ {<<>>})
  BY <1>2 DEF GroupsOK
<1>5. EachOnce(T, plan)
  <2>1. ASSUME NEW g \in DOMAIN plan PROVE plan[g] # <<>> /\ Range(plan[g]) \subseteq T
    <3>1. plan[g] \in Seq(T) /\ plan[g] # <<>>
      BY <1>4
    <3> QED
      BY <3>1 DEF Range
  <2>2. ASSUME NEW t \in T PROVE Together(plan, t, t)
    BY <1>2, <1>3 DEF GroupsOK
  <2>3. ASSUME NEW t \in T, Earlier(plan, t, t) PROVE FALSE
    <3>1. PICK g \in DOMAIN plan, h \in DOMAIN plan :
            \E p \in DOMAIN plan[g], q \in DOMAIN plan[h] :
              plan[g][p] = t /\ plan[h][q] = t /\ (g < h \/ (g = h /\ p < q))
      BY <2>3 DEF Earlier
    <3>2. PICK p \in DOMAIN plan[g], q \in DOMAIN plan[h] :
            plan[g][p] = t /\ plan[h][q] = t /\ (g < h \/ (g = h /\ p < q))
      BY <3>1
    <3>3. g = h /\ p = q
      BY <1>2, <3>2 DEF GroupsOK
    <3>4. g \in Nat /\ plan[g] \in Seq(T)
      BY <1>4
    <3>5. p \in Nat
      BY <3>4
    <3> QED
      BY <3>2, <3>3, <3>4, <3>5
  <2> QED
    BY <2>1, <2>2, <2>3 DEF EachOnce
<1>6. SubtreesTogether(sch, plan)
  BY <1>2, <1>3 DEF SubtreesTogether, GroupsOK
<1>7. ReadBefore(sch, plan, sch.reused)
  <2> SUFFICES ASSUME NEW f \in sch.fields, f.table \in sch.reused
               PROVE  IF f.other \in sch.reused THEN Earlier(plan, f.other, f.table)
                      ELSE Earlier(plan, f.table, f.other)
    BY DEF ReadBefore
  <2>1. f.table \in T /\ f.other \in T
    BY DEF IsSchema, Dangling
  <2>2. CASE f.other \in sch.reused
    <3>1. f.other \in Dependencies(sch, f.table)
      BY <2>2, ReadsAreDependencies
    <3> QED
      BY <1>2, <1>3, <2>1, <2>2, <3>1 DEF GroupsOK
  <2>3. CASE f.other \notin sch.reused
    <3>1. f.table = ParentOf(sch, f.other)
      BY <2>3, ReadsAreDependencies
    <3> QED
      BY <1>6, <2>1, <2>3, <3>1 DEF SubtreesTogether
  <2> QED
    BY <2>2, <2>3
<1> QED
  BY <1>4, <1>5, <1>6, <1>7 DEF plan
==============================================================================
