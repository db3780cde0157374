----------------------------- MODULE StagingProofs -----------------------------
(***************************************************************************)
(* Theorems about Staging, for any tables, documents, options and loaders. *)
(***************************************************************************)
EXTENDS Staging, DataLemmas, FiniteSetTheorems

(***************************************************************************)
(* bulk_load is honoured by every backend, for any sizes and thresholds.   *)
(***************************************************************************)
Loads == /\ case \in Cases /\ DOMAIN ways = Loader /\ DOMAIN outcome = Loader

WayHonoured(options, w) ==
  /\ /\ options.bulk = "required"
     /\ ~(w.n < Threshold(case.link.dialect, options, FileThreshold))
     => w.way = IF case.link.dialect = "base" THEN "executemany" ELSE "native"
  /\ options.bulk = "never" => w.way = "executemany"

LEMMA WayOfHonoured ==
  ASSUME NEW options, NEW n, NEW known, NEW on, NEW way,
         way = WayOf(case.link, options, n, FileThreshold, known, on)
  PROVE  /\ way = "raise" => options.bulk = "required"
         /\ way # "raise" => WayHonoured(options, [way |-> way, n |-> n])
BY DEF WayOf, WayHonoured, NoDriver, NoTool, Small, Barred

LEMMA BulkLoadSplit ==
  BulkLoadHonoured <=>
    \A l \in DOMAIN case.loads :
      /\ \A w \in ways[l] : WayHonoured(Load(l).options, w)
      /\ outcome[l] = "no bulk load" => Load(l).options.bulk = "required"
BY DEF BulkLoadHonoured, WayHonoured

BulkLoadInv == Loads /\ BulkLoadHonoured

NoNewRefusal ==
  /\ case' = case /\ ways' = ways /\ DOMAIN outcome' = Loader
  /\ \A k \in Loader : outcome'[k] = "no bulk load" => outcome[k] = "no bulk load"

LEMMA StillHonoured ==
  ASSUME Loads, case' = case, DOMAIN ways' = Loader, DOMAIN outcome' = Loader,
         \A k \in DOMAIN case.loads :
           /\ \A w \in ways'[k] : WayHonoured(Load(k).options, w)
           /\ outcome'[k] = "no bulk load" => Load(k).options.bulk = "required"
  PROVE  BulkLoadInv'
<1>1. \A k : Load(k)' = Load(k)
  BY DEF Load
<1>2. BulkLoadHonoured'
  BY <1>1 DEF BulkLoadHonoured, WayHonoured
<1> QED
  BY <1>2 DEF BulkLoadInv, Loads

LEMMA OutcomeOnly ==
  ASSUME BulkLoadInv, NoNewRefusal
  PROVE  BulkLoadInv'
<1>1. \A k \in DOMAIN case.loads :
        /\ \A w \in ways[k] : WayHonoured(Load(k).options, w)
        /\ outcome[k] = "no bulk load" => Load(k).options.bulk = "required"
  BY BulkLoadSplit DEF BulkLoadInv
<1>2. \A k \in DOMAIN case.loads :
        /\ \A w \in ways'[k] : WayHonoured(Load(k).options, w)
        /\ outcome'[k] = "no bulk load" => Load(k).options.bulk = "required"
  BY <1>1, CasesAssumption DEF BulkLoadInv, Loads, NoNewRefusal
<1> QED
  BY <1>2, StillHonoured DEF BulkLoadInv, Loads, NoNewRefusal

LEMMA BatchHonoured ==
  ASSUME BulkLoadInv, NEW l \in Loader, InsertBatch(l)
  PROVE  BulkLoadInv'
<1> DEFINE n == Len(Batch(l, Current(l)))
           known == probed[Prefix(l)]
           way == WayOf(case.link, Load(l).options, n, FileThreshold, known, server)
<1> HIDE DEF n, known, way
<1>1. /\ way = "raise" => Load(l).options.bulk = "required"
      /\ way # "raise" => WayHonoured(Load(l).options, [way |-> way, n |-> n])
  BY WayOfHonoured DEF way
<1>2. case' = case /\ (\A k : Load(k)' = Load(k))
  BY DEF InsertBatch, Load
<1>5. \A k \in DOMAIN case.loads :
        /\ \A w \in ways[k] : WayHonoured(Load(k).options, w)
        /\ outcome[k] = "no bulk load" => Load(k).options.bulk = "required"
  BY BulkLoadSplit DEF BulkLoadInv
<1>3. CASE way = "raise"
  <2>1. Raise(l, "no bulk load") /\ ways' = ways
    BY <1>3 DEF InsertBatch, n, known, way
  <2>2. /\ DOMAIN outcome' = Loader
        /\ \A k \in Loader : outcome'[k] = "no bulk load" => outcome[k] = "no bulk load" \/ k = l
    BY <2>1 DEF Raise, BulkLoadInv, Loads
  <2>3. \A k \in DOMAIN case.loads :
          /\ \A w \in ways'[k] : WayHonoured(Load(k).options, w)
          /\ outcome'[k] = "no bulk load" => Load(k).options.bulk = "required"
    BY <1>1, <1>5, <1>3, <2>1, <2>2, CasesAssumption DEF BulkLoadInv, Loads
  <2> QED
    BY <1>2, <2>1, <2>2, <2>3, StillHonoured DEF BulkLoadInv, Loads
<1>4. CASE way # "raise"
  <2>1. \/ ways' = [ways EXCEPT ![l] = @ \union {[way |-> way, n |-> n]}] /\ outcome' = outcome
        \/ ways' = ways /\ Raise(l, "no such table")
        \/ ways' = ways /\ Raise(l, "no value")
    BY <1>4 DEF InsertBatch, n, known, way
  <2>2. CASE ways' = ways
    <3>1. NoNewRefusal
      BY <1>2, <2>1, <2>2 DEF NoNewRefusal, Raise, BulkLoadInv, Loads
    <3> QED
      BY <3>1, OutcomeOnly
  <2>3. CASE /\ ways' = [ways EXCEPT ![l] = @ \union {[way |-> way, n |-> n]}]
             /\ outcome' = outcome
    <3>1. DOMAIN ways' = Loader
      BY <2>3 DEF BulkLoadInv, Loads
    <3>2. \A k \in Loader : \A w \in ways'[k] : w \in ways[k] \/ (k = l /\ w = [way |-> way, n |-> n])
      BY <2>3 DEF BulkLoadInv, Loads
    <3>3. \A k \in DOMAIN case.loads :
            /\ \A w \in ways'[k] : WayHonoured(Load(k).options, w)
            /\ outcome'[k] = "no bulk load" => Load(k).options.bulk = "required"
      BY <1>1, <1>5, <1>4, <2>3, <3>2, CasesAssumption DEF BulkLoadInv, Loads
    <3> QED
      BY <1>2, <2>3, <3>1, <3>3, StillHonoured DEF BulkLoadInv, Loads
  <2> QED
    BY <2>1, <2>2, <2>3
<1> QED
  BY <1>3, <1>4

(***************************************************************************)
(* A load that asks for bulk loading gets it, or fails, for every batch    *)
(* that is large enough; one that refuses it never gets it; and nobody     *)
(* fails for want of it who did not ask.                                   *)
(***************************************************************************)
THEOREM BulkLoad == Spec => []BulkLoadHonoured
<1>1. Init => BulkLoadInv
  BY CasesAssumption DEF Init, BulkLoadInv, Loads, BulkLoadHonoured
<1>2. BulkLoadInv /\ [Next]_vars => BulkLoadInv'
  <2> SUFFICES ASSUME BulkLoadInv, [Next]_vars PROVE BulkLoadInv'
    OBVIOUS
  <2>1. ASSUME NEW l \in Loader, InsertBatch(l) PROVE BulkLoadInv'
    BY <2>1, BatchHonoured
  <2>2. ASSUME NEW l \in Loader, Merge(l) PROVE NoNewRefusal
    BY <2>2 DEF Merge, Raise, NoNewRefusal, BulkLoadInv, Loads
  <2>3. ASSUME NEW l \in Loader, StatementFails(l) \/ BcpFails(l) PROVE NoNewRefusal
    BY <2>3 DEF StatementFails, BcpFails, history, Raise, NoNewRefusal, BulkLoadInv, Loads
  <2>4. ASSUME NEW l \in Loader, CreateSchema(l) \/ CreateTarget(l) \/ CreateTemp(l) \/ DropTemp(l)
        PROVE  NoNewRefusal
    <3>1. case' = case /\ ways' = ways
      BY <2>4 DEF CreateSchema, CreateTarget, CreateTemp, DropTemp
    <3>2. outcome' = outcome \/ Raise(l, "already exists") \/ Raise(l, "no such table")
      BY <2>4 DEF CreateSchema, CreateTarget, CreateTemp, DropTemp
    <3> QED
      BY <3>1, <3>2 DEF Raise, NoNewRefusal, BulkLoadInv, Loads
  <2>5. ASSUME NEW l \in Loader,
               Start(l) \/ Look(l) \/ SkipTable(l) \/ InsertNothing(l) \/ Kill(l)
        PROVE  NoNewRefusal
    <3>1. case' = case /\ ways' = ways /\ outcome' = outcome
      BY <2>5 DEF Start, Look, SkipTable, InsertNothing, Kill, vars, history
    <3> QED
      BY <3>1 DEF NoNewRefusal, BulkLoadInv, Loads
  <2>6. CASE ChangeSetting \/ UNCHANGED vars
    BY <2>6 DEF BulkLoadInv, Loads, BulkLoadHonoured, Load, ChangeSetting, vars, history
  <2> QED
    BY <2>1, <2>2, <2>3, <2>4, <2>5, <2>6, OutcomeOnly DEF Next, LoaderStep
<1>3. BulkLoadInv => BulkLoadHonoured
  BY DEF BulkLoadInv
<1> QED
  BY <1>1, <1>2, <1>3, PTL DEF Spec
-----------------------------------------------------------------------------
(***************************************************************************)
(* What a load is at, and what it has so far.                              *)
(***************************************************************************)
Stages == Working \union {"idle", "done", "failed", "killed"}

WellFormed ==
  /\ case \in Cases
  /\ DOMAIN temps = Model /\ \A m \in Model : DOMAIN temps[m] \subseteq TempTable
  /\ stage \in [Loader -> Stages]
  /\ step \in [Loader -> Nat \ {0}]
  /\ missing \in [Loader -> BOOLEAN]
  /\ DOMAIN outcome = Loader /\ DOMAIN before = Loader
  /\ \A l \in Loader :
       /\ Running(l) => l \in DOMAIN case.loads /\ step[l] <= Len(StepsOf(l))
       /\ missing[l] => stage[l] \in Defines
       /\ stage[l] = "idle" => l \in DOMAIN case.loads /\ outcome[l] = "none"
       /\ outcome[l] = "not dropped" => stage[l] = "failed"
       /\ stage[l] = "schema" => case.schema
       /\ before[l] \subseteq made

Ahead(l, t) == \E i \in DOMAIN DropOrder : step[l] <= i /\ DropOrder[i] = t
Answers(l, t) ==
  \/ stage[l] \in {"drop", "create", "insert", "target", "merge", "killed"}
  \/ outcome[l] = "not dropped"
  \/ stage[l] = "cleanup" /\ Ahead(l, t)

Owned ==
  \A m \in Model : \A t \in DOMAIN temps[m] :
    \E l \in DOMAIN case.loads : Prefix(l) = m /\ Answers(l, t)

Present(l) ==
  /\ stage[l] \in {"drop", "cleanup"} /\ missing[l] => Current(l) \in DOMAIN TempsOf(l)
  /\ stage[l] = "create" =>
       /\ \A i \in 1..(step[l] - 1) : CreateOrder[i] \in DOMAIN TempsOf(l)
       /\ missing[l] => Current(l) \notin DOMAIN TempsOf(l)
  /\ stage[l] \in {"insert", "target", "merge"} => TempTable \subseteq DOMAIN TempsOf(l)
  /\ stage[l] \in {"schema", "target"} /\ missing[l] =>
       /\ Current(l) \notin before[l]
       /\ Current(l) \in made => \E k \in DOMAIN case.loads \ {l} : stage[k] # "idle"

-----------------------------------------------------------------------------
(***************************************************************************)
(* The creation and the drop order, a sequence of sequences flattened.     *)
(***************************************************************************)
LEMMA FlattenDef ==
  ASSUME NEW seqs, Len(seqs) \in Nat \ {0}
  PROVE  \E f : /\ f[1] = seqs[1] /\ FlattenSeq(seqs) = f[Len(seqs)]
                /\ \A k \in 1..(Len(seqs) - 1) : f[k + 1] = f[k] \o seqs[k + 1]
<1> DEFINE N == Len(seqs)
           Is(g, n) == g = [k \in 1..n |-> IF k = 1 THEN seqs[k] ELSE g[k - 1] \o seqs[k]]
           S == {n \in Nat : \E g : Is(g, n)}
<1>1. 0 \in S
  <2>1. Is(<<>>, 0)
    OBVIOUS
  <2> HIDE DEF Is
  <2> QED
    BY <2>1
<1>2. ASSUME NEW n \in Nat, n \in S PROVE n + 1 \in S
  <2>1. PICK g : Is(g, n)
    BY <1>2
  <2> DEFINE h == [k \in 1..(n + 1) |-> IF k = n + 1 /\ n # 0 THEN g[n] \o seqs[n + 1]
                                        ELSE IF k = 1 THEN seqs[1] ELSE g[k]]
  <2>2. ASSUME NEW k \in 1..(n + 1) PROVE h[k] = IF k = 1 THEN seqs[k] ELSE h[k - 1] \o seqs[k]
    <3>1. CASE k = 1
      <4>1. h[k] = seqs[k]
        BY <3>1
      <4> QED
        BY <3>1, <4>1
    <3>2. CASE k # 1 /\ k = n + 1
      <4>1. n # 0 /\ n \in 1..n /\ n \in 1..(n + 1) /\ n # n + 1 /\ k - 1 = n
        BY <3>2
      <4>2. h[k] = g[n] \o seqs[n + 1]
        BY <3>2, <4>1
      <4>3. h[n] = g[n]
        BY <2>1, <4>1
      <4> HIDE DEF h
      <4> QED
        BY <3>2, <4>1, <4>2, <4>3
    <3>3. CASE k # 1 /\ k # n + 1
      <4>1. k \in 1..n /\ k - 1 \in 1..(n + 1) /\ k - 1 # n + 1 /\ k - 1 \in 1..n
        BY <3>3
      <4>2. h[k] = g[k] /\ g[k] = g[k - 1] \o seqs[k]
        BY <2>1, <3>3, <4>1
      <4>3. h[k - 1] = g[k - 1]
        BY <2>1, <4>1
      <4> HIDE DEF h
      <4> QED
        BY <3>3, <4>2, <4>3
    <3> QED
      BY <3>1, <3>2, <3>3
  <2>3. h = [k \in 1..(n + 1) |-> h[k]]
    OBVIOUS
  <2> HIDE DEF h
  <2>4. Is(h, n + 1)
    BY <2>2, <2>3
  <2> HIDE DEF Is
  <2> QED
    BY <2>4
<1>3. N \in S
  <2>1. Nat \subseteq S
    <3> HIDE DEF S
    <3> QED
      BY <1>1, <1>2, SetInduction
  <2> QED
    BY <2>1
<1> DEFINE F == CHOOSE g : Is(g, N)
<1>4. Is(F, N)
  <2>1. \E g : Is(g, N)
    BY <1>3
  <2> HIDE DEF Is
  <2> QED
    BY <2>1
<1>5. FlattenSeq(seqs) = F[N]
  BY DEF FlattenSeq
<1> HIDE DEF F, N
<1>6. F[1] = seqs[1] /\ \A k \in 1..(N - 1) : F[k + 1] = F[k] \o seqs[k + 1]
  <2>1. \A k \in 1..N : F[k] = IF k = 1 THEN seqs[k] ELSE F[k - 1] \o seqs[k]
    BY <1>4
  <2>2. N \in Nat \ {0}
    BY DEF N
  <2>3. F[1] = seqs[1]
    BY <2>1, <2>2
  <2>4. ASSUME NEW k \in 1..(N - 1) PROVE F[k + 1] = F[k] \o seqs[k + 1]
    <3>1. k + 1 \in 1..N /\ k + 1 # 1 /\ (k + 1) - 1 = k
      BY <2>2
    <3> QED
      BY <2>1, <3>1
  <2> QED
    BY <2>3, <2>4
<1> QED
  BY <1>5, <1>6 DEF N

LEMMA Flattened ==
  ASSUME NEW K, NEW seqs \in Seq(Seq(K)), seqs # <<>>
  PROVE  /\ FlattenSeq(seqs) \in Seq(K)
         /\ Range(FlattenSeq(seqs)) = UNION {Range(seqs[i]) : i \in DOMAIN seqs}
         /\ /\ \A i \in DOMAIN seqs : IsInjective(seqs[i])
            /\ \A i, j \in DOMAIN seqs : i # j => Range(seqs[i]) \intersect Range(seqs[j]) = {}
            => IsInjective(FlattenSeq(seqs))
<1> DEFINE N == Len(seqs)
           Parts(n) == {Range(seqs[i]) : i \in 1..n}
           Apart == /\ \A i \in DOMAIN seqs : IsInjective(seqs[i])
                    /\ \A i, j \in DOMAIN seqs : i # j => Range(seqs[i]) \intersect Range(seqs[j]) = {}
           OK(s, n) == s \in Seq(K) /\ Range(s) = UNION Parts(n) /\ (Apart => IsInjective(s))
<1>1. N \in Nat \ {0} /\ DOMAIN seqs = 1..N /\ \A i \in 1..N : seqs[i] \in Seq(K)
  OBVIOUS
<1>2. PICK f : /\ f[1] = seqs[1] /\ FlattenSeq(seqs) = f[N]
               /\ \A k \in 1..(N - 1) : f[k + 1] = f[k] \o seqs[k + 1]
  BY <1>1, FlattenDef
<1>3. OK(f[1], 1)
  <2>1. Parts(1) = {Range(seqs[1])} /\ 1 \in 1..N
    BY <1>1
  <2> HIDE DEF N, Parts
  <2> QED
    BY <1>1, <1>2, <2>1
<1>4. ASSUME NEW n \in 1..(N - 1), OK(f[n], n) PROVE OK(f[n + 1], n + 1)
  <2>1. n + 1 \in 1..N /\ f[n + 1] = f[n] \o seqs[n + 1] /\ n \in Nat
    <3>1. f[n + 1] = f[n] \o seqs[n + 1]
      BY <1>2
    <3> HIDE DEF N
    <3>2. n + 1 \in 1..N /\ n \in Nat
      BY <1>1
    <3> QED
      BY <3>1, <3>2
  <2>2. f[n] \in Seq(K) /\ seqs[n + 1] \in Seq(K)
    BY <1>1, <1>4, <2>1
  <2>3. f[n + 1] \in Seq(K)
    BY <2>1, <2>2
  <2>4. Range(f[n + 1]) = Range(f[n]) \union Range(seqs[n + 1])
    BY <2>1, <2>2, RangeConcatenation
  <2>5. Parts(n + 1) = Parts(n) \union {Range(seqs[n + 1])}
    <3>1. 1..(n + 1) = 1..n \union {n + 1}
      BY <2>1
    <3> QED
      BY <3>1
  <2>6. ASSUME Apart PROVE IsInjective(f[n + 1])
    <3>1. IsInjective(f[n]) /\ IsInjective(seqs[n + 1])
      BY <1>1, <1>4, <2>1, <2>6
    <3>2. \A i \in 1..n : Range(seqs[i]) \intersect Range(seqs[n + 1]) = {}
      <4> SUFFICES ASSUME NEW i \in 1..n PROVE Range(seqs[i]) \intersect Range(seqs[n + 1]) = {}
        OBVIOUS
      <4>1. i \in 1..N /\ i # n + 1
        BY <2>1
      <4> QED
        BY <1>1, <2>1, <2>6, <4>1
    <3>3. Range(f[n]) \intersect Range(seqs[n + 1]) = {}
      BY <1>4, <3>2
    <3> QED
      BY <2>1, <2>2, <3>1, <3>3, JoinedInjective
  <2> HIDE DEF Parts, Apart
  <2> QED
    BY <1>4, <2>3, <2>4, <2>5, <2>6
<1> DEFINE S == {n \in Nat : n \in 1..N => OK(f[n], n)}
<1>5. 0 \in S
  OBVIOUS
<1>6. ASSUME NEW n \in Nat, n \in S PROVE n + 1 \in S
  <2> HIDE DEF OK, N
  <2>1. CASE n + 1 \notin 1..N
    BY <2>1
  <2>2. CASE n = 0
    BY <1>3, <2>2
  <2>3. CASE n # 0 /\ n + 1 \in 1..N
    <3>1. n \in 1..(N - 1) /\ n \in 1..N
      BY <1>1, <2>3
    <3> QED
      BY <1>4, <1>6, <3>1
  <2> QED
    BY <2>1, <2>2, <2>3
<1>7. OK(f[N], N)
  <2>1. Nat \subseteq S
    <3> HIDE DEF S
    <3> QED
      BY <1>5, <1>6, SetInduction
  <2>2. N \in Nat /\ N \in 1..N
    BY <1>1
  <2> HIDE DEF OK, N
  <2> QED
    BY <2>1, <2>2
<1> QED
  <2>1. DOMAIN seqs = 1..N
    BY <1>1
  <2> HIDE DEF N
  <2>2. Parts(N) = {Range(seqs[i]) : i \in DOMAIN seqs}
    BY <2>1
  <2> HIDE DEF Parts, Apart
  <2>3. FlattenSeq(seqs) \in Seq(K) /\ Range(FlattenSeq(seqs)) = UNION Parts(N) /\ (Apart => IsInjective(FlattenSeq(seqs)))
    BY <1>2, <1>7
  <2> QED
    BY <2>2, <2>3 DEF Apart

(***************************************************************************)
(* Both orders go through all the tables, the creation order once.         *)
(***************************************************************************)
LEMMA NamesOf ==
  ASSUME NEW tb \in Range(Tables)
  PROVE  /\ Names(tb) \in Seq(Range(Names(tb))) /\ Names(tb) # <<>>
         /\ tb.rels \o <<tb.name>> \in Seq(Range(Names(tb)))
         /\ Range(tb.rels \o <<tb.name>>) = Range(Names(tb))
<1> DEFINE K == Range(tb.rels) \union {tb.name}
           self == <<tb.name>>
<1>1. tb.rels \in Seq(K) /\ self \in Seq(K) /\ Range(self) = {tb.name}
  <2>1. tb.rels \in Seq(Range(tb.rels))
    BY TablesAssumption
  <2>2. self \in Seq(K) /\ Range(self) = {tb.name}
    BY DEF Range
  <2>3. Range(tb.rels) \subseteq K
    OBVIOUS
  <2> HIDE DEF K, self
  <2> QED
    BY <2>1, <2>2, <2>3
<1>2. Names(tb) = self \o tb.rels
  BY DEF Names
<1>3. Range(self \o tb.rels) = K /\ Range(tb.rels \o self) = K
  <2> HIDE DEF self
  <2> QED
    BY <1>1, RangeConcatenation
<1>4. self \o tb.rels \in Seq(K) /\ tb.rels \o self \in Seq(K) /\ self \o tb.rels # <<>>
  <2>1. Len(self) = 1
    OBVIOUS
  <2> HIDE DEF K, self
  <2>2. /\ self \o tb.rels \in Seq(K) /\ Len(self \o tb.rels) = Len(self) + Len(tb.rels)
        /\ tb.rels \o self \in Seq(K) /\ Len(tb.rels) \in Nat
    BY <1>1, Joined
  <2> QED
    BY <2>1, <2>2
<1> QED
  BY <1>2, <1>3, <1>4 DEF self

LEMMA TablesTyped ==
  /\ Len(Tables) \in Nat \ {0} /\ DOMAIN Tables = 1..Len(Tables)
  /\ \A i \in DOMAIN Tables : Tables[i] \in Range(Tables)
BY TablesAssumption DEF Range

LEMMA CreationOrder ==
  /\ CreateOrder \in Seq(TempTable) /\ CreateOrder # <<>> /\ IsInjective(CreateOrder)
  /\ TempTable = UNION {Range(Names(Tables[i])) : i \in DOMAIN Tables}
<1> DEFINE seqs == [i \in DOMAIN Tables |-> Names(Tables[i])]
           K == UNION {Range(Names(Tables[i])) : i \in DOMAIN Tables}
<1>1. \A i \in DOMAIN Tables : Names(Tables[i]) \in Seq(K) /\ Names(Tables[i]) # <<>> /\ IsInjective(Names(Tables[i]))
  <2> SUFFICES ASSUME NEW i \in DOMAIN Tables
               PROVE  /\ Names(Tables[i]) \in Seq(K)
                      /\ Names(Tables[i]) # <<>> /\ IsInjective(Names(Tables[i]))
    OBVIOUS
  <2>1. Tables[i] \in Range(Tables)
    BY TablesTyped
  <2>2. Names(Tables[i]) \in Seq(Range(Names(Tables[i]))) /\ Names(Tables[i]) # <<>>
    BY <2>1, NamesOf
  <2>3. Range(Names(Tables[i])) \subseteq K
    OBVIOUS
  <2>4. IsInjective(Names(Tables[i]))
    BY <2>1, TablesAssumption
  <2> HIDE DEF K
  <2> QED
    BY <2>2, <2>3, <2>4
<1>2. seqs \in Seq(Seq(K)) /\ seqs # <<>> /\ DOMAIN seqs = DOMAIN Tables
  <2> HIDE DEF K
  <2>1. seqs \in [1..Len(Tables) -> Seq(K)] /\ Len(Tables) \in Nat \ {0}
    BY <1>1, TablesTyped
  <2>2. seqs \in Seq(Seq(K))
    <3> HIDE DEF seqs
    <3> QED
      BY <2>1, IsSequence
  <2>3. 1 \in DOMAIN seqs
    BY <2>1
  <2> QED
    BY <2>2, <2>3
<1>3. \A i \in DOMAIN seqs : seqs[i] = Names(Tables[i])
  OBVIOUS
<1> HIDE DEF seqs, K
<1>4. /\ \A i \in DOMAIN seqs : IsInjective(seqs[i])
      /\ \A i, j \in DOMAIN seqs : i # j => Range(seqs[i]) \intersect Range(seqs[j]) = {}
  BY <1>1, <1>2, <1>3, TablesAssumption
<1>5. /\ FlattenSeq(seqs) \in Seq(K) /\ IsInjective(FlattenSeq(seqs))
      /\ Range(FlattenSeq(seqs)) = UNION {Range(seqs[i]) : i \in DOMAIN seqs}
  BY <1>2, <1>4, Flattened
<1>6. CreateOrder = FlattenSeq(seqs)
  BY DEF CreateOrder, seqs
<1>7. UNION {Range(seqs[i]) : i \in DOMAIN seqs} = K
  BY <1>2, <1>3 DEF K
<1>8. CreateOrder # <<>>
  <2>1. 1 \in DOMAIN Tables
    BY TablesTyped
  <2>2. Names(Tables[1]) \in Seq(K) /\ Names(Tables[1]) # <<>>
    BY <1>1, <2>1
  <2>3. 1 \in DOMAIN Names(Tables[1])
    BY <2>2
  <2>4. Names(Tables[1])[1] \in Range(seqs[1]) /\ 1 \in DOMAIN seqs
    BY <1>2, <1>3, <2>1, <2>3 DEF Range
  <2>5. Names(Tables[1])[1] \in Range(CreateOrder)
    BY <1>5, <1>6, <2>4
  <2> QED
    BY <2>5 DEF Range
<1> QED
  BY <1>5, <1>6, <1>7, <1>8 DEF TempTable, K

LEMMA DroppingOrder == DropOrder \in Seq(TempTable) /\ Range(DropOrder) = TempTable
<1> DEFINE Ends(tb) == tb.rels \o <<tb.name>>
           seqs == [i \in DOMAIN Tables |-> Ends(Reverse(Tables)[i])]
           N == Len(Tables)
<1>1. /\ N \in Nat \ {0} /\ DOMAIN Tables = 1..N
      /\ \A i \in 1..N : Reverse(Tables)[i] = Tables[(N - i) + 1] /\ (N - i) + 1 \in 1..N
  BY TablesTyped DEF Reverse
<1>2. \A i \in 1..N : Range(Names(Tables[i])) \subseteq TempTable
  BY CreationOrder, TablesTyped
<1>3. ASSUME NEW i \in 1..N
      PROVE  /\ seqs[i] = Ends(Tables[(N - i) + 1])
             /\ seqs[i] \in Seq(TempTable) /\ Range(seqs[i]) = Range(Names(Tables[(N - i) + 1]))
  <2>1. (N - i) + 1 \in 1..N /\ Tables[(N - i) + 1] \in Range(Tables)
    BY <1>1, TablesTyped
  <2>2. seqs[i] = Ends(Tables[(N - i) + 1])
    BY <1>1
  <2>3. /\ Ends(Tables[(N - i) + 1]) \in Seq(Range(Names(Tables[(N - i) + 1])))
        /\ Range(Ends(Tables[(N - i) + 1])) = Range(Names(Tables[(N - i) + 1]))
    BY <2>1, NamesOf
  <2>4. Range(Names(Tables[(N - i) + 1])) \subseteq TempTable
    BY <1>2, <2>1
  <2> HIDE DEF seqs, Ends, N
  <2> QED
    BY <2>2, <2>3, <2>4
<1>4. seqs \in Seq(Seq(TempTable)) /\ seqs # <<>> /\ DOMAIN seqs = 1..N
  <2>1. seqs \in [1..N -> Seq(TempTable)]
    <3>1. DOMAIN seqs = 1..N /\ seqs = [i \in 1..N |-> seqs[i]]
      BY <1>1
    <3> HIDE DEF seqs, N
    <3> QED
      BY <1>3, <3>1
  <2>2. seqs \in Seq(Seq(TempTable))
    <3> HIDE DEF seqs, N
    <3> QED
      BY <1>1, <2>1, IsSequence
  <2>3. DOMAIN seqs = 1..N /\ 1 \in DOMAIN seqs
    BY <1>1, <2>1
  <2>4. seqs # <<>>
    BY <2>3
  <2> QED
    BY <2>2, <2>3, <2>4
<1>5. DropOrder = FlattenSeq(seqs)
  BY DEF DropOrder
<1> HIDE DEF seqs, N
<1>6. FlattenSeq(seqs) \in Seq(TempTable) /\ Range(FlattenSeq(seqs)) = UNION {Range(seqs[i]) : i \in DOMAIN seqs}
  BY <1>4, Flattened
<1>7. ASSUME NEW t \in TempTable PROVE \E i \in DOMAIN seqs : t \in Range(seqs[i])
  <2>1. PICK j \in 1..N : t \in Range(Names(Tables[j]))
    BY <1>1, CreationOrder
  <2>2. (N - j) + 1 \in 1..N /\ (N - ((N - j) + 1)) + 1 = j
    BY <1>1
  <2>3. Range(seqs[(N - j) + 1]) = Range(Names(Tables[j]))
    BY <1>3, <2>2
  <2> QED
    BY <1>4, <2>1, <2>2, <2>3
<1>8. \A i \in DOMAIN seqs : Range(seqs[i]) \subseteq TempTable
  BY <1>3, <1>4, RangeOfSeq
<1>9. UNION {Range(seqs[i]) : i \in DOMAIN seqs} = TempTable
  BY <1>7, <1>8
<1> QED
  BY <1>5, <1>6, <1>9

LEMMA Orders ==
  /\ Len(CreateOrder) \in Nat \ {0} /\ DOMAIN CreateOrder = 1..Len(CreateOrder)
  /\ \A i \in DOMAIN CreateOrder : CreateOrder[i] \in TempTable
  /\ \A t \in TempTable : \E i \in DOMAIN CreateOrder : CreateOrder[i] = t
  /\ \A i, j \in DOMAIN CreateOrder : CreateOrder[i] = CreateOrder[j] => i = j
  /\ Len(DropOrder) \in Nat \ {0} /\ DOMAIN DropOrder = 1..Len(DropOrder)
  /\ \A i \in DOMAIN DropOrder : DropOrder[i] \in TempTable
  /\ \A t \in TempTable : \E i \in DOMAIN DropOrder : DropOrder[i] = t
<1>1. /\ Len(CreateOrder) \in Nat \ {0} /\ DOMAIN CreateOrder = 1..Len(CreateOrder)
      /\ \A i \in DOMAIN CreateOrder : CreateOrder[i] \in TempTable
  BY CreationOrder
<1>2. \A t \in TempTable : \E i \in DOMAIN CreateOrder : CreateOrder[i] = t
  BY DEF TempTable, Range
<1>3. \A i, j \in DOMAIN CreateOrder : CreateOrder[i] = CreateOrder[j] => i = j
  BY CreationOrder DEF IsInjective
<1>4. /\ Len(DropOrder) \in Nat /\ DOMAIN DropOrder = 1..Len(DropOrder)
      /\ \A i \in DOMAIN DropOrder : DropOrder[i] \in TempTable
  BY DroppingOrder
<1>5. \A t \in TempTable : \E i \in DOMAIN DropOrder : DropOrder[i] = t
  BY DroppingOrder DEF Range
<1>6. TempTable # {}
  <2>1. 1 \in DOMAIN CreateOrder
    BY <1>1
  <2> QED
    BY <1>1, <2>1
<1> QED
  BY <1>1, <1>2, <1>3, <1>4, <1>5, <1>6

LEMMA AtAStep ==
  ASSUME WellFormed, NEW l \in Loader, Running(l)
  PROVE  /\ Len(StepsOf(l)) \in Nat \ {0} /\ step[l] \in 1..Len(StepsOf(l))
         /\ stage[l] \in {"drop", "create", "insert", "target", "cleanup"} => Current(l) \in TempTable
<1>1. step[l] \in Nat \ {0} /\ step[l] <= Len(StepsOf(l)) /\ stage[l] \in Working
  BY DEF WellFormed, Running
<1>2. Len(StepsOf(l)) \in Nat \ {0}
  BY <1>1, Orders DEF StepsOf, Working
<1>3. /\ stage[l] \in {"drop", "cleanup"} => StepsOf(l) = DropOrder
      /\ stage[l] \in {"create", "insert", "target"} => StepsOf(l) = CreateOrder
  BY DEF StepsOf
<1>4. step[l] \in 1..Len(StepsOf(l))
  BY <1>1, <1>2
<1> QED
  BY <1>2, <1>3, <1>4, Orders DEF Current

(***************************************************************************)
(* What a step of a load does to the place of the load.                    *)
(***************************************************************************)
OnlyMoves(l) ==
  /\ stage' \in [Loader -> Stages] /\ step' \in [Loader -> Nat \ {0}] /\ missing' \in [Loader -> BOOLEAN]
  /\ \A k \in Loader \ {l} : stage'[k] = stage[k] /\ step'[k] = step[k] /\ missing'[k] = missing[k]

Moves(l) ==
  /\ OnlyMoves(l)
  /\ Running(l)' => l \in DOMAIN case.loads /\ step'[l] <= Len(StepsOf(l)')
  /\ missing'[l] => stage'[l] \in Defines
  /\ stage'[l] # "idle"
  /\ stage'[l] = "schema" => case.schema

LEMMA GoTo ==
  ASSUME WellFormed, NEW l \in Loader, NEW to \in Stages, NEW i \in Nat \ {0}, Go(l, to, i)
  PROVE  OnlyMoves(l)
BY DEF WellFormed, Go, OnlyMoves

LEMMA FirstStep ==
  ASSUME NEW l \in Loader, step'[l] = 1, stage'[l] \in Working
  PROVE  step'[l] <= Len(StepsOf(l)')
BY Orders DEF StepsOf, Working

LEMMA Advances ==
  ASSUME WellFormed, NEW l \in Loader, Running(l), Advance(l)
  PROVE  /\ Moves(l) /\ missing'[l] = FALSE
         /\ \/ stage'[l] = stage[l] /\ step'[l] = step[l] + 1 /\ step[l] < Len(StepsOf(l))
            \/ stage'[l] = AfterStage(l) /\ step'[l] = 1 /\ step[l] = Len(StepsOf(l))
<1>1. /\ Len(StepsOf(l)) \in Nat \ {0} /\ step[l] \in 1..Len(StepsOf(l))
      /\ stage[l] \in Stages /\ l \in DOMAIN case.loads
  BY AtAStep DEF WellFormed
<1>2. CASE step[l] < Len(StepsOf(l))
  <2>1. Go(l, stage[l], step[l] + 1)
    BY <1>2 DEF Advance
  <2>2. stage'[l] = stage[l] /\ step'[l] = step[l] + 1 /\ missing'[l] = FALSE
    BY <1>1, <2>1 DEF Go, WellFormed
  <2>3. OnlyMoves(l)
    BY <1>1, <2>1, GoTo, step[l] + 1 \in Nat \ {0}
  <2>4. StepsOf(l)' = StepsOf(l)
    BY <2>2 DEF StepsOf
  <2>5. stage[l] # "idle" /\ (stage[l] = "schema" => case.schema)
    BY DEF Running, Working, WellFormed
  <2> QED
    BY <1>1, <1>2, <2>2, <2>3, <2>4, <2>5 DEF Moves
<1>3. CASE ~(step[l] < Len(StepsOf(l)))
  <2>1. AfterStage(l) \in Stages \ {"idle", "schema"}
    BY DEF AfterStage, Running, Working, Stages
  <2>2. Go(l, AfterStage(l), 1)
    BY <1>3 DEF Advance
  <2>3. stage'[l] = AfterStage(l) /\ step'[l] = 1 /\ missing'[l] = FALSE
    BY <2>1, <2>2 DEF Go, WellFormed
  <2>4. OnlyMoves(l)
    BY <2>1, <2>2, GoTo
  <2>5. Running(l)' => step'[l] <= Len(StepsOf(l)')
    BY <2>3, FirstStep DEF Running
  <2> QED
    BY <1>1, <1>3, <2>1, <2>3, <2>4, <2>5 DEF Moves
<1> QED
  BY <1>2, <1>3

Out(l) == IF stage[l] \in {"schema", "cleanup"} THEN "failed" ELSE "cleanup"

LEMMA GoesOut ==
  ASSUME WellFormed, NEW l \in Loader, ToCleanup(l)
  PROVE  OnlyMoves(l)
<1>1. Go(l, "failed", 1) \/ Go(l, "cleanup", 1)
  BY DEF ToCleanup
<1>2. "failed" \in Stages /\ "cleanup" \in Stages /\ 1 \in Nat \ {0}
  BY DEF Stages, Working
<1> QED
  BY <1>1, <1>2, GoTo

Reasons == {"already exists", "no such table", "no bulk load", "no value", "bcp failed", "error"}
Raises(l) == \E why \in Reasons : Raise(l, why)

LEMMA RaisesOut ==
  ASSUME WellFormed, NEW l \in Loader, Running(l), Raises(l)
  PROVE  /\ Moves(l) /\ step'[l] = 1 /\ missing'[l] = FALSE
         /\ stage'[l] = Out(l)
         /\ DOMAIN outcome' = Loader /\ \A k \in Loader \ {l} : outcome'[k] = outcome[k]
         /\ IF stage[l] = "cleanup" THEN outcome'[l] = "not dropped" ELSE outcome'[l] \in Reasons
<1>1. /\ DOMAIN outcome' = Loader /\ \A k \in Loader \ {l} : outcome'[k] = outcome[k]
      /\ IF stage[l] = "cleanup" THEN outcome'[l] = "not dropped" ELSE outcome'[l] \in Reasons
  BY DEF WellFormed, Raise, Raises
<1>2. Out(l) \in Stages \ {"idle", "schema"}
  BY DEF Out, Stages, Working
<1>7. Go(l, Out(l), 1)
  BY DEF Out, Raise, Raises, ToCleanup
<1>3. stage'[l] = Out(l) /\ step'[l] = 1 /\ missing'[l] = FALSE
  BY <1>2, <1>7 DEF Go, WellFormed
<1>4. Running(l)' => l \in DOMAIN case.loads /\ step'[l] <= Len(StepsOf(l)')
  BY <1>3, FirstStep DEF Running, WellFormed
<1>5. OnlyMoves(l)
  BY GoesOut DEF Raise, Raises
<1>6. Moves(l)
  BY <1>2, <1>3, <1>4, <1>5 DEF Moves
<1> QED
  BY <1>1, <1>3, <1>6

LEMMA Stays ==
  ASSUME WellFormed, NEW l \in Loader, Running(l), stage' = stage, step' = step,
         \/ missing' = missing
         \/ missing' = [missing EXCEPT ![l] = TRUE] /\ stage[l] \in Defines
  PROVE  Moves(l)
<1>1. OnlyMoves(l) /\ (missing'[l] => stage[l] \in Defines)
  BY DEF OnlyMoves, WellFormed
<1>2. StepsOf(l)' = StepsOf(l)
  BY DEF StepsOf
<1> QED
  BY <1>1, <1>2 DEF Moves, WellFormed, Running, Working

(***************************************************************************)
(* What it does to the rest.                                               *)
(***************************************************************************)
Answered(l) ==
  /\ DOMAIN outcome' = Loader /\ \A k \in Loader \ {l} : outcome'[k] = outcome[k]
  /\ outcome'[l] = "not dropped" => stage'[l] = "failed"

Tabled ==
  /\ case' = case
  /\ DOMAIN temps' = Model /\ \A m \in Model : DOMAIN temps'[m] \subseteq TempTable
  /\ DOMAIN before' = Loader /\ \A k \in Loader : before'[k] \subseteq made'

LEMMA StaysWellFormed ==
  ASSUME WellFormed, NEW l \in Loader, Moves(l), Answered(l), Tabled
  PROVE  WellFormed'
<1>1. \A k \in Loader \ {l} : StepsOf(k)' = StepsOf(k) /\ (Running(k)' <=> Running(k))
  BY DEF Moves, OnlyMoves, StepsOf, Running
<1>2. ASSUME NEW k \in Loader
      PROVE  /\ Running(k)' => k \in DOMAIN case'.loads /\ step'[k] <= Len(StepsOf(k)')
             /\ missing'[k] => stage'[k] \in Defines
             /\ stage'[k] = "idle" => k \in DOMAIN case'.loads /\ outcome'[k] = "none"
             /\ outcome'[k] = "not dropped" => stage'[k] = "failed"
             /\ stage'[k] = "schema" => case'.schema
  <2>1. CASE k = l
    BY <2>1 DEF Moves, Answered, Tabled
  <2>2. CASE k # l
    BY <1>1, <2>2 DEF Moves, OnlyMoves, Answered, Tabled, WellFormed
  <2> QED
    BY <2>1, <2>2
<1> QED
  BY <1>2 DEF WellFormed, Moves, OnlyMoves, Answered, Tabled

LEMMA Unanswered ==
  ASSUME WellFormed, NEW l \in Loader, Moves(l), Running(l), outcome' = outcome
  PROVE  Answered(l)
BY DEF WellFormed, Answered, Running, Working

LEMMA Untabled ==
  ASSUME WellFormed, case' = case, before' = before, temps' = temps,
         made' = made \/ \E x : made' = made \union {x}
  PROVE  Tabled
BY DEF WellFormed, Tabled

LEMMA RaisesAnswered ==
  ASSUME WellFormed, NEW l \in Loader, Running(l), Raises(l)
  PROVE  Answered(l)
BY RaisesOut DEF Answered, Out, Reasons

LEMMA RaisesFor ==
  ASSUME NEW l \in Loader,
         \/ Raise(l, "already exists") \/ Raise(l, "no such table") \/ Raise(l, "no bulk load")
         \/ Raise(l, "no value") \/ Raise(l, "bcp failed") \/ Raise(l, "error")
  PROVE  Raises(l)
BY DEF Raises, Reasons

LEMMA Unstaged ==
  ASSUME WellFormed, NEW l \in Loader, Running(l)
  PROVE  Prefix(l) \in Model /\ Prefix(l) \in DOMAIN temps
BY CasesAssumption DEF WellFormed, Prefix, Load

Orderly(l) == Moves(l) /\ Answered(l) /\ Tabled

LEMMA StartOrderly ==
  ASSUME WellFormed, NEW l \in Loader, Start(l)
  PROVE  Orderly(l)
<1> DEFINE to == IF case.schema THEN "schema" ELSE "drop"
<1>1. Go(l, to, 1) /\ to \in Stages \ {"idle"} /\ (to = "schema" => case.schema)
  BY DEF Start, Stages, Working
<1>2. stage'[l] = to /\ step'[l] = 1 /\ missing'[l] = FALSE
  BY <1>1 DEF Go, WellFormed
<1>3. OnlyMoves(l)
  <2>1. Go(l, "schema", 1) \/ Go(l, "drop", 1)
    BY <1>1
  <2>2. "schema" \in Stages /\ "drop" \in Stages /\ 1 \in Nat \ {0}
    BY DEF Stages, Working
  <2> QED
    BY <2>1, <2>2, GoTo
<1>4. Running(l)' => step'[l] <= Len(StepsOf(l)')
  BY <1>2, FirstStep DEF Running
<1>5. Moves(l)
  BY <1>1, <1>2, <1>3, <1>4 DEF Moves, WellFormed, Start
<1>6. Answered(l)
  BY DEF Start, WellFormed, Answered
<1>7. Tabled
  BY DEF Start, WellFormed, Tabled, base
<1> QED
  BY <1>5, <1>6, <1>7 DEF Orderly

LEMMA LookOrderly ==
  ASSUME WellFormed, NEW l \in Loader, Look(l)
  PROVE  Orderly(l)
<1>1. Running(l)
  BY DEF Look, Running, Working, Defines
<1>2. Moves(l)
  BY <1>1, Advances, Stays DEF Look
<1> QED
  BY <1>1, <1>2, Unanswered, Untabled DEF Look, base, Orderly

LEMMA CreateOrderly ==
  ASSUME WellFormed, NEW l \in Loader, CreateSchema(l) \/ CreateTarget(l)
  PROVE  Orderly(l)
<1>1. Running(l)
  BY DEF CreateSchema, CreateTarget, Running, Working
<1>2. \/ Raise(l, "already exists") /\ made' = made
      \/ Advance(l) /\ outcome' = outcome /\ \E x : made' = made \union {x}
  BY DEF CreateSchema, CreateTarget
<1>3. Moves(l) /\ Answered(l)
  BY <1>1, <1>2, Advances, RaisesFor, RaisesOut, RaisesAnswered, Unanswered
<1>4. Tabled
  BY <1>2, Untabled DEF CreateSchema, CreateTarget
<1> QED
  BY <1>3, <1>4 DEF Orderly

LEMMA TempOrderly ==
  ASSUME WellFormed, NEW l \in Loader, CreateTemp(l) \/ DropTemp(l)
  PROVE  Orderly(l)
<1>1. Running(l) /\ Current(l) \in TempTable
  BY AtAStep DEF CreateTemp, DropTemp, Running, Working
<1>2. \/ Raise(l, "already exists") /\ temps' = temps
      \/ Raise(l, "no such table") /\ temps' = temps
      \/ /\ Advance(l) /\ outcome' = outcome
         /\ \/ temps' = [temps EXCEPT ![Prefix(l)] =
                          [t \in DOMAIN @ \union {Current(l)} |-> IF t \in DOMAIN @ THEN @[t] ELSE <<>>]]
            \/ temps' = [temps EXCEPT ![Prefix(l)] = [t \in DOMAIN @ \ {Current(l)} |-> @[t]]]
  BY DEF CreateTemp, DropTemp
<1>3. Moves(l) /\ Answered(l)
  BY <1>1, <1>2, Advances, RaisesFor, RaisesOut, RaisesAnswered, Unanswered
<1>4. DOMAIN temps' = Model /\ \A m \in Model : DOMAIN temps'[m] \subseteq TempTable
  <2>1. DOMAIN temps' = Model
    BY <1>2 DEF WellFormed
  <2>2. \A m \in Model : \/ temps'[m] = temps[m]
                         \/ DOMAIN temps'[m] = DOMAIN temps[m] \union {Current(l)}
                         \/ DOMAIN temps'[m] = DOMAIN temps[m] \ {Current(l)}
    BY <1>2 DEF WellFormed
  <2>3. ASSUME NEW m \in Model PROVE DOMAIN temps'[m] \subseteq TempTable
    <3>1. DOMAIN temps[m] \subseteq TempTable /\ Current(l) \in TempTable
      BY <1>1 DEF WellFormed
    <3>2. CASE temps'[m] = temps[m]
      BY <3>1, <3>2
    <3>3. CASE \/ DOMAIN temps'[m] = DOMAIN temps[m] \union {Current(l)}
               \/ DOMAIN temps'[m] = DOMAIN temps[m] \ {Current(l)}
      BY <3>1, <3>3
    <3> QED
      BY <2>2, <3>2, <3>3
  <2> QED
    BY <2>1, <2>3
<1>5. Tabled
  BY <1>4 DEF CreateTemp, DropTemp, Tabled, WellFormed
<1> QED
  BY <1>3, <1>5 DEF Orderly

LEMMA BatchOrderly ==
  ASSUME WellFormed, NEW l \in Loader, InsertBatch(l) \/ BcpFails(l)
  PROVE  Orderly(l) /\ Running(l) /\ \A m \in Model : DOMAIN temps'[m] = DOMAIN temps[m]
<1>1. Running(l)
  BY DEF InsertBatch, BcpFails, Running, Working
<1>2. \/ Raise(l, "no bulk load")
      \/ Raise(l, "no such table")
      \/ Raise(l, "no value")
      \/ Raise(l, "bcp failed")
      \/ outcome' = outcome /\ (Advance(l) \/ UNCHANGED <<stage, step, missing>>)
  BY DEF InsertBatch, BcpFails
<1>3. Moves(l) /\ Answered(l)
  BY <1>1, <1>2, Advances, Stays, RaisesFor, RaisesOut, RaisesAnswered, Unanswered
<1>4. temps' = temps \/ \E rows : temps' = [temps EXCEPT ![Prefix(l)][Current(l)] = @ \o rows]
  BY DEF InsertBatch, BcpFails
<1>5. DOMAIN temps' = Model /\ \A m \in Model : DOMAIN temps'[m] = DOMAIN temps[m]
  BY <1>4 DEF WellFormed
<1>6. Tabled
  BY <1>5 DEF InsertBatch, BcpFails, Tabled, WellFormed
<1> QED
  BY <1>1, <1>3, <1>5, <1>6 DEF Orderly

LEMMA OtherOrderly ==
  ASSUME WellFormed, NEW l \in Loader,
         SkipTable(l) \/ Merge(l) \/ StatementFails(l) \/ Kill(l)
  PROVE  Orderly(l)
<1>1. Running(l)
  BY DEF SkipTable, Merge, StatementFails, Kill, Running, Working, WellFormed, Defines
<1>2. Tabled
  BY Untabled DEF SkipTable, Merge, StatementFails, Kill, base, history
<1>3. CASE SkipTable(l)
  BY <1>1, <1>2, <1>3, Advances, Unanswered DEF SkipTable, Orderly
<1>4. CASE Merge(l)
  <2>1. CASE Raise(l, "no such table")
    BY <1>1, <1>2, <2>1, RaisesFor, RaisesOut, RaisesAnswered DEF Orderly
  <2>2. CASE Advance(l) /\ outcome' = [outcome EXCEPT ![l] = "ok"]
    <3>1. Answered(l)
      BY <2>2 DEF Answered, WellFormed
    <3> QED
      BY <1>1, <1>2, <2>2, <3>1, Advances DEF Orderly
  <2> QED
    BY <1>4, <2>1, <2>2 DEF Merge
<1>5. CASE StatementFails(l)
  BY <1>1, <1>2, <1>5, RaisesFor, RaisesOut, RaisesAnswered DEF StatementFails, Orderly
<1>6. CASE Kill(l)
  <2>1. Go(l, "killed", 1) /\ "killed" \in Stages \ {"idle", "schema"} /\ "killed" \notin Working
    BY <1>6 DEF Kill, Stages, Working
  <2>2. stage'[l] = "killed" /\ missing'[l] = FALSE
    BY <2>1 DEF Go, WellFormed
  <2>3. OnlyMoves(l)
    BY <2>1, GoTo, 1 \in Nat \ {0}
  <2>4. Moves(l)
    BY <2>1, <2>2, <2>3 DEF Moves, Running
  <2>5. Answered(l)
    BY <1>1, <1>6 DEF Answered, WellFormed, Kill, Running, Working
  <2> QED
    BY <1>2, <2>4, <2>5 DEF Orderly
<1> QED
  BY <1>3, <1>4, <1>5, <1>6

Idles == UNCHANGED <<case, temps, made, stage, step, missing, outcome, before>>

LEMMA OrderlySteps ==
  WellFormed /\ [Next]_vars => Idles \/ \E l \in Loader : Orderly(l)
<1> SUFFICES ASSUME WellFormed, [Next]_vars PROVE Idles \/ \E l \in Loader : Orderly(l)
  OBVIOUS
<1>1. CASE ChangeSetting \/ UNCHANGED vars \/ \E l \in Loader : InsertNothing(l)
  BY <1>1 DEF ChangeSetting, InsertNothing, Idles, vars, base, where, history
<1> QED
  BY <1>1, StartOrderly, LookOrderly, CreateOrderly, TempOrderly, BatchOrderly, OtherOrderly
  DEF Next, LoaderStep

LEMMA WellFormedSteps == WellFormed /\ [Next]_vars => WellFormed'
<1>1. WellFormed /\ Idles => WellFormed'
  BY DEF Idles, WellFormed, Running, StepsOf
<1> QED
  BY <1>1, OrderlySteps, StaysWellFormed DEF Orderly

LEMMA WellFormedInit == Init => WellFormed
BY CasesAssumption DEF Init, WellFormed, Stages, Working, Running

-----------------------------------------------------------------------------
(***************************************************************************)
(* Somebody still answers for every temporary table.                       *)
(***************************************************************************)
LEMMA AheadAtFirst ==
  ASSUME NEW l \in Loader, NEW t \in TempTable, step'[l] = 1
  PROVE  Ahead(l, t)'
BY Orders DEF Ahead

LEMMA AdvanceAnswers ==
  ASSUME WellFormed, NEW l \in Loader, Running(l), Advance(l), NEW t \in TempTable, Answers(l, t),
         stage[l] = "cleanup" => t # Current(l)
  PROVE  Answers(l, t)'
<1>1. stage[l] \in {"drop", "create", "insert", "target", "merge"} \/ (stage[l] = "cleanup" /\ Ahead(l, t))
  BY DEF Answers, WellFormed, Running, Working
<1>2. \/ stage'[l] = stage[l] /\ step'[l] = step[l] + 1
      \/ stage'[l] = AfterStage(l) /\ step'[l] = 1 /\ step[l] = Len(StepsOf(l))
  BY Advances
<1>3. CASE stage[l] \in {"drop", "create", "insert", "target"}
  BY <1>2, <1>3 DEF Answers, AfterStage
<1>4. CASE stage[l] = "merge"
  BY <1>2, <1>4, AheadAtFirst DEF Answers, AfterStage
<1>5. CASE stage[l] = "cleanup" /\ Ahead(l, t)
  <2>1. PICK i \in DOMAIN DropOrder : step[l] <= i /\ DropOrder[i] = t
    BY <1>5 DEF Ahead
  <2>2. StepsOf(l) = DropOrder /\ Current(l) = DropOrder[step[l]] /\ step[l] \in Nat
    BY <1>5 DEF StepsOf, Current, WellFormed
  <2>3. i \in 1..Len(DropOrder) /\ Len(DropOrder) \in Nat
    BY Orders
  <2>4. step[l] # i
    BY <1>5, <2>1, <2>2
  <2>5. step[l] + 1 <= i /\ step[l] # Len(StepsOf(l))
    BY <2>1, <2>2, <2>3, <2>4
  <2>6. stage'[l] = "cleanup" /\ step'[l] = step[l] + 1
    BY <1>2, <1>5, <2>5
  <2> QED
    BY <2>1, <2>5, <2>6 DEF Answers, Ahead
<1> QED
  BY <1>1, <1>3, <1>4, <1>5

LEMMA RaiseAnswers ==
  ASSUME WellFormed, NEW l \in Loader, Running(l), Raises(l), NEW t \in TempTable, Answers(l, t)
  PROVE  Answers(l, t)'
<1>1. stage[l] # "schema"
  BY DEF Answers, WellFormed
<1>2. CASE stage[l] = "cleanup"
  BY <1>2, RaisesOut DEF Answers
<1>3. CASE stage[l] # "cleanup"
  BY <1>1, <1>3, RaisesOut, AheadAtFirst DEF Answers, Out
<1> QED
  BY <1>2, <1>3

LEMMA OwnedKept ==
  ASSUME WellFormed, Owned, NEW l \in Loader, Orderly(l),
         \A m \in Model : \A t \in DOMAIN temps'[m] :
           t \in DOMAIN temps[m] \/ (l \in DOMAIN case.loads /\ m = Prefix(l) /\ Answers(l, t)'),
         l \in DOMAIN case.loads =>
           \A t \in DOMAIN temps'[Prefix(l)] : Answers(l, t) => Answers(l, t)'
  PROVE  Owned'
<1>1. case' = case /\ \A k : Prefix(k)' = Prefix(k)
  BY DEF Orderly, Tabled, Prefix, Load
<1>2. ASSUME NEW m \in Model, NEW t \in DOMAIN temps'[m]
      PROVE  \E k \in DOMAIN case.loads : Prefix(k) = m /\ Answers(k, t)'
  <2>1. CASE t \in DOMAIN temps[m]
    <3>1. PICK k \in DOMAIN case.loads : Prefix(k) = m /\ Answers(k, t)
      BY <2>1 DEF Owned
    <3>2. k \in Loader
      BY CasesAssumption DEF WellFormed
    <3>3. CASE k = l
      BY <3>1, <3>3
    <3>4. CASE k # l
      <4>1. stage'[k] = stage[k] /\ step'[k] = step[k] /\ outcome'[k] = outcome[k]
        BY <3>2, <3>4 DEF Orderly, Moves, OnlyMoves, Answered
      <4> QED
        BY <3>1, <4>1 DEF Answers, Ahead
    <3> QED
      BY <3>3, <3>4
  <2>2. CASE t \notin DOMAIN temps[m]
    BY <2>2
  <2> QED
    BY <2>1, <2>2
<1> QED
  BY <1>1, <1>2 DEF Owned

LEMMA OwnedSame ==
  ASSUME WellFormed, Owned, NEW l \in Loader, Orderly(l), Running(l),
         \A m \in Model : DOMAIN temps'[m] \subseteq DOMAIN temps[m],
         \/ UNCHANGED <<stage, step, outcome>>
         \/ Raises(l)
         \/ /\ Advance(l)
            /\ stage[l] = "cleanup" => Current(l) \notin DOMAIN temps'[Prefix(l)]
  PROVE  Owned'
<1>1. ASSUME l \in DOMAIN case.loads, NEW t \in DOMAIN temps'[Prefix(l)], Answers(l, t)
      PROVE  Answers(l, t)'
  <2>1. t \in TempTable
    BY Unstaged DEF Orderly, Tabled
  <2>2. CASE UNCHANGED <<stage, step, outcome>>
    BY <1>1, <2>2 DEF Answers, Ahead
  <2>3. CASE Raises(l)
    BY <1>1, <2>1, <2>3, RaiseAnswers
  <2>4. CASE Advance(l) /\ (stage[l] = "cleanup" => Current(l) \notin DOMAIN temps'[Prefix(l)])
    BY <1>1, <2>1, <2>4, AdvanceAnswers
  <2> QED
    BY <2>2, <2>3, <2>4
<1> QED
  BY <1>1, OwnedKept

LEMMA OwnedLook ==
  ASSUME WellFormed, Owned, NEW l \in Loader, Look(l)
  PROVE  Owned'
<1>1. Running(l) /\ Orderly(l) /\ temps' = temps
  BY LookOrderly DEF Look, Running, Working, Defines, base
<1>2. CASE ToDo(l, Current(l))
  BY <1>1, <1>2, OwnedSame DEF Look
<1>3. CASE ~ToDo(l, Current(l))
  <2>1. Advance(l)
    BY <1>3 DEF Look
  <2>2. stage[l] = "cleanup" => Current(l) \notin DOMAIN temps'[Prefix(l)]
    BY <1>1, <1>3 DEF ToDo, Exists, TempsOf
  <2> QED
    BY <1>1, <2>1, <2>2, OwnedSame
<1> QED
  BY <1>2, <1>3

LEMMA OwnedTemp ==
  ASSUME WellFormed, Owned, NEW l \in Loader, CreateTemp(l) \/ DropTemp(l)
  PROVE  Owned'
<1>1. Running(l) /\ Orderly(l) /\ Prefix(l) \in Model
  BY TempOrderly, Unstaged DEF CreateTemp, DropTemp, Running, Working
<1>2. CASE temps' = temps /\ (Raise(l, "already exists") \/ Raise(l, "no such table"))
  BY <1>1, <1>2, RaisesFor, OwnedSame
<1>3. CASE /\ stage[l] = "create" /\ Advance(l)
           /\ temps' = [temps EXCEPT ![Prefix(l)] =
                         [t \in DOMAIN @ \union {Current(l)} |-> IF t \in DOMAIN @ THEN @[t] ELSE <<>>]]
  <2>1. stage'[l] \in {"create", "insert"}
    BY <1>1, <1>3, Advances DEF AfterStage
  <2>2. \A t : Answers(l, t)'
    BY <2>1 DEF Answers
  <2>3. \A m \in Model : m # Prefix(l) => temps'[m] = temps[m]
    BY <1>3 DEF WellFormed
  <2>4. l \in DOMAIN case.loads
    BY <1>1 DEF WellFormed
  <2> QED
    BY <1>1, <2>2, <2>3, <2>4, OwnedKept
<1>4. CASE /\ stage[l] \in {"drop", "cleanup"} /\ Advance(l)
           /\ temps' = [temps EXCEPT ![Prefix(l)] = [t \in DOMAIN @ \ {Current(l)} |-> @[t]]]
  <2>1. \A m \in Model : DOMAIN temps'[m] \subseteq DOMAIN temps[m]
    BY <1>4 DEF WellFormed
  <2>2. Current(l) \notin DOMAIN temps'[Prefix(l)]
    BY <1>1, <1>4 DEF WellFormed
  <2> QED
    BY <1>1, <1>4, <2>1, <2>2, OwnedSame
<1> QED
  BY <1>2, <1>3, <1>4 DEF CreateTemp, DropTemp

LEMMA OwnedStep == WellFormed /\ Owned /\ [Next]_vars => Owned'
<1> SUFFICES ASSUME WellFormed, Owned, [Next]_vars PROVE Owned'
  OBVIOUS
<1>1. ASSUME NEW l \in Loader, Start(l) PROVE Owned'
  <2>1. \A t : ~Answers(l, t)
    BY <1>1 DEF Start, WellFormed, Answers
  <2> QED
    BY <1>1, <2>1, StartOrderly, OwnedKept DEF Start, base
<1>2. ASSUME NEW l \in Loader, CreateSchema(l) \/ CreateTarget(l) PROVE Owned'
  <2>1. Running(l) /\ stage[l] # "cleanup" /\ temps' = temps
    BY <1>2 DEF CreateSchema, CreateTarget, Running, Working
  <2>2. Raise(l, "already exists") \/ Advance(l)
    BY <1>2 DEF CreateSchema, CreateTarget
  <2> QED
    BY <1>2, <2>1, <2>2, CreateOrderly, RaisesFor, OwnedSame
<1>3. ASSUME NEW l \in Loader, InsertBatch(l) \/ BcpFails(l) PROVE Owned'
  <2>1. \/ Raise(l, "no bulk load") \/ Raise(l, "no such table") \/ Raise(l, "no value")
        \/ Raise(l, "bcp failed") \/ Advance(l) \/ UNCHANGED <<stage, step, outcome>>
    BY <1>3 DEF InsertBatch, BcpFails
  <2>2. stage[l] # "cleanup"
    BY <1>3 DEF InsertBatch, BcpFails
  <2> QED
    BY <1>3, <2>1, <2>2, BatchOrderly, RaisesFor, OwnedSame
<1>4. ASSUME NEW l \in Loader, SkipTable(l) \/ Merge(l) \/ StatementFails(l) PROVE Owned'
  <2>1. /\ Running(l) /\ temps' = temps
        /\ Raise(l, "no such table") \/ Raise(l, "error") \/ (Advance(l) /\ stage[l] # "cleanup")
    BY <1>4 DEF SkipTable, Merge, StatementFails, Running, Working, WellFormed, Defines, base
  <2> QED
    BY <1>4, <2>1, OtherOrderly, RaisesFor, OwnedSame
<1>5. ASSUME NEW l \in Loader, Kill(l) PROVE Owned'
  <2>1. stage'[l] = "killed" /\ temps' = temps
    BY <1>5 DEF Kill, Go, WellFormed, base
  <2> QED
    BY <1>5, <2>1, OtherOrderly, OwnedKept DEF Answers
<1>6. CASE ChangeSetting \/ UNCHANGED vars \/ \E l \in Loader : InsertNothing(l)
  <2>1. UNCHANGED <<case, temps, stage, step, outcome>>
    BY <1>6 DEF ChangeSetting, InsertNothing, vars, base, where, history
  <2>2. \A k : Prefix(k)' = Prefix(k) /\ \A t : Answers(k, t)' <=> Answers(k, t)
    BY <2>1 DEF Answers, Ahead, Prefix, Load
  <2> QED
    BY <2>1, <2>2 DEF Owned
<1> QED
  BY <1>1, <1>2, <1>3, <1>4, <1>5, <1>6, OwnedLook, OwnedTemp DEF Next, LoaderStep

(***************************************************************************)
(* A load leaves no temporary table, however it ends, unless it is killed  *)
(* or the drop itself fails: for any tables, batches, faults and loaders,  *)
(* also those that share a prefix.                                         *)
(***************************************************************************)
THEOREM NothingLeft == Spec => []TempsDropped
<1>1. Init => WellFormed /\ Owned
  BY WellFormedInit DEF Init, Owned
<1>2. WellFormed /\ Owned /\ [Next]_vars => WellFormed' /\ Owned'
  BY WellFormedSteps, OwnedStep
<1>3. WellFormed /\ Owned => TempsDropped
  BY CasesAssumption DEF Owned, TempsDropped, Answers, Running, Working
<1> QED
  BY <1>1, <1>2, <1>3, PTL DEF Spec

-----------------------------------------------------------------------------
(***************************************************************************)
(* A load whose temporary tables nobody else touched finds them as it left *)
(* them.                                                                   *)
(***************************************************************************)
Separate(l) ==
  /\ outcome[l] # "no such table"
  /\ outcome[l] = "already exists" =>
       /\ ~(AllMade \subseteq before[l])
       /\ \E k \in DOMAIN case.loads \ {l} : stage[k] # "idle"

Undisturbed == \A l \in DOMAIN case.loads : l \notin meddled => Present(l) /\ Separate(l)

LEMMA Bystander ==
  ASSUME WellFormed, NEW l \in Loader, Orderly(l), NEW j \in Loader, j # l, j \in DOMAIN case.loads,
         Present(j), Separate(j),
         Running(j) => DOMAIN TempsOf(j)' = DOMAIN TempsOf(j),
         made' # made => l \in DOMAIN case.loads,
         before'[j] = before[j]
  PROVE  Present(j)' /\ Separate(j)'
<1>1. /\ case' = case /\ stage'[j] = stage[j] /\ step'[j] = step[j] /\ missing'[j] = missing[j]
      /\ outcome'[j] = outcome[j] /\ Current(j)' = Current(j) /\ AllMade' = AllMade
      /\ (Running(j)' <=> Running(j))
  BY DEF Orderly, Moves, OnlyMoves, Answered, Tabled, Current, StepsOf, AllMade, Running
<1>2. ASSUME NEW k \in DOMAIN case.loads \ {j}, stage[k] # "idle"
      PROVE  stage'[k] # "idle"
  BY <1>2, CasesAssumption DEF Orderly, Moves, OnlyMoves, WellFormed
<1>3. stage'[l] # "idle"
  BY DEF Orderly, Moves
<1>4. Separate(j)'
  BY <1>1, <1>2 DEF Separate
<1>5. ~Running(j) => Present(j)'
  BY <1>1 DEF Present, Running, Working
<1>6. ASSUME Running(j) PROVE Present(j)'
  <2>1. DOMAIN TempsOf(j)' = DOMAIN TempsOf(j)
    BY <1>6
  <2>2. ASSUME Current(j) \in made', Current(j) \in made => \E k \in DOMAIN case.loads \ {j} : stage[k] # "idle"
        PROVE  \E k \in DOMAIN case.loads \ {j} : stage'[k] # "idle"
    BY <1>2, <1>3, <2>2
  <2> QED
    BY <1>1, <2>1, <2>2 DEF Present
<1> QED
  BY <1>4, <1>5, <1>6

LEMMA SeparateSame ==
  ASSUME WellFormed, NEW l \in Loader, Orderly(l), l \in DOMAIN case.loads, Separate(l), before'[l] = before[l],
         outcome'[l] = outcome[l] \/ outcome'[l] \notin {"no such table", "already exists"}
  PROVE  Separate(l)'
<1>1. case' = case /\ AllMade' = AllMade
  BY DEF Orderly, Tabled, AllMade
<1>2. ASSUME NEW k \in DOMAIN case.loads \ {l}, stage[k] # "idle"
      PROVE  stage'[k] # "idle"
  BY <1>2, CasesAssumption DEF Orderly, Moves, OnlyMoves, WellFormed
<1> QED
  BY <1>1, <1>2 DEF Separate

LEMMA RaisePresent ==
  ASSUME WellFormed, NEW l \in Loader, Running(l), Raises(l)
  PROVE  Present(l)'
BY RaisesOut DEF Present, Out

LEMMA AdvancePresent ==
  ASSUME WellFormed, NEW l \in Loader, Running(l), Advance(l), Present(l),
         stage[l] \in {"create", "insert", "target"} => DOMAIN TempsOf(l) \subseteq DOMAIN TempsOf(l)',
         stage[l] = "create" => Current(l) \in DOMAIN TempsOf(l)'
  PROVE  Present(l)'
<1>1. /\ missing'[l] = FALSE
      /\ \/ stage'[l] = stage[l] /\ step'[l] = step[l] + 1 /\ step[l] < Len(StepsOf(l))
         \/ stage'[l] = AfterStage(l) /\ step'[l] = 1 /\ step[l] = Len(StepsOf(l))
  BY Advances
<1>2. ASSUME stage[l] = "create"
      PROVE  \A i \in 1..step[l] : CreateOrder[i] \in DOMAIN TempsOf(l)'
  <2>1. Current(l) = CreateOrder[step[l]] /\ step[l] \in Nat
    BY <1>2 DEF Current, StepsOf, WellFormed
  <2> QED
    BY <1>2, <2>1 DEF Present
<1>3. CASE stage[l] = "create"
  <2>1. CASE step[l] < Len(StepsOf(l))
    <3>1. stage'[l] = "create" /\ step'[l] = step[l] + 1 /\ step[l] \in Nat
      <4>1. step[l] \in Nat /\ Len(StepsOf(l)) \in Nat
        BY AtAStep
      <4>2. step[l] # Len(StepsOf(l))
        BY <2>1, <4>1
      <4> QED
        BY <1>1, <1>3, <4>1, <4>2
    <3>2. step'[l] - 1 = step[l]
      BY <3>1
    <3> QED
      BY <1>1, <1>2, <1>3, <3>1, <3>2 DEF Present
  <2>2. CASE ~(step[l] < Len(StepsOf(l)))
    <3>1. stage'[l] = "insert" /\ step[l] = Len(CreateOrder)
      BY <1>1, <1>3, <2>2 DEF AfterStage, StepsOf
    <3>2. TempTable \subseteq DOMAIN TempsOf(l)'
      BY <1>2, <1>3, <3>1, Orders
    <3> QED
      BY <1>1, <3>1, <3>2 DEF Present
  <2> QED
    BY <2>1, <2>2
<1>4. CASE stage[l] \in {"insert", "target"}
  <2>1. stage'[l] \in {"insert", "target", "merge"}
    BY <1>1, <1>4 DEF AfterStage
  <2> QED
    BY <1>1, <1>4, <2>1 DEF Present
<1>5. CASE stage[l] \in {"schema", "drop", "merge", "cleanup"}
  <2>1. \/ stage'[l] \in {"schema", "drop", "merge", "cleanup", "done", "failed"}
        \/ stage'[l] = "create" /\ step'[l] = 1
    BY <1>1, <1>5 DEF AfterStage
  <2>2. stage'[l] = "merge" => stage[l] = "merge" /\ step[l] < Len(StepsOf(l))
    BY <1>1, <1>5 DEF AfterStage
  <2>3. stage'[l] # "merge"
    BY <2>2, AtAStep DEF StepsOf
  <2> QED
    BY <1>1, <2>1, <2>3 DEF Present
<1> QED
  BY <1>3, <1>4, <1>5 DEF Running, Working

(***************************************************************************)
(* Who changes the tables of a prefix disturbs its other loads.            *)
(***************************************************************************)
Apart(l) ==
  \A j \in DOMAIN case.loads \ {l} :
    j \notin meddled' /\ Running(j) => TempsOf(j)' = TempsOf(j)

LEMMA MeddlesApart ==
  ASSUME WellFormed, NEW l \in Loader, Meddle(l), case' = case,
         temps' = temps
           \/ \A m \in Model \ {Prefix(l)} : temps'[m] = temps[m]
  PROVE  Apart(l) /\ meddled \subseteq meddled'
<1>1. meddled \subseteq meddled'
  BY DEF Meddle
<1>2. ASSUME NEW j \in DOMAIN case.loads \ {l}, j \notin meddled', Running(j)
      PROVE  TempsOf(j)' = TempsOf(j)
  <2>1. Load(j).model # Load(l).model
    BY <1>2 DEF Meddle
  <2>2. Prefix(j)' = Prefix(j) /\ Prefix(j) \in Model \ {Prefix(l)}
    BY <2>1, CasesAssumption DEF Prefix, Load, WellFormed
  <2> QED
    BY <2>2 DEF TempsOf
<1> QED
  BY <1>1, <1>2 DEF Apart

LEMMA StepsApart ==
  ASSUME WellFormed, NEW l \in Loader,
         \/ Look(l) \/ CreateSchema(l) \/ CreateTarget(l) \/ CreateTemp(l) \/ DropTemp(l)
         \/ InsertBatch(l) \/ BcpFails(l) \/ SkipTable(l) \/ Merge(l) \/ StatementFails(l) \/ Kill(l)
  PROVE  Apart(l) /\ meddled \subseteq meddled' /\ case' = case
<1>1. case' = case
  BY DEF Look, CreateSchema, CreateTarget, CreateTemp, DropTemp, InsertBatch, BcpFails, SkipTable, Merge,
         StatementFails, Kill
<1>2. \/ temps' = temps
      \/ \A m \in Model \ {Prefix(l)} : temps'[m] = temps[m]
  BY DEF Look, CreateSchema, CreateTarget, CreateTemp, DropTemp, InsertBatch, BcpFails, SkipTable, Merge,
         StatementFails, Kill, base, WellFormed
<1>3. Meddle(l) \/ (temps' = temps /\ meddled' = meddled)
  BY DEF Look, CreateSchema, CreateTarget, CreateTemp, DropTemp, InsertBatch, BcpFails, SkipTable, Merge,
         StatementFails, Kill, base, history
<1>4. CASE Meddle(l)
  BY <1>1, <1>2, <1>4, MeddlesApart
<1>5. CASE temps' = temps /\ meddled' = meddled
  BY <1>1, <1>5 DEF Apart, TempsOf, Prefix, Load
<1> QED
  BY <1>1, <1>3, <1>4, <1>5

LEMMA StillUndisturbed ==
  ASSUME WellFormed, Undisturbed, NEW l \in Loader, Orderly(l), l \in DOMAIN case.loads,
         Apart(l), meddled \subseteq meddled', \A j \in Loader \ {l} : before'[j] = before[j],
         l \notin meddled' => Present(l)' /\ Separate(l)'
  PROVE  Undisturbed'
<1>1. case' = case
  BY DEF Orderly, Tabled
<1>2. ASSUME NEW j \in DOMAIN case.loads, j \notin meddled'
      PROVE  Present(j)' /\ Separate(j)'
  <2>1. j \in Loader
    BY CasesAssumption DEF WellFormed
  <2>2. CASE j = l
    BY <1>2, <2>2
  <2>3. CASE j # l
    <3>1. Present(j) /\ Separate(j)
      BY <1>2 DEF Undisturbed
    <3>2. Running(j) => DOMAIN TempsOf(j)' = DOMAIN TempsOf(j)
      BY <1>2, <2>3 DEF Apart
    <3> QED
      BY <2>1, <2>3, <3>1, <3>2, Bystander
  <2> QED
    BY <2>2, <2>3
<1> QED
  BY <1>1, <1>2 DEF Undisturbed

(***************************************************************************)
(* What the load itself does, step by step.                                *)
(***************************************************************************)
LEMMA LookPresent ==
  ASSUME WellFormed, NEW l \in Loader, Look(l), Present(l)
  PROVE  Present(l)'
<1>1. Running(l) /\ temps' = temps /\ made' = made /\ case' = case /\ before' = before
  BY DEF Look, Running, Working, Defines, base
<1>2. CASE ToDo(l, Current(l))
  <2>1. stage' = stage /\ step' = step
    BY <1>2 DEF Look
  <2>2. Current(l)' = Current(l) /\ DOMAIN TempsOf(l)' = DOMAIN TempsOf(l)
    BY <1>1, <2>1 DEF Current, StepsOf, TempsOf, Prefix, Load
  <2>3. /\ stage[l] \in {"drop", "cleanup"} => Current(l) \in DOMAIN TempsOf(l)
        /\ stage[l] = "create" => Current(l) \notin DOMAIN TempsOf(l)
        /\ stage[l] \in {"schema", "target"} => Current(l) \notin made
    BY <1>2 DEF ToDo, Exists
  <2>4. before[l] \subseteq made
    BY DEF WellFormed
  <2> QED
    BY <1>1, <2>1, <2>2, <2>3, <2>4 DEF Present
<1>3. CASE ~ToDo(l, Current(l))
  <2>1. Advance(l) /\ DOMAIN TempsOf(l)' = DOMAIN TempsOf(l)
    BY <1>1, <1>3 DEF Look, TempsOf, Prefix, Load
  <2>2. stage[l] = "create" => Current(l) \in DOMAIN TempsOf(l)
    BY <1>3 DEF ToDo, Exists
  <2> QED
    BY <1>1, <2>1, <2>2, AdvancePresent
<1> QED
  BY <1>2, <1>3

LEMMA CreateKeeps ==
  ASSUME WellFormed, NEW l \in Loader, CreateSchema(l) \/ CreateTarget(l), Present(l), Separate(l)
  PROVE  Present(l)' /\ Separate(l)'
<1>1. /\ Running(l) /\ Orderly(l) /\ l \in DOMAIN case.loads /\ stage[l] \in {"schema", "target"}
      /\ temps' = temps /\ case' = case /\ before' = before
  BY CreateOrderly DEF CreateSchema, CreateTarget, Running, Working, WellFormed
<1>2. stage[l] = "schema" => Current(l) = Schema
  BY <1>1, AtAStep DEF Current, StepsOf
<1>3. CASE Advance(l) /\ outcome' = outcome
  <2>1. DOMAIN TempsOf(l)' = DOMAIN TempsOf(l)
    BY <1>1 DEF TempsOf, Prefix, Load
  <2>2. Present(l)'
    BY <1>1, <1>3, <2>1, AdvancePresent
  <2> QED
    BY <1>1, <1>3, <2>2, SeparateSame
<1>4. CASE missing[l] /\ Current(l) \in made /\ Raise(l, "already exists")
  <2>1. Present(l)'
    BY <1>1, <1>4, RaisesFor, RaisePresent
  <2>2. outcome'[l] = "already exists"
    BY <1>1, <1>4 DEF Raise, WellFormed
  <2>3. Current(l) \notin before[l] /\ \E k \in DOMAIN case.loads \ {l} : stage[k] # "idle"
    BY <1>1, <1>4 DEF Present
  <2>4. Current(l) \in AllMade
    <3>1. stage[l] = "schema" => case.schema /\ Current(l) = Schema
      BY <1>2 DEF WellFormed
    <3>2. stage[l] = "target" => Current(l) \in TempTable
      BY <1>1, AtAStep, Orders DEF Current, StepsOf
    <3> QED
      BY <1>1, <3>1, <3>2 DEF AllMade
  <2>5. PICK k \in DOMAIN case.loads \ {l} : stage[k] # "idle"
    BY <2>3
  <2>6. stage'[k] # "idle"
    BY <1>1, <2>5, CasesAssumption DEF Orderly, Moves, OnlyMoves, WellFormed
  <2>7. AllMade' = AllMade
    BY <1>1 DEF AllMade
  <2> QED
    BY <1>1, <2>1, <2>2, <2>3, <2>4, <2>6, <2>7 DEF Separate
<1> QED
  BY <1>3, <1>4, <1>2 DEF CreateSchema, CreateTarget

LEMMA TempKeeps ==
  ASSUME WellFormed, NEW l \in Loader, CreateTemp(l) \/ DropTemp(l), Present(l), Separate(l)
  PROVE  Present(l)' /\ Separate(l)'
<1>1. /\ Running(l) /\ Orderly(l) /\ l \in DOMAIN case.loads /\ missing[l] /\ Prefix(l) \in Model
      /\ case' = case /\ before' = before
  BY TempOrderly, Unstaged DEF CreateTemp, DropTemp, Running, Working, WellFormed
<1>2. CASE CreateTemp(l)
  <2>1. ~Exists(l, Current(l))
    BY <1>1, <1>2 DEF CreateTemp, Exists, Present
  <2>2. /\ Advance(l) /\ outcome' = outcome /\ stage[l] = "create"
        /\ temps' = [temps EXCEPT ![Prefix(l)] =
                      [t \in DOMAIN @ \union {Current(l)} |-> IF t \in DOMAIN @ THEN @[t] ELSE <<>>]]
    BY <1>2, <2>1 DEF CreateTemp
  <2>3. DOMAIN TempsOf(l)' = DOMAIN TempsOf(l) \union {Current(l)}
    BY <1>1, <2>2 DEF TempsOf, Prefix, Load, WellFormed
  <2>4. Present(l)'
    BY <1>1, <2>2, <2>3, AdvancePresent
  <2> QED
    BY <1>1, <2>2, <2>4, SeparateSame
<1>3. CASE DropTemp(l)
  <2>1. Exists(l, Current(l))
    BY <1>1, <1>3 DEF DropTemp, Exists, Present
  <2>2. Advance(l) /\ outcome' = outcome /\ stage[l] \in {"drop", "cleanup"}
    BY <1>3, <2>1 DEF DropTemp
  <2>3. Present(l)'
    BY <1>1, <2>2, AdvancePresent
  <2> QED
    BY <1>1, <2>2, <2>3, SeparateSame
<1> QED
  BY <1>2, <1>3

LEMMA BatchKeeps ==
  ASSUME WellFormed, NEW l \in Loader, InsertBatch(l) \/ BcpFails(l), Present(l), Separate(l)
  PROVE  Present(l)' /\ Separate(l)'
<1>1. /\ Running(l) /\ Orderly(l) /\ l \in DOMAIN case.loads /\ stage[l] = "insert"
      /\ case' = case /\ before' = before
  BY BatchOrderly DEF InsertBatch, BcpFails, WellFormed
<1>2. Exists(l, Current(l))
  BY <1>1, AtAStep DEF Present, Exists
<1>3. DOMAIN TempsOf(l)' = DOMAIN TempsOf(l)
  BY <1>1, BatchOrderly, Unstaged DEF TempsOf, Prefix, Load
<1>4. \/ Raise(l, "no bulk load") \/ Raise(l, "no value") \/ Raise(l, "bcp failed")
      \/ outcome' = outcome /\ Advance(l)
      \/ outcome' = outcome /\ UNCHANGED <<stage, step, missing>>
  BY <1>2 DEF InsertBatch, BcpFails
<1>5. CASE Raise(l, "no bulk load") \/ Raise(l, "no value") \/ Raise(l, "bcp failed")
  <2>1. outcome'[l] \notin {"no such table", "already exists"}
    BY <1>5 DEF Raise, WellFormed
  <2> QED
    BY <1>1, <1>5, <2>1, RaisesFor, RaisePresent, SeparateSame
<1>6. CASE outcome' = outcome /\ Advance(l)
  BY <1>1, <1>3, <1>6, AdvancePresent, SeparateSame
<1>7. CASE outcome' = outcome /\ UNCHANGED <<stage, step, missing>>
  <2>1. Present(l)'
    BY <1>1, <1>3, <1>7 DEF Present
  <2> QED
    BY <1>1, <1>7, <2>1, SeparateSame
<1> QED
  BY <1>4, <1>5, <1>6, <1>7

LEMMA OtherKeeps ==
  ASSUME WellFormed, NEW l \in Loader, SkipTable(l) \/ Merge(l) \/ StatementFails(l) \/ Kill(l),
         Present(l), Separate(l)
  PROVE  Present(l)' /\ Separate(l)'
<1>1. /\ Running(l) /\ Orderly(l) /\ l \in DOMAIN case.loads
      /\ case' = case /\ before' = before /\ temps' = temps
  BY OtherOrderly DEF SkipTable, Merge, StatementFails, Kill, Running, Working, WellFormed, Defines, base, history
<1>2. DOMAIN TempsOf(l)' = DOMAIN TempsOf(l)
  BY <1>1 DEF TempsOf, Prefix, Load
<1>3. CASE SkipTable(l)
  <2>1. Advance(l) /\ outcome' = outcome /\ stage[l] = "insert"
    BY <1>3 DEF SkipTable
  <2> QED
    BY <1>1, <1>2, <2>1, AdvancePresent, SeparateSame
<1>4. CASE Merge(l)
  <2>1. stage[l] = "merge" /\ TempTable \subseteq DOMAIN TempsOf(l)
    BY <1>4 DEF Merge, Present
  <2>2. Advance(l) /\ outcome' = [outcome EXCEPT ![l] = "ok"]
    BY <1>4, <2>1 DEF Merge
  <2>3. outcome'[l] \notin {"no such table", "already exists"}
    BY <2>2 DEF WellFormed
  <2> QED
    BY <1>1, <2>1, <2>2, <2>3, AdvancePresent, SeparateSame
<1>5. CASE StatementFails(l)
  <2>1. Raise(l, "error") /\ outcome'[l] \notin {"no such table", "already exists"}
    BY <1>5 DEF StatementFails, Raise, WellFormed
  <2> QED
    BY <1>1, <2>1, RaisesFor, RaisePresent, SeparateSame
<1>6. CASE Kill(l)
  <2>1. stage'[l] = "killed" /\ outcome' = outcome
    BY <1>6 DEF Kill, Go, WellFormed
  <2>2. Present(l)'
    BY <2>1 DEF Present
  <2> QED
    BY <1>1, <2>1, <2>2, SeparateSame
<1> QED
  BY <1>3, <1>4, <1>5, <1>6

LEMMA UndisturbedStep ==
  WellFormed /\ Undisturbed /\ [Next]_vars => Undisturbed'
<1> SUFFICES ASSUME WellFormed, Undisturbed, [Next]_vars PROVE Undisturbed'
  OBVIOUS
<1>1. ASSUME NEW l \in Loader, Start(l) PROVE Undisturbed'
  <2>1. l \in DOMAIN case.loads /\ Orderly(l) /\ outcome'[l] = "none"
    BY <1>1, StartOrderly DEF Start, WellFormed
  <2>2. Apart(l) /\ meddled \subseteq meddled' /\ \A j \in Loader \ {l} : before'[j] = before[j]
    BY <1>1, MeddlesApart DEF Start, base, WellFormed
  <2>3. Separate(l)'
    BY <2>1 DEF Separate
  <2>4. missing'[l] = FALSE /\ stage'[l] \in {"schema", "drop"}
    BY <1>1 DEF Start, Go, WellFormed
  <2>5. Present(l)'
    BY <2>4 DEF Present
  <2> QED
    BY <2>1, <2>2, <2>3, <2>5, StillUndisturbed
<1>2. ASSUME NEW l \in Loader,
             \/ Look(l) \/ CreateSchema(l) \/ CreateTarget(l) \/ CreateTemp(l) \/ DropTemp(l)
             \/ InsertBatch(l) \/ BcpFails(l) \/ SkipTable(l) \/ Merge(l) \/ StatementFails(l) \/ Kill(l)
      PROVE  Undisturbed'
  <2>1. Running(l) /\ Orderly(l) /\ case' = case /\ before' = before /\ l \in DOMAIN case.loads
    <3>1. Orderly(l)
      BY <1>2, LookOrderly, CreateOrderly, TempOrderly, BatchOrderly, OtherOrderly
    <3>2. Running(l)
      BY <1>2 DEF Look, CreateSchema, CreateTarget, CreateTemp, DropTemp, InsertBatch, BcpFails, SkipTable, Merge,
                  StatementFails, Kill, Running, Working, Defines, WellFormed
    <3>3. case' = case /\ before' = before
      BY <1>2 DEF Look, CreateSchema, CreateTarget, CreateTemp, DropTemp, InsertBatch, BcpFails, SkipTable, Merge,
                  StatementFails, Kill, history
    <3> QED
      BY <3>1, <3>2, <3>3 DEF WellFormed
  <2>4. Apart(l) /\ meddled \subseteq meddled'
    BY <1>2, <2>1, StepsApart
  <2>5. ASSUME l \notin meddled' PROVE Present(l)' /\ Separate(l)'
    <3>1. Present(l) /\ Separate(l)
      BY <2>1, <2>4, <2>5 DEF Undisturbed
    <3>2. CASE Look(l)
      <4>1. outcome' = outcome
        BY <3>2 DEF Look
      <4> QED
        BY <2>1, <3>1, <3>2, <4>1, LookPresent, SeparateSame
    <3> QED
      BY <1>2, <3>1, <3>2, CreateKeeps, TempKeeps, BatchKeeps, OtherKeeps
  <2> QED
    BY <2>1, <2>4, <2>5, StillUndisturbed
<1>3. CASE ChangeSetting \/ UNCHANGED vars \/ \E l \in Loader : InsertNothing(l)
  <2>1. UNCHANGED <<case, made, temps, stage, step, missing, outcome, before, meddled>>
    BY <1>3 DEF ChangeSetting, InsertNothing, vars, base, where, history
  <2>2. \A l : /\ Current(l)' = Current(l) /\ TempsOf(l)' = TempsOf(l)
               /\ AllMade' = AllMade
    BY <2>1 DEF Current, StepsOf, TempsOf, Prefix, Load, AllMade
  <2>3. \A l \in DOMAIN case.loads : (Present(l)' <=> Present(l)) /\ (Separate(l)' <=> Separate(l))
    BY <2>1, <2>2 DEF Present, Separate
  <2> QED
    BY <2>1, <2>3 DEF Undisturbed
<1> QED
  BY <1>1, <1>2, <1>3 DEF Next, LoaderStep

(***************************************************************************)
(* Loads with temporary prefixes of their own do not collide, whatever     *)
(* they load, in any interleaving and with any faults: no statement of one *)
(* finds a table gone or there already, but for the schema and the target  *)
(* tables while these are first made.                                      *)
(***************************************************************************)
THEOREM NoCollision == Spec => []PrefixesSeparate
<1>1. Init => WellFormed /\ Undisturbed
  <2> SUFFICES ASSUME Init PROVE Undisturbed
    BY WellFormedInit
  <2>1. ASSUME NEW l \in DOMAIN case.loads PROVE Present(l) /\ Separate(l)
    <3>1. l \in Loader
      BY CasesAssumption DEF Init
    <3>2. missing[l] = FALSE /\ stage[l] = "idle" /\ outcome[l] = "none"
      BY <3>1 DEF Init
    <3> QED
      BY <3>2 DEF Present, Separate
  <2> QED
    BY <2>1 DEF Undisturbed
<1>2. WellFormed /\ Undisturbed /\ [Next]_vars => WellFormed' /\ Undisturbed'
  BY WellFormedSteps, UndisturbedStep
<1>3. Undisturbed => PrefixesSeparate
  BY DEF Undisturbed, Separate, PrefixesSeparate
<1> QED
  BY <1>1, <1>2, <1>3, PTL DEF Spec

-----------------------------------------------------------------------------
(***************************************************************************)
(* Rows that are right so far.                                             *)
(***************************************************************************)
Total(l, t) == Len(Records(l, t))

Wanted(l, t) == [i \in Nat |-> [k \in DOMAIN Defaults[t] |-> StagedAs(l, t, i, k)]]

Right(wanted, o, rows) ==
  /\ rows \in Seq(Range(rows))
  /\ \A i \in 1..Len(rows) : \A k \in DOMAIN wanted[o + i] : rows[i][k] \in wanted[o + i][k]

(***************************************************************************)
(* What a table holds once n records are staged: their rows, or fewer of   *)
(* them if they go to bcp.  And what a batch of n records, o having been   *)
(* staged before it, adds to that.                                         *)
(***************************************************************************)
Fits(bcp, wanted, n, rows) ==
  IF bcp /\ n > 0 THEN rows \in Seq(Range(rows)) /\ Len(rows) < n
  ELSE Right(wanted, 0, rows) /\ Len(rows) = n

Adds(bcp, wanted, o, n, rows) ==
  IF bcp THEN /\ rows \in Seq(Range(rows)) /\ Len(rows) \in Nat /\ Len(rows) <= n
              /\ o = 0 => Len(rows) < n
  ELSE Right(wanted, o, rows) /\ Len(rows) = n

(***************************************************************************)
(* Where a load is, its tables are dropped so far; empty; staged up to the *)
(* current batch; or whole.                                                *)
(***************************************************************************)
Filling == {"create", "insert", "target", "merge"}

Dropped(l) == stage[l] = "drop" => \A j \in 1..(step[l] - 1) : DropOrder[j] \notin DOMAIN TempsOf(l)

Due(l, j) ==
  IF stage[l] = "create" THEN 0
  ELSE IF stage[l] # "insert" \/ j < step[l] THEN Total(l, CreateOrder[j])
  ELSE IF j = step[l] THEN offset[l] ELSE 0
RowsRight(l) ==
  stage[l] \in Filling =>
    \A j \in DOMAIN CreateOrder : CreateOrder[j] \in DOMAIN TempsOf(l) =>
      Fits(GoesToBcp(l, CreateOrder[j]), Wanted(l, CreateOrder[j]), Due(l, j), TempsOf(l)[CreateOrder[j]])

AtABatch(l, t) ==
  \/ offset[l] = 0
  \/ offset[l] < Total(l, t) /\ \E m \in Nat : offset[l] = m * BatchSize(l, t)
BatchNext(l) == stage[l] = "insert" => AtABatch(l, Current(l))

FedRight(l) ==
  outcome[l] = "ok" => \A t \in TempTable : Fits(GoesToBcp(l, t), Wanted(l, t), Total(l, t), fed[l][t])

StagedRight(l) == Dropped(l) /\ RowsRight(l) /\ BatchNext(l) /\ FedRight(l)

StagedInv ==
  /\ DOMAIN offset = Loader /\ DOMAIN fed = Loader
  /\ \A l \in DOMAIN case.loads : l \notin meddled => StagedRight(l)

-----------------------------------------------------------------------------
(***************************************************************************)
(* The records of a load, and its batches.                                 *)
(***************************************************************************)
LEMMA RecordsOf ==
  ASSUME WellFormed, NEW l \in DOMAIN case.loads, NEW t \in TempTable
  PROVE  /\ Records(l, t) \in Seq(Range(Records(l, t))) /\ Total(l, t) \in Nat
         /\ DOMAIN Records(l, t) = 1..Total(l, t)
         /\ HasRecords(l, t) <=> Total(l, t) # 0
         /\ \A i \in DOMAIN Records(l, t) : \A k \in DOMAIN Records(l, t)[i] : Defaults[t][k] = Null
         /\ BatchSize(l, t) \in Nat
         /\ FileThreshold \in Int /\ Load(l).options.threshold \in Int
         /\ case.link.dialect \in {"base", "postgresql", "mysql", "mssql", "duckdb"}
<1> DEFINE data == case.loads[l].data
<1>0. FileThreshold \in Int /\ Load(l).options.threshold \in Int
  BY DataAssumption DEF WellFormed, Load
<1>1. /\ case.loads[l].options.max_lines \in Int /\ DOMAIN data \subseteq TempTable
      /\ case.link.dialect \in {"base", "postgresql", "mysql", "mssql", "duckdb"}
      /\ \A u \in DOMAIN data :
           /\ data[u] \in Seq(Range(data[u]))
           /\ \A r \in Range(data[u]) : \A k \in DOMAIN r : Defaults[u][k] = Null
           /\ data[u] # <<>> => Owner[u] \in DOMAIN data /\ data[Owner[u]] # <<>>
  BY DataAssumption DEF WellFormed
<1>2. CASE t \in DOMAIN data
  <2>1. Records(l, t) = data[t] /\ data[t] \in Seq(Range(data[t]))
    BY <1>1, <1>2 DEF Records, Load
  <2>2. Total(l, t) \in Nat /\ DOMAIN data[t] = 1..Total(l, t) /\ (Total(l, t) # 0 <=> data[t] # <<>>)
    BY <2>1 DEF Total
  <2>3. HasRecords(l, t) <=> data[t] # <<>>
    BY <1>1, <1>2, <2>1 DEF HasRecords, Records, Load
  <2>4. \A i \in DOMAIN data[t] : \A k \in DOMAIN data[t][i] : Defaults[t][k] = Null
    BY <1>1, <1>2 DEF Range
  <2>5. BatchSize(l, t) \in Nat
    BY <1>1, <2>1, <2>2 DEF BatchSize, Load, Total
  <2> QED
    BY <1>0, <1>1, <2>1, <2>2, <2>3, <2>4, <2>5
<1>3. CASE t \notin DOMAIN data
  <2>1. Records(l, t) = <<>>
    BY <1>3 DEF Records, Load
  <2>2. Total(l, t) = 0 /\ <<>> \in Seq(Range(<<>>)) /\ DOMAIN <<>> = 1..0
    BY <2>1 DEF Total
  <2>3. BatchSize(l, t) \in Nat
    BY <1>1, <2>1, <2>2 DEF BatchSize, Load, Total
  <2> QED
    BY <1>0, <1>1, <2>1, <2>2, <2>3 DEF HasRecords
<1> QED
  BY <1>2, <1>3

LEMMA Divides ==
  ASSUME NEW m \in Nat, NEW size \in Nat \ {0}, NEW j \in 0..(size - 1)
  PROVE  (m * size + j) \div size = m
OBVIOUS

LEMMA Slice ==
  ASSUME NEW S, NEW s \in Seq(S), NEW o \in Nat, NEW e \in Nat, e <= Len(s)
  PROVE  /\ SubSeq(s, o + 1, e) \in Seq(S)
         /\ Len(SubSeq(s, o + 1, e)) = IF o + 1 <= e THEN e - o ELSE 0
         /\ \A i \in 1..(e - o) : SubSeq(s, o + 1, e)[i] = s[o + i]
<1> DEFINE m == o + 1
<1>1. m \in Int /\ e \in Int /\ \A i \in m..e : s[i] \in S
  OBVIOUS
<1> HIDE DEF m
<1>2. /\ SubSeq(s, m, e) \in Seq(S)
      /\ Len(SubSeq(s, m, e)) = IF m <= e THEN e - m + 1 ELSE 0
      /\ \A i \in 1..(e - m + 1) : SubSeq(s, m, e)[i] = s[m + i - 1]
  BY <1>1, SubSeqProperties
<1>3. e - m + 1 = e - o /\ \A i \in Int : m + i - 1 = o + i
  BY DEF m
<1> QED
  BY <1>2, <1>3 DEF m

LEMMA Smaller ==
  ASSUME NEW x \in Int, NEW y \in Int
  PROVE  Min({x, y}) = IF x < y THEN x ELSE y
<1> DEFINE z == IF x < y THEN x ELSE y
<1>1. z \in {x, y} /\ \A w \in {x, y} : z <= w
  OBVIOUS
<1>2. \A v \in {x, y} : (\A w \in {x, y} : v <= w) => v = z
  OBVIOUS
<1> QED
  BY <1>1, <1>2 DEF Min

LEMMA OffsetOf ==
  ASSUME WellFormed, NEW l \in DOMAIN case.loads, NEW t \in TempTable, AtABatch(l, t)
  PROVE  offset[l] \in Nat /\ \E m \in Nat : offset[l] = m * BatchSize(l, t)
<1>1. BatchSize(l, t) \in Nat
  BY RecordsOf
<1>2. 0 = 0 * BatchSize(l, t)
  BY <1>1
<1>3. \E m \in Nat : offset[l] = m * BatchSize(l, t)
  BY <1>2 DEF AtABatch
<1> QED
  BY <1>1, <1>3

(***************************************************************************)
(* A batch is the next records of the table, as many as it may have, and   *)
(* its first record is the one that decides on the columns.                *)
(***************************************************************************)
LEMMA BatchOf ==
  ASSUME WellFormed, NEW l \in DOMAIN case.loads, NEW t \in TempTable, AtABatch(l, t),
         NEW o, o = offset[l], NEW n, n = Len(Batch(l, t)), n > 0
  PROVE  /\ o \in Nat /\ n \in Nat /\ Batch(l, t) \in Seq(Range(Records(l, t)))
         /\ n = IF o + BatchSize(l, t) < Total(l, t) THEN BatchSize(l, t) ELSE Total(l, t) - o
         /\ \A i \in 1..n : /\ o + i \in DOMAIN Records(l, t) /\ Batch(l, t)[i] = Records(l, t)[o + i]
                            /\ FirstOfBatch(l, t, o + i) = Batch(l, t)[1]
<1> DEFINE most == BatchSize(l, t)
           records == Records(l, t)
           total == Total(l, t)
           end == IF o + most < total THEN o + most ELSE total
<1>1. /\ records \in Seq(Range(records)) /\ Len(records) = total /\ total \in Nat /\ most \in Nat
      /\ DOMAIN records = 1..total
  BY RecordsOf DEF Total
<1>2. PICK m \in Nat : o = m * most
  BY OffsetOf
<1>3. o \in Nat
  BY OffsetOf
<1> HIDE DEF most, records, total
<1>4. Batch(l, t) = SubSeq(records, o + 1, end)
  <2>1. Min({o + most, total}) = end
    BY <1>1, <1>3, Smaller
  <2> QED
    BY <2>1 DEF Batch, most, records, total, Total
<1>5. end \in Nat /\ end <= total
  BY <1>1, <1>3
<1>6. /\ n = IF o + 1 <= end THEN end - o ELSE 0
      /\ Batch(l, t) \in Seq(Range(records))
      /\ \A i \in 1..n : Batch(l, t)[i] = records[o + i]
  <2> HIDE DEF end
  <2>1. records \in Seq(Range(records)) /\ end <= Len(records) /\ end \in Nat
    BY <1>1, <1>5
  <2>2. /\ SubSeq(records, o + 1, end) \in Seq(Range(records))
        /\ Len(SubSeq(records, o + 1, end)) = IF o + 1 <= end THEN end - o ELSE 0
        /\ \A i \in 1..(end - o) : SubSeq(records, o + 1, end)[i] = records[o + i]
    <3>1. ASSUME NEW S, NEW s \in Seq(S), NEW e \in Nat, e <= Len(s)
          PROVE  /\ SubSeq(s, o + 1, e) \in Seq(S)
                 /\ Len(SubSeq(s, o + 1, e)) = IF o + 1 <= e THEN e - o ELSE 0
                 /\ \A i \in 1..(e - o) : SubSeq(s, o + 1, e)[i] = s[o + i]
      BY <1>3, <3>1, Slice
    <3> QED
      BY <2>1, <3>1
  <2>3. n = IF o + 1 <= end THEN end - o ELSE 0
    BY <1>4, <2>2
  <2>4. n \in Nat /\ n <= end - o
    BY <1>3, <1>5, <2>3
  <2>5. \A i \in 1..n : i \in 1..(end - o)
    BY <1>3, <1>5, <2>4
  <2> QED
    BY <1>4, <2>2, <2>3, <2>5
<1>7. n = end - o /\ most # 0 /\ n <= most
  BY <1>1, <1>3, <1>5, <1>6
<1>8. ASSUME NEW i \in 1..n
      PROVE  o + i \in 1..total /\ FirstOfBatch(l, t, o + i) = Batch(l, t)[1]
  <2>1. i - 1 \in 0..(most - 1) /\ most \in Nat \ {0} /\ 1 \in 1..n
    BY <1>1, <1>3, <1>7
  <2>2. (m * most + (i - 1)) \div most = m
    BY <2>1, Divides
  <2>3. (o + i) - 1 = m * most + (i - 1)
    BY <1>1, <1>2, <1>3
  <2>4. (((o + i) - 1) \div most) * most + 1 = o + 1
    BY <1>2, <2>2, <2>3
  <2>5. FirstOfBatch(l, t, o + i) = records[(((o + i) - 1) \div most) * most + 1]
    BY DEF FirstOfBatch, most, records
  <2>6. Batch(l, t)[1] = records[o + 1]
    BY <1>6, <2>1
  <2>7. o + i \in 1..total
    <3> HIDE DEF end
    <3>1. o \in Nat /\ end \in Nat /\ total \in Nat /\ end <= total /\ n = end - o
      BY <1>1, <1>3, <1>5, <1>7
    <3> QED
      BY <3>1
  <2> QED
    BY <2>4, <2>5, <2>6, <2>7
<1>9. n \in Nat /\ n = IF o + most < total THEN most ELSE total - o
  BY <1>1, <1>3, <1>5, <1>7
<1> QED
  BY <1>1, <1>3, <1>6, <1>8, <1>9 DEF most, records, total

(***************************************************************************)
(* Whichever way a batch goes, its rows are what the records hold.         *)
(***************************************************************************)
LEMMA WayRight ==
  ASSUME NEW options, NEW n, NEW known, NEW on, NEW way,
         way = WayOf(case.link, options, n, FileThreshold, known, on), way # "raise",
         case.link.dialect \in {"base", "postgresql", "mysql", "mssql", "duckdb"}
  PROVE  /\ way \in {"native", "executemany"}
         /\ way = "native" => options.bulk # "never" /\ case.link.dialect # "base"
BY DEF WayOf, Barred, Small

LEMMA RowsRead ==
  ASSUME NEW dialect, NEW way, NEW columns, NEW batch, NEW defaults, NEW n \in Nat, n > 0,
         DOMAIN batch = 1..n,
         way = "native" /\ dialect = "mssql" => InPlace(columns, batch[1], defaults),
         NEW rows \in RowsWritten(dialect, way, columns, batch, defaults)
  PROVE  /\ rows \in Seq(Range(rows)) /\ Len(rows) = n
         /\ \A i \in 1..n : \A k \in DOMAIN defaults :
              rows[i][k] = IF k \notin DOMAIN batch[1] THEN defaults[k]
                           ELSE IF way # "native" THEN batch[i][k]
                           ELSE IF k \notin DOMAIN batch[i] THEN Null
                           ELSE OnWire(dialect, batch[i][k])
<1>1. DOMAIN rows = 1..n
  BY DEF RowsWritten, Rows
<1>2. rows = [i \in 1..n |-> rows[i]]
  BY <1>1 DEF RowsWritten, Rows
<1>3. rows \in [1..n -> Range(rows)]
  BY <1>1, <1>2 DEF Range
<1>4. rows \in Seq(Range(rows)) /\ Len(rows) = n
  BY <1>1, <1>3
<1>5. CASE way = "native"
  <2>1. rows = [i \in 1..n |-> [k \in DOMAIN defaults |->
                  IF k \in DOMAIN batch[1] THEN FileValue(dialect, batch[i], k) ELSE defaults[k]]]
    BY <1>5 DEF RowsWritten, Rows
  <2>2. \A i \in 1..n : \A k \in DOMAIN defaults :
          rows[i][k] = IF k \in DOMAIN batch[1] THEN FileValue(dialect, batch[i], k) ELSE defaults[k]
    BY <2>1
  <2> QED
    BY <1>4, <1>5, <2>2 DEF FileValue
<1>6. CASE way # "native"
  <2>1. rows = [i \in 1..n |-> [k \in DOMAIN defaults |->
                  IF k \in DOMAIN batch[1] THEN batch[i][k] ELSE defaults[k]]]
    BY <1>6 DEF RowsWritten, Rows
  <2>2. \A i \in 1..n : \A k \in DOMAIN defaults :
          rows[i][k] = IF k \in DOMAIN batch[1] THEN batch[i][k] ELSE defaults[k]
    BY <2>1
  <2> QED
    BY <1>4, <1>6, <2>2
<1> QED
  BY <1>5, <1>6

(***************************************************************************)
(* A column that gets no field makes lines short: bcp reads fewer rows     *)
(* than there are lines.                                                   *)
(***************************************************************************)
LEMMA Quotient ==
  ASSUME NEW a \in Nat, NEW d \in Nat \ {0}
  PROVE  a \div d \in Nat /\ d * (a \div d) <= a /\ a < d * (a \div d) + d
OBVIOUS

LEMMA LinesTogether ==
  ASSUME NEW m \in Nat, NEW fields \in Nat, 2 <= fields, fields < m
  PROVE  LinesPerRow(m, fields) \in Nat /\ LinesPerRow(m, fields) >= 2
<1> DEFINE a == m + fields - 3
           d == fields - 1
           q == a \div d
<1>1. a \in Nat /\ d \in Nat \ {0} /\ a >= d + d
  OBVIOUS
<1> HIDE DEF a, d
<1>2. q \in Nat /\ a < d * q + d
  BY <1>1, Quotient
<1>3. q # 0 /\ q # 1
  <2>1. d * 0 = 0 /\ d * 1 = d
    BY <1>1
  <2> QED
    BY <1>1, <1>2, <2>1
<1> QED
  BY <1>2, <1>3 DEF LinesPerRow, a, d

LEMMA FewerRows ==
  ASSUME NEW n \in Nat \ {0}, NEW lines \in Nat, lines >= 2
  PROVE  n \div lines \in Nat /\ n \div lines < n
<1> DEFINE q == n \div lines
<1>1. q \in Nat /\ lines * q <= n
  BY Quotient
<1> HIDE DEF q
<1>2. q = 0 \/ q + q <= lines * q
  BY <1>1
<1> QED
  BY <1>1, <1>2 DEF q

LEMMA SomeOf ==
  ASSUME NEW n \in Nat, NEW all, Len(all) = n, NEW rows \in Some(all)
  PROVE  rows \in Seq(Range(rows)) /\ Len(rows) \in Nat /\ Len(rows) <= n
<1>1. PICK q \in 0..n : \E at : rows = [i \in 1..q |-> all[at[i]]]
  BY DEF Some
<1>2. DOMAIN rows = 1..q /\ rows = [i \in 1..q |-> rows[i]]
  BY <1>1
<1>3. rows \in [1..q -> Range(rows)]
  BY <1>2 DEF Range
<1> QED
  BY <1>2, <1>3

LEMMA Misloaded ==
  ASSUME NEW columns, columns \in Seq(Range(columns)), NEW batch, NEW defaults, NEW n \in Nat \ {0},
         Len(batch) = n, NEW k \in Range(columns), k \notin DOMAIN batch[1], defaults[k] = Null,
         NEW rows \in RowsWritten("mssql", "native", columns, batch, defaults)
  PROVE  rows \in Seq(Range(rows)) /\ Len(rows) \in Nat /\ Len(rows) < n
<1> DEFINE written == Written(columns, batch[1], defaults)
           m == Len(columns)
           fields == Cardinality(written)
           all == ByPosition(columns, batch, defaults)
<1>1. PICK p \in DOMAIN columns : columns[p] = k
  BY DEF Range
<1>2. m \in Nat /\ DOMAIN columns = 1..m /\ written \subseteq 1..m /\ p \in 1..m /\ p \notin written
  BY <1>1 DEF Written
<1>3. rows \in Some(all)
  BY <1>1, <1>2 DEF RowsWritten, InPlace
<1> HIDE DEF written, m
<1>4. fields \in Nat /\ fields < m
  <2>1. IsFiniteSet(1..m) /\ Cardinality(1..m) = m
    BY <1>2, FS_Interval
  <2>2. IsFiniteSet(written) /\ fields <= m /\ fields # m
    BY <1>2, <2>1, FS_Subset
  <2>3. fields \in Nat
    BY <2>2, FS_CardinalityType
  <2> QED
    BY <1>2, <2>2, <2>3
<1> HIDE DEF fields
<1>5. Len(all) \in Nat /\ Len(all) < n
  <2>1. CASE fields < 2
    BY <2>1 DEF ByPosition, fields, written
  <2>2. CASE ~(fields < 2)
    <3> DEFINE lines == LinesPerRow(m, fields)
    <3>1. lines \in Nat /\ lines >= 2
      BY <1>2, <1>4, <2>2, LinesTogether
    <3>2. n \div lines \in Nat /\ n \div lines < n
      BY <3>1, FewerRows
    <3>3. DOMAIN all = 1..(n \div lines) /\ \E e : all = [i \in 1..(n \div lines) |-> e[i]]
      <4>1. all = [i \in 1..(n \div lines) |-> all[i]]
        BY <2>2 DEF ByPosition, fields, written, m
      <4> QED
        BY <4>1
    <3> QED
      BY <3>2, <3>3
  <2> QED
    BY <2>1, <2>2
<1> HIDE DEF all
<1> QED
  BY <1>3, <1>5, SomeOf

LEMMA OnMysql ==
  ASSUME NEW v
  PROVE  OnWire("mysql", v) = v
BY DEF OnWire, Tabbed, Empty, Null, Spaced

LEMMA BatchRight ==
  ASSUME WellFormed, NEW l \in DOMAIN case.loads, NEW t \in TempTable, AtABatch(l, t),
         NEW batch, batch = Batch(l, t), NEW n, n = Len(batch), n > 0,
         NEW way \in {"native", "executemany"}, way = "executemany" => Complete(batch),
         way = "native" => Load(l).options.bulk # "never" /\ case.link.dialect # "base",
         ~(way = "native" /\ case.link.dialect = "mssql"),
         NEW rows \in RowsWritten(case.link.dialect, way, Columns[t], batch, Defaults[t])
  PROVE  Right(Wanted(l, t), offset[l], rows) /\ Len(rows) = n
<1>1. PICK o \in Nat : o = offset[l]
  BY OffsetOf
<1>2. /\ n \in Nat /\ batch \in Seq(Range(Records(l, t)))
      /\ \A i \in 1..n : /\ o + i \in DOMAIN Records(l, t) /\ batch[i] = Records(l, t)[o + i]
                         /\ FirstOfBatch(l, t, o + i) = batch[1]
  BY <1>1, BatchOf
<1>3. case.link.dialect \in {"base", "postgresql", "mysql", "mssql", "duckdb"}
  BY RecordsOf
<1>4. DOMAIN batch = 1..n
  BY <1>2
<1>5. /\ rows \in Seq(Range(rows)) /\ Len(rows) = n
      /\ \A i \in 1..n : \A k \in DOMAIN Defaults[t] :
           rows[i][k] = IF k \notin DOMAIN batch[1] THEN Defaults[t][k]
                        ELSE IF way # "native" THEN batch[i][k]
                        ELSE IF k \notin DOMAIN batch[i] THEN Null
                        ELSE OnWire(case.link.dialect, batch[i][k])
  BY <1>2, <1>4, RowsRead, SMTT(60)
<1>6. ASSUME NEW i \in 1..n, NEW k \in DOMAIN Defaults[t]
      PROVE  rows[i][k] \in StagedAs(l, t, o + i, k)
  <2> DEFINE v == IF k \in DOMAIN batch[i] THEN batch[i][k] ELSE Defaults[t][k]
  <2>1. /\ o + i \in DOMAIN Records(l, t) /\ batch[i] = Records(l, t)[o + i]
        /\ 1 \in 1..n /\ o + 1 \in DOMAIN Records(l, t) /\ batch[1] = Records(l, t)[o + 1]
        /\ FirstOfBatch(l, t, o + i) = batch[1]
    BY <1>2
  <2>2. StagedAs(l, t, o + i, k) =
          IF k \notin DOMAIN batch[1] THEN {Defaults[t][k]}
          ELSE {v} \union (IF /\ case.link.dialect \in {"postgresql", "duckdb"}
                              /\ Load(l).options.bulk # "never"
                           THEN {OnWire(case.link.dialect, v)} ELSE {})
    BY <2>1 DEF StagedAs
  <2>3. CASE k \notin DOMAIN batch[1]
    BY <1>5, <2>2, <2>3
  <2>4. CASE k \in DOMAIN batch[1] /\ way # "native"
    <3>1. k \in DOMAIN batch[i]
      BY <1>3, <1>4, <2>4 DEF Complete
    <3> QED
      BY <1>5, <2>2, <2>4, <3>1
  <2>5. CASE k \in DOMAIN batch[1] /\ way = "native"
    <3>1. Defaults[t][k] = Null
      BY <2>1, <2>5, RecordsOf
    <3>2. CASE k \notin DOMAIN batch[i]
      BY <1>5, <2>2, <2>5, <3>1, <3>2
    <3>3. CASE k \in DOMAIN batch[i]
      <4>1. rows[i][k] = OnWire(case.link.dialect, v)
        BY <1>5, <2>5, <3>3
      <4>2. CASE case.link.dialect = "mysql"
        BY <2>2, <2>5, <4>1, <4>2, OnMysql
      <4>3. CASE case.link.dialect \in {"postgresql", "duckdb"}
        BY <1>3, <2>2, <2>5, <4>1, <4>3
      <4> QED
        BY <1>3, <2>5, <4>2, <4>3
    <3> QED
      BY <3>2, <3>3
  <2> QED
    BY <2>3, <2>4, <2>5
<1>7. ASSUME NEW i \in 1..n, NEW x \in Nat, x = o + i
      PROVE  /\ DOMAIN Wanted(l, t)[x] = DOMAIN Defaults[t]
             /\ \A k \in DOMAIN Defaults[t] : Wanted(l, t)[x][k] = StagedAs(l, t, x, k)
  BY DEF Wanted
<1>8. ASSUME NEW i \in 1..n, NEW x \in Nat, x = o + i, NEW k \in DOMAIN Wanted(l, t)[x]
      PROVE  rows[i][k] \in Wanted(l, t)[x][k]
  <2>1. k \in DOMAIN Defaults[t] /\ Wanted(l, t)[x][k] = StagedAs(l, t, x, k)
    BY <1>7, <1>8
  <2>2. rows[i][k] \in StagedAs(l, t, x, k)
    BY <1>6, <1>8, <2>1
  <2> QED
    BY <2>1, <2>2
<1>9. Right(Wanted(l, t), o, rows)
  <2>1. \A i \in 1..n : o + i \in Nat
    BY <1>2
  <2>2. ASSUME NEW wanted, wanted = Wanted(l, t)
        PROVE  \A i \in 1..Len(rows) : \A k \in DOMAIN wanted[o + i] : rows[i][k] \in wanted[o + i][k]
    BY <1>5, <1>8, <2>1, <2>2
  <2> QED
    BY <1>5, <2>2 DEF Right
<1> QED
  BY <1>1, <1>5, <1>9

(***************************************************************************)
(* The batches of a table that goes to bcp.  The first one is as large as  *)
(* any, and needs a key that no record gives.                              *)
(***************************************************************************)
LEMMA NotToBcp ==
  ASSUME WellFormed, NEW l \in DOMAIN case.loads, NEW t \in TempTable, ~GoesToBcp(l, t),
         NEW n \in Nat, n <= BatchSize(l, t), n <= Total(l, t), NEW known, NEW on,
         WayOf(case.link, Load(l).options, n, FileThreshold, known, on) = "native"
  PROVE  case.link.dialect # "mssql"
<1> SUFFICES ASSUME case.link.dialect = "mssql" PROVE FALSE
  OBVIOUS
<1> DEFINE first == Min({BatchSize(l, t), Total(l, t)})
           least == Threshold("mssql", Load(l).options, FileThreshold)
<1>1. ~Small("mssql", Load(l).options, n, FileThreshold) /\ case.link.tool
  BY DEF WayOf, NoTool, Barred
<1>2. least \in Int /\ BatchSize(l, t) \in Nat /\ Total(l, t) \in Nat
  BY RecordsOf DEF Threshold
<1>3. first \in Nat /\ n <= first
  BY <1>2, Smaller
<1> HIDE DEF first, least
<1>4. Small("mssql", Load(l).options, first, FileThreshold)
  BY <1>1 DEF GoesToBcp, first, Total
<1> QED
  BY <1>1, <1>2, <1>3, <1>4 DEF Small, least

LEMMA BcpBatch ==
  ASSUME WellFormed, NEW l \in DOMAIN case.loads, NEW t \in TempTable, AtABatch(l, t),
         NEW batch, batch = Batch(l, t), NEW n, n = Len(batch), n > 0,
         NEW way, way = "native", case.link.dialect = "mssql",
         NEW rows \in RowsWritten("mssql", way, Columns[t], batch, Defaults[t])
  PROVE  rows \in Seq(Range(rows)) /\ Len(rows) \in Nat /\ Len(rows) < n
<1>1. PICK o \in Nat : o = offset[l]
  BY OffsetOf
<1>2. n \in Nat \ {0} /\ o + 1 \in DOMAIN Records(l, t) /\ batch[1] = Records(l, t)[o + 1]
  <2>1. 1 \in 1..n /\ n \in Nat
    BY <1>1, BatchOf
  <2> QED
    BY <1>1, <2>1, BatchOf
<1>3. PICK k \in Range(Columns[t]) :
        /\ Columns[t] \in Seq(Range(Columns[t])) /\ Defaults[t][k] = Null
        /\ t \in DOMAIN Load(l).data => \A r \in Range(Load(l).data[t]) : k \notin DOMAIN r
  BY ColumnsAssumption DEF WellFormed, Load
<1>4. t \in DOMAIN Load(l).data /\ Records(l, t) = Load(l).data[t]
  <2>1. DOMAIN <<>> = {}
    OBVIOUS
  <2> QED
    BY <1>2, <2>1 DEF Records
<1>5. k \notin DOMAIN batch[1]
  BY <1>2, <1>3, <1>4 DEF Range
<1> QED
  BY <1>2, <1>3, <1>5, Misloaded

LEMMA BatchFits ==
  ASSUME WellFormed, NEW l \in DOMAIN case.loads, NEW t \in TempTable, AtABatch(l, t),
         NEW batch, batch = Batch(l, t), NEW n, n = Len(batch), n > 0, NEW known, NEW on,
         NEW way, way = WayOf(case.link, Load(l).options, n, FileThreshold, known, on),
         way # "raise", way = "executemany" => Complete(batch),
         NEW rows \in RowsWritten(case.link.dialect, way, Columns[t], batch, Defaults[t])
  PROVE  Adds(GoesToBcp(l, t), Wanted(l, t), offset[l], n, rows)
<1>1. PICK o \in Nat : o = offset[l]
  BY OffsetOf
<1>2. /\ n \in Nat /\ BatchSize(l, t) \in Nat /\ Total(l, t) \in Nat
      /\ n = IF o + BatchSize(l, t) < Total(l, t) THEN BatchSize(l, t) ELSE Total(l, t) - o
  BY <1>1, BatchOf, RecordsOf
<1>3. n <= BatchSize(l, t) /\ n <= Total(l, t)
  BY <1>2
<1>4. /\ way \in {"native", "executemany"}
      /\ way = "native" => Load(l).options.bulk # "never" /\ case.link.dialect # "base"
  BY RecordsOf, WayRight
<1>5. CASE ~(way = "native" /\ case.link.dialect = "mssql")
  <2>1. Right(Wanted(l, t), offset[l], rows) /\ Len(rows) = n
    BY <1>4, <1>5, BatchRight
  <2>2. ASSUME GoesToBcp(l, t), o = 0 PROVE FALSE
    <3>1. n = Min({BatchSize(l, t), Total(l, t)})
      BY <1>2, <2>2, Smaller
    <3>2. ~Small("mssql", Load(l).options, n, FileThreshold) /\ case.link.dialect = "mssql" /\ case.link.tool
      BY <2>2, <3>1 DEF GoesToBcp, Total
    <3> QED
      BY <1>5, <3>2 DEF WayOf, NoDriver, NoTool
  <2>3. rows \in Seq(Range(rows))
    BY <2>1 DEF Right
  <2> QED
    BY <1>1, <1>2, <2>1, <2>2, <2>3 DEF Adds
<1>6. CASE way = "native" /\ case.link.dialect = "mssql"
  <2>1. GoesToBcp(l, t)
    BY <1>2, <1>3, <1>6, NotToBcp
  <2>2. rows \in Seq(Range(rows)) /\ Len(rows) \in Nat /\ Len(rows) < n
    BY <1>6, BcpBatch
  <2> QED
    BY <1>2, <2>1, <2>2 DEF Adds
<1> QED
  BY <1>5, <1>6

LEMMA RightWith ==
  ASSUME NEW wanted, NEW old, Right(wanted, 0, old), NEW o \in Nat, o = Len(old), NEW n \in Nat,
         NEW rows, Right(wanted, o, rows), Len(rows) = n
  PROVE  Right(wanted, 0, old \o rows) /\ Len(old \o rows) = o + n
<1> DEFINE S == Range(old) \union Range(rows)
           all == old \o rows
<1>1. old \in Seq(S) /\ rows \in Seq(S)
  <2>1. Range(old) \subseteq S /\ Range(rows) \subseteq S /\ old \in Seq(Range(old)) /\ rows \in Seq(Range(rows))
    BY DEF Right
  <2> HIDE DEF S
  <2> QED
    BY <2>1, SeqMonotonic
<1> HIDE DEF S
<1>2. /\ all \in Seq(S) /\ Len(all) = o + n
      /\ \A i \in 1..(o + n) : all[i] = IF i <= o THEN old[i] ELSE rows[i - o]
  BY <1>1, ConcatProperties
<1> HIDE DEF all
<1>3. DOMAIN all = 1..(o + n)
  BY <1>2
<1>4. all \in Seq(Range(all))
  <2>1. all = [i \in 1..(o + n) |-> all[i]]
    BY <1>2, <1>3
  <2>2. all \in [1..(o + n) -> Range(all)]
    BY <1>3, <2>1 DEF Range
  <2> QED
    BY <2>2
<1>5. ASSUME NEW i \in 1..(o + n), NEW k \in DOMAIN wanted[i]
      PROVE  all[i][k] \in wanted[i][k]
  <2>1. CASE i <= o
    <3>1. i \in 1..Len(old) /\ 0 + i = i /\ all[i] = old[i]
      BY <1>2, <2>1
    <3> QED
      BY <3>1 DEF Right
  <2>2. CASE ~(i <= o)
    <3>1. i - o \in 1..n /\ all[i] = rows[i - o] /\ o + (i - o) = i
      BY <1>2, <2>2
    <3> QED
      BY <3>1 DEF Right
  <2> QED
    BY <2>1, <2>2
<1>6. \A i \in 1..Len(all) : 0 + i = i /\ i \in 1..(o + n)
  BY <1>2
<1> QED
  BY <1>2, <1>4, <1>5, <1>6 DEF Right, all

LEMMA FitsWith ==
  ASSUME NEW bcp, NEW wanted, NEW o \in Nat, NEW old, Fits(bcp, wanted, o, old),
         NEW n \in Nat, n > 0, NEW rows,
         Adds(bcp, wanted, o, n, rows)
  PROVE  Fits(bcp, wanted, o + n, old \o rows)
<1>1. CASE ~bcp
  <2>1. Right(wanted, 0, old) /\ Len(old) = o
    BY <1>1 DEF Fits
  <2> QED
    BY <1>1, <2>1, RightWith DEF Fits, Adds
<1>2. CASE bcp
  <2> DEFINE S == Range(old) \union Range(rows)
             all == old \o rows
  <2>1. old \in Seq(Range(old)) /\ Len(old) \in Nat /\ (IF o > 0 THEN Len(old) < o ELSE Len(old) = o)
    BY <1>2 DEF Fits, Right
  <2>2. old \in Seq(S) /\ rows \in Seq(S)
    <3>1. Range(old) \subseteq S /\ Range(rows) \subseteq S
      OBVIOUS
    <3> HIDE DEF S
    <3> QED
      BY <1>2, <2>1, <3>1, SeqMonotonic DEF Adds
  <2> HIDE DEF S
  <2>3. all \in Seq(S) /\ Len(all) = Len(old) + Len(rows)
    BY <2>2, ConcatProperties
  <2> HIDE DEF all
  <2>4. all \in Seq(Range(all))
    BY <2>3 DEF Range
  <2>5. Len(all) < o + n /\ o + n > 0
    BY <1>2, <2>1, <2>3 DEF Adds
  <2> QED
    BY <1>2, <2>4, <2>5 DEF Fits, all
<1> QED
  BY <1>1, <1>2

-----------------------------------------------------------------------------
(***************************************************************************)
(* A step changes no document.                                             *)
(***************************************************************************)
LEMMA SameLoad ==
  ASSUME case' = case, NEW l
  PROVE  /\ Load(l)' = Load(l) /\ Prefix(l)' = Prefix(l)
         /\ \A t : /\ Records(l, t)' = Records(l, t) /\ Total(l, t)' = Total(l, t)
                   /\ BatchSize(l, t)' = BatchSize(l, t) /\ Wanted(l, t)' = Wanted(l, t)
                   /\ GoesToBcp(l, t)' = GoesToBcp(l, t)
<1>1. Load(l)' = Load(l) /\ Prefix(l)' = Prefix(l)
  BY DEF Load, Prefix
<1>2. \A t : Records(l, t)' = Records(l, t)
  BY <1>1 DEF Records
<1>3. \A t : Total(l, t)' = Total(l, t) /\ BatchSize(l, t)' = BatchSize(l, t)
  BY <1>1, <1>2 DEF Total, BatchSize
<1>4. \A t, i : FirstOfBatch(l, t, i)' = FirstOfBatch(l, t, i)
  BY <1>2, <1>3 DEF FirstOfBatch
<1>5. \A t, i, k : StagedAs(l, t, i, k)' = StagedAs(l, t, i, k)
  BY <1>1, <1>2, <1>4 DEF StagedAs
<1>6. \A t : Wanted(l, t)' = Wanted(l, t)
  BY <1>5 DEF Wanted
<1>7. \A t : GoesToBcp(l, t)' = GoesToBcp(l, t)
  <2> SUFFICES ASSUME NEW t PROVE GoesToBcp(l, t)' = GoesToBcp(l, t)
    OBVIOUS
  <2> DEFINE first == Min({BatchSize(l, t), Len(Records(l, t))})
  <2>1. first' = first
    BY <1>2, <1>3
  <2> HIDE DEF first
  <2>2. Small("mssql", Load(l).options, first, FileThreshold)'
          = Small("mssql", Load(l).options, first, FileThreshold)
    BY <1>1, <2>1 DEF Small, Threshold
  <2> QED
    BY <2>2 DEF GoesToBcp, first
<1> QED
  BY <1>1, <1>2, <1>3, <1>6, <1>7

FedSame(l) == (outcome'[l] = "ok" => outcome[l] = "ok") /\ fed'[l] = fed[l]

LEMMA FedStill ==
  ASSUME case' = case, NEW l, FedRight(l), FedSame(l)
  PROVE  FedRight(l)'
<1>1. ASSUME outcome[l] = "ok", NEW t \in TempTable
      PROVE  Fits(GoesToBcp(l, t), Wanted(l, t), Total(l, t), fed[l][t])'
  BY <1>1, SameLoad DEF FedRight, FedSame
<1> QED
  BY <1>1 DEF FedRight, FedSame

(***************************************************************************)
(* A load that is neither dropping nor filling its tables, or that stays   *)
(* where it was with the tables as they were.                              *)
(***************************************************************************)
LEMMA Elsewhere ==
  ASSUME case' = case, NEW l, StagedRight(l), FedSame(l), stage'[l] # "drop", stage'[l] \notin Filling
  PROVE  StagedRight(l)'
BY FedStill DEF StagedRight, Dropped, RowsRight, BatchNext, Filling

LEMMA Settled ==
  ASSUME case' = case, NEW l, StagedRight(l), FedSame(l),
         stage'[l] = stage[l], step'[l] = step[l], offset'[l] = offset[l], TempsOf(l)' = TempsOf(l)
  PROVE  StagedRight(l)'
<1>1. /\ Current(l)' = Current(l)
      /\ \A j : Due(l, j)' = Due(l, j)
      /\ \A t : AtABatch(l, t)' <=> AtABatch(l, t)
  BY SameLoad DEF Current, StepsOf, Due, AtABatch
<1>2. Dropped(l)' /\ BatchNext(l)'
  BY <1>1 DEF StagedRight, Dropped, BatchNext
<1>3. RowsRight(l)'
  <2> SUFFICES ASSUME stage[l] \in Filling, NEW j \in DOMAIN CreateOrder, NEW t, t = CreateOrder[j],
                      t \in DOMAIN TempsOf(l)
               PROVE  Fits(GoesToBcp(l, t), Wanted(l, t), Due(l, j), TempsOf(l)[t])'
    BY DEF RowsRight
  <2>1. Fits(GoesToBcp(l, t), Wanted(l, t), Due(l, j), TempsOf(l)[t])
    BY DEF StagedRight, RowsRight
  <2> QED
    BY <1>1, <2>1, SameLoad
<1> QED
  BY <1>2, <1>3, FedStill DEF StagedRight

(***************************************************************************)
(* A load that goes on to its next step.                                   *)
(***************************************************************************)
AtWork(l) ==
  WellFormed /\ Running(l) /\ DOMAIN offset = Loader /\ case' = case /\ StagedRight(l)

LEMMA GoesOn ==
  ASSUME NEW l \in Loader, AtWork(l), Advance(l)
  PROVE  /\ l \in DOMAIN case.loads /\ step[l] \in 1..Len(StepsOf(l)) /\ Len(StepsOf(l)) \in Nat
         /\ offset'[l] = 0
         /\ \/ stage'[l] = stage[l] /\ step'[l] = step[l] + 1 /\ step[l] < Len(StepsOf(l))
            \/ stage'[l] = AfterStage(l) /\ step'[l] = 1 /\ step[l] = Len(StepsOf(l))
         /\ DOMAIN TempsOf(l) \subseteq TempTable
<1>1. offset'[l] = 0
  BY DEF Advance, Go, AtWork
<1>2. DOMAIN TempsOf(l) \subseteq TempTable /\ l \in DOMAIN case.loads
  BY Unstaged DEF AtWork, WellFormed, TempsOf
<1> QED
  BY <1>1, <1>2, Advances, AtAStep DEF AtWork

LEMMA GoesOnElsewhere ==
  ASSUME NEW l \in Loader, AtWork(l), Advance(l), stage[l] \in {"schema", "merge", "cleanup"}, FedRight(l)'
  PROVE  StagedRight(l)'
<1>1. /\ step[l] \in 1..Len(StepsOf(l)) /\ Len(StepsOf(l)) \in Nat
      /\ \/ stage'[l] = stage[l] /\ step'[l] = step[l] + 1 /\ step[l] < Len(StepsOf(l))
         \/ stage'[l] = AfterStage(l) /\ step'[l] = 1 /\ step[l] = Len(StepsOf(l))
  BY GoesOn
<1>2. stage[l] \in {"schema", "merge"} => Len(StepsOf(l)) = 1
  BY DEF StepsOf
<1>3. stage[l] \in {"schema", "merge"} => stage'[l] = AfterStage(l) /\ step'[l] = 1
  <2>1. ASSUME NEW i \in 1..1 PROVE ~(i < 1)
    OBVIOUS
  <2>2. stage[l] \in {"schema", "merge"} => ~(step[l] < Len(StepsOf(l)))
    BY <1>1, <1>2, <2>1
  <2> QED
    BY <1>1, <2>2
<1>4. stage'[l] \notin Filling /\ (stage'[l] = "drop" => step'[l] = 1)
  BY <1>1, <1>3 DEF AfterStage, Filling
<1>5. Dropped(l)'
  BY <1>4 DEF Dropped
<1>6. RowsRight(l)' /\ BatchNext(l)'
  BY <1>4 DEF RowsRight, BatchNext, Filling
<1> QED
  BY <1>5, <1>6 DEF StagedRight

LEMMA GoesOnDropping ==
  ASSUME NEW l \in Loader, AtWork(l), Advance(l), FedSame(l), stage[l] = "drop",
         DOMAIN TempsOf(l)' \subseteq DOMAIN TempsOf(l) \ {Current(l)}
  PROVE  StagedRight(l)'
<1>1. /\ step[l] \in 1..Len(DropOrder) /\ Len(DropOrder) \in Nat /\ Current(l) = DropOrder[step[l]]
      /\ \/ stage'[l] = "drop" /\ step'[l] = step[l] + 1
         \/ stage'[l] = "create" /\ step[l] = Len(DropOrder)
      /\ DOMAIN TempsOf(l) \subseteq TempTable
  BY GoesOn DEF StepsOf, AfterStage, Current
<1>2. \A j \in 1..step[l] : DropOrder[j] \notin DOMAIN TempsOf(l)'
  <2>1. \A j \in 1..(step[l] - 1) : DropOrder[j] \notin DOMAIN TempsOf(l)
    BY DEF AtWork, StagedRight, Dropped
  <2>2. \A j \in 1..step[l] : j = step[l] \/ j \in 1..(step[l] - 1)
    BY <1>1
  <2> QED
    BY <1>1, <2>1, <2>2
<1>3. FedRight(l)'
  BY FedStill DEF AtWork, StagedRight
<1>4. CASE stage'[l] = "drop" /\ step'[l] = step[l] + 1
  <2>1. step'[l] - 1 = step[l]
    BY <1>1, <1>4
  <2>2. Dropped(l)'
    BY <1>2, <2>1 DEF Dropped
  <2> QED
    BY <1>3, <1>4, <2>2 DEF StagedRight, RowsRight, BatchNext, Filling
<1>5. CASE stage'[l] = "create" /\ step[l] = Len(DropOrder)
  <2>1. ASSUME NEW t \in DOMAIN TempsOf(l)' PROVE FALSE
    <3>1. PICK i \in DOMAIN DropOrder : DropOrder[i] = t
      BY <1>1, Orders
    <3>2. i \in 1..step[l]
      BY <1>5, Orders
    <3> QED
      BY <1>2, <3>1, <3>2
  <2>2. RowsRight(l)'
    BY <2>1 DEF RowsRight
  <2> QED
    BY <1>3, <1>5, <2>2 DEF StagedRight, Dropped, BatchNext
<1> QED
  BY <1>1, <1>4, <1>5

LEMMA EmptyRight ==
  ASSUME NEW bcp, NEW wanted, NEW rows, rows = <<>>
  PROVE  Fits(bcp, wanted, 0, rows)
<1>1. rows \in Seq(Range(rows)) /\ Len(rows) = 0 /\ 1..Len(rows) = {}
  OBVIOUS
<1> QED
  BY <1>1 DEF Fits, Right

LEMMA GoesOnCreating ==
  ASSUME NEW l \in Loader, AtWork(l), Advance(l), FedSame(l), stage[l] = "create",
         \A t \in DOMAIN TempsOf(l)' : TempsOf(l)'[t] = <<>>
  PROVE  StagedRight(l)'
<1>1. /\ offset'[l] = 0
      /\ stage'[l] = "create" \/ (stage'[l] = "insert" /\ step'[l] = 1)
  BY GoesOn DEF AfterStage
<1>2. FedRight(l)'
  BY FedStill DEF AtWork, StagedRight
<1>3. \A j \in DOMAIN CreateOrder : Due(l, j)' = 0
  <2> SUFFICES ASSUME NEW j \in DOMAIN CreateOrder PROVE Due(l, j)' = 0
    OBVIOUS
  <2>1. j \in Nat \ {0}
    BY Orders
  <2> QED
    BY <1>1, <2>1 DEF Due
<1>4. RowsRight(l)'
  <2>1. \A t \in DOMAIN TempsOf(l)' : Fits(GoesToBcp(l, t), Wanted(l, t), 0, TempsOf(l)[t])'
    BY EmptyRight
  <2> QED
    BY <1>3, <2>1 DEF RowsRight
<1>5. BatchNext(l)'
  BY <1>1 DEF BatchNext, AtABatch
<1> QED
  BY <1>1, <1>2, <1>4, <1>5 DEF StagedRight, Dropped

LEMMA NoRows ==
  ASSUME NEW l \in Loader, WellFormed, Running(l), StagedRight(l), stage[l] = "create"
  PROVE  \A t \in DOMAIN TempsOf(l) : TempsOf(l)[t] = <<>>
<1> SUFFICES ASSUME NEW t \in DOMAIN TempsOf(l) PROVE TempsOf(l)[t] = <<>>
  OBVIOUS
<1>1. t \in TempTable
  BY Unstaged DEF WellFormed, TempsOf
<1>2. PICK j \in DOMAIN CreateOrder : CreateOrder[j] = t
  BY <1>1, Orders
<1>3. Fits(GoesToBcp(l, t), Wanted(l, t), 0, TempsOf(l)[t])
  BY <1>2 DEF StagedRight, RowsRight, Filling, Due
<1> QED
  BY <1>3 DEF Fits, Right

LEMMA GoesOnInserting ==
  ASSUME NEW l \in Loader, AtWork(l), Advance(l), FedSame(l), stage[l] = "insert",
         TempTable \subseteq DOMAIN TempsOf(l), DOMAIN TempsOf(l)' = DOMAIN TempsOf(l),
         \A t \in DOMAIN TempsOf(l) \ {Current(l)} : TempsOf(l)'[t] = TempsOf(l)[t],
         \A t : t = Current(l) => Fits(GoesToBcp(l, t), Wanted(l, t), Total(l, t), TempsOf(l)[t])'
  PROVE  StagedRight(l)'
<1>1. /\ step[l] \in 1..Len(CreateOrder) /\ Len(CreateOrder) \in Nat /\ Current(l) = CreateOrder[step[l]]
      /\ offset'[l] = 0
      /\ \/ stage'[l] = "insert" /\ step'[l] = step[l] + 1
         \/ stage'[l] = "target" /\ step[l] = Len(CreateOrder)
  BY GoesOn DEF StepsOf, AfterStage, Current
<1>2. FedRight(l)'
  BY FedStill DEF AtWork, StagedRight
<1>3. case' = case /\ RowsRight(l)
  BY DEF AtWork, StagedRight
<1>4. ASSUME NEW j \in DOMAIN CreateOrder, NEW t, t = CreateOrder[j]
      PROVE  Fits(GoesToBcp(l, t), Wanted(l, t), Due(l, j), TempsOf(l)[t])'
  <2>1. t \in DOMAIN TempsOf(l) /\ j \in 1..Len(CreateOrder) /\ Total(l, t)' = Total(l, t)
    BY <1>3, <1>4, Orders, SameLoad
  <2>2. CASE j = step[l]
    <3>1. stage'[l] = "target" \/ j < step'[l]
      BY <1>1, <2>1, <2>2
    <3>2. Due(l, j)' = Total(l, t)'
      BY <1>1, <1>4, <3>1 DEF Due
    <3> QED
      BY <1>1, <1>4, <2>2, <3>2
  <2>3. CASE j # step[l]
    <3>1. t # Current(l)
      BY <1>1, <1>4, <2>1, <2>3, Orders
    <3>2. Fits(GoesToBcp(l, t), Wanted(l, t), Due(l, j), TempsOf(l)[t])
      BY <1>3, <1>4, <2>1 DEF RowsRight, Filling
    <3>3. Due(l, j)' = Due(l, j)
      <4>1. stage'[l] # "insert" \/ j < step'[l] <=> j < step[l]
        BY <1>1, <2>1, <2>3
      <4>2. stage'[l] = "insert" => j # step'[l] \/ offset'[l] = 0
        BY <1>1
      <4> QED
        BY <1>1, <1>4, <2>1, <2>3, <4>1, <4>2 DEF Due
    <3> QED
      BY <1>3, <2>1, <3>1, <3>2, <3>3, SameLoad
  <2> QED
    BY <2>2, <2>3
<1>6. RowsRight(l)'
  BY <1>4 DEF RowsRight
<1>7. BatchNext(l)'
  BY <1>1 DEF BatchNext, AtABatch
<1> QED
  BY <1>1, <1>2, <1>6, <1>7 DEF StagedRight, Dropped

LEMMA GoesOnMaking ==
  ASSUME NEW l \in Loader, AtWork(l), Advance(l), FedSame(l), stage[l] = "target", TempsOf(l)' = TempsOf(l)
  PROVE  StagedRight(l)'
<1>1. stage'[l] \in {"target", "merge"}
  BY GoesOn DEF AfterStage
<1>2. FedRight(l)'
  BY FedStill DEF AtWork, StagedRight
<1>3. case' = case /\ RowsRight(l)
  BY DEF AtWork, StagedRight
<1>4. \A j : Due(l, j) = Total(l, CreateOrder[j]) /\ Due(l, j)' = Total(l, CreateOrder[j])
  BY <1>1, <1>3, SameLoad DEF Due
<1>5. ASSUME NEW j \in DOMAIN CreateOrder, NEW t, t = CreateOrder[j], t \in DOMAIN TempsOf(l)
      PROVE  Fits(GoesToBcp(l, t), Wanted(l, t), Due(l, j), TempsOf(l)[t])'
  <2>1. Fits(GoesToBcp(l, t), Wanted(l, t), Due(l, j), TempsOf(l)[t])
    BY <1>3, <1>5 DEF RowsRight, Filling
  <2> QED
    BY <1>3, <1>4, <2>1, SameLoad
<1>6. RowsRight(l)'
  BY <1>5 DEF RowsRight
<1> QED
  BY <1>1, <1>2, <1>6 DEF StagedRight, Dropped, BatchNext

(***************************************************************************)
(* Each step of a load.                                                    *)
(***************************************************************************)
LEMMA OutRight ==
  ASSUME NEW l \in Loader, AtWork(l), Raises(l), fed' = fed
  PROVE  StagedRight(l)'
<1>1. stage'[l] \in {"cleanup", "failed"} /\ outcome'[l] # "ok"
  BY RaisesOut DEF AtWork, Out, Reasons
<1> QED
  BY <1>1, Elsewhere DEF AtWork, FedSame, Filling

LEMMA LookRight ==
  ASSUME NEW l \in Loader, AtWork(l), Look(l)
  PROVE  StagedRight(l)'
<1>1. FedSame(l) /\ TempsOf(l)' = TempsOf(l) /\ FedRight(l)'
  <2>1. FedSame(l) /\ TempsOf(l)' = TempsOf(l)
    BY DEF Look, FedSame, base, TempsOf, Prefix, Load
  <2> QED
    BY <2>1, FedStill DEF AtWork, StagedRight
<1>2. CASE ToDo(l, Current(l))
  BY <1>1, <1>2, Settled DEF Look, AtWork
<1>3. CASE ~ToDo(l, Current(l))
  <2>1. Advance(l) /\ stage[l] \in Defines
    BY <1>3 DEF Look
  <2>2. CASE stage[l] \in {"schema", "cleanup"}
    BY <1>1, <2>1, <2>2, GoesOnElsewhere
  <2>3. CASE stage[l] = "drop"
    <3>1. Current(l) \notin DOMAIN TempsOf(l)
      BY <1>3, <2>3 DEF ToDo, Exists
    <3> QED
      BY <1>1, <2>1, <2>3, <3>1, GoesOnDropping
  <2>4. CASE stage[l] = "create"
    <3>1. \A t \in DOMAIN TempsOf(l) : TempsOf(l)[t] = <<>>
      BY <2>4, NoRows DEF AtWork
    <3> QED
      BY <1>1, <2>1, <2>4, <3>1, GoesOnCreating
  <2>5. CASE stage[l] = "target"
    BY <1>1, <2>1, <2>5, GoesOnMaking
  <2> QED
    BY <2>1, <2>2, <2>3, <2>4, <2>5 DEF Defines
<1> QED
  BY <1>2, <1>3

LEMMA CreateRight ==
  ASSUME NEW l \in Loader, AtWork(l), CreateSchema(l) \/ CreateTarget(l)
  PROVE  StagedRight(l)'
<1>1. /\ fed' = fed /\ TempsOf(l)' = TempsOf(l) /\ stage[l] \in {"schema", "target"}
      /\ Raise(l, "already exists") \/ (Advance(l) /\ outcome' = outcome)
  BY DEF CreateSchema, CreateTarget, TempsOf, Prefix, Load
<1>2. CASE Raise(l, "already exists")
  BY <1>1, <1>2, RaisesFor, OutRight
<1>3. CASE Advance(l) /\ outcome' = outcome
  <2>1. FedSame(l) /\ FedRight(l)'
    <3>1. FedSame(l)
      BY <1>1, <1>3 DEF FedSame
    <3> QED
      BY <3>1, FedStill DEF AtWork, StagedRight
  <2> QED
    BY <1>1, <1>3, <2>1, GoesOnElsewhere, GoesOnMaking
<1> QED
  BY <1>1, <1>2, <1>3

LEMMA TempRight ==
  ASSUME NEW l \in Loader, AtWork(l), CreateTemp(l) \/ DropTemp(l)
  PROVE  StagedRight(l)'
<1>1. /\ fed' = fed /\ case' = case /\ Prefix(l)' = Prefix(l) /\ Prefix(l) \in DOMAIN temps
  BY Unstaged, SameLoad DEF CreateTemp, DropTemp, AtWork
<1>2. CASE Raise(l, "already exists") \/ Raise(l, "no such table")
  BY <1>1, <1>2, RaisesFor, OutRight
<1>3. CASE /\ stage[l] = "create" /\ Advance(l) /\ outcome' = outcome
           /\ temps' = [temps EXCEPT ![Prefix(l)] =
                         [t \in DOMAIN @ \union {Current(l)} |-> IF t \in DOMAIN @ THEN @[t] ELSE <<>>]]
  <2>1. \A t \in DOMAIN TempsOf(l) : TempsOf(l)[t] = <<>>
    BY <1>3, NoRows DEF AtWork
  <2>2. TempsOf(l)' = [t \in DOMAIN TempsOf(l) \union {Current(l)} |->
                         IF t \in DOMAIN TempsOf(l) THEN TempsOf(l)[t] ELSE <<>>]
    BY <1>1, <1>3 DEF TempsOf
  <2>3. \A t \in DOMAIN TempsOf(l)' : TempsOf(l)'[t] = <<>>
    BY <2>1, <2>2
  <2> QED
    BY <1>1, <1>3, <2>3, GoesOnCreating DEF FedSame
<1>4. CASE /\ stage[l] \in {"drop", "cleanup"} /\ Advance(l) /\ outcome' = outcome
           /\ temps' = [temps EXCEPT ![Prefix(l)] = [t \in DOMAIN @ \ {Current(l)} |-> @[t]]]
  <2>1. DOMAIN TempsOf(l)' \subseteq DOMAIN TempsOf(l) \ {Current(l)}
    BY <1>1, <1>4 DEF TempsOf
  <2>2. FedSame(l)
    BY <1>1, <1>4 DEF FedSame
  <2>3. FedRight(l)'
    BY <2>2, FedStill DEF AtWork, StagedRight
  <2> QED
    BY <1>4, <2>1, <2>2, <2>3, GoesOnDropping, GoesOnElsewhere
<1> QED
  BY <1>2, <1>3, <1>4 DEF CreateTemp, DropTemp

LEMMA SkipRight ==
  ASSUME NEW l \in Loader, AtWork(l), Present(l), SkipTable(l)
  PROVE  StagedRight(l)'
<1>1. /\ Advance(l) /\ FedSame(l) /\ stage[l] = "insert" /\ TempsOf(l)' = TempsOf(l)
      /\ ~HasRecords(l, Current(l)) /\ TempTable \subseteq DOMAIN TempsOf(l)
  BY DEF SkipTable, FedSame, base, TempsOf, Prefix, Load, Present
<1> SUFFICES ASSUME NEW t, t = Current(l) PROVE StagedRight(l)'
  OBVIOUS
<1>2. t \in TempTable /\ step[l] \in DOMAIN CreateOrder /\ t = CreateOrder[step[l]] /\ l \in DOMAIN case.loads
  BY <1>1, GoesOn, AtAStep, Orders DEF AtWork, StepsOf, Current
<1>3. Total(l, t) = 0
  BY <1>1, <1>2, RecordsOf DEF AtWork
<1>4. offset[l] = 0
  <2>1. AtABatch(l, t)
    BY <1>1 DEF AtWork, StagedRight, BatchNext
  <2>2. offset[l] \in Nat
    BY <1>2, <2>1, OffsetOf DEF AtWork
  <2> QED
    BY <1>3, <2>1, <2>2 DEF AtABatch
<1>5. Fits(GoesToBcp(l, t), Wanted(l, t), Total(l, t), TempsOf(l)[t])
  <2>1. t \in DOMAIN TempsOf(l) /\ Due(l, step[l]) = 0
    BY <1>1, <1>2, <1>3, <1>4 DEF Due
  <2> QED
    BY <1>1, <1>2, <1>3, <2>1 DEF AtWork, StagedRight, RowsRight, Filling
<1>6. Fits(GoesToBcp(l, t), Wanted(l, t), Total(l, t), TempsOf(l)[t])'
  BY <1>1, <1>5, SameLoad DEF AtWork
<1> QED
  BY <1>1, <1>6, GoesOnInserting

LEMMA MergeRight ==
  ASSUME NEW l \in Loader, AtWork(l), Present(l), Merge(l), DOMAIN fed = Loader
  PROVE  StagedRight(l)'
<1>1. /\ stage[l] = "merge" /\ TempTable \subseteq DOMAIN TempsOf(l) /\ case' = case
      /\ Advance(l) /\ fed'[l] = TempsOf(l)
  BY DEF Merge, Present
<1>2. ASSUME NEW t \in TempTable
      PROVE  Fits(GoesToBcp(l, t), Wanted(l, t), Total(l, t), fed[l][t])'
  <2>1. PICK j \in DOMAIN CreateOrder : CreateOrder[j] = t
    BY Orders
  <2>2. Due(l, j) = Total(l, t)
    BY <1>1, <2>1 DEF Due
  <2>3. Fits(GoesToBcp(l, t), Wanted(l, t), Total(l, t), TempsOf(l)[t])
    BY <1>1, <2>1, <2>2 DEF AtWork, StagedRight, RowsRight, Filling
  <2> QED
    BY <1>1, <2>3, SameLoad
<1>3. FedRight(l)'
  BY <1>2 DEF FedRight
<1> QED
  BY <1>1, <1>3, GoesOnElsewhere

LEMMA EndRight ==
  ASSUME NEW l \in Loader, AtWork(l), StatementFails(l) \/ Kill(l)
  PROVE  StagedRight(l)'
<1>1. fed' = fed
  BY DEF StatementFails, Kill, history
<1>2. CASE StatementFails(l)
  BY <1>1, <1>2, RaisesFor, OutRight DEF StatementFails
<1>3. CASE Kill(l)
  <2>1. stage'[l] = "killed" /\ outcome' = outcome
    BY <1>3 DEF Kill, Go, AtWork, WellFormed
  <2> QED
    BY <1>1, <2>1, Elsewhere DEF AtWork, FedSame, Filling
<1> QED
  BY <1>2, <1>3

LEMMA NextBatch ==
  ASSUME NEW m \in Nat, NEW size \in Nat
  PROVE  m * size + size = (m + 1) * size
OBVIOUS

LEMMA BatchAdded ==
  ASSUME NEW l \in Loader, AtWork(l), Present(l), InsertBatch(l), NEW t, t = Current(l),
         ~Raises(l), NEW most, most = BatchSize(l, t), NEW total, total = Total(l, t)
  PROVE  /\ \A u \in DOMAIN TempsOf(l) \ {t} : TempsOf(l)'[u] = TempsOf(l)[u]
         /\ DOMAIN TempsOf(l)' = DOMAIN TempsOf(l)
         /\ IF offset[l] + most < total
            THEN /\ Fits(GoesToBcp(l, t), Wanted(l, t), offset[l] + most, TempsOf(l)'[t])
                 /\ offset'[l] = offset[l] + most
                 /\ UNCHANGED <<stage, step>>
            ELSE Fits(GoesToBcp(l, t), Wanted(l, t), total, TempsOf(l)'[t]) /\ Advance(l)
         /\ outcome' = outcome
<1>1. /\ stage[l] = "insert" /\ l \in DOMAIN case.loads /\ TempTable \subseteq DOMAIN TempsOf(l)
      /\ case' = case /\ Prefix(l)' = Prefix(l) /\ Prefix(l) \in DOMAIN temps
  BY Unstaged, SameLoad DEF InsertBatch, Present, AtWork, WellFormed
<1>2. t \in TempTable /\ step[l] \in DOMAIN CreateOrder /\ t = CreateOrder[step[l]]
  BY <1>1, AtAStep, Orders DEF AtWork, StepsOf, Current
<1> DEFINE batch == Batch(l, t)
           n == Len(batch)
           way == WayOf(case.link, Load(l).options, n, FileThreshold, probed[Prefix(l)], server)
           old == TempsOf(l)[t]
<1>3. /\ n > 0 /\ way # "raise" /\ (way = "executemany" => Complete(batch))
      /\ \E rows \in RowsWritten(case.link.dialect, way, Columns[t], batch, Defaults[t]) :
           temps' = [temps EXCEPT ![Prefix(l)][t] = @ \o rows]
      /\ IF offset[l] + most < total
         THEN offset' = [offset EXCEPT ![l] = @ + most] /\ UNCHANGED <<stage, step, missing>>
         ELSE Advance(l)
      /\ outcome' = outcome
  BY <1>1, <1>2, RaisesFor DEF InsertBatch, Exists, Total
<1>4. AtABatch(l, t)
  BY <1>1 DEF AtWork, StagedRight, BatchNext
<1>5. PICK o \in Nat : o = offset[l]
  BY <1>1, <1>2, <1>4, OffsetOf DEF AtWork
<1>6. PICK rows \in RowsWritten(case.link.dialect, way, Columns[t], batch, Defaults[t]) :
        temps' = [temps EXCEPT ![Prefix(l)][t] = @ \o rows]
  BY <1>3
<1>7. Adds(GoesToBcp(l, t), Wanted(l, t), o, n, rows)
  <2>1. WellFormed /\ l \in DOMAIN case.loads /\ t \in TempTable
    BY <1>1, <1>2 DEF AtWork
  <2> SUFFICES ASSUME NEW b, b = batch, NEW c, c = n, NEW known, known = probed[Prefix(l)],
                      NEW on, on = server, NEW w, w = way
               PROVE  Adds(GoesToBcp(l, t), Wanted(l, t), offset[l], c, rows)
    BY <1>5
  <2> HIDE DEF batch, n, way
  <2>2. /\ b = Batch(l, t) /\ c = Len(b) /\ c > 0 /\ w # "raise" /\ (w = "executemany" => Complete(b))
        /\ w = WayOf(case.link, Load(l).options, c, FileThreshold, known, on)
        /\ rows \in RowsWritten(case.link.dialect, w, Columns[t], b, Defaults[t])
    BY <1>3, <1>6 DEF batch, n, way
  <2> QED
    BY <1>4, <2>1, <2>2, BatchFits
<1>8. n \in Nat /\ n = IF o + most < total THEN most ELSE total - o
  <2>1. WellFormed /\ l \in DOMAIN case.loads /\ t \in TempTable
    BY <1>1, <1>2 DEF AtWork
  <2> QED
    BY <1>3, <1>4, <1>5, <2>1, BatchOf
<1>9. Fits(GoesToBcp(l, t), Wanted(l, t), o, old)
  <2>1. t \in DOMAIN TempsOf(l) /\ step[l] \in Nat
    BY <1>1, <1>2, Orders
  <2>2. ~(step[l] < step[l])
    BY <2>1
  <2>3. Due(l, step[l]) = o
    BY <1>1, <1>5, <2>2 DEF Due
  <2> QED
    BY <1>1, <1>2, <2>1, <2>3 DEF AtWork, StagedRight, RowsRight, Filling
<1> HIDE DEF batch, n, way
<1>10. Fits(GoesToBcp(l, t), Wanted(l, t), o + n, old \o rows)
  <2> SUFFICES ASSUME NEW c \in Nat, c = n, NEW before_, before_ = old, NEW bcp, bcp = GoesToBcp(l, t),
                      NEW wanted, wanted = Wanted(l, t)
               PROVE  Fits(bcp, wanted, o + c, before_ \o rows)
    BY <1>8
  <2> QED
    BY <1>3, <1>7, <1>9, FitsWith
<1>11. TempsOf(l)' = [TempsOf(l) EXCEPT ![t] = old \o rows] /\ t \in DOMAIN TempsOf(l)
  BY <1>1, <1>2, <1>6 DEF TempsOf
<1>12. /\ o + most < total => o + n = o + most
       /\ ~(o + most < total) => o + n = total
  <2>1. total \in Nat /\ most \in Nat
    BY <1>1, <1>2, RecordsOf DEF AtWork
  <2> QED
    BY <1>8, <2>1
<1>13. /\ DOMAIN TempsOf(l)' = DOMAIN TempsOf(l) /\ TempsOf(l)'[t] = old \o rows
       /\ \A u \in DOMAIN TempsOf(l) \ {t} : TempsOf(l)'[u] = TempsOf(l)[u]
  BY <1>11
<1>14. o + most < total => offset'[l] = o + most
  BY <1>3, <1>5 DEF AtWork
<1> QED
  BY <1>3, <1>5, <1>10, <1>12, <1>13, <1>14

LEMMA BcpRight ==
  ASSUME NEW l \in Loader, AtWork(l), BcpFails(l)
  PROVE  StagedRight(l)'
<1>1. fed' = fed /\ Raise(l, "bcp failed")
  BY DEF BcpFails
<1> QED
  BY <1>1, RaisesFor, OutRight

LEMMA BatchStaged ==
  ASSUME NEW l \in Loader, AtWork(l), Present(l), InsertBatch(l)
  PROVE  StagedRight(l)'
<1> SUFFICES ASSUME NEW t, t = Current(l) PROVE StagedRight(l)'
  OBVIOUS
<1>1. /\ stage[l] = "insert" /\ l \in DOMAIN case.loads /\ TempTable \subseteq DOMAIN TempsOf(l)
      /\ case' = case /\ fed' = fed
  BY DEF InsertBatch, Present, AtWork, WellFormed
<1>2. t \in TempTable /\ step[l] \in DOMAIN CreateOrder /\ t = CreateOrder[step[l]]
  BY <1>1, AtAStep, Orders DEF AtWork, StepsOf, Current
<1>3. CASE Raises(l)
  BY <1>1, <1>3, OutRight
<1>4. ASSUME ~Raises(l) PROVE StagedRight(l)'
  <2>1. /\ \A u \in DOMAIN TempsOf(l) \ {t} : TempsOf(l)'[u] = TempsOf(l)[u]
        /\ DOMAIN TempsOf(l)' = DOMAIN TempsOf(l)
        /\ IF offset[l] + BatchSize(l, t) < Total(l, t)
           THEN /\ Fits(GoesToBcp(l, t), Wanted(l, t), offset[l] + BatchSize(l, t), TempsOf(l)'[t])
                /\ offset'[l] = offset[l] + BatchSize(l, t)
                /\ UNCHANGED <<stage, step>>
           ELSE Fits(GoesToBcp(l, t), Wanted(l, t), Total(l, t), TempsOf(l)'[t]) /\ Advance(l)
        /\ outcome' = outcome
    BY <1>4, BatchAdded
  <2>2. FedSame(l)
    BY <1>1, <2>1 DEF FedSame
  <2>4. CASE ~(offset[l] + BatchSize(l, t) < Total(l, t))
    <3>1. Fits(GoesToBcp(l, t), Wanted(l, t), Total(l, t), TempsOf(l)[t])'
      BY <1>1, <2>1, <2>4, SameLoad
    <3> QED
      BY <1>1, <2>1, <2>2, <2>4, <3>1, GoesOnInserting
  <2>5. CASE offset[l] + BatchSize(l, t) < Total(l, t)
    <3>1. /\ stage'[l] = "insert" /\ step'[l] = step[l] /\ offset'[l] = offset[l] + BatchSize(l, t)
          /\ Fits(GoesToBcp(l, t), Wanted(l, t), offset'[l], TempsOf(l)'[t]) /\ Current(l)' = t
      BY <1>1, <2>1, <2>5 DEF Current, StepsOf
    <3>2. FedRight(l)'
      BY <1>1, <2>2, FedStill DEF AtWork, StagedRight
    <3>3. BatchNext(l)'
      <4>1. PICK m \in Nat : offset[l] = m * BatchSize(l, t)
        BY <1>1, <1>2, OffsetOf DEF AtWork, StagedRight, BatchNext
      <4>2. offset'[l] = (m + 1) * BatchSize(l, t)
        BY <1>1, <1>2, <3>1, <4>1, RecordsOf, NextBatch DEF AtWork
      <4>3. offset'[l] < Total(l, t)' /\ offset'[l] = (m + 1) * BatchSize(l, t)'
        BY <1>1, <2>5, <3>1, <4>2, SameLoad
      <4> QED
        BY <3>1, <4>3, m + 1 \in Nat DEF BatchNext, AtABatch
    <3>4. RowsRight(l)'
      <4> SUFFICES ASSUME NEW j \in DOMAIN CreateOrder, NEW u, u = CreateOrder[j]
                   PROVE  Fits(GoesToBcp(l, u), Wanted(l, u), Due(l, j), TempsOf(l)[u])'
        BY DEF RowsRight
      <4>1. CASE j = step[l]
        <5>1. u = t /\ Due(l, j)' = offset'[l]
          BY <1>2, <3>1, <4>1, Orders DEF Due
        <5> QED
          BY <1>1, <3>1, <5>1, SameLoad
      <4>2. CASE j # step[l]
        <5>1. u \in DOMAIN TempsOf(l) \ {t}
          BY <1>1, <1>2, <4>2, Orders
        <5>2. Due(l, j)' = Due(l, j)
          BY <1>1, <3>1, <4>2, SameLoad DEF Due
        <5>3. Fits(GoesToBcp(l, u), Wanted(l, u), Due(l, j), TempsOf(l)[u])
          BY <1>1, <5>1 DEF AtWork, StagedRight, RowsRight, Filling
        <5> QED
          BY <1>1, <2>1, <5>1, <5>2, <5>3, SameLoad
      <4> QED
        BY <4>1, <4>2
    <3> QED
      BY <3>1, <3>2, <3>3, <3>4 DEF StagedRight, Dropped
  <2> QED
    BY <2>4, <2>5
<1> QED
  BY <1>3, <1>4

-----------------------------------------------------------------------------
(***************************************************************************)
(* What the other loads do, and the theorem.                               *)
(***************************************************************************)
Touched(l) ==
  /\ DOMAIN offset' = Loader /\ DOMAIN fed' = Loader
  /\ \A j \in Loader \ {l} : offset'[j] = offset[j] /\ fed'[j] = fed[j]

LEMMA Touches ==
  ASSUME StagedInv, NEW l \in Loader,
         \/ Start(l) \/ Look(l) \/ CreateSchema(l) \/ CreateTarget(l) \/ CreateTemp(l) \/ DropTemp(l)
         \/ InsertBatch(l) \/ BcpFails(l) \/ SkipTable(l) \/ Merge(l) \/ StatementFails(l) \/ Kill(l)
  PROVE  Touched(l)
<1>1. /\ DOMAIN fed' = Loader
      /\ \A j \in Loader \ {l} : fed'[j] = fed[j]
  BY DEF Start, Look, CreateSchema, CreateTarget, CreateTemp, DropTemp, InsertBatch, BcpFails, SkipTable, Merge,
         StatementFails, Kill, history, StagedInv
<1>2. \/ offset' = offset \/ \E x : offset' = [offset EXCEPT ![l] = x]
  BY DEF Start, Look, CreateSchema, CreateTarget, CreateTemp, DropTemp, InsertBatch, BcpFails, SkipTable, Merge,
         StatementFails, Kill, Advance, Raise, ToCleanup, Go
<1> QED
  BY <1>1, <1>2 DEF Touched, StagedInv

LEMMA OtherRight ==
  ASSUME WellFormed, NEW l \in Loader, Orderly(l), Touched(l),
         NEW j \in DOMAIN case.loads \ {l}, StagedRight(j), Running(j) => TempsOf(j)' = TempsOf(j)
  PROVE  StagedRight(j)'
<1>1. j \in Loader \ {l} /\ case' = case
  BY CasesAssumption DEF WellFormed, Orderly, Tabled
<1>2. stage'[j] = stage[j] /\ step'[j] = step[j] /\ offset'[j] = offset[j] /\ FedSame(j)
  BY <1>1 DEF Orderly, Moves, OnlyMoves, Answered, Touched, FedSame
<1>3. CASE Running(j)
  BY <1>1, <1>2, <1>3, Settled
<1>4. CASE ~Running(j)
  <2>1. stage'[j] # "drop" /\ stage'[j] \notin Filling
    BY <1>2, <1>4 DEF Running, Working, Filling
  <2> QED
    BY <1>1, <1>2, <2>1, Elsewhere
<1> QED
  BY <1>3, <1>4

LEMMA StillStaged ==
  ASSUME WellFormed, StagedInv, NEW l \in Loader, Orderly(l), Touched(l), Apart(l), meddled \subseteq meddled',
         l \in DOMAIN case.loads /\ l \notin meddled' => StagedRight(l)'
  PROVE  StagedInv'
<1>1. case' = case
  BY DEF Orderly, Tabled
<1>2. ASSUME NEW j \in DOMAIN case.loads, j \notin meddled', j # l
      PROVE  StagedRight(j)'
  <2>1. StagedRight(j) /\ (Running(j) => TempsOf(j)' = TempsOf(j))
    BY <1>2 DEF StagedInv, Apart
  <2> QED
    BY <1>2, <2>1, OtherRight
<1> QED
  BY <1>1, <1>2 DEF StagedInv, Touched

LEMMA StagedStep ==
  WellFormed /\ Undisturbed /\ StagedInv /\ [Next]_vars => StagedInv'
<1> SUFFICES ASSUME WellFormed, Undisturbed, StagedInv, [Next]_vars PROVE StagedInv'
  OBVIOUS
<1>1. ASSUME NEW l \in Loader, Start(l) PROVE StagedInv'
  <2>1. Orderly(l) /\ Touched(l) /\ case' = case
    BY <1>1, StartOrderly, Touches DEF Start
  <2>2. Apart(l) /\ meddled \subseteq meddled'
    BY <1>1, MeddlesApart DEF Start, base
  <2>3. /\ stage'[l] \in {"schema", "drop"} /\ step'[l] = 1 /\ outcome'[l] # "ok"
    BY <1>1 DEF Start, Go, WellFormed
  <2>4. StagedRight(l)'
    BY <2>3 DEF StagedRight, Dropped, RowsRight, BatchNext, FedRight, Filling
  <2> QED
    BY <2>1, <2>2, <2>4, StillStaged
<1>2. ASSUME NEW l \in Loader,
             \/ Look(l) \/ CreateSchema(l) \/ CreateTarget(l) \/ CreateTemp(l) \/ DropTemp(l)
             \/ InsertBatch(l) \/ BcpFails(l) \/ SkipTable(l) \/ Merge(l) \/ StatementFails(l) \/ Kill(l)
      PROVE  StagedInv'
  <2>1. Running(l) /\ Orderly(l)
    <3>1. Orderly(l)
      BY <1>2, LookOrderly, CreateOrderly, TempOrderly, BatchOrderly, OtherOrderly
    <3>2. Running(l)
      BY <1>2 DEF Look, CreateSchema, CreateTarget, CreateTemp, DropTemp, InsertBatch, BcpFails, SkipTable, Merge,
                  StatementFails, Kill, Running, Working, Defines, WellFormed
    <3> QED
      BY <3>1, <3>2
  <2>2. Apart(l) /\ meddled \subseteq meddled' /\ case' = case
    BY <1>2, StepsApart
  <2>3. Touched(l)
    BY <1>2, Touches
  <2>4. ASSUME l \in DOMAIN case.loads, l \notin meddled' PROVE StagedRight(l)'
    <3>1. AtWork(l) /\ Present(l) /\ DOMAIN fed = Loader
      BY <2>1, <2>2, <2>4 DEF AtWork, StagedInv, Undisturbed
    <3> QED
      BY <1>2, <3>1, LookRight, CreateRight, TempRight, BatchStaged, BcpRight, SkipRight, MergeRight, EndRight
  <2> QED
    BY <2>1, <2>2, <2>3, <2>4, StillStaged
<1>3. CASE ChangeSetting \/ UNCHANGED vars \/ \E l \in Loader : InsertNothing(l)
  <2>1. UNCHANGED <<case, temps, stage, step, offset, outcome, fed, meddled>>
    BY <1>3 DEF ChangeSetting, InsertNothing, vars, base, where, history
  <2>2. \A l : TempsOf(l)' = TempsOf(l) /\ FedSame(l)
    BY <2>1 DEF TempsOf, Prefix, Load, FedSame
  <2>3. \A l \in DOMAIN case.loads : StagedRight(l) => StagedRight(l)'
    BY <2>1, <2>2, Settled
  <2> QED
    BY <2>1, <2>3 DEF StagedInv
<1> QED
  BY <1>1, <1>2, <1>3 DEF Next, LoaderStep

(***************************************************************************)
(* What the merge of a load reads is what its document holds, row for row, *)
(* for any tables, documents, batch sizes and backends, whatever a load    *)
(* that was killed had left, whichever way each batch went, and whatever   *)
(* fails; but for a table that goes to bcp, of which it always reads fewer *)
(* rows than the document holds.                                           *)
(***************************************************************************)
THEOREM StagedRows == Spec => []StagedWhole
<1> DEFINE IInv == WellFormed /\ Undisturbed /\ StagedInv
<1>1. Init => IInv
  <2> SUFFICES ASSUME Init PROVE Undisturbed /\ StagedInv
    BY WellFormedInit
  <2>1. ASSUME NEW l \in DOMAIN case.loads
        PROVE  Present(l) /\ Separate(l) /\ StagedRight(l)
    <3>1. l \in Loader
      BY CasesAssumption DEF Init
    <3>2. missing[l] = FALSE /\ stage[l] = "idle" /\ outcome[l] = "none"
      BY <3>1 DEF Init
    <3>3. StagedRight(l)
      BY <3>2 DEF StagedRight, Dropped, RowsRight, BatchNext, FedRight, Filling
    <3> QED
      BY <3>2, <3>3 DEF Present, Separate
  <2> QED
    BY <2>1 DEF Undisturbed, StagedInv, Init
<1>2. IInv /\ [Next]_vars => IInv'
  BY WellFormedSteps, UndisturbedStep, StagedStep
<1>3. IInv => StagedWhole
  <2> SUFFICES ASSUME IInv, NEW l \in DOMAIN case.loads, outcome[l] = "ok", l \notin meddled,
                      NEW t \in TempTable, NEW rows, rows = fed[l][t]
               PROVE  IF Records(l, t) # <<>> /\ GoesToBcp(l, t) THEN Len(rows) < Total(l, t)
                      ELSE /\ Len(rows) = Total(l, t)
                           /\ \A i \in DOMAIN Records(l, t) : \A k \in DOMAIN Defaults[t] :
                                rows[i][k] \in StagedAs(l, t, i, k)
    BY DEF StagedWhole, Total
  <2>1. Fits(GoesToBcp(l, t), Wanted(l, t), Total(l, t), rows)
    BY DEF StagedInv, StagedRight, FedRight
  <2>2. DOMAIN Records(l, t) = 1..Total(l, t) /\ Total(l, t) \in Nat
    BY RecordsOf
  <2>3. Records(l, t) # <<>> <=> Total(l, t) > 0
    BY <2>2, RecordsOf DEF Total
  <2>4. CASE Total(l, t) > 0 /\ GoesToBcp(l, t)
    BY <2>1, <2>3, <2>4 DEF Fits
  <2>5. CASE ~(Total(l, t) > 0 /\ GoesToBcp(l, t))
    <3>1. Right(Wanted(l, t), 0, rows) /\ Len(rows) = Total(l, t)
      BY <2>1, <2>5 DEF Fits
    <3>2. ASSUME NEW i \in 1..Total(l, t), NEW k \in DOMAIN Defaults[t]
          PROVE  rows[i][k] \in StagedAs(l, t, i, k)
      <4>1. /\ i \in Nat /\ 0 + i = i
            /\ DOMAIN Wanted(l, t)[i] = DOMAIN Defaults[t]
            /\ Wanted(l, t)[i][k] = StagedAs(l, t, i, k)
        BY <2>2 DEF Wanted
      <4>2. i \in 1..Len(rows) /\ k \in DOMAIN Wanted(l, t)[0 + i]
        BY <3>1, <4>1
      <4>3. rows[i][k] \in Wanted(l, t)[0 + i][k]
        BY <3>1, <4>2 DEF Right
      <4> QED
        BY <4>1, <4>3
    <3> QED
      BY <2>2, <2>3, <2>5, <3>1, <3>2
  <2> QED
    BY <2>4, <2>5
<1> HIDE DEF IInv
<1> QED
  BY <1>1, <1>2, <1>3, PTL DEF Spec
==============================================================================
