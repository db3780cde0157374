----------------------------- MODULE FlatProofs -----------------------------
(***************************************************************************)
(* The flat data, for any data model and whatever trees the parsers make:  *)
(* its keys resolve, its hashes are unique, and its records are those of   *)
(* the nodes, with their children.                                         *)
(***************************************************************************)
EXTENDS FlatData, DataLemmas, FiniteSetTheorems

(***************************************************************************)
(* Sequences, whatever is in them.                                         *)
(***************************************************************************)
IsSeq(s) == s \in Seq(Range(s))

LEMMA SeqIs ==
  ASSUME NEW K, NEW s \in Seq(K)
  PROVE  IsSeq(s) /\ Len(s) \in Nat /\ DOMAIN s = 1..Len(s) /\ (s = <<>> <=> Len(s) = 0)
<1>1. s \in [1..Len(s) -> Range(s)] /\ Len(s) \in Nat
  BY DEF Range
<1> QED
  BY <1>1, IsSequence DEF IsSeq

LEMMA SeqFacts ==
  ASSUME NEW s, IsSeq(s)
  PROVE  Len(s) \in Nat /\ DOMAIN s = 1..Len(s) /\ (s = <<>> <=> Len(s) = 0)
  BY SeqIs DEF IsSeq

LEMMA EmptySeqIs == IsSeq(<<>>) /\ Len(<<>>) = 0 /\ DOMAIN <<>> = 1..0 /\ DOMAIN <<>> = {}
<1>1. <<>> \in Seq({}) /\ Len(<<>>) = 0 /\ 1..0 = {}
  OBVIOUS
<1> QED
  BY <1>1, SeqIs

LEMMA Appended ==
  ASSUME NEW s, IsSeq(s), NEW e
  PROVE  /\ Len(s) \in Nat /\ DOMAIN s = 1..Len(s)
         /\ IsSeq(Append(s, e)) /\ Len(Append(s, e)) = Len(s) + 1 /\ DOMAIN Append(s, e) = 1..(Len(s) + 1)
         /\ Append(s, e) # <<>>
         /\ \A i \in 1..Len(s) : Append(s, e)[i] = s[i]
         /\ Append(s, e)[Len(s) + 1] = e
         /\ Range(Append(s, e)) = Range(s) \union {e}
<1>1. s \in Seq(Range(s) \union {e})
  BY DEF IsSeq
<1>2. /\ Len(s) \in Nat /\ DOMAIN s = 1..Len(s)
      /\ Append(s, e) \in Seq(Range(s) \union {e})
      /\ Len(Append(s, e)) = Len(s) + 1 /\ DOMAIN Append(s, e) = 1..(Len(s) + 1)
      /\ Append(s, e) # <<>>
      /\ \A i \in 1..Len(s) : Append(s, e)[i] = s[i]
      /\ Append(s, e)[Len(s) + 1] = e
  BY <1>1
<1>3. Range(Append(s, e)) = Range(s) \union {e}
  <2>1. ASSUME NEW x \in Range(Append(s, e)) PROVE x \in Range(s) \union {e}
    <3>1. PICK i \in 1..(Len(s) + 1) : x = Append(s, e)[i]
      BY <1>2 DEF Range
    <3>2. i \in 1..Len(s) \/ i = Len(s) + 1
      BY <1>2
    <3> QED
      BY <1>2, <3>1, <3>2 DEF Range
  <2>2. ASSUME NEW i \in 1..Len(s) PROVE s[i] \in Range(Append(s, e))
    <3>1. i \in 1..(Len(s) + 1) /\ Append(s, e)[i] = s[i]
      BY <1>2
    <3> QED
      BY <1>2, <3>1 DEF Range
  <2>3. e \in Range(Append(s, e))
    <3>1. Len(s) + 1 \in 1..(Len(s) + 1)
      BY <1>2
    <3> QED
      BY <1>2, <3>1 DEF Range
  <2>4. ASSUME NEW x \in Range(s) PROVE x \in Range(Append(s, e))
    <3>1. PICK i \in 1..Len(s) : x = s[i]
      BY <1>2 DEF Range
    <3> QED
      BY <2>2, <3>1
  <2> QED
    BY <2>1, <2>3, <2>4
<1>4. IsSeq(Append(s, e))
  BY <1>2, <1>3 DEF IsSeq
<1> QED
  BY <1>2, <1>3, <1>4

(***************************************************************************)
(* The last of a sequence taken away, or replaced.                         *)
(***************************************************************************)
LEMMA WithoutLast ==
  ASSUME NEW s, IsSeq(s), s # <<>>
  PROVE  /\ Len(s) \in Nat \ {0} /\ DOMAIN s = 1..Len(s) /\ Last(s) = s[Len(s)]
         /\ IsSeq(Front(s)) /\ Len(Front(s)) = Len(s) - 1 /\ DOMAIN Front(s) = 1..(Len(s) - 1)
         /\ \A i \in 1..(Len(s) - 1) : Front(s)[i] = s[i]
<1>1. s \in Seq(Range(s))
  BY DEF IsSeq
<1>2. Len(s) \in Nat \ {0} /\ DOMAIN s = 1..Len(s) /\ \A i \in 1..Len(s) : s[i] \in Range(s)
  BY <1>1 DEF Range
<1>3. Front(s) = [i \in 1..(Len(s) - 1) |-> s[i]]
  BY <1>1, <1>2 DEF Front
<1>4. Front(s) \in Seq(Range(s)) /\ Len(Front(s)) = Len(s) - 1 /\ DOMAIN Front(s) = 1..(Len(s) - 1)
  <2>1. Front(s) \in [1..(Len(s) - 1) -> Range(s)] /\ Len(s) - 1 \in Nat
    BY <1>2, <1>3
  <2> QED
    BY <2>1, IsSequence
<1> QED
  <2>1. IsSeq(Front(s))
    BY <1>4, SeqIs
  <2> QED
    BY <1>2, <1>3, <1>4, <2>1 DEF Last

LEMMA LastReplaced ==
  ASSUME NEW s, IsSeq(s), s # <<>>, NEW e
  PROVE  LET new == Append(Front(s), e)
         IN /\ IsSeq(new) /\ Len(new) = Len(s) /\ DOMAIN new = 1..Len(s) /\ new # <<>>
            /\ Len(s) \in Nat \ {0} /\ DOMAIN s = 1..Len(s)
            /\ \A i \in 1..(Len(s) - 1) : new[i] = s[i]
            /\ new[Len(s)] = e
  BY WithoutLast, Appended

-----------------------------------------------------------------------------
(***************************************************************************)
(* The keys that are linked to a key: a recursive function exists, so that *)
(* it is what its definition says.                                         *)
(***************************************************************************)
LinkKeys(links, key) == Linked(links, key)[Len(links)]

LEMMA LinkedDef ==
  ASSUME NEW links, IsSeq(links), NEW key
  PROVE  /\ Linked(links, key)[0] = <<>>
         /\ \A k \in 0..(Len(links) - 1) :
              Linked(links, key)[k + 1] = IF links[k + 1].self = key
                                          THEN Append(Linked(links, key)[k], links[k + 1].other)
                                          ELSE Linked(links, key)[k]
<1> DEFINE N == Len(links)
           Next1(g, k) == IF links[k].self = key THEN Append(g, links[k].other) ELSE g
           Is(g, n) == g = [i \in 0..n |-> IF i = 0 THEN <<>> ELSE Next1(g[i - 1], i)]
           S == {n \in Nat : \E g : Is(g, n)}
<1> HIDE DEF Next1
<1>1. 0 \in S
  <2>1. [k \in 0..0 |-> <<>>] = [k \in 0..0 |-> IF k = 0 THEN <<>> ELSE Next1([j \in 0..0 |-> <<>>][k - 1], k)]
    OBVIOUS
  <2> QED
    BY <2>1
<1>2. ASSUME NEW n \in Nat, n \in S PROVE n + 1 \in S
  <2>1. PICK g : Is(g, n)
    BY <1>2
  <2> DEFINE h == [k \in 0..(n + 1) |-> IF k = n + 1 THEN Next1(g[n], n + 1) ELSE g[k]]
  <2>2. ASSUME NEW k \in 0..(n + 1) PROVE h[k] = IF k = 0 THEN <<>> ELSE Next1(h[k - 1], k)
    <3>1. CASE k = n + 1
      BY <3>1
    <3>2. CASE k # n + 1
      <4>1. k \in 0..n /\ h[k] = g[k] /\ (k # 0 => k - 1 \in 0..(n + 1) /\ k - 1 # n + 1)
        BY <3>2
      <4> QED
        BY <2>1, <4>1
    <3> QED
      BY <3>1, <3>2
  <2>3. h = [k \in 0..(n + 1) |-> h[k]]
    OBVIOUS
  <2> HIDE DEF h
  <2>4. h = [k \in 0..(n + 1) |-> IF k = 0 THEN <<>> ELSE Next1(h[k - 1], k)]
    BY <2>2, <2>3
  <2> QED
    BY <2>4
<1>3. N \in Nat
  BY DEF IsSeq
<1>4. N \in S
  <2>1. Nat \subseteq S
    <3> HIDE DEF S
    <3> QED
      BY <1>1, <1>2, SetInduction
  <2> QED
    BY <1>3, <2>1
<1>5. Is(CHOOSE g : Is(g, N), N)
  <2>1. \E g : Is(g, N)
    BY <1>4
  <2> HIDE DEF Is
  <2> QED
    BY <2>1
<1>6. Linked(links, key) = CHOOSE g : Is(g, N)
  BY DEF Linked, Next1
<1>7. Is(Linked(links, key), N)
  <2> HIDE DEF Is
  <2> QED
    BY <1>5, <1>6
<1> HIDE DEF N
<1>8. \A k \in 0..N : Linked(links, key)[k] = IF k = 0 THEN <<>> ELSE Next1(Linked(links, key)[k - 1], k)
  BY <1>7
<1>9. Linked(links, key)[0] = <<>>
  BY <1>3, <1>8
<1>10. \A k \in 0..(N - 1) : Linked(links, key)[k + 1] = Next1(Linked(links, key)[k], k + 1)
  BY <1>3, <1>8
<1> QED
  BY <1>9, <1>10 DEF Next1, N

(***************************************************************************)
(* They are from the links; there are none when no link is of the key; a   *)
(* link more adds its other key to those of its own.                       *)
(***************************************************************************)
LEMMA LinkKeysTyped ==
  ASSUME NEW links, IsSeq(links), NEW key
  PROVE  IsSeq(LinkKeys(links, key)) /\ Len(LinkKeys(links, key)) \in Nat
<1> DEFINE n == Len(links)
           K == {links[i].other : i \in 1..n}
           g == Linked(links, key)
           S == {k \in Nat : k <= n => g[k] \in Seq(K)}
<1>1. n \in Nat
  BY DEF IsSeq
<1>2. 0 \in S
  <2>1. g[0] = <<>>
    BY LinkedDef
  <2>2. <<>> \in Seq(K)
    OBVIOUS
  <2>3. g[0] \in Seq(K)
    BY <2>1, <2>2
  <2> HIDE DEF g, K, n
  <2> QED
    BY <2>3
<1>3. ASSUME NEW k \in Nat, k \in S PROVE k + 1 \in S
  <2> SUFFICES ASSUME k + 1 <= n PROVE g[k + 1] \in Seq(K)
    OBVIOUS
  <2>1. k \in 0..(n - 1) /\ k + 1 \in 1..n /\ k <= n
    BY <1>1
  <2>2. links[k + 1].other \in K
    BY <2>1
  <2>3. g[k] \in Seq(K)
    BY <1>3, <2>1
  <2>4. g[k + 1] = IF links[k + 1].self = key THEN Append(g[k], links[k + 1].other) ELSE g[k]
    BY <2>1, LinkedDef
  <2> HIDE DEF K, g, n
  <2> QED
    BY <2>2, <2>3, <2>4
<1>4. Nat \subseteq S
  <2> HIDE DEF S
  <2> QED
    BY <1>2, <1>3, SetInduction
<1>5. LinkKeys(links, key) \in Seq(K)
  BY <1>1, <1>4 DEF LinkKeys
<1> QED
  BY <1>5, SeqIs

LEMMA LinkKeysNone ==
  ASSUME NEW links, IsSeq(links), NEW key, \A link \in Range(links) : link.self # key
  PROVE  LinkKeys(links, key) = <<>>
<1> DEFINE n == Len(links)
           g == Linked(links, key)
           S == {k \in Nat : k <= n => g[k] = <<>>}
<1>1. n \in Nat /\ DOMAIN links = 1..n
  BY DEF IsSeq
<1>2. 0 \in S
  BY LinkedDef
<1>3. ASSUME NEW k \in Nat, k \in S PROVE k + 1 \in S
  <2> SUFFICES ASSUME k + 1 <= n PROVE g[k + 1] = <<>>
    OBVIOUS
  <2>1. k \in 0..(n - 1) /\ k + 1 \in 1..n /\ k <= n
    BY <1>1
  <2>2. links[k + 1].self # key
    BY <1>1, <2>1 DEF Range
  <2>3. g[k] = <<>>
    BY <1>3, <2>1
  <2> QED
    BY <2>1, <2>2, <2>3, LinkedDef
<1>4. Nat \subseteq S
  <2> HIDE DEF S
  <2> QED
    BY <1>2, <1>3, SetInduction
<1> QED
  BY <1>1, <1>4 DEF LinkKeys

LEMMA LinkKeysAppend ==
  ASSUME NEW links, IsSeq(links), NEW link, NEW key
  PROVE  LinkKeys(Append(links, link), key) =
           IF link.self = key THEN Append(LinkKeys(links, key), link.other) ELSE LinkKeys(links, key)
<1> DEFINE n == Len(links)
           new == Append(links, link)
           g == Linked(links, key)
           h == Linked(new, key)
           S == {k \in Nat : k <= n => h[k] = g[k]}
<1>1. /\ n \in Nat /\ IsSeq(new) /\ Len(new) = n + 1
      /\ \A i \in 1..n : new[i] = links[i]
      /\ new[n + 1] = link
  BY Appended
<1>2. 0 \in S
  BY <1>1, LinkedDef
<1>3. ASSUME NEW k \in Nat, k \in S PROVE k + 1 \in S
  <2> SUFFICES ASSUME k + 1 <= n PROVE h[k + 1] = g[k + 1]
    OBVIOUS
  <2>1. k \in 0..(n - 1) /\ k \in 0..n /\ k + 1 \in 1..n /\ k <= n
    BY <1>1
  <2>2. h[k] = g[k] /\ new[k + 1] = links[k + 1]
    BY <1>1, <1>3, <2>1
  <2>3. g[k + 1] = IF links[k + 1].self = key THEN Append(g[k], links[k + 1].other) ELSE g[k]
    BY <2>1, LinkedDef
  <2>4. h[k + 1] = IF new[k + 1].self = key THEN Append(h[k], new[k + 1].other) ELSE h[k]
    <3>1. k \in 0..(Len(new) - 1)
      BY <1>1, <2>1
    <3> HIDE DEF new
    <3> QED
      BY <1>1, <3>1, LinkedDef
  <2> QED
    BY <2>2, <2>3, <2>4
<1>4. Nat \subseteq S
  <2> HIDE DEF S
  <2> QED
    BY <1>2, <1>3, SetInduction
<1>5. h[n] = g[n]
  BY <1>1, <1>4
<1>6. h[n + 1] = IF new[n + 1].self = key THEN Append(h[n], new[n + 1].other) ELSE h[n]
  <2>1. n \in 0..(Len(new) - 1)
    BY <1>1
  <2> HIDE DEF new, n
  <2> QED
    BY <1>1, <2>1, LinkedDef
<1> QED
  BY <1>1, <1>5, <1>6 DEF LinkKeys

-----------------------------------------------------------------------------
(***************************************************************************)
(* What the types of the model and of the nodes say.                       *)
(***************************************************************************)
RelAt(t) == {i \in DOMAIN Fields[t] : Fields[t][i].kind # "col"}

LEMMA FieldsTyped ==
  ASSUME ModelTyped
  PROVE  /\ model.root \in Type /\ model.root \in model.reused /\ model.reused \subseteq Type
         /\ \A t \in Type : \A f \in RelationFields(t) : f.kind \in {"rel1", "reln"} /\ f.other \in Type
         /\ \A t \in Type : \A i \in RelAt(t) : i \in Nat /\ Fields[t][i] \in RelationFields(t)
         /\ \A t \in Type : \A f \in RelationFields(t) : \E i \in RelAt(t) : f = Fields[t][i]
         /\ \A t \in Type : \A i, j \in RelAt(t) : Fields[t][i].name = Fields[t][j].name => i = j
         /\ \A t \in Type : \A f, g \in RelationFields(t) : f.name = g.name => f = g
         /\ \A t, u \in Type : \A f \in RelationFields(t), g \in RelationFields(u) :
              f.other = g.other /\ f.other \notin model.reused => t = u /\ f = g
<1> DEFINE Places == UNION {{t} \X {i \in DOMAIN Fields[t] : Fields[t][i].kind # "col"} : t \in Type}
           At(p) == Fields[p[1]][p[2]]
<1>1. ASSUME NEW t \in Type, NEW i \in RelAt(t) PROVE <<t, i>> \in Places
  BY <1>1 DEF RelAt
<1>2. /\ model.root \in model.reused /\ model.reused \subseteq Type
      /\ \A t \in Type : Fields[t] \in Seq(Range(Fields[t]))
      /\ \A p \in Places : At(p).kind \in {"rel1", "reln"} /\ At(p).other \in Type
      /\ \A p, q \in Places :
           p # q => /\ p[1] = q[1] => At(p).name # At(q).name
                    /\ At(p).other = At(q).other => At(p).other \in model.reused
  BY DEF ModelTyped
<1> HIDE DEF Places
<1>3. ASSUME NEW t \in Type, NEW i \in RelAt(t)
      PROVE  /\ Fields[t][i].kind \in {"rel1", "reln"} /\ Fields[t][i].other \in Type
             /\ i \in Nat /\ Fields[t][i] \in RelationFields(t)
  <2>1. At(<<t, i>>) = Fields[t][i]
    OBVIOUS
  <2>2. DOMAIN Fields[t] = 1..Len(Fields[t]) /\ Len(Fields[t]) \in Nat
    BY <1>2
  <2>3. i \in DOMAIN Fields[t] /\ Fields[t][i].kind # "col"
    BY DEF RelAt
  <2>4. Fields[t][i] \in RelationFields(t)
    BY <2>3 DEF RelationFields, Range
  <2>5. <<t, i>> \in Places
    BY <1>1
  <2>6. At(<<t, i>>).kind \in {"rel1", "reln"} /\ At(<<t, i>>).other \in Type
    BY <1>2, <2>5
  <2> QED
    BY <2>1, <2>2, <2>3, <2>4, <2>6
<1>4. ASSUME NEW t \in Type, NEW f \in RelationFields(t) PROVE \E i \in RelAt(t) : f = Fields[t][i]
  BY DEF RelationFields, Range, RelAt
<1>5. ASSUME NEW t \in Type, NEW i \in RelAt(t), NEW j \in RelAt(t), Fields[t][i].name = Fields[t][j].name
      PROVE  i = j
  <2>1. /\ At(<<t, i>>) = Fields[t][i] /\ At(<<t, j>>) = Fields[t][j] /\ <<t, i>>[1] = <<t, j>>[1]
        /\ <<t, i>> \in Places /\ <<t, j>> \in Places
    BY <1>1
  <2>2. <<t, i>> = <<t, j>>
    BY <1>2, <1>5, <2>1
  <2> QED
    BY <2>2
<1>6. ASSUME NEW t \in Type, NEW u \in Type, NEW i \in RelAt(t), NEW j \in RelAt(u),
             Fields[t][i].other = Fields[u][j].other, Fields[t][i].other \notin model.reused
      PROVE  t = u /\ i = j
  <2>1. /\ At(<<t, i>>) = Fields[t][i] /\ At(<<u, j>>) = Fields[u][j]
        /\ <<t, i>> \in Places /\ <<u, j>> \in Places
    BY <1>1
  <2>2. <<t, i>> = <<u, j>>
    BY <1>2, <1>6, <2>1
  <2> QED
    BY <2>2
<1>7. ASSUME NEW t \in Type, NEW f \in RelationFields(t) PROVE f.kind \in {"rel1", "reln"} /\ f.other \in Type
  BY <1>3, <1>4
<1>8. ASSUME NEW t \in Type, NEW f \in RelationFields(t), NEW g \in RelationFields(t), f.name = g.name PROVE f = g
  BY <1>4, <1>5, <1>8
<1>9. ASSUME NEW t \in Type, NEW u \in Type, NEW f \in RelationFields(t), NEW g \in RelationFields(u),
             f.other = g.other, f.other \notin model.reused
      PROVE  t = u /\ f = g
  <2>1. PICK i \in RelAt(t) : f = Fields[t][i]
    BY <1>4
  <2>2. PICK j \in RelAt(u) : g = Fields[u][j]
    BY <1>4
  <2> QED
    BY <1>6, <1>9, <2>1, <2>2
<1> QED
  BY <1>2, <1>3, <1>4, <1>5, <1>7, <1>8, <1>9

LEMMA ChildrenTyped ==
  ASSUME ModelTyped, NEW n, NodeTyped(n), NEW f \in RelationFields(n.type)
  PROVE  /\ IsSeq(Children(n, f)) /\ Len(Children(n, f)) \in Nat
         /\ DOMAIN Children(n, f) = 1..Len(Children(n, f))
         /\ f.kind = "rel1" => Len(Children(n, f)) <= 1
         /\ \A j \in 1..Len(Children(n, f)) :
              /\ Children(n, f)[j] \in nodes
              /\ Children(n, f)[j].type = f.other
              /\ Len(Children(n, f)[j].hash) < Len(n.hash)
              /\ Children(n, f)[j] = n.content[f.name][j]
         /\ f.name \in DOMAIN n.content =>
              /\ n.content[f.name] # <<>>
              /\ DOMAIN n.content[f.name] = 1..Len(n.content[f.name])
              /\ Len(Children(n, f)) = IF f.kind = "rel1" THEN 1 ELSE Len(n.content[f.name])
<1>1. CASE f.name \notin DOMAIN n.content
  <2>1. Children(n, f) = <<>>
    BY <1>1 DEF Children
  <2>2. \A j \in 1..0 : FALSE
    OBVIOUS
  <2> QED
    BY <1>1, <2>1, <2>2, EmptySeqIs
<1>2. CASE f.name \in DOMAIN n.content
  <2> DEFINE s == n.content[f.name]
  <2>1. s \in Seq(nodes) \ {<<>>} /\ \A c \in Range(s) : c.type = f.other /\ Len(c.hash) < Len(n.hash)
    BY <1>2 DEF NodeTyped
  <2>2. IsSeq(s) /\ Len(s) \in Nat /\ DOMAIN s = 1..Len(s) /\ s # <<>> /\ 1 \in 1..Len(s)
    BY <2>1, SeqIs
  <2>3. \A j \in 1..Len(s) : s[j] \in nodes /\ s[j].type = f.other /\ Len(s[j].hash) < Len(n.hash)
    BY <2>1, <2>2 DEF Range
  <2> HIDE DEF s
  <2>4. CASE f.kind = "rel1"
    <3>1. Children(n, f) = <<s[1]>>
      BY <1>2, <2>4 DEF Children, s
    <3>2. IsSeq(<<s[1]>>) /\ Len(<<s[1]>>) = 1 /\ <<s[1]>>[1] = s[1] /\ DOMAIN <<s[1]>> = 1..1 /\ 1..1 = {1}
      BY DEF IsSeq, Range
    <3> QED
      BY <1>2, <2>2, <2>3, <2>4, <3>1, <3>2 DEF s
  <2>5. CASE f.kind # "rel1"
    <3>1. Children(n, f) = s
      BY <1>2, <2>5 DEF Children, s
    <3> QED
      BY <1>2, <2>2, <2>3, <2>5, <3>1 DEF s
  <2> QED
    BY <2>4, <2>5
<1> QED
  BY <1>1, <1>2

LEMMA ChildIs ==
  ASSUME ModelTyped, NEW n, NodeTyped(n), NEW f \in RelationFields(n.type), NEW j \in 1..Len(Children(n, f))
  PROVE  Children(n, f)[j] = n.content[f.name][j]
  BY ChildrenTyped

-----------------------------------------------------------------------------
(***************************************************************************)
(* Flat data is a list of records per table and one of rows per join       *)
(* table.                                                                  *)
(***************************************************************************)
Shaped(d) ==
  /\ DOMAIN d = {"records", "joins", "nextPk"}
  /\ DOMAIN d.records = Type /\ DOMAIN d.joins = JoinTables /\ DOMAIN d.nextPk = Type
  /\ \A t \in Type : d.nextPk[t] \in Nat \ {0} /\ IsSeq(d.records[t])
  /\ \A j \in JoinTables : IsSeq(d.joins[j])

JoinOf(t, f) == <<t, f.name>>

LEMMA JoinTable ==
  ASSUME NEW t \in Type, NEW f \in RelationFields(t)
  PROVE  JoinOf(t, f) \in JoinTables
  BY DEF JoinTables, Relations, JoinOf

LEMMA LinksTyped ==
  ASSUME ModelTyped, NEW d, Shaped(d), NEW t \in Type, NEW f \in RelationFields(t)
  PROVE  IsSeq(Links(d, t, f))
<1>1. CASE f.other \in model.reused
  BY <1>1, JoinTable DEF Links, Shaped, JoinOf
<1>2. CASE f.other \notin model.reused
  <2> DEFINE s == d.records[f.other]
             LinkTo(i) == [self |-> s[i].parent, other |-> s[i].pk]
             K == {LinkTo(i) : i \in 1..Len(s)}
  <2>1. f.other \in Type
    BY FieldsTyped
  <2>2. Len(s) \in Nat /\ DOMAIN s = 1..Len(s)
    BY <2>1, SeqIs DEF Shaped, IsSeq
  <2>3. Links(d, t, f) = [i \in 1..Len(s) |-> LinkTo(i)]
    BY <1>2, <2>2 DEF Links
  <2>4. [i \in 1..Len(s) |-> LinkTo(i)] \in [1..Len(s) -> K]
    OBVIOUS
  <2> HIDE DEF s, K, LinkTo
  <2>5. Links(d, t, f) \in [1..Len(s) -> K]
    BY <2>3, <2>4
  <2>6. Links(d, t, f) \in Seq(K)
    BY <2>2, <2>5, IsSequence
  <2> QED
    BY <2>6, SeqIs
<1> QED
  BY <1>1, <1>2

(***************************************************************************)
(* Records are only added, and the keys linked to a key stay, or are one   *)
(* more for one relation.                                                  *)
(***************************************************************************)
Link(key, other) == [self |-> key, other |-> other]

MoreRecords(d, e) == \A t \in Type : Range(d.records[t]) \subseteq Range(e.records[t])

KeysKept(d, e, t, key) ==
  \A f \in RelationFields(t) : f.kind = "reln" => LinkKeys(Links(e, t, f), key) = LinkKeys(Links(d, t, f), key)

LinkAdded(d, e, t, f, key, other) ==
  \A u \in Type : \A g \in RelationFields(u) : g.kind = "reln" =>
    Links(e, u, g) = IF u = t /\ g = f THEN Append(Links(d, u, g), Link(key, other))
                     ELSE Links(d, u, g)

LEMMA HasRecordIs ==
  ASSUME NEW d, NEW t, NEW key, NEW hash
  PROVE  HasRecord(d, t, key, hash) <=> \E r \in Range(d.records[t]) : r.pk = key /\ r.hash = hash
  BY DEF HasRecord, RecordsAt

LEMMA HasRecordStays ==
  ASSUME NEW d, NEW e, MoreRecords(d, e), NEW t \in Type, NEW key, NEW hash, HasRecord(d, t, key, hash)
  PROVE  HasRecord(e, t, key, hash)
  BY HasRecordIs DEF MoreRecords

LEMMA OtherKeysKept ==
  ASSUME ModelTyped, NEW d, Shaped(d), NEW e, NEW t, NEW f, NEW key, NEW other,
         LinkAdded(d, e, t, f, key, other),
         NEW u \in Type, NEW own, ~(u = t /\ own = key)
  PROVE  KeysKept(d, e, u, own)
<1> SUFFICES ASSUME NEW g \in RelationFields(u), g.kind = "reln"
             PROVE  LinkKeys(Links(e, u, g), own) = LinkKeys(Links(d, u, g), own)
  BY DEF KeysKept
<1> DEFINE link == Link(key, other)
<1>1. IsSeq(Links(d, u, g)) /\ link.self = key
  BY LinksTyped DEF Link
<1>2. CASE u = t /\ g = f
  <2>1. Links(e, u, g) = Append(Links(d, u, g), link)
    BY <1>2 DEF LinkAdded
  <2>2. link.self # own
    BY <1>2, <1>1
  <2> HIDE DEF link
  <2> QED
    BY <1>1, <2>1, <2>2, LinkKeysAppend
<1>3. CASE ~(u = t /\ g = f)
  BY <1>3 DEF LinkAdded
<1> QED
  BY <1>2, <1>3

LEMMA ChildKeysIs ==
  ASSUME ModelTyped, NEW d, NEW t \in Type, NEW r, NEW f \in RelationFields(t)
  PROVE  /\ f.kind = "reln" => ChildKeys(d, t, r, f) = LinkKeys(Links(d, t, f), r.pk)
         /\ f.kind = "rel1" => ChildKeys(d, t, r, f) = IF f.name \in DOMAIN r.child THEN <<r.child[f.name]>> ELSE <<>>
         /\ f.kind \in {"rel1", "reln"}
  BY FieldsTyped DEF ChildKeys, LinkKeys

LEMMA ChildKeysTyped ==
  ASSUME ModelTyped, NEW d, Shaped(d), NEW t \in Type, NEW r, NEW f \in RelationFields(t)
  PROVE  LET keys == ChildKeys(d, t, r, f)
         IN IsSeq(keys) /\ Len(keys) \in Nat /\ DOMAIN keys = 1..Len(keys)
<1> DEFINE keys == ChildKeys(d, t, r, f)
<1>1. CASE f.kind = "reln"
  <2>1. IsSeq(keys)
    BY <1>1, ChildKeysIs, LinksTyped, LinkKeysTyped
  <2> QED
    BY <2>1, SeqFacts
<1>2. CASE f.kind = "rel1"
  <2>1. keys = <<r.child[f.name]>> \/ keys = <<>>
    BY <1>2, ChildKeysIs
  <2>2. IsSeq(keys)
    <3>1. CASE keys = <<>>
      BY <3>1, EmptySeqIs
    <3>2. CASE keys = <<r.child[f.name]>>
      <4>1. <<r.child[f.name]>> \in Seq({r.child[f.name]})
        OBVIOUS
      <4> QED
        BY <3>2, <4>1, SeqIs
    <3> QED
      BY <2>1, <3>1, <3>2
  <2> QED
    BY <2>2, SeqFacts
<1> QED
  BY <1>1, <1>2, ChildKeysIs

LEMMA ChildKeysKept ==
  ASSUME ModelTyped, NEW d, NEW e, NEW t \in Type, NEW r, KeysKept(d, e, t, r.pk), NEW f \in RelationFields(t)
  PROVE  ChildKeys(e, t, r, f) = ChildKeys(d, t, r, f)
  BY ChildKeysIs DEF KeysKept

LEMMA RecordForStays ==
  ASSUME ModelTyped, NEW d, NEW e, MoreRecords(d, e), NEW t \in Type, NEW r, NEW n,
         KeysKept(d, e, t, r.pk), RecordFor(d, t, r, n)
  PROVE  RecordFor(e, t, r, n)
<1>1. ASSUME NEW f \in RelationFields(t)
      PROVE  LET keys == ChildKeys(e, t, r, f) IN
             /\ Len(keys) = Len(Children(n, f))
             /\ \A j \in DOMAIN keys : HasRecord(e, f.other, keys[j], Children(n, f)[j].hash)
  <2> DEFINE keys == ChildKeys(d, t, r, f)
  <2>1. ChildKeys(e, t, r, f) = keys
    BY ChildKeysKept
  <2>2. /\ Len(keys) = Len(Children(n, f))
        /\ \A j \in DOMAIN keys : HasRecord(d, f.other, keys[j], Children(n, f)[j].hash)
    BY DEF RecordFor
  <2>3. f.other \in Type
    BY FieldsTyped
  <2> HIDE DEF keys
  <2> QED
    BY <2>1, <2>2, <2>3, HasRecordStays
<1> QED
  BY <1>1 DEF RecordFor

-----------------------------------------------------------------------------
(***************************************************************************)
(* How far a call is: for each relation it has the keys of the first       *)
(* children, and these are the records' that have the children's hashes;   *)
(* the others are to do.                                                   *)
(***************************************************************************)
KeysOf(d, c, f) == ChildKeys(d, c.node.type, [pk |-> c.key, child |-> c.child], f)

Left(d, c) ==
  LET F(i) == Fields[c.node.type][i]
  IN UNION {{i} \X ((Len(KeysOf(d, c, F(i))) + 1)..Len(Children(c.node, F(i)))) : i \in RelAt(c.node.type)}

Progress(d, c) ==
  /\ c.todo = Left(d, c)
  /\ \A f \in RelationFields(c.node.type) :
       /\ Len(KeysOf(d, c, f)) <= Len(Children(c.node, f))
       /\ \A j \in DOMAIN KeysOf(d, c, f) :
            HasRecord(d, f.other, KeysOf(d, c, f)[j], Children(c.node, f)[j].hash)

LEMMA LeftIs ==
  ASSUME NEW d, NEW c, NEW x
  PROVE  x \in Left(d, c) <=>
           \E i \in RelAt(c.node.type) :
             \E j \in (Len(KeysOf(d, c, Fields[c.node.type][i])) + 1)..Len(Children(c.node, Fields[c.node.type][i])) :
               x = <<i, j>>
  BY DEF Left

LEMMA KeysOfIs ==
  ASSUME ModelTyped, NEW d, NEW c, c.node.type \in Type, NEW f \in RelationFields(c.node.type)
  PROVE  /\ f.kind = "reln" => KeysOf(d, c, f) = LinkKeys(Links(d, c.node.type, f), c.key)
         /\ f.kind = "rel1" =>
              KeysOf(d, c, f) = IF f.name \in DOMAIN c.child THEN <<c.child[f.name]>> ELSE <<>>
         /\ f.kind \in {"rel1", "reln"}
<1> DEFINE r == [pk |-> c.key, child |-> c.child]
<1>1. r.pk = c.key /\ r.child = c.child
  OBVIOUS
<1>2. KeysOf(d, c, f) = ChildKeys(d, c.node.type, r, f)
  BY DEF KeysOf
<1> HIDE DEF r
<1> QED
  BY <1>1, <1>2, ChildKeysIs

LEMMA ProgressStays ==
  ASSUME ModelTyped, NEW d, NEW e, MoreRecords(d, e), NEW c, c.node.type \in Type,
         KeysKept(d, e, c.node.type, c.key), Progress(d, c)
  PROVE  Progress(e, c)
<1>1. ASSUME NEW f \in RelationFields(c.node.type) PROVE KeysOf(e, c, f) = KeysOf(d, c, f)
  BY KeysOfIs DEF KeysKept
<1>2. Left(e, c) = Left(d, c)
  <2>1. \A i \in RelAt(c.node.type) : Fields[c.node.type][i] \in RelationFields(c.node.type)
    BY FieldsTyped
  <2>2. \A x : x \in Left(e, c) <=> x \in Left(d, c)
    BY <1>1, <2>1, LeftIs
  <2> QED
    BY <2>2
<1>3. ASSUME NEW f \in RelationFields(c.node.type)
      PROVE  /\ Len(KeysOf(e, c, f)) <= Len(Children(c.node, f))
             /\ \A j \in DOMAIN KeysOf(e, c, f) :
                  HasRecord(e, f.other, KeysOf(e, c, f)[j], Children(c.node, f)[j].hash)
  <2>1. f.other \in Type
    BY FieldsTyped
  <2> QED
    BY <1>1, <2>1, HasRecordStays DEF Progress
<1> QED
  BY <1>2, <1>3 DEF Progress

(***************************************************************************)
(* A call that starts has all to do.                                       *)
(***************************************************************************)
ContentTyped(n) == \A f \in RelationFields(n.type) : f.name \in DOMAIN n.content => IsSeq(n.content[f.name])

LEMMA NoneDone ==
  ASSUME ModelTyped, NEW n, n.type \in Type, ContentTyped(n), NEW d, Shaped(d), NEW key, NEW parent, NEW place,
         \A f \in RelationFields(n.type) : \A link \in Range(Links(d, n.type, f)) : link.self # key
  PROVE  Progress(d, Call(n, key, parent, place))
<1> DEFINE c == Call(n, key, parent, place)
<1>1. c.node = n /\ c.key = key /\ c.todo = PlacesOf(n) /\ c.child = <<>>
  BY DEF Call
<1> HIDE DEF c
<1>2. ASSUME NEW f \in RelationFields(n.type) PROVE KeysOf(d, c, f) = <<>>
  <2>1. f.kind = "reln" => LinkKeys(Links(d, n.type, f), key) = <<>>
    BY LinksTyped, LinkKeysNone
  <2>2. f.name \notin DOMAIN c.child
    BY <1>1, EmptySeqIs
  <2> QED
    BY <1>1, <2>1, <2>2, KeysOfIs
<1>3. ASSUME NEW i \in RelAt(n.type)
      PROVE  LET f == Fields[n.type][i] IN
             1..Len(Children(n, f)) =
               IF f.name \notin DOMAIN n.content THEN {}
               ELSE IF f.kind = "rel1" THEN {1} ELSE DOMAIN n.content[f.name]
  <2> DEFINE f == Fields[n.type][i]
  <2>1. f \in RelationFields(n.type)
    BY FieldsTyped
  <2> HIDE DEF f
  <2>2. f.name \in DOMAIN n.content => DOMAIN n.content[f.name] = 1..Len(n.content[f.name])
    BY <2>1, SeqFacts DEF ContentTyped
  <2>3. Len(<<>>) = 0 /\ 1..0 = {} /\ \A x : Len(<<x>>) = 1
    OBVIOUS
  <2>4. 1..1 = {1}
    OBVIOUS
  <2>5. CASE f.name \notin DOMAIN n.content
    BY <2>3, <2>5 DEF Children, f
  <2>6. CASE f.name \in DOMAIN n.content /\ f.kind = "rel1"
    <3>1. Len(Children(n, f)) = 1
      BY <2>3, <2>6 DEF Children
    <3> QED
      BY <2>4, <2>6, <3>1 DEF f
  <2>7. CASE f.name \in DOMAIN n.content /\ f.kind # "rel1"
    BY <2>2, <2>7 DEF Children, f
  <2> QED
    BY <2>5, <2>6, <2>7
<1>4. PlacesOf(n) = Left(d, c)
  <2>1. \A x : x \in Left(d, c) <=> \E i \in RelAt(n.type) : \E j \in 1..Len(Children(n, Fields[n.type][i])) : x = <<i, j>>
    <3>1. \A i \in RelAt(n.type) : Fields[n.type][i] \in RelationFields(n.type)
      BY FieldsTyped
    <3>2. \A i \in RelAt(n.type) : Len(KeysOf(d, c, Fields[n.type][i])) + 1 = 1
      BY <1>2, <3>1
    <3>3. \A x : x \in Left(d, c) <=>
            \E i \in RelAt(n.type) :
              \E j \in (Len(KeysOf(d, c, Fields[n.type][i])) + 1)..Len(Children(n, Fields[n.type][i])) : x = <<i, j>>
      BY <1>1 DEF Left
    <3>4. ASSUME NEW i \in RelAt(n.type)
          PROVE  (Len(KeysOf(d, c, Fields[n.type][i])) + 1)..Len(Children(n, Fields[n.type][i]))
                   = 1..Len(Children(n, Fields[n.type][i]))
      BY <3>2
    <3> QED
      BY <3>3, <3>4
  <2>2. \A x : x \in PlacesOf(n) <=>
           \E i \in RelAt(n.type) : \E j :
             /\ Fields[n.type][i].name \in DOMAIN n.content
             /\ j \in IF Fields[n.type][i].kind = "rel1" THEN {1} ELSE DOMAIN n.content[Fields[n.type][i].name]
             /\ x = <<i, j>>
    BY DEF PlacesOf, RelAt
  <2>3. \A x : x \in PlacesOf(n) <=> x \in Left(d, c)
    BY <1>3, <2>1, <2>2
  <2> QED
    BY <2>3
<1>5. ASSUME NEW f \in RelationFields(n.type)
      PROVE  /\ Len(KeysOf(d, c, f)) <= Len(Children(n, f))
             /\ \A j \in DOMAIN KeysOf(d, c, f) : FALSE
  <2>1. Len(Children(n, f)) \in Nat
    <3>1. CASE f.name \notin DOMAIN n.content
      BY <3>1, EmptySeqIs DEF Children
    <3>2. CASE f.name \in DOMAIN n.content /\ f.kind = "rel1"
      BY <3>2 DEF Children
    <3>3. CASE f.name \in DOMAIN n.content /\ f.kind # "rel1"
      BY <3>3, SeqFacts DEF Children, ContentTyped
    <3> QED
      BY <3>1, <3>2, <3>3
  <2> QED
    BY <1>2, <2>1, EmptySeqIs
<1> QED
  BY <1>1, <1>4, <1>5 DEF Progress, c

(***************************************************************************)
(* A call that gets the key of a record with the hash of the next child.   *)
(***************************************************************************)
IsCall(c) == {"todo", "child"} \subseteq DOMAIN c

LEMMA GotIs ==
  ASSUME NEW c, IsCall(c), NEW p, NEW key
  PROVE  LET new == Got(c, p, key) IN
         /\ DOMAIN new = DOMAIN c
         /\ new.node = c.node /\ new.key = c.key /\ new.parent = c.parent /\ new.place = c.place
         /\ new.todo = c.todo \ {p}
         /\ FieldAt(c.node, p).kind # "rel1" => new.child = c.child
         /\ FieldAt(c.node, p).kind = "rel1" =>
              /\ FieldAt(c.node, p).name \in DOMAIN new.child /\ new.child[FieldAt(c.node, p).name] = key
              /\ \A k : k # FieldAt(c.node, p).name =>
                   /\ k \in DOMAIN new.child <=> k \in DOMAIN c.child
                   /\ k \in DOMAIN c.child => new.child[k] = c.child[k]
<1> DEFINE name == FieldAt(c.node, p).name
           merged == [k \in DOMAIN c.child \union {name} |-> IF k = name THEN key ELSE c.child[k]]
           new == Got(c, p, key)
<1>1. new = [c EXCEPT !.todo = @ \ {p}, !.child = IF FieldAt(c.node, p).kind = "rel1" THEN merged ELSE @]
  BY DEF Got
<1>2. /\ name \in DOMAIN merged /\ merged[name] = key
      /\ \A k : k # name => /\ k \in DOMAIN merged <=> k \in DOMAIN c.child
                            /\ k \in DOMAIN c.child => merged[k] = c.child[k]
  OBVIOUS
<1> HIDE DEF merged, new
<1>3. /\ DOMAIN new = DOMAIN c
      /\ new.node = c.node /\ new.key = c.key /\ new.parent = c.parent /\ new.place = c.place
      /\ new.todo = c.todo \ {p}
      /\ new.child = IF FieldAt(c.node, p).kind = "rel1" THEN merged ELSE c.child
  BY <1>1 DEF IsCall
<1> QED
  BY <1>2, <1>3 DEF new

LEMMA ProgressGot ==
  ASSUME ModelTyped, NEW d, Shaped(d), NEW e, MoreRecords(d, e),
         NEW c, IsCall(c), c.node.type \in Type, NodeTyped(c.node), Progress(d, c),
         NEW p \in c.todo, \A q \in c.todo : ~Sooner(c.node, q, p), NEW key,
         LinkAdded(d, e, c.node.type, FieldAt(c.node, p), c.key, key),
         HasRecord(e, FieldAt(c.node, p).other, key, ChildAt(c.node, p).hash)
  PROVE  Progress(e, Got(c, p, key))
<1> DEFINE t == c.node.type
           f == FieldAt(c.node, p)
           keys == KeysOf(d, c, f)
           kids == Children(c.node, f)
           n == Len(keys)
           new == Got(c, p, key)
<1>1. PICK i \in RelAt(t) : \E j \in (Len(KeysOf(d, c, Fields[t][i])) + 1)..Len(Children(c.node, Fields[t][i])) : p = <<i, j>>
  BY LeftIs DEF Progress
<1>2. PICK j \in (Len(KeysOf(d, c, Fields[t][i])) + 1)..Len(Children(c.node, Fields[t][i])) : p = <<i, j>>
  BY <1>1
<1>3. /\ f = Fields[t][i] /\ p[1] = i /\ p[2] = j
      /\ f \in RelationFields(t) /\ f.other \in Type /\ f.kind \in {"rel1", "reln"} /\ i \in Nat
  <2>1. f = Fields[t][i] /\ p[1] = i /\ p[2] = j
    BY <1>2 DEF FieldAt
  <2> HIDE DEF f
  <2> QED
    BY <2>1, FieldsTyped
<1>4. /\ n \in Nat /\ DOMAIN keys = 1..n /\ IsSeq(keys)
      /\ Len(kids) \in Nat /\ (f.kind = "rel1" => Len(kids) <= 1)
      /\ \A m \in 1..Len(kids) : kids[m] = c.node.content[f.name][m]
  <2> HIDE DEF f
  <2>1. /\ Len(kids) \in Nat /\ (f.kind = "rel1" => Len(kids) <= 1)
        /\ \A m \in 1..Len(kids) : kids[m] = c.node.content[f.name][m]
    <3>1. Len(kids) \in Nat /\ (f.kind = "rel1" => Len(kids) <= 1)
      BY <1>3, ChildrenTyped
    <3>2. ASSUME NEW m \in 1..Len(kids) PROVE kids[m] = c.node.content[f.name][m]
      <4> HIDE DEF n, keys, new
      <4>1. f \in RelationFields(c.node.type) /\ m \in 1..Len(Children(c.node, f))
        BY <1>3
      <4>2. Children(c.node, f)[m] = c.node.content[f.name][m]
        BY ONLY ModelTyped, NodeTyped(c.node), <4>1, ChildIs
      <4> QED
        BY <4>2
    <3> QED
      BY <3>1, <3>2
  <2>2. IsSeq(keys) /\ Len(keys) \in Nat /\ DOMAIN keys = 1..Len(keys)
    BY <1>3, ChildKeysTyped DEF KeysOf
  <2> QED
    BY <2>1, <2>2
<1>5. j \in (n + 1)..Len(kids)
  BY <1>2, <1>3
<1> HIDE DEF f, keys, kids, n
<1>6. j = n + 1 /\ n + 1 <= Len(kids)
  <2> SUFFICES ASSUME j # n + 1 PROVE FALSE
    BY <1>4, <1>5
  <2> DEFINE q == <<i, n + 1>>
  <2>1. n + 1 \in (n + 1)..Len(kids) /\ n + 1 < j
    BY <1>4, <1>5
  <2>2. q \in c.todo
    BY <1>3, <2>1, LeftIs DEF Progress, keys, kids, n
  <2>3. Sooner(c.node, q, p)
    <3>1. q[1] = i /\ q[2] = n + 1
      OBVIOUS
    <3>2. FieldAt(c.node, q) = f
      BY <1>3, <3>1 DEF FieldAt
    <3> HIDE DEF q
    <3> QED
      BY <1>3, <2>1, <3>1, <3>2 DEF Sooner, f
  <2> QED
    BY <2>2, <2>3
<1>7. /\ new.node = c.node /\ new.key = c.key /\ new.todo = c.todo \ {p}
      /\ f.kind # "rel1" => new.child = c.child
      /\ f.kind = "rel1" =>
           /\ f.name \in DOMAIN new.child /\ new.child[f.name] = key
           /\ \A k : k # f.name => /\ k \in DOMAIN new.child <=> k \in DOMAIN c.child
                                   /\ k \in DOMAIN c.child => new.child[k] = c.child[k]
  BY GotIs DEF f
<1> HIDE DEF new
<1>8. KeysOf(e, new, f) = Append(keys, key)
  <2>1. CASE f.kind = "reln"
    <3> DEFINE link == Link(c.key, key)
    <3>1. Links(e, t, f) = Append(Links(d, t, f), link)
      BY <1>3, <2>1 DEF LinkAdded, f
    <3>2. IsSeq(Links(d, t, f)) /\ link.self = c.key /\ link.other = key
      BY <1>3, LinksTyped DEF Link
    <3> HIDE DEF link
    <3>3. LinkKeys(Links(e, t, f), c.key) = Append(LinkKeys(Links(d, t, f), c.key), key)
      BY <3>1, <3>2, LinkKeysAppend
    <3>4. keys = LinkKeys(Links(d, t, f), c.key)
      BY <1>3, <2>1, KeysOfIs DEF keys
    <3>5. KeysOf(e, new, f) = LinkKeys(Links(e, t, f), c.key)
      BY <1>3, <1>7, <2>1, KeysOfIs
    <3> QED
      BY <3>3, <3>4, <3>5
  <2>2. CASE f.kind = "rel1"
    <3>1. n = 0 /\ keys = <<>>
      <4>1. n = 0
        BY <1>4, <1>6, <2>2
      <4> QED
        BY <1>4, <4>1, SeqFacts DEF n
    <3>2. KeysOf(e, new, f) = <<key>>
      BY <1>3, <1>7, <2>2, KeysOfIs
    <3> QED
      BY <3>1, <3>2
  <2> QED
    BY <1>3, <2>1, <2>2
<1>9. /\ Len(KeysOf(e, new, f)) = n + 1 /\ DOMAIN KeysOf(e, new, f) = 1..(n + 1)
      /\ \A m \in 1..n : KeysOf(e, new, f)[m] = keys[m]
      /\ KeysOf(e, new, f)[n + 1] = key
  BY <1>4, <1>8, Appended DEF n
<1>10. ASSUME NEW g \in RelationFields(t), g # f PROVE KeysOf(e, new, g) = KeysOf(d, c, g)
  <2>1. g.name # f.name /\ g.kind \in {"rel1", "reln"}
    BY <1>3, <1>10, FieldsTyped
  <2>2. CASE g.kind = "reln"
    <3>1. Links(e, t, g) = Links(d, t, g)
      BY <1>10, <2>2 DEF LinkAdded, f
    <3> QED
      BY <1>7, <2>2, <3>1, KeysOfIs
  <2>3. CASE g.kind = "rel1"
    <3>1. /\ g.name \in DOMAIN new.child <=> g.name \in DOMAIN c.child
          /\ g.name \in DOMAIN c.child => new.child[g.name] = c.child[g.name]
      BY <1>3, <1>7, <2>1
    <3>2. KeysOf(d, c, g) = IF g.name \in DOMAIN c.child THEN <<c.child[g.name]>> ELSE <<>>
      BY <2>3, KeysOfIs
    <3>3. KeysOf(e, new, g) = IF g.name \in DOMAIN new.child THEN <<new.child[g.name]>> ELSE <<>>
      BY <1>7, <2>3, KeysOfIs
    <3> QED
      BY <3>1, <3>2, <3>3
  <2> QED
    BY <2>1, <2>2, <2>3
<1>11. Left(e, new) = Left(d, c) \ {p}
  <2>1. ASSUME NEW x PROVE x \in Left(e, new) <=> x \in Left(d, c) /\ x # p
    <3>1. x \in Left(d, c) <=>
            \E k \in RelAt(t) :
              \E m \in (Len(KeysOf(d, c, Fields[t][k])) + 1)..Len(Children(c.node, Fields[t][k])) : x = <<k, m>>
      BY LeftIs
    <3>2. x \in Left(e, new) <=>
            \E k \in RelAt(t) :
              \E m \in (Len(KeysOf(e, new, Fields[t][k])) + 1)..Len(Children(c.node, Fields[t][k])) : x = <<k, m>>
      BY <1>7 DEF Left
    <3>3. ASSUME NEW k \in RelAt(t), k # i
          PROVE  KeysOf(e, new, Fields[t][k]) = KeysOf(d, c, Fields[t][k])
      <4>1. Fields[t][k] \in RelationFields(t) /\ Fields[t][k] # f
        BY <1>3, <3>3, FieldsTyped
      <4> QED
        BY <1>10, <4>1
    <3>4. ASSUME NEW m
          PROVE  m \in (Len(KeysOf(e, new, f)) + 1)..Len(kids)
                   <=> m \in (Len(keys) + 1)..Len(kids) /\ m # n + 1
      BY <1>4, <1>9 DEF n
    <3>5. ASSUME NEW k \in RelAt(t), NEW m, x = <<k, m>>
          PROVE  m \in (Len(KeysOf(e, new, Fields[t][k])) + 1)..Len(Children(c.node, Fields[t][k]))
                   <=> m \in (Len(KeysOf(d, c, Fields[t][k])) + 1)..Len(Children(c.node, Fields[t][k])) /\ x # p
      <4>1. x = p <=> k = i /\ m = n + 1
        BY <1>2, <1>6, <3>5
      <4>2. CASE k = i
        BY <1>3, <3>4, <4>1, <4>2 DEF keys, kids
      <4>3. CASE k # i
        BY <3>3, <4>1, <4>3
      <4> QED
        BY <4>2, <4>3
    <3> QED
      BY <3>1, <3>2, <3>5
  <2> QED
    BY <2>1
<1>12. ASSUME NEW g \in RelationFields(t)
       PROVE  /\ Len(KeysOf(e, new, g)) <= Len(Children(c.node, g))
              /\ \A m \in DOMAIN KeysOf(e, new, g) :
                   HasRecord(e, g.other, KeysOf(e, new, g)[m], Children(c.node, g)[m].hash)
  <2>1. /\ Len(KeysOf(d, c, g)) <= Len(Children(c.node, g))
        /\ \A m \in DOMAIN KeysOf(d, c, g) :
             HasRecord(e, g.other, KeysOf(d, c, g)[m], Children(c.node, g)[m].hash)
    <3>1. g.other \in Type
      BY FieldsTyped
    <3> QED
      BY <3>1, HasRecordStays DEF Progress
  <2>2. CASE g # f
    BY <1>10, <2>1, <2>2
  <2>3. CASE g = f
    <3>1. ChildAt(c.node, p) = kids[n + 1]
      <4>1. n + 1 \in 1..Len(kids)
        BY <1>4, <1>6
      <4> QED
        BY <1>3, <1>4, <1>6, <4>1 DEF ChildAt, f
    <3>2. HasRecord(e, f.other, key, kids[n + 1].hash)
      BY <3>1 DEF f
    <3>3. ASSUME NEW m \in 1..(n + 1) PROVE HasRecord(e, f.other, KeysOf(e, new, f)[m], kids[m].hash)
      <4>1. CASE m = n + 1
        BY <1>9, <3>2, <4>1
      <4>2. CASE m # n + 1
        <5>1. m \in 1..n
          BY <1>4, <4>2
        <5>2. HasRecord(e, f.other, keys[m], kids[m].hash)
          BY <1>4, <2>1, <2>3, <5>1 DEF keys, kids
        <5> QED
          BY <1>9, <5>1, <5>2
      <4> QED
        BY <4>1, <4>2
    <3> QED
      BY <1>6, <1>9, <2>3, <3>3 DEF kids
  <2> QED
    BY <2>2, <2>3
<1> QED
  BY <1>7, <1>11, <1>12 DEF Progress, new

(***************************************************************************)
(* A call that has nothing to do has the record of its node.               *)
(***************************************************************************)
LEMMA AllDone ==
  ASSUME ModelTyped, NEW d, Shaped(d), NEW c, c.node.type \in Type, NodeTyped(c.node), Progress(d, c), c.todo = {}
  PROVE  RecordFor(d, c.node.type, RecordOf(c), c.node)
<1> DEFINE t == c.node.type
           r == RecordOf(c)
<1>1. r.pk = c.key /\ r.hash = c.node.hash /\ r.columns = StoredColumns(c.node) /\ r.child = c.child
  BY DEF RecordOf
<1> HIDE DEF r
<1>2. ASSUME NEW f \in RelationFields(t)
      PROVE  LET keys == ChildKeys(d, t, r, f) IN
             /\ Len(keys) = Len(Children(c.node, f))
             /\ \A j \in DOMAIN keys : HasRecord(d, f.other, keys[j], Children(c.node, f)[j].hash)
  <2>1. ChildKeys(d, t, r, f) = KeysOf(d, c, f)
    BY <1>1, KeysOfIs, ChildKeysIs
  <2>2. PICK i \in RelAt(t) : f = Fields[t][i]
    BY FieldsTyped
  <2>3. Len(KeysOf(d, c, f)) \in Nat /\ Len(Children(c.node, f)) \in Nat
    BY ChildKeysTyped, ChildrenTyped DEF KeysOf
  <2>4. ~(Len(KeysOf(d, c, f)) < Len(Children(c.node, f)))
    <3> SUFFICES ASSUME Len(KeysOf(d, c, f)) < Len(Children(c.node, f)) PROVE FALSE
      OBVIOUS
    <3>1. Len(KeysOf(d, c, f)) + 1 \in (Len(KeysOf(d, c, f)) + 1)..Len(Children(c.node, f))
      BY <2>3
    <3>2. <<i, Len(KeysOf(d, c, f)) + 1>> \in Left(d, c)
      BY <2>2, <3>1, LeftIs
    <3> QED
      BY <3>2 DEF Progress
  <2>5. Len(KeysOf(d, c, f)) = Len(Children(c.node, f))
    BY <2>3, <2>4 DEF Progress
  <2> QED
    BY <2>1, <2>5 DEF Progress
<1> QED
  BY <1>1, <1>2 DEF RecordFor, r

-----------------------------------------------------------------------------
(***************************************************************************)
(* What the steps do to the flat data.                                     *)
(***************************************************************************)
WithKeyTaken(d, t) == [d EXCEPT !.nextPk[t] = @ + 1]
WithRecord(d, t, r) == [d EXCEPT !.records[t] = Append(@, r)]

LEMMA KeyTakenIs ==
  ASSUME NEW d, Shaped(d), NEW t \in Type
  PROVE  LET e == WithKeyTaken(d, t) IN
         /\ Shaped(e) /\ e.records = d.records /\ e.joins = d.joins
         /\ \A u \in Type : e.nextPk[u] = IF u = t THEN d.nextPk[u] + 1 ELSE d.nextPk[u]
<1> DEFINE e == WithKeyTaken(d, t)
<1>1. /\ DOMAIN e = DOMAIN d /\ e.records = d.records /\ e.joins = d.joins
      /\ e.nextPk = [d.nextPk EXCEPT ![t] = @ + 1]
  BY DEF WithKeyTaken, Shaped
<1> HIDE DEF e
<1>2. /\ DOMAIN e.nextPk = Type
      /\ \A u \in Type : e.nextPk[u] = IF u = t THEN d.nextPk[u] + 1 ELSE d.nextPk[u]
  BY <1>1 DEF Shaped
<1>3. \A u \in Type : e.nextPk[u] \in Nat \ {0}
  BY <1>2 DEF Shaped
<1> QED
  BY <1>1, <1>2, <1>3 DEF Shaped, e

RecordAdded(d, e, t, r) ==
  /\ Shaped(e) /\ e.nextPk = d.nextPk /\ e.joins = d.joins /\ MoreRecords(d, e)
  /\ e.records[t] = Append(d.records[t], r)
  /\ \A u \in Type : u # t => e.records[u] = d.records[u]
  /\ \A u \in Type : \A q : q \in Range(e.records[u]) <=> q \in Range(d.records[u]) \/ (u = t /\ q = r)

LEMMA AddedIs ==
  ASSUME NEW d, Shaped(d), NEW t \in Type, NEW r
  PROVE  RecordAdded(d, WithRecord(d, t, r), t, r)
<1> DEFINE e == WithRecord(d, t, r)
<1>1. /\ DOMAIN e = DOMAIN d /\ e.nextPk = d.nextPk /\ e.joins = d.joins
      /\ e.records = [d.records EXCEPT ![t] = Append(@, r)]
  BY DEF WithRecord, Shaped
<1> HIDE DEF e
<1>2. /\ DOMAIN e.records = Type
      /\ e.records[t] = Append(d.records[t], r)
      /\ \A u \in Type : u # t => e.records[u] = d.records[u]
  BY <1>1 DEF Shaped
<1>3. /\ \A u \in Type : IsSeq(d.records[u])
      /\ IsSeq(Append(d.records[t], r))
      /\ Range(Append(d.records[t], r)) = Range(d.records[t]) \union {r}
  BY Appended DEF Shaped
<1>4. \A u \in Type : IsSeq(e.records[u])
  BY <1>2, <1>3
<1>5. ASSUME NEW u \in Type, NEW q
      PROVE  q \in Range(e.records[u]) <=> q \in Range(d.records[u]) \/ (u = t /\ q = r)
  BY <1>2, <1>3
<1>6. MoreRecords(d, e)
  BY <1>5 DEF MoreRecords
<1>7. Shaped(e)
  BY <1>1, <1>2, <1>4 DEF Shaped
<1> QED
  BY <1>1, <1>2, <1>5, <1>6, <1>7 DEF RecordAdded, e

RowAdded(d, e, table, row) ==
  /\ Shaped(e) /\ e.records = d.records /\ e.nextPk = d.nextPk
  /\ e.joins[table] = Append(d.joins[table], row)
  /\ \A j \in JoinTables : j # table => e.joins[j] = d.joins[j]

LEMMA RowIs ==
  ASSUME NEW d, NEW c, NEW p, NEW key, ModelTyped, Shaped(d),
         c.node.type \in Type, FieldAt(c.node, p) \in RelationFields(c.node.type),
         FieldAt(c.node, p).kind = "reln", ChildAt(c.node, p).type \in model.reused
  PROVE  RowAdded(d, WithRow(d, c, p, key), JoinOf(c.node.type, FieldAt(c.node, p)), Link(c.key, key))
<1> DEFINE e == WithRow(d, c, p, key)
           f == FieldAt(c.node, p)
           j0 == JoinOf(c.node.type, f)
           row == Link(c.key, key)
<1>1. j0 \in JoinTables
  BY JoinTable
<1>2. e = [d EXCEPT !.joins[j0] = Append(@, row)]
  BY DEF WithRow, Link, JoinOf
<1> HIDE DEF e, f, j0, row
<1>3. /\ DOMAIN e = DOMAIN d /\ e.nextPk = d.nextPk /\ e.records = d.records
      /\ e.joins = [d.joins EXCEPT ![j0] = Append(@, row)]
  BY <1>2 DEF Shaped
<1>4. /\ DOMAIN e.joins = JoinTables
      /\ e.joins[j0] = Append(d.joins[j0], row)
      /\ \A j \in JoinTables : j # j0 => e.joins[j] = d.joins[j]
  BY <1>1, <1>3 DEF Shaped
<1>5. IsSeq(e.joins[j0])
  BY <1>1, <1>4, Appended DEF Shaped
<1>6. Shaped(e)
  BY <1>3, <1>4, <1>5 DEF Shaped
<1> QED
  BY <1>3, <1>4, <1>6 DEF RowAdded, e, f, j0, row

LEMMA NoRow ==
  ASSUME NEW d, NEW c, NEW p, NEW key,
         ~(FieldAt(c.node, p).kind = "reln" /\ ChildAt(c.node, p).type \in model.reused)
  PROVE  WithRow(d, c, p, key) = d
  BY DEF WithRow

LEMMA RowShape ==
  ASSUME NEW d, NEW c, NEW p, NEW key, ModelTyped, Shaped(d),
         c.node.type \in Type, FieldAt(c.node, p) \in RelationFields(c.node.type)
  PROVE  /\ Shaped(WithRow(d, c, p, key)) /\ MoreRecords(d, WithRow(d, c, p, key))
         /\ WithRow(d, c, p, key).records = d.records /\ WithRow(d, c, p, key).nextPk = d.nextPk
<1>1. CASE FieldAt(c.node, p).kind = "reln" /\ ChildAt(c.node, p).type \in model.reused
  BY <1>1, RowIs DEF RowAdded, MoreRecords
<1>2. CASE ~(FieldAt(c.node, p).kind = "reln" /\ ChildAt(c.node, p).type \in model.reused)
  BY <1>2, NoRow DEF MoreRecords
<1> QED
  BY <1>1, <1>2

(***************************************************************************)
(* The links that they add.                                                *)
(***************************************************************************)
LEMMA RowLinks ==
  ASSUME NEW d, NEW c, NEW p, NEW key, ModelTyped, Shaped(d),
         c.node.type \in Type, FieldAt(c.node, p) \in RelationFields(c.node.type),
         ChildAt(c.node, p).type = FieldAt(c.node, p).other, ChildAt(c.node, p).type \in model.reused
  PROVE  LinkAdded(d, WithRow(d, c, p, key), c.node.type, FieldAt(c.node, p), c.key, key)
<1> DEFINE e == WithRow(d, c, p, key)
           f == FieldAt(c.node, p)
           t == c.node.type
           row == Link(c.key, key)
<1>1. /\ e.records = d.records
      /\ f.kind = "reln" => /\ e.joins[JoinOf(t, f)] = Append(d.joins[JoinOf(t, f)], row)
                            /\ \A j \in JoinTables : j # JoinOf(t, f) => e.joins[j] = d.joins[j]
      /\ f.kind # "reln" => e.joins = d.joins
  <2>1. CASE f.kind = "reln"
    BY <2>1, RowIs DEF RowAdded
  <2>2. CASE f.kind # "reln"
    BY <2>2, NoRow
  <2> QED
    BY <2>1, <2>2
<1> HIDE DEF e, f, t, row
<1> SUFFICES ASSUME NEW u \in Type, NEW g \in RelationFields(u), g.kind = "reln"
             PROVE  Links(e, u, g) = IF u = t /\ g = f THEN Append(Links(d, u, g), row) ELSE Links(d, u, g)
  BY DEF LinkAdded, e, f, t, row
<1>2. CASE g.other \notin model.reused
  <2>1. ~(u = t /\ g = f)
    BY <1>2 DEF f
  <2> QED
    BY <1>1, <1>2, <2>1 DEF Links
<1>3. CASE g.other \in model.reused
  <2>1. Links(e, u, g) = e.joins[JoinOf(u, g)] /\ Links(d, u, g) = d.joins[JoinOf(u, g)]
    BY <1>3 DEF Links, JoinOf
  <2>2. JoinOf(u, g) \in JoinTables
    BY JoinTable
  <2>3. CASE u = t /\ g = f
    BY <1>1, <2>1, <2>3
  <2>4. CASE ~(u = t /\ g = f)
    <3>1. CASE f.kind = "reln"
      <4>1. JoinOf(u, g) # JoinOf(t, f)
        <5>1. CASE u # t
          BY <5>1 DEF JoinOf
        <5>2. CASE u = t
          <6>1. g.name # f.name
            BY <2>4, <5>2, FieldsTyped DEF f, t
          <6> QED
            BY <6>1 DEF JoinOf
        <5> QED
          BY <5>1, <5>2
      <4> QED
        BY <1>1, <2>1, <2>2, <2>4, <3>1, <4>1
    <3>2. CASE f.kind # "reln"
      BY <1>1, <2>1, <2>4, <3>2
    <3> QED
      BY <3>1, <3>2
  <2> QED
    BY <2>3, <2>4
<1> QED
  BY <1>2, <1>3

LEMMA ReusedRecordLinks ==
  ASSUME ModelTyped, NEW d, Shaped(d), NEW t \in model.reused, NEW r
  PROVE  \A u \in Type : \A g \in RelationFields(u) : Links(WithRecord(d, t, r), u, g) = Links(d, u, g)
<1> SUFFICES ASSUME NEW u \in Type, NEW g \in RelationFields(u)
             PROVE  Links(WithRecord(d, t, r), u, g) = Links(d, u, g)
  OBVIOUS
<1>1. t \in Type /\ g.other \in Type
  BY FieldsTyped
<1>2. /\ WithRecord(d, t, r).joins = d.joins
      /\ g.other # t => WithRecord(d, t, r).records[g.other] = d.records[g.other]
  BY <1>1, AddedIs DEF RecordAdded
<1>3. CASE g.other \in model.reused
  BY <1>2, <1>3 DEF Links
<1>4. CASE g.other \notin model.reused
  BY <1>2, <1>4 DEF Links
<1> QED
  BY <1>3, <1>4

LEMMA DuplicatedRecordLinks ==
  ASSUME ModelTyped, NEW d, Shaped(d), NEW t \in Type, NEW f \in RelationFields(t), f.other \notin model.reused, NEW r
  PROVE  LinkAdded(d, WithRecord(d, f.other, r), t, f, r.parent, r.pk)
<1> DEFINE e == WithRecord(d, f.other, r)
           link == Link(r.parent, r.pk)
<1> SUFFICES ASSUME NEW u \in Type, NEW g \in RelationFields(u)
             PROVE  Links(e, u, g) = IF u = t /\ g = f THEN Append(Links(d, u, g), link) ELSE Links(d, u, g)
  BY DEF LinkAdded
<1>1. f.other \in Type /\ g.other \in Type
  BY FieldsTyped
<1>2. /\ e.joins = d.joins
      /\ e.records[f.other] = Append(d.records[f.other], r)
      /\ \A v \in Type : v # f.other => e.records[v] = d.records[v]
  BY <1>1, AddedIs DEF RecordAdded
<1> HIDE DEF e
<1>3. CASE g.other # f.other
  <2>1. e.records[g.other] = d.records[g.other] /\ ~(u = t /\ g = f)
    BY <1>1, <1>2, <1>3
  <2> QED
    BY <1>2, <2>1 DEF Links
<1>4. CASE g.other = f.other
  <2>1. u = t /\ g = f
    BY <1>4, FieldsTyped
  <2> DEFINE s == d.records[f.other]
             LinkTo(q) == Link(q.parent, q.pk)
  <2>2. IsSeq(s) /\ e.records[f.other] = Append(s, r)
    BY <1>1, <1>2 DEF Shaped
  <2>3. /\ Len(s) \in Nat /\ DOMAIN s = 1..Len(s) /\ DOMAIN Append(s, r) = 1..(Len(s) + 1)
        /\ \A i \in 1..Len(s) : Append(s, r)[i] = s[i]
        /\ Append(s, r)[Len(s) + 1] = r
    BY <2>2, Appended
  <2>4. Links(d, t, f) = [i \in 1..Len(s) |-> LinkTo(s[i])]
    BY <2>3 DEF Links, Link
  <2>5. Links(e, t, f) = [i \in 1..(Len(s) + 1) |-> LinkTo(Append(s, r)[i])]
    BY <2>2, <2>3 DEF Links, Link
  <2> HIDE DEF s
  <2>6. IsSeq(Links(d, t, f)) /\ Len(Links(d, t, f)) = Len(s)
    BY <2>3, <2>4, LinksTyped
  <2> DEFINE new == Append(Links(d, t, f), link)
  <2>7. /\ DOMAIN new = 1..(Len(s) + 1) /\ IsSeq(new)
        /\ \A i \in 1..Len(s) : new[i] = Links(d, t, f)[i]
        /\ new[Len(s) + 1] = link
    BY <2>6, Appended
  <2>8. ASSUME NEW i \in 1..(Len(s) + 1) PROVE new[i] = Links(e, t, f)[i]
    <3>1. CASE i \in 1..Len(s)
      BY <2>3, <2>4, <2>5, <2>7, <3>1
    <3>2. CASE i = Len(s) + 1
      BY <2>3, <2>5, <2>7, <3>2
    <3>3. i \in 1..Len(s) \/ i = Len(s) + 1
      BY <2>3
    <3> QED
      BY <3>1, <3>2, <3>3
  <2>9. Links(e, t, f) = [i \in 1..(Len(s) + 1) |-> Links(e, t, f)[i]]
    BY <2>5
  <2>10. new = [i \in 1..(Len(s) + 1) |-> new[i]]
    BY <2>7 DEF IsSeq
  <2>11. Links(e, t, f) = new
    <3> HIDE DEF new
    <3> QED
      BY <2>8, <2>9, <2>10
  <2> QED
    BY <2>1, <2>11
<1> QED
  BY <1>3, <1>4

-----------------------------------------------------------------------------
(***************************************************************************)
(* The invariant, of flat data, calls in progress and loaded files.        *)
(*                                                                         *)
(* Keys: those of the records of a table, and of its calls in progress,    *)
(* are different, and have been given.                                     *)
(***************************************************************************)
HasPk(d, t, key) == \E r \in Range(d.records[t]) : r.pk = key
OpenAs(cs, t, key) == \E i \in DOMAIN cs : cs[i].node.type = t /\ cs[i].key = key

PksGiven(d) ==
  \A t \in Type :
    /\ \A r \in Range(d.records[t]) : r.pk \in Nat \ {NoKey} /\ r.pk < d.nextPk[t]
    /\ \A i, j \in DOMAIN d.records[t] : d.records[t][i].pk = d.records[t][j].pk => i = j

OpenKeys(d, cs) ==
  /\ \A i \in DOMAIN cs :
       /\ cs[i].key \in Nat \ {NoKey} /\ cs[i].key < d.nextPk[cs[i].node.type]
       /\ ~HasPk(d, cs[i].node.type, cs[i].key)
  /\ \A i, j \in DOMAIN cs : cs[i].node.type = cs[j].node.type /\ cs[i].key = cs[j].key => i = j

(***************************************************************************)
(* The stack: the first call is that of a root, the others are of the next *)
(* child of their caller.  Digests are shorter further up.                 *)
(***************************************************************************)
CalledBy(caller, c) ==
  /\ c.parent = caller.key
  /\ c.place \in caller.todo /\ \A q \in caller.todo : ~Sooner(caller.node, q, c.place)
  /\ c.node = ChildAt(caller.node, c.place)

Stacked(ns, cs) ==
  /\ IsSeq(cs)
  /\ \A i \in DOMAIN cs : cs[i].node \in ns /\ IsCall(cs[i])
  /\ cs # <<>> => cs[1].parent = NoKey /\ cs[1].node.type = model.root
  /\ \A i \in DOMAIN cs \ {1} : CalledBy(cs[i - 1], cs[i])
  /\ \A i, j \in DOMAIN cs : i < j => Len(cs[j].node.hash) < Len(cs[i].node.hash)

(***************************************************************************)
(* Hashes: of records once, and of calls not of records.                   *)
(***************************************************************************)
HashesIn(d) ==
  \A t \in model.reused : \A i, j \in DOMAIN d.records[t] :
    d.records[t][i].hash = d.records[t][j].hash => i = j

OpenHashes(d, cs) ==
  \A i \in DOMAIN cs : cs[i].node.type \in model.reused =>
    \A r \in Range(d.records[cs[i].node.type]) : r.hash # cs[i].node.hash

(***************************************************************************)
(* References: to records, or, by the children, to calls in progress.      *)
(***************************************************************************)
Refers(d, cs) ==
  \A t \in Type : \A f \in RelationFields(t) :
    /\ f.other \notin model.reused =>
         \A q \in Range(d.records[f.other]) : HasPk(d, t, q.parent) \/ OpenAs(cs, t, q.parent)
    /\ \A row \in Range(d.joins[JoinOf(t, f)]) :
         HasPk(d, f.other, row.other) /\ (HasPk(d, t, row.self) \/ OpenAs(cs, t, row.self))

Progressing(d, cs) == \A i \in DOMAIN cs : Progress(d, cs[i])

Complete(ns, d) == \A t \in Type : \A r \in Range(d.records[t]) : \E n \in ns : RecordFor(d, t, r, n)

FilesLoaded(d, cs, files) ==
  /\ IsSeq(files)
  /\ \A i \in DOMAIN files :
       \/ HasRecord(d, model.root, files[i].key, files[i].node.hash)
       \/ cs # <<>> /\ files[i].key = cs[1].key /\ files[i].node = cs[1].node

Good(ns, d, cs, files) ==
  /\ Shaped(d) /\ PksGiven(d) /\ OpenKeys(d, cs) /\ Stacked(ns, cs)
  /\ HashesIn(d) /\ OpenHashes(d, cs) /\ Refers(d, cs)
  /\ Progressing(d, cs) /\ Complete(ns, d) /\ FilesLoaded(d, cs, files)

(***************************************************************************)
(* What is said of the nodes and keys of the calls alone.                  *)
(***************************************************************************)
SameCalls(cs, new) ==
  /\ DOMAIN new = DOMAIN cs /\ (new = <<>> <=> cs = <<>>) /\ (cs # <<>> => 1 \in DOMAIN cs)
  /\ \A i \in DOMAIN cs : new[i].node = cs[i].node /\ new[i].key = cs[i].key

CallsFit(d, cs, files) == OpenKeys(d, cs) /\ OpenHashes(d, cs) /\ Refers(d, cs) /\ FilesLoaded(d, cs, files)

LEMMA SameCallsFit ==
  ASSUME NEW d, NEW cs, NEW new, NEW files, SameCalls(cs, new), CallsFit(d, cs, files)
  PROVE  CallsFit(d, new, files)
<1>1. /\ DOMAIN new = DOMAIN cs /\ (new = <<>> <=> cs = <<>>) /\ (cs # <<>> => 1 \in DOMAIN cs)
      /\ \A i \in DOMAIN cs : new[i].node = cs[i].node /\ new[i].key = cs[i].key
  BY DEF SameCalls
<1>2. OpenKeys(d, new)
  BY <1>1 DEF CallsFit, OpenKeys
<1>3. OpenHashes(d, new)
  BY <1>1 DEF CallsFit, OpenHashes
<1>4. Refers(d, new)
  <2>1. \A t, key : OpenAs(cs, t, key) => OpenAs(new, t, key)
    BY <1>1 DEF OpenAs
  <2> QED
    BY <2>1 DEF CallsFit, Refers
<1>5. FilesLoaded(d, new, files)
  BY <1>1 DEF CallsFit, FilesLoaded
<1> QED
  BY <1>2, <1>3, <1>4, <1>5 DEF CallsFit

LEMMA StackGot ==
  ASSUME NEW ns, NEW cs, NEW p, NEW key, Stacked(ns, cs), cs # <<>>
  PROVE  /\ Stacked(ns, Append(Front(cs), Got(Last(cs), p, key)))
         /\ SameCalls(cs, Append(Front(cs), Got(Last(cs), p, key)))
<1> DEFINE got == Got(Last(cs), p, key)
           new == Append(Front(cs), got)
           m == Len(cs)
<1>1. /\ IsSeq(cs)
      /\ \A i \in DOMAIN cs : cs[i].node \in ns /\ IsCall(cs[i])
      /\ cs[1].parent = NoKey /\ cs[1].node.type = model.root
      /\ \A i \in DOMAIN cs \ {1} : CalledBy(cs[i - 1], cs[i])
      /\ \A i, j \in DOMAIN cs : i < j => Len(cs[j].node.hash) < Len(cs[i].node.hash)
  BY DEF Stacked
<1>2. /\ IsSeq(new) /\ DOMAIN new = 1..m /\ new # <<>> /\ m \in Nat \ {0} /\ DOMAIN cs = 1..m
      /\ \A i \in 1..(m - 1) : new[i] = cs[i]
      /\ new[m] = got
  BY <1>1, LastReplaced
<1>3. /\ DOMAIN got = DOMAIN cs[m] /\ got.node = cs[m].node /\ got.key = cs[m].key
      /\ got.parent = cs[m].parent /\ got.place = cs[m].place
  <2>1. Last(cs) = cs[m]
    BY <1>1, WithoutLast
  <2>2. IsCall(cs[m])
    <3> HIDE DEF new, m
    <3> QED
      BY <1>1, <1>2
  <2> QED
    BY <2>1, <2>2, GotIs
<1> HIDE DEF new, got, m
<1>4. ASSUME NEW i \in 1..m
      PROVE  /\ new[i].node = cs[i].node /\ new[i].key = cs[i].key /\ DOMAIN new[i] = DOMAIN cs[i]
             /\ new[i].parent = cs[i].parent /\ new[i].place = cs[i].place
             /\ i # m => new[i] = cs[i]
  <2>1. CASE i = m
    BY <1>2, <1>3, <2>1
  <2>2. CASE i # m
    <3>1. i \in 1..(m - 1)
      BY <1>2, <2>2
    <3> QED
      BY <1>2, <3>1
  <2> QED
    BY <2>1, <2>2
<1>5. ASSUME NEW i \in 1..m \ {1} PROVE CalledBy(new[i - 1], new[i])
  <2>1. i - 1 \in 1..m /\ i - 1 # m
    BY <1>2
  <2>2. new[i - 1] = cs[i - 1]
    BY <1>4, <2>1
  <2>3. CalledBy(cs[i - 1], cs[i])
    BY <1>1, <1>2
  <2> QED
    BY <1>4, <2>2, <2>3 DEF CalledBy
<1>6. Stacked(ns, new)
  <2>1. 1 \in 1..m
    BY <1>2
  <2>2. \A i \in 1..m : new[i].node \in ns /\ IsCall(new[i])
    BY <1>1, <1>2, <1>4 DEF IsCall
  <2>3. new[1].parent = NoKey /\ new[1].node.type = model.root
    BY <1>1, <1>4, <2>1
  <2>4. \A i, j \in 1..m : i < j => Len(new[j].node.hash) < Len(new[i].node.hash)
    BY <1>1, <1>2, <1>4
  <2> QED
    BY <1>2, <1>5, <2>2, <2>3, <2>4 DEF Stacked
<1>7. SameCalls(cs, new)
  BY <1>2, <1>4 DEF SameCalls
<1> QED
  BY <1>6, <1>7 DEF new, got

LEMMA StackPop ==
  ASSUME NEW ns, NEW cs, Stacked(ns, cs), cs # <<>>
  PROVE  Stacked(ns, Front(cs))
<1> DEFINE new == Front(cs)
           m == Len(cs)
<1>1. /\ IsSeq(cs)
      /\ \A i \in DOMAIN cs : cs[i].node \in ns /\ IsCall(cs[i])
      /\ cs[1].parent = NoKey /\ cs[1].node.type = model.root
      /\ \A i \in DOMAIN cs \ {1} : CalledBy(cs[i - 1], cs[i])
      /\ \A i, j \in DOMAIN cs : i < j => Len(cs[j].node.hash) < Len(cs[i].node.hash)
  BY DEF Stacked
<1>2. /\ IsSeq(new) /\ Len(new) = m - 1 /\ DOMAIN new = 1..(m - 1) /\ m \in Nat \ {0} /\ DOMAIN cs = 1..m
      /\ \A i \in 1..(m - 1) : new[i] = cs[i]
  BY <1>1, WithoutLast
<1> HIDE DEF new, m
<1>3. new # <<>> => 1 \in 1..(m - 1)
  BY <1>2, SeqFacts
<1>4. ASSUME NEW i \in 1..(m - 1) \ {1} PROVE CalledBy(new[i - 1], new[i])
  <2>1. i \in 1..(m - 1) /\ i - 1 \in 1..(m - 1) /\ i \in 1..m \ {1}
    BY <1>2
  <2> QED
    BY <1>1, <1>2, <2>1
<1>5. \A i \in 1..(m - 1) : i \in 1..m /\ new[i] = cs[i]
  BY <1>2
<1>6. /\ \A i \in 1..(m - 1) : new[i].node \in ns /\ IsCall(new[i])
      /\ new # <<>> => new[1].parent = NoKey /\ new[1].node.type = model.root
      /\ \A i, j \in 1..(m - 1) : i < j => Len(new[j].node.hash) < Len(new[i].node.hash)
  BY <1>1, <1>2, <1>3, <1>5
<1> QED
  BY <1>2, <1>4, <1>6 DEF Stacked, new

LEMMA StackPush ==
  ASSUME NEW ns, NEW cs, NEW c, Stacked(ns, cs), c.node \in ns, IsCall(c),
         cs = <<>> => c.parent = NoKey /\ c.node.type = model.root,
         cs # <<>> => CalledBy(Last(cs), c) /\ Len(c.node.hash) < Len(Last(cs).node.hash),
         \A n \in ns : Len(n.hash) \in Nat
  PROVE  Stacked(ns, Append(cs, c))
<1> DEFINE new == Append(cs, c)
           m == Len(cs)
<1>1. /\ IsSeq(cs)
      /\ \A i \in DOMAIN cs : cs[i].node \in ns /\ IsCall(cs[i])
      /\ cs # <<>> => cs[1].parent = NoKey /\ cs[1].node.type = model.root
      /\ \A i \in DOMAIN cs \ {1} : CalledBy(cs[i - 1], cs[i])
      /\ \A i, j \in DOMAIN cs : i < j => Len(cs[j].node.hash) < Len(cs[i].node.hash)
  BY DEF Stacked
<1>2. /\ IsSeq(new) /\ DOMAIN new = 1..(m + 1) /\ new # <<>> /\ m \in Nat /\ DOMAIN cs = 1..m
      /\ \A i \in 1..m : new[i] = cs[i]
      /\ new[m + 1] = c
  BY <1>1, Appended
<1>3. cs = <<>> <=> m = 0
  BY <1>1, SeqFacts
<1>4. cs # <<>> => m \in 1..m /\ 1 \in 1..m /\ Last(cs) = cs[m]
  BY <1>1, WithoutLast
<1> HIDE DEF new, m
<1>5. \A i \in 1..(m + 1) : i = m + 1 \/ (i \in 1..m /\ i # m + 1)
  BY <1>2
<1>6. ASSUME NEW i \in 1..(m + 1) \ {1} PROVE CalledBy(new[i - 1], new[i])
  <2>1. CASE i = m + 1
    <3>1. i - 1 = m /\ cs # <<>>
      BY <1>2, <1>3, <2>1
    <3> QED
      BY <1>2, <1>4, <2>1, <3>1
  <2>2. CASE i # m + 1
    <3>1. i \in 1..m \ {1} /\ i - 1 \in 1..m
      BY <1>2, <2>2
    <3> QED
      BY <1>1, <1>2, <3>1
  <2> QED
    BY <2>1, <2>2
<1>7. /\ \A i \in 1..(m + 1) : new[i].node \in ns /\ IsCall(new[i])
      /\ new[1].parent = NoKey /\ new[1].node.type = model.root
  <2>1. \A i \in 1..(m + 1) : new[i].node \in ns /\ IsCall(new[i])
    BY <1>1, <1>2, <1>5
  <2>2. CASE cs = <<>>
    BY <1>2, <1>3, <2>1, <2>2
  <2>3. CASE cs # <<>>
    BY <1>1, <1>2, <1>4, <2>1, <2>3
  <2> QED
    BY <2>1, <2>2, <2>3
<1>8. ASSUME NEW i \in 1..(m + 1), NEW j \in 1..(m + 1), i < j PROVE Len(new[j].node.hash) < Len(new[i].node.hash)
  <2>1. i \in 1..m
    BY <1>2, <1>8
  <2>2. CASE j = m + 1
    <3>1. cs # <<>> /\ new[i] = cs[i] /\ new[j] = c
      BY <1>2, <1>3, <2>1, <2>2
    <3>2. CASE i = m
      BY <1>4, <3>1, <3>2
    <3>3. CASE i # m
      <4>1. i < m /\ m \in 1..m
        BY <1>2, <2>1, <3>3
      <4>2. Len(cs[m].node.hash) < Len(cs[i].node.hash) /\ Len(c.node.hash) < Len(cs[m].node.hash)
        BY <1>1, <1>2, <1>4, <2>1, <3>1, <4>1
      <4>3. /\ Len(cs[m].node.hash) \in Nat /\ Len(cs[i].node.hash) \in Nat /\ Len(c.node.hash) \in Nat
        BY <1>1, <1>2, <2>1, <4>1
      <4>4. \A x, y, z \in Nat : x < y /\ y < z => x < z
        OBVIOUS
      <4>5. Len(c.node.hash) < Len(cs[i].node.hash)
        BY <4>2, <4>3, <4>4
      <4> QED
        BY <3>1, <4>5
    <3> QED
      BY <3>2, <3>3
  <2>3. CASE j # m + 1
    <3>1. j \in 1..m
      BY <1>5, <2>3
    <3> QED
      BY <1>1, <1>2, <1>8, <2>1, <3>1
  <2> QED
    BY <2>2, <2>3
<1> QED
  BY <1>2, <1>6, <1>7, <1>8 DEF Stacked, new

-----------------------------------------------------------------------------
(***************************************************************************)
(* A call more, with a key that nothing refers to yet.                     *)
(***************************************************************************)
LEMMA NextKeyUnused ==
  ASSUME NEW d, NEW cs, NEW t, NEW key, PksGiven(d), OpenKeys(d, cs), t \in Type,
         d.nextPk[t] \in Nat, HasPk(d, t, key) \/ OpenAs(cs, t, key)
  PROVE  key # d.nextPk[t] /\ key \in Nat /\ key < d.nextPk[t]
<1>1. CASE HasPk(d, t, key)
  BY <1>1 DEF HasPk, PksGiven
<1>2. CASE OpenAs(cs, t, key)
  BY <1>2 DEF OpenAs, OpenKeys
<1> QED
  BY <1>1, <1>2

LEMMA NoLinkYet ==
  ASSUME NEW d, NEW cs, NEW t, NEW f, ModelTyped, Shaped(d), PksGiven(d), OpenKeys(d, cs), Refers(d, cs),
         t \in Type, f \in RelationFields(t)
  PROVE  \A link \in Range(Links(d, t, f)) : link.self # d.nextPk[t]
<1>1. d.nextPk[t] \in Nat
  BY DEF Shaped
<1> SUFFICES ASSUME NEW link \in Range(Links(d, t, f))
             PROVE  HasPk(d, t, link.self) \/ OpenAs(cs, t, link.self)
  BY <1>1, NextKeyUnused
<1>2. CASE f.other \in model.reused
  <2>1. Links(d, t, f) = d.joins[JoinOf(t, f)]
    BY <1>2 DEF Links, JoinOf
  <2> QED
    BY <2>1 DEF Refers
<1>3. CASE f.other \notin model.reused
  <2> DEFINE s == d.records[f.other]
  <2>1. Links(d, t, f) = [i \in DOMAIN s |-> [self |-> s[i].parent, other |-> s[i].pk]]
    BY <1>3 DEF Links
  <2>2. PICK i \in DOMAIN s : link = [self |-> s[i].parent, other |-> s[i].pk]
    BY <2>1 DEF Range
  <2>3. link.self = s[i].parent /\ s[i] \in Range(s)
    BY <2>2 DEF Range
  <2> QED
    BY <1>3, <2>3 DEF Refers
<1> QED
  BY <1>2, <1>3

LEMMA CallIs ==
  ASSUME NEW n, NEW key, NEW parent, NEW place
  PROVE  LET c == Call(n, key, parent, place) IN
         IsCall(c) /\ c.node = n /\ c.key = key /\ c.parent = parent /\ c.place = place
  BY DEF Call, IsCall

LEMMA SameDataStays ==
  ASSUME NEW d, NEW e, ModelTyped, Shaped(d), e.records = d.records, e.joins = d.joins
  PROVE  /\ MoreRecords(d, e)
         /\ \A t \in Type : \A key : KeysKept(d, e, t, key)
<1>1. \A t \in Type : \A f \in RelationFields(t) : Links(e, t, f) = Links(d, t, f)
  BY DEF Links
<1> QED
  BY <1>1 DEF MoreRecords, KeysKept

LEMMA PushKeeps ==
  ASSUME NEW ns, NEW d, NEW cs, NEW files, NEW n, NEW parent, NEW place,
         ModelTyped, Good(ns, d, cs, files),
         n \in ns, n.type \in Type, ContentTyped(n), Known(d, n) = {},
         \A m \in ns : Len(m.hash) \in Nat,
         \A c \in Range(cs) : c.node.type \in Type,
         cs = <<>> => parent = NoKey /\ n.type = model.root,
         cs # <<>> => /\ CalledBy(Last(cs), Call(n, d.nextPk[n.type], parent, place))
                      /\ Len(n.hash) < Len(Last(cs).node.hash)
  PROVE  Good(ns, WithKeyTaken(d, n.type), Append(cs, Call(n, d.nextPk[n.type], parent, place)), files)
<1> DEFINE t == n.type
           key == d.nextPk[t]
           c == Call(n, key, parent, place)
           e == WithKeyTaken(d, t)
           new == Append(cs, c)
           m == Len(cs)
<1>1. /\ Shaped(d) /\ PksGiven(d) /\ OpenKeys(d, cs) /\ Stacked(ns, cs)
      /\ HashesIn(d) /\ OpenHashes(d, cs) /\ Refers(d, cs)
      /\ Progressing(d, cs) /\ Complete(ns, d) /\ FilesLoaded(d, cs, files)
  BY DEF Good
<1>2. /\ Shaped(e) /\ e.records = d.records /\ e.joins = d.joins
      /\ \A u \in Type : e.nextPk[u] = IF u = t THEN d.nextPk[u] + 1 ELSE d.nextPk[u]
  BY <1>1, KeyTakenIs
<1>3. IsCall(c) /\ c.node = n /\ c.key = key /\ c.parent = parent /\ c.place = place
  BY CallIs
<1>4. \A u \in Type : d.nextPk[u] \in Nat \ {0}
  BY <1>1 DEF Shaped
<1>5. IsSeq(cs) /\ m \in Nat /\ DOMAIN cs = 1..m
  BY <1>1, SeqFacts DEF Stacked
<1>6. /\ IsSeq(new) /\ DOMAIN new = 1..(m + 1) /\ new # <<>>
      /\ \A i \in 1..m : new[i] = cs[i]
      /\ new[m + 1] = c
  BY <1>5, Appended
<1>7. \A i \in DOMAIN cs : cs[i].node.type \in Type
  BY DEF Range
<1>8. Stacked(ns, new)
  BY <1>1, <1>3, StackPush
<1>9. Progress(e, c)
  <2>1. \A f \in RelationFields(t) : \A link \in Range(Links(e, t, f)) : link.self # key
    <3>1. \A f \in RelationFields(t) : Links(e, t, f) = Links(d, t, f)
      BY <1>2 DEF Links
    <3> QED
      BY <1>1, <3>1, NoLinkYet
  <2> HIDE DEF e, key
  <2> QED
    BY <1>2, <2>1, NoneDone
<1> HIDE DEF e, c, new, m, key
<1>10. \A i \in 1..(m + 1) : (i \in 1..m /\ i # m + 1 /\ new[i] = cs[i]) \/ (i = m + 1 /\ new[i] = c)
  BY <1>5, <1>6
<1>11. \A u, k : HasPk(e, u, k) <=> HasPk(d, u, k)
  BY <1>2 DEF HasPk
<1>12. PksGiven(e)
  <2>1. ASSUME NEW u \in Type, NEW r \in Range(d.records[u]) PROVE r.pk \in Nat \ {NoKey} /\ r.pk < e.nextPk[u]
    <3>1. r.pk \in Nat \ {NoKey} /\ r.pk < d.nextPk[u]
      BY <1>1 DEF PksGiven
    <3> QED
      BY <1>2, <1>4, <3>1
  <2> QED
    BY <1>1, <1>2, <2>1 DEF PksGiven
<1>13. OpenKeys(e, new)
  <2>1. ASSUME NEW i \in 1..m
        PROVE  /\ cs[i].key \in Nat \ {NoKey} /\ cs[i].key < d.nextPk[cs[i].node.type]
               /\ cs[i].key < e.nextPk[cs[i].node.type]
               /\ ~HasPk(e, cs[i].node.type, cs[i].key)
               /\ cs[i].node.type = t => cs[i].key # key
    <3>1. /\ cs[i].key \in Nat \ {NoKey} /\ cs[i].key < d.nextPk[cs[i].node.type]
          /\ ~HasPk(d, cs[i].node.type, cs[i].key)
      BY <1>1, <1>5 DEF OpenKeys
    <3>2. cs[i].node.type \in Type
      BY <1>5, <1>7
    <3>3. cs[i].key < e.nextPk[cs[i].node.type]
      <4> DEFINE u == cs[i].node.type
      <4>1. u \in Type /\ cs[i].key \in Nat /\ cs[i].key < d.nextPk[u]
        BY <3>1, <3>2
      <4> HIDE DEF u
      <4>2. d.nextPk[u] \in Nat /\ (e.nextPk[u] = d.nextPk[u] + 1 \/ e.nextPk[u] = d.nextPk[u])
        BY <1>2, <1>4, <4>1
      <4>3. cs[i].key < e.nextPk[u]
        BY <4>1, <4>2
      <4> QED
        BY <4>3 DEF u
    <3>4. cs[i].node.type = t => cs[i].key # key
      BY <1>4, <3>1, <3>2 DEF key
    <3> QED
      BY <1>11, <3>1, <3>3, <3>4
  <2>2. /\ key \in Nat \ {NoKey} /\ key < e.nextPk[t] /\ ~HasPk(e, t, key)
    <3>1. key \in Nat \ {NoKey} /\ key < e.nextPk[t]
      BY <1>2, <1>4 DEF key, NoKey
    <3>2. ~HasPk(d, t, key)
      BY <1>1, <1>4, NextKeyUnused DEF key
    <3> QED
      BY <1>11, <3>1, <3>2
  <2>3. ASSUME NEW i \in 1..(m + 1)
        PROVE  /\ new[i].key \in Nat \ {NoKey} /\ new[i].key < e.nextPk[new[i].node.type]
               /\ ~HasPk(e, new[i].node.type, new[i].key)
    BY <1>3, <1>10, <2>1, <2>2
  <2>4. ASSUME NEW i \in 1..(m + 1), NEW j \in 1..(m + 1), new[i].node.type = new[j].node.type, new[i].key = new[j].key
        PROVE  i = j
    <3>1. CASE i \in 1..m /\ j \in 1..m
      <4>1. new[i] = cs[i] /\ new[j] = cs[j]
        BY <1>6, <3>1
      <4> QED
        BY <1>1, <1>5, <2>4, <3>1, <4>1 DEF OpenKeys
    <3>2. CASE i = m + 1 /\ j \in 1..m
      BY <1>3, <1>6, <2>1, <2>4, <3>2
    <3>3. CASE j = m + 1 /\ i \in 1..m
      BY <1>3, <1>6, <2>1, <2>4, <3>3
    <3> QED
      BY <1>10, <3>1, <3>2, <3>3
  <2> QED
    BY <1>6, <2>3, <2>4 DEF OpenKeys
<1>14. HashesIn(e)
  BY <1>1, <1>2 DEF HashesIn
<1>15. OpenHashes(e, new)
  <2>1. t \in model.reused => \A r \in Range(e.records[t]) : r.hash # n.hash
    BY <1>2 DEF Known
  <2> SUFFICES ASSUME NEW i \in 1..(m + 1), new[i].node.type \in model.reused, NEW r \in Range(e.records[new[i].node.type])
               PROVE  r.hash # new[i].node.hash
    BY <1>6 DEF OpenHashes
  <2>2. CASE new[i] = c
    BY <1>3, <2>1, <2>2
  <2>3. CASE i \in 1..m /\ new[i] = cs[i]
    BY <1>1, <1>2, <1>5, <2>3 DEF OpenHashes
  <2> QED
    BY <1>10, <2>2, <2>3
<1>16. Refers(e, new)
  <2>1. \A u, k : OpenAs(cs, u, k) => OpenAs(new, u, k)
    <3>1. \A i \in 1..m : i \in 1..(m + 1)
      BY <1>5
    <3> QED
      BY <1>5, <1>6, <3>1 DEF OpenAs
  <2> QED
    BY <1>1, <1>2, <1>11, <2>1 DEF Refers
<1>17. MoreRecords(d, e) /\ \A u \in Type : \A k : KeysKept(d, e, u, k)
  BY <1>1, <1>2, SameDataStays
<1>18. Progressing(e, new)
  <2> SUFFICES ASSUME NEW i \in 1..(m + 1) PROVE Progress(e, new[i])
    BY <1>6 DEF Progressing
  <2>1. CASE i \in 1..m /\ new[i] = cs[i]
    <3>1. cs[i].node.type \in Type /\ Progress(d, cs[i])
      BY <1>1, <1>5, <1>7, <2>1 DEF Progressing
    <3> QED
      BY <1>17, <2>1, <3>1, ProgressStays
  <2>2. CASE new[i] = c
    BY <1>9, <2>2
  <2> QED
    BY <1>10, <2>1, <2>2
<1>19. Complete(ns, e)
  <2> SUFFICES ASSUME NEW u \in Type, NEW r \in Range(d.records[u]) PROVE \E x \in ns : RecordFor(e, u, r, x)
    BY <1>2 DEF Complete
  <2>1. PICK x \in ns : RecordFor(d, u, r, x)
    BY <1>1 DEF Complete
  <2> QED
    BY <1>17, <2>1, RecordForStays
<1>20. FilesLoaded(e, new, files)
  <2>1. cs # <<>> => new[1] = cs[1]
    BY <1>5, <1>6, SeqFacts DEF m
  <2>2. \A u, k, h : HasRecord(d, u, k, h) => HasRecord(e, u, k, h)
    BY <1>2 DEF HasRecord, RecordsAt
  <2> QED
    BY <1>1, <1>6, <2>1, <2>2 DEF FilesLoaded
<1> QED
  BY <1>2, <1>8, <1>12, <1>13, <1>14, <1>15, <1>16, <1>18, <1>19, <1>20 DEF Good, e, new, c, key

-----------------------------------------------------------------------------
(***************************************************************************)
(* A call that gets the key of a child.                                    *)
(***************************************************************************)
NodesTyped == \A n \in nodes : NodeTyped(n)

LEMMA PlaceIs ==
  ASSUME NEW d, NEW c, NEW p, ModelTyped, c.node.type \in Type, NodeTyped(c.node), Shaped(d), Progress(d, c), p \in c.todo
  PROVE  /\ FieldAt(c.node, p) \in RelationFields(c.node.type)
         /\ ChildAt(c.node, p) \in nodes /\ ChildAt(c.node, p).type = FieldAt(c.node, p).other
         /\ Len(ChildAt(c.node, p).hash) < Len(c.node.hash)
<1> DEFINE n == c.node
           t == n.type
           f == FieldAt(n, p)
           kids == Children(n, f)
<1>0. PICK i \in RelAt(t) : \E j \in (Len(KeysOf(d, c, Fields[t][i])) + 1)..Len(Children(n, Fields[t][i])) : p = <<i, j>>
  BY LeftIs DEF Progress
<1>1. PICK j \in (Len(KeysOf(d, c, Fields[t][i])) + 1)..Len(Children(n, Fields[t][i])) : p = <<i, j>>
  BY <1>0
<1>2. f = Fields[t][i] /\ p[2] = j
  BY <1>1 DEF FieldAt
<1>3. Fields[t][i] \in RelationFields(t)
  BY FieldsTyped
<1>4. Len(KeysOf(d, c, Fields[t][i])) \in Nat
  BY <1>3, ChildKeysTyped DEF KeysOf
<1> HIDE DEF f
<1>5. j \in 1..Len(kids)
  <2>1. Len(kids) \in Nat
    BY <1>2, <1>3, ChildrenTyped
  <2> QED
    BY <1>1, <1>2, <1>4, <2>1
<1> HIDE DEF n, kids
<1>6. f \in RelationFields(n.type) /\ NodeTyped(n) /\ j \in 1..Len(Children(n, f))
  BY <1>2, <1>3, <1>5 DEF n, kids
<1>7. /\ Children(n, f)[j] \in nodes /\ Children(n, f)[j].type = f.other
      /\ Len(Children(n, f)[j].hash) < Len(n.hash)
  BY <1>6, ChildrenTyped
<1>8. ChildAt(n, p) = Children(n, f)[j]
  BY <1>2, <1>6, ChildIs DEF ChildAt, f
<1> QED
  BY <1>6, <1>7, <1>8 DEF n, f

LEMMA GotKeeps ==
  ASSUME NEW d, NEW e, NEW cs, NEW p, NEW key,
         ModelTyped, NodesTyped, Shaped(d), MoreRecords(d, e),
         Stacked(nodes, cs), cs # <<>>, OpenKeys(d, cs), Progressing(d, cs),
         p \in Last(cs).todo, \A q \in Last(cs).todo : ~Sooner(Last(cs).node, q, p),
         LinkAdded(d, e, Last(cs).node.type, FieldAt(Last(cs).node, p), Last(cs).key, key),
         HasRecord(e, FieldAt(Last(cs).node, p).other, key, ChildAt(Last(cs).node, p).hash)
  PROVE  Progressing(e, Append(Front(cs), Got(Last(cs), p, key)))
<1> DEFINE c == Last(cs)
           got == Got(c, p, key)
           new == Append(Front(cs), got)
           m == Len(cs)
<1>1. /\ IsSeq(cs)
      /\ \A i \in DOMAIN cs : cs[i].node \in nodes /\ IsCall(cs[i])
  BY DEF Stacked
<1>2. /\ DOMAIN new = 1..m /\ m \in Nat \ {0} /\ DOMAIN cs = 1..m
      /\ \A i \in 1..(m - 1) : new[i] = cs[i]
      /\ new[m] = got
      /\ c = cs[m]
  BY <1>1, LastReplaced, WithoutLast
<1> HIDE DEF new, m
<1>3. \A i \in 1..m : /\ cs[i].node.type \in Type /\ NodeTyped(cs[i].node) /\ IsCall(cs[i])
                      /\ Progress(d, cs[i])
  BY <1>1, <1>2 DEF NodesTyped, NodeTyped, Progressing
<1>4. m \in 1..m
  BY <1>2
<1>5. Progress(e, got)
  <2>1. c.node.type \in Type /\ NodeTyped(c.node) /\ IsCall(c) /\ Progress(d, c)
    BY <1>2, <1>3, <1>4
  <2> HIDE DEF c
  <2> QED
    BY <2>1, ProgressGot DEF c
<1> HIDE DEF got
<1>6. ASSUME NEW i \in 1..m, i # m PROVE Progress(e, cs[i])
  <2>1. ~(cs[i].node.type = c.node.type /\ cs[i].key = c.key)
    BY <1>2, <1>4, <1>6 DEF OpenKeys
  <2>2. KeysKept(d, e, cs[i].node.type, cs[i].key)
    BY <1>3, <2>1, OtherKeysKept
  <2> QED
    BY <1>3, <2>2, ProgressStays
<1>7. ASSUME NEW i \in 1..m PROVE Progress(e, new[i])
  <2>1. CASE i = m
    BY <1>2, <1>5, <2>1
  <2>2. CASE i # m
    <3>1. i \in 1..(m - 1)
      BY <1>2, <2>2
    <3> QED
      BY <1>2, <1>6, <2>2, <3>1
  <2> QED
    BY <2>1, <2>2
<1> QED
  BY <1>2, <1>7 DEF Progressing, new, got

LEMMA CompleteStays ==
  ASSUME NEW ns, NEW d, NEW e, NEW t, NEW f, NEW key, NEW other,
         ModelTyped, Shaped(d), MoreRecords(d, e), LinkAdded(d, e, t, f, key, other), ~HasPk(d, t, key),
         Complete(ns, d),
         \A u \in Type : \A r \in Range(e.records[u]) :
           r \in Range(d.records[u]) \/ \E n \in ns : RecordFor(e, u, r, n)
  PROVE  Complete(ns, e)
<1> SUFFICES ASSUME NEW u \in Type, NEW r \in Range(d.records[u]) PROVE \E n \in ns : RecordFor(e, u, r, n)
  BY DEF Complete
<1>1. PICK n \in ns : RecordFor(d, u, r, n)
  BY DEF Complete
<1>2. ~(u = t /\ r.pk = key)
  BY DEF HasPk
<1>3. KeysKept(d, e, u, r.pk)
  BY <1>2, OtherKeysKept
<1> QED
  BY <1>1, <1>3, RecordForStays

(***************************************************************************)
(* The rest of the invariant, with a join row more.                        *)
(***************************************************************************)
DataFits(d) == Shaped(d) /\ PksGiven(d) /\ HashesIn(d)

LEMMA RowRefers ==
  ASSUME NEW d, NEW e, NEW cs, NEW t, NEW f, NEW key, NEW other,
         ModelTyped, Shaped(d), Refers(d, cs), t \in Type, f \in RelationFields(t),
         RowAdded(d, e, JoinOf(t, f), Link(key, other)), OpenAs(cs, t, key), HasPk(d, f.other, other)
  PROVE  Refers(e, cs)
<1>1. /\ e.records = d.records
      /\ e.joins[JoinOf(t, f)] = Append(d.joins[JoinOf(t, f)], Link(key, other))
      /\ \A j \in JoinTables : j # JoinOf(t, f) => e.joins[j] = d.joins[j]
  BY DEF RowAdded
<1>2. \A u, k : HasPk(e, u, k) <=> HasPk(d, u, k)
  BY <1>1 DEF HasPk
<1>3. ASSUME NEW u \in Type, NEW g \in RelationFields(u), NEW row \in Range(e.joins[JoinOf(u, g)])
      PROVE  HasPk(d, g.other, row.other) /\ (HasPk(d, u, row.self) \/ OpenAs(cs, u, row.self))
  <2>1. CASE row \in Range(d.joins[JoinOf(u, g)])
    BY <2>1 DEF Refers
  <2>2. CASE row \notin Range(d.joins[JoinOf(u, g)])
    <3>1. JoinOf(u, g) = JoinOf(t, f)
      BY <1>1, <2>2, JoinTable
    <3>2. u = t /\ g.name = f.name
      BY <3>1 DEF JoinOf
    <3>3. g = f
      BY <3>2, FieldsTyped
    <3>4. IsSeq(d.joins[JoinOf(t, f)])
      BY JoinTable DEF Shaped
    <3>5. Range(Append(d.joins[JoinOf(t, f)], Link(key, other))) = Range(d.joins[JoinOf(t, f)]) \union {Link(key, other)}
      BY <3>4, Appended
    <3>6. row = Link(key, other)
      BY <1>1, <2>2, <3>1, <3>5
    <3> QED
      BY <3>2, <3>3, <3>6 DEF Link
  <2> QED
    BY <2>1, <2>2
<1> QED
  BY <1>1, <1>2, <1>3 DEF Refers

LEMMA RowFits ==
  ASSUME NEW d, NEW cs, NEW files, NEW c, NEW p, NEW key,
         ModelTyped, DataFits(d), CallsFit(d, cs, files), c.node.type \in Type,
         FieldAt(c.node, p) \in RelationFields(c.node.type),
         OpenAs(cs, c.node.type, c.key), HasPk(d, FieldAt(c.node, p).other, key)
  PROVE  DataFits(WithRow(d, c, p, key)) /\ CallsFit(WithRow(d, c, p, key), cs, files)
<1> DEFINE e == WithRow(d, c, p, key)
<1>1. CASE FieldAt(c.node, p).kind = "reln" /\ ChildAt(c.node, p).type \in model.reused
  <2>1. RowAdded(d, e, JoinOf(c.node.type, FieldAt(c.node, p)), Link(c.key, key))
    BY <1>1, RowIs DEF DataFits
  <2>2. Refers(e, cs)
    BY <2>1, RowRefers DEF DataFits, CallsFit
  <2>3. Shaped(e) /\ e.records = d.records /\ e.nextPk = d.nextPk
    BY <2>1 DEF RowAdded
  <2> HIDE DEF e
  <2>4. PksGiven(e) /\ HashesIn(e)
    BY <2>3 DEF DataFits, PksGiven, HashesIn
  <2>5. OpenKeys(e, cs)
    BY <2>3 DEF CallsFit, OpenKeys, HasPk
  <2>6. OpenHashes(e, cs)
    BY <2>3 DEF CallsFit, OpenHashes
  <2>7. FilesLoaded(e, cs, files)
    BY <2>3 DEF CallsFit, FilesLoaded, HasRecord, RecordsAt
  <2> QED
    BY <2>2, <2>3, <2>4, <2>5, <2>6, <2>7 DEF DataFits, CallsFit, e
<1>2. CASE ~(FieldAt(c.node, p).kind = "reln" /\ ChildAt(c.node, p).type \in model.reused)
  BY <1>2, NoRow
<1> QED
  BY <1>1, <1>2

LEMMA TakeKeeps ==
  ASSUME NEW d, NEW cs, NEW files, NEW p, NEW r,
         ModelTyped, NodesTyped, Good(nodes, d, cs, files), cs # <<>>,
         p \in Last(cs).todo, \A q \in Last(cs).todo : ~Sooner(Last(cs).node, q, p),
         r \in Known(d, ChildAt(Last(cs).node, p))
  PROVE  Good(nodes, WithRow(d, Last(cs), p, r.pk), Append(Front(cs), Got(Last(cs), p, r.pk)), files)
<1> DEFINE c == Last(cs)
           f == FieldAt(c.node, p)
           child == ChildAt(c.node, p)
           e == WithRow(d, c, p, r.pk)
           new == Append(Front(cs), Got(c, p, r.pk))
<1>1. /\ Stacked(nodes, cs) /\ Progressing(d, cs) /\ Complete(nodes, d) /\ OpenKeys(d, cs)
      /\ DataFits(d) /\ CallsFit(d, cs, files) /\ Shaped(d)
  BY DEF Good, DataFits, CallsFit
<1>2. /\ Len(cs) \in DOMAIN cs /\ c = cs[Len(cs)]
  <2>1. IsSeq(cs)
    BY <1>1 DEF Stacked
  <2>2. Len(cs) \in Nat \ {0} /\ DOMAIN cs = 1..Len(cs) /\ c = cs[Len(cs)]
    BY <2>1, WithoutLast
  <2>3. Len(cs) \in 1..Len(cs)
    BY <2>2
  <2> QED
    BY <2>2, <2>3
<1>3. c.node.type \in Type /\ NodeTyped(c.node) /\ Progress(d, c)
  BY <1>1, <1>2 DEF Stacked, Progressing, NodesTyped, NodeTyped
<1> HIDE DEF c
<1>4. f \in RelationFields(c.node.type) /\ child.type = f.other
  BY <1>1, <1>3, PlaceIs DEF c
<1>5. /\ child.type \in model.reused /\ r \in Range(d.records[f.other]) /\ r.hash = child.hash
  BY <1>4 DEF Known, c
<1>6. LinkAdded(d, e, c.node.type, f, c.key, r.pk)
  BY <1>1, <1>3, <1>4, <1>5, RowLinks
<1>7. Shaped(e) /\ MoreRecords(d, e) /\ e.records = d.records
  BY <1>1, <1>3, <1>4, RowShape
<1>8. HasRecord(e, f.other, r.pk, child.hash)
  BY <1>5, <1>7, HasRecordIs
<1>9. OpenAs(cs, c.node.type, c.key)
  BY <1>2 DEF OpenAs
<1>10. DataFits(e) /\ CallsFit(e, cs, files)
  <2>1. HasPk(d, f.other, r.pk)
    BY <1>5 DEF HasPk
  <2> QED
    BY <1>1, <1>3, <1>4, <1>9, <2>1, RowFits
<1>11. Stacked(nodes, new) /\ CallsFit(e, new, files)
  <2>1. Stacked(nodes, new) /\ SameCalls(cs, new)
    BY <1>1, StackGot DEF c
  <2> QED
    BY <1>10, <2>1, SameCallsFit
<1>12. Progressing(e, new)
  BY <1>1, <1>6, <1>7, <1>8, GotKeeps DEF c
<1>13. Complete(nodes, e)
  <2>1. ~HasPk(d, c.node.type, c.key)
    BY <1>1, <1>2 DEF OpenKeys
  <2>2. \A u \in Type : \A q \in Range(e.records[u]) : q \in Range(d.records[u])
    BY <1>7
  <2> HIDE DEF e, f
  <2> QED
    BY <1>1, <1>6, <1>7, <2>1, <2>2, CompleteStays
<1> QED
  BY <1>10, <1>11, <1>12, <1>13 DEF Good, DataFits, CallsFit, c

-----------------------------------------------------------------------------
(***************************************************************************)
(* A call that ends with its record.                                       *)
(***************************************************************************)
LEMMA CallerIs ==
  ASSUME NEW d, NEW cs, NEW files, NEW i, ModelTyped, NodesTyped, Good(nodes, d, cs, files), i \in DOMAIN cs \ {1}
  PROVE  LET caller == cs[i - 1]
             f == FieldAt(caller.node, cs[i].place)
         IN
         /\ i - 1 \in DOMAIN cs /\ caller.node.type \in Type
         /\ CalledBy(caller, cs[i]) /\ f \in RelationFields(caller.node.type) /\ f.other = cs[i].node.type
<1> DEFINE caller == cs[i - 1]
           p == cs[i].place
<1>1. IsSeq(cs) /\ CalledBy(caller, cs[i]) /\ Shaped(d) /\ \A k \in DOMAIN cs : cs[k].node \in nodes /\ Progress(d, cs[k])
  BY DEF Good, Stacked, Progressing
<1>2. i - 1 \in DOMAIN cs
  <2>1. Len(cs) \in Nat /\ DOMAIN cs = 1..Len(cs)
    BY <1>1, SeqFacts
  <2> QED
    BY <2>1
<1>3. NodeTyped(caller.node) /\ caller.node.type \in Type /\ Progress(d, caller)
  BY <1>1, <1>2 DEF NodesTyped, NodeTyped
<1>4. p \in caller.todo /\ ChildAt(caller.node, p) = cs[i].node
  BY <1>1 DEF CalledBy
<1> HIDE DEF caller, p
<1>5. /\ FieldAt(caller.node, p) \in RelationFields(caller.node.type)
      /\ ChildAt(caller.node, p).type = FieldAt(caller.node, p).other
  BY ONLY ModelTyped, <1>1, <1>3, <1>4, PlaceIs
<1> QED
  BY <1>1, <1>2, <1>3, <1>4, <1>5 DEF caller, p

LEMMA RecordData ==
  ASSUME NEW d, NEW e, NEW t, NEW rec, ModelTyped, DataFits(d), t \in Type, RecordAdded(d, e, t, rec),
         rec.pk \in Nat \ {NoKey}, rec.pk < d.nextPk[t], ~HasPk(d, t, rec.pk),
         t \in model.reused => \A q \in Range(d.records[t]) : q.hash # rec.hash
  PROVE  DataFits(e)
<1> DEFINE s == d.records[t]
           new == e.records[t]
<1>1. Shaped(d) /\ PksGiven(d) /\ HashesIn(d)
  BY DEF DataFits
<1>2. /\ Shaped(e) /\ e.nextPk = d.nextPk
      /\ new = Append(s, rec)
      /\ \A u \in Type : u # t => e.records[u] = d.records[u]
      /\ \A u \in Type : \A q : q \in Range(e.records[u]) <=> q \in Range(d.records[u]) \/ (u = t /\ q = rec)
  BY DEF RecordAdded
<1>3. IsSeq(s)
  BY <1>1 DEF Shaped
<1> HIDE DEF s, new
<1>4. /\ Len(s) \in Nat /\ DOMAIN s = 1..Len(s) /\ DOMAIN new = 1..(Len(s) + 1)
      /\ \A i \in 1..Len(s) : new[i] = s[i] /\ s[i] \in Range(s)
      /\ new[Len(s) + 1] = rec
  <2>1. /\ Len(s) \in Nat /\ DOMAIN s = 1..Len(s) /\ DOMAIN new = 1..(Len(s) + 1)
        /\ \A i \in 1..Len(s) : new[i] = s[i]
        /\ new[Len(s) + 1] = rec
    BY <1>2, <1>3, Appended
  <2> QED
    BY <2>1 DEF Range
<1>5. \A i \in DOMAIN new : i \in 1..Len(s) \/ i = Len(s) + 1
  BY <1>4
<1>6. ASSUME NEW u \in Type, NEW r \in Range(e.records[u]) PROVE r.pk \in Nat \ {NoKey} /\ r.pk < e.nextPk[u]
  <2>1. CASE r \in Range(d.records[u])
    BY <1>1, <1>2, <2>1 DEF PksGiven
  <2>2. CASE u = t /\ r = rec
    BY <1>2, <2>2
  <2> QED
    BY <1>2, <2>1, <2>2
<1>7. ASSUME NEW i \in DOMAIN new, NEW j \in DOMAIN new, new[i].pk = new[j].pk PROVE i = j
  <2>1. \A k \in 1..Len(s) : new[k].pk # rec.pk
    BY <1>4 DEF HasPk, s
  <2>2. \A k, l \in 1..Len(s) : s[k].pk = s[l].pk => k = l
    BY <1>1, <1>4 DEF PksGiven, s
  <2> QED
    BY <1>4, <1>5, <1>7, <2>1, <2>2
<1>8. ASSUME NEW i \in DOMAIN new, NEW j \in DOMAIN new, t \in model.reused, new[i].hash = new[j].hash PROVE i = j
  <2>1. \A k \in 1..Len(s) : new[k].hash # rec.hash
    BY <1>4, <1>8 DEF s
  <2>2. \A k, l \in 1..Len(s) : s[k].hash = s[l].hash => k = l
    BY <1>1, <1>4, <1>8 DEF HashesIn, s
  <2> QED
    BY <1>4, <1>5, <1>8, <2>1, <2>2
<1>9. PksGiven(e)
  <2>1. ASSUME NEW u \in Type, NEW i \in DOMAIN e.records[u], NEW j \in DOMAIN e.records[u],
               e.records[u][i].pk = e.records[u][j].pk
        PROVE  i = j
    <3>1. CASE u # t
      BY <1>1, <1>2, <2>1, <3>1 DEF PksGiven
    <3>2. CASE u = t
      BY <1>7, <2>1, <3>2 DEF new
    <3> QED
      BY <3>1, <3>2
  <2> QED
    BY <1>6, <2>1 DEF PksGiven
<1>10. HashesIn(e)
  <2> SUFFICES ASSUME NEW u \in model.reused, NEW i \in DOMAIN e.records[u], NEW j \in DOMAIN e.records[u],
                      e.records[u][i].hash = e.records[u][j].hash
               PROVE  i = j
    BY DEF HashesIn
  <2>1. u \in Type
    BY FieldsTyped
  <2>2. CASE u # t
    BY <1>1, <1>2, <2>1, <2>2 DEF HashesIn
  <2>3. CASE u = t
    BY <1>8, <2>3 DEF new
  <2> QED
    BY <2>2, <2>3
<1> QED
  BY <1>2, <1>9, <1>10 DEF DataFits

LEMMA RecordFits ==
  ASSUME NEW d, NEW e, NEW cs, NEW files, NEW t, NEW rec,
         ModelTyped, NodesTyped, Good(nodes, d, cs, files), cs # <<>>, t = Last(cs).node.type,
         RecordAdded(d, e, t, rec), rec.pk = Last(cs).key, rec.hash = Last(cs).node.hash,
         rec.parent = IF t \in model.reused THEN NoKey ELSE Last(cs).parent
  PROVE  DataFits(e) /\ CallsFit(e, Front(cs), files)
<1> DEFINE m == Len(cs)
           rest == Front(cs)
<1>1. /\ Shaped(d) /\ PksGiven(d) /\ OpenKeys(d, cs) /\ Stacked(nodes, cs)
      /\ HashesIn(d) /\ OpenHashes(d, cs) /\ Refers(d, cs) /\ FilesLoaded(d, cs, files)
  BY DEF Good
<1>2. /\ IsSeq(cs) /\ m \in Nat \ {0} /\ DOMAIN cs = 1..m /\ Last(cs) = cs[m]
      /\ IsSeq(rest) /\ Len(rest) = m - 1 /\ DOMAIN rest = 1..(m - 1)
      /\ \A i \in 1..(m - 1) : rest[i] = cs[i]
  <2>1. IsSeq(cs)
    BY <1>1 DEF Stacked
  <2> QED
    BY <2>1, WithoutLast
<1> HIDE DEF m, rest
<1>3. /\ \A i \in 1..m : cs[i].node \in nodes /\ cs[i].node.type \in Type /\ Len(cs[i].node.hash) \in Nat
      /\ \A i, j \in 1..m : i < j => Len(cs[j].node.hash) < Len(cs[i].node.hash)
      /\ cs[1].node.type = model.root
  <2>1. /\ \A i \in 1..m : cs[i].node \in nodes
        /\ \A i, j \in 1..m : i < j => Len(cs[j].node.hash) < Len(cs[i].node.hash)
        /\ cs[1].node.type = model.root
    BY <1>1, <1>2 DEF Stacked
  <2> QED
    BY <2>1 DEF NodesTyped, NodeTyped
<1> DEFINE c == cs[m]
<1>4. /\ m \in 1..m /\ t \in Type /\ t = c.node.type /\ rec.pk = c.key /\ rec.hash = c.node.hash
      /\ rec.parent = IF t \in model.reused THEN NoKey ELSE c.parent
  BY <1>2, <1>3
<1>5. \A i \in 1..(m - 1) : i \in 1..m /\ i # m /\ i < m /\ rest[i] = cs[i]
  <2>1. \A i \in 1..(m - 1) : i \in 1..m /\ i # m /\ i < m
    BY <1>2
  <2> QED
    BY <1>2, <2>1
<1>6. /\ c.key \in Nat \ {NoKey} /\ c.key < d.nextPk[t] /\ ~HasPk(d, t, c.key)
      /\ \A i \in 1..(m - 1) : ~(cs[i].node.type = t /\ cs[i].key = c.key)
  BY <1>1, <1>2, <1>4, <1>5 DEF OpenKeys
<1>7. t \in model.reused => \A q \in Range(d.records[t]) : q.hash # rec.hash
  BY <1>1, <1>2, <1>4 DEF OpenHashes
<1> HIDE DEF c
<1>8. DataFits(e)
  <2>1. DataFits(d)
    BY <1>1 DEF DataFits
  <2> QED
    BY <1>4, <1>6, <1>7, <2>1, RecordData
<1>9. /\ e.nextPk = d.nextPk /\ e.joins = d.joins /\ MoreRecords(d, e)
      /\ \A u \in Type : \A q : q \in Range(e.records[u]) <=> q \in Range(d.records[u]) \/ (u = t /\ q = rec)
  BY DEF RecordAdded
<1>10. \A u \in Type : \A k : HasPk(e, u, k) <=> HasPk(d, u, k) \/ (u = t /\ k = c.key)
  BY <1>4, <1>9 DEF HasPk
<1>11. OpenKeys(e, rest)
  <2>1. ASSUME NEW i \in 1..(m - 1)
        PROVE  /\ cs[i].key \in Nat \ {NoKey} /\ cs[i].key < e.nextPk[cs[i].node.type]
               /\ ~HasPk(e, cs[i].node.type, cs[i].key)
    <3>1. i \in 1..m /\ cs[i].node.type \in Type
      BY <1>3, <1>5
    <3>2. /\ cs[i].key \in Nat \ {NoKey} /\ cs[i].key < d.nextPk[cs[i].node.type]
          /\ ~HasPk(d, cs[i].node.type, cs[i].key)
      BY <1>1, <1>2, <3>1 DEF OpenKeys
    <3>3. ~HasPk(e, cs[i].node.type, cs[i].key)
      BY <1>6, <1>10, <3>1, <3>2
    <3> QED
      BY <1>9, <3>2, <3>3
  <2>2. ASSUME NEW i \in 1..(m - 1), NEW j \in 1..(m - 1),
               cs[i].node.type = cs[j].node.type, cs[i].key = cs[j].key
        PROVE  i = j
    BY <1>1, <1>2, <1>5, <2>2 DEF OpenKeys
  <2> QED
    BY <1>2, <2>1, <2>2 DEF OpenKeys
<1>12. OpenHashes(e, rest)
  <2> SUFFICES ASSUME NEW i \in 1..(m - 1), cs[i].node.type \in model.reused, NEW r \in Range(e.records[cs[i].node.type])
               PROVE  r.hash # cs[i].node.hash
    BY <1>2, <1>5 DEF OpenHashes
  <2>1. i \in 1..m /\ i < m
    BY <1>5
  <2>2. CASE r \in Range(d.records[cs[i].node.type])
    BY <1>1, <1>2, <2>1, <2>2 DEF OpenHashes
  <2>3. CASE r \notin Range(d.records[cs[i].node.type])
    <3>1. r = rec
      <4> DEFINE u == cs[i].node.type
      <4>1. u \in Type /\ r \in Range(e.records[u]) /\ r \notin Range(d.records[u])
        BY <1>3, <2>1, <2>3
      <4> HIDE DEF u
      <4> QED
        BY <1>9, <4>1
    <3>2. Len(c.node.hash) < Len(cs[i].node.hash) /\ Len(c.node.hash) \in Nat /\ Len(cs[i].node.hash) \in Nat
      BY <1>3, <1>4, <2>1 DEF c
    <3>3. \A x \in Nat : ~(x < x)
      OBVIOUS
    <3> QED
      BY <1>4, <3>1, <3>2, <3>3
  <2> QED
    BY <2>2, <2>3
<1>13. ASSUME NEW u \in Type, NEW k, HasPk(d, u, k) \/ OpenAs(cs, u, k)
       PROVE  HasPk(e, u, k) \/ OpenAs(rest, u, k)
  <2>1. CASE HasPk(d, u, k)
    BY <1>10, <2>1
  <2>2. CASE OpenAs(cs, u, k)
    <3>1. PICK i \in 1..m : cs[i].node.type = u /\ cs[i].key = k
      BY <1>2, <2>2 DEF OpenAs
    <3>2. CASE i = m
      BY <1>4, <1>10, <3>1, <3>2 DEF c
    <3>3. CASE i # m
      <4>1. i \in 1..(m - 1)
        BY <1>2, <3>3
      <4> QED
        BY <1>2, <1>5, <3>1, <4>1 DEF OpenAs
    <3> QED
      BY <3>2, <3>3
  <2> QED
    BY <1>13, <2>1, <2>2
<1>14. ASSUME NEW u \in Type, NEW f \in RelationFields(u), f.other = t, t \notin model.reused
       PROVE  OpenAs(rest, u, rec.parent)
  <2>1. m # 1
    BY <1>3, <1>4, <1>14, FieldsTyped DEF c
  <2>2. m \in DOMAIN cs \ {1} /\ m - 1 \in 1..(m - 1)
    BY <1>2, <1>4, <2>1
  <2> DEFINE caller == cs[m - 1]
             g == FieldAt(caller.node, c.place)
  <2>3. /\ caller.node.type \in Type /\ CalledBy(caller, c)
        /\ g \in RelationFields(caller.node.type) /\ g.other = c.node.type
    BY <2>2, CallerIs DEF c
  <2> HIDE DEF g, caller
  <2>4. u = caller.node.type
    BY <1>4, <1>14, <2>3, FieldsTyped
  <2>5. rec.parent = caller.key
    BY <1>4, <1>14, <2>3 DEF CalledBy
  <2>6. rest[m - 1] = caller
    BY <1>5, <2>2 DEF caller
  <2> QED
    BY <1>2, <2>2, <2>4, <2>5, <2>6 DEF OpenAs
<1>15. Refers(e, rest)
  <2>1. ASSUME NEW u \in Type, NEW f \in RelationFields(u), f.other \notin model.reused, NEW q \in Range(e.records[f.other])
        PROVE  HasPk(e, u, q.parent) \/ OpenAs(rest, u, q.parent)
    <3>1. f.other \in Type
      BY FieldsTyped
    <3>2. CASE q \in Range(d.records[f.other])
      <4>1. HasPk(d, u, q.parent) \/ OpenAs(cs, u, q.parent)
        BY <1>1, <2>1, <3>2 DEF Refers
      <4> QED
        BY <1>13, <4>1
    <3>3. CASE q \notin Range(d.records[f.other])
      <4>1. f.other = t /\ q = rec
        BY <1>9, <3>1, <3>3
      <4> QED
        BY <1>14, <2>1, <4>1
    <3> QED
      BY <3>2, <3>3
  <2>2. ASSUME NEW u \in Type, NEW f \in RelationFields(u), NEW row \in Range(e.joins[JoinOf(u, f)])
        PROVE  HasPk(e, f.other, row.other) /\ (HasPk(e, u, row.self) \/ OpenAs(rest, u, row.self))
    <3>1. f.other \in Type /\ row \in Range(d.joins[JoinOf(u, f)])
      BY <1>9, FieldsTyped
    <3>2. HasPk(d, f.other, row.other) /\ (HasPk(d, u, row.self) \/ OpenAs(cs, u, row.self))
      BY <1>1, <3>1 DEF Refers
    <3>3. HasPk(e, f.other, row.other)
      BY <1>10, <3>1, <3>2
    <3>4. HasPk(e, u, row.self) \/ OpenAs(rest, u, row.self)
      BY <1>13, <3>2
    <3> QED
      BY <3>3, <3>4
  <2> QED
    BY <2>1, <2>2 DEF Refers
<1>16. FilesLoaded(e, rest, files)
  <2> SUFFICES ASSUME NEW i \in DOMAIN files
               PROVE  \/ HasRecord(e, model.root, files[i].key, files[i].node.hash)
                      \/ rest # <<>> /\ files[i].key = rest[1].key /\ files[i].node = rest[1].node
    BY <1>1 DEF FilesLoaded
  <2>1. model.root \in Type
    BY FieldsTyped
  <2>2. CASE HasRecord(d, model.root, files[i].key, files[i].node.hash)
    BY <1>9, <2>1, <2>2, HasRecordStays
  <2>3. CASE files[i].key = cs[1].key /\ files[i].node = cs[1].node
    <3>1. CASE m = 1
      <4>1. c = cs[1]
        BY <3>1 DEF c
      <4>2. rec \in Range(e.records[model.root])
        BY <1>3, <1>4, <1>9, <2>1, <4>1
      <4> QED
        BY <1>4, <2>3, <4>1, <4>2, HasRecordIs
    <3>2. CASE m # 1
      <4>1. 1 \in 1..(m - 1)
        BY <1>2, <3>2
      <4>2. rest # <<>>
        BY <1>2, <4>1, EmptySeqIs
      <4> QED
        BY <1>5, <2>3, <4>1, <4>2
    <3> QED
      BY <3>1, <3>2
  <2> QED
    BY <1>1, <2>2, <2>3 DEF FilesLoaded
<1> QED
  BY <1>8, <1>11, <1>12, <1>15, <1>16 DEF CallsFit, rest

LEMMA NewComplete ==
  ASSUME NEW ns, NEW d, NEW e, NEW t, NEW rec, NEW n, ModelTyped, MoreRecords(d, e), Complete(ns, d),
         t \in Type, n \in ns, RecordFor(d, t, rec, n),
         \A u \in Type : \A q \in Range(e.records[u]) : q \in Range(d.records[u]) \/ (u = t /\ q = rec),
         \A u \in Type : \A q \in Range(e.records[u]) : KeysKept(d, e, u, q.pk)
  PROVE  Complete(ns, e)
<1> SUFFICES ASSUME NEW u \in Type, NEW r \in Range(e.records[u]) PROVE \E x \in ns : RecordFor(e, u, r, x)
  BY DEF Complete
<1>1. KeysKept(d, e, u, r.pk)
  OBVIOUS
<1>2. CASE r \in Range(d.records[u])
  <2>1. PICK x \in ns : RecordFor(d, u, r, x)
    BY <1>2 DEF Complete
  <2> QED
    BY <1>1, <2>1, RecordForStays
<1>3. CASE u = t /\ r = rec
  BY <1>1, <1>3, RecordForStays
<1> QED
  BY <1>2, <1>3

LEMMA TopIs ==
  ASSUME NEW d, NEW cs, NEW files, ModelTyped, NodesTyped, Good(nodes, d, cs, files), cs # <<>>
  PROVE  /\ Len(cs) \in Nat \ {0} /\ DOMAIN cs = 1..Len(cs) /\ Len(cs) \in DOMAIN cs /\ Last(cs) = cs[Len(cs)]
         /\ Last(cs).node \in nodes /\ NodeTyped(Last(cs).node) /\ Last(cs).node.type \in Type
         /\ IsCall(Last(cs)) /\ Progress(d, Last(cs))
<1>1. IsSeq(cs) /\ \A i \in DOMAIN cs : cs[i].node \in nodes /\ IsCall(cs[i]) /\ Progress(d, cs[i])
  BY DEF Good, Stacked, Progressing
<1>2. Len(cs) \in Nat \ {0} /\ DOMAIN cs = 1..Len(cs) /\ Last(cs) = cs[Len(cs)]
  BY <1>1, WithoutLast
<1>3. Len(cs) \in DOMAIN cs
  BY <1>2
<1> QED
  BY <1>1, <1>2, <1>3 DEF NodesTyped, NodeTyped

LEMMA RecordOfIs ==
  ASSUME NEW c
  PROVE  /\ RecordOf(c).pk = c.key /\ RecordOf(c).hash = c.node.hash
         /\ RecordOf(c).parent = IF c.node.type \in model.reused THEN NoKey ELSE c.parent
  BY DEF RecordOf

LEMMA AddLastKeeps ==
  ASSUME NEW d, NEW cs, NEW files, ModelTyped, NodesTyped, Good(nodes, d, cs, files), Len(cs) = 1, cs # <<>>,
         Last(cs).todo = {}
  PROVE  Good(nodes, WithRecord(d, Last(cs).node.type, RecordOf(Last(cs))), <<>>, files)
<1> DEFINE c == Last(cs)
           t == c.node.type
           rec == RecordOf(c)
           e == WithRecord(d, t, rec)
<1>1. Shaped(d) /\ Stacked(nodes, cs) /\ Complete(nodes, d)
  BY DEF Good
<1>2. /\ c.node \in nodes /\ NodeTyped(c.node) /\ t \in Type /\ Progress(d, c)
      /\ c = cs[1]
  BY TopIs
<1>3. t \in model.reused
  BY <1>1, <1>2, FieldsTyped DEF Stacked
<1>4. Front(cs) = <<>>
  <2>1. IsSeq(Front(cs)) /\ Len(Front(cs)) = 0
    BY <1>1, WithoutLast DEF Stacked
  <2> QED
    BY <2>1, SeqFacts
<1>5. RecordAdded(d, e, t, rec) /\ RecordFor(d, t, rec, c.node)
  <2> HIDE DEF c
  <2> QED
    BY <1>1, <1>2, AddedIs, AllDone DEF c
<1>6. rec.pk = c.key /\ rec.hash = c.node.hash /\ rec.parent = IF t \in model.reused THEN NoKey ELSE c.parent
  BY RecordOfIs
<1>7. \A u \in Type : \A key : KeysKept(d, e, u, key)
  <2>1. \A u \in Type : \A g \in RelationFields(u) : Links(e, u, g) = Links(d, u, g)
    BY <1>1, <1>3, ReusedRecordLinks
  <2> QED
    BY <2>1 DEF KeysKept
<1> HIDE DEF e, rec, t, c
<1>8. DataFits(e) /\ CallsFit(e, <<>>, files)
  BY <1>4, <1>5, <1>6, RecordFits DEF c, t
<1>9. Stacked(nodes, <<>>)
  BY <1>1, <1>4, StackPop
<1>10. Progressing(e, <<>>)
  BY EmptySeqIs DEF Progressing
<1>11. Complete(nodes, e)
  <2>1. /\ MoreRecords(d, e)
        /\ \A u \in Type : \A q : q \in Range(e.records[u]) <=> q \in Range(d.records[u]) \/ (u = t /\ q = rec)
    BY <1>5 DEF RecordAdded
  <2> QED
    BY <1>1, <1>2, <1>5, <1>7, <2>1, NewComplete
<1> QED
  BY <1>8, <1>9, <1>10, <1>11 DEF Good, DataFits, CallsFit, e, rec, t, c

LEMMA AddLinks ==
  ASSUME NEW d, NEW e, NEW rec, NEW caller, NEW p, NEW t, NEW f, ModelTyped, Shaped(d), Shaped(e),
         t \in Type, caller.node.type \in Type, f = FieldAt(caller.node, p), f \in RelationFields(caller.node.type),
         f.other = t, ChildAt(caller.node, p).type = t,
         e = WithRecord(d, t, rec), t \notin model.reused => rec.parent = caller.key
  PROVE  LinkAdded(d, WithRow(e, caller, p, rec.pk), caller.node.type, f, caller.key, rec.pk)
<1>1. CASE t \in model.reused
  <2>1. \A u \in Type : \A g \in RelationFields(u) : Links(e, u, g) = Links(d, u, g)
    BY <1>1, ReusedRecordLinks
  <2>2. LinkAdded(e, WithRow(e, caller, p, rec.pk), caller.node.type, f, caller.key, rec.pk)
    BY <1>1, RowLinks
  <2> QED
    BY <2>1, <2>2 DEF LinkAdded
<1>2. CASE t \notin model.reused
  <2>1. WithRow(e, caller, p, rec.pk) = e
    BY <1>2, NoRow
  <2>2. LinkAdded(d, WithRecord(d, f.other, rec), caller.node.type, f, rec.parent, rec.pk)
    BY <1>2, DuplicatedRecordLinks
  <2> QED
    BY <1>2, <2>1, <2>2
<1> QED
  BY <1>1, <1>2

LEMMA RestKeeps ==
  ASSUME NEW d, NEW cs, NEW files, ModelTyped, NodesTyped, Good(nodes, d, cs, files), Len(cs) # 1, cs # <<>>
  PROVE  /\ Stacked(nodes, Front(cs)) /\ OpenKeys(d, Front(cs)) /\ Progressing(d, Front(cs)) /\ Front(cs) # <<>>
         /\ Last(Front(cs)) = cs[Len(cs) - 1] /\ Len(cs) \in DOMAIN cs \ {1} /\ Len(cs) - 1 \in DOMAIN cs
         /\ OpenAs(Front(cs), Last(Front(cs)).node.type, Last(Front(cs)).key)
<1> DEFINE m == Len(cs)
           rest == Front(cs)
<1>1. Stacked(nodes, cs) /\ OpenKeys(d, cs) /\ Progressing(d, cs) /\ IsSeq(cs)
  BY DEF Good, Stacked
<1>2. /\ m \in Nat \ {0} /\ DOMAIN cs = 1..m
      /\ IsSeq(rest) /\ Len(rest) = m - 1 /\ DOMAIN rest = 1..(m - 1)
      /\ \A i \in 1..(m - 1) : rest[i] = cs[i]
  BY <1>1, WithoutLast
<1>3. Stacked(nodes, rest)
  BY <1>1, StackPop
<1> HIDE DEF m, rest
<1>4. /\ m \in 1..m \ {1} /\ m - 1 \in 1..(m - 1) /\ m - 1 \in 1..m
      /\ \A i \in 1..(m - 1) : i \in 1..m
  BY <1>2 DEF m
<1>5. rest # <<>>
  BY <1>2, <1>4, EmptySeqIs
<1>6. Last(rest) = cs[m - 1]
  <2>1. Last(rest) = rest[m - 1]
    BY <1>2, <1>5, WithoutLast
  <2> QED
    BY <1>2, <1>4, <2>1
<1>7. OpenKeys(d, rest)
  BY <1>1, <1>2, <1>4 DEF OpenKeys
<1>8. Progressing(d, rest)
  BY <1>1, <1>2, <1>4 DEF Progressing
<1>9. OpenAs(rest, Last(rest).node.type, Last(rest).key)
  BY <1>2, <1>4, <1>6 DEF OpenAs
<1> QED
  BY <1>2, <1>3, <1>4, <1>5, <1>6, <1>7, <1>8, <1>9 DEF m, rest

LEMMA AddKeeps ==
  ASSUME NEW d, NEW cs, NEW files, ModelTyped, NodesTyped, Good(nodes, d, cs, files), Len(cs) # 1, cs # <<>>,
         Last(cs).todo = {}
  PROVE  LET added == WithRecord(d, Last(cs).node.type, RecordOf(Last(cs)))
             caller == Last(Front(cs))
         IN Good(nodes, WithRow(added, caller, Last(cs).place, Last(cs).key),
                 Append(Front(Front(cs)), Got(caller, Last(cs).place, Last(cs).key)), files)
<1> DEFINE c == Last(cs)
           t == c.node.type
           p == c.place
           rec == RecordOf(c)
           a == WithRecord(d, t, rec)
           rest == Front(cs)
           caller == Last(rest)
           f == FieldAt(caller.node, p)
           e == WithRow(a, caller, p, c.key)
           new == Append(Front(rest), Got(caller, p, c.key))
           ct == caller.node.type
<1>1. Shaped(d) /\ Stacked(nodes, cs) /\ Complete(nodes, d) /\ OpenKeys(d, cs)
  BY DEF Good
<1>2. /\ c.node \in nodes /\ NodeTyped(c.node) /\ t \in Type /\ Progress(d, c)
      /\ c = cs[Len(cs)] /\ Len(cs) \in DOMAIN cs
  BY TopIs
<1>3. /\ Stacked(nodes, rest) /\ OpenKeys(d, rest) /\ Progressing(d, rest) /\ rest # <<>>
      /\ caller = cs[Len(cs) - 1] /\ Len(cs) \in DOMAIN cs \ {1} /\ Len(cs) - 1 \in DOMAIN cs
      /\ OpenAs(rest, ct, caller.key)
  BY RestKeeps
<1>4. RecordAdded(d, a, t, rec) /\ RecordFor(d, t, rec, c.node)
  <2> HIDE DEF c
  <2> QED
    BY <1>1, <1>2, AddedIs, AllDone DEF c
<1>5. rec.pk = c.key /\ rec.hash = c.node.hash /\ rec.parent = IF t \in model.reused THEN NoKey ELSE c.parent
  BY RecordOfIs
<1> HIDE DEF a, rec, t, c, rest, caller, p, f, e, new, ct
<1>6. /\ ct \in Type /\ CalledBy(caller, c) /\ f \in RelationFields(ct) /\ f.other = t
  <2> DEFINE i == Len(cs)
  <2>1. i \in DOMAIN cs \ {1}
    BY <1>3
  <2> HIDE DEF i
  <2>2. /\ cs[i - 1].node.type \in Type /\ CalledBy(cs[i - 1], cs[i])
        /\ FieldAt(cs[i - 1].node, cs[i].place) \in RelationFields(cs[i - 1].node.type)
        /\ FieldAt(cs[i - 1].node, cs[i].place).other = cs[i].node.type
    BY <2>1, CallerIs
  <2>3. caller = cs[i - 1] /\ c = cs[i]
    BY <1>2, <1>3 DEF i
  <2> QED
    BY <2>2, <2>3 DEF f, ct, p, t
<1>7. /\ c.parent = caller.key /\ p \in caller.todo /\ \A q \in caller.todo : ~Sooner(caller.node, q, p)
      /\ c.node = ChildAt(caller.node, p)
  BY <1>6 DEF CalledBy, p
<1>8. DataFits(a) /\ CallsFit(a, rest, files)
  BY <1>4, <1>5, RecordFits DEF c, t, rest
<1>9. /\ Shaped(a) /\ MoreRecords(d, a)
      /\ \A u \in Type : \A q : q \in Range(a.records[u]) <=> q \in Range(d.records[u]) \/ (u = t /\ q = rec)
  BY <1>4 DEF RecordAdded
<1>10. rec \in Range(a.records[t])
  BY <1>2, <1>9
<1>11. DataFits(e) /\ CallsFit(e, rest, files)
  <2>1. HasPk(a, f.other, c.key)
    BY <1>5, <1>6, <1>10 DEF HasPk
  <2> QED
    BY <1>3, <1>6, <1>8, <2>1, RowFits DEF e, f, ct
<1>12. Shaped(e) /\ e.records = a.records
  BY <1>6, <1>9, RowShape DEF e, f, ct
<1>13. LinkAdded(d, e, ct, f, caller.key, c.key)
  <2>1. a = WithRecord(d, t, rec) /\ f = FieldAt(caller.node, p) /\ ct = caller.node.type
    BY DEF a, f, ct
  <2>2. t \notin model.reused => rec.parent = caller.key
    BY <1>5, <1>7
  <2>3. ChildAt(caller.node, p).type = t
    BY <1>7 DEF t
  <2>4. LinkAdded(d, WithRow(a, caller, p, rec.pk), ct, f, caller.key, rec.pk)
    BY <1>1, <1>2, <1>6, <1>9, <2>1, <2>2, <2>3, AddLinks
  <2> QED
    BY <1>5, <2>4 DEF e
<1>14. MoreRecords(d, e) /\ HasRecord(e, f.other, c.key, c.node.hash)
  <2>1. MoreRecords(d, e)
    BY <1>9, <1>12 DEF MoreRecords
  <2>2. HasRecord(e, f.other, c.key, c.node.hash)
    BY <1>5, <1>6, <1>10, <1>12, HasRecordIs
  <2> QED
    BY <2>1, <2>2
<1>15. Stacked(nodes, new) /\ CallsFit(e, new, files)
  <2>1. Stacked(nodes, new) /\ SameCalls(rest, new)
    BY <1>3, StackGot DEF new, caller
  <2> QED
    BY <1>11, <2>1, SameCallsFit
<1>16. Progressing(e, new)
  BY <1>1, <1>3, <1>7, <1>13, <1>14, GotKeeps DEF new, caller, f, ct
<1>17. Complete(nodes, e)
  <2>1. ~HasPk(d, ct, caller.key) /\ ~(ct = t /\ caller.key = c.key)
    <3>1. Len(cs) - 1 # Len(cs)
      BY TopIs
    <3> QED
      BY <1>1, <1>2, <1>3, <3>1 DEF OpenKeys, ct, t
  <2>2. ASSUME NEW u \in Type, NEW q \in Range(e.records[u])
        PROVE  (q \in Range(d.records[u]) \/ (u = t /\ q = rec)) /\ KeysKept(d, e, u, q.pk)
    <3>1. q \in Range(d.records[u]) \/ (u = t /\ q = rec)
      BY <1>9, <1>12
    <3>2. ~(u = ct /\ q.pk = caller.key)
      BY <1>5, <2>1, <3>1 DEF HasPk
    <3> QED
      BY <1>1, <1>13, <3>1, <3>2, OtherKeysKept
  <2> QED
    BY <1>1, <1>2, <1>4, <1>14, <2>2, NewComplete
<1> QED
  BY <1>11, <1>15, <1>16, <1>17 DEF Good, DataFits, CallsFit, e, a, rec, new, t, c, p, rest, caller

-----------------------------------------------------------------------------
(***************************************************************************)
(* A step leaves the model as it is, so that what is said of the new flat  *)
(* data with the model is said of it in the new state.                     *)
(***************************************************************************)
LEMMA SameColumns ==
  ASSUME model' = model, NEW n
  PROVE  StoredColumns(n)' = StoredColumns(n)
<1>1. ColumnFields(n.type)' = ColumnFields(n.type)
  BY DEF ColumnFields, Fields
<1> QED
  BY <1>1 DEF StoredColumns, Content, MapSeq, TextOf

LEMMA SameRecordFor ==
  ASSUME model' = model, NEW t, NEW r, NEW n, RecordFor(data', t, r, n)
  PROVE  RecordFor(data, t, r, n)'
<1>1. ASSUME NEW f PROVE ChildKeys(data', t, r, f) = ChildKeys(data, t, r, f)'
  BY DEF ChildKeys, Links
<1>2. \A f \in RelationFields(t) :
       LET keys == ChildKeys(data, t, r, f)' IN
       /\ Len(keys) = Len(Children(n, f))
       /\ \A j \in DOMAIN keys : HasRecord(data', f.other, keys[j], Children(n, f)[j].hash)
  BY <1>1 DEF RecordFor
<1>3. \A f \in RelationFields(t)' :
       LET keys == ChildKeys(data, t, r, f)' IN
       /\ Len(keys) = Len(Children(n, f))
       /\ \A j \in DOMAIN keys : HasRecord(data', f.other, keys[j], Children(n, f)[j].hash)
  BY <1>2 DEF RelationFields, Fields
<1>4. r.columns = StoredColumns(n)'
  BY SameColumns DEF RecordFor
<1> QED
  BY <1>3, <1>4 DEF RecordFor, Children, HasRecord, RecordsAt

LEMMA SameProgress ==
  ASSUME model' = model, NEW c, Progress(data', c)
  PROVE  Progress(data, c)'
<1>1. ASSUME NEW f PROVE KeysOf(data', c, f) = KeysOf(data, c, f)'
  BY DEF KeysOf, ChildKeys, Links
<1>2. c.todo = Left(data, c)'
  <2> DEFINE t == c.node.type
  <2>3. RelAt(t)' = RelAt(t) /\ Fields' = Fields
    BY DEF RelAt, Fields
  <2>4. ASSUME NEW x PROVE x \in Left(data, c)' <=> x \in Left(data', c)
    <3>1. x \in Left(data', c) <=>
            \E i \in RelAt(t) : \E j \in (Len(KeysOf(data', c, Fields[t][i])) + 1)..Len(Children(c.node, Fields[t][i])) : x = <<i, j>>
      BY DEF Left
    <3>2. x \in Left(data, c)' <=>
            \E i \in RelAt(t)' : \E j \in (Len(KeysOf(data, c, Fields[t][i])') + 1)..Len(Children(c.node, Fields[t][i])') : x = <<i, j>>
      BY DEF Left
    <3> QED
      BY <1>1, <2>3, <3>1, <3>2 DEF Children
  <2>5. Left(data, c)' = Left(data', c)
    BY <2>4
  <2> QED
    BY <2>5 DEF Progress
<1>3. \A f \in RelationFields(c.node.type)' :
       /\ Len(KeysOf(data, c, f)') <= Len(Children(c.node, f))
       /\ \A j \in DOMAIN KeysOf(data, c, f)' :
            HasRecord(data', f.other, KeysOf(data, c, f)'[j], Children(c.node, f)[j].hash)
  BY <1>1 DEF Progress, RelationFields, Fields
<1> QED
  BY <1>2, <1>3 DEF Progress, Children, HasRecord, RecordsAt

Stable == Good(nodes, data, calls, loaded)

LEMMA Primed ==
  ASSUME model' = model, Good(nodes', data', calls', loaded')
  PROVE  Stable'
<1>1. Shaped(data)' /\ PksGiven(data)' /\ OpenKeys(data, calls)' /\ Stacked(nodes, calls)'
  <2>1. Shaped(data)'
    BY DEF Good, Shaped, IsSeq, JoinTables, Relations, RelationFields, Type, Fields
  <2>2. PksGiven(data)' 
    BY DEF Good, PksGiven, Type, Fields, NoKey
  <2>3. OpenKeys(data, calls)'
    BY DEF Good, OpenKeys, HasPk, NoKey
  <2>4. Stacked(nodes, calls)'
    <3>1. Stacked(nodes', calls')
      BY DEF Good
    <3>2. ASSUME NEW caller, NEW c, CalledBy(caller, c) PROVE CalledBy(caller, c)'
      <4>1. ASSUME NEW n, NEW p, NEW q PROVE Sooner(n, p, q)' <=> Sooner(n, p, q)
        BY DEF Sooner, FieldAt, Fields
      <4>2. ASSUME NEW n, NEW p PROVE ChildAt(n, p)' = ChildAt(n, p)
        BY DEF ChildAt, FieldAt, Fields
      <4> QED
        BY <3>2, <4>1, <4>2 DEF CalledBy
    <3> QED
      BY <3>1, <3>2 DEF Stacked, IsSeq, IsCall, NoKey
  <2> QED
    BY <2>1, <2>2, <2>3, <2>4
<1>2. HashesIn(data)' /\ OpenHashes(data, calls)'
  BY DEF Good, HashesIn, OpenHashes
<1>3. Refers(data, calls)'
  BY DEF Good, Refers, HasPk, OpenAs, JoinOf, RelationFields, Type, Fields
<1>4. Progressing(data, calls)'
  <2>1. ASSUME NEW i \in DOMAIN calls' PROVE Progress(data, calls[i])'
    <3>1. Progress(data', calls'[i])
      BY DEF Good, Progressing
    <3> QED
      BY <3>1, SameProgress
  <2> QED
    BY <2>1 DEF Progressing
<1>5. Complete(nodes, data)'
  <2>1. ASSUME NEW t \in Type', NEW r \in Range(data'.records[t]) PROVE \E n \in nodes' : RecordFor(data, t, r, n)'
    <3>1. t \in Type
      BY DEF Type, Fields
    <3>2. PICK n \in nodes' : RecordFor(data', t, r, n)
      BY <3>1 DEF Good, Complete
    <3> QED
      BY <3>2, SameRecordFor
  <2> QED
    BY <2>1 DEF Complete
<1>6. FilesLoaded(data, calls, loaded)'
  BY DEF Good, FilesLoaded, IsSeq, HasRecord, RecordsAt
<1> QED
  BY <1>1, <1>2, <1>3, <1>4, <1>5, <1>6 DEF Stable, Good

-----------------------------------------------------------------------------
(***************************************************************************)
(* The steps.                                                              *)
(***************************************************************************)
LEMMA MoreNodes ==
  ASSUME NEW ns, NEW more, NEW d, NEW cs, NEW files, ns \subseteq more, Good(ns, d, cs, files)
  PROVE  Good(more, d, cs, files)
<1>1. Stacked(more, cs)
  BY DEF Good, Stacked
<1>2. Complete(more, d)
  BY DEF Good, Complete
<1> QED
  BY <1>1, <1>2 DEF Good

LEMMA FileMore ==
  ASSUME NEW ns, NEW d, NEW cs, NEW files, Good(ns, d, cs, files), NEW file,
         \/ HasRecord(d, model.root, file.key, file.node.hash)
         \/ cs # <<>> /\ file.key = cs[1].key /\ file.node = cs[1].node
  PROVE  Good(ns, d, cs, Append(files, file))
<1> DEFINE new == Append(files, file)
           Loaded(x) == \/ HasRecord(d, model.root, x.key, x.node.hash)
                        \/ cs # <<>> /\ x.key = cs[1].key /\ x.node = cs[1].node
<1>1. IsSeq(files) /\ (\A i \in DOMAIN files : Loaded(files[i])) /\ Loaded(file)
  BY DEF Good, FilesLoaded
<1>2. /\ IsSeq(new) /\ DOMAIN new = 1..(Len(files) + 1) /\ Len(files) \in Nat /\ DOMAIN files = 1..Len(files)
      /\ \A i \in 1..Len(files) : new[i] = files[i]
      /\ new[Len(files) + 1] = file
  BY <1>1, Appended
<1> HIDE DEF new, Loaded
<1>3. ASSUME NEW i \in DOMAIN new PROVE Loaded(new[i])
  <2>1. i \in 1..Len(files) \/ i = Len(files) + 1
    BY <1>2
  <2> QED
    BY <1>1, <1>2, <2>1
<1>4. FilesLoaded(d, cs, new)
  BY <1>2, <1>3 DEF FilesLoaded, Loaded
<1> QED
  BY <1>4 DEF Good, new

LEMMA TypedTrees ==
  ASSUME TreesTyped
  PROVE  ModelTyped /\ NodesTyped
  BY DEF TreesTyped, NodesTyped

LEMMA SameTypes ==
  ASSUME model' = model
  PROVE  /\ Type' = Type
         /\ \A t : RelationFields(t)' = RelationFields(t)
  BY DEF Type, RelationFields, Fields

LEMMA ParsedRoot ==
  ASSUME TreesTyped', model' = model, NEW root \in nodes'
  PROVE  /\ root.type \in Type /\ ContentTyped(root)
         /\ \A n \in nodes' : Len(n.hash) \in Nat
<1>1. \A n \in nodes' : NodeTyped(n)'
  BY DEF TreesTyped
<1>2. root.type \in Type /\ \A n \in nodes' : Len(n.hash) \in Nat
  BY <1>1, SameTypes DEF NodeTyped
<1>3. ASSUME NEW f \in RelationFields(root.type), f.name \in DOMAIN root.content
      PROVE  IsSeq(root.content[f.name])
  <2>1. f \in RelationFields(root.type)'
    BY SameTypes
  <2>2. root.content[f.name] \in Seq(nodes')
    BY <1>1, <1>3, <2>1 DEF NodeTyped
  <2> QED
    BY <2>2, SeqIs
<1> QED
  BY <1>2, <1>3 DEF ContentTyped

LEMMA KnownIs ==
  ASSUME NEW n, Known(data, n) # {}
  PROVE  \E r \in Known(data, n) : KnownKey(n) = r.pk
  BY DEF KnownKey

LEMMA ParseStep ==
  ASSUME NEW file, NEW root \in nodes', ModelTyped, TreesTyped', Stable, nodes \subseteq nodes', ParseXml(file, root)
  PROVE  Stable'
<1>1. /\ calls = <<>> /\ model' = model /\ Good(nodes', data, calls, loaded)
  BY MoreNodes DEF ParseXml, Idle, Stable
<1>2. root.type \in Type /\ ContentTyped(root) /\ \A n \in nodes' : Len(n.hash) \in Nat
  BY <1>1, ParsedRoot
<1> DEFINE Entry(key) == [file |-> file, node |-> root, key |-> key]
<1>3. ASSUME NEW key, loaded' = Append(loaded, Entry(key)) PROVE root.type = model.root
  <2>1. IsSeq(loaded)
    BY <1>1 DEF Good, FilesLoaded
  <2>2. /\ Len(loaded) + 1 \in DOMAIN loaded' /\ loaded'[Len(loaded) + 1] = Entry(key)
    <3>1. Len(loaded) \in Nat /\ DOMAIN loaded' = 1..(Len(loaded) + 1) /\ loaded'[Len(loaded) + 1] = Entry(key)
      BY <1>3, <2>1, Appended
    <3> QED
      BY <3>1
  <2>3. Entry(key).node.type = model'.root
    BY <2>2 DEF TreesTyped
  <2> QED
    BY <1>1, <2>3
<1>4. CASE Known(data, root) # {}
  <2>1. PICK r \in Known(data, root) : KnownKey(root) = r.pk
    BY <1>4, KnownIs
  <2>2. loaded' = Append(loaded, Entry(r.pk)) /\ data' = data /\ calls' = calls
    BY <1>4, <2>1 DEF ParseXml
  <2>3. root.type = model.root
    BY <1>3, <2>2
  <2>4. HasRecord(data, model.root, r.pk, root.hash)
    BY <2>1, <2>3, HasRecordIs DEF Known
  <2>5. Entry(r.pk).key = r.pk /\ Entry(r.pk).node = root
    OBVIOUS
  <2> HIDE DEF Entry
  <2>6. Good(nodes', data, calls, Append(loaded, Entry(r.pk)))
    BY <1>1, <2>4, <2>5, FileMore
  <2> QED
    BY <1>1, <2>2, <2>6, Primed
<1>5. CASE Known(data, root) = {}
  <2> DEFINE key == data.nextPk[root.type]
             c == Call(root, key, NoKey, <<0, 0>>)
             cs == Append(<<>>, c)
             e == WithKeyTaken(data, root.type)
  <2>1. loaded' = Append(loaded, Entry(key)) /\ data' = e /\ calls' = <<c>>
    BY <1>5 DEF ParseXml, KeyTaken, WithKeyTaken
  <2>2. root.type = model.root
    BY <1>3, <2>1
  <2>3. cs = <<c>> /\ cs # <<>> /\ cs[1] = c
    OBVIOUS
  <2>4. c.key = key /\ c.node = root
    BY CallIs
  <2>5. Good(nodes', e, cs, loaded)
    <3>1. Range(<<>>) = {}
      BY EmptySeqIs DEF Range
    <3>2. Good(nodes', data, <<>>, loaded)
      BY <1>1
    <3>3. \A x \in Range(<<>>) : x.node.type \in Type
      BY <3>1
    <3> HIDE DEF key, c, e
    <3> QED
      BY <1>2, <1>5, <2>2, <3>2, <3>3, PushKeeps DEF key, c, e
  <2>6. Entry(key).key = key /\ Entry(key).node = root
    OBVIOUS
  <2> HIDE DEF Entry, key, c, cs, e
  <2>7. Good(nodes', e, cs, Append(loaded, Entry(key)))
    BY <2>3, <2>4, <2>5, <2>6, FileMore
  <2> QED
    BY <1>1, <2>1, <2>3, <2>7, Primed
<1> QED
  BY <1>4, <1>5

LEMMA TakeStep ==
  ASSUME NEW p, TreesTyped, Stable, TakeKnown(p)
  PROVE  Stable'
<1> DEFINE n == ChildAt(Last(calls).node, p)
<1>1. /\ calls # <<>> /\ p \in Last(calls).todo /\ \A q \in Last(calls).todo : ~Sooner(Last(calls).node, q, p)
      /\ Known(data, n) # {}
      /\ data' = WithRow(data, Last(calls), p, KnownKey(n))
      /\ calls' = Append(Front(calls), Got(Last(calls), p, KnownKey(n)))
      /\ model' = model /\ nodes' = nodes /\ loaded' = loaded
  BY DEF TakeKnown, Idle, NextChild, Top
<1>2. PICK r \in Known(data, n) : KnownKey(n) = r.pk
  BY <1>1, KnownIs
<1>3. Good(nodes, data, calls, loaded)
  BY DEF Stable
<1>4. Good(nodes, WithRow(data, Last(calls), p, r.pk), Append(Front(calls), Got(Last(calls), p, r.pk)), loaded)
  BY <1>1, <1>3, TypedTrees, TakeKeeps
<1> QED
  BY <1>1, <1>2, <1>4, Primed

LEMMA ChildStep ==
  ASSUME NEW p, TreesTyped, Stable, ExtractChild(p)
  PROVE  Stable'
<1> DEFINE c == Last(calls)
           n == ChildAt(c.node, p)
           key == data.nextPk[n.type]
           new == Call(n, key, c.key, p)
           e == WithKeyTaken(data, n.type)
<1>1. /\ calls # <<>> /\ p \in c.todo /\ \A q \in c.todo : ~Sooner(c.node, q, p)
      /\ Known(data, n) = {}
      /\ data' = e
      /\ calls' = Append(calls, new)
      /\ model' = model /\ nodes' = nodes /\ loaded' = loaded
  BY DEF ExtractChild, Idle, NextChild, Top, KeyTaken, WithKeyTaken
<1>2. ModelTyped /\ NodesTyped /\ Good(nodes, data, calls, loaded)
  BY TypedTrees DEF Stable
<1>3. c.node.type \in Type /\ NodeTyped(c.node) /\ Progress(data, c) /\ Shaped(data)
  BY <1>1, <1>2, TopIs DEF Good
<1> HIDE DEF c
<1>4. n \in nodes /\ Len(n.hash) < Len(c.node.hash)
  BY <1>1, <1>2, <1>3, PlaceIs
<1>5. CalledBy(c, new)
  BY <1>1, CallIs DEF CalledBy
<1> HIDE DEF n
<1>6. n.type \in Type /\ ContentTyped(n) /\ \A x \in nodes : Len(x.hash) \in Nat
  <2>1. ASSUME NEW f \in RelationFields(n.type), f.name \in DOMAIN n.content PROVE IsSeq(n.content[f.name])
    <3>1. n.content[f.name] \in Seq(nodes)
      BY <1>2, <1>4, <2>1 DEF NodesTyped, NodeTyped
    <3> QED
      BY <3>1, SeqIs
  <2> QED
    BY <1>2, <1>4, <2>1 DEF NodesTyped, NodeTyped, ContentTyped
<1>7. \A x \in Range(calls) : x.node.type \in Type
  BY <1>2 DEF Good, Stacked, NodesTyped, NodeTyped, Range
<1> HIDE DEF new, key, e
<1>8. Good(nodes, e, Append(calls, new), loaded)
  BY <1>1, <1>2, <1>4, <1>5, <1>6, <1>7, PushKeeps DEF e, new, key, c
<1> QED
  BY <1>1, <1>8, Primed

LEMMA AddStep ==
  ASSUME TreesTyped, Stable, AddRecord
  PROVE  Stable'
<1>1. /\ calls # <<>> /\ Last(calls).todo = {} /\ model' = model /\ nodes' = nodes /\ loaded' = loaded
      /\ Len(calls) = 1 =>
           data' = WithRecord(data, Last(calls).node.type, RecordOf(Last(calls))) /\ calls' = <<>>
      /\ Len(calls) # 1 =>
           /\ data' = WithRow(WithRecord(data, Last(calls).node.type, RecordOf(Last(calls))),
                              Last(Front(calls)), Last(calls).place, Last(calls).key)
           /\ calls' = Append(Front(Front(calls)), Got(Last(Front(calls)), Last(calls).place, Last(calls).key))
  BY DEF AddRecord, Idle, Top, WithRecord
<1>2. ModelTyped /\ NodesTyped /\ Good(nodes, data, calls, loaded)
  BY TypedTrees DEF Stable
<1>3. Good(nodes', data', calls', loaded')
  <2>1. CASE Len(calls) = 1
    BY <1>1, <1>2, <2>1, AddLastKeeps
  <2>2. CASE Len(calls) # 1
    BY <1>1, <1>2, <2>2, AddKeeps
  <2> QED
    BY <2>1, <2>2
<1> QED
  BY <1>1, <1>3, Primed

-----------------------------------------------------------------------------
LEMMA InitGood ==
  ASSUME Init, TreesTyped
  PROVE  Stable
<1>1. nodes = {} /\ data = NoData /\ calls = <<>> /\ loaded = <<>>
  BY DEF Init
<1>2. /\ DOMAIN NoData = {"records", "joins", "nextPk"}
      /\ DOMAIN NoData.records = Type /\ DOMAIN NoData.joins = JoinTables /\ DOMAIN NoData.nextPk = Type
      /\ \A t \in Type : NoData.records[t] = <<>> /\ NoData.nextPk[t] = 1
      /\ \A j \in JoinTables : NoData.joins[j] = <<>>
  BY DEF NoData
<1>3. IsSeq(<<>>) /\ DOMAIN <<>> = {} /\ Range(<<>>) = {}
  BY EmptySeqIs DEF Range
<1> DEFINE d == NoData
<1>4. Shaped(d)
  BY <1>2, <1>3 DEF Shaped
<1>5. PksGiven(d)
  BY <1>2, <1>3 DEF PksGiven
<1>6. HashesIn(d)
  <2> SUFFICES ASSUME NEW t \in model.reused, NEW i \in DOMAIN d.records[t], NEW j \in DOMAIN d.records[t],
                      d.records[t][i].hash = d.records[t][j].hash
               PROVE  i = j
    BY DEF HashesIn
  <2>1. t \in Type
    BY TypedTrees, FieldsTyped
  <2> QED
    BY <1>2, <1>3, <2>1
<1>7. Refers(d, <<>>)
  <2>1. ASSUME NEW t \in Type, NEW f \in RelationFields(t)
        PROVE  Range(d.joins[JoinOf(t, f)]) = {} /\ Range(d.records[f.other]) = {}
    BY <1>2, <1>3, TypedTrees, FieldsTyped, JoinTable
  <2> QED
    BY <2>1 DEF Refers
<1>8. OpenKeys(d, <<>>) /\ OpenHashes(d, <<>>)
  BY <1>3 DEF OpenKeys, OpenHashes
<1>9. Stacked({}, <<>>) /\ Progressing(d, <<>>)
  BY <1>3 DEF Stacked, Progressing
<1>10. Complete({}, d) /\ FilesLoaded(d, <<>>, <<>>)
  BY <1>2, <1>3 DEF Complete, FilesLoaded
<1> QED
  BY <1>1, <1>4, <1>5, <1>6, <1>7, <1>8, <1>9, <1>10 DEF Stable, Good

(***************************************************************************)
(* In whatever trees the parsers make, the extraction keeps the invariant. *)
(***************************************************************************)
THEOREM StableAlways == Spec /\ []TreesTyped => []Stable
<1>1. Init /\ TreesTyped => Stable
  BY InitGood
<1>2. Stable /\ TreesTyped /\ TreesTyped' /\ [Next]_vars => Stable'
  <2> SUFFICES ASSUME Stable, TreesTyped, TreesTyped', [Next]_vars PROVE Stable'
    OBVIOUS
  <2>1. ASSUME NEW file, NEW root \in nodes', nodes \subseteq nodes', ParseXml(file, root) PROVE Stable'
    BY <2>1, TypedTrees, ParseStep
  <2>2. ASSUME NEW p, TakeKnown(p) PROVE Stable'
    BY <2>2, TakeStep
  <2>3. ASSUME NEW p, ExtractChild(p) PROVE Stable'
    BY <2>3, ChildStep
  <2>4. CASE AddRecord
    BY <2>4, AddStep
  <2>5. CASE UNCHANGED vars
    BY <2>5, Primed DEF vars, Stable
  <2> QED
    BY <2>1, <2>2, <2>3, <2>4, <2>5 DEF Next, ExtractStep
<1> QED
  BY <1>1, <1>2, PTL DEF Spec

-----------------------------------------------------------------------------
(***************************************************************************)
(* What the invariant says between two files.                              *)
(***************************************************************************)
LEMMA OneRecord ==
  ASSUME NEW t \in Type, NEW key, PksGiven(data), HasPk(data, t, key)
  PROVE  Resolves(t, key)
<1> DEFINE S == {i \in DOMAIN data.records[t] : data.records[t][i].pk = key}
<1>1. PICK i \in DOMAIN data.records[t] : data.records[t][i].pk = key
  BY DEF HasPk, Range
<1>2. S = {i}
  BY <1>1 DEF PksGiven
<1> QED
  BY <1>2, FS_Singleton DEF Resolves

LEMMA ChildHasRecord ==
  ASSUME ModelTyped, Complete(nodes, data), NEW t \in Type, NEW r \in Range(data.records[t]),
         NEW f \in RelationFields(t), f.kind = "rel1", f.name \in DOMAIN r.child
  PROVE  HasPk(data, f.other, r.child[f.name])
<1>1. PICK n \in nodes : RecordFor(data, t, r, n)
  BY DEF Complete
<1>2. ChildKeys(data, t, r, f) = <<r.child[f.name]>>
  BY ChildKeysIs
<1>3. 1 \in DOMAIN <<r.child[f.name]>> /\ <<r.child[f.name]>>[1] = r.child[f.name]
  OBVIOUS
<1>4. HasRecord(data, f.other, r.child[f.name], Children(n, f)[1].hash)
  BY <1>1, <1>2, <1>3 DEF RecordFor
<1> QED
  BY <1>4, HasRecordIs DEF HasPk

(***************************************************************************)
(* Every temporary key designates one record of its table, so that the     *)
(* merge starts from a closed set of records (document.py, _extract_node). *)
(***************************************************************************)
THEOREM KeysAlwaysResolve == Spec /\ []TreesTyped => []KeysResolve
<1>1. Stable /\ TreesTyped => KeysResolve
  <2> SUFFICES ASSUME Stable, TreesTyped, Idle PROVE KeysResolve
    BY DEF KeysResolve
  <2>1. /\ PksGiven(data) /\ Refers(data, calls) /\ Complete(nodes, data) /\ FilesLoaded(data, calls, loaded)
        /\ ModelTyped /\ calls = <<>>
    BY TypedTrees DEF Stable, Good, Idle
  <2>2. \A t \in Type : \A key : HasPk(data, t, key) => Resolves(t, key)
    BY <2>1, OneRecord
  <2>3. \A t, key : ~OpenAs(calls, t, key)
    BY <2>1, EmptySeqIs DEF OpenAs
  <2>4. ASSUME NEW i \in DOMAIN loaded PROVE Resolves(model.root, loaded[i].key)
    <3>1. HasRecord(data, model.root, loaded[i].key, loaded[i].node.hash)
      BY <2>1 DEF FilesLoaded
    <3>2. HasPk(data, model.root, loaded[i].key) /\ model.root \in Type
      BY <2>1, <3>1, HasRecordIs, FieldsTyped DEF HasPk
    <3> QED
      BY <2>2, <3>2
  <2>5. ASSUME NEW t \in Type, NEW r \in Range(data.records[t]), NEW f \in RelationFields(t)
        PROVE  /\ f.kind = "rel1" /\ f.name \in DOMAIN r.child => Resolves(f.other, r.child[f.name])
               /\ f.other \notin model.reused => \A q \in Range(data.records[f.other]) : Resolves(t, q.parent)
               /\ \A row \in Range(data.joins[<<t, f.name>>]) : Resolves(t, row.self) /\ Resolves(f.other, row.other)
    <3>1. f.other \in Type
      BY <2>1, FieldsTyped
    <3>2. f.kind = "rel1" /\ f.name \in DOMAIN r.child => Resolves(f.other, r.child[f.name])
      BY <2>1, <2>2, <3>1, ChildHasRecord
    <3>3. f.other \notin model.reused => \A q \in Range(data.records[f.other]) : Resolves(t, q.parent)
      BY <2>1, <2>2, <2>3 DEF Refers
    <3>4. \A row \in Range(data.joins[JoinOf(t, f)]) : Resolves(t, row.self) /\ Resolves(f.other, row.other)
      BY <2>1, <2>2, <2>3, <3>1 DEF Refers
    <3> QED
      BY <3>2, <3>3, <3>4 DEF JoinOf
  <2> QED
    BY <2>4, <2>5 DEF KeysResolve
<1> QED
  BY <1>1, StableAlways, PTL

(***************************************************************************)
(* No hash is in a reused table twice, the hash map that _extract_node     *)
(* fills on its way back from the children notwithstanding.                *)
(***************************************************************************)
THEOREM HashesAlwaysOnce == Spec /\ []TreesTyped => []HashesOnce
<1>1. Stable => HashesOnce
  BY DEF Stable, Good, HashesIn, HashesOnce
<1> QED
  BY <1>1, StableAlways, PTL

(***************************************************************************)
(* Every record is that of a node of a document, with the records of its   *)
(* children in their order, and the record of a file is that of its root:  *)
(* sharing records by hash loses and misplaces none.                       *)
(***************************************************************************)
THEOREM RecordsAlwaysOfNodes == Spec /\ []TreesTyped => []RecordsOfNodes
<1>1. Stable => RecordsOfNodes
  BY DEF Stable, Good, Complete, FilesLoaded, Idle, RecordsOfNodes
<1> QED
  BY <1>1, StableAlways, PTL
=============================================================================
