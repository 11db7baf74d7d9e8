--------------------------- MODULE MetricsProofs ---------------------------
(***************************************************************************)
(* Facts about the contents of a storage, for every payload and width: the *)
(* arithmetic of int64, what the sums and loops of Metrics compute, and    *)
(* what one turn of the loop of BatchUpdate does to contents that account  *)
(* for their history.                                                      *)
(***************************************************************************)
EXTENDS Metrics, FiniteSetTheorems, SequenceTheorems, TLAPS

(* What Wrap returns fits an int64, whatever the sum was (storage.go:63). *)
LEMMA WrapRange == ASSUME NEW x \in Int PROVE Wrap(x) \in Int64
  <1> DEFINE width == 2 * HalfRange
  <1>1. HalfRange \in Nat \ {0}
    BY RangeAssumption
  <1>2. width \in Nat \ {0}
    BY <1>1
  <1>3. \A a \in Int : \A b \in Nat \ {0} : a % b \in 0..(b - 1)
    OBVIOUS
  <1>4. (x + HalfRange) % width \in 0..(width - 1)
    BY <1>1, <1>2, <1>3
  <1> QED
    BY <1>1, <1>4 DEF Wrap, Int64

LEMMA Int64IsInt == Int64 \subseteq Int
  BY RangeAssumption DEF Int64

LEMMA EmptyIsContents == Empty \in Contents
  BY DEF Empty, Contents

LEMMA PayloadType ==
  ASSUME NEW r \in Requests
  PROVE  Payload[r] \in Seq(Metric)
  BY PayloadAssumption

LEMMA TotalType ==
  ASSUME NEW k \in Contents, NEW n \in Names
  PROVE  Total(k.c, n) \in Int
  <1>1. k.c[n] \in Int64 \cup {Nil}
    BY DEF Contents
  <1> QED
    <2>1. CASE k.c[n] = Nil
      BY <2>1 DEF Total
    <2>2. CASE k.c[n] # Nil
      BY <1>1, <2>2, Int64IsInt DEF Total
    <2> QED
      BY <2>1, <2>2

(* A metric of a request is well formed (internal/model/metrics.go). *)
LEMMA MetricType ==
  ASSUME NEW r \in Requests, NEW i \in 1..Len(Payload[r])
  PROVE  LET m == Payload[r][i] IN
         /\ m.id \in Names
         /\ m.mtype = "gauge" => m.val \in GaugeVals \cup {Nil}
         /\ m.mtype = "counter" => m.val \in Int64 \cup {Nil}
  <1>1. Payload[r][i] \in Metric
    BY PayloadType
  <1> QED
    BY <1>1, PayloadAssumption DEF Metric

(* One turn of the loop of BatchUpdate leaves well formed contents, and    *)
(* counts one more metric of its request only (storage.go:55-67).          *)
LEMMA ApplyMetricType ==
  ASSUME NEW k \in Contents, NEW r \in Requests, CanApply(k, r)
  PROVE  LET k2 == ApplyMetric(k, r, Payload[r][NextIndex(k, r)]) IN
         /\ k2 \in Contents
         /\ k2.done = [k.done EXCEPT ![r] = k.done[r] + 1]
  <1> DEFINE m == Payload[r][NextIndex(k, r)]
             k2 == ApplyMetric(k, r, m)
  <1>1. k.done \in [Requests -> Nat] /\ k.g \in [Names -> GaugeVals \cup {Nil}]
        /\ k.c \in [Names -> Int64 \cup {Nil}]
    BY DEF Contents
  <1>2. NextIndex(k, r) \in 1..Len(Payload[r])
    BY <1>1, PayloadType DEF CanApply, NextIndex
  <1>3. /\ m.id \in Names
        /\ m.mtype = "gauge" => m.val \in GaugeVals \cup {Nil}
        /\ m.mtype = "counter" => m.val \in Int64 \cup {Nil}
    BY <1>2, MetricType
  <1>4. k2.g \in [Names -> GaugeVals \cup {Nil}]
    BY <1>1, <1>3 DEF ApplyMetric
  <1>5. k2.c \in [Names -> Int64 \cup {Nil}]
    <2>1. CASE m.mtype = "counter" /\ m.val # Nil
      <3>1. Total(k.c, m.id) + m.val \in Int
        BY <1>3, <2>1, TotalType, Int64IsInt
      <3>2. Wrap(Total(k.c, m.id) + m.val) \in Int64
        BY <3>1, WrapRange
      <3> QED
        BY <1>1, <2>1, <3>2 DEF ApplyMetric
    <2>2. CASE ~(m.mtype = "counter" /\ m.val # Nil)
      BY <1>1, <2>2 DEF ApplyMetric
    <2> QED
      BY <2>1, <2>2
  <1>6. k2.done = [k.done EXCEPT ![r] = k.done[r] + 1]
    BY DEF ApplyMetric
  <1>7. k2.done \in [Requests -> Nat]
    BY <1>1, <1>6
  <1>8. k2 = [g |-> k2.g, c |-> k2.c, done |-> k2.done]
    BY DEF ApplyMetric
  <1> QED
    BY <1>4, <1>5, <1>6, <1>7, <1>8 DEF Contents

-----------------------------------------------------------------------------
(***************************************************************************)
(* Folds.  The sums and replays of the model are folds over finite sets,   *)
(* which the library defines as functions on their subsets.  What they     *)
(* return follows from a smallest subset where it would not.               *)
(***************************************************************************)
LEMMA SmallestNumber ==
  ASSUME NEW T, T \subseteq Nat, T # {}
  PROVE  \E n \in T : \A m \in T : n <= m
  <1> DEFINE R == {ss \in Nat \X Nat : ss[1] < ss[2]}
  <1>1. IsWellFoundedOn(R, Nat)
    BY NatLessThanWellFounded DEF OpToRel
  <1>2. \E n \in T : \A m \in T : ~(<<m, n>> \in R)
    <2> HIDE DEF R
    <2> QED BY <1>1, WFMin
  <1>3. \A m, n \in T : <<m, n>> \in R <=> m < n
    OBVIOUS
  <1> HIDE DEF R
  <1>4. \A m, n \in T : ~(m < n) => n <= m
    OBVIOUS
  <1> QED
    BY <1>2, <1>3, <1>4

LEMMA SmallestSubset ==
  ASSUME NEW D, IsFiniteSet(D), NEW T, T \subseteq SUBSET D, T # {}
  PROVE  \E t \in T : \A u \in T : u \subseteq t => u = t
  <1> DEFINE R == StrictSubsetOrdering(D)
  <1>1. IsWellFoundedOn(R, SUBSET D)
    BY FS_FiniteSubsetsOfFinite, FS_StrictSubsetOrderingWellFounded
  <1>2. \E t \in T : \A u \in T : ~(<<u, t>> \in R)
    <2> HIDE DEF R
    <2> QED BY <1>1, WFMin
  <1>3. \A u, t \in T : <<u, t>> \in R <=> u \subseteq t /\ u # t
    BY DEF StrictSubsetOrdering
  <1> QED
    BY <1>2, <1>3

(* g is a fold over the subsets of D: it takes away the element pick chooses, and *)
(* joins it to the fold of the rest. *)
Picks(pick, D) == \A s \in SUBSET D : s # {} => pick[s] \in s

FoldsOver(g, D, base, pick, join) ==
  \A s \in SUBSET D :
    g[s] = IF s = {} THEN base ELSE join[pick[s]][g[s \ {pick[s]}]]

(* g is a function on those subsets and on nothing else. *)
OnSubsets(g, D) == g = [s \in SUBSET D |-> g[s]]

LEMMA FoldUnique ==
  ASSUME NEW D, IsFiniteSet(D), NEW base, NEW pick, NEW join, Picks(pick, D),
         NEW g, FoldsOver(g, D, base, pick, join),
         NEW h, FoldsOver(h, D, base, pick, join),
         NEW s \in SUBSET D
  PROVE  g[s] = h[s]
  <1> DEFINE T == {u \in SUBSET D : g[u] # h[u]}
  <1> SUFFICES ASSUME T # {} PROVE FALSE
    OBVIOUS
  <1>1. PICK t \in T : \A u \in T : u \subseteq t => u = t
    <2>1. T \subseteq SUBSET D
      OBVIOUS
    <2> HIDE DEF T
    <2> QED
      BY <2>1, SmallestSubset
  <1>2. t # {}
    BY <1>1 DEF FoldsOver
  <1> DEFINE u == t \ {pick[t]}
  <1>3. pick[t] \in t /\ u \in SUBSET D /\ u \subseteq t /\ u # t
    BY <1>1, <1>2 DEF Picks
  <1>4. g[u] = h[u]
    BY <1>1, <1>3
  <1>5. g[t] = join[pick[t]][g[u]] /\ h[t] = join[pick[t]][h[u]]
    BY <1>1, <1>2 DEF FoldsOver
  <1> QED
    BY <1>1, <1>4, <1>5

LEMMA FoldExists ==
  ASSUME NEW D, IsFiniteSet(D), NEW base, NEW pick, NEW join, Picks(pick, D)
  PROVE  \E g : OnSubsets(g, D) /\ FoldsOver(g, D, base, pick, join)
  <1> DEFINE Over(g, u) == FoldsOver(g, u, base, pick, join)
             T == {u \in SUBSET D : ~ \E g : Over(g, u)}
             gOf[u \in SUBSET D] == CHOOSE g : Over(g, u)
             rest(s) == s \ {pick[s]}
  <1>0. \A u \in SUBSET D : IsFiniteSet(u) /\ Picks(pick, u)
    BY FS_Subset DEF Picks
  <1>1. \A s \in SUBSET D : s # {} => rest(s) \in SUBSET D /\ rest(s) \subseteq s /\ rest(s) # s
    BY DEF Picks
  <1>2. ASSUME NEW t \in SUBSET D,
               \A u \in SUBSET t : u # t => \E g : Over(g, u)
        PROVE  \E g : OnSubsets(g, t) /\ Over(g, t)
    <2> DEFINE h == [s \in SUBSET t |->
                       IF s = {} THEN base ELSE join[pick[s]][gOf[rest(s)][rest(s)]]]
    <2>1. ASSUME NEW u \in SUBSET t, u # t
          PROVE  Over(gOf[u], u)
      BY <1>2, <2>1
    <2>2. ASSUME NEW s \in SUBSET t, s # {}
          PROVE  h[rest(s)] = gOf[rest(s)][rest(s)]
      <3> DEFINE r == rest(s)
      <3>0. r \in SUBSET t /\ r # t /\ r \in SUBSET D
        BY <1>1, <2>2
      <3>1. Over(gOf[r], r)
        BY <2>1, <3>0
      <3>2. CASE r = {}
        BY <3>1, <3>2 DEF FoldsOver
      <3>3. CASE r # {}
        <4>1. rest(r) \in SUBSET r /\ rest(r) # r /\ rest(r) \in SUBSET t /\ rest(r) # t
              /\ rest(r) \in SUBSET D
          BY <1>1, <3>0, <3>3
        <4>2. gOf[r][r] = join[pick[r]][gOf[r][rest(r)]]
          BY <3>1, <3>3 DEF FoldsOver
        <4>3. Over(gOf[rest(r)], rest(r))
          BY <2>1, <4>1
        <4>4. Over(gOf[r], rest(r))
          <5> HIDE DEF gOf
          <5> QED BY <3>1, <4>1 DEF FoldsOver
        <4>5. gOf[r][rest(r)] = gOf[rest(r)][rest(r)]
          <5> HIDE DEF gOf
          <5> QED BY <1>0, <4>1, <4>3, <4>4, FoldUnique
        <4>6. h[r] = join[pick[r]][gOf[rest(r)][rest(r)]]
          BY <3>0, <3>3
        <4> QED
          BY <4>2, <4>5, <4>6
      <3> QED
        BY <3>2, <3>3
    <2>3. OnSubsets(h, t)
      <3> HIDE DEF gOf
      <3> QED
        BY Zenon DEF OnSubsets
    <2>4. Over(h, t)
      <3> HIDE DEF gOf
      <3> QED
        BY <2>2 DEF FoldsOver
    <2> QED
      BY <2>3, <2>4
  <1>3. T = {}
    <2> SUFFICES ASSUME T # {} PROVE FALSE
      OBVIOUS
    <2>1. PICK t \in T : \A u \in T : u \subseteq t => u = t
      <3>1. T \subseteq SUBSET D
        OBVIOUS
      <3> HIDE DEF T
      <3> QED
        BY <3>1, SmallestSubset
    <2>2. \A u \in SUBSET t : u # t => \E g : Over(g, u)
      BY <2>1
    <2> QED
      BY <1>2, <2>1, <2>2
  <1>4. \A u \in SUBSET D : u # D => \E g : Over(g, u)
    BY <1>3
  <1> QED
    BY <1>2, <1>4

LEMMA FoldType ==
  ASSUME NEW D, IsFiniteSet(D), NEW Val, NEW base \in Val, NEW pick, Picks(pick, D),
         NEW join \in [D -> [Val -> Val]], NEW g, FoldsOver(g, D, base, pick, join),
         NEW s \in SUBSET D
  PROVE  g[s] \in Val
  <1> DEFINE T == {u \in SUBSET D : g[u] \notin Val}
  <1> SUFFICES ASSUME T # {} PROVE FALSE
    OBVIOUS
  <1>1. PICK t \in T : \A u \in T : u \subseteq t => u = t
    <2>1. T \subseteq SUBSET D
      OBVIOUS
    <2> HIDE DEF T
    <2> QED
      BY <2>1, SmallestSubset
  <1>2. t # {}
    BY <1>1 DEF FoldsOver
  <1> DEFINE u == t \ {pick[t]}
  <1>3. pick[t] \in t /\ u \in SUBSET D /\ u \subseteq t /\ u # t
    BY <1>1, <1>2 DEF Picks
  <1>4. g[u] \in Val
    BY <1>1, <1>3
  <1>5. g[t] = join[pick[t]][g[u]]
    BY <1>1, <1>2 DEF FoldsOver
  <1> QED
    BY <1>1, <1>3, <1>4, <1>5

-----------------------------------------------------------------------------
(* Sums of what metrics carry, whatever order they are added in. *)
SumOf(C) == MapThenSumSet(Carried, C)

Chosen == [s \in SUBSET (Requests \X Nat) |-> CHOOSE y \in s : TRUE]
Adds(D) == [x \in D |-> [v \in Int |-> Carried(x) + v]]

LEMMA SumIsFold ==
  ASSUME NEW D \in SUBSET (Requests \X Nat), IsFiniteSet(D), \A x \in D : Carried(x) \in Int
  PROVE  /\ Picks(Chosen, D)
         /\ \E g : FoldsOver(g, D, 0, Chosen, Adds(D)) /\ SumOf(D) = g[D]
  <1>1. Picks(Chosen, D)
    BY DEF Picks, Chosen
  <1> DEFINE join == Adds(D)
  <1>2. join \in [D -> [Int -> Int]]
    BY DEF Adds
  <1>3. PICK g : OnSubsets(g, D) /\ FoldsOver(g, D, 0, Chosen, join)
    <2> HIDE DEF join
    <2> QED
      BY <1>1, FoldExists
  <1>4. 0 \in Int
    OBVIOUS
  <1>5. \A s \in SUBSET D : g[s] \in Int
    <2> HIDE DEF join
    <2> QED
      BY <1>1, <1>2, <1>3, <1>4, FoldType, Zenon
  <1> DEFINE first(s) == CHOOSE y \in s : TRUE
             iter(f) == [s \in SUBSET D |->
                          IF s = {} THEN 0 ELSE Carried(first(s)) + f[s \ {first(s)}]]
  <1>6. ASSUME NEW s \in SUBSET D, s # {}
        PROVE  join[Chosen[s]][g[s \ {Chosen[s]}]] = Carried(first(s)) + g[s \ {first(s)}]
    <2>1. Chosen[s] = first(s)
      BY DEF Chosen
    <2>2. first(s) \in D /\ s \ {first(s)} \in SUBSET D
      BY <1>1, <1>6, <2>1 DEF Picks
    <2> HIDE DEF first
    <2> QED
      BY <1>5, <2>1, <2>2 DEF Adds
  <1>7. g = iter(g)
    <2>1. \A s \in SUBSET D : iter(g)[s] = g[s]
      <3> HIDE DEF join, first
      <3> QED
        BY <1>3, <1>6 DEF FoldsOver
    <2>2. g = [s \in SUBSET D |-> g[s]]
      BY <1>3, Zenon DEF OnSubsets
    <2>3. iter(g) = [s \in SUBSET D |-> iter(g)[s]]
      <3> HIDE DEF first
      <3> QED
        BY Zenon
    <2> HIDE DEF iter
    <2> QED
      BY <2>1, <2>2, <2>3, Zenon
  <1> DEFINE h == CHOOSE f : f = iter(f)
  <1>8. h = iter(h)
    <2> HIDE DEF iter
    <2> QED
      BY <1>7, Zenon
  <1>9. SumOf(D) = h[D]
    BY Zenon DEF SumOf, MapThenSumSet, MapThenFoldSet
  <1>10. \A s \in SUBSET D : h[s] = IF s = {} THEN 0 ELSE Carried(first(s)) + h[s \ {first(s)}]
    <2>1. \A s \in SUBSET D : iter(h)[s]
                              = IF s = {} THEN 0 ELSE Carried(first(s)) + h[s \ {first(s)}]
      <3> HIDE DEF first, h
      <3> QED
        BY Zenon
    <2> HIDE DEF iter, h
    <2> QED
      BY <1>8, <2>1
  <1>11. \A s \in SUBSET D : s # {} => /\ first(s) \in s /\ first(s) = Chosen[s]
                                       /\ s \ {first(s)} \in SUBSET D
    BY DEF Chosen
  <1> HIDE DEF h, first
  <1>12. \A s \in SUBSET D : h[s] \in Int
    <2> DEFINE T == {s \in SUBSET D : h[s] \notin Int}
    <2> SUFFICES ASSUME T # {} PROVE FALSE
      OBVIOUS
    <2>1. PICK t \in T : \A u \in T : u \subseteq t => u = t
      <3>1. T \subseteq SUBSET D
        OBVIOUS
      <3> HIDE DEF T
      <3> QED
        BY <3>1, SmallestSubset
    <2>2. t # {} /\ h[t] \notin Int /\ t \in SUBSET D
      BY <1>10, <2>1
    <2>3. first(t) \in D /\ h[t \ {first(t)}] \in Int
      BY <1>11, <2>1, <2>2
    <2> QED
      BY <1>10, <2>2, <2>3
  <1>13. FoldsOver(h, D, 0, Chosen, Adds(D))
    <2> SUFFICES ASSUME NEW s \in SUBSET D
                 PROVE  h[s] = IF s = {} THEN 0
                               ELSE Adds(D)[Chosen[s]][h[s \ {Chosen[s]}]]
      BY DEF FoldsOver
    <2>1. CASE s = {}
      BY <1>10, <2>1
    <2>2. CASE s # {}
      <3>1. first(s) \in D /\ h[s \ {first(s)}] \in Int
        BY <1>11, <1>12, <2>2
      <3> QED
        BY <1>10, <1>11, <2>2, <3>1 DEF Adds
    <2> QED
      BY <2>1, <2>2
  <1> QED
    BY <1>1, <1>9, <1>13

LEMMA SumAnyOrder ==
  ASSUME NEW D \in SUBSET (Requests \X Nat), IsFiniteSet(D), \A x \in D : Carried(x) \in Int,
         NEW g, FoldsOver(g, D, 0, Chosen, Adds(D)),
         NEW s \in SUBSET D
  PROVE  g[s] \in Int /\ \A y \in s : g[s] = g[s \ {y}] + Carried(y)
  <1> DEFINE T == {u \in SUBSET D : \E y \in u : g[u] # g[u \ {y}] + Carried(y)}
  <1>0. Picks(Chosen, D)
    BY SumIsFold
  <1>1. \A u \in SUBSET D : g[u] \in Int
    <2>1. Adds(D) \in [D -> [Int -> Int]] /\ 0 \in Int
      BY DEF Adds
    <2> QED
      BY <1>0, <2>1, FoldType, Zenon
  <1>2. \A u \in SUBSET D : u # {} => /\ Chosen[u] \in u
                                      /\ g[u] = Carried(Chosen[u]) + g[u \ {Chosen[u]}]
    <2> SUFFICES ASSUME NEW u \in SUBSET D, u # {}
                 PROVE  Chosen[u] \in u /\ g[u] = Carried(Chosen[u]) + g[u \ {Chosen[u]}]
      OBVIOUS
    <2>1. Chosen[u] \in u /\ g[u \ {Chosen[u]}] \in Int
      BY <1>0, <1>1 DEF Picks
    <2>2. g[u] = Adds(D)[Chosen[u]][g[u \ {Chosen[u]}]]
      BY DEF FoldsOver
    <2> QED
      BY <2>1, <2>2 DEF Adds
  <1>3. T = {}
    <2> SUFFICES ASSUME T # {} PROVE FALSE
      OBVIOUS
    <2>1. PICK t \in T : \A u \in T : u \subseteq t => u = t
      <3>1. T \subseteq SUBSET D
        OBVIOUS
      <3> HIDE DEF T
      <3> QED
        BY <3>1, SmallestSubset
    <2>2. PICK y \in t : g[t] # g[t \ {y}] + Carried(y)
      BY <2>1
    <2> DEFINE x == Chosen[t]
               lessX == t \ {x}
               lessY == t \ {y}
    <2>3. /\ t \in SUBSET D /\ x \in t /\ g[t] = Carried(x) + g[lessX]
          /\ Carried(x) \in Int /\ Carried(y) \in Int
      BY <1>2, <2>1
    <2>4. /\ lessX \in SUBSET D /\ lessX \subseteq t /\ lessX # t /\ g[lessX] \in Int
          /\ lessY \in SUBSET D /\ lessY \subseteq t /\ lessY # t /\ g[lessY] \in Int
      BY <1>1, <2>2, <2>3
    <2>5. ASSUME NEW u \in SUBSET D, u \subseteq t, u # t, NEW z \in u
          PROVE  g[u] = g[u \ {z}] + Carried(z)
      BY <2>1, <2>5
    <2>6. x # y
      <3>1. ASSUME x = y PROVE FALSE
        BY <2>2, <2>3, <2>4, <3>1
      <3> QED
        BY <3>1
    <2>7. x \in lessY /\ y \in lessX
      BY <2>2, <2>3, <2>6
    <2>8. lessX \ {y} = lessY \ {x} /\ g[lessY \ {x}] \in Int
      BY <1>1, <2>3
    <2> HIDE DEF lessX, lessY, x, T
    <2>9. g[lessX] = g[lessX \ {y}] + Carried(y)
      BY <2>4, <2>5, <2>7
    <2>10. g[lessY] = g[lessY \ {x}] + Carried(x)
      BY <2>4, <2>5, <2>7
    <2>11. g[t] # g[lessY] + Carried(y)
      BY <2>2 DEF lessY
    <2>12. g[lessX] = g[lessY \ {x}] + Carried(y)
      BY <2>8, <2>9
    <2>13. g[t] = Carried(x) + (g[lessY \ {x}] + Carried(y))
      BY <2>3, <2>12
    <2>14. g[t] # (g[lessY \ {x}] + Carried(x)) + Carried(y)
      BY <2>10, <2>11
    <2> DEFINE w == g[lessY \ {x}]
    <2> HIDE DEF w
    <2>15. w \in Int /\ g[t] = Carried(x) + (w + Carried(y)) /\ g[t] # (w + Carried(x)) + Carried(y)
      BY <2>8, <2>13, <2>14 DEF w
    <2> QED
      BY <2>3, <2>15
  <1> QED
    BY <1>1, <1>3

(* One metric more adds what it carries. *)
LEMMA SumAddsOne ==
  ASSUME NEW D \in SUBSET (Requests \X Nat), IsFiniteSet(D),
         NEW x \in (Requests \X Nat) \ D,
         \A y \in D \cup {x} : Carried(y) \in Int
  PROVE  SumOf(D) \in Int /\ SumOf(D \cup {x}) = SumOf(D) + Carried(x)
  <1> DEFINE E == D \cup {x}
  <1>1. IsFiniteSet(E) /\ E \in SUBSET (Requests \X Nat)
    BY FS_AddElement
  <1>2. PICK g : FoldsOver(g, E, 0, Chosen, Adds(E)) /\ SumOf(E) = g[E]
    <2> HIDE DEF E
    <2>1. \A y \in E : Carried(y) \in Int
      BY DEF E
    <2> QED
      BY <1>1, <2>1, SumIsFold
  <1>3. PICK h : FoldsOver(h, D, 0, Chosen, Adds(D)) /\ SumOf(D) = h[D]
    BY SumIsFold
  <1>4. h[D] \in Int
    BY <1>3, SumAnyOrder
  <1>5. FoldsOver(h, D, 0, Chosen, Adds(E))
    <2>1. Picks(Chosen, D)
      BY SumIsFold
    <2>2. \A y \in D : Adds(E)[y] = Adds(D)[y]
      BY DEF Adds
    <2> QED
      BY <1>3, <2>1, <2>2 DEF FoldsOver, Picks
  <1>6. FoldsOver(g, D, 0, Chosen, Adds(E))
    BY <1>2 DEF FoldsOver
  <1>7. g[D] = h[D]
    <2>1. Picks(Chosen, D) /\ D \in SUBSET D
      BY SumIsFold
    <2> DEFINE join == Adds(E)
    <2>2. FoldsOver(g, D, 0, Chosen, join) /\ FoldsOver(h, D, 0, Chosen, join)
      BY <1>5, <1>6
    <2> HIDE DEF E, join
    <2> QED
      BY <2>1, <2>2, FoldUnique
  <1>8. g[E] = g[E \ {x}] + Carried(x)
    <2>1. x \in E /\ E \in SUBSET E /\ \A y \in E : Carried(y) \in Int
      OBVIOUS
    <2> HIDE DEF E
    <2> QED
      BY <1>1, <1>2, <2>1, SumAnyOrder
  <1>9. E \ {x} = D
    OBVIOUS
  <1> QED
    BY <1>2, <1>3, <1>4, <1>7, <1>8, <1>9

LEMMA SumOfNothing == SumOf({}) = 0
  <1>1. {} \in SUBSET (Requests \X Nat) /\ IsFiniteSet({}) /\ \A x \in {} : Carried(x) \in Int
    BY FS_EmptySet
  <1>2. PICK g : FoldsOver(g, {}, 0, Chosen, Adds({})) /\ SumOf({}) = g[{}]
    BY <1>1, SumIsFold
  <1> QED
    BY <1>2 DEF FoldsOver

-----------------------------------------------------------------------------
(* Folds over a sequence, from the left. *)

(* Induction up to n, on the set of numbers a claim is true of. *)
LEMMA UpTo ==
  ASSUME NEW n \in Nat, NEW P, 0 \in P, \A i \in 1..n : i - 1 \in P => i \in P
  PROVE  \A i \in 0..n : i \in P
  <1> DEFINE T == {i \in 0..n : i \notin P}
  <1> SUFFICES ASSUME T # {} PROVE FALSE
    OBVIOUS
  <1>1. PICK i \in T : \A j \in T : i <= j
    <2>1. T \subseteq Nat
      OBVIOUS
    <2> HIDE DEF T
    <2> QED
      BY <2>1, SmallestNumber
  <1>2. i \in 1..n /\ i - 1 \in 0..n /\ ~(i <= i - 1)
    BY <1>1
  <1> QED
    BY <1>1, <1>2

LEMMA MaxIsLargest ==
  ASSUME NEW n \in Nat, NEW s \in SUBSET (1..n), s # {}
  PROVE  Max(s) \in s /\ \A y \in s : Max(s) >= y
  <1> DEFINE T == {n - y : y \in s}
  <1>1. T \subseteq Nat /\ T # {}
    <2>1. \A y \in s : n - y \in Nat
      OBVIOUS
    <2> QED
      BY <2>1
  <1>2. PICK d \in T : \A e \in T : d <= e
    <2> HIDE DEF T
    <2> QED
      BY <1>1, SmallestNumber
  <1>3. PICK x \in s : d = n - x
    BY <1>2
  <1>4. \A y \in s : n - x <= n - y
    BY <1>2, <1>3
  <1>5. \A y \in s : x >= y
    BY <1>4
  <1> QED
    BY <1>5 DEF Max

LEMMA MaxUpTo ==
  ASSUME NEW n \in Nat, NEW i \in 1..n
  PROVE  /\ 1..i \in SUBSET (1..n) /\ 1..i # {}
         /\ Max(1..i) = i /\ (1..i) \ {i} = 1..(i - 1)
  <1>1. 1..i \in SUBSET (1..n) /\ 1..i # {} /\ i \in 1..i
    OBVIOUS
  <1>2. Max(1..i) \in 1..i /\ Max(1..i) >= i
    BY <1>1, MaxIsLargest
  <1> QED
    BY <1>1, <1>2

Latest(n) == [s \in SUBSET (1..n) |-> Max(s)]

LEMMA LeftFoldExists ==
  ASSUME NEW n \in Nat, NEW Val, NEW base \in Val, NEW join \in [1..n -> [Val -> Val]]
  PROVE  \E g : /\ OnSubsets(g, 1..n) /\ FoldsOver(g, 1..n, base, Latest(n), join)
                /\ \A s \in SUBSET (1..n) : g[s] \in Val
  <1>1. IsFiniteSet(1..n)
    BY FS_Interval
  <1>2. Picks(Latest(n), 1..n)
    BY MaxIsLargest DEF Picks, Latest
  <1>3. PICK g : OnSubsets(g, 1..n) /\ FoldsOver(g, 1..n, base, Latest(n), join)
    BY <1>1, <1>2, FoldExists
  <1>4. \A s \in SUBSET (1..n) : g[s] \in Val
    BY <1>1, <1>2, <1>3, FoldType
  <1> QED
    BY <1>3, <1>4

(* A metric the handlers can pass on: PayloadAssumption, for one metric. *)
WellFormed(m) == /\ m.id \in Names
                 /\ m.mtype = "gauge" => m.val \in GaugeVals \cup {Nil}
                 /\ m.mtype = "counter" => m.val \in Int64 \cup {Nil}

LEMMA ApplyOneType ==
  ASSUME NEW k \in Contents, NEW r \in Requests, NEW m, WellFormed(m)
  PROVE  ApplyMetric(k, r, m) \in Contents
  <1> DEFINE k2 == ApplyMetric(k, r, m)
  <1>1. k.done \in [Requests -> Nat] /\ k.g \in [Names -> GaugeVals \cup {Nil}]
        /\ k.c \in [Names -> Int64 \cup {Nil}]
    BY DEF Contents
  <1>2. k2.g \in [Names -> GaugeVals \cup {Nil}]
    BY <1>1 DEF ApplyMetric, WellFormed
  <1>3. k2.c \in [Names -> Int64 \cup {Nil}]
    <2>1. CASE m.mtype = "counter" /\ m.val # Nil
      <3>1. Total(k.c, m.id) + m.val \in Int
        <4>1. m.id \in Names /\ m.val \in Int
          BY <2>1, Int64IsInt DEF WellFormed
        <4>2. Total(k.c, m.id) \in Int
          BY <4>1, TotalType
        <4> QED
          BY <4>1, <4>2
      <3>2. Wrap(Total(k.c, m.id) + m.val) \in Int64
        BY <3>1, WrapRange
      <3> QED
        BY <1>1, <2>1, <3>2 DEF ApplyMetric
    <2>2. CASE ~(m.mtype = "counter" /\ m.val # Nil)
      BY <1>1, <2>2 DEF ApplyMetric
    <2> QED
      BY <2>1, <2>2
  <1>4. k2.done \in [Requests -> Nat]
    BY <1>1 DEF ApplyMetric
  <1>5. k2 = [g |-> k2.g, c |-> k2.c, done |-> k2.done]
    BY DEF ApplyMetric
  <1> QED
    BY <1>2, <1>3, <1>4, <1>5 DEF Contents

(* What a loop over the metrics of request r makes of contents k. *)
Batch(k, r, metrics) == FoldLeft(LAMBDA acc, m : ApplyMetric(acc, r, m), k, metrics)

(* The contents after each turn of the loop. *)
Turns(f, k, r, metrics) ==
  /\ f[0] = k
  /\ \A i \in 1..Len(metrics) : f[i] = ApplyMetric(f[i - 1], r, metrics[i])

LEMMA BatchTurns ==
  ASSUME NEW k \in Contents, NEW r \in Requests, NEW metrics \in Seq(Metric),
         \A i \in 1..Len(metrics) : WellFormed(metrics[i])
  PROVE  \E f : Turns(f, k, r, metrics) /\ Batch(k, r, metrics) = f[Len(metrics)]
  <1> DEFINE n == Len(metrics)
             join == [i \in 1..n |-> [v \in Contents |-> ApplyMetric(v, r, metrics[i])]]
             last(s) == Max(s)
             iter(f) == [s \in SUBSET (1..n) |->
                          IF s = {} THEN k
                          ELSE ApplyMetric(f[s \ {last(s)}], r, metrics[last(s)])]
  <1>1. n \in Nat /\ DOMAIN metrics = 1..n
    OBVIOUS
  <1>2. join \in [1..n -> [Contents -> Contents]]
    BY ApplyOneType
  <1>3. PICK g : /\ OnSubsets(g, 1..n) /\ FoldsOver(g, 1..n, k, Latest(n), join)
                 /\ \A s \in SUBSET (1..n) : g[s] \in Contents
    <2> HIDE DEF join, n
    <2> QED
      BY <1>1, <1>2, LeftFoldExists
  <1>4. \A s \in SUBSET (1..n) : s # {} => /\ last(s) \in s /\ last(s) = Latest(n)[s]
                                          /\ s \ {last(s)} \in SUBSET (1..n)
    BY <1>1, MaxIsLargest DEF Latest
  <1>5. \A i \in 1..n : /\ 1..i \in SUBSET (1..n) /\ 1..i # {}
                        /\ last(1..i) = i /\ (1..i) \ {i} = 1..(i - 1)
    <2> HIDE DEF n
    <2> QED
      BY <1>1, MaxUpTo
  <1>6. \A s \in SUBSET (1..n) : g[s] = IF s = {} THEN k
                                  ELSE ApplyMetric(g[s \ {last(s)}], r, metrics[last(s)])
    <2> SUFFICES ASSUME NEW s \in SUBSET (1..n)
                 PROVE  g[s] = IF s = {} THEN k
                               ELSE ApplyMetric(g[s \ {last(s)}], r, metrics[last(s)])
      OBVIOUS
    <2>1. CASE s = {}
      BY <1>3, <2>1 DEF FoldsOver
    <2>2. CASE s # {}
      <3>1. g[s] = join[last(s)][g[s \ {last(s)}]]
        <4> HIDE DEF join, last, n
        <4> QED
          BY <1>3, <1>4, <2>2 DEF FoldsOver
      <3>2. last(s) \in 1..n /\ g[s \ {last(s)}] \in Contents
        BY <1>3, <1>4, <2>2
      <3> HIDE DEF last, n
      <3> QED
        BY <2>2, <3>1, <3>2
    <2> QED
      BY <2>1, <2>2
  <1> HIDE DEF last, join
  <1>7. g = iter(g)
    <2>1. \A s \in SUBSET (1..n) : iter(g)[s] = g[s]
      BY <1>6
    <2>2. g = [s \in SUBSET (1..n) |-> g[s]]
      BY <1>3, Zenon DEF OnSubsets
    <2>3. iter(g) = [s \in SUBSET (1..n) |-> iter(g)[s]]
      BY Zenon
    <2> HIDE DEF iter
    <2> QED
      BY <2>1, <2>2, <2>3, Zenon
  <1> DEFINE h == CHOOSE f : f = iter(f)
  <1>8. h = iter(h)
    <2> HIDE DEF iter
    <2> QED
      BY <1>7, Zenon
  <1>9. Batch(k, r, metrics) = h[1..n]
    <2>1. Batch(k, r, metrics) = (CHOOSE f : f = [s \in SUBSET (DOMAIN metrics) |->
                          IF s = {} THEN k
                          ELSE ApplyMetric(f[s \ {Max(s)}], r, metrics[Max(s)])])[DOMAIN metrics]
      BY Zenon DEF Batch, FoldLeft, MapThenFoldSet
    <2> HIDE DEF n
    <2> QED
      BY <1>1, <2>1, Zenon DEF last
  <1>10. \A s \in SUBSET (1..n) : h[s] = IF s = {} THEN k
                                   ELSE ApplyMetric(h[s \ {last(s)}], r, metrics[last(s)])
    <2>1. \A s \in SUBSET (1..n) : iter(h)[s] = IF s = {} THEN k
                                   ELSE ApplyMetric(h[s \ {last(s)}], r, metrics[last(s)])
      <3> HIDE DEF h
      <3> QED
        BY Zenon
    <2> HIDE DEF iter, h
    <2> QED
      BY <1>8, <2>1
  <1> DEFINE f == [i \in 0..n |-> h[1..i]]
  <1> HIDE DEF h, iter, n
  <1>11. f[0] = k
    <2>1. 1..0 = {} /\ {} \in SUBSET (1..n) /\ 0 \in 0..n
      BY <1>1
    <2> QED
      BY <1>10, <2>1
  <1>12. \A i \in 1..n : f[i] = ApplyMetric(f[i - 1], r, metrics[i])
    <2> SUFFICES ASSUME NEW i \in 1..n PROVE f[i] = ApplyMetric(f[i - 1], r, metrics[i])
      OBVIOUS
    <2>1. h[1..i] = ApplyMetric(h[1..(i - 1)], r, metrics[i])
      BY <1>5, <1>10
    <2>2. i \in 0..n /\ i - 1 \in 0..n
      BY <1>1
    <2> QED
      BY <2>1, <2>2
  <1>13. f[n] = Batch(k, r, metrics)
    BY <1>1, <1>9
  <1> HIDE DEF f
  <1> QED
    BY <1>11, <1>12, <1>13 DEF Turns, n

LEMMA EmptyBatch ==
  ASSUME NEW k \in Contents, NEW r \in Requests
  PROVE  Batch(k, r, <<>>) = k
  <1>1. <<>> \in Seq(Metric) /\ Len(<<>>) = 0 /\ \A i \in 1..0 : WellFormed(<<>>[i])
    OBVIOUS
  <1>2. PICK f : Turns(f, k, r, <<>>) /\ Batch(k, r, <<>>) = f[Len(<<>>)]
    BY <1>1, BatchTurns
  <1> QED
    BY <1>1, <1>2 DEF Turns

(* The loop does its first turn and then what is left. *)
LEMMA FirstTurn ==
  ASSUME NEW k \in Contents, NEW r \in Requests, NEW metrics \in Seq(Metric), metrics # <<>>,
         \A i \in 1..Len(metrics) : WellFormed(metrics[i])
  PROVE  Batch(k, r, metrics) = Batch(ApplyMetric(k, r, metrics[1]), r, Tail(metrics))
  <1> DEFINE n == Len(metrics)
             k2 == ApplyMetric(k, r, metrics[1])
             others == Tail(metrics)
  <1>1. /\ n \in Nat /\ n >= 1 /\ others \in Seq(Metric) /\ Len(others) = n - 1
        /\ \A i \in 1..(n - 1) : others[i] = metrics[i + 1]
    OBVIOUS
  <1>2. k2 \in Contents
    BY <1>1, ApplyOneType
  <1>3. PICK f : Turns(f, k, r, metrics) /\ Batch(k, r, metrics) = f[n]
    BY BatchTurns
  <1> HIDE DEF k2, others, n
  <1>4. PICK h : Turns(h, k2, r, others) /\ Batch(k2, r, others) = h[n - 1]
    <2>1. \A i \in 1..Len(others) : WellFormed(others[i])
      BY <1>1 DEF n
    <2>2. others \in Seq(Metric) /\ Len(others) = n - 1
      BY <1>1
    <2>3. \E h : Turns(h, k2, r, others) /\ Batch(k2, r, others) = h[Len(others)]
      BY <1>2, <2>1, <2>2, BatchTurns
    <2> QED
      BY <2>2, <2>3
  <1> DEFINE P == {i \in 0..(n - 1) : h[i] = f[i + 1]}
  <1>5. 0 \in P
    BY <1>1, <1>3, <1>4 DEF Turns, k2, n
  <1>6. ASSUME NEW i \in 1..(n - 1), i - 1 \in P PROVE i \in P
    <2>1. /\ h[i - 1] = f[i] /\ i \in 1..Len(others) /\ i + 1 \in 1..Len(metrics)
          /\ (i + 1) - 1 = i /\ i \in 0..(n - 1) /\ others[i] = metrics[i + 1]
      BY <1>1, <1>6 DEF n
    <2>2. h[i] = ApplyMetric(f[i], r, metrics[i + 1])
      BY <1>4, <2>1 DEF Turns
    <2>3. f[i + 1] = ApplyMetric(f[i], r, metrics[i + 1])
      BY <1>3, <2>1 DEF Turns
    <2> QED
      BY <2>1, <2>2, <2>3
  <1>7. n - 1 \in P
    <2>1. n - 1 \in Nat /\ n - 1 \in 0..(n - 1)
      BY <1>1
    <2> HIDE DEF P
    <2> QED
      BY <1>5, <1>6, <2>1, UpTo
  <1> QED
    BY <1>1, <1>3, <1>4, <1>7 DEF k2, others

LEMMA ValidPrefixIs ==
  ASSUME NEW r \in Requests
  PROVE  /\ ValidPrefix(r) \in 0..Len(Payload[r])
         /\ \A j \in 1..ValidPrefix(r) : Payload[r][j].mtype # "unknown"
         /\ ValidPrefix(r) < Len(Payload[r]) =>
              Payload[r][ValidPrefix(r) + 1].mtype = "unknown"
  <1> DEFINE n == Len(Payload[r])
             known(i) == \A j \in 1..i : Payload[r][j].mtype # "unknown"
             S == {i \in 0..n : known(i)}
             T == {n - i : i \in S}
  <1>1. n \in Nat
    BY PayloadType
  <1>2. 0 \in S
    BY <1>1
  <1>3. T \subseteq Nat /\ T # {}
    <2>1. \A i \in S : n - i \in Nat
      BY <1>1
    <2> QED
      BY <1>2, <2>1
  <1>4. PICK d \in T : \A e \in T : d <= e
    <2> HIDE DEF T
    <2> QED
      BY <1>3, SmallestNumber
  <1>5. PICK x \in S : d = n - x
    BY <1>4
  <1>6. \A i \in S : x >= i
    <2>1. \A i \in S : n - x <= n - i
      BY <1>4, <1>5
    <2> QED
      BY <1>1, <2>1
  <1>7. ValidPrefix(r) \in S /\ \A i \in S : ValidPrefix(r) >= i
    <2> HIDE DEF S
    <2>1. Max(S) \in S /\ \A i \in S : Max(S) >= i
      BY <1>6 DEF Max
    <2> QED
      BY <2>1 DEF S, ValidPrefix
  <1> DEFINE v == ValidPrefix(r)
  <1>8. v < n => Payload[r][v + 1].mtype = "unknown"
    <2> SUFFICES ASSUME v < n, Payload[r][v + 1].mtype # "unknown" PROVE FALSE
      OBVIOUS
    <2> HIDE DEF v
    <2>1. v \in 0..n /\ known(v) /\ \A i \in S : v >= i
      BY <1>7 DEF v
    <2>2. v + 1 \in 0..n /\ 1..(v + 1) = 1..v \cup {v + 1}
      BY <1>1, <2>1
    <2>3. known(v + 1)
      BY <2>1, <2>2
    <2>4. v + 1 \in S
      BY <2>2, <2>3
    <2> QED
      BY <1>1, <2>1, <2>4
  <1> QED
    BY <1>7, <1>8

(* Request r has got past nothing it should have stopped at. *)
InPrefix(k, r) == k.done[r] <= ValidPrefix(r)

(* The loop stops where the valid prefix of its request does. *)
LEMMA LoopEnds ==
  ASSUME NEW k \in Contents, NEW r \in Requests, InPrefix(k, r)
  PROVE  /\ CanApply(k, r) <=> k.done[r] < ValidPrefix(r)
         /\ ~CanApply(k, r) => (Complete(k, r) <=> Verdict(r) = "ok")
  <1>1. k.done[r] \in Nat /\ Len(Payload[r]) \in Nat
    BY PayloadType DEF Contents
  <1> HIDE DEF ValidPrefix
  <1>2. CanApply(k, r) <=> k.done[r] < ValidPrefix(r)
    BY <1>1, ValidPrefixIs DEF CanApply, NextIndex, InPrefix
  <1>3. ~CanApply(k, r) => k.done[r] = ValidPrefix(r)
    BY <1>1, <1>2, ValidPrefixIs DEF InPrefix
  <1> QED
    BY <1>2, <1>3 DEF Complete, Verdict

(* A turn of the loop of request r takes nothing from what it comes to.    *)
LEMMA RestOfTurn ==
  ASSUME NEW k \in Contents, NEW r \in Requests, InPrefix(k, r), CanApply(k, r)
  PROVE  LET k2 == ApplyMetric(k, r, Payload[r][NextIndex(k, r)]) IN
         InPrefix(k2, r) /\ ApplyRest(k2, r) = ApplyRest(k, r)
  <1> DEFINE m == Payload[r][NextIndex(k, r)]
             k2 == ApplyMetric(k, r, m)
             d == k.done[r]
             v == ValidPrefix(r)
             rest == SubSeq(Payload[r], d + 1, v)
  <1>1. /\ d \in Nat /\ v \in Nat /\ d < v /\ v <= Len(Payload[r]) /\ Len(Payload[r]) \in Nat
        /\ Payload[r] \in Seq(Metric)
    BY LoopEnds, ValidPrefixIs, PayloadType DEF Contents
  <1>2. k2 \in Contents /\ k2.done[r] = d + 1
    <2>1. k2 \in Contents /\ k2.done = [k.done EXCEPT ![r] = d + 1]
      BY ApplyMetricType
    <2> QED
      BY <2>1 DEF Contents
  <1>3. InPrefix(k2, r)
    BY <1>1, <1>2 DEF InPrefix
  <1> HIDE DEF v, d
  <1>4. /\ rest \in Seq(Metric) /\ Len(rest) = v - d
        /\ \A i \in 1..(v - d) : rest[i] = Payload[r][d + i]
    BY <1>1
  <1>5. rest # <<>> /\ rest[1] = m
    <2>1. m = Payload[r][d + 1]
      BY DEF NextIndex, d
    <2> HIDE DEF rest, m
    <2> QED
      BY <1>1, <1>4, <2>1
  <1>6. Tail(rest) = SubSeq(Payload[r], (d + 1) + 1, v)
    <2> DEFINE a == Tail(rest)
               b == SubSeq(Payload[r], (d + 1) + 1, v)
    <2>1. /\ a \in Seq(Metric) /\ Len(a) = v - d - 1
          /\ \A i \in 1..(v - d - 1) : a[i] = Payload[r][d + 1 + i]
      <3> HIDE DEF rest
      <3> QED
        BY <1>1, <1>4
    <2>2. /\ b \in Seq(Metric) /\ Len(b) = v - d - 1
          /\ \A i \in 1..(v - d - 1) : b[i] = Payload[r][d + 1 + i]
      BY <1>1
    <2>3. a = b
      <3> HIDE DEF a, b
      <3> QED
        BY <2>1, <2>2, SeqEqual
    <2> QED
      BY <2>3
  <1>7. \A i \in 1..Len(rest) : WellFormed(rest[i])
    <2>1. \A i \in 1..Len(rest) : d + i \in 1..Len(Payload[r])
      BY <1>1, <1>4
    <2> QED
      BY <1>4, <2>1, MetricType DEF WellFormed
  <1>8. Batch(k, r, rest) = Batch(k2, r, Tail(rest))
    <2> HIDE DEF rest
    <2> QED
      BY <1>4, <1>5, <1>7, FirstTurn
  <1>9. ApplyRest(k, r) = Batch(k, r, rest)
    BY DEF ApplyRest, Batch, NextIndex, d, v
  <1>10. ApplyRest(k2, r) = Batch(k2, r, SubSeq(Payload[r], (d + 1) + 1, v))
    <2> HIDE DEF k2
    <2> QED
      BY <1>2 DEF ApplyRest, Batch, NextIndex, v
  <1> QED
    BY <1>3, <1>6, <1>8, <1>9, <1>10

LEMMA RestOfNothing ==
  ASSUME NEW k \in Contents, NEW r \in Requests, InPrefix(k, r), ~CanApply(k, r)
  PROVE  ApplyRest(k, r) = k
  <1> DEFINE v == ValidPrefix(r)
  <1>1. v \in 0..Len(Payload[r]) /\ k.done[r] \in Nat /\ ~(k.done[r] < v) /\ k.done[r] <= v
        /\ Payload[r] \in Seq(Metric)
    BY LoopEnds, ValidPrefixIs, PayloadType DEF Contents, InPrefix
  <1> HIDE DEF v
  <1>2. SubSeq(Payload[r], NextIndex(k, r), v) = <<>>
    BY <1>1 DEF NextIndex
  <1>3. ApplyRest(k, r) = Batch(k, r, <<>>)
    BY <1>2 DEF ApplyRest, Batch, v
  <1> QED
    BY <1>3, EmptyBatch

-----------------------------------------------------------------------------
(* Remainders, which is what an int64 keeps of a sum. *)
LEMMA DivMod ==
  ASSUME NEW w \in Nat \ {0}, NEW x \in Int
  PROVE  /\ x = w * (x \div w) + (x % w)
         /\ x \div w \in Int /\ x % w \in 0..(w - 1)
  OBVIOUS

LEMMA SmallMultiple ==
  ASSUME NEW w \in Nat \ {0}, NEW z \in Int, w * z < w, -w < w * z
  PROVE  z = 0
  <1>1. CASE z >= 1
    <2>1. w * z >= w
      BY <1>1
    <2> QED
      BY <2>1
  <1>2. CASE z <= -1
    <2>1. w * z <= -w
      BY <1>2
    <2> QED
      BY <2>1
  <1> QED
    BY <1>1, <1>2

LEMMA Distributes ==
  ASSUME NEW w \in Int, NEW a \in Int, NEW b \in Int, NEW c \in Int
  PROVE  w * (a + b - c) = w * a + w * b - w * c
  OBVIOUS

LEMMA ModShift ==
  ASSUME NEW w \in Nat \ {0}, NEW x \in Int, NEW q \in Int
  PROVE  (x + w * q) % w = x % w
  <1> DEFINE y == x + w * q
             a == x \div w
             b == y \div w
             z == q + a - b
  <1>1. y \in Int /\ w * q \in Int
    OBVIOUS
  <1>2. x = w * a + (x % w) /\ a \in Int /\ x % w \in 0..(w - 1)
    BY DivMod
  <1> HIDE DEF y, a, b
  <1>3. y = w * b + (y % w) /\ b \in Int /\ y % w \in 0..(w - 1)
    BY <1>1, DivMod DEF b
  <1>4. w * z = w * q + w * a - w * b
    BY <1>2, <1>3, Distributes
  <1>5. w * a \in Int /\ w * b \in Int /\ z \in Int /\ w * z \in Int
    BY <1>2, <1>3
  <1>6. w * z = (y % w) - (x % w)
    <2> DEFINE wq == w * q
               wa == w * a
               wb == w * b
               rx == x % w
               ry == y % w
    <2>1. y = x + wq /\ wq \in Int /\ wa \in Int /\ wb \in Int /\ rx \in Int /\ ry \in Int
      BY <1>1, <1>2, <1>3, <1>5 DEF y
    <2>2. x = wa + rx /\ y = wb + ry /\ w * z = wq + wa - wb
      BY <1>2, <1>3, <1>4
    <2> HIDE DEF wq, wa, wb, rx, ry
    <2>3. w * z = ry - rx
      BY <2>1, <2>2
    <2> QED
      BY <2>3 DEF rx, ry
  <1> HIDE DEF z
  <1>7. z = 0
    BY <1>2, <1>3, <1>5, <1>6, SmallMultiple
  <1>8. w * z = 0
    BY <1>7
  <1>9. y % w = x % w
    BY <1>2, <1>3, <1>6, <1>8
  <1> QED
    BY <1>9 DEF y

LEMMA ModAdd ==
  ASSUME NEW w \in Nat \ {0}, NEW x \in Int, NEW d \in Int
  PROVE  ((x % w) + d) % w = (x + d) % w
  <1> DEFINE q == x \div w
             y == (x % w) + d
  <1>1. q \in Int /\ x % w \in Int /\ x = w * q + (x % w) /\ w * q \in Int
    BY DivMod
  <1> HIDE DEF q
  <1>2. x + d = y + w * q /\ y \in Int
    BY <1>1
  <1> HIDE DEF y
  <1>3. (y + w * q) % w = y % w
    BY <1>1, <1>2, ModShift
  <1> QED
    BY <1>2, <1>3 DEF y

LEMMA ModOfSmall ==
  ASSUME NEW w \in Nat \ {0}, NEW x \in 0..(w - 1)
  PROVE  x % w = x
  OBVIOUS

(* It does not matter whether a counter wraps at each addition or once.    *)
LEMMA WrapAdd ==
  ASSUME NEW x \in Int, NEW d \in Int
  PROVE  Wrap(Wrap(x) + d) = Wrap(x + d)
  <1> DEFINE w == 2 * HalfRange
             y == x + HalfRange
  <1>1. HalfRange \in Int /\ w \in Nat \ {0} /\ y \in Int
    BY RangeAssumption
  <1>2. y % w \in Int
    BY <1>1, DivMod
  <1>3. Wrap(x) = (y % w) - HalfRange
    BY DEF Wrap
  <1>4. Wrap(Wrap(x) + d) = ((((y % w) - HalfRange) + d + HalfRange) % w) - HalfRange
    BY <1>3 DEF Wrap
  <1>5. Wrap(x + d) = ((x + d + HalfRange) % w) - HalfRange
    BY DEF Wrap
  <1> HIDE DEF w
  <1>6. ((y % w) - HalfRange) + d + HalfRange = (y % w) + d
    <2> DEFINE rem == y % w
    <2> HIDE DEF rem
    <2>1. rem \in Int
      BY <1>2 DEF rem
    <2>2. (rem - HalfRange) + d + HalfRange = rem + d
      BY <1>1, <2>1
    <2> QED
      BY <2>2 DEF rem
  <1>7. x + d + HalfRange = y + d
    BY <1>1
  <1> HIDE DEF y
  <1>8. ((y % w) + d) % w = (y + d) % w
    BY <1>1, ModAdd
  <1> QED
    BY <1>4, <1>5, <1>6, <1>7, <1>8

LEMMA WrapOfInt64 ==
  ASSUME NEW x \in Int64
  PROVE  Wrap(x) = x
  <1> DEFINE w == 2 * HalfRange
  <1>1. HalfRange \in Int /\ w \in Nat \ {0} /\ x \in Int /\ x + HalfRange \in 0..(w - 1)
    BY RangeAssumption DEF Int64
  <1>2. (x + HalfRange) % w = x + HalfRange
    <2> HIDE DEF w
    <2> QED
      BY <1>1, ModOfSmall
  <1> QED
    BY <1>1, <1>2 DEF Wrap

-----------------------------------------------------------------------------
(***************************************************************************)
(* Accounted holds of whatever the loops of updates make of an empty       *)
(* storage: a turn adds one metric to the history, and to the sum of one   *)
(* counter or to the choices of one gauge.                                 *)
(***************************************************************************)
CountsIn(k, n) == {x \in Included(k) : Counts(x[1], x[2], n)}
GaugesIn(k, n) == {x \in Included(k) : Gauges(x[1], x[2], n)}

(* Contents that are what their history says, a finite history of metrics  *)
(* that were there to be applied.                                          *)
Sound(k) == /\ Accounted(k)
            /\ IsFiniteSet(Included(k))
            /\ \A r \in Requests : InPrefix(k, r)

LEMMA AccountedIs ==
  ASSUME NEW k
  PROVE  Accounted(k) <=>
           \A n \in Names :
             /\ k.c[n] = IF CountsIn(k, n) = {} THEN Nil ELSE Wrap(SumOf(CountsIn(k, n)))
             /\ IF GaugesIn(k, n) = {} THEN k.g[n] = Nil
                ELSE \E x \in GaugesIn(k, n) : k.g[n] = Carried(x)
  BY Zenon DEF Accounted, CountsIn, GaugesIn, SumOf

LEMMA IncludedIs ==
  ASSUME NEW k \in Contents
  PROVE  /\ Included(k) \in SUBSET (Requests \X Nat)
         /\ \A r \in Requests : \A i : <<r, i>> \in Included(k) <=> i \in 1..k.done[r]
  <1>1. k.done \in [Requests -> Nat]
    BY DEF Contents
  <1>2. ASSUME NEW x \in Included(k)
        PROVE  \E r \in Requests : \E i \in 1..k.done[r] : x = <<r, i>>
    BY DEF Included
  <1>3. ASSUME NEW r \in Requests, NEW i \in 1..k.done[r] PROVE <<r, i>> \in Included(k)
    BY DEF Included
  <1> QED
    BY <1>1, <1>2, <1>3

(* What the history includes is there, and of a known type.                *)
LEMMA IncludedMetric ==
  ASSUME NEW k \in Contents, \A r \in Requests : InPrefix(k, r), NEW x \in Included(k)
  PROVE  x[1] \in Requests /\ x[2] \in 1..Len(Payload[x[1]])
  <1>1. PICK r \in Requests, i \in Nat : x = <<r, i>>
    BY IncludedIs
  <1>2. i \in 1..k.done[r] /\ k.done[r] \in Nat
    BY <1>1, IncludedIs DEF Contents
  <1>3. ValidPrefix(r) \in 0..Len(Payload[r]) /\ k.done[r] <= ValidPrefix(r)
    BY ValidPrefixIs DEF InPrefix
  <1>4. i \in 1..Len(Payload[r])
    BY <1>2, <1>3, PayloadType
  <1> QED
    BY <1>1, <1>4

LEMMA OneMoreIncluded ==
  ASSUME NEW k \in Contents, NEW l \in Contents, NEW r \in Requests,
         l.done = [k.done EXCEPT ![r] = k.done[r] + 1]
  PROVE  /\ <<r, NextIndex(k, r)>> \in (Requests \X Nat) \ Included(k)
         /\ Included(l) = Included(k) \cup {<<r, NextIndex(k, r)>>}
  <1> DEFINE x == <<r, NextIndex(k, r)>>
  <1>1. k.done \in [Requests -> Nat] /\ l.done \in [Requests -> Nat]
    BY DEF Contents
  <1>2. x \in Requests \X Nat /\ x \notin Included(k)
    BY <1>1, IncludedIs DEF NextIndex
  <1>3. ASSUME NEW q \in Requests, NEW i \in Nat
        PROVE  <<q, i>> \in Included(l) <=> <<q, i>> \in Included(k) \/ <<q, i>> = x
    <2>1. i \in 1..l.done[q] <=> i \in 1..k.done[q] \/ <<q, i>> = x
      BY <1>1 DEF NextIndex
    <2> QED
      BY <2>1, IncludedIs
  <1> HIDE DEF x
  <1>4. \A y \in Requests \X Nat : y \in Included(l) <=> y \in Included(k) \/ y = x
    BY <1>3
  <1>5. Included(k) \in SUBSET (Requests \X Nat) /\ Included(l) \in SUBSET (Requests \X Nat)
    BY IncludedIs
  <1> QED
    BY <1>2, <1>4, <1>5 DEF x

LEMMA EmptyIsSound == Sound(Empty)
  <1>1. Included(Empty) = {}
    BY EmptyIsContents, IncludedIs DEF Empty, Included
  <1>2. \A n \in Names : CountsIn(Empty, n) = {} /\ GaugesIn(Empty, n) = {}
    BY <1>1 DEF CountsIn, GaugesIn
  <1>3. Accounted(Empty)
    BY <1>2, AccountedIs DEF Empty
  <1>4. \A r \in Requests : InPrefix(Empty, r)
    BY ValidPrefixIs, PayloadType DEF InPrefix, Empty
  <1> QED
    BY <1>1, <1>3, <1>4, FS_EmptySet DEF Sound

(* One turn of the loop (storage.go:55-67).                                *)
LEMMA SoundTurn ==
  ASSUME NEW k \in Contents, Sound(k), NEW r \in Requests, CanApply(k, r)
  PROVE  Sound(ApplyMetric(k, r, Payload[r][NextIndex(k, r)]))
  <1> DEFINE x == <<r, NextIndex(k, r)>>
             m == Payload[r][NextIndex(k, r)]
             l == ApplyMetric(k, r, m)
  <1>1. l \in Contents /\ l.done = [k.done EXCEPT ![r] = k.done[r] + 1]
    BY ApplyMetricType
  <1>2. k.done \in [Requests -> Nat] /\ k.g \in [Names -> GaugeVals \cup {Nil}]
        /\ k.c \in [Names -> Int64 \cup {Nil}]
    BY DEF Contents
  <1>3. NextIndex(k, r) \in 1..Len(Payload[r])
    BY <1>2, PayloadType DEF CanApply, NextIndex
  <1>4. /\ m.id \in Names
        /\ m.mtype = "gauge" => m.val \in GaugeVals \cup {Nil}
        /\ m.mtype = "counter" => m.val \in Int64 \cup {Nil}
    BY <1>3, MetricType
  <1>5. /\ l.g = IF m.mtype = "gauge" /\ m.val # Nil THEN [k.g EXCEPT ![m.id] = m.val] ELSE k.g
        /\ l.c = IF m.mtype = "counter" /\ m.val # Nil
                 THEN [k.c EXCEPT ![m.id] = Wrap(Total(k.c, m.id) + m.val)] ELSE k.c
    BY DEF ApplyMetric
  <1>6. \A q \in Requests : InPrefix(l, q)
    <2>1. InPrefix(l, r)
      BY RestOfTurn DEF Sound
    <2>2. \A q \in Requests : q # r => l.done[q] = k.done[q]
      BY <1>1, <1>2
    <2> QED
      BY <2>1, <2>2 DEF InPrefix, Sound
  <1>7. Carried(x) = m.val
    BY DEF Carried
  <1>8. \A n \in Names : /\ Counts(x[1], x[2], n) <=> m.mtype = "counter" /\ m.id = n /\ m.val # Nil
                         /\ Gauges(x[1], x[2], n) <=> m.mtype = "gauge" /\ m.id = n /\ m.val # Nil
    BY DEF Counts, Gauges
  <1> HIDE DEF l
  <1>9. x \in (Requests \X Nat) \ Included(k) /\ Included(l) = Included(k) \cup {x}
    BY <1>1, OneMoreIncluded
  <1> HIDE DEF x, m
  <1>10. \A n \in Names :
           /\ CountsIn(l, n) = IF Counts(x[1], x[2], n) THEN CountsIn(k, n) \cup {x} ELSE CountsIn(k, n)
           /\ GaugesIn(l, n) = IF Gauges(x[1], x[2], n) THEN GaugesIn(k, n) \cup {x} ELSE GaugesIn(k, n)
    BY <1>9 DEF CountsIn, GaugesIn
  <1>11. Accounted(l)
    <2> SUFFICES ASSUME NEW n \in Names
                 PROVE  /\ l.c[n] = IF CountsIn(l, n) = {} THEN Nil ELSE Wrap(SumOf(CountsIn(l, n)))
                        /\ IF GaugesIn(l, n) = {} THEN l.g[n] = Nil
                           ELSE \E y \in GaugesIn(l, n) : l.g[n] = Carried(y)
      BY AccountedIs
    <2> DEFINE C == CountsIn(k, n)
               G == GaugesIn(k, n)
    <2>1. /\ k.c[n] = IF C = {} THEN Nil ELSE Wrap(SumOf(C))
          /\ IF G = {} THEN k.g[n] = Nil ELSE \E y \in G : k.g[n] = Carried(y)
      BY AccountedIs DEF Sound
    <2>2. l.c[n] = IF CountsIn(l, n) = {} THEN Nil ELSE Wrap(SumOf(CountsIn(l, n)))
      <3>1. CASE m.mtype = "counter" /\ m.id = n /\ m.val # Nil
        <4>1. CountsIn(l, n) = C \cup {x}
          BY <1>8, <1>10, <3>1
        <4>2. l.c[n] = Wrap(Total(k.c, n) + m.val)
          BY <1>2, <1>5, <3>1
        <4>3. m.val \in Int
          BY <1>4, <3>1, Int64IsInt
        <4>4. C \in SUBSET (Requests \X Nat) /\ IsFiniteSet(C) /\ x \in (Requests \X Nat) \ C
          BY <1>9, IncludedIs, FS_Subset DEF CountsIn, Sound
        <4>5. \A y \in C \cup {x} : Carried(y) \in Int
          <5>1. ASSUME NEW y \in C PROVE Carried(y) \in Int
            <6>1. y[1] \in Requests /\ y[2] \in 1..Len(Payload[y[1]]) /\ Counts(y[1], y[2], n)
              BY <5>1, IncludedMetric DEF CountsIn, Sound
            <6>2. Carried(y) \in Int64
              BY <6>1, MetricType DEF Carried, Counts
            <6> QED
              BY <6>2, Int64IsInt
          <5> QED
            BY <1>7, <4>3, <5>1
        <4> HIDE DEF C
        <4>6. SumOf(C) \in Int /\ SumOf(C \cup {x}) = SumOf(C) + m.val
          BY <1>7, <4>4, <4>5, SumAddsOne
        <4>7. Wrap(Total(k.c, n) + m.val) = Wrap(SumOf(C) + m.val)
          <5>1. CASE C = {}
            <6>1. Total(k.c, n) = SumOf(C)
              BY <2>1, <5>1, SumOfNothing DEF Total
            <6> QED
              BY <6>1
          <5>2. CASE C # {}
            <6>1. k.c[n] = Wrap(SumOf(C)) /\ k.c[n] # Nil
              BY <2>1, <4>6, <5>2, WrapRange, ValueAssumption
            <6>2. Total(k.c, n) = Wrap(SumOf(C))
              BY <6>1 DEF Total
            <6> QED
              BY <4>3, <4>6, <6>2, WrapAdd
          <5> QED
            BY <5>1, <5>2
        <4> QED
          BY <4>1, <4>2, <4>6, <4>7
      <3>2. CASE ~(m.mtype = "counter" /\ m.id = n /\ m.val # Nil)
        <4>1. CountsIn(l, n) = C
          BY <1>8, <1>10, <3>2
        <4>2. l.c[n] = k.c[n]
          BY <1>2, <1>5, <3>2
        <4> QED
          BY <2>1, <4>1, <4>2
      <3> QED
        BY <3>1, <3>2
    <2>3. IF GaugesIn(l, n) = {} THEN l.g[n] = Nil
          ELSE \E y \in GaugesIn(l, n) : l.g[n] = Carried(y)
      <3>1. CASE m.mtype = "gauge" /\ m.id = n /\ m.val # Nil
        <4>1. GaugesIn(l, n) = G \cup {x}
          BY <1>8, <1>10, <3>1
        <4>2. l.g[n] = Carried(x)
          BY <1>2, <1>5, <1>7, <3>1
        <4> QED
          BY <4>1, <4>2
      <3>2. CASE ~(m.mtype = "gauge" /\ m.id = n /\ m.val # Nil)
        <4>1. GaugesIn(l, n) = G
          BY <1>8, <1>10, <3>2
        <4>2. l.g[n] = k.g[n]
          BY <1>2, <1>5, <3>2
        <4> QED
          BY <2>1, <4>1, <4>2
      <3> QED
        BY <3>1, <3>2
    <2> QED
      BY <2>2, <2>3
  <1>12. IsFiniteSet(Included(l))
    BY <1>9, FS_AddElement DEF Sound
  <1> QED
    BY <1>6, <1>11, <1>12 DEF Sound, l, m

=============================================================================
