------------------------------ MODULE Metrics ------------------------------
(***************************************************************************)
(* The data every other module works on: metrics as the handlers decode    *)
(* them (internal/model/metrics.go) and the contents of the two maps of a  *)
(* storage (internal/storage/storage.go).                                  *)
(*                                                                         *)
(* Gauge values and names are abstract.  Counters are integers of a width  *)
(* the constant HalfRange fixes: int64 is HalfRange = 2^63.                *)
(***************************************************************************)
EXTENDS Integers, Sequences, SequencesExt

CONSTANTS Requests,   \* update calls; each one is made once
          Payload,    \* Payload[r]: the metrics request r carries, in order
          Names,      \* metric names
          GaugeVals,  \* float64 values a gauge can take, NaN possibly among them
          NaN,        \* a float64 value encoding/json refuses
          Nil,        \* an absent pointer, an absent map key
          HalfRange   \* counters wrap around in -HalfRange..HalfRange-1

MetricTypes == {"gauge", "counter", "unknown"}

(* The values of an int64. *)
Int64 == -HalfRange .. HalfRange - 1

Metric == [mtype : MetricTypes, id : Names, val : GaugeVals \cup Int64 \cup {Nil}]

ASSUME PayloadAssumption ==
    /\ Payload \in [Requests -> Seq(Metric)]
    /\ \A r \in Requests : \A i \in 1..Len(Payload[r]) :
         LET m == Payload[r][i] IN
         /\ m.mtype = "gauge" => m.val \in GaugeVals \cup {Nil}
         /\ m.mtype = "counter" => m.val \in Int64 \cup {Nil}

ASSUME ValueAssumption == Nil \notin GaugeVals /\ Nil \notin Int64

ASSUME RangeAssumption == HalfRange \in Nat \ {0}

-----------------------------------------------------------------------------
(* What an int64 keeps of an integer. *)
Wrap(x) == ((x + HalfRange) % (2 * HalfRange)) - HalfRange

(* The value a map of counters yields for a key, 0 when the key is absent. *)
Total(c, n) == IF c[n] = Nil THEN 0 ELSE c[n]

(***************************************************************************)
(* The contents of a storage.  g and c are the two Go maps, Nil standing   *)
(* for an absent key.  done is a history component: how many metrics of    *)
(* each request these contents include.  The server never reads it; it is  *)
(* also the position of the loop of a BatchUpdate that is under way.       *)
(***************************************************************************)
Contents == [g : [Names -> GaugeVals \cup {Nil}],
             c : [Names -> Int64 \cup {Nil}],
             done : [Requests -> Nat]]

Empty == [g |-> [n \in Names |-> Nil],
          c |-> [n \in Names |-> Nil],
          done |-> [r \in Requests |-> 0]]

ApplyUnwrapped(k, r, m) ==      \* mutant: counters kept wider than an int64
    [k EXCEPT !.c[m.id] = IF m.mtype = "counter" /\ m.val # Nil
                          THEN Total(k.c, m.id) + m.val ELSE @,
              !.done[r] = @ + 1]

(* One turn of the loop of BatchUpdate, on metric m of request r. *)
ApplyMetric(k, r, m) ==
    [g |-> IF m.mtype = "gauge" /\ m.val # Nil
           THEN [k.g EXCEPT ![m.id] = m.val] ELSE k.g,
     c |-> IF m.mtype = "counter" /\ m.val # Nil
           THEN [k.c EXCEPT ![m.id] = Wrap(Total(k.c, m.id) + m.val)] ELSE k.c,
     done |-> [k.done EXCEPT ![r] = @ + 1]]

(* Index of the metric of request r that contents k have not applied yet. *)
NextIndex(k, r) == k.done[r] + 1

(* The loop of request r has a metric left, and its type is known. *)
CanApply(k, r) ==
    /\ NextIndex(k, r) <= Len(Payload[r])
    /\ Payload[r][NextIndex(k, r)].mtype # "unknown"

(* The loop of request r has run off the end of the slice. *)
Complete(k, r) == k.done[r] = Len(Payload[r])

(* Metric i of request r is a counter update that carries a delta. *)
Counts(r, i, n) == /\ Payload[r][i].mtype = "counter"
                   /\ Payload[r][i].id = n
                   /\ Payload[r][i].val # Nil

Gauges(r, i, n) == /\ Payload[r][i].mtype = "gauge"
                   /\ Payload[r][i].id = n
                   /\ Payload[r][i].val # Nil

(* The metrics k includes, as pairs of a request and an index. *)
Included(k) == UNION {{<<r, i>> : i \in 1..k.done[r]} : r \in Requests}

(* What metric x of that form carries. *)
Carried(x) == Payload[x[1]][x[2]].val

(***************************************************************************)
(* k is what its history says: each counter is the wrapped sum of the      *)
(* deltas k includes, each gauge one of the values k includes, and a key   *)
(* is there exactly when something wrote it.                               *)
(***************************************************************************)
Accounted(k) ==
    \A n \in Names :
      LET C == {x \in Included(k) : Counts(x[1], x[2], n)}
          G == {x \in Included(k) : Gauges(x[1], x[2], n)}
      IN  /\ k.c[n] = IF C = {} THEN Nil
                      ELSE Wrap(MapThenSumSet(Carried, C))
          /\ IF G = {} THEN k.g[n] = Nil
             ELSE \E x \in G : k.g[n] = Carried(x)

(* Request r left no trace in k, or all it will ever leave: every metric up *)
(* to the end or to the first unknown type.                                 *)
Whole(k, r) == k.done[r] = 0 \/ ~CanApply(k, r)

(* How many metrics of request r precede the first unknown type. *)
ValidPrefix(r) ==
    Max({i \in 0..Len(Payload[r]) : \A j \in 1..i : Payload[r][j].mtype # "unknown"})

(* The contents once the loop of request r is through with them. *)
ApplyRest(k, r) ==
    FoldLeft(LAMBDA acc, m : ApplyMetric(acc, r, m), k,
             SubSeq(Payload[r], NextIndex(k, r), ValidPrefix(r)))

Verdict(r) == IF ValidPrefix(r) = Len(Payload[r]) THEN "ok" ELSE "err"
=============================================================================
