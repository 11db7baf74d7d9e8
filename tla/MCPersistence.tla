--------------------------- MODULE MCPersistence ---------------------------
(* Payloads for the runs of Persistence. *)
EXTENDS Persistence

CONSTANTS low

Gauge(n, v) == [mtype |-> "gauge", id |-> n, val |-> v]
Counter(n, d) == [mtype |-> "counter", id |-> n, val |-> d]
Unknown == [mtype |-> "unknown", id |-> "n", val |-> Nil]

MCReaders == Requests \cup {Saver, Main}

(* A batch over both maps, a counter update, a batch refused half way. *)
MCPayload ==
    [r \in Requests |-> CASE r = "r1" -> <<Gauge("a", low), Counter("n", 1)>>
                          [] r = "r2" -> <<Counter("n", 1)>>
                          [] r = "r3" -> <<Counter("n", 2), Unknown>>]

(* The last update sets a gauge to NaN. *)
NaNPayload ==
    [r \in Requests |-> IF r = "r3" THEN <<Gauge("a", NaN)>> ELSE MCPayload[r]]

(* The last one is a batch that sets a gauge to NaN and is then refused.   *)
RefusedNaNPayload ==
    [r \in Requests |-> IF r = "r3" THEN <<Counter("n", 2), Gauge("a", NaN), Unknown>>
                        ELSE MCPayload[r]]
=============================================================================
