----------------------------- MODULE MCPostgres -----------------------------
(* Two batches that lock two rows in opposite orders, one of them refused  *)
(* at its last metric, and an update of one of the rows on its own.        *)
EXTENDS Postgres

CONSTANTS low, high

MCPayload ==
    [r1 |-> << [mtype |-> "counter", id |-> "n", val |-> 1],
               [mtype |-> "gauge",   id |-> "m", val |-> high] >>,
     r2 |-> << [mtype |-> "gauge",   id |-> "m", val |-> low],
               [mtype |-> "counter", id |-> "n", val |-> Nil],
               [mtype |-> "counter", id |-> "n", val |-> 1],
               [mtype |-> "unknown", id |-> "n", val |-> Nil] >>,
     r3 |-> << [mtype |-> "counter", id |-> "n", val |-> 2] >>]
=============================================================================
