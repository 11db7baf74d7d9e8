---------------------------- MODULE MCMemStorage ----------------------------
(* A batch over both maps, and one that is refused after a counter update. *)
EXTENDS MemStorage

CONSTANT low

MCPayload ==
    [r1 |-> << [mtype |-> "gauge",   id |-> "a", val |-> low],
               [mtype |-> "counter", id |-> "n", val |-> 3],
               [mtype |-> "counter", id |-> "n", val |-> 2] >>,
     r2 |-> << [mtype |-> "counter", id |-> "n", val |-> Nil],
               [mtype |-> "counter", id |-> "n", val |-> -1],
               [mtype |-> "unknown", id |-> "n", val |-> Nil],
               [mtype |-> "gauge",   id |-> "a", val |-> low] >>]
=============================================================================
