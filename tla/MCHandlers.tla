----------------------------- MODULE MCHandlers -----------------------------
(* One or more requests of each route, by agents with and without keys, by  *)
(* clients with the right HMAC, a wrong one and none, and servers started  *)
(* with every combination of sources for some options at a time.           *)
EXTENDS Handlers

CONSTANTS low

Gauge(v)   == <<[mtype |-> "gauge", id |-> "a", val |-> v]>>
Counter(v) == <<[mtype |-> "counter", id |-> "n", val |-> v]>>
Unknown    == <<[mtype |-> "unknown", id |-> "n", val |-> Nil]>>

MCPayload ==
    [agent |-> Counter(1), bare |-> Gauge(low), wrong |-> Counter(Nil),
     path |-> Gauge(NaN), batch |-> Counter(1) \o Gauge(low), halfBatch |-> Counter(1) \o Unknown,
     value |-> <<>>, pathValue |-> <<>>, page |-> <<>>,
     rpc |-> Counter(1), badRPC |-> Counter(1) \o Unknown]

Source(env, args, files, extra) == [env |-> env, args |-> args, files |-> files, extra |-> extra]
Args(args) == Source(<<>>, args, <<>>, FALSE)

By(path, asks, agent, ip) ==
    [route |-> path, asks |-> asks, agent |-> agent, ip |-> ip, message |-> Nil]
From(path, asks, message) ==
    [route |-> path, asks |-> asks, agent |-> Nil, ip |-> message.ip, message |-> message]

TheGauge   == [mtype |-> "gauge", id |-> "a"]
TheCounter == [mtype |-> "counter", id |-> "n"]

Keys == << <<"key", "old">>, <<"key", "k1">>, <<"crypto", "rsa">> >>
Client(key, ip) == Message("identity", Plain, ComputeHMAC(Plain, key), ip)
Nobody == Message("identity", Plain, NoHeader, NoHeader)
Garbled == Message("gzip", Plain, NoHeader, "here")

MCCall ==
    [agent |-> By(JSONUpdate, TheCounter, Args(Keys), "here"),
     bare |-> By(JSONUpdate, TheGauge, Args(<<>>), "there"),
     wrong |-> From(JSONUpdate, TheCounter, Garbled),
     path |-> From(PathUpdate, TheGauge, Nobody),
     batch |-> From(Batch, TheGauge, Client("k1", "there")),
     halfBatch |-> From(Batch, TheCounter, Client("other", "here")),
     value |-> From(JSONValue, TheGauge, Client("k1", "here")),
     pathValue |-> From(PathValue, TheCounter, Nobody),
     page |-> From(Page, TheGauge, Nobody),
     rpc |-> By(RPC, TheCounter, Args(<< <<"grpc", ":3200">> >>), "here"),
     badRPC |-> From(RPC, TheCounter, Nobody)]

MCInside == [lan |-> {"here"}]

(* No value, or option o with one of the values V. *)
Maybe(o, V) == {<<>>} \cup {[x \in {o} |-> v] : v \in V}
Flag(o, V)  == {<<>>} \cup {<< <<o, v>> >> : v \in V} \cup {<< <<o, v>>, <<o, w>> >> : v \in V, w \in V}

Common == << <<"c", "conf">>, <<"auditFile", "f">>, <<"grpc", ":1">> >>
Ways(args, o, V, W) ==
    {Source(e, Common \o args \o a, [conf |-> f], FALSE) :
        e \in Maybe(o, V), a \in Flag(o, V), f \in Maybe(o, W)}

MCStarts ==
    Ways(Keys, "subnet", {"lan"}, {"lan", ""}) \cup Ways(<<>>, "interval", {0, 10}, {0, 500, 20000, Bad})
    \cup {Args(a) : a \in {<< <<"dsn", "db">>, <<"auditURL", "u">> >>,
                           << <<"subnet", "nonsense">> >>, << <<"c", "lost">> >>} }
    \cup {Source([c |-> "conf", auditFile |-> "f"], a \o << <<"grpc", ":1">> >>,
                 [conf |-> [restore |-> TRUE, key |-> "ignored"], other |-> Bad], x) :
            a \in {<<>>, << <<"c", "other">> >>, << <<"restore", FALSE>> >>, << <<"c", "">> >>},
            x \in BOOLEAN}
=============================================================================
