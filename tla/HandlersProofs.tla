--------------------------- MODULE HandlersProofs ---------------------------
(***************************************************************************)
(* What the server promises its clients, for any requests, payloads,       *)
(* senders and sources of configuration: the options in force are the      *)
(* documented ones, nobody they keep out gets in, an agent set up alike is *)
(* understood, a status and an audit event tell the truth, and replies are *)
(* fresh.                                                                  *)
(***************************************************************************)
EXTENDS Handlers, TLAPS

-----------------------------------------------------------------------------
(* Configuration: ParseFlags is one pass over the options in the order of  *)
(* the code; Documented takes each from the first layer that gives it.     *)

LEMMA MinIs ==
  ASSUME NEW S \in SUBSET Int, NEW x \in S, \A y \in S : x <= y
  PROVE  Min(S) = x
  <1>1. \A z \in S : (\A y \in S : z <= y) => z = x
    OBVIOUS
  <1> QED
    BY <1>1 DEF Min

LEMMA FirstLayer ==
  ASSUME NEW layers, NEW o, NEW k \in 1..4,
         o \in DOMAIN layers[k],
         \A i \in 1..k - 1 : o \notin DOMAIN layers[i]
  PROVE  Min({i \in 1..4 : o \in DOMAIN layers[i]}) = k
  <1> DEFINE S == {i \in 1..4 : o \in DOMAIN layers[i]}
  <1>1. S \in SUBSET Int /\ k \in S
    OBVIOUS
  <1>2. \A y \in S : k <= y
    <2> SUFFICES ASSUME NEW y \in S, y < k PROVE FALSE
      OBVIOUS
    <2>1. y \in 1..k - 1
      OBVIOUS
    <2> QED
      BY <2>1
  <1> HIDE DEF S
  <1>3. Min(S) = k
    BY <1>1, <1>2, MinIs
  <1> QED
    BY <1>3 DEF S

LEMMA DocumentedConfig ==
  ASSUME NEW s, ParseFlags(s) # NoConfig,
         NEW o \in DOMAIN ServerZero \ ZeroInFile(s)
  PROVE  ParseFlags(s)[o] = Documented(s)[o]
  <1> DEFINE zero   == ServerZero
             file   == GivenBy(zero, JSONFile(s))
             mid    == FromJSON(zero, JSONFile(s))
             layers == Layers(s, zero, serverDefaults)
             given  == {i \in 1..4 : o \in DOMAIN layers[i]}
  <1>1. ParseFlags(s) = Overlay(s, Merge(zero, mid, serverDefaults))
    BY DEF ParseFlags, Parse
  <1>2. o \in DOMAIN zero /\ DOMAIN serverDefaults = DOMAIN zero
    BY DEF ServerZero, serverDefaults
  <1>3. /\ layers[1] = s.env
        /\ layers[2] = [x \in {a[1] : a \in {s.args[i] : i \in 1..Len(s.args)}} |-> LastArg(s, x)]
        /\ layers[3] = [x \in file |-> mid[x]]
        /\ layers[4] = serverDefaults
    BY DEF Layers
  <1>4. o \in DOMAIN layers[2] <=> Uses(s, o) # {}
    BY <1>3 DEF Uses
  <1>5. /\ o \notin file => mid[o] = zero[o]
        /\ o \in file /\ mid[o] = zero[o] => serverDefaults[o] = zero[o]
    BY <1>2 DEF FromJSON, ZeroInFile
  <1>6. ParseFlags(s)[o] = IF o \in DOMAIN s.env THEN s.env[o]
                           ELSE IF Uses(s, o) # {} THEN LastArg(s, o)
                           ELSE IF mid[o] = zero[o] THEN serverDefaults[o] ELSE mid[o]
    <2>1. o \in DOMAIN Merge(zero, mid, serverDefaults)
      BY <1>2 DEF Merge
    <2> QED
      BY <1>1, <1>2, <2>1 DEF Overlay, Merge
  <1>7. Documented(s)[o] = layers[Min(given)][o]
    BY <1>2 DEF Documented
  <1> HIDE DEF layers, mid, zero, file
  <1>8. CASE o \in DOMAIN s.env
    <2>1. o \in DOMAIN layers[1] /\ \A i \in 1..1 - 1 : o \notin DOMAIN layers[i]
      BY <1>3, <1>8
    <2>2. Min(given) = 1
      BY <2>1, FirstLayer
    <2> QED
      BY <1>3, <1>6, <1>7, <1>8, <2>2
  <1>9. CASE o \notin DOMAIN s.env /\ Uses(s, o) # {}
    <2>1. \A i \in 1..2 - 1 : o \notin DOMAIN layers[i]
      BY <1>3, <1>9
    <2>2. Min(given) = 2
      BY <1>4, <1>9, <2>1, FirstLayer
    <2>3. layers[2][o] = LastArg(s, o)
      BY <1>3, <1>4, <1>9
    <2> QED
      BY <1>6, <1>7, <1>9, <2>2, <2>3
  <1>10. CASE o \notin DOMAIN s.env /\ Uses(s, o) = {} /\ o \in file
    <2>1. \A i \in 1..3 - 1 : o \notin DOMAIN layers[i]
      BY <1>3, <1>4, <1>10
    <2>2. o \in DOMAIN layers[3] /\ layers[3][o] = mid[o]
      BY <1>3, <1>10
    <2>3. Min(given) = 3
      BY <2>1, <2>2, FirstLayer
    <2> QED
      BY <1>5, <1>6, <1>7, <1>10, <2>2, <2>3
  <1>11. CASE o \notin DOMAIN s.env /\ Uses(s, o) = {} /\ o \notin file
    <2>1. \A i \in 1..4 - 1 : o \notin DOMAIN layers[i]
      BY <1>3, <1>4, <1>11
    <2>2. o \in DOMAIN layers[4]
      BY <1>2, <1>3
    <2>3. Min(given) = 4
      BY <2>1, <2>2, FirstLayer
    <2> QED
      BY <1>3, <1>5, <1>6, <1>7, <1>11, <2>3
  <1> QED
    BY <1>8, <1>9, <1>10, <1>11

(* No option the handlers use has a default a zero in the file could lose to. *)
LEMMA UsedAreDocumented ==
  ASSUME NEW s
  PROVE  Used \subseteq DOMAIN ServerZero \ ZeroInFile(s)
  <1>1. \A o \in Used : o \in DOMAIN ServerZero /\ serverDefaults[o] = ServerZero[o]
    BY DEF Used, ServerZero, serverDefaults
  <1> QED
    BY <1>1 DEF ZeroInFile

-----------------------------------------------------------------------------
(* Transport. *)

(* The shape of a message, whatever is in it. *)
Msg(coding, body, hash, ip, refused) ==
    [coding |-> coding, body |-> body, hash |-> hash, ip |-> ip, refused |-> refused]
Shape(m) == \E coding, body, hash, ip, refused : m = Msg(coding, body, hash, ip, refused)

LEMMA MessageShape ==
  ASSUME NEW coding, NEW body, NEW hash, NEW ip
  PROVE  Shape(Message(coding, body, hash, ip))
  <1>1. Message(coding, body, hash, ip) = Msg(coding, body, hash, ip, "")
    BY DEF Message, Msg
  <1> QED
    BY <1>1 DEF Shape

LEMMA RefusedShape ==
  ASSUME NEW m, Shape(m), NEW refusal
  PROVE  /\ Shape(Refuse(m, refusal))
         /\ Refuse(m, refusal).body = m.body
         /\ Refuse(m, refusal).hash = m.hash
         /\ Refuse(m, refusal).ip = m.ip
         /\ Refuse(m, refusal).refused = refusal
  <1>1. PICK coding, body, hash, ip, refused : m = Msg(coding, body, hash, ip, refused)
    BY DEF Shape
  <1>2. Refuse(m, refusal) = Msg(coding, body, hash, ip, refusal)
    BY <1>1 DEF Refuse, Msg
  <1>3. Shape(Refuse(m, refusal))
    BY <1>2 DEF Shape
  <1>4. /\ Refuse(m, refusal).body = body /\ Refuse(m, refusal).hash = hash
        /\ Refuse(m, refusal).ip = ip /\ Refuse(m, refusal).refused = refusal
    BY <1>2 DEF Msg
  <1>5. body = m.body /\ hash = m.hash /\ ip = m.ip
    BY <1>1 DEF Msg
  <1> QED
    BY <1>3, <1>4, <1>5

LEMMA FreshShape ==
  ASSUME NEW m, Fresh(m)
  PROVE  Shape(m) /\ m.refused = ""
  <1>1. Shape(Message(m.coding, m.body, m.hash, m.ip))
    BY MessageShape
  <1>2. Message(m.coding, m.body, m.hash, m.ip).refused = ""
    BY DEF Message
  <1> QED
    BY <1>1, <1>2 DEF Fresh

(* n is m as a middleware passes it on or refuses it. *)
Follows(n, m) == /\ Shape(n) /\ n.hash = m.hash /\ n.ip = m.ip
                 /\ n.body = Plain \/ n.body = m.body
                 /\ n.refused \in {m.refused, "400", "403"}
                 /\ n.refused = "" => m.refused = ""

LEMMA StepFollows ==
  ASSUME NEW m, Shape(m)
  PROVE  /\ Follows(m, m)
         /\ m.refused = "" => Follows(Unwrapped(m), m)
         /\ Follows(Refuse(m, "400"), m) /\ Follows(Refuse(m, "403"), m)
  <1>1. Follows(m, m)
    BY DEF Follows
  <1>2. ASSUME m.refused = ""
        PROVE  Follows(Unwrapped(m), m)
    <2> DEFINE n == Unwrapped(m)
    <2>0. Shape(n)
      BY MessageShape DEF Unwrapped
    <2>1. n.body = Plain /\ n.hash = m.hash /\ n.ip = m.ip /\ n.refused = ""
      BY DEF Unwrapped, Message
    <2> HIDE DEF n
    <2>2. Follows(n, m)
      BY <1>2, <2>0, <2>1 DEF Follows
    <2> QED
      BY <2>2 DEF n
  <1>3. ASSUME NEW refusal \in {"400", "403"}
        PROVE  Follows(Refuse(m, refusal), m)
    <2> DEFINE n == Refuse(m, refusal)
    <2>1. Shape(n) /\ n.body = m.body /\ n.hash = m.hash /\ n.ip = m.ip /\ n.refused = refusal
      BY RefusedShape
    <2> HIDE DEF n
    <2>2. Follows(n, m)
      BY <1>3, <2>1 DEF Follows
    <2> QED
      BY <2>2 DEF n
  <1> QED
    BY <1>1, <1>2, <1>3

LEMMA DecryptFollows ==
  ASSUME NEW c, NEW m, Shape(m), m.refused = ""
  PROVE  Follows(DecryptMiddleware(c, m), m)
  BY StepFollows DEF DecryptMiddleware

LEMMA SubnetFollows ==
  ASSUME NEW c, NEW m, Shape(m)
  PROVE  /\ Follows(TrustedSubnetMiddleware(c, m), m)
         /\ TrustedSubnetMiddleware(c, m).refused = "" => Trusted(c, m.ip)
  <1>1. Refuse(m, "403").refused = "403"
    BY RefusedShape
  <1>2. CASE m.refused # "" \/ Trusted(c, m.ip)
    BY <1>2, StepFollows DEF TrustedSubnetMiddleware
  <1>3. CASE ~(m.refused # "" \/ Trusted(c, m.ip))
    <2>1. TrustedSubnetMiddleware(c, m) = Refuse(m, "403")
      BY <1>3 DEF TrustedSubnetMiddleware
    <2> QED
      BY <1>1, <2>1, StepFollows
  <1> QED
    BY <1>2, <1>3

LEMMA InterceptorFollows ==
  ASSUME NEW c, NEW m, Shape(m)
  PROVE  /\ Follows(TrustedSubnetInterceptor(c, m), m)
         /\ TrustedSubnetInterceptor(c, m).refused = "" => Trusted(c, m.ip)
  <1>1. Refuse(m, "403").refused = "403"
    BY RefusedShape
  <1>2. CASE Trusted(c, m.ip)
    BY <1>2, StepFollows DEF TrustedSubnetInterceptor
  <1>3. CASE ~Trusted(c, m.ip)
    <2>1. TrustedSubnetInterceptor(c, m) = Refuse(m, "403")
      BY <1>3 DEF TrustedSubnetInterceptor
    <2> QED
      BY <1>1, <2>1, StepFollows
  <1> QED
    BY <1>2, <1>3

LEMMA GzipFollows ==
  ASSUME NEW m, Shape(m)
  PROVE  Follows(GzipMiddleware(m), m)
  <1>1. CASE m.refused # "" \/ m.coding # "gzip"
    BY <1>1, StepFollows DEF GzipMiddleware
  <1>2. CASE ~(m.refused # "" \/ m.coding # "gzip")
    BY <1>2, StepFollows DEF GzipMiddleware
  <1> QED
    BY <1>1, <1>2

LEMMA HashFollows ==
  ASSUME NEW c, NEW m, Shape(m)
  PROVE  /\ Follows(SHA256CheckMiddleware(c, m), m)
         /\ SHA256CheckMiddleware(c, m).refused = ""
              => c.key = "" \/ m.hash = ComputeHMAC(m.body, c.key)
  <1> DEFINE passes == m.refused # "" \/ c.key = "" \/ m.hash = ComputeHMAC(m.body, c.key)
  <1>1. Refuse(m, "400").refused = "400"
    BY RefusedShape
  <1>2. SHA256CheckMiddleware(c, m) = IF passes THEN m ELSE Refuse(m, "400")
    BY DEF SHA256CheckMiddleware
  <1>3. Follows(SHA256CheckMiddleware(c, m), m)
    BY <1>2, StepFollows
  <1> QED
    BY <1>1, <1>2, <1>3

(* Whom the middleware lets through is in the subnet, and has signed what  *)
(* arrived or what it unwraps to; whom it does not gets a 400 or a 403.    *)
LEMMA MiddlewareAdmits ==
  ASSUME NEW c, NEW m, Fresh(m)
  PROVE  /\ Middleware(c, m).refused \in {"", "400", "403"}
         /\ Middleware(c, m).refused = "" =>
              /\ c.subnet # "" => m.ip \in Inside[c.subnet]
              /\ c.key # "" => \E b \in {Plain, m.body} : m.hash = ComputeHMAC(b, c.key)
  <1> DEFINE m1 == DecryptMiddleware(c, m)
             m2 == TrustedSubnetMiddleware(c, m1)
             m3 == GzipMiddleware(m2)
             m4 == SHA256CheckMiddleware(c, m3)
  <1>0. Shape(m) /\ m.refused = ""
    BY FreshShape
  <1>1. Follows(m1, m) /\ Shape(m1)
    BY <1>0, DecryptFollows DEF Follows
  <1> HIDE DEF m1
  <1>2. Follows(m2, m1) /\ (m2.refused = "" => Trusted(c, m1.ip)) /\ Shape(m2)
    BY <1>1, SubnetFollows DEF Follows
  <1> HIDE DEF m2
  <1>3. Follows(m3, m2) /\ Shape(m3)
    BY <1>2, GzipFollows DEF Follows
  <1> HIDE DEF m3
  <1>4. /\ Follows(m4, m3)
        /\ m4.refused = "" => c.key = "" \/ m3.hash = ComputeHMAC(m3.body, c.key)
    BY <1>3, HashFollows
  <1>5. Middleware(c, m) = m4
    BY DEF Middleware, m1, m2, m3
  <1> HIDE DEF m4
  <1>6. m4.refused \in {"", "400", "403"}
    BY <1>0, <1>1, <1>2, <1>3, <1>4 DEF Follows
  <1>7. m3.hash = m.hash /\ m1.ip = m.ip /\ m3.body \in {Plain, m.body}
    BY <1>1, <1>2, <1>3 DEF Follows
  <1>8. m4.refused = "" => m2.refused = ""
    BY <1>3, <1>4 DEF Follows
  <1> QED
    BY <1>2, <1>4, <1>5, <1>6, <1>7, <1>8 DEF Trusted

LEMMA InterceptorAdmits ==
  ASSUME NEW c, NEW m, Fresh(m)
  PROVE  /\ TrustedSubnetInterceptor(c, m).refused \in {"", "400", "403"}
         /\ TrustedSubnetInterceptor(c, m).refused = "" => Trusted(c, m.ip)
  <1>0. Shape(m) /\ m.refused = ""
    BY FreshShape
  <1> QED
    BY <1>0, InterceptorFollows DEF Follows

(***************************************************************************)
(* What Sender.post makes is undone by the middleware in the order of      *)
(* main.go:166-185, whatever is encrypted and signed: an agent set up like *)
(* the server passes, and the handler gets the JSON.                       *)
(***************************************************************************)
THEOREM PostIsUnderstood ==
  ASSUME NEW a, NEW c, NEW ip, Compatible(a, c, ip)
  PROVE  /\ Middleware(c, Post(a, ip)).refused = ""
         /\ Middleware(c, Post(a, ip)).body = Plain
  <1> DEFINE hash == IF a.key = "" THEN NoHeader ELSE ComputeHMAC(Plain, a.key)
             sent == Post(a, ip)
             plain == Message("identity", Plain, hash, ip)
             m1 == DecryptMiddleware(c, sent)
             m2 == TrustedSubnetMiddleware(c, m1)
             m3 == GzipMiddleware(m2)
  <1>1. sent = Message(IF a.crypto = "" THEN "gzip" ELSE "encrypted",
                       [sealed |-> a.crypto, inner |-> "gzip"], hash, ip)
    <2>1. Packed(a) = [sealed |-> a.crypto, inner |-> "gzip"]
      BY DEF Packed, Compress, Encrypt, Plain
    <2> QED
      BY <2>1 DEF Post
  <1> HIDE DEF sent
  <1>2. /\ sent.hash = hash /\ sent.ip = ip /\ sent.refused = ""
        /\ sent.body = [sealed |-> a.crypto, inner |-> "gzip"]
        /\ sent.coding = IF a.crypto = "" THEN "gzip" ELSE "encrypted"
    BY <1>1 DEF Message
  <1>3. /\ plain.hash = hash /\ plain.ip = ip /\ plain.refused = ""
        /\ plain.body = Plain /\ plain.coding = "identity"
    BY DEF Message
  <1> HIDE DEF plain
  <1>4. Unwrapped(sent) = plain
    BY <1>2 DEF Unwrapped, plain
  <1>s. sent.body.sealed = a.crypto /\ sent.body.inner = "gzip"
    <2> DEFINE packed == [sealed |-> a.crypto, inner |-> "gzip"]
    <2>1. packed.sealed = a.crypto /\ packed.inner = "gzip"
      OBVIOUS
    <2> HIDE DEF packed
    <2>2. sent.body = packed
      BY <1>2 DEF packed
    <2> QED
      BY <2>1, <2>2
  <1>5. /\ a.crypto # "" => m1 = plain
        /\ a.crypto = "" => m1 = sent
    BY <1>s, <1>2, <1>4 DEF Compatible, DecryptMiddleware, Decrypts
  <1> HIDE DEF m1
  <1>6. m1.refused = "" /\ m1.ip = ip
    BY <1>2, <1>3, <1>5
  <1>7. m2 = m1
    BY <1>6 DEF TrustedSubnetMiddleware, Compatible
  <1> HIDE DEF m2
  <1>8. m3 = plain
    <2>1. CASE a.crypto # ""
      BY <1>3, <1>5, <1>7, <2>1 DEF GzipMiddleware
    <2>2. CASE a.crypto = ""
      BY <1>s, <1>2, <1>4, <1>5, <1>7, <2>2 DEF GzipMiddleware
    <2> QED
      BY <2>1, <2>2
  <1>9. Middleware(c, Post(a, ip)) = SHA256CheckMiddleware(c, m3)
    BY DEF Middleware, m1, m2, sent
  <1>10. c.key = "" \/ hash = ComputeHMAC(Plain, c.key)
    BY DEF Compatible
  <1> HIDE DEF hash, m3
  <1>11. SHA256CheckMiddleware(c, plain) = plain
    BY <1>3, <1>10 DEF SHA256CheckMiddleware
  <1> QED
    BY <1>3, <1>8, <1>9, <1>11

-----------------------------------------------------------------------------
(* What Receive finds out about a request. *)

LEMMA MessageFresh ==
  ASSUME NEW coding, NEW body, NEW hash, NEW ip
  PROVE  Fresh(Message(coding, body, hash, ip))
  BY DEF Fresh, Message

LEMMA SentIsFresh ==
  ASSUME NEW r \in Requests
  PROVE  Fresh(Sent[r])
  <1>1. CASE ~FromAgent(r)
    <2>1. Sent[r] = Call[r].message
      BY <1>1 DEF Sent
    <2> QED
      BY <1>1, <2>1, CallAssumption
  <1>2. CASE FromAgent(r) /\ route(r) = RPC
    <2>1. Sent[r] = SendBatch(Call[r].ip)
      BY <1>2 DEF Sent
    <2> QED
      BY <2>1, MessageFresh DEF SendBatch
  <1>3. CASE FromAgent(r) /\ route(r) # RPC
    <2>1. Sent[r] = Post(AgentConfig(r), Call[r].ip)
      BY <1>3 DEF Sent
    <2> QED
      BY <2>1, MessageFresh DEF Post
  <1> QED
    BY <1>1, <1>2, <1>3

LEMMA PassedTells ==
  ASSUME NEW r \in Requests
  PROVE  /\ Passed(r).refused \in {"", "400", "403"}
         /\ Passed(r).refused = "" =>
              /\ cfg.subnet # "" => Sent[r].ip \in Inside[cfg.subnet]
              /\ cfg.key # "" /\ route(r) # RPC =>
                   \E b \in {Plain, Sent[r].body} : Sent[r].hash = ComputeHMAC(b, cfg.key)
  <1>1. Fresh(Sent[r])
    BY SentIsFresh
  <1>2. CASE route(r) = RPC
    <2>1. Passed(r) = TrustedSubnetInterceptor(cfg, Sent[r])
      BY <1>2 DEF Passed
    <2> QED
      BY <1>1, <1>2, <2>1, InterceptorAdmits DEF Trusted
  <1>3. CASE route(r) # RPC
    <2>1. Passed(r) = Middleware(cfg, Sent[r])
      BY <1>3 DEF Passed
    <2> QED
      BY <1>1, <1>3, <2>1, MiddlewareAdmits
  <1> QED
    BY <1>2, <1>3

LEMMA VerifyTells ==
  ASSUME NEW r \in Requests
  PROVE  /\ Verify(r) \in {"", "400", "404"}
         /\ Verify(r) = "404" => \/ route(r) = PathUpdate
                                 \/ route(r) = PathValue /\ Call[r].asks.mtype = "unknown"
  BY DEF Verify, JSONUpdate, Batch, PathUpdate, JSONValue, PathValue, Page, RPC

(* A well-formed single metric passes Verify. *)
LEMMA AgentsAreWellFormed ==
  ASSUME NEW r \in Requests, FromAgent(r)
  PROVE  Verify(r) = "" /\ (route(r) = RPC \/ route(r) = JSONUpdate)
  <1>1. /\ route(r) \in {JSONUpdate, RPC} /\ Len(Payload[r]) = 1
        /\ WellFormed(Payload[r][1])
    BY CallAssumption
  <1>2. CASE route(r) = JSONUpdate
    <2>1. Payload[r] # <<>>
      <3>1. Len(<<>>) = 0
        OBVIOUS
      <3> QED
        BY <1>1, <3>1
    <2> QED
      BY <1>1, <1>2, <2>1
         DEF Verify, JSONUpdate, Batch, PathUpdate, JSONValue, PathValue, RPC
  <1>3. CASE route(r) = RPC
    <2> DEFINE S == {i \in 0..Len(Payload[r]) :
                       \A j \in 1..i : Payload[r][j].mtype # "unknown"}
    <2>1. 1 \in S /\ \A i \in S : 1 >= i /\ i \in Int
      <3>1. \A j \in 1..1 : Payload[r][j].mtype # "unknown"
        BY <1>1 DEF WellFormed
      <3> QED
        BY <1>1, <3>1
    <2>2. ValidPrefix(r) = Max(S)
      BY DEF ValidPrefix
    <2> HIDE DEF S
    <2>3. \A x \in S : (\A y \in S : x >= y) => x = 1
      BY <2>1
    <2>4. Max(S) = 1
      BY <2>1, <2>3 DEF Max
    <2> QED
      BY <1>1, <1>3, <2>2, <2>4
         DEF Verify, JSONUpdate, Batch, PathUpdate, JSONValue, PathValue, RPC
  <1> QED
    BY <1>1, <1>2, <1>3

-----------------------------------------------------------------------------
(* The steps of one request leave the others alone. *)

requestState(r) == <<at[r], status[r], since[r], seen[r], event[r], r \in unseen>>

LEMMA RequestStep ==
  ASSUME TypeOK, NEW q \in Requests, Receive(q) \/ Handle(q)
  PROVE  /\ UNCHANGED <<phase, cfg, asked>>
         /\ log' = log \/ log' = Append(log, q)
         /\ \A r \in Requests \ {q} : UNCHANGED requestState(r)
         /\ Running
         /\ at'[q] # "new"
  <1> USE DEF TypeOK, requestState, Answered, Proceed, TakenIn, Admitted, Running
  <1>1. CASE Receive(q)
    BY <1>1 DEF Receive, Listening
  <1>2. CASE Update(q)
    BY <1>2 DEF Update
  <1>3. CASE BatchFails(q)
    BY <1>3 DEF BatchFails
  <1>4. CASE UpdateFails(q)
    BY <1>4 DEF UpdateFails
  <1>5. CASE ReadBack(q)
    BY <1>5 DEF ReadBack
  <1>6. CASE ReadBackFails(q)
    BY <1>6 DEF ReadBackFails
  <1>7. CASE Notify(q)
    BY <1>7 DEF Notify
  <1>8. CASE Value(q)
    BY <1>8 DEF Value
  <1>9. CASE ValueFails(q)
    BY <1>9 DEF ValueFails
  <1>10. CASE RootPage(q)
    BY <1>10 DEF RootPage
  <1>11. CASE QueryGauges(q)
    BY <1>11 DEF QueryGauges
  <1>12. CASE QueryCounters(q)
    BY <1>12 DEF QueryCounters
  <1> QED
    BY <1>1, <1>2, <1>3, <1>4, <1>5, <1>6, <1>7, <1>8, <1>9, <1>10, <1>11, <1>12 DEF Handle

(* What the first p updates amount to does not change as more come in. *)
LEMMA Prefix ==
  ASSUME log \in Seq(Requests), NEW q \in Requests,
         log' = log \/ log' = Append(log, q)
  PROVE  /\ log' \in Seq(Requests) /\ Len(log) <= Len(log')
         /\ \A i \in 1..Len(log) : log'[i] = log[i]
         /\ \A r \in Requests \ {q} : Stored(r)' = Stored(r)
         /\ \A r \in Requests : Stored(r) => Stored(r)'
  <1>1. /\ log' \in Seq(Requests) /\ Len(log) <= Len(log')
        /\ \A i \in 1..Len(log) : log'[i] = log[i]
    OBVIOUS
  <1>2. \A i \in 1..Len(log') : i \in 1..Len(log) \/ log'[i] = q
    OBVIOUS
  <1>3. 1..Len(log) \subseteq 1..Len(log')
    BY <1>1
  <1> QED
    BY <1>1, <1>2, <1>3 DEF Stored, Among

LEMMA PrefixStays ==
  ASSUME log \in Seq(Requests), NEW p \in 0..Len(log),
         \A i \in 1..Len(log) : log'[i] = log[i]
  PROVE  /\ \A r : Among(r, p)' = Among(r, p)
         /\ \A m : Has(p, m)' = Has(p, m)
         /\ \A m : Marshals(p, m)' = Marshals(p, m)
  <1>1. \A i \in 1..p : log'[i] = log[i]
    OBVIOUS
  <1>2. \A i \in 1..p : i + 1..p \subseteq 1..p
    OBVIOUS
  <1>3. \A r : Among(r, p)' = Among(r, p)
    BY <1>1 DEF Among
  <1>4. \A m : Has(p, m)' = Has(p, m)
    BY <1>1 DEF Has
  <1>5. ASSUME NEW n
        PROVE  IsNaN(p, n)' = IsNaN(p, n)
    <2>1. \A i \in 1..p : (\A k \in i + 1..p : ~Writes(log'[k], "gauge", n))
                          <=> (\A k \in i + 1..p : ~Writes(log[k], "gauge", n))
      BY <1>1, <1>2
    <2> QED
      BY <1>1, <2>1 DEF IsNaN
  <1>6. \A m : Marshals(p, m)' = Marshals(p, m)
    BY <1>5 DEF Marshals
  <1> QED
    BY <1>3, <1>4, <1>6

-----------------------------------------------------------------------------
(* The invariant.  A request goes through its stages in order, and at each *)
(* of them it is known whether the storage has it and how much of the      *)
(* storage its reply has seen; the configuration is settled before the     *)
(* first request comes in.                                                 *)

InProgress == {"admitted", "updated", "half", "told"}

QuietStart ==
    phase \in {"starting", "configured"} => \A r \in Requests : at[r] = "new"

(* The storage has taken r in, or the database lost it without a word. *)
Taken(r) == \/ Stored(r) /\ Verdict(r) = "ok"
            \/ r \in unseen /\ Database /\ route(r) \in {JSONUpdate, PathUpdate}

SawAll(r) == seen[r].gauges >= since[r] /\ seen[r].counters >= since[r]
SawItself(r) == SawAll(r) /\ Among(r, seen[r].gauges)

Seen(r) ==
    /\ since[r] # Nil => since[r] \in 0..Len(log)
    /\ seen[r].gauges \in 0..Len(log) /\ seen[r].counters \in 0..Len(log)

Stage(r) ==
    /\ at[r] = "new" => since[r] = Nil
    /\ at[r] \in {"new", "admitted"} => ~Stored(r) /\ r \notin unseen
    /\ at[r] # "replied" => status[r] = "none" /\ event[r] = "none"
    /\ at[r] \in InProgress => since[r] \in 0..Len(log)
    /\ at[r] \in {"updated", "told"} => Taken(r) /\ route(r) \in HTTPUpdates
    /\ at[r] = "updated" => route(r) = JSONUpdate
    /\ at[r] = "told" /\ route(r) = JSONUpdate /\ r \notin unseen => SawItself(r)
    /\ at[r] = "half" => route(r) = Page /\ (r \notin unseen => seen[r].gauges >= since[r])

Mine(r) ==
    /\ Seen(r) /\ Stage(r)
    /\ AnswerTells(r) /\ ReplyIsFresh(r) /\ EventTells(r) /\ AgentUnderstood(r)
    /\ since[r] # Nil => Welcome(r)

(* What the handlers use is exactly what was asked for. *)
ConfigInv ==
    /\ ConfigAsDocumented
    /\ phase = "configured" => \A o \in Used : cfg[o] = asked[o]
    /\ Running \/ phase = "ended" => cfg = asked

IInv ==
    /\ TypeOK /\ ConfigInv /\ QuietStart
    /\ \A r \in Requests : Mine(r)

LEMMA InitInv == Init => IInv
  <1> SUFFICES ASSUME Init PROVE IInv
    OBVIOUS
  <1> USE DEF Init, NotRead
  <1>1. TypeOK /\ ConfigInv /\ QuietStart
    BY DEF TypeOK, ConfigInv, ConfigAsDocumented, Running, QuietStart, Statuses
  <1>2. ASSUME NEW r \in Requests PROVE Mine(r)
    <2>1. Len(log) = 0 /\ seen[r].gauges = 0 /\ seen[r].counters = 0
      OBVIOUS
    <2>2. at[r] = "new" /\ status[r] = "none" /\ since[r] = Nil /\ event[r] = "none"
          /\ r \notin unseen
      OBVIOUS
    <2>3. ~Stored(r)
      BY <2>1 DEF Stored, Among
    <2> QED
      BY <2>1, <2>2, <2>3 DEF Mine, Seen, Stage, AnswerTells, ReplyIsFresh, EventTells,
           AgentUnderstood, InProgress
  <1> QED
    BY <1>1, <1>2 DEF IInv

LEMMA TypeStep == TypeOK /\ [Next]_handlersVars => TypeOK'
  <1> SUFFICES ASSUME TypeOK, [Next]_handlersVars PROVE TypeOK'
    OBVIOUS
  <1> DEFINE Reads == [gauges : Nat, counters : Nat]
  <1>0. /\ Len(log) \in Nat /\ \A q \in Requests : Append(log, q) \in Seq(Requests)
        /\ ReadsNow \in Reads /\ NotRead \in Reads
        /\ \A q \in Requests : /\ [gauges |-> Len(log), counters |-> 0] \in Reads
                              /\ [gauges |-> seen[q].gauges, counters |-> Len(log)] \in Reads
    <2>1. log \in Seq(Requests) /\ \A q \in Requests : seen[q] \in Reads
      BY DEF TypeOK
    <2>2. Len(log) \in Nat /\ \A q \in Requests : Append(log, q) \in Seq(Requests)
      BY <2>1
    <2> QED
      BY <2>1, <2>2 DEF ReadsNow, NotRead
  <1> USE DEF TypeOK, Statuses, Answered
  <1>1. CASE UNCHANGED handlersVars
    BY <1>1 DEF handlersVars, requestVars
  <1>2. CASE (\E s \in Starts : Configure(s)) \/ Serve \/ Fail \/ Shutdown \/ CloseAudit
    BY <1>2 DEF Configure, Serve, Fail, Shutdown, CloseAudit, requestVars
  <1>3. CASE Exit
    BY <1>3 DEF Exit
  <1>4. ASSUME NEW q \in Requests, Receive(q) PROVE TypeOK'
    <2>1. Passed(q).refused \in {"", "400", "403"} /\ Verify(q) \in {"", "400", "404"}
      BY PassedTells, VerifyTells
    <2>2. \/ at' = [at EXCEPT ![q] = "admitted"]
          \/ at' = [at EXCEPT ![q] = "replied"]
      BY <1>4 DEF Receive
    <2>3. status' \in [Requests -> Statuses]
      <3> HIDE DEF TypeOK
      <3>1. \/ status' = status
            \/ \E code \in {"400", "403", "404"} : status' = [status EXCEPT ![q] = code]
        BY <1>4, <2>1 DEF Receive
      <3> HIDE DEF Answered
      <3> USE DEF TypeOK
      <3> QED
        BY <3>1
    <2>4. since' \in [Requests -> Nat \cup {Nil}]
      BY <1>0, <1>4 DEF Receive
    <2> QED
      BY <1>4, <2>2, <2>3, <2>4 DEF Receive
  <1>5. ASSUME NEW q \in Requests, Update(q) \/ BatchFails(q) \/ UpdateFails(q) PROVE TypeOK'
    <2>1. log' \in Seq(Requests)
      BY <1>0, <1>5 DEF Update, BatchFails, UpdateFails, TakenIn
    <2>2. at' \in [Requests -> {"new", "admitted", "updated", "half", "told", "replied"}]
      BY <1>5 DEF Update, BatchFails, UpdateFails, Proceed
    <2>3. status' \in [Requests -> Statuses]
      BY <1>5 DEF Update, BatchFails, UpdateFails, Proceed
    <2> QED
      BY <1>5, <2>1, <2>2, <2>3 DEF Update, BatchFails, UpdateFails
  <1>6. ASSUME NEW q \in Requests, ReadBack(q) \/ ReadBackFails(q) PROVE TypeOK'
    <2>1. seen' \in [Requests -> Reads]
      BY <1>0, <1>6 DEF ReadBack, ReadBackFails
    <2> QED
      BY <1>6, <2>1 DEF ReadBack, ReadBackFails
  <1>7. ASSUME NEW q \in Requests, Notify(q) PROVE TypeOK'
    <2>1. seen' \in [Requests -> Reads]
      BY <1>0, <1>7 DEF Notify
    <2> QED
      BY <1>7, <2>1 DEF Notify, PanicStatus
  <1>8. ASSUME NEW q \in Requests, Value(q) \/ ValueFails(q) \/ RootPage(q) PROVE TypeOK'
    <2>1. seen' \in [Requests -> Reads]
      BY <1>0, <1>8 DEF Value, ValueFails, RootPage
    <2> QED
      BY <1>8, <2>1 DEF Value, ValueFails, RootPage
  <1>9. ASSUME NEW q \in Requests, QueryGauges(q) \/ QueryCounters(q) PROVE TypeOK'
    <2>1. seen' \in [Requests -> Reads]
      <3>1. seen' = seen \/ \E x \in Reads : seen' = [seen EXCEPT ![q] = x]
        BY <1>0, <1>9 DEF QueryGauges, QueryCounters
      <3> QED
        BY <3>1
    <2>2. at' \in [Requests -> {"new", "admitted", "updated", "half", "told", "replied"}]
      BY <1>9 DEF QueryGauges, QueryCounters
    <2>3. status' = status \/ status' = [status EXCEPT ![q] = "200"]
      BY <1>9 DEF QueryGauges, QueryCounters
    <2>4. unseen' \subseteq Requests
      BY <1>9 DEF QueryGauges, QueryCounters
    <2>5. UNCHANGED <<phase, log, since, event>>
      BY <1>9 DEF QueryGauges, QueryCounters
    <2> QED
      BY <2>1, <2>2, <2>3, <2>4, <2>5
  <1> QED
    BY <1>1, <1>2, <1>3, <1>4, <1>5, <1>6, <1>7, <1>8, <1>9 DEF Next, Handle

LEMMA ConfigStep == IInv /\ [Next]_handlersVars => ConfigInv'
  <1> SUFFICES ASSUME IInv, [Next]_handlersVars PROVE ConfigInv'
    OBVIOUS
  <1> USE DEF ConfigInv, ConfigAsDocumented, Running
  <1>1. ASSUME NEW s \in Starts, Configure(s) PROVE ConfigInv'
    <2>1. /\ phase' = "configured" /\ cfg' = ParseFlags(s) /\ ParseFlags(s) # NoConfig
          /\ asked' = [o \in DOMAIN ServerZero \ ZeroInFile(s) |-> Documented(s)[o]]
      BY <1>1 DEF Configure
    <2>2. \A o \in DOMAIN ServerZero \ ZeroInFile(s) : cfg'[o] = asked'[o]
      BY <2>1, DocumentedConfig
    <2>3. DOMAIN asked' = DOMAIN ServerZero \ ZeroInFile(s)
      BY <2>1
    <2>4. \A o \in Used : cfg'[o] = asked'[o]
      BY <2>2, UsedAreDocumented
    <2> QED
      BY <2>1, <2>2, <2>3, <2>4
  <1>2. CASE Serve
    <2>1. cfg' = asked'
      BY <1>2 DEF Serve, Only, IInv
    <2> QED
      BY <1>2, <2>1 DEF Serve
  <1>3. CASE Fail \/ Shutdown \/ CloseAudit \/ Exit \/ UNCHANGED handlersVars
    BY <1>3 DEF Fail, Shutdown, CloseAudit, Exit, handlersVars, IInv
  <1>4. ASSUME NEW q \in Requests, Receive(q) \/ Handle(q) PROVE ConfigInv'
    BY <1>4, RequestStep DEF IInv
  <1> QED
    BY <1>1, <1>2, <1>3, <1>4 DEF Next

LEMMA QuietStep == IInv /\ [Next]_handlersVars => QuietStart'
  <1> SUFFICES ASSUME IInv, [Next]_handlersVars PROVE QuietStart'
    OBVIOUS
  <1> USE DEF QuietStart, IInv
  <1>1. CASE (\E s \in Starts : Configure(s)) \/ Serve \/ Fail \/ Shutdown \/ CloseAudit \/ Exit
             \/ UNCHANGED handlersVars
    BY <1>1 DEF Configure, Serve, Fail, Shutdown, CloseAudit, Exit, handlersVars, requestVars
  <1>2. ASSUME NEW q \in Requests, Receive(q) \/ Handle(q) PROVE QuietStart'
    BY <1>2, RequestStep DEF Running
  <1> QED
    BY <1>1, <1>2 DEF Next

-----------------------------------------------------------------------------
(* What the steps of run() and of other requests leave of Mine. *)

LEMMA SameMine ==
  ASSUME NEW r \in Requests, Mine(r), UNCHANGED <<cfg, asked, log, requestVars>>,
         phase' \in {"serving", "stopping"} => phase \in {"serving", "stopping"},
         phase \in {"closing", "ended"} => phase' \in {"closing", "ended"}
  PROVE  Mine(r)'
  <1> USE DEF requestVars
  <1>1. /\ Stored(r)' = Stored(r)
        /\ Among(r, seen[r].gauges)' = Among(r, seen[r].gauges)
        /\ Has(since[r], Call[r].asks)' = Has(since[r], Call[r].asks)
    BY DEF Stored, Among, Has
  <1>2. Marshals(seen[r].gauges, Payload[r][1])' = Marshals(seen[r].gauges, Payload[r][1])
    BY DEF Marshals, IsNaN
  <1>3. Seen(r)' /\ Stage(r)'
    BY <1>1 DEF Mine, Seen, Stage, Taken, SawAll, SawItself, Database, InProgress
  <1>4. AnswerTells(r)' /\ ReplyIsFresh(r)'
    BY <1>1, <1>2 DEF Mine, AnswerTells, ReplyIsFresh, Database, Shows
  <1>5. EventTells(r)' /\ AgentUnderstood(r)' /\ (since'[r] # Nil => Welcome(r)')
    BY <1>1 DEF Mine, EventTells, AgentUnderstood, Welcome, AuditAsked, Database
  <1> QED
    BY <1>3, <1>4, <1>5 DEF Mine

LEMMA NewMine ==
  ASSUME NEW r \in Requests, Mine(r), at[r] = "new", UNCHANGED <<log, requestVars>>
  PROVE  Mine(r)'
  BY DEF Mine, Seen, Stage, AnswerTells, ReplyIsFresh, EventTells, AgentUnderstood,
         requestVars, Stored, Among, InProgress

LEMMA ExitMine ==
  ASSUME TypeOK, NEW r \in Requests, Mine(r), Exit
  PROVE  Mine(r)'
  <1> USE DEF TypeOK, Exit
  <1>1. CASE at[r] = "new"
    <2>1. at'[r] = "new" /\ status'[r] = status[r]
      BY <1>1
    <2> QED
      BY <1>1, <2>1 DEF Mine, Seen, Stage, AnswerTells, ReplyIsFresh, EventTells,
           AgentUnderstood, Stored, Among, InProgress
  <1>2. CASE at[r] = "replied"
    <2>1. at'[r] = at[r] /\ status'[r] = status[r]
          /\ UNCHANGED <<cfg, asked, log, since, seen, event, unseen>>
      BY <1>2
    <2>2. /\ Stored(r)' = Stored(r)
          /\ Among(r, seen[r].gauges)' = Among(r, seen[r].gauges)
          /\ Has(since[r], Call[r].asks)' = Has(since[r], Call[r].asks)
      BY <2>1 DEF Stored, Among, Has
    <2>3. Marshals(seen[r].gauges, Payload[r][1])' = Marshals(seen[r].gauges, Payload[r][1])
      BY <2>1 DEF Marshals, IsNaN
    <2>4. Seen(r)' /\ Stage(r)'
      BY <1>2, <2>1, <2>2 DEF Mine, Seen, Stage, InProgress
    <2>5. AnswerTells(r)' /\ ReplyIsFresh(r)'
      BY <2>1, <2>2, <2>3 DEF Mine, AnswerTells, ReplyIsFresh, Database, Shows
    <2>6. EventTells(r)' /\ AgentUnderstood(r)' /\ (since'[r] # Nil => Welcome(r)')
      BY <2>1, <2>2 DEF Mine, EventTells, AgentUnderstood, Welcome, AuditAsked, Database
    <2> QED
      BY <2>4, <2>5, <2>6 DEF Mine
  <1>3. CASE at[r] \notin {"new", "replied"}
    <2>1. at'[r] = "replied" /\ status'[r] = "lost" /\ event[r] = "none"
      BY <1>3 DEF Mine, Stage
    <2> QED
      BY <1>3, <2>1 DEF Mine, Seen, Stage, AnswerTells, ReplyIsFresh, EventTells,
           AgentUnderstood, Welcome, Shows, InProgress
  <1> QED
    BY <1>1, <1>2, <1>3

LEMMA OthersMine ==
  ASSUME TypeOK, NEW q \in Requests, Receive(q) \/ Handle(q),
         NEW r \in Requests \ {q}, Mine(r)
  PROVE  Mine(r)'
  <1>1. /\ UNCHANGED <<phase, cfg, asked>> /\ (log' = log \/ log' = Append(log, q))
        /\ UNCHANGED requestState(r)
    BY RequestStep
  <1>2. /\ at'[r] = at[r] /\ status'[r] = status[r] /\ since'[r] = since[r]
        /\ seen'[r] = seen[r] /\ event'[r] = event[r] /\ (r \in unseen' <=> r \in unseen)
    BY <1>1 DEF requestState
  <1>3. /\ Len(log) <= Len(log') /\ Len(log) \in Nat /\ Len(log') \in Nat
        /\ \A i \in 1..Len(log) : log'[i] = log[i]
        /\ Stored(r)' = Stored(r)
    <2>1. log \in Seq(Requests)
      BY DEF TypeOK
    <2> QED
      BY <1>1, <2>1, Prefix
  <1>4. ASSUME NEW p \in 0..Len(log)
        PROVE  /\ Among(r, p)' = Among(r, p)
               /\ \A m : Has(p, m)' = Has(p, m)
               /\ \A m : Marshals(p, m)' = Marshals(p, m)
    <2>1. log \in Seq(Requests)
      BY DEF TypeOK
    <2> QED
      BY <1>3, <2>1, PrefixStays
  <1>5. Seen(r) /\ Seen(r)'
    BY <1>2, <1>3 DEF Mine, Seen
  <1>. PICK p \in 0..Len(log) : p = seen[r].gauges
    BY <1>5 DEF Seen
  <1>p. p = seen'[r].gauges
    BY <1>2
  <1>6. AnswerTells(r)'
    BY <1>1, <1>2, <1>3 DEF Mine, AnswerTells, Database
  <1>7. Among(r, seen[r].gauges)' = Among(r, seen[r].gauges)
    <2>1. Among(r, p)' = Among(r, p)
      BY <1>4
    <2> QED
      BY <1>p, <2>1 DEF Among
  <1>8. Stage(r)'
    <2>1. Taken(r)' = Taken(r) /\ SawAll(r)' = SawAll(r)
      <3>1. cfg' = cfg
        BY <1>1
      <3> QED
        BY <3>1, <1>2, <1>3 DEF Taken, SawAll, Database
    <2>2. SawItself(r)' = SawItself(r)
      BY <2>1, <1>7 DEF SawItself
    <2>3. since[r] \in 0..Len(log) => since'[r] \in 0..Len(log')
      BY <1>2, <1>3
    <2>4. Stage(r)
      BY DEF Mine
    <2> QED
      BY <2>1, <2>2, <2>3, <2>4, <1>2, <1>3 DEF Stage, InProgress
  <1>9. ReplyIsFresh(r)'
    <2>1. since[r] # Nil => Has(since[r], Call[r].asks)' = Has(since[r], Call[r].asks)
      BY <1>2, <1>4, <1>5 DEF Seen, Has
    <2> QED
      BY <1>2, <1>7, <2>1 DEF Mine, ReplyIsFresh, Shows
  <1>10. EventTells(r)' /\ AgentUnderstood(r)' /\ (since'[r] # Nil => Welcome(r)')
    BY <1>1, <1>2, <1>3 DEF Mine, EventTells, AgentUnderstood, Welcome, AuditAsked, Database
  <1> QED
    BY <1>2, <1>5, <1>6, <1>8, <1>9, <1>10 DEF Mine

-----------------------------------------------------------------------------
(* What its own steps leave of it. *)

(* An agent that is told 400 or 403 was not set up like the server. *)
LEMMA RefusedAgent ==
  ASSUME cfg = asked, NEW q \in Requests, FromAgent(q),
         \/ Passed(q).refused # ""
         \/ ~Decodes(q, Passed(q)) \/ Verify(q) # ""
  PROVE  IF route(q) = RPC THEN ~Trusted(asked, Call[q].ip)
         ELSE ~Compatible(AgentConfig(q), asked, Call[q].ip)
  <1>0. Verify(q) = "" /\ (route(q) = RPC \/ route(q) = JSONUpdate) /\ cfg = asked
    BY AgentsAreWellFormed
  <1>1. CASE route(q) = RPC
    <2> SUFFICES ASSUME Trusted(asked, Call[q].ip) PROVE FALSE
      BY <1>1
    <2> DEFINE m == SendBatch(Call[q].ip)
    <2>1. Sent[q] = m
      BY <1>1 DEF Sent
    <2>2. m.ip = Call[q].ip /\ m.refused = ""
      BY DEF SendBatch, Message
    <2> HIDE DEF m
    <2>3. Passed(q) = m
      BY <1>0, <1>1, <2>1, <2>2 DEF Passed, TrustedSubnetInterceptor
    <2>4. Decodes(q, Passed(q))
      BY <1>1 DEF Decodes, RPC, JSONUpdate, Batch, JSONValue
    <2> QED
      BY <1>0, <2>2, <2>3, <2>4
  <1>2. CASE route(q) # RPC
    <2> SUFFICES ASSUME Compatible(AgentConfig(q), asked, Call[q].ip) PROVE FALSE
      BY <1>2
    <2>1. Sent[q] = Post(AgentConfig(q), Call[q].ip)
      BY <1>2 DEF Sent
    <2>2. Passed(q) = Middleware(asked, Post(AgentConfig(q), Call[q].ip))
      BY <1>0, <1>2, <2>1 DEF Passed
    <2>3. Passed(q).refused = "" /\ Passed(q).body = Plain
      <3> DEFINE a == AgentConfig(q)
                 ip == Call[q].ip
      <3>1. Compatible(a, asked, ip)
        OBVIOUS
      <3> HIDE DEF a, ip
      <3>2. Middleware(asked, Post(a, ip)).refused = "" /\ Middleware(asked, Post(a, ip)).body = Plain
        BY <3>1, PostIsUnderstood
      <3> QED
        BY <2>2, <3>2 DEF a, ip
    <2> QED
      BY <1>0, <2>3 DEF Decodes
  <1> QED
    BY <1>1, <1>2

LEMMA ReceiveMine ==
  ASSUME TypeOK, cfg = asked, NEW q \in Requests, Mine(q), Receive(q)
  PROVE  Mine(q)'
  <1> DEFINE m == Passed(q)
  <1>1. /\ at[q] = "new" /\ since[q] = Nil /\ status[q] = "none" /\ event[q] = "none"
        /\ ~Stored(q) /\ q \notin unseen
        /\ Seen(q) /\ Len(log) \in Nat
    <2>1. at[q] = "new"
      BY DEF Receive
    <2>2. Stage(q) /\ Seen(q)
      BY DEF Mine
    <2>3. Len(log) \in Nat
      BY DEF TypeOK
    <2> QED
      BY <2>1, <2>2, <2>3 DEF Stage
  <1>2. UNCHANGED <<cfg, asked, log, seen, event, unseen>> /\ Stored(q)' = Stored(q)
    BY DEF Receive, Stored, Among
  <1>3. m.refused \in {"", "400", "403"} /\ Verify(q) \in {"", "400", "404"}
    BY PassedTells, VerifyTells
  <1>4. CASE m.refused # ""
    <2>1. at'[q] = "replied" /\ status'[q] = m.refused /\ since'[q] = Nil
      BY <1>1, <1>4 DEF Receive, Answered, TypeOK
    <2>2. AgentUnderstood(q)'
      <3>1. FromAgent(q) => IF route(q) = RPC THEN ~Trusted(asked, Call[q].ip)
                            ELSE ~Compatible(AgentConfig(q), asked, Call[q].ip)
        BY <1>4, RefusedAgent
      <3> QED
        BY <1>2, <3>1 DEF AgentUnderstood
    <2>3. Seen(q)' /\ Stage(q)'
      BY <1>1, <1>2, <2>1 DEF Seen, Stage, InProgress
    <2>4. AnswerTells(q)' /\ ReplyIsFresh(q)' /\ EventTells(q)'
      BY <1>1, <1>2, <1>3, <1>4, <2>1 DEF AnswerTells, ReplyIsFresh, EventTells
    <2> QED
      BY <2>1, <2>2, <2>3, <2>4 DEF Mine
  <1>5. CASE m.refused = ""
    <2>1. since'[q] = Len(log)
      BY <1>5 DEF Receive, TypeOK
    <2>2. Welcome(q)'
      <3>1. Welcome(q)
        BY <1>5, PassedTells DEF Welcome
      <3> QED
        BY <1>2, <3>1 DEF Welcome
    <2>3. CASE Decodes(q, m) /\ Verify(q) = ""
      <3>1. at'[q] = "admitted" /\ status'[q] = "none"
        BY <1>1, <1>5, <2>3 DEF Receive, TypeOK
      <3>2. Seen(q)' /\ Stage(q)'
        BY <1>1, <1>2, <2>1, <3>1 DEF Seen, Stage, InProgress
      <3>3. AnswerTells(q)' /\ ReplyIsFresh(q)' /\ EventTells(q)' /\ AgentUnderstood(q)'
        BY <1>1, <1>2, <3>1 DEF AnswerTells, ReplyIsFresh, EventTells, AgentUnderstood, Shows
      <3> QED
        BY <2>2, <3>2, <3>3 DEF Mine
    <2>4. CASE ~(Decodes(q, m) /\ Verify(q) = "")
      <3> DEFINE code == IF Decodes(q, m) THEN Verify(q) ELSE "400"
      <3>0. code \in {"400", "404"} /\ (code = "404" => Verify(q) = "404")
        BY <1>3, <2>4
      <3>1. at'[q] = "replied" /\ status'[q] = code
        BY <1>5, <2>4 DEF Receive, Answered, TypeOK
      <3> HIDE DEF code
      <3>2. Seen(q)' /\ Stage(q)'
        BY <1>1, <1>2, <2>1, <3>1 DEF Seen, Stage, InProgress
      <3>3. AgentUnderstood(q)'
        <4>1. FromAgent(q) => IF route(q) = RPC THEN ~Trusted(asked, Call[q].ip)
                              ELSE ~Compatible(AgentConfig(q), asked, Call[q].ip)
          BY <2>4, RefusedAgent
        <4> QED
          BY <1>2, <4>1 DEF AgentUnderstood
      <3>4. AnswerTells(q)' /\ EventTells(q)'
        BY <1>1, <1>2, <3>0, <3>1 DEF AnswerTells, EventTells
      <3>5. ReplyIsFresh(q)'
        <4>1. status'[q] = "404" /\ route(q) \in {JSONValue, PathValue}
                => Call[q].asks.mtype = "unknown"
          BY <3>0, <3>1, VerifyTells DEF JSONValue, PathValue, PathUpdate
        <4>2. Call[q].asks.mtype = "unknown" => ~Has(since[q], Call[q].asks)'
          BY DEF Has, Writes
        <4> QED
          BY <3>0, <3>1, <4>1, <4>2 DEF ReplyIsFresh, Shows
      <3> QED
        BY <2>2, <3>2, <3>3, <3>4, <3>5 DEF Mine
    <2> QED
      BY <2>3, <2>4
  <1> QED
    BY <1>4, <1>5

(* A request at work has neither status nor event, and knows its since. *)
LEMMA AtWork ==
  ASSUME TypeOK, NEW q \in Requests, Mine(q), at[q] \in InProgress
  PROVE  /\ status[q] = "none" /\ event[q] = "none"
         /\ since[q] \in 0..Len(log) /\ since[q] \in Nat /\ Len(log) \in Nat
         /\ Seen(q) /\ seen[q].gauges \in Nat /\ seen[q].counters \in Nat
         /\ at[q] = "admitted" => ~Stored(q) /\ q \notin unseen
  <1>1. Stage(q) /\ Seen(q)
    BY DEF Mine
  <1>2. Len(log) \in Nat
    BY DEF TypeOK
  <1> QED
    BY <1>1, <1>2 DEF Stage, Seen, InProgress

(* What holds of one that goes on working or ends with neither 400 nor 403 *)
(* nor an event.                                                           *)
LEMMA QuietMine ==
  ASSUME TypeOK, NEW q \in Requests, Mine(q), at[q] \in InProgress,
         UNCHANGED <<cfg, asked, since, event>>,
         status'[q] \in {"none", "200", "404", "500"}
  PROVE  /\ AgentUnderstood(q)' /\ (since'[q] # Nil => Welcome(q)')
         /\ status'[q] # "200" \/ route(q) \notin HTTPUpdates => EventTells(q)'
         /\ route(q) = RPC => ~Shows(q)'
         /\ status'[q] \in {"none", "500"} \/ q \in unseen' => ReplyIsFresh(q)'
  <1>1. event[q] = "none"
    BY AtWork
  <1>2. AgentUnderstood(q)'
    BY DEF AgentUnderstood
  <1>3. since'[q] # Nil => Welcome(q)'
    BY DEF Mine, Welcome
  <1>4. status'[q] # "200" \/ route(q) \notin HTTPUpdates => EventTells(q)'
    BY <1>1 DEF EventTells
  <1>5. route(q) = RPC => ~Shows(q)'
    BY DEF Shows, RPC, JSONValue, PathValue, Page, JSONUpdate
  <1>6. status'[q] \in {"none", "500"} \/ q \in unseen' => ReplyIsFresh(q)'
    BY DEF ReplyIsFresh, Shows
  <1> QED
    BY <1>2, <1>3, <1>4, <1>5, <1>6

LEMMA TakenInMine ==
  ASSUME TypeOK, NEW q \in Requests, TakenIn(q)
  PROVE  /\ Stored(q)' /\ Len(log') = Len(log) + 1 /\ Len(log) \in Nat
  <1>1. log \in Seq(Requests) /\ log' = Append(log, q)
    BY DEF TypeOK, TakenIn
  <1>2. Len(log') = Len(log) + 1 /\ Len(log) \in Nat /\ log'[Len(log')] = q
    BY <1>1
  <1> QED
    BY <1>2 DEF Stored, Among

LEMMA UpdateMine ==
  ASSUME TypeOK, NEW q \in Requests, Mine(q), Update(q) \/ BatchFails(q) \/ UpdateFails(q)
  PROVE  Mine(q)'
  <1>0. at[q] = "admitted" /\ at[q] \in InProgress
    BY DEF Update, BatchFails, UpdateFails, Admitted, InProgress
  <1>1. /\ status[q] = "none" /\ event[q] = "none" /\ since[q] \in 0..Len(log)
        /\ Len(log) \in Nat /\ Seen(q) /\ ~Stored(q) /\ q \notin unseen
    BY <1>0, AtWork
  <1>2. UNCHANGED <<cfg, asked, since, seen, event>>
    BY DEF Update, BatchFails, UpdateFails
  <1>3. Len(log') \in Nat /\ Len(log) <= Len(log')
    BY <1>1, TakenInMine DEF Update, BatchFails, UpdateFails
  <1>4. Seen(q)' /\ since'[q] \in 0..Len(log')
    BY <1>1, <1>2, <1>3 DEF Seen
  <1>5. CASE BatchFails(q)
    <2>1. at'[q] = "replied" /\ status'[q] = "500" /\ route(q) \in {Batch, RPC}
      BY <1>5 DEF BatchFails, Answered, Admitted, TypeOK
    <2>2. Stage(q)'
      BY <2>1 DEF Stage, InProgress
    <2>3. AnswerTells(q)'
      BY <2>1 DEF AnswerTells, Batch, RPC, JSONUpdate, PathUpdate
    <2>4. ReplyIsFresh(q)' /\ EventTells(q)' /\ AgentUnderstood(q)'
          /\ (since'[q] # Nil => Welcome(q)')
      BY <1>0, <1>2, <2>1, QuietMine
    <2> QED
      BY <1>4, <2>2, <2>3, <2>4 DEF Mine
  <1>6. ASSUME Update(q) \/ UpdateFails(q)
        PROVE  /\ Taken(q)' /\ route(q) \in Updates /\ Proceed(q)
               /\ Update(q) => Stored(q)' /\ Verdict(q) = "ok"
               /\ UpdateFails(q) => route(q) \in {JSONUpdate, PathUpdate}
    BY <1>6, TakenInMine
       DEF Update, UpdateFails, Admitted, Taken, Database, Updates, HTTPUpdates
  <1>7. CASE (Update(q) \/ UpdateFails(q)) /\ route(q) # RPC
    <2>1. route(q) \in {JSONUpdate, Batch, PathUpdate}
      BY <1>6, <1>7 DEF Updates, HTTPUpdates
    <2>2. /\ status'[q] = "none"
          /\ at'[q] = IF route(q) = JSONUpdate THEN "updated" ELSE "told"
      BY <1>1, <1>6, <1>7 DEF Proceed, TypeOK
    <2>3. Stage(q)'
      BY <1>1, <1>2, <1>4, <1>6, <1>7, <2>1, <2>2 DEF Stage, InProgress, HTTPUpdates
    <2>4. AnswerTells(q)'
      BY <2>2 DEF AnswerTells
    <2>5. ReplyIsFresh(q)' /\ EventTells(q)' /\ AgentUnderstood(q)'
          /\ (since'[q] # Nil => Welcome(q)')
      BY <1>0, <1>2, <2>2, QuietMine
    <2> QED
      BY <1>4, <2>3, <2>4, <2>5 DEF Mine
  <1>8. CASE (Update(q) \/ UpdateFails(q)) /\ route(q) = RPC
    <2>1. Update(q)
      BY <1>6, <1>8 DEF RPC, JSONUpdate, PathUpdate
    <2>2. at'[q] = "replied" /\ status'[q] = "200"
      BY <1>6, <1>8 DEF Proceed, Answered, TypeOK, RPC, JSONUpdate
    <2>3. Stage(q)'
      BY <2>2 DEF Stage, InProgress
    <2>4. AnswerTells(q)'
      BY <1>6, <2>1, <2>2 DEF AnswerTells
    <2>5. route(q) \notin HTTPUpdates
      BY <1>8 DEF HTTPUpdates, RPC, JSONUpdate, Batch, PathUpdate
    <2>6. EventTells(q)' /\ AgentUnderstood(q)' /\ (since'[q] # Nil => Welcome(q)')
          /\ ~Shows(q)'
      BY <1>0, <1>2, <1>8, <2>2, <2>5, QuietMine
    <2>7. ReplyIsFresh(q)'
      BY <2>2, <2>6 DEF ReplyIsFresh
    <2> QED
      BY <1>4, <2>3, <2>4, <2>6, <2>7 DEF Mine
  <1> QED
    BY <1>5, <1>7, <1>8

LEMMA ReadBackMine ==
  ASSUME TypeOK, NEW q \in Requests, Mine(q), ReadBack(q) \/ ReadBackFails(q)
  PROVE  Mine(q)'
  <1>0. at[q] = "updated" /\ at[q] \in InProgress
    BY DEF ReadBack, ReadBackFails, InProgress
  <1>1. /\ status[q] = "none" /\ event[q] = "none" /\ since[q] \in 0..Len(log)
        /\ Len(log) \in Nat /\ Seen(q) /\ since[q] \in Nat
    BY <1>0, AtWork
  <1>2. Taken(q) /\ route(q) = JSONUpdate /\ route(q) \in HTTPUpdates
    BY <1>0 DEF Mine, Stage
  <1>3. UNCHANGED <<cfg, asked, log, since, event>> /\ Stored(q)' = Stored(q)
    BY DEF ReadBack, ReadBackFails, Stored, Among
  <1>4. Taken(q)'
    BY <1>2, <1>3 DEF ReadBack, ReadBackFails, Taken, Database
  <1>5. /\ ReadBack(q) => seen'[q] = ReadsNow /\ unseen' = unseen
        /\ ReadBackFails(q) => seen'[q] = seen[q] /\ q \in unseen'
    BY DEF ReadBack, ReadBackFails, TypeOK
  <1>6. Seen(q)'
    BY <1>1, <1>3, <1>5 DEF Seen, ReadsNow
  <1>7. CASE ReadBack(q) /\ ~Marshals(Len(log), Payload[q][1])
    <2>1. at'[q] = "replied" /\ status'[q] = "500"
      BY <1>7 DEF ReadBack, Answered, TypeOK
    <2>2. Stage(q)'
      BY <2>1 DEF Stage, InProgress
    <2>3. AnswerTells(q)'
      BY <2>1 DEF AnswerTells
    <2>4. ReplyIsFresh(q)' /\ EventTells(q)' /\ AgentUnderstood(q)'
          /\ (since'[q] # Nil => Welcome(q)')
      BY <1>0, <1>3, <2>1, QuietMine
    <2> QED
      BY <1>6, <2>2, <2>3, <2>4 DEF Mine
  <1>8. CASE ReadBackFails(q) \/ Marshals(Len(log), Payload[q][1])
    <2>1. at'[q] = "told" /\ status'[q] = "none"
      BY <1>1, <1>8 DEF ReadBack, ReadBackFails, TypeOK
    <2>2. q \notin unseen' => SawItself(q)'
      <3> SUFFICES ASSUME q \notin unseen' PROVE SawItself(q)'
        OBVIOUS
      <3>1. ReadBack(q) /\ Stored(q)
        BY <1>2, <1>5 DEF Taken
      <3>2. SawAll(q)'
        BY <1>1, <1>3, <1>5, <3>1 DEF SawAll, ReadsNow
      <3>3. Among(q, seen[q].gauges)'
        BY <1>3, <1>5, <3>1 DEF Stored, Among, ReadsNow
      <3> QED
        BY <3>2, <3>3 DEF SawItself
    <2>3. Stage(q)'
      BY <1>1, <1>2, <1>3, <1>4, <2>1, <2>2 DEF Stage, InProgress
    <2>4. AnswerTells(q)'
      BY <2>1 DEF AnswerTells
    <2>5. ReplyIsFresh(q)' /\ EventTells(q)' /\ AgentUnderstood(q)'
          /\ (since'[q] # Nil => Welcome(q)')
      BY <1>0, <1>3, <2>1, QuietMine
    <2> QED
      BY <1>6, <2>3, <2>4, <2>5 DEF Mine
  <1> QED
    BY <1>7, <1>8

LEMMA NotifyMine ==
  ASSUME TypeOK, cfg = asked, NEW q \in Requests, Mine(q), Notify(q)
  PROVE  Mine(q)'
  <1>0. at[q] = "told" /\ at[q] \in InProgress
    BY DEF Notify, InProgress
  <1>1. /\ status[q] = "none" /\ event[q] = "none" /\ since[q] \in 0..Len(log)
        /\ Len(log) \in Nat /\ Seen(q)
    BY <1>0, AtWork
  <1>2. /\ Taken(q) /\ route(q) \in HTTPUpdates
        /\ route(q) = JSONUpdate /\ q \notin unseen => SawItself(q)
    BY <1>0 DEF Mine, Stage
  <1>3. UNCHANGED <<phase, cfg, asked, log, since, unseen>> /\ Stored(q)' = Stored(q)
        /\ Running
    BY DEF Notify, Stored, Among
  <1>4. at'[q] = "replied" /\ status'[q] = "200"
    BY DEF Notify, Answered, PanicStatus, TypeOK
  <1>5. /\ Auditing = AuditAsked /\ AuditAsked' = AuditAsked
        /\ event'[q] = IF ~AuditAsked THEN "none"
                       ELSE IF phase = "closing" THEN "panicked" ELSE "offered"
        /\ event'[q] # "panicked" => seen'[q] = seen[q]
        /\ event'[q] = "panicked" => seen'[q] = NotRead
    <2>1. Auditing = AuditAsked /\ AuditAsked' = AuditAsked
      BY <1>3 DEF Auditing, AuditAsked
    <2> QED
      BY <1>1, <2>1 DEF Notify, TypeOK
  <1>6. Taken(q)' /\ Stage(q)'
    BY <1>2, <1>3, <1>4 DEF Taken, Stage, Database, InProgress
  <1>7. Seen(q)'
    BY <1>1, <1>3, <1>5 DEF Seen, NotRead
  <1>s. (route(q) \in {Batch, RPC} \/ ~Database)' => Stored(q)' /\ Verdict(q) = "ok"
    BY <1>6 DEF Taken, Batch, RPC, JSONUpdate, PathUpdate
  <1>8. AnswerTells(q)'
    BY <1>4, <1>s DEF AnswerTells
  <1>9. EventTells(q)'
    BY <1>2, <1>3, <1>4, <1>5, <1>s DEF EventTells, Running
  <1>10. ReplyIsFresh(q)'
    <2>1. Shows(q)' => route(q) = JSONUpdate /\ event'[q] # "panicked"
      BY <1>2 DEF Shows, HTTPUpdates, JSONUpdate, Batch, PathUpdate, JSONValue, PathValue, Page
    <2>2. Shows(q)' /\ q \notin unseen' => SawAll(q)' /\ Among(q, seen[q].gauges)'
      BY <1>2, <1>3, <1>5, <2>1 DEF SawItself, SawAll, Among
    <2> QED
      BY <1>4, <2>2 DEF ReplyIsFresh, SawAll
  <1>11. AgentUnderstood(q)' /\ (since'[q] # Nil => Welcome(q)')
    BY <1>3, <1>4 DEF AgentUnderstood, Mine, Welcome
  <1> QED
    BY <1>6, <1>7, <1>8, <1>9, <1>10, <1>11 DEF Mine

LEMMA HasGrows ==
  ASSUME NEW p \in Nat, NEW n \in Nat, p <= n, NEW m, Has(p, m)
  PROVE  Has(n, m)
  BY DEF Has

LEMMA ValueMine ==
  ASSUME TypeOK, NEW q \in Requests, Mine(q), Value(q) \/ ValueFails(q)
  PROVE  Mine(q)'
  <1>0. at[q] = "admitted" /\ at[q] \in InProgress /\ route(q) \in {JSONValue, PathValue}
    BY DEF Value, ValueFails, Admitted, InProgress
  <1>1. /\ status[q] = "none" /\ event[q] = "none" /\ since[q] \in 0..Len(log)
        /\ Len(log) \in Nat /\ Seen(q) /\ since[q] \in Nat
    BY <1>0, AtWork
  <1>2. route(q) \notin Updates /\ route(q) \notin HTTPUpdates
    BY <1>0 DEF Updates, HTTPUpdates, JSONUpdate, Batch, PathUpdate, RPC, JSONValue, PathValue
  <1>3. UNCHANGED <<cfg, asked, log, since, event>>
    BY DEF Value, ValueFails
  <1>4. /\ at'[q] = "replied" /\ status'[q] \in {"200", "404", "500"}
        /\ Value(q) => seen'[q] = ReadsNow
        /\ Value(q) /\ status'[q] = "404" => ~Has(Len(log), Call[q].asks)
        /\ ValueFails(q) => seen'[q] = seen[q] /\ q \in unseen'
    BY DEF Value, ValueFails, Answered, TypeOK
  <1>5. Seen(q)'
    BY <1>1, <1>3, <1>4 DEF Seen, ReadsNow
  <1>6. Stage(q)' /\ AnswerTells(q)'
    BY <1>2, <1>4 DEF Stage, AnswerTells, InProgress
  <1>7. /\ EventTells(q)' /\ AgentUnderstood(q)' /\ (since'[q] # Nil => Welcome(q)')
        /\ q \in unseen' => ReplyIsFresh(q)'
    BY <1>0, <1>2, <1>3, <1>4, QuietMine
  <1>8. ASSUME Value(q)
        PROVE  ReplyIsFresh(q)'
    <2>1. seen'[q].gauges >= since'[q] /\ seen'[q].counters >= since'[q]
      BY <1>1, <1>3, <1>4, <1>8 DEF ReadsNow
    <2>2. status'[q] = "404" => ~Has(since[q], Call[q].asks)
      BY <1>1, <1>4, <1>8, HasGrows
    <2>3. status'[q] = "404" => ~Has(since[q], Call[q].asks)'
      BY <1>3, <2>2 DEF Has
    <2>4. route(q) # JSONUpdate
      BY <1>2 DEF HTTPUpdates
    <2> QED
      BY <2>1, <2>3, <2>4 DEF ReplyIsFresh
  <1> QED
    BY <1>4, <1>5, <1>6, <1>7, <1>8 DEF Mine

LEMMA PageMine ==
  ASSUME TypeOK, NEW q \in Requests, Mine(q),
         RootPage(q) \/ QueryGauges(q) \/ QueryCounters(q)
  PROVE  Mine(q)'
  <1>0. at[q] \in InProgress /\ route(q) = Page
    BY DEF RootPage, QueryGauges, QueryCounters, Admitted, InProgress, Mine, Stage
  <1>1. /\ status[q] = "none" /\ event[q] = "none" /\ since[q] \in 0..Len(log)
        /\ Len(log) \in Nat /\ Seen(q) /\ since[q] \in Nat
        /\ seen[q].gauges \in Nat /\ seen[q].counters \in Nat
    BY <1>0, AtWork
  <1>2. route(q) \notin Updates /\ route(q) \notin HTTPUpdates /\ route(q) # JSONUpdate
        /\ route(q) \notin {JSONValue, PathValue}
    BY <1>0 DEF Updates, HTTPUpdates, JSONUpdate, Batch, PathUpdate, RPC, Page,
         JSONValue, PathValue
  <1>3. UNCHANGED <<cfg, asked, log, since, event>>
    BY DEF RootPage, QueryGauges, QueryCounters
  <1>4. AnswerTells(q)'
    BY <1>2 DEF AnswerTells
  <1>5. CASE QueryGauges(q)
    <2>1. at'[q] = "half" /\ status'[q] = "none"
      BY <1>1, <1>5 DEF QueryGauges, TypeOK
    <2>2. \/ seen'[q] = [gauges |-> Len(log), counters |-> 0]
          \/ seen'[q] = seen[q] /\ q \in unseen'
      BY <1>5 DEF QueryGauges, TypeOK
    <2>3. Seen(q)'
      BY <1>1, <1>3, <2>2 DEF Seen
    <2>4. Stage(q)'
      BY <1>0, <1>1, <1>3, <2>1, <2>2 DEF Stage, InProgress
    <2>5. ReplyIsFresh(q)' /\ EventTells(q)' /\ AgentUnderstood(q)'
          /\ (since'[q] # Nil => Welcome(q)')
      BY <1>0, <1>3, <2>1, QuietMine
    <2> QED
      BY <1>4, <2>3, <2>4, <2>5 DEF Mine
  <1>6. CASE RootPage(q) \/ QueryCounters(q)
    <2>1. at'[q] = "replied" /\ status'[q] = "200"
      BY <1>6 DEF RootPage, QueryCounters, Answered, TypeOK
    <2>2. \/ RootPage(q) /\ seen'[q] = ReadsNow
          \/ QueryCounters(q) /\ unseen' = unseen
             /\ seen'[q] = [gauges |-> seen[q].gauges, counters |-> Len(log)]
          \/ seen'[q] = seen[q] /\ q \in unseen'
      BY <1>6 DEF RootPage, QueryCounters, TypeOK
    <2>3. Seen(q)'
      BY <1>1, <1>3, <2>2 DEF Seen, ReadsNow
    <2>4. Stage(q)'
      BY <2>1 DEF Stage, InProgress
    <2>5. EventTells(q)' /\ AgentUnderstood(q)' /\ (since'[q] # Nil => Welcome(q)')
      BY <1>0, <1>2, <1>3, <2>1, QuietMine
    <2>6. q \notin unseen' => seen'[q].gauges >= since[q] /\ seen'[q].counters >= since[q]
      <3>1. QueryCounters(q) /\ q \notin unseen => seen[q].gauges >= since[q]
        BY DEF QueryCounters, Mine, Stage
      <3> QED
        BY <1>1, <2>2, <3>1 DEF ReadsNow
    <2>7. ReplyIsFresh(q)'
      BY <1>2, <1>3, <2>1, <2>6 DEF ReplyIsFresh
    <2> QED
      BY <1>4, <2>3, <2>4, <2>5, <2>7 DEF Mine
  <1> QED
    BY <1>5, <1>6

-----------------------------------------------------------------------------
LEMMA OwnMine ==
  ASSUME TypeOK, ConfigInv, NEW q \in Requests, Mine(q), Receive(q) \/ Handle(q)
  PROVE  Mine(q)'
  <1>0. cfg = asked
    BY RequestStep DEF ConfigInv
  <1>1. CASE Receive(q)
    BY <1>0, <1>1, ReceiveMine
  <1>2. CASE Handle(q)
    BY <1>0, <1>2, UpdateMine, ReadBackMine, NotifyMine, ValueMine, PageMine DEF Handle
  <1> QED
    BY <1>1, <1>2

LEMMA MineStep ==
  ASSUME IInv, [Next]_handlersVars, NEW r \in Requests
  PROVE  Mine(r)'
  <1>1. TypeOK /\ ConfigInv /\ QuietStart /\ Mine(r)
    BY DEF IInv
  <1>2. CASE Fail \/ Shutdown \/ CloseAudit \/ UNCHANGED handlersVars
    <2>1. /\ UNCHANGED <<cfg, asked, log, requestVars>>
          /\ phase' \in {"serving", "stopping"} => phase \in {"serving", "stopping"}
          /\ phase \in {"closing", "ended"} => phase' \in {"closing", "ended"}
      BY <1>2 DEF Fail, Shutdown, CloseAudit, handlersVars
    <2> QED
      BY <1>1, <2>1, SameMine
  <1>3. CASE (\E s \in Starts : Configure(s)) \/ Serve
    <2>1. UNCHANGED <<log, requestVars>> /\ at[r] = "new"
      BY <1>1, <1>3 DEF Configure, Serve, QuietStart
    <2> QED
      BY <1>1, <2>1, NewMine
  <1>4. CASE Exit
    BY <1>1, <1>4, ExitMine
  <1>5. ASSUME NEW q \in Requests, Receive(q) \/ Handle(q)
        PROVE  Mine(r)'
    <2>1. CASE q = r
      BY <1>1, <1>5, <2>1, OwnMine
    <2>2. CASE q # r
      BY <1>1, <1>5, <2>2, OthersMine
    <2> QED
      BY <2>1, <2>2
  <1> QED
    BY <1>2, <1>3, <1>4, <1>5 DEF Next

(* Every behaviour of the server keeps its invariant. *)
THEOREM Invariant == Spec => []IInv
  <1>1. Init => IInv
    BY InitInv
  <1>2. IInv /\ [Next]_handlersVars => IInv'
    <2> SUFFICES ASSUME IInv, [Next]_handlersVars PROVE IInv'
      OBVIOUS
    <2>1. TypeOK'
      BY TypeStep DEF IInv
    <2>2. ConfigInv' /\ QuietStart'
      BY ConfigStep, QuietStep
    <2>3. \A r \in Requests : Mine(r)'
      BY MineStep
    <2> QED
      BY <2>1, <2>2, <2>3 DEF IInv
  <1> QED
    BY <1>1, <1>2, PTL DEF Spec

(* Requests are where their handlers can be, and statuses those they give. *)
THEOREM TypeCorrect == Spec => []TypeOK
  <1>1. IInv => TypeOK
    BY DEF IInv
  <1> QED
    BY <1>1, Invariant, PTL

(* ParseFlags, a pass over the options in the order of the code, takes each *)
(* from the first layer that gives it (config.go:3, 121-170), for any      *)
(* sources, but for the options a file sets to zero over a default: those  *)
(* it takes from the default, and the theorem says nothing of them.        *)
THEOREM Configured == Spec => []ConfigAsDocumented
  <1>1. IInv => ConfigAsDocumented
    BY DEF IInv, ConfigInv
  <1> QED
    BY <1>1, Invariant, PTL

(* For any clients and payloads, a batch or an RPC answered 200 is in the  *)
(* storage whatever becomes of the database, a single update answered 200  *)
(* is when the storage is the memory, and none that is answered 4xx is     *)
(* (handlers.go:165-306, server.go:28-41).  Of a single update over a      *)
(* database the 200 tells nothing (postgresql.go:80-104).                  *)
THEOREM AnswersTheTruth == Spec => []AnswersTell
  <1>1. IInv => AnswersTell
    BY DEF IInv, Mine, AnswersTell
  <1> QED
    BY <1>1, Invariant, PTL

(* Replies are as fresh as their requests, however the handlers interleave *)
(* (handlers.go:110-146, 217-236, 279-375).                                *)
THEOREM FreshReplies == Spec => []RepliesAreFresh
  <1>1. IInv => RepliesAreFresh
    BY DEF IInv, Mine, RepliesAreFresh
  <1> QED
    BY <1>1, Invariant, PTL

(* Until it is closed the audit is offered exactly the HTTP updates that   *)
(* are answered 200, and when it is offered a batch, or anything in        *)
(* memory, the storage has it (handlers.go:62-71, 164-306).                *)
THEOREM AuditedUpdates == Spec => []AuditTells
  <1>1. IInv => AuditTells
    BY DEF IInv, Mine, AuditTells
  <1> QED
    BY <1>1, Invariant, PTL

(* Whom the sources of the configuration keep out does not reach a handler *)
(* (subnet.go:12-26, interceptor.go:17-36, handlers.go:381-409).           *)
THEOREM OnlyTheAdmitted == Spec => []AdmittedAsAsked
  <1>1. IInv => AdmittedAsAsked
    BY DEF IInv, Mine, AdmittedAsAsked
  <1> QED
    BY <1>1, Invariant, PTL

(* An agent set up like the server is never told 400 or 403.               *)
THEOREM AgentsAreUnderstood == Spec => []AgentsUnderstood
  <1>1. IInv => AgentsUnderstood
    BY DEF IInv, Mine, AgentsUnderstood
  <1> QED
    BY <1>1, Invariant, PTL
=============================================================================
