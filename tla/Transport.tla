------------------------------ MODULE Transport ------------------------------
(***************************************************************************)
(* A request on its way from Sender.post (internal/agent/sender.go) through*)
(* the middleware of the server (internal/httpmw, NewSHA256CheckMiddleware,*)
(* in the order of cmd/server/main.go:166-185), and the same for an RPC.   *)
(*                                                                         *)
(* A body is known by what is wrapped around its JSON: gzip, and around    *)
(* that the encryption with the public key of the pair named sealed.       *)
(* Ciphers, hashes and gzip are modelled by what undoes or matches them.   *)
(***************************************************************************)
CONSTANTS NoHeader, \* a header that is not there, an address that does not parse
          Inside    \* Inside[c]: the addresses of the subnet c

Plain == [sealed |-> "", inner |-> "json"]

(* HMAC of a body: it matches for the same bytes and the same key only. *)
ComputeHMAC(body, key) == <<body, key>>

(* A message as the server gets it: refused is the status a middleware has *)
(* answered with, "" while none has.                                       *)
Message(coding, body, hash, ip) ==
    [coding |-> coding, body |-> body, hash |-> hash, ip |-> ip, refused |-> ""]

(* Nobody has refused m yet. *)
Fresh(m) == m = Message(m.coding, m.body, m.hash, m.ip)

Compress(body) == [sealed |-> body.sealed, inner |-> "gzip"]

(* RSA around an AES key, and GCM: only the other half of the pair opens it, *)
(* and nothing that was not sealed with it opens.                          *)
Encrypt(pair, body)  == [sealed |-> pair, inner |-> body.inner]
Decrypts(pair, body) == body.sealed = pair

(* Sender.post with agent configuration a: compress, encrypt, sign what    *)
(* the body was before either.  outboundIP is NoHeader when it fails.      *)
Packed(a) == IF a.crypto = "" THEN Compress(Plain) ELSE Encrypt(a.crypto, Compress(Plain))
PostSigningPayload(a, outboundIP) ==   \* mutant: the HMAC is over what is sent
    Message(IF a.crypto = "" THEN "gzip" ELSE "encrypted", Packed(a),
            IF a.key = "" THEN NoHeader ELSE ComputeHMAC(Packed(a), a.key), outboundIP)
Post(a, outboundIP) ==
    Message(IF a.crypto = "" THEN "gzip" ELSE "encrypted", Packed(a),
            IF a.key = "" THEN NoHeader ELSE ComputeHMAC(Plain, a.key), outboundIP)

(* GRPCSender.SendBatch: the address as metadata, no key of either kind. *)
SendBatch(outboundIP) == Message("identity", Plain, NoHeader, outboundIP)

-----------------------------------------------------------------------------
(* The middleware.  Each passes on what an earlier one has refused. *)

Refuse(m, refusal) == [m EXCEPT !.refused = refusal]
Unwrapped(m) == Message("identity", Plain, m.hash, m.ip)

DecryptMiddleware(cfg, m) ==
    IF cfg.crypto = "" \/ m.coding # "encrypted" THEN m
    ELSE IF Decrypts(cfg.crypto, m.body) /\ m.body.inner = "gzip" THEN Unwrapped(m)
    ELSE Refuse(m, "400")

Trusted(cfg, ip) == cfg.subnet = "" \/ ip \in Inside[cfg.subnet]

TrustedSubnetMiddleware(cfg, m) ==
    IF m.refused # "" \/ Trusted(cfg, m.ip) THEN m ELSE Refuse(m, "403")

GzipMiddleware(m) ==
    IF m.refused # "" \/ m.coding # "gzip" THEN m
    ELSE IF m.body.sealed = "" /\ m.body.inner = "gzip" THEN Unwrapped(m)
    ELSE Refuse(m, "400")

SHA256CheckMiddleware(cfg, m) ==
    IF m.refused # "" \/ cfg.key = "" \/ m.hash = ComputeHMAC(m.body, cfg.key)
    THEN m ELSE Refuse(m, "400")

NoSubnet(cfg, m) ==             \* mutant: the subnet middleware is not installed
    SHA256CheckMiddleware(cfg, GzipMiddleware(DecryptMiddleware(cfg, m)))
Middleware(cfg, m) ==
    SHA256CheckMiddleware(cfg, GzipMiddleware(
        TrustedSubnetMiddleware(cfg, DecryptMiddleware(cfg, m))))

(* The unary interceptor of the gRPC server: the subnet, and nothing else. *)
TrustedSubnetInterceptor(cfg, m) ==
    IF Trusted(cfg, m.ip) THEN m ELSE Refuse(m, "403")

(* An agent and a server that are set up alike, as far as each can tell:   *)
(* the server has the private key the agent encrypts for, the agent the    *)
(* HMAC key the server checks with, and an address of its subnet.          *)
Compatible(a, cfg, ip) ==
    /\ a.crypto # "" => cfg.crypto = a.crypto
    /\ cfg.key # "" => a.key = cfg.key
    /\ Trusted(cfg, ip)
=============================================================================
