----------------------------- MODULE MCKdcRequest ------------------------------
(* A small instance of KdcRequest: a realm with one CA and an intermediate,  *)
(* KDCs with every kind of identity, and requests of this code's clients and *)
(* of others.                                                                *)
EXTENDS KdcRequest

MCCerts == {"ca", "inter", "stray", "garbled", "kdc", "kdcQ",
            "alice", "aliceQ", "bob", "carol", "web", "lone"}
MCKeyOf == [c \in MCCerts |-> "key of " \o c]
MCIdOf == [c \in MCCerts |-> "id of " \o c]
MCIssuerOf == [c \in MCCerts |-> CASE c = "bob" -> "inter"
                                  [] c \in {"stray", "lone"} -> "stray"
                                  [] OTHER -> "ca"]

MCNames == {"alice", "bob", "BOB", "carol", "krbtgt", "anon@R", "anon@WELLKNOWN"}
MCFolded == [n \in MCNames |-> IF n = "BOB" THEN "bob" ELSE n]
MCAnonymous == {"anon@R", "anon@WELLKNOWN"}

holder == [pkinit |-> {}, upn |-> {}, dns |-> {}, ekus |-> {"KPClientAuth"},
           usage |-> {"digitalSignature"}, broken |-> {}]
MCSaysOf ==
  [c \in MCCerts |->
     CASE c \in {"alice", "aliceQ", "lone"} -> [holder EXCEPT !.pkinit = {"alice"}]
       [] c = "bob" -> [holder EXCEPT !.upn = {"BOB"}, !.ekus = {"MsScLogon"}]
       [] c = "carol" -> [holder EXCEPT !.pkinit = {"carol"}]
       [] c = "web" -> [holder EXCEPT !.pkinit = {"alice"}, !.ekus = {"ServerAuth"},
                                      !.usage = {"keyCertSign"}]
       [] c \in {"kdc", "kdcQ"} -> [holder EXCEPT !.pkinit = {"krbtgt"}, !.ekus = {"KPKdc"}]
       [] OTHER -> [holder EXCEPT !.broken = {"eku"}]]

MCTicket == [random |-> "ticket"]
MCServerNonce == <<"s">>
\* In the order of their real sizes: an OID, two, a prime of 2048 or 4096 bits.
MCAlgBytes ==
  [a \in Kems \cup Groups |->
     CASE a \in PureKems -> <<3>>
       [] a \in CompositeKems -> <<4, 4>>
       [] a \in Curves -> <<5, 5, 5>>
       [] a = "oakley2048" -> [i \in 1..11 |-> i % 3]
       [] OTHER -> [i \in 1..21 |-> i % 5]]
\* Secrets with both nonces have four or five bytes: one seed is shorter, one longer.
MCSeedLength == [aes128 |-> 3, aes256 |-> 6]
MCSecretLength == [g \in Groups |-> IF g = "P-256" THEN 2 ELSE 3]
-------------------------------------------------------------------------------
(* Files *)

block(label, der) == [label |-> label, der |-> der]
file(blocks) == [parses |-> TRUE, blocks |-> blocks]
certFile(certs) == file([i \in DOMAIN certs |-> block("CERTIFICATE", certs[i])])
keyFile(c) == file(<<block("PRIVATE KEY", MCKeyOf[c])>>)
noPem == [parses |-> FALSE, blocks |-> <<>>]

uri == [scheme |-> {"FILE"}, comma |-> TRUE, certFiles |-> {}, keyFiles |-> {},
        files |-> {}, readable |-> TRUE,
        archive |-> [parses |-> TRUE, password |-> "", certs |-> <<"kdc">>,
                     keys |-> <<MCKeyOf["kdc"]>>],
        token |-> [certs |-> <<"kdc", "ca">>, keys |-> <<MCKeyOf["kdc"]>>]]

pair(c, chain) == [uri EXCEPT !.certFiles = {certFile(<<c>> \o chain)},
                              !.keyFiles = {keyFile(c)}]
anchorFile(certs) == [uri EXCEPT !.scheme = {}, !.files = {certFile(certs)}]
crlFile == [uri EXCEPT !.files = {file(<<block("X509 CRL", "crl")>>)}]

identities ==
  {pair("kdc", <<>>),
   pair("kdc", <<"garbled">>),
   pair("lone", <<>>), pair("garbled", <<>>),
   [pair("kdc", <<>>) EXCEPT !.scheme = {}],
   [pair("kdc", <<>>) EXCEPT !.comma = FALSE],
   [pair("kdc", <<>>) EXCEPT !.keyFiles = {certFile(<<"kdc">>)}],
   [pair("kdc", <<>>) EXCEPT !.scheme = {"ENV"}, !.certFiles = {}],
   [uri EXCEPT !.scheme = {"DIR"},
      !.files = {certFile(<<"kdc">>), keyFile("kdc"), noPem}],
   [uri EXCEPT !.scheme = {"DIR"},
      !.files = {certFile(<<"kdc">>), certFile(<<"ca">>), keyFile("kdc")}],
   [uri EXCEPT !.scheme = {"DIR"}, !.readable = FALSE],
   [uri EXCEPT !.scheme = {"PKCS12"}],
   [uri EXCEPT !.scheme = {"PKCS12"}, !.archive.password = "secret"],
   [uri EXCEPT !.scheme = {"PKCS11"}]}
-------------------------------------------------------------------------------
(* Profiles *)

defaults == [pkinit_identity |-> pair("kdc", <<>>),
             pkinit_anchors |-> <<anchorFile(<<"ca">>)>>,
             pkinit_indicator |-> {"pkinit"}]
default == [defaults |-> defaults, realm |-> <<>>]
realm(relations) == [default EXCEPT !.realm = relations]

anchorDir == [uri EXCEPT !.scheme = {"DIR"},
                         !.files = {certFile(<<"ca">>), noPem,
                                    file(<<block("X509 CRL", "crl")>>)}]

MCProfiles ==
  {realm([pkinit_identity |-> id]) : id \in identities} \cup
  {realm([pkinit_dh_min_bits |-> n]) :
     n \in {-1, 0, 256, 257, 2047, 2049, 4096, 4097}} \cup
  {default, [defaults |-> <<>>, realm |-> <<>>],
   realm([pkinit_identity |-> pair("kdcQ", <<>>),
          pkinit_pqc_composite_algorithms |-> <<"mlkem768-x25519">>]),
   realm([pkinit_require_kem |-> TRUE, pkinit_pqc_min_algorithm |-> "mlkem768"]),
   realm([pkinit_pqc_min_algorithm |-> "kyber"]),
   realm([pkinit_require_kem |-> TRUE]),
   realm([pkinit_require_kem |-> TRUE, pkinit_pqc_min_algorithm |-> "mlkem1024",
          pkinit_pqc_composite_algorithms |-> <<"mlkem768-x25519", "mlkem768-p256">>]),
   realm([pkinit_eku_checking |-> "none", pkinit_allow_upn |-> TRUE]),
   realm([pkinit_eku_checking |-> "scLogin", pkinit_allow_upn |-> TRUE,
          pkinit_anchors |-> <<anchorDir>>, pkinit_require_crl_checking |-> TRUE]),
   realm([pkinit_require_freshness_token |-> TRUE]),
   realm([pkinit_revoke |-> <<crlFile>>, pkinit_require_crl_checking |-> TRUE,
          pkinit_pool |-> <<anchorFile(<<"inter">>)>>]),
   realm([pkinit_anchors |-> <<anchorFile(<<"ca">>), anchorFile(<<"garbled">>)>>]),
   realm([pkinit_anchors |-> <<[uri EXCEPT !.scheme = {"DIR"}, !.readable = FALSE]>>])}
-------------------------------------------------------------------------------
(* Clients of this code *)

identity(c, chain) == {[cert |-> c, key |-> MCKeyOf[c], chain |-> chain]}
client == [name |-> "alice", identity |-> identity("alice", <<>>), alg |-> "P-256",
           kdfs |-> ToSet(KdfPreference),
           nonce |-> 1, dhNonce |-> <<"n">>, clock |-> 10, token |-> TRUE,
           store |-> [anchors |-> {"ca"}, crls |-> {}], kdc |-> {"krbtgt"},
           hostname |-> {}]
anonymous == [client EXCEPT !.name = "anon@R", !.identity = {}]

clients ==
  {[client EXCEPT !.alg = a, !.nonce = n] :
     a \in {"P-256", "oakley2048", "mlkem512", "mlkem768"}, n \in {1, -1}} \cup
  {[client EXCEPT !.identity = identity("aliceQ", <<>>), !.alg = "mlkem768-x25519"],
   [client EXCEPT !.identity = identity("alice", <<"ca">>), !.token = FALSE],
   [client EXCEPT !.kdfs = {}], [client EXCEPT !.kdfs = {}, !.alg = "oakley2048"],
   [client EXCEPT !.clock = 12], [client EXCEPT !.clock = 13],
   [client EXCEPT !.identity = identity("web", <<>>)],
   [client EXCEPT !.identity = identity("lone", <<"stray">>)],
   [client EXCEPT !.identity = {[cert |-> "alice", key |-> "key of bob", chain |-> <<>>]}],
   [client EXCEPT !.name = "carol"],
   [client EXCEPT !.name = "carol", !.identity = identity("carol", <<>>)],
   [client EXCEPT !.name = "bob", !.identity = identity("bob", <<"inter">>)],
   [client EXCEPT !.name = "bob", !.identity = identity("bob", <<>>)],
   [client EXCEPT !.identity = {}],
   [anonymous EXCEPT !.store.anchors = {"stray"}], [anonymous EXCEPT !.alg = "mlkem768"]}

\* The KDC core spells the anonymous principal its own way.
spelled(name) == IF name = "anon@R" THEN "anon@WELLKNOWN" ELSE name

own(cl, armor, kx) ==
  [from |-> {cl}, empty |-> FALSE, parses |-> TRUE, body |-> BuildAsReq(cl),
   client |-> {spelled(cl.name)}, server |-> "krbtgt", armor |-> armor, kx |-> kx]
-------------------------------------------------------------------------------
(* Requests of other clients *)

other(body, name) ==
  [from |-> {}, empty |-> FALSE, parses |-> TRUE, body |-> body, client |-> name,
   server |-> "krbtgt", armor |-> {}, kx |-> FALSE]

pack == AuthPack(client)
aKey == CHOOSE k \in pack.spki : TRUE
kemPack == AuthPack([client EXCEPT !.alg = "mlkem768"])
kemKey == CHOOSE k \in kemPack.spki : TRUE
signed(p) == CreateSignedData(p, "authData", MCKeyOf["alice"], "alice", <<>>, "sha1")
unsigned(p) == CreateUnsignedData(p, "authData")

packs ==
  {[pack EXCEPT !.parses = FALSE], [pack EXCEPT !.spki = {}],
   [pack EXCEPT !.spki = {[aKey EXCEPT !.decodes = FALSE]}],
   [pack EXCEPT !.spki = {[aKey EXCEPT !.alg = "unknown"]}],
   [pack EXCEPT !.spki = {[aKey EXCEPT !.usable = FALSE]}],
   [pack EXCEPT !.nonce = 8], [pack EXCEPT !.kdfs = {}],
   [pack EXCEPT !.kdfs = {}, !.dhNonce = {}], [pack EXCEPT !.kdfs = {"sha512"}],
   kemPack, [kemPack EXCEPT !.spki = {[kemKey EXCEPT !.params = TRUE]}],
   [kemPack EXCEPT !.spki = {[kemKey EXCEPT !.usable = FALSE]}],
   [kemPack EXCEPT !.dhNonce = {<<"n">>}],
   [kemPack EXCEPT !.kdfs = {}], [kemPack EXCEPT !.kdfs = {"sha256"}]}

signer == signed(pack).signers[1]
odd == [signer EXCEPT !.digest = "md5"]
stranger == [signer EXCEPT !.signature.by = "key of stray"]
attrs(s) == {[signer EXCEPT !.attrs = {s}, !.signature = Signature(MCKeyOf["alice"], s)]}

messages ==
  {[signed(pack) EXCEPT !.signers = <<s>>] :
     s \in {odd, stranger, [signer EXCEPT !.sid = "id of nobody"],
            [signer EXCEPT !.attrs = {}]}
           \cup attrs(<<[kind |-> "garbled", value |-> {}]>> \o SignedAttrs("authData", "sha1", pack))
           \cup attrs(SignedAttrs("other", "sha1", pack))
           \cup attrs(SignedAttrs("authData", "sha1", kemPack))} \cup
  {[signed(pack) EXCEPT !.signers = <<signer, stranger>>],
   [signed(pack) EXCEPT !.signers = <<stranger, signer>>],
   [signed(pack) EXCEPT !.signers = <<stranger>>, !.certs = <<"stray", "alice">>],
   [signed(pack) EXCEPT !.certs = <<"inter", "alice">>],
   [signed(pack) EXCEPT !.certs = <<"garbled", "alice">>],
   [signed(pack) EXCEPT !.certs = <<"alice", "garbled">>],
   [signed(pack) EXCEPT !.content = {}], [signed(pack) EXCEPT !.outer = "data"],
   CreateSignedData(pack, "other", MCKeyOf["alice"], "alice", <<>>, "sha256"),
   Bare(pack, "authData"), Bare(pack, "other"), CreateUnsignedData(pack, "other")}

MCRequests ==
  {own(cl, armor, FALSE) : cl \in clients, armor \in {{}, {"aes128"}}} \cup
  {own(cl, {}, TRUE) : cl \in {anonymous, client}} \cup
  {other(signed(p), {"alice"}) : p \in packs} \cup
  {other(unsigned(p), {"anon@R"}) : p \in packs} \cup
  {other(m, name) : m \in messages, name \in {{"alice"}, {"anon@R"}, {}}} \cup
  {[other(signed(pack), {"alice"}) EXCEPT !.empty = TRUE],
   [other(signed(pack), {"alice"}) EXCEPT !.parses = FALSE]}
================================================================================
