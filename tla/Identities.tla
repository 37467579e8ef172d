------------------------------ MODULE Identities -------------------------------
(***************************************************************************)
(* Where certificates and keys come from: the URIs of identity/mod.rs, the *)
(* loaders of identity/loader.rs, the trust store of identity/store.rs.    *)
(*                                                                         *)
(* The world is a set of files.  A file that cannot be read is no file; one*)
(* whose PEM does not parse has `parses` FALSE; otherwise it is the        *)
(* sequence of its blocks.  A directory is a set of files, and readdir     *)
(* gives them in any order.                                                *)
(***************************************************************************)
EXTENDS Lists, SequencesExt

Labels == {"CERTIFICATE", "PRIVATE KEY", "RSA PRIVATE KEY", "EC PRIVATE KEY",
           "X509 CRL"}

\* What the loaders yield: one identity or trust store, or an error.
Loaded(x) == [error |-> "none", value |-> {x}]
Failed(e) == [error |-> e, value |-> {}]

\* IdentitySource::parse of a URI: its scheme ({} without a colon) and whether
\* its rest has the comma that separates two names.
ParseError(uri) ==
  \/ uri.scheme = {}
  \/ \E s \in uri.scheme : \/ s \notin {"FILE", "DIR", "PKCS12", "PKCS11", "ENV"}
                           \/ s \in {"FILE", "ENV"} /\ ~uri.comma

BlocksOf(blocks, labels) ==
  Joined([i \in DOMAIN blocks |->
            IF blocks[i].label \in labels THEN <<blocks[i].der>> ELSE <<>>])

\* extract_cert_and_chain and extract_private_key: the first certificate is the
\* identity's own, the first key its key.  A SEC 1 key is not looked for.
FromBlocks(certBlocks, keyBlocks) ==
  LET certs == BlocksOf(certBlocks, {"CERTIFICATE"})
      keys == BlocksOf(keyBlocks, {"PRIVATE KEY", "RSA PRIVATE KEY"}) IN
  IF certs = <<>> \/ keys = <<>> THEN Failed("IdentityLoadFailed")
  ELSE Loaded([cert |-> Head(certs), key |-> Head(keys), chain |-> Tail(certs)])

\* load_file, and load_env once its variables are read: both files must parse.
LoadFile(certFiles, keyFiles) ==
  IF \E f \in certFiles, k \in keyFiles : f.parses /\ k.parses
  THEN LET f == CHOOSE x \in certFiles : TRUE
           k == CHOOSE x \in keyFiles : TRUE IN FromBlocks(f.blocks, k.blocks)
  ELSE Failed("IdentityLoadFailed")

\* The blocks of a directory listed in this order; files that do not parse are
\* passed over.
Blocks(listing) ==
  Joined([i \in DOMAIN listing |->
            IF listing[i].parses THEN listing[i].blocks ELSE <<>>])

\* load_dir, for each order readdir may give.  One unreadable file spoils it.
LoadDir(files, readable) ==
  IF ~readable THEN {Failed("IdentityLoadFailed")}
  ELSE {FromBlocks(Blocks(listing), Blocks(listing)) : listing \in SetToSeqs(files)}

\* load_pkcs12: the wrong password is told apart from everything else, since
\* only that is worth asking again for.
LoadPkcs12(archive, password) ==
  IF ~archive.parses THEN Failed("IdentityLoadFailed")
  ELSE IF password # archive.password THEN Failed("Pkcs12PasswordRequired")
  ELSE IF archive.certs = <<>> \/ archive.keys = <<>>
  THEN Failed("IdentityLoadFailed")
  ELSE Loaded([cert |-> Head(archive.certs), key |-> Head(archive.keys),
               chain |-> Tail(archive.certs)])

\* load_pkcs11: the key stays on the token, the certificates are read from it.
LoadPkcs11(token) ==
  IF token.keys = <<>> \/ token.certs = <<>> THEN Failed("IdentityLoadFailed")
  ELSE Loaded([cert |-> Head(token.certs), key |-> Head(token.keys),
               chain |-> Tail(token.certs)])
-------------------------------------------------------------------------------
EmptyStore == [anchors |-> {}, crls |-> {}]

AddBlocks(store, blocks) ==
  [anchors |-> store.anchors \cup ToSet(BlocksOf(blocks, {"CERTIFICATE"})),
   crls |-> store.crls \cup ToSet(BlocksOf(blocks, {"X509 CRL"}))]

\* load_from_path: a URI without a scheme names a file; a file that does not
\* parse is an error, in a directory it is passed over.  Every certificate
\* becomes an anchor.
LoadFromPath(store, uri) ==
  IF ~(uri.scheme \subseteq {"FILE", "DIR"}) THEN Failed("Config")
  ELSE IF ~uri.readable THEN Failed("IdentityLoadFailed")
  ELSE IF uri.scheme # {"DIR"} /\ \E f \in uri.files : ~f.parses
  THEN Failed("IdentityLoadFailed")
  ELSE Loaded(AddBlocks(store, Blocks(SetToSeq(uri.files))))

\* The anchors of a configuration, in their order; the first error ends it.
LoadAll(uris) ==
  LET Step(uri, acc) ==
        IF acc.error # "none" THEN acc
        ELSE LoadFromPath(CHOOSE s \in acc.value : TRUE, uri)
  IN FoldLeft(LAMBDA acc, uri : Step(uri, acc), Loaded(EmptyStore), uris)

\* The certificates below an anchor: in every set that holds the anchors and,
\* with a CA, what it issued.  A revoked certificate carries nothing.
LeadsTo(leaf, path, anchors, issuer, revoked) ==
  \A below \in SUBSET (path \cup anchors \cup {leaf}) :
    (/\ anchors \subseteq below
     /\ \A c \in (path \cup {leaf}) \ revoked :
          issuer[c] \in below => c \in below) => leaf \in below

\* validate_chain: one anchor or one certificate of the chain that does not
\* decode spoils it, CRLs must be there if they are asked for, and a path must
\* lead from the leaf to an anchor.  `issuer` maps each certificate to the one
\* that signed it, `revoked` are those the CRLs list.
ValidatesChain(store, leaf, chain, requireCrl, issuer, revoked, undecodable) ==
  /\ (store.anchors \cup ToSet(chain) \cup {leaf}) \cap undecodable = {}
  /\ requireCrl => store.crls # {}
  /\ LeadsTo(leaf, ToSet(chain), store.anchors, issuer,
             IF requireCrl THEN revoked ELSE {})
===============================================================================
