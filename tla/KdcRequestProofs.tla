--------------------------- MODULE KdcRequestProofs ----------------------------
(***************************************************************************)
(* Proofs about KdcRequest for any profiles, requests, certificates, keys  *)
(* and clocks: whom a request that was let through speaks for, which       *)
(* requests are let through, what the client makes of the reply, and which *)
(* session key leaves with it.                                             *)
(*                                                                         *)
(* The invariant relates what a request has left behind to the checks of   *)
(* verify as functions of the KDC and the request (RefusedWith); the rest  *)
(* is about those functions alone and needs no induction.                  *)
(***************************************************************************)
EXTENDS KdcRequest, FiniteSetTheorems, ListsProofs

Single(S) == \E x \in S : S = {x}

\* What a KDC advertises.
Hint(k) == [kind |-> "hint", bytes |-> EncodeHint(AlgList(k.config.listed))]

\* There is a module unless it failed to start, a request only while one is
\* served; results of callbacks only once they were called.
StageInv ==
  /\ stage \in Stages /\ inFlight = Requests
  /\ IF stage \in {"down", "failed"} THEN kdc = {} ELSE Single(kdc)
  /\ IF stage \in {"down", "failed", "idle", "advertised"} THEN request = {}
     ELSE Single(request) /\ request \subseteq Requests
  /\ stage \in {"down", "failed", "idle", "advertised", "received"} => modreq = {}
  /\ stage \in {"verified", "keyed", "sent"} => modreq # {}
  /\ stage \in {"received", "verified"} => padata = {} /\ replyKey = {}
  /\ stage \in {"down", "failed", "idle"} => padata = {}
  /\ stage = "advertised" => padata \in {{}, {Hint(TheKdc)}}
  /\ stage \in {"received", "verified", "keyed"} => session = {Ticket}
  /\ \A f \in refusal : f.code \in Refusals /\ f.edata \in BOOLEAN

\* What is there beyond the request was let through by verify.
VerifiedInv ==
  /\ modreq # {} => /\ modreq = {VerifiedRequest(TheRequest.body)}
                    /\ RefusedWith(TheKdc, TheRequest) = "none"
  /\ replyKey # {} => modreq # {}
  /\ indicators # {} => modreq # {} /\ ~IsAnonymous(TheRequest.body)

\* The reply to the request, and its key.
Answer ==
  BuildAsRep(TheKdc, VerifiedRequest(TheRequest.body), EnctypeFor(TheRequest),
             TheRequest.body, CHOOSE n \in TheRequest.client : TRUE,
             TheRequest.server)

\* The session key that goes into the ticket, and how the client learns of it.
SessionInv ==
  /\ stage \in {"keyed", "sent"} =>
       ~BuildAsRepFails(TheKdc, VerifiedRequest(TheRequest.body))
  /\ stage = "keyed" => replyKey = {Answer.key} /\ padata = {Answer.padata}
  /\ stage = "sent" =>
       /\ replyKey = {Answer.key}
       /\ \/ ~WantsKx(TheRequest) /\ padata = {Answer.padata} /\ session = {Ticket}
          \/ /\ WantsKx(TheRequest)
             /\ padata = {Answer.padata, Encrypted(Answer.key, Ticket)}
             /\ session = {FxCf2(Ticket, Answer.key)}

\* Why there is an error: verify refused the request, or a later callback failed,
\* without a reply key only if the KDC could not make its reply.
RefusedInv ==
  /\ stage \notin {"failed", "refused"} => refusal = {}
  /\ stage = "refused" =>
       LET code == RefusedWith(TheKdc, TheRequest) IN
       \/ code # "none" /\ refusal = {Refusal(code)}
       \/ /\ code = "none" /\ \A f \in refusal : ~f.edata
          /\ replyKey = {} =>
               BuildAsRepFails(TheKdc, VerifiedRequest(TheRequest.body))

\* The module runs with the configuration of its start.
Configured(k) == k.config = KdcConfig(profile) /\ k.identity.chain \in Seq(Certs)
ConfigInv ==
  /\ profile \in Profiles /\ \A k \in kdc : Configured(k)
  /\ kdc # {} => ~BadKemNames(profile)

\* The inductive invariant.
QInv == StageInv /\ VerifiedInv /\ SessionInv /\ RefusedInv /\ ConfigInv
-------------------------------------------------------------------------------
(* Nonces *)

\* A nonce survives the wire, whatever its sign (KEM and DH AuthPack alike), and
\* what comes off the wire is a nonce that goes back the same.
THEOREM NonceRoundTrip ==
  /\ \A n \in Signed : EncodeNonce(n) \in Unsigned /\ DecodeNonce(EncodeNonce(n)) = {n}
  /\ \A v \in Unsigned : \A n \in DecodeNonce(v) : n \in Signed /\ EncodeNonce(n) = v
  /\ \A v \in Int \ Unsigned : DecodeNonce(v) = {}
  BY WireAssumption DEF EncodeNonce, DecodeNonce, Signed, Unsigned
-------------------------------------------------------------------------------
(* Lengths and the hint *)

\* The defining equation of the function inside NumberOf.
IsNumber(f, bytes, n) ==
  f = [i \in 0..n |-> IF i = 0 THEN 0 ELSE f[i - 1] * Base + bytes[i]]

\* Some function satisfies the equation of the one inside NumberOf.
LEMMA NumberExists ==
  ASSUME NEW bytes, NEW n \in Nat
  PROVE  \E f : IsNumber(f, bytes, n)
  <1> DEFINE S == {m \in 0..n : \E f : IsNumber(f, bytes, m)}
  <1>1. 0 \in S
    <2>1. IsNumber([i \in 0..0 |-> 0], bytes, 0)
      BY DEF IsNumber
    <2>2. QED
      BY <2>1
  <1>2. ASSUME NEW m \in 1..n, m - 1 \in S
        PROVE  m \in S
    <2>1. PICK f : IsNumber(f, bytes, m - 1)
      BY <1>2
    <2> DEFINE g == [i \in 0..m |-> IF i = m THEN f[m - 1] * Base + bytes[m]
                                    ELSE f[i]]
    <2>2. \A i \in 0..(m-1) : f[i] = IF i = 0 THEN 0 ELSE f[i - 1] * Base + bytes[i]
      BY <2>1 DEF IsNumber
    <2>3. \A i \in 0..m : g[i] = IF i = 0 THEN 0 ELSE g[i - 1] * Base + bytes[i]
      BY <2>2
    <2>4. IsNumber(g, bytes, m)
      BY <2>3 DEF IsNumber
    <2>5. QED
      BY <2>4
  <1> HIDE DEF S
  <1>3. n \in S
    BY <1>1, <1>2, UpwardInduction
  <1>4. QED
    BY <1>3 DEF S

\* The numbers of one, two, three and four bytes.
LEMMA NumbersOfBytes ==
  ASSUME NEW b \in Seq(Nat), Base \in Nat
  PROVE  /\ Len(b) = 1 => NumberOf(b) = b[1]
         /\ Len(b) = 2 => NumberOf(b) = b[1] * Base + b[2]
         /\ Len(b) = 3 => NumberOf(b) = (b[1] * Base + b[2]) * Base + b[3]
         /\ Len(b) = 4 => NumberOf(b) = ((b[1] * Base + b[2]) * Base + b[3]) * Base + b[4]
  <1> DEFINE n == Len(b)
             f == CHOOSE f : IsNumber(f, b, n)
  <1>1. n \in Nat /\ \A i \in 1..n : b[i] \in Nat
    BY LenProperties
  <1>2. IsNumber(f, b, n)
    BY <1>1, NumberExists
  <1>3. NumberOf(b) = f[n]
    BY <1>2 DEF NumberOf, IsNumber
  <1> HIDE DEF f, n
  <1>4. \A i \in 0..n : f[i] = IF i = 0 THEN 0 ELSE f[i - 1] * Base + b[i]
    BY <1>2 DEF IsNumber
  <1>5. f[0] = 0
    BY <1>1, <1>4
  <1>6. n >= 1 => f[1] = b[1]
    BY <1>1, <1>4, <1>5
  <1>7. n >= 2 => f[2] = b[1] * Base + b[2]
    BY <1>1, <1>4, <1>6
  <1>8. n >= 3 => f[3] = (b[1] * Base + b[2]) * Base + b[3]
    BY <1>1, <1>4, <1>7
  <1>9. n >= 4 => f[4] = ((b[1] * Base + b[2]) * Base + b[3]) * Base + b[4]
    BY <1>1, <1>4, <1>8
  <1>10. QED
    <2>1. /\ n = 1 => NumberOf(b) = b[1]
          /\ n = 2 => NumberOf(b) = b[1] * Base + b[2]
          /\ n = 3 => NumberOf(b) = (b[1] * Base + b[2]) * Base + b[3]
          /\ n = 4 => NumberOf(b) = ((b[1] * Base + b[2]) * Base + b[3]) * Base + b[4]
      BY <1>1, <1>3, <1>6, <1>7, <1>8, <1>9
    <2>2. QED
      BY <2>1 DEF n

LEMMA DivMod ==
  ASSUME NEW n \in Nat
  PROVE  /\ n \div Base \in Nat /\ n % Base \in 0..(Base - 1)
         /\ n = (n \div Base) * Base + (n % Base)
         /\ n < Base => n % Base = n
         /\ \A m \in Nat : n < m * Base => n \div Base < m
  <1>1. Base \in Nat /\ Base > 0
    BY WireAssumption
  <1>2. PICK q \in Nat, r \in 0..(Base - 1) : q = n \div Base /\ r = n % Base
    BY <1>1
  <1>3. n = q * Base + r
    BY <1>1, <1>2
  <1>4. n < Base => n % Base = n
    BY <1>1
  <1>5. ASSUME NEW m \in Nat, n < m * Base, m <= q
        PROVE  FALSE
    <2>1. m * Base <= q * Base
      BY <1>1, <1>5
    <2>2. QED
      BY <1>1, <1>3, <1>5, <2>1
  <1>6. QED
    BY <1>2, <1>3, <1>4, <1>5

\* How der_encode_length writes a length, and that its bytes add up to it.
IsLength(e, n) ==
  /\ e \in Seq(Nat)
  /\ \/ Len(e) = 1 /\ e[1] = n /\ n < Half
     \/ /\ Len(e) \in 2..5 /\ e[1] = Half + (Len(e) - 1)
        /\ NumberOf(SubSeq(e, 2, Len(e))) = n

\* Every length below the limit.
LEMMA LengthIsWritten ==
  ASSUME NEW n \in Nat, n < LengthLimit
  PROVE  IsLength(DerEncodeLength(n), n)
  <1>1. Base \in Nat /\ Base >= 10 /\ Half \in Nat
    BY WireAssumption DEF Half
  <1> DEFINE n1 == n \div Base  n2 == n1 \div Base  n3 == n2 \div Base
  <1>2. n1 \in Nat /\ n2 \in Nat /\ n3 \in Nat
    BY DivMod
  <1>3. /\ n % Base \in Nat /\ n = n1 * Base + (n % Base)
        /\ n1 % Base \in Nat /\ n1 = n2 * Base + (n1 % Base)
        /\ n2 % Base \in Nat /\ n2 = n3 * Base + (n2 % Base)
        /\ n3 % Base \in Nat
    BY <1>2, DivMod
  <1>4. /\ Base * Base \in Nat /\ Base * Base * Base \in Nat
        /\ LengthLimit = (Base * Base * Base) * Base
    BY <1>1 DEF LengthLimit
  <1>5. n3 % Base = n3
    <2>1. n1 < Base * Base * Base
      BY <1>4, DivMod
    <2>2. n2 < Base * Base
      BY <1>2, <1>4, <2>1, DivMod
    <2>3. n3 < Base
      BY <1>1, <1>2, <2>2, DivMod
    <2>4. QED
      BY <1>2, <2>3, DivMod
  <1>6. ASSUME NEW b \in Seq(Nat), NEW e \in Seq(Nat),
               Len(b) \in 1..4, NumberOf(b) = n,
               Len(e) = 1 + Len(b), e[1] = Half + Len(b),
               \A i \in 1..Len(b) : e[1 + i] = b[i]
        PROVE  IsLength(e, n)
    <2>1. PICK k \in 1..4 : k = Len(b) /\ Len(e) = 1 + k
      BY <1>6
    <2>2. /\ SubSeq(e, 2, 1 + k) \in Seq(Nat)
          /\ Len(SubSeq(e, 2, 1 + k)) = k
          /\ \A i \in 1..k : SubSeq(e, 2, 1 + k)[i] = e[1 + i]
      BY <1>6, <2>1, SubSeqProperties, LenProperties
    <2>3. SubSeq(e, 2, 1 + k) = b
      BY <1>6, <2>1, <2>2, SeqEqual
    <2>4. NumberOf(SubSeq(e, 2, Len(e))) = n
      BY <1>6, <2>1, <2>3, Zenon
    <2>5. Len(e) \in 2..5 /\ e[1] = Half + (Len(e) - 1)
      <3>1. e[1] = Half + k
        BY <1>6, <2>1, Zenon
      <3>2. (1 + k) - 1 = k /\ 1 + k \in 2..5
        OBVIOUS
      <3>3. QED
        BY <2>1, <3>1, <3>2, Zenon
    <2>6. QED
      BY <1>6, <2>4, <2>5 DEF IsLength
  <1> HIDE DEF n1, n2, n3
  <1>7. ASSUME NEW b, b = <<n>>,
               NEW e, e = <<Half + 1, n>>
        PROVE  IsLength(e, n)
    <2>1. /\ b \in Seq(Nat) /\ Len(b) = 1
          /\ b[1] = n
      BY <1>2, <1>3, <1>7
    <2>2. /\ e \in Seq(Nat) /\ Len(e) = 1 + 1 /\ e[1] = Half + 1
          /\ e[2] = n
      BY <1>1, <1>2, <1>3, <1>7
    <2>3. NumberOf(b) = b[1]
      BY <1>1, <2>1, NumbersOfBytes
    <2>4. NumberOf(b) = n
      BY <1>1, <1>2, <1>3, <1>5, <2>1, <2>3
    <2>5. /\ Len(e) = 1 + Len(b) /\ e[1] = Half + Len(b) /\ Len(b) \in 1..4
          /\ \A i \in 1..Len(b) : e[1 + i] = b[i]
      BY <2>1, <2>2
    <2>6. QED
      BY <1>6, <2>1, <2>2, <2>4, <2>5
  <1>8. ASSUME NEW b, b = <<n1, n % Base>>,
               NEW e, e = <<Half + 2, n1, n % Base>>
        PROVE  IsLength(e, n)
    <2>1. /\ b \in Seq(Nat) /\ Len(b) = 2
          /\ b[1] = n1 /\ b[2] = n % Base
      BY <1>2, <1>3, <1>8
    <2>2. /\ e \in Seq(Nat) /\ Len(e) = 1 + 2 /\ e[1] = Half + 2
          /\ e[2] = n1 /\ e[3] = n % Base
      BY <1>1, <1>2, <1>3, <1>8
    <2>3. NumberOf(b) = b[1] * Base + b[2]
      BY <1>1, <2>1, NumbersOfBytes
    <2>4. NumberOf(b) = n
      BY <1>1, <1>2, <1>3, <1>5, <2>1, <2>3
    <2>5. /\ Len(e) = 1 + Len(b) /\ e[1] = Half + Len(b) /\ Len(b) \in 1..4
          /\ \A i \in 1..Len(b) : e[1 + i] = b[i]
      BY <2>1, <2>2
    <2>6. QED
      BY <1>6, <2>1, <2>2, <2>4, <2>5
  <1>9. ASSUME NEW b, b = <<n2, n1 % Base, n % Base>>,
               NEW e, e = <<Half + 3, n2, n1 % Base, n % Base>>
        PROVE  IsLength(e, n)
    <2>1. /\ b \in Seq(Nat) /\ Len(b) = 3
          /\ b[1] = n2 /\ b[2] = n1 % Base /\ b[3] = n % Base
      BY <1>2, <1>3, <1>9
    <2>2. /\ e \in Seq(Nat) /\ Len(e) = 1 + 3 /\ e[1] = Half + 3
          /\ e[2] = n2 /\ e[3] = n1 % Base /\ e[4] = n % Base
      BY <1>1, <1>2, <1>3, <1>9
    <2>3. NumberOf(b) = (b[1] * Base + b[2]) * Base + b[3]
      BY <1>1, <2>1, NumbersOfBytes
    <2>4. NumberOf(b) = n
      BY <1>1, <1>2, <1>3, <1>5, <2>1, <2>3
    <2>5. /\ Len(e) = 1 + Len(b) /\ e[1] = Half + Len(b) /\ Len(b) \in 1..4
          /\ \A i \in 1..Len(b) : e[1 + i] = b[i]
      BY <2>1, <2>2
    <2>6. QED
      BY <1>6, <2>1, <2>2, <2>4, <2>5
  <1>10. ASSUME NEW b, b = <<n3 % Base, n2 % Base, n1 % Base, n % Base>>,
               NEW e, e = <<Half + 4, n3 % Base, n2 % Base, n1 % Base, n % Base>>
        PROVE  IsLength(e, n)
    <2>1. /\ b \in Seq(Nat) /\ Len(b) = 4
          /\ b[1] = n3 % Base /\ b[2] = n2 % Base /\ b[3] = n1 % Base /\ b[4] = n % Base
      BY <1>2, <1>3, <1>10
    <2>2. /\ e \in Seq(Nat) /\ Len(e) = 1 + 4 /\ e[1] = Half + 4
          /\ e[2] = n3 % Base /\ e[3] = n2 % Base /\ e[4] = n1 % Base /\ e[5] = n % Base
      BY <1>1, <1>2, <1>3, <1>10
    <2>3. NumberOf(b) = ((b[1] * Base + b[2]) * Base + b[3]) * Base + b[4]
      BY <1>1, <2>1, NumbersOfBytes
    <2>4. NumberOf(b) = n
      BY <1>1, <1>2, <1>3, <1>5, <2>1, <2>3
    <2>5. /\ Len(e) = 1 + Len(b) /\ e[1] = Half + Len(b) /\ Len(b) \in 1..4
          /\ \A i \in 1..Len(b) : e[1 + i] = b[i]
      BY <2>1, <2>2
    <2>6. QED
      BY <1>6, <2>1, <2>2, <2>4, <2>5
  <1>11. IsLength(LongLength(n), n)
    BY <1>7, <1>8, <1>9, <1>10, Zenon DEF LongLength, n1, n2, n3
  <1>12. CASE n < Half
    BY <1>1, <1>12 DEF DerEncodeLength, IsLength
  <1>13. CASE ~(n < Half)
    BY <1>11, <1>13 DEF DerEncodeLength
  <1>14. QED
    BY <1>12, <1>13

\* The bytes t are the whole of s or were cut off somewhere.
Begins(t, s) ==
  t \in Seq(Nat) /\ Len(t) <= Len(s) /\ \A i \in 1..Len(t) : t[i] = s[i]

\* size bytes of s, after the first skipped ones.
LEMMA BytesOf ==
  ASSUME NEW s \in Seq(Nat), NEW skipped \in Nat, NEW size \in Nat,
         skipped + size <= Len(s)
  PROVE  \E r \in Seq(Nat) :
           /\ r = SubSeq(s, 1 + skipped, skipped + size) /\ Len(r) = size
           /\ \A i \in 1..size : r[i] = s[skipped + i]
  <1>1. \A i \in 1..Len(s) : s[i] \in Nat
    BY LenProperties
  <1>2. PICK first \in Int, last \in Int : first = 1 + skipped /\ last = skipped + size
    OBVIOUS
  <1>3. \A i \in first..last : s[i] \in Nat
    <2>1. \A i \in first..last : i \in 1..Len(s)
      BY <1>2, LenProperties
    <2>2. QED
      BY <1>1, <2>1
  <1>4. PICK r : r = SubSeq(s, first, last)
    OBVIOUS
  <1>5. /\ r \in Seq(Nat)
        /\ Len(r) = IF first <= last THEN last - first + 1 ELSE 0
        /\ \A i \in 1..(last - first + 1) : r[i] = s[first + i - 1]
    <2>1. /\ SubSeq(s, first, last) \in Seq(Nat)
          /\ Len(SubSeq(s, first, last)) = IF first <= last THEN last - first + 1 ELSE 0
          /\ \A i \in 1..(last - first + 1) :
               SubSeq(s, first, last)[i] = s[first + i - 1]
      BY <1>3, SubSeqProperties
    <2>2. QED
      BY <1>4, <2>1, Zenon
  <1>6. (IF first <= last THEN last - first + 1 ELSE 0) = size
        /\ last - first + 1 = size
    BY <1>2
  <1>7. \A i \in 1..size : first + i - 1 = skipped + i
    BY <1>2
  <1>8. \A i \in 1..size : r[i] = s[skipped + i]
    BY <1>5, <1>6, <1>7, Zenon
  <1>9. r = SubSeq(s, 1 + skipped, skipped + size)
    BY <1>2, <1>4, Zenon
  <1>10. QED
    BY <1>5, <1>6, <1>8, <1>9, Zenon

\* Two lists of bytes, one after the other.
LEMMA BytesThenBytes ==
  ASSUME NEW a \in Seq(Nat), NEW b \in Seq(Nat), NEW r, r = a \o b
  PROVE  /\ r \in Seq(Nat) /\ Len(r) = Len(a) + Len(b)
         /\ \A i \in 1..Len(a) : r[i] = a[i]
         /\ \A i \in 1..Len(b) : r[Len(a) + i] = b[i]
  <1>1. a \o b \in Seq(Nat) /\ Len(a \o b) = Len(a) + Len(b)
    BY ConcatProperties
  <1>2. Len(a) \in Nat /\ Len(b) \in Nat
    BY LenProperties
  <1>3. \A i \in 1..Len(a) : (a \o b)[i] = a[i]
    BY <1>2, ConcatProperties
  <1>4. \A i \in 1..Len(b) : (a \o b)[Len(a) + i] = b[i]
    BY <1>2, ConcatProperties
  <1>5. QED
    BY <1>1, <1>3, <1>4, Zenon

\* All bytes of s but the first.
LEMMA BytesAfterOne ==
  ASSUME NEW s \in Seq(Nat), Len(s) # 0
  PROVE  /\ s # <<>> /\ Head(s) = s[1]
         /\ \E r \in Seq(Nat) : /\ r = Tail(s) /\ Len(r) = Len(s) - 1
                                /\ \A i \in 1..(Len(s) - 1) : r[i] = s[1 + i]
  <1>1. s # <<>>
    BY EmptySeq
  <1>2. /\ Head(s) = s[1] /\ Tail(s) \in Seq(Nat) /\ Len(Tail(s)) = Len(s) - 1
        /\ \A i \in 1..Len(Tail(s)) : Tail(s)[i] = s[i + 1]
    BY <1>1, HeadTailProperties
  <1>3. \A i \in 1..(Len(s) - 1) : i + 1 = 1 + i
    OBVIOUS
  <1>4. QED
    BY <1>1, <1>2, <1>3, Zenon

\* A length is read back if it is all there, and otherwise there is no length.
LEMMA LengthIsParsed ==
  ASSUME NEW n \in Nat, NEW e, IsLength(e, n), NEW t \in Seq(Nat),
         \A i \in 1..Len(t) : i <= Len(e) => t[i] = e[i]
  PROVE  DerParseLength(t) = IF Len(e) <= Len(t) THEN {<<n, Len(e)>>} ELSE {}
  <1>1. Half \in Nat
    BY WireAssumption DEF Half
  <1>2. PICK p \in Nat, q \in Nat : p = Len(t) /\ q = Len(e) /\ e \in Seq(Nat)
    BY LenProperties DEF IsLength
  <1>3. t = <<>> <=> p = 0
    BY <1>2, EmptySeq
  <1>4. q \in 1..5
    BY <1>2, SMTT(30) DEF IsLength
  <1>5. CASE p = 0
    BY <1>2, <1>3, <1>4, <1>5 DEF DerParseLength
  <1>6. CASE p # 0 /\ q = 1
    <2>1. t[1] = n /\ n < Half
      BY <1>2, <1>4, <1>6 DEF IsLength
    <2>2. q <= p
      BY <1>6
    <2>3. QED
      BY <1>2, <1>3, <1>6, <2>1, <2>2 DEF DerParseLength
  <1>7. CASE p # 0 /\ q # 1
    <2>1. PICK k \in 1..4 : q = 1 + k
      BY <1>4, <1>7
    <2>2. e[1] = Half + k /\ NumberOf(SubSeq(e, 2, 1 + k)) = n
      <3>1. e[1] = Half + (q - 1) /\ NumberOf(SubSeq(e, 2, q)) = n
        BY <1>2, <1>7 DEF IsLength
      <3>2. q - 1 = k
        BY <2>1
      <3>3. QED
        BY <2>1, <3>1, <3>2, Zenon
    <2>3. t[1] = Half + k
      <3>1. 1 \in 1..p /\ 1 <= q
        BY <1>4, <1>7
      <3>2. QED
        BY <1>2, <2>2, <3>1, Zenon
    <2>4. /\ ~(Half + k < Half) /\ (Half + k) - Half = k
          /\ ~(k = 0 \/ k > 4)
      BY <1>1
    <2>5. DerParseLength(t) =
            IF p < 1 + k THEN {} ELSE {<<NumberOf(SubSeq(t, 2, 1 + k)), 1 + k>>}
      BY <1>2, <1>3, <1>7, <2>3, <2>4 DEF DerParseLength
    <2>6. CASE p < 1 + k
      <3>1. ~(q <= p)
        BY <2>1, <2>6
      <3>2. QED
        BY <1>2, <2>5, <2>6, <3>1
    <2>7. CASE ~(p < 1 + k)
      <3>1. q <= p
        BY <2>1, <2>7
      <3>2. PICK x \in Seq(Nat) : /\ x = SubSeq(t, 1 + 1, 1 + k) /\ Len(x) = k
                                  /\ \A i \in 1..k : x[i] = t[1 + i]
        <4>1. 1 \in Nat /\ k \in Nat /\ 1 + k <= Len(t)
          BY <1>2, <2>7
        <4>2. QED
          BY <4>1, BytesOf, Zenon
      <3>3. PICK y \in Seq(Nat) : /\ y = SubSeq(e, 1 + 1, 1 + k) /\ Len(y) = k
                                  /\ \A i \in 1..k : y[i] = e[1 + i]
        <4>1. 1 \in Nat /\ k \in Nat /\ 1 + k <= Len(e)
          BY <1>2, <2>1
        <4>2. QED
          BY <1>2, <4>1, BytesOf, ZenonT(30)
      <3>4. \A i \in 1..k : 1 + i \in 1..p /\ 1 + i <= q
        BY <2>1, <3>1
      <3>5. \A i \in 1..k : x[i] = y[i]
        BY <1>2, <3>2, <3>3, <3>4, Zenon
      <3>6. SubSeq(t, 2, 1 + k) = SubSeq(e, 2, 1 + k)
        <4>1. x = y
          BY <3>2, <3>3, <3>5, SeqEqual
        <4>2. 1 + 1 = 2
          OBVIOUS
        <4>3. QED
          BY <3>2, <3>3, <4>1, <4>2, Zenon
      <3>7. QED
        BY <1>2, <2>1, <2>2, <2>5, <2>7, <3>1, <3>6
    <2>8. QED
      BY <2>6, <2>7
  <1>8. QED
    BY <1>5, <1>6, <1>7

\* The bytes of a TLV: its tag, its length, its content.
IsWrapped(w, e, tag, c) ==
  /\ w \in Seq(Nat) /\ e \in Seq(Nat) /\ IsLength(e, Len(c))
  /\ Len(w) = 1 + Len(e) + Len(c) /\ w[1] = tag
  /\ \A i \in 1..Len(e) : w[1 + i] = e[i]
  /\ \A i \in 1..Len(c) : w[1 + Len(e) + i] = c[i]

LEMMA WrappedParts ==
  ASSUME NEW tag \in Nat, NEW c \in Seq(Nat), Len(c) < LengthLimit
  PROVE  \E e : IsWrapped(Wrapped(tag, c), e, tag, c)
  <1>1. Len(c) \in Nat
    BY LenProperties
  <1>2. PICK e : e = DerEncodeLength(Len(c)) /\ IsLength(e, Len(c)) /\ e \in Seq(Nat)
    <2>1. IsLength(DerEncodeLength(Len(c)), Len(c))
      BY <1>1, LengthIsWritten
    <2>2. QED
      BY <2>1 DEF IsLength
  <1>3. ASSUME NEW one, one = <<tag>>
        PROVE  IsWrapped((one \o e) \o c, e, tag, c)
    <2>1. one \in Seq(Nat) /\ Len(one) = 1 /\ one[1] = tag
      BY <1>3
    <2>2. PICK q \in Nat, l \in Nat : q = Len(e) /\ l = Len(c)
      BY <1>1, <1>2, LenProperties
    <2>3. PICK head : head = one \o e
      OBVIOUS
    <2>4. /\ head \in Seq(Nat) /\ Len(head) = 1 + q
          /\ head[1] = tag /\ \A i \in 1..q : head[1 + i] = e[i]
      <3>1. /\ head \in Seq(Nat) /\ Len(head) = Len(one) + Len(e)
            /\ \A i \in 1..Len(one) : head[i] = one[i]
            /\ \A i \in 1..Len(e) : head[Len(one) + i] = e[i]
        <4>1. e \in Seq(Nat) /\ one \in Seq(Nat)
          BY <1>2, <2>1
        <4>2. QED
          BY <2>3, <4>1, BytesThenBytes
      <3>2. 1 \in 1..1
        OBVIOUS
      <3>3. QED
        BY <2>1, <2>2, <3>1, <3>2, Zenon
    <2>5. PICK w : w = head \o c
      OBVIOUS
    <2>6. /\ w \in Seq(Nat) /\ Len(w) = (1 + q) + l
          /\ \A i \in 1..(1 + q) : w[i] = head[i]
          /\ \A i \in 1..l : w[(1 + q) + i] = c[i]
      <3>1. /\ w \in Seq(Nat) /\ Len(w) = Len(head) + Len(c)
            /\ \A i \in 1..Len(head) : w[i] = head[i]
            /\ \A i \in 1..Len(c) : w[Len(head) + i] = c[i]
        <4>1. head \in Seq(Nat)
          BY <2>4
        <4>2. QED
          BY <2>5, <4>1, BytesThenBytes
      <3>2. QED
        BY <2>2, <2>4, <3>1, Zenon
    <2>7. w[1] = tag /\ \A i \in 1..q : w[1 + i] = e[i]
      BY <2>4, <2>6
    <2>8. IsWrapped(w, e, tag, c)
      BY <1>2, <2>2, <2>6, <2>7, Zenon DEF IsWrapped
    <2>9. QED
      BY <2>3, <2>5, <2>8, Zenon
  <1>4. IsWrapped((<<tag>> \o e) \o c, e, tag, c)
    BY <1>3, Zenon
  <1>5. Wrapped(tag, c) = (<<tag>> \o e) \o c
    BY <1>2, Zenon DEF Wrapped
  <1>6. QED
    BY <1>4, <1>5, Zenon

\* The content of a TLV is what was wrapped, if nothing was cut off, and
\* otherwise there is none.
LEMMA ContentIsReadBack ==
  ASSUME NEW tag \in Nat, NEW c \in Seq(Nat), Len(c) < LengthLimit,
         NEW t, Begins(t, Wrapped(tag, c))
  PROVE  Content(tag, t) = IF Len(t) = Len(Wrapped(tag, c)) THEN {c} ELSE {}
  <1>1. PICK e : IsWrapped(Wrapped(tag, c), e, tag, c)
    BY WrappedParts
  <1>2. PICK w : w = Wrapped(tag, c)
    OBVIOUS
  <1>3. /\ w \in Seq(Nat) /\ e \in Seq(Nat) /\ IsLength(e, Len(c))
        /\ Len(w) = 1 + Len(e) + Len(c) /\ w[1] = tag
        /\ \A i \in 1..Len(e) : w[1 + i] = e[i]
        /\ \A i \in 1..Len(c) : w[1 + Len(e) + i] = c[i]
    BY <1>1, <1>2, Zenon DEF IsWrapped
  <1>4. t \in Seq(Nat) /\ Len(t) <= Len(w) /\ \A i \in 1..Len(t) : t[i] = w[i]
    BY <1>2, Zenon DEF Begins
  <1>5. PICK p \in Nat, q \in Nat, l \in Nat : p = Len(t) /\ q = Len(e) /\ l = Len(c)
    BY <1>3, <1>4, LenProperties
  <1>6. Len(w) = 1 + q + l /\ p <= 1 + q + l
    BY <1>3, <1>4, <1>5
  <1>7. CASE p = 0
    <2>1. t = <<>>
      BY <1>4, <1>5, <1>7, EmptySeq
    <2>2. Content(tag, t) = {}
      BY <2>1 DEF Content
    <2>3. p # Len(w)
      BY <1>6, <1>7
    <2>4. QED
      BY <1>2, <1>5, <2>2, <2>3
  <1>8. CASE p # 0
    <2>1. /\ t # <<>> /\ Head(t) = t[1]
          /\ \E r \in Seq(Nat) : /\ r = Tail(t) /\ Len(r) = p - 1
                                 /\ \A i \in 1..(p - 1) : r[i] = t[1 + i]
      BY <1>4, <1>5, <1>8, BytesAfterOne
    <2>2. PICK u \in Seq(Nat) : /\ u = Tail(t) /\ Len(u) = p - 1
                                /\ \A i \in 1..(p - 1) : u[i] = t[1 + i]
      BY <2>1
    <2>3. Head(t) = tag
      <3>1. 1 \in 1..p
        BY <1>8
      <3>2. QED
        BY <1>3, <1>4, <1>5, <2>1, <3>1, Zenon
    <2>4. \A i \in 1..Len(u) : i <= Len(e) => u[i] = e[i]
      <3>1. \A i \in 1..(p - 1) : 1 + i \in 1..p /\ (i <= q => i \in 1..q)
        OBVIOUS
      <3>2. \A i \in 1..(p - 1) : u[i] = w[1 + i]
        BY <1>4, <1>5, <2>2, <3>1, Zenon
      <3>3. QED
        BY <1>3, <1>5, <2>2, <3>1, <3>2, Zenon
    <2>5. DerParseLength(u) = IF q <= p - 1 THEN {<<l, q>>} ELSE {}
      <3>1. DerParseLength(u) = IF Len(e) <= Len(u) THEN {<<Len(c), Len(e)>>} ELSE {}
        BY <1>3, <1>5, <2>2, <2>4, LengthIsParsed
      <3>2. QED
        BY <1>5, <2>2, <3>1, Zenon
    <2>6. Content(tag, t) =
            {SubSeq(t, 2 + x[2], 1 + x[2] + x[1]) :
               x \in {y \in DerParseLength(u) : p >= 1 + y[2] + y[1]}}
      BY <1>5, <2>1, <2>2, <2>3, Zenon DEF Content
    <2>7. CASE p = 1 + q + l
      <3>1. q <= p - 1 /\ p >= 1 + q + l
        BY <2>7
      <3>2. DerParseLength(u) = {<<l, q>>}
        BY <2>5, <3>1
      <3>3. {y \in DerParseLength(u) : p >= 1 + y[2] + y[1]} = {<<l, q>>}
        BY <3>1, <3>2
      <3>4. Content(tag, t) = {SubSeq(t, 2 + x[2], 1 + x[2] + x[1]) : x \in {<<l, q>>}}
        BY <2>6, <3>3, Zenon
      <3>5. Content(tag, t) = {SubSeq(t, 2 + q, 1 + q + l)}
        BY <3>4
      <3>6. PICK s \in Seq(Nat) : /\ s = SubSeq(t, 1 + (1 + q), (1 + q) + l) /\ Len(s) = l
                                  /\ \A i \in 1..l : s[i] = t[(1 + q) + i]
        <4>1. (1 + q) + l <= Len(t) /\ 1 + q \in Nat
          BY <1>5, <2>7
        <4>2. QED
          BY <1>4, <4>1, BytesOf
      <3>7. \A i \in 1..l : (1 + q) + i \in 1..p
        BY <2>7
      <3>8. \A i \in 1..l : s[i] = c[i]
        BY <1>3, <1>4, <1>5, <3>6, <3>7, Zenon
      <3>9. s = c
        BY <1>5, <3>6, <3>8, SeqEqual
      <3>10. 1 + (1 + q) = 2 + q
        OBVIOUS
      <3>11. Content(tag, t) = {c}
        BY <3>5, <3>6, <3>9, <3>10, Zenon
      <3>12. QED
        BY <1>2, <1>5, <1>6, <2>7, <3>11, Zenon
    <2>8. CASE p # 1 + q + l
      <3>1. ~(p >= 1 + q + l)
        BY <1>6, <2>8
      <3>2. {y \in DerParseLength(u) : p >= 1 + y[2] + y[1]} = {}
        BY <2>5, <3>1
      <3>3. Content(tag, t) = {}
        BY <2>6, <3>2
      <3>4. QED
        BY <1>2, <1>5, <1>6, <2>8, <3>3, Zenon
    <2>9. QED
      BY <2>7, <2>8
  <1>9. QED
    BY <1>7, <1>8

\* A list with its first wrapper still has a length that can be written.
InnerFits(list) ==
  LET inner == Wrapped(DerTags.params, list) IN
  /\ inner \in Seq(Nat) /\ Len(inner) < LengthLimit /\ Len(list) < LengthLimit
  /\ inner # <<>> /\ Head(inner) = DerTags.params

LEMMA HintFits ==
  ASSUME NEW list \in Seq(Nat), Len(list) + 6 < LengthLimit
  PROVE  InnerFits(list)
  <1> DEFINE inner == Wrapped(DerTags.params, list)
  <1>1. Len(list) < LengthLimit /\ Len(list) \in Nat
    <2>1. Len(list) \in Nat /\ LengthLimit \in Nat
      BY LenProperties, WireAssumption DEF LengthLimit
    <2>2. QED
      BY <2>1
  <1>2. PICK e : IsWrapped(inner, e, DerTags.params, list)
    <2>1. DerTags.params \in Nat
      BY DEF DerTags
    <2>2. QED
      BY <1>1, <2>1, WrappedParts
  <1>3. /\ inner \in Seq(Nat) /\ IsLength(e, Len(list))
        /\ Len(inner) = 1 + Len(e) + Len(list) /\ inner[1] = DerTags.params
    BY <1>2, Zenon DEF IsWrapped
  <1>4. Len(e) \in 1..5
    BY <1>3 DEF IsLength
  <1> HIDE DEF inner
  <1>5. Len(inner) < LengthLimit /\ Len(inner) # 0
    <2>1. PICK q \in Nat, l \in Nat, limit \in Nat :
            q = Len(e) /\ l = Len(list) /\ limit = LengthLimit
      <3>1. LengthLimit \in Nat
        BY WireAssumption DEF LengthLimit
      <3>2. QED
        BY <1>1, <1>4, <3>1
    <2>2. l + 6 < limit /\ q \in 1..5 /\ Len(inner) = 1 + q + l
      BY <1>3, <1>4, <2>1, Zenon
    <2>3. 1 + q + l < limit /\ 1 + q + l # 0
      BY <2>2
    <2>4. QED
      BY <2>1, <2>2, <2>3, Zenon
  <1>6. inner # <<>> /\ Head(inner) = DerTags.params
    BY <1>3, <1>5, BytesAfterOne, Zenon
  <1>7. QED
    BY <1>1, <1>3, <1>5, <1>6, Zenon DEF InnerFits, inner

\* What a hint says: the list, or nothing, once its end is missing.
LEMMA HintRoundTrip ==
  ASSUME NEW list \in Seq(Nat), Len(list) + 6 < LengthLimit,
         NEW t, Begins(t, EncodeHint(list))
  PROVE  ParseHint(t) = IF Len(t) = Len(EncodeHint(list)) THEN {list} ELSE {}
  <1> DEFINE inner == Wrapped(DerTags.params, list)
             outer == Wrapped(DerTags.sequence, inner)
  <1>1. DerTags.params \in Nat /\ DerTags.sequence \in Nat
    BY DEF DerTags
  <1>2. /\ inner \in Seq(Nat) /\ Len(inner) < LengthLimit /\ Len(list) < LengthLimit
        /\ inner # <<>> /\ Head(inner) = DerTags.params
    BY HintFits, Zenon DEF InnerFits
  <1> HIDE DEF inner
  <1>3. Content(DerTags.params, inner) = {list}
    <2>1. Begins(inner, Wrapped(DerTags.params, list))
      BY <1>2, LenProperties DEF Begins, inner
    <2>2. QED
      BY <1>1, <1>2, <2>1, ContentIsReadBack DEF inner
  <1>4. EncodeHint(list) = outer
    BY DEF EncodeHint, inner
  <1>5. Content(DerTags.sequence, t) = IF Len(t) = Len(outer) THEN {inner} ELSE {}
    BY <1>1, <1>2, <1>4, ContentIsReadBack
  <1> HIDE DEF outer
  <1>6. CASE Len(t) = Len(outer)
    <2>1. Content(DerTags.sequence, t) = {inner}
      BY <1>5, <1>6
    <2>2. ParseHint(t) = Content(DerTags.params, inner)
      BY <1>2, <2>1 DEF ParseHint
    <2>3. QED
      BY <1>3, <1>4, <1>6, <2>2
  <1>7. CASE Len(t) # Len(outer)
    <2>1. Content(DerTags.sequence, t) = {}
      BY <1>5, <1>7
    <2>2. ParseHint(t) = {}
      BY <2>1 DEF ParseHint
    <2>3. QED
      BY <1>4, <1>7, <2>2
  <1>8. QED
    BY <1>6, <1>7

\* A hint is a list of bytes.
LEMMA HintIsBytes ==
  ASSUME NEW list \in Seq(Nat), Len(list) + 6 < LengthLimit
  PROVE  EncodeHint(list) \in Seq(Nat)
  <1>1. DerTags.params \in Nat /\ DerTags.sequence \in Nat
    BY DEF DerTags
  <1>2. InnerFits(list)
    BY HintFits
  <1>3. PICK inner \in Seq(Nat) : inner = Wrapped(DerTags.params, list)
    BY <1>2 DEF InnerFits
  <1>4. Len(inner) < LengthLimit
    BY <1>2, <1>3 DEF InnerFits
  <1>5. PICK e : IsWrapped(Wrapped(DerTags.sequence, inner), e, DerTags.sequence, inner)
    BY <1>1, <1>4, WrappedParts
  <1>6. Wrapped(DerTags.sequence, inner) \in Seq(Nat)
    BY <1>5, Zenon DEF IsWrapped
  <1>7. QED
    BY <1>3, <1>6, Zenon DEF EncodeHint

-------------------------------------------------------------------------------
(* Tables of errors *)

LEMMA MinIsLeast ==
  ASSUME NEW I \in SUBSET Nat, I # {}
  PROVE  Min(I) \in I /\ \A j \in I : Min(I) <= j
  BY LeastElement DEF Min

\* The error of a table is that of its first row whose condition holds.
LEMMA TheFirstFailure ==
  ASSUME NEW table, NEW n \in Nat, DOMAIN table = 1..n
  PROVE  \/ FirstFailure(table) = "none" /\ \A i \in 1..n : ~table[i][1]
         \/ \E i \in 1..n :
              /\ table[i][1] /\ FirstFailure(table) = table[i][2]
              /\ \A j \in 1..(i - 1) : ~table[j][1]
  <1> DEFINE failing == {i \in DOMAIN table : table[i][1]}
  <1>1. CASE failing = {}
    BY <1>1 DEF FirstFailure
  <1>2. CASE failing # {}
    <2>1. PICK m \in failing : m = Min(failing) /\ \A j \in failing : m <= j
      BY <1>2, MinIsLeast
    <2>2. FirstFailure(table) = table[m][2]
      BY <1>2, <2>1 DEF FirstFailure
    <2>3. m \in 1..n
      OBVIOUS
    <2>4. \A j \in 1..(m - 1) : j \in 1..n /\ ~(m <= j)
      BY <2>3
    <2>5. \A j \in 1..(m - 1) : ~table[j][1]
      BY <2>1, <2>4
    <2>6. QED
      BY <2>2, <2>3, <2>5
  <1>3. QED
    BY <1>1, <1>2

\* Where no row's condition holds there is no error, and only there.
LEMMA NoFailureNoCondition ==
  ASSUME NEW table, NEW n \in Nat, DOMAIN table = 1..n,
         \A i \in 1..n : table[i][2] # "none",
         FirstFailure(table) = "none"
  PROVE  \A i \in 1..n : ~table[i][1]
  BY TheFirstFailure

\* A signed message that is opened was signed, and its signer's certificate
\* leads to an anchor and passes the checks of its use.
LEMMA OpenedMessage ==
  ASSUME NEW k, NEW m, ~IsAnonymous(m), OpenError(k, m) = "none"
  PROVE  /\ Verifies(m) /\ m.type = "authData" /\ Trusts(k, m)
         /\ EkuVerdicts(k, m) \cap {"Error", "Rejected"} = {}
  <1> DEFINE table == <<
        <<~Verifies(m), VerifyError(m)>>,
        <<m.type # "authData", "CmsContentTypeMismatch">>,
        <<~Trusts(k, m), "ChainValidationFailed">>,
        <<"Error" \in EkuVerdicts(k, m), "Asn1">>,
        <<"Rejected" \in EkuVerdicts(k, m), "EkuMismatch">> >>
  <1>1. FirstFailure(table) = "none"
    BY DEF OpenError
  <1>2. VerifyError(m) # "none"
    BY DEF VerifyError
  <1>3. DOMAIN table = 1..5
    OBVIOUS
  <1>4. \A i \in 1..5 : table[i][2] # "none"
    BY <1>2
  <1>5. \A i \in 1..5 : ~table[i][1]
    <2> HIDE DEF table
    <2>1. QED
      BY <1>1, <1>3, <1>4, NoFailureNoCondition
  <1>6. ~table[1][1] /\ ~table[2][1] /\ ~table[3][1] /\ ~table[4][1] /\ ~table[5][1]
    BY <1>5
  <1>7. QED
    BY <1>6
-------------------------------------------------------------------------------
(* What it takes to get past verify *)

\* What is opened has something in it.
LEMMA OpenedHasContent ==
  ASSUME NEW k, NEW m, OpenError(k, m) = "none"
  PROVE  m.content # {}
  <1>1. IsAnonymous(m) \/ Verifies(m)
    BY OpenedMessage
  <1>2. QED
    BY <1>1 DEF IsAnonymous, IsUnsigned, IsBare, Verifies

\* No error of the first half is about a key.
LEMMA OpenErrors ==
  ASSUME NEW k, NEW m
  PROVE  OpenError(k, m) \in {"none", "CmsContentTypeMismatch", "CmsVerifyFailed",
                             "ChainValidationFailed", "Asn1", "EkuMismatch"}
  <1> DEFINE table == <<
        <<~Verifies(m), VerifyError(m)>>,
        <<m.type # "authData", "CmsContentTypeMismatch">>,
        <<~Trusts(k, m), "ChainValidationFailed">>,
        <<"Error" \in EkuVerdicts(k, m), "Asn1">>,
        <<"Rejected" \in EkuVerdicts(k, m), "EkuMismatch">> >>
  <1>1. CASE IsAnonymous(m)
    BY <1>1 DEF OpenError
  <1>2. CASE ~IsAnonymous(m)
    <2>1. OpenError(k, m) = FirstFailure(table) /\ DOMAIN table = 1..5
      BY <1>2 DEF OpenError
    <2>2. /\ table[1][2] \in {"CmsContentTypeMismatch", "CmsVerifyFailed"}
          /\ table[2][2] = "CmsContentTypeMismatch"
          /\ table[3][2] = "ChainValidationFailed" /\ table[4][2] = "Asn1"
          /\ table[5][2] = "EkuMismatch"
      BY DEF VerifyError
    <2> HIDE DEF table
    <2>3. \A i \in 1..5 : table[i][2] \in {"CmsContentTypeMismatch", "CmsVerifyFailed",
                                          "ChainValidationFailed", "Asn1", "EkuMismatch"}
      BY <2>2
    <2>4. FirstFailure(table) = "none" \/ \E i \in 1..5 : FirstFailure(table) = table[i][2]
      BY <2>1, TheFirstFailure
    <2>5. QED
      BY <2>1, <2>3, <2>4
  <1>3. QED
    BY <1>1, <1>2

\* At most one certificate is the signer's.
LEMMA OneSigner ==
  ASSUME NEW r \in Requests
  PROVE  /\ SignerCert(r.body) \subseteq Certs
         /\ \A c, d \in SignerCert(r.body) : c = d
  <1> DEFINE m == r.body
  <1>1. m.certs \in Seq(Certs)
    BY RequestsAssumption DEF WellFormed
  <1>2. SignerCert(m) \subseteq Certs
    BY <1>1 DEF SignerCert
  <1>3. ASSUME NEW c \in SignerCert(m), NEW d \in SignerCert(m)
        PROVE  c = d
    <2>1. PICK i \in DOMAIN m.certs : c = m.certs[i] /\ Matches(m, i)
                                      /\ \A h \in 1..(i - 1) : ~Matches(m, h)
      BY <1>3 DEF SignerCert
    <2>2. PICK j \in DOMAIN m.certs : d = m.certs[j] /\ Matches(m, j)
                                      /\ \A h \in 1..(j - 1) : ~Matches(m, h)
      BY <1>3 DEF SignerCert
    <2>3. i \in Nat \ {0} /\ j \in Nat \ {0}
      BY <1>1, <2>1, <2>2
    <2>4. ~(i < j) /\ ~(j < i)
      BY <2>1, <2>2, <2>3
    <2>5. QED
      BY <2>1, <2>2, <2>3, <2>4
  <1>4. QED
    BY <1>2, <1>3

\* A message that verifies as an AuthPack is signed by its signer.
LEMMA VerifiedMeansSigned ==
  ASSUME NEW r \in Requests, Verifies(r.body), r.body.type = "authData",
         NEW c \in SignerCert(r.body)
  PROVE  SignedBy(r.body, c)
  <1> DEFINE m == r.body
             s == m.signers[1]
  <1>1. 1 \in DOMAIN m.signers
    <2>1. m.signers \in Seq(ToSet(m.signers)) /\ m.signers # <<>>
      BY RequestsAssumption DEF WellFormed, Verifies
    <2>2. QED
      BY <2>1
  <1>2. PICK attrs \in s.attrs, payload \in m.content, cert \in SignerCert(m) :
          /\ FirstAttr(attrs, "messageDigest") = {DigestOf(s.digest, payload)}
          /\ FirstAttr(attrs, "contentType") = {m.type}
          /\ s.signature = Signature(KeyOf[cert], attrs)
    BY DEF Verifies, AttrsBind
  <1>3. cert = c
    BY <1>2, OneSigner
  <1>4. \E a \in ToSet(attrs) :
          a.kind = "messageDigest" /\ a.value = DigestOf(s.digest, payload)
    <2>1. FirstAttr(attrs, "messageDigest") = {DigestOf(s.digest, payload)}
      BY <1>2
    <2>2. QED
      BY <2>1 DEF FirstAttr, ToSet
  <1>5. \E a \in ToSet(attrs) : a.kind = "contentType" /\ a.value = "authData"
    <2>1. FirstAttr(attrs, "contentType") = {"authData"}
      BY <1>2
    <2>2. QED
      BY <2>1 DEF FirstAttr, ToSet
  <1>6. QED
    BY <1>1, <1>2, <1>3, <1>4, <1>5 DEF SignedBy

\* Its signer's certificate is vouched for if the message is opened.
LEMMA OpenedMeansVouchedFor ==
  ASSUME NEW k, NEW r \in Requests, ~IsAnonymous(r.body),
         OpenError(k, r.body) = "none"
  PROVE  \E c \in Certs : SignerCert(r.body) = {c} /\ VouchedFor(k, r.body, c)
  <1> DEFINE m == r.body
  <1>1. /\ Verifies(m) /\ m.type = "authData" /\ Trusts(k, m)
        /\ EkuVerdicts(k, m) \cap {"Error", "Rejected"} = {}
    BY OpenedMessage
  <1>2. PICK c \in SignerCert(m) :
          ValidatesChain(k.store, c, m.certs, k.config.requireCrl, IssuerOf,
                         Revoked, Undecodable)
    BY <1>1 DEF Trusts
  <1>3. SignerCert(m) = {c} /\ c \in Certs
    BY OneSigner
  <1>4. SignedBy(m, c)
    BY <1>1, VerifiedMeansSigned
  <1>5. LeadsTo(c, ToSet(m.certs), k.store.anchors, IssuerOf,
                IF k.config.requireCrl THEN Revoked ELSE {})
    BY <1>2 DEF ValidatesChain
  <1>6. ASSUME k.config.requireEku
        PROVE  \/ "KPClientAuth" \in SaysOf[c].ekus
               \/ k.config.secondaryEku /\ "MsScLogon" \in SaysOf[c].ekus
    <2>1. VerifyClientEku(SaysOf[c], k.config.secondaryEku)
            \notin {"Error", "Rejected"}
      BY <1>1, <1>6 DEF EkuVerdicts
    <2>2. QED
      BY <2>1 DEF VerifyClientEku
  <1>7. QED
    BY <1>3, <1>4, <1>5, <1>6 DEF VouchedFor

\* Why verify lets a request through.
LEMMA AdmittedBy ==
  ASSUME NEW k, NEW r \in Requests, RefusedWith(k, r) = "none"
  PROVE  /\ OpenError(k, r.body) = "none"
         /\ \A p \in r.body.content : PackError(k.config, p) = "none"
         /\ AuthorizeError(k, r, VerifiedRequest(r.body)) = "none"
  <1>1. /\ VerifyAsReqError(k, r) = "none"
        /\ AuthorizeError(k, r, VerifiedRequest(r.body)) = "none"
    BY DEF RefusedWith, CodeOf
  <1>2. OpenError(k, r.body) = "none"
    BY <1>1 DEF VerifyAsReqError
  <1>3. ASSUME NEW p \in r.body.content
        PROVE  PackError(k.config, p) = "none"
    <2>1. r.body.content = {p}
      BY RequestsAssumption DEF WellFormed
    <2>2. {PackError(k.config, q) : q \in r.body.content} = {PackError(k.config, p)}
      BY <2>1
    <2>3. (CHOOSE e \in {PackError(k.config, q) : q \in r.body.content} : TRUE) = "none"
      BY <1>1, <1>2 DEF VerifyAsReqError
    <2>4. QED
      BY <2>2, <2>3
  <1>4. QED
    BY <1>1, <1>2, <1>3

\* Whom a request speaks for that was let through.
LEMMA AdmittedIsNamed ==
  ASSUME NEW k, NEW r \in Requests, RefusedWith(k, r) = "none"
  PROVE  /\ ~IsAnonymous(r.body) => SpeaksForItself(k, r)
         /\ IsAnonymous(r.body) =>
              r.body.signers = <<>> /\ r.client # {} /\ r.client \subseteq Anonymous
  <1> DEFINE v == VerifiedRequest(r.body)
  <1>1. /\ OpenError(k, r.body) = "none"
        /\ AuthorizeError(k, r, v) = "none"
    BY AdmittedBy
  <1>2. r.client # {} /\ v.anonymous = IsAnonymous(r.body)
    BY <1>1 DEF AuthorizeError, VerifiedRequest
  <1>3. ASSUME IsAnonymous(r.body)
        PROVE  r.body.signers = <<>> /\ r.client \subseteq Anonymous
    <2>1. r.body.signers = <<>>
      BY <1>3, RequestsAssumption DEF IsAnonymous, IsUnsigned, IsBare, WellFormed
    <2>2. r.client \subseteq Anonymous
      BY <1>1, <1>2, <1>3 DEF AuthorizeError
    <2>3. QED
      BY <2>1, <2>2
  <1>4. ASSUME ~IsAnonymous(r.body)
        PROVE  SpeaksForItself(k, r)
    <2>1. PICK c \in Certs : SignerCert(r.body) = {c} /\ VouchedFor(k, r.body, c)
      BY <1>1, <1>4, OpenedMeansVouchedFor
    <2>2. PICK name \in r.client : TRUE
      BY <1>2
    <2>3. v.cert = {c}
      BY <1>4, <2>1 DEF VerifiedRequest
    <2>4. VerifyClientSan(SaysOf[c], name, k.config.allowUpn) = "Authorized"
      BY <1>1, <1>2, <1>4, <2>3 DEF AuthorizeError
    <2>5. MayActFor(k, c, name)
      BY <2>4 DEF VerifyClientSan, ClientSanMatches, NamedIn, MayActFor
    <2>6. QED
      BY <2>1, <2>5 DEF SpeaksForItself
  <1>5. QED
    BY <1>2, <1>3, <1>4

\* An AuthPack without an error holds a nonce and a key the KDC accepts.
LEMMA AcceptedPack ==
  ASSUME NEW config, NEW pack, PackError(config, pack) = "none"
  PROVE  /\ pack.spki # {} /\ DecodeNonce(pack.nonce) # {}
         /\ \A key \in pack.spki : IF IsKem(key) THEN AcceptsKem(config, key)
                                   ELSE AcceptsGroup(config, key)
  <1> DEFINE table == <<
        <<Absolute(pack.ctime - Now) > MaxSkew, "ClockSkew">>,
        <<config.freshness /\ ~pack.freshness, "Config">>,
        <<pack.spki = {}, "DhParamsRejected">>,
        <<\E key \in pack.spki : ~key.decodes, "Asn1">>,
        <<\E key \in pack.spki : IsKem(key) /\ ~AcceptsKem(config, key),
          "KemAlgorithmNotSupported">>,
        <<(\E key \in pack.spki : IsKem(key)) /\ pack.dhNonce # {},
          "KemNonceNotAllowed">>,
        <<\E key \in pack.spki : ~IsKem(key) /\ ~AcceptsGroup(config, key),
          "DhParamsRejected">>,
        <<DecodeNonce(pack.nonce) = {}, "Asn1">> >>
  <1>1. FirstFailure(table) = "none"
    BY DEF PackError
  <1>2. DOMAIN table = 1..8
    OBVIOUS
  <1>3. \A i \in 1..8 : table[i][2] # "none"
    OBVIOUS
  <1>4. \A i \in 1..8 : ~table[i][1]
    <2> HIDE DEF table
    <2>1. QED
      BY <1>1, <1>2, <1>3, NoFailureNoCondition
  <1>5. ~table[3][1] /\ ~table[5][1] /\ ~table[7][1] /\ ~table[8][1]
    BY <1>4
  <1>6. QED
    BY <1>5

LEMMA AdmittedTypeOK ==
  ASSUME NEW k, NEW r \in Requests, RefusedWith(k, r) = "none"
  PROVE  LET v == VerifiedRequest(r.body) IN
         /\ v.nonce \in Signed /\ v.anonymous \in BOOLEAN
         /\ v.key.alg \in k.config.kems \cup k.config.groups
  <1> DEFINE v == VerifiedRequest(r.body)
             pack == CHOOSE p \in r.body.content : TRUE
  <1>1. r.body.content # {}
    BY AdmittedBy, OpenedHasContent
  <1>2. pack \in r.body.content
    BY <1>1
  <1>3. PackError(k.config, pack) = "none"
    BY <1>2, AdmittedBy
  <1>4. /\ pack.spki # {} /\ DecodeNonce(pack.nonce) # {}
        /\ \A key \in pack.spki : IF IsKem(key) THEN AcceptsKem(k.config, key)
                                  ELSE AcceptsGroup(k.config, key)
    <2> HIDE DEF pack
    <2>1. QED
      BY <1>3, AcceptedPack
  <1>5. v.nonce \in DecodeNonce(pack.nonce) /\ v.key \in pack.spki
        /\ v.anonymous = IsAnonymous(r.body)
    BY <1>4 DEF VerifiedRequest
  <1>6. v.nonce \in Signed
    <2>1. pack.nonce \in Unsigned
      BY <1>4 DEF DecodeNonce
    <2>2. QED
      BY <1>5, <2>1, NonceRoundTrip
  <1>7. v.key.alg \in k.config.kems \cup k.config.groups
    BY <1>4, <1>5 DEF AcceptsKem, AcceptsGroup
  <1>8. v.anonymous \in BOOLEAN
    BY <1>5 DEF IsAnonymous, IsUnsigned, IsBare
  <1>9. QED
    BY <1>6, <1>7, <1>8
-------------------------------------------------------------------------------
(* The invariant *)

LEMMA TheOnly ==
  ASSUME NEW S, Single(S)
  PROVE  (CHOOSE x \in S : TRUE) \in S /\ S = {CHOOSE x \in S : TRUE}
  BY DEF Single

\* Neither kind of reply is a key exchange.
LEMMA RepliesAreNoKx ==
  ASSUME NEW k, NEW v, NEW e, NEW m, NEW c, NEW server
  PROVE  BuildAsRep(k, v, e, m, c, server).padata.kind # "kx"
  BY DEF BuildAsRep, BuildDhRep, BuildKemRep

\* The certificates among some blocks.
LEMMA CertBlocks ==
  ASSUME NEW S, NEW blocks \in Seq(S),
         \A b \in S : b.label = "CERTIFICATE" => b.der \in Certs
  PROVE  BlocksOf(blocks, {"CERTIFICATE"}) \in Seq(Certs)
  <1> DEFINE part(b) == IF b.label \in {"CERTIFICATE"} THEN <<b.der>> ELSE <<>>
             parts == [i \in DOMAIN blocks |-> part(blocks[i])]
  <1>1. BlocksOf(blocks, {"CERTIFICATE"}) = Joined(parts)
    BY DEF BlocksOf
  <1>2. \A b \in S : part(b) \in Seq(Certs)
    OBVIOUS
  <1> HIDE DEF part
  <1>3. PICK n \in Nat : blocks \in [1..n -> S]
    BY SeqDef
  <1>4. parts \in [1..n -> Seq(Certs)]
    BY <1>2, <1>3
  <1>5. parts \in Seq(Seq(Certs))
    BY <1>3, <1>4, SeqDef
  <1>6. QED
    BY <1>1, <1>5, JoinedIsList

\* What is loaded without an error is one identity with a chain of certificates.
ProperlyLoaded(loaded) ==
  loaded.error = "none" =>
    \E id \in loaded.value : loaded.value = {id} /\ id.chain \in Seq(Certs)

LEMMA IdentityOfCerts ==
  ASSUME NEW certs \in Seq(Certs), certs # <<>>, NEW keys
  PROVE  ProperlyLoaded(Loaded([cert |-> Head(certs), key |-> Head(keys),
                                chain |-> Tail(certs)]))
  <1> DEFINE id == [cert |-> Head(certs), key |-> Head(keys), chain |-> Tail(certs)]
  <1>1. Tail(certs) \in Seq(Certs)
    BY HeadTailProperties
  <1>2. id.chain \in Seq(Certs) /\ Loaded(id).value = {id}
    BY <1>1 DEF Loaded
  <1> HIDE DEF id
  <1>3. ProperlyLoaded(Loaded(id))
    BY <1>2 DEF ProperlyLoaded
  <1>4. QED
    BY <1>3 DEF id

LEMMA FailedIsProper ==
  ASSUME NEW e, e # "none"
  PROVE  ProperlyLoaded(Failed(e))
  BY DEF Failed, ProperlyLoaded

LEMMA IdentityOfBlocks ==
  ASSUME NEW S, NEW certBlocks \in Seq(S), NEW keyBlocks,
         \A b \in S : b.label = "CERTIFICATE" => b.der \in Certs
  PROVE  ProperlyLoaded(FromBlocks(certBlocks, keyBlocks))
  <1>1. PICK certs \in Seq(Certs) : certs = BlocksOf(certBlocks, {"CERTIFICATE"})
    BY CertBlocks
  <1>2. PICK keys : keys = BlocksOf(keyBlocks, {"PRIVATE KEY", "RSA PRIVATE KEY"})
    OBVIOUS
  <1>3. FromBlocks(certBlocks, keyBlocks) =
          IF certs = <<>> \/ keys = <<>> THEN Failed("IdentityLoadFailed")
          ELSE Loaded([cert |-> Head(certs), key |-> Head(keys), chain |-> Tail(certs)])
    BY <1>1, <1>2, Zenon DEF FromBlocks
  <1>4. CASE certs = <<>> \/ keys = <<>>
    BY <1>3, <1>4, FailedIsProper
  <1>5. CASE ~(certs = <<>> \/ keys = <<>>)
    BY <1>3, <1>5, IdentityOfCerts
  <1>6. QED
    BY <1>4, <1>5

\* A directory's blocks, in whatever order its files are listed.
LEMMA BlocksOfDirectory ==
  ASSUME NEW files, IsFiniteSet(files), \A f \in files : IsFile(f),
         NEW listing \in SetToSeqs(files)
  PROVE  Blocks(listing) \in Seq(UNION {ToSet(f.blocks) : f \in files})
  <1> DEFINE S == UNION {ToSet(f.blocks) : f \in files}
             part(f) == IF f.parses THEN f.blocks ELSE <<>>
             parts == [i \in DOMAIN listing |-> part(listing[i])]
  <1>1. Cardinality(files) \in Nat
    BY FS_CardinalityType
  <1>2. PICK n \in Nat : listing \in [1..n -> files]
    BY <1>1 DEF SetToSeqs
  <1>3. \A f \in files : f.blocks \in Seq(S)
    <2>1. ASSUME NEW f \in files
          PROVE  f.blocks \in Seq(S)
      <3>1. PICK own : own = ToSet(f.blocks) /\ f.blocks \in Seq(own)
        BY DEF IsFile
      <3>2. own \subseteq S
        BY <3>1
      <3> HIDE DEF S
      <3>3. QED
        BY <3>1, <3>2
    <2>2. QED
      BY <2>1
  <1>4. Blocks(listing) = Joined(parts)
    BY DEF Blocks
  <1> HIDE DEF S
  <1>5. \A f \in files : part(f) \in Seq(S)
    BY <1>3
  <1> HIDE DEF part
  <1>6. parts \in [1..n -> Seq(S)]
    BY <1>2, <1>5
  <1>7. parts \in Seq(Seq(S))
    BY <1>6, SeqDef
  <1>8. QED
    BY <1>4, <1>7, JoinedIsList DEF S

\* An identity is loaded whole from any source that can be parsed, with every
\* order in which a directory may be listed.
LEMMA LoadedIdentity ==
  ASSUME NEW uri, IsSource(uri), ~ParseError(uri), NEW loaded \in LoadIdentity(uri)
  PROVE  ProperlyLoaded(loaded)
  <1>1. PICK s : uri.scheme = {s} /\ s \in {"FILE", "DIR", "PKCS12", "PKCS11", "ENV"}
    BY DEF IsSource, ParseError
  <1>2. CASE s \in {"FILE", "ENV"}
    <2>1. loaded = LoadFile(uri.certFiles, uri.keyFiles)
      BY <1>1, <1>2 DEF LoadIdentity
    <2>2. CASE \E f \in uri.certFiles, k \in uri.keyFiles : f.parses /\ k.parses
      <3>1. PICK f \in uri.certFiles, k \in uri.keyFiles :
              loaded = FromBlocks(f.blocks, k.blocks)
        BY <2>1, <2>2 DEF LoadFile
      <3>2. IsFile(f)
        BY DEF IsSource
      <3>3. QED
        BY <3>1, <3>2, IdentityOfBlocks DEF IsFile
    <2>3. CASE ~\E f \in uri.certFiles, k \in uri.keyFiles : f.parses /\ k.parses
      BY <2>1, <2>3, FailedIsProper DEF LoadFile
    <2>4. QED
      BY <2>2, <2>3
  <1>3. CASE s = "DIR"
    <2>1. loaded \in LoadDir(uri.files, uri.readable)
      BY <1>1, <1>3 DEF LoadIdentity
    <2>2. CASE ~uri.readable
      BY <2>1, <2>2, FailedIsProper DEF LoadDir
    <2>3. CASE uri.readable
      <3> DEFINE S == UNION {ToSet(f.blocks) : f \in uri.files}
      <3>1. PICK listing \in SetToSeqs(uri.files) :
              loaded = FromBlocks(Blocks(listing), Blocks(listing))
        BY <2>1, <2>3 DEF LoadDir
      <3>2. Blocks(listing) \in Seq(S)
        BY BlocksOfDirectory DEF IsSource
      <3>3. \A b \in S : b.label = "CERTIFICATE" => b.der \in Certs
        BY DEF IsSource, IsFile
      <3> HIDE DEF S
      <3>4. QED
        BY <3>1, <3>2, <3>3, IdentityOfBlocks
    <2>4. QED
      BY <2>2, <2>3
  <1>4. CASE s = "PKCS12"
    <2>1. loaded = LoadPkcs12(uri.archive, "")
      BY <1>1, <1>4 DEF LoadIdentity
    <2>2. uri.archive.certs \in Seq(Certs)
      BY DEF IsSource
    <2>3. QED
      BY <2>1, <2>2, FailedIsProper, IdentityOfCerts DEF LoadPkcs12
  <1>5. CASE s = "PKCS11"
    <2>1. loaded = LoadPkcs11(uri.token)
      BY <1>1, <1>5 DEF LoadIdentity
    <2>2. uri.token.certs \in Seq(Certs)
      BY DEF IsSource
    <2>3. QED
      BY <2>1, <2>2, FailedIsProper, IdentityOfCerts DEF LoadPkcs11
  <1>6. QED
    BY <1>1, <1>2, <1>3, <1>4, <1>5

\* A start has an error or a module that runs with the configuration.
LEMMA StartsWithOrWithout ==
  ASSUME NEW started \in Starts, profile \in Profiles
  PROVE  \/ started.value = {} /\ started.error \in {"EINVAL", "NoHandle"}
         \/ /\ Single(started.value) /\ \A k \in started.value : Configured(k)
            /\ ~BadKemNames(profile)
  <1> DEFINE config == KdcConfig(profile)
             store == LoadAll(config.anchors)
             Module(loaded) ==
               Loaded([config |-> config, identity |-> CHOOSE i \in loaded.value : TRUE,
                       store |-> CHOOSE s \in store.value : TRUE])
  <1>1. config.identity = Lookup(profile, "pkinit_identity")
    BY DEF KdcConfig
  <1> HIDE DEF config
  <1>2. \/ started \in {Failed("EINVAL"), Failed("NoHandle")}
        \/ \E uri \in config.identity : \E loaded \in LoadIdentity(uri) :
             /\ ~ParseError(uri) /\ ~BadKemNames(profile)
             /\ IF loaded.error # "none" \/ store.error # "none"
                THEN started = Failed("EINVAL") ELSE started = Module(loaded)
    BY DEF Starts, config
  <1>3. ASSUME NEW uri \in config.identity, NEW loaded \in LoadIdentity(uri),
               ~ParseError(uri), loaded.error = "none", started = Module(loaded)
        PROVE  Single(started.value) /\ \A k \in started.value : Configured(k)
    <2> DEFINE module == [config |-> config, identity |-> CHOOSE i \in loaded.value : TRUE,
                          store |-> CHOOSE s \in store.value : TRUE]
    <2>1. started.value = {module}
      BY <1>3 DEF Loaded
    <2>2. /\ module.config = config
          /\ module.identity = CHOOSE i \in loaded.value : TRUE
      OBVIOUS
    <2>3. PICK id \in loaded.value : loaded.value = {id} /\ id.chain \in Seq(Certs)
      <3>1. IsSource(uri)
        BY <1>1, ProfilesAssumption
      <3>2. QED
        BY <1>3, <3>1, LoadedIdentity DEF ProperlyLoaded
    <2> HIDE DEF module
    <2>4. module.identity = id
      BY <2>2, <2>3
    <2>5. Configured(module)
      BY <2>2, <2>3, <2>4 DEF Configured, config
    <2>6. QED
      BY <2>1, <2>5 DEF Single
  <1>4. \A e : Failed(e).value = {} /\ Failed(e).error = e
    BY DEF Failed
  <1>5. CASE started \in {Failed("EINVAL"), Failed("NoHandle")}
    BY <1>4, <1>5
  <1>6. CASE started \notin {Failed("EINVAL"), Failed("NoHandle")}
    BY <1>2, <1>3, <1>6
  <1>7. QED
    BY <1>5, <1>6

\* Every code verify answers with.
LEMMA RefusalCodes ==
  ASSUME NEW k, NEW r
  PROVE  RefusedWith(k, r) \in Refusals \cup {"none"}
  <1>1. \A e : CodeOf(e) \in Refusals
    BY DEF CodeOf, Refusals
  <1>2. \A v : AuthorizeError(k, r, v) \in Refusals \cup {"none"}
    BY DEF AuthorizeError, Refusals
  <1>3. QED
    BY <1>1, <1>2 DEF RefusedWith, Refusals

LEMMA QInvInit ==
  ASSUME Init
  PROVE  QInv
  BY DEF Init, NoRequest, QInv, StageInv, VerifiedInv, SessionInv, RefusedInv,
         ConfigInv, Stages

LEMMA QInvStart ==
  ASSUME QInv, InitModule
  PROVE  QInv'
  <1>1. PICK started \in Starts :
          /\ kdc' = started.value
          /\ stage' = IF started.value = {} THEN "failed" ELSE "idle"
          /\ refusal' = IF started.value # {} THEN {}
                        ELSE {[code |-> started.error, edata |-> FALSE]}
    BY DEF InitModule
  <1>2. /\ stage = "down" /\ request = {} /\ modreq = {} /\ replyKey = {}
        /\ indicators = {} /\ padata = {} /\ inFlight = Requests
        /\ profile \in Profiles
    BY DEF InitModule, QInv, StageInv, VerifiedInv, ConfigInv
  <1>3. /\ request' = {} /\ modreq' = {} /\ replyKey' = {} /\ indicators' = {}
        /\ padata' = {} /\ inFlight' = Requests /\ profile' = profile
    BY <1>2 DEF InitModule, fixedVars
  <1>4. \/ started.value = {} /\ started.error \in {"EINVAL", "NoHandle"}
        \/ /\ Single(started.value) /\ \A k \in started.value : Configured(k)
           /\ ~BadKemNames(profile)
    BY <1>2, StartsWithOrWithout
  <1>5. StageInv' /\ RefusedInv'
    <2>1. CASE started.value = {}
      BY <1>1, <1>3, <1>4, <2>1 DEF StageInv, RefusedInv, Stages, Refusals, Single
    <2>2. CASE started.value # {}
      BY <1>1, <1>3, <1>4, <2>2 DEF StageInv, RefusedInv, Stages, Single
    <2>3. QED
      BY <2>1, <2>2
  <1>6. VerifiedInv' /\ SessionInv'
    BY <1>1, <1>3 DEF VerifiedInv, SessionInv
  <1>7. ConfigInv'
    <2>1. (\A k \in kdc' : Configured(k)) /\ (kdc' # {} => ~BadKemNames(profile))
      BY <1>1, <1>4
    <2>2. QED
      BY <1>2, <1>3, <2>1 DEF ConfigInv, Configured
  <1>8. QED
    BY <1>5, <1>6, <1>7 DEF QInv

\* Steps that serve nobody, and the arrival of a request.
LEMMA QInvIdle ==
  ASSUME QInv, Restart \/ Advertise \/ Finish \/ \E r \in inFlight : Receive(r)
  PROVE  QInv'
  <1>1. CASE Restart
    BY <1>1 DEF Restart, fixedVars, QInv, StageInv, VerifiedInv, SessionInv,
                RefusedInv, ConfigInv, Configured, Stages
  <1>2. CASE Advertise
    <2>1. TheKdc' = TheKdc /\ kdc' = kdc /\ stage' = "advertised" /\ stage = "idle"
      BY <1>2 DEF Advertise, TheKdc
    <2>2. padata' \in {{}, {Hint(TheKdc)}}
      BY <1>2 DEF Advertise, Hint
    <2>3. (stage = "advertised" => padata \in {{}, {Hint(TheKdc)}})'
      BY <2>1, <2>2 DEF Hint
    <2>4. QED
      BY <1>2, <2>1, <2>3
         DEF Advertise, fixedVars, QInv, StageInv, VerifiedInv, SessionInv,
             RefusedInv, ConfigInv, Configured, Stages, Single
  <1>3. CASE Finish
    BY <1>3 DEF Finish, fixedVars, QInv, StageInv, VerifiedInv, SessionInv,
                RefusedInv, ConfigInv, Configured, Stages, Single
  <1>4. ASSUME NEW r \in inFlight, Receive(r)
        PROVE  QInv'
    BY <1>4 DEF Receive, fixedVars, QInv, StageInv, VerifiedInv, SessionInv,
                RefusedInv, ConfigInv, Configured, Stages, Single
  <1>5. QED
    BY <1>1, <1>2, <1>3, <1>4

\* What the steps of a request's service leave alone.
LEMMA ServiceFrame ==
  ASSUME QInv, Verify \/ ReturnDh \/ ReturnKx \/ ReturnKxFails \/ SkipKx
  PROVE  /\ Single(kdc) /\ Single(request) /\ request \subseteq Requests
         /\ inFlight = Requests /\ session = {Ticket} /\ refusal = {}
         /\ kdc' = kdc /\ request' = request /\ inFlight' = Requests
         /\ TheKdc' = TheKdc /\ TheRequest' = TheRequest /\ Answer' = Answer
         /\ ConfigInv'
  <1>1. stage \in {"received", "verified", "keyed"}
    BY DEF Verify, ReturnDh, ReturnKx, ReturnKxFails, SkipKx
  <1>2. /\ Single(kdc) /\ Single(request) /\ request \subseteq Requests
        /\ inFlight = Requests /\ session = {Ticket} /\ refusal = {}
    BY <1>1 DEF QInv, StageInv, RefusedInv
  <1>3. kdc' = kdc /\ request' = request /\ UNCHANGED <<profile, inFlight>>
    BY DEF Verify, ReturnDh, ReturnKx, ReturnKxFails, SkipKx, fixedVars, requestVars
  <1>4. TheKdc' = TheKdc /\ TheRequest' = TheRequest
    BY <1>3 DEF TheKdc, TheRequest
  <1>5. Answer' = Answer
    BY <1>4 DEF Answer
  <1>6. ConfigInv'
    BY <1>3 DEF QInv, ConfigInv, Configured
  <1>7. QED
    BY <1>2, <1>3, <1>4, <1>5, <1>6

LEMMA QInvVerify ==
  ASSUME QInv, Verify
  PROVE  QInv'
  <1> DEFINE code == RefusedWith(TheKdc, TheRequest)
             v == VerifiedRequest(TheRequest.body)
  <1>1. /\ stage = "received" /\ modreq = {} /\ replyKey = {} /\ padata = {}
        /\ indicators = {}
    BY DEF Verify, QInv, StageInv, VerifiedInv
  <1>2. /\ Single(kdc) /\ Single(request) /\ request \subseteq Requests
        /\ kdc' = kdc /\ request' = request /\ inFlight' = Requests
        /\ TheKdc' = TheKdc /\ TheRequest' = TheRequest /\ Answer' = Answer
        /\ session = {Ticket} /\ ConfigInv' /\ refusal = {}
    BY ServiceFrame
  <1>3. code' = code /\ v' = v /\ replyKey' = {} /\ padata' = {} /\ session' = {Ticket}
    BY <1>1, <1>2 DEF Verify
  <1>4. CASE code # "none"
    <2>1. /\ refusal' = {Refusal(code)} /\ stage' = "refused"
          /\ modreq' = {} /\ indicators' = {}
      BY <1>1, <1>4 DEF Verify, Refuse
    <2>2. code \in Refusals
      BY <1>4, RefusalCodes
    <2>3. Refusal(code).code \in Refusals /\ Refusal(code).edata \in BOOLEAN
      BY <2>2 DEF Refusal
    <2>4. RefusedInv'
      BY <1>3, <1>4, <2>1 DEF RefusedInv
    <2>5. QED
      BY <1>1, <1>2, <1>3, <2>1, <2>3, <2>4
         DEF QInv, StageInv, VerifiedInv, SessionInv, Stages, Single
  <1>5. CASE code = "none"
    <2>1. /\ modreq' = {v} /\ stage' = "verified" /\ refusal' = refusal
          /\ indicators' \in IF v.anonymous THEN {{}}
                              ELSE SUBSET TheKdc.config.indicators
      BY <1>5 DEF Verify
    <2>2. indicators' # {} => ~IsAnonymous(TheRequest.body)
      BY <2>1 DEF VerifiedRequest
    <2>3. VerifiedInv'
      BY <1>1, <1>2, <1>3, <1>5, <2>1, <2>2 DEF VerifiedInv
    <2>4. StageInv' /\ SessionInv' /\ RefusedInv'
      BY <1>1, <1>2, <1>3, <2>1 DEF StageInv, SessionInv, RefusedInv, Stages, Single
    <2>5. QED
      BY <1>2, <2>3, <2>4 DEF QInv
  <1>6. QED
    BY <1>4, <1>5

\* A failing callback after verify sends no typed data.
LEMMA ErrorsWithoutData ==
  \A code \in {"EINVAL", "ENOMEM"} : ~Refusal(code).edata
  BY DEF Refusal

LEMMA QInvReturnDh ==
  ASSUME QInv, ReturnDh
  PROVE  QInv'
  <1> DEFINE v == CHOOSE w \in modreq : TRUE
  <1>1. stage = "verified" /\ modreq # {} /\ replyKey = {} /\ padata = {}
    BY DEF ReturnDh, QInv, StageInv
  <1>2. /\ Single(kdc) /\ Single(request) /\ request \subseteq Requests
        /\ kdc' = kdc /\ request' = request /\ inFlight' = Requests
        /\ TheKdc' = TheKdc /\ TheRequest' = TheRequest /\ Answer' = Answer
        /\ session = {Ticket} /\ ConfigInv' /\ refusal = {}
    BY ServiceFrame
  <1>3. modreq' = modreq /\ indicators' = indicators /\ session' = session
    BY DEF ReturnDh
  <1>4. VerifiedInv'
    BY <1>1, <1>2, <1>3 DEF QInv, VerifiedInv
  <1>5. /\ modreq = {VerifiedRequest(TheRequest.body)}
        /\ RefusedWith(TheKdc, TheRequest) = "none"
    BY <1>1 DEF QInv, VerifiedInv
  <1>6. v = VerifiedRequest(TheRequest.body)
    BY <1>5
  <1>7. CASE BuildAsRepFails(TheKdc, v)
    <2>1. /\ refusal' = {Refusal("EINVAL")} /\ stage' = "refused"
          /\ replyKey' = {} /\ padata' = {}
      BY <1>1, <1>7 DEF ReturnDh, Refuse
    <2>2. RefusedInv'
      <3>1. /\ RefusedWith(TheKdc, TheRequest)' = "none"
            /\ BuildAsRepFails(TheKdc, VerifiedRequest(TheRequest.body))'
        BY <1>2, <1>5, <1>6, <1>7
      <3>2. \A f \in refusal' : ~f.edata
        BY <2>1, ErrorsWithoutData
      <3>3. QED
        BY <2>1, <3>1, <3>2 DEF RefusedInv
    <2>3. QED
      BY <1>1, <1>2, <1>3, <1>4, <2>1, <2>2
         DEF QInv, StageInv, SessionInv, Stages, Single, Refusal, Refusals
  <1>8. CASE ~BuildAsRepFails(TheKdc, v)
    <2>1. /\ replyKey' = {Answer.key} /\ padata' = {Answer.padata}
          /\ stage' = "keyed" /\ refusal' = refusal
      BY <1>6, <1>8 DEF ReturnDh, Answer
    <2>2. ~BuildAsRepFails(TheKdc, VerifiedRequest(TheRequest.body))'
      BY <1>2, <1>6, <1>8
    <2>3. StageInv' /\ SessionInv' /\ RefusedInv'
      BY <1>1, <1>2, <1>3, <2>1, <2>2
         DEF StageInv, SessionInv, RefusedInv, Stages, Single
    <2>4. QED
      BY <1>2, <1>4, <2>3 DEF QInv
  <1>9. QED
    BY <1>7, <1>8

\* The three ways past PA-PKINIT-KX.
LEMMA QInvKx ==
  ASSUME QInv, ReturnKx \/ ReturnKxFails \/ SkipKx
  PROVE  QInv'
  <1>1. /\ stage = "keyed" /\ modreq # {}
        /\ ~BuildAsRepFails(TheKdc, VerifiedRequest(TheRequest.body))
        /\ replyKey = {Answer.key} /\ padata = {Answer.padata}
    BY DEF ReturnKx, ReturnKxFails, SkipKx, QInv, StageInv, SessionInv
  <1>2. /\ Single(kdc) /\ Single(request) /\ request \subseteq Requests
        /\ kdc' = kdc /\ request' = request /\ inFlight' = Requests
        /\ TheKdc' = TheKdc /\ TheRequest' = TheRequest /\ Answer' = Answer
        /\ session = {Ticket} /\ ConfigInv' /\ refusal = {}
    BY ServiceFrame
  <1>3. modreq' = modreq /\ indicators' = indicators /\ replyKey' = replyKey
    BY DEF ReturnKx, ReturnKxFails, SkipKx, requestVars
  <1>4. VerifiedInv'
    BY <1>1, <1>2, <1>3 DEF QInv, VerifiedInv
  <1>5. /\ WantsKx(TheRequest)' = WantsKx(TheRequest)
        /\ RefusedWith(TheKdc, TheRequest)' = "none"
        /\ ~BuildAsRepFails(TheKdc, VerifiedRequest(TheRequest.body))'
    BY <1>1, <1>2 DEF WantsKx, QInv, VerifiedInv
  <1>6. CASE ReturnKx
    <2>1. /\ padata' = {Answer.padata, Encrypted(Answer.key, Ticket)} /\ stage' = "sent"
          /\ session' = {FxCf2(Ticket, Answer.key)} /\ WantsKx(TheRequest)
          /\ refusal' = refusal
      BY <1>1, <1>2, <1>6 DEF ReturnKx
    <2>2. SessionInv'
      BY <1>1, <1>2, <1>3, <1>5, <2>1 DEF SessionInv, FxCf2, Encrypted
    <2>3. StageInv' /\ RefusedInv'
      BY <1>1, <1>2, <1>3, <2>1 DEF StageInv, RefusedInv, Stages, Single
    <2>4. QED
      BY <1>2, <1>4, <2>2, <2>3 DEF QInv
  <1>7. CASE ReturnKxFails
    <2>1. /\ stage' = "refused"
          /\ \E code \in {"ENOMEM", "EINVAL"} : refusal' = {Refusal(code)}
      BY <1>7 DEF ReturnKxFails, Refuse
    <2>2. StageInv'
      BY <1>1, <1>2, <1>3, <2>1 DEF StageInv, Stages, Single, Refusal, Refusals
    <2>3. SessionInv'
      BY <2>1 DEF SessionInv
    <2>4. \A f \in refusal' : ~f.edata
      BY <2>1, ErrorsWithoutData
    <2>5. RefusedInv'
      BY <1>1, <1>3, <1>5, <2>1, <2>4 DEF RefusedInv
    <2>6. QED
      BY <1>2, <1>4, <2>2, <2>3, <2>5 DEF QInv
  <1>8. CASE SkipKx
    <2>1. /\ padata' = padata /\ session' = session /\ stage' = "sent"
          /\ ~WantsKx(TheRequest) /\ refusal' = refusal
      BY <1>8 DEF SkipKx, requestVars
    <2>2. SessionInv'
      BY <1>1, <1>2, <1>3, <1>5, <2>1 DEF SessionInv
    <2>3. StageInv' /\ RefusedInv'
      BY <1>1, <1>2, <1>3, <2>1 DEF StageInv, RefusedInv, Stages, Single
    <2>4. QED
      BY <1>2, <1>4, <2>2, <2>3 DEF QInv
  <1>9. QED
    BY <1>6, <1>7, <1>8

LEMMA QInvStutter ==
  ASSUME QInv, UNCHANGED vars
  PROVE  QInv'
  <1>1. /\ UNCHANGED <<inFlight, kdc, stage, request, modreq, refusal, indicators>>
        /\ UNCHANGED <<replyKey, session, padata, profile>>
        /\ TheKdc' = TheKdc /\ TheRequest' = TheRequest
    BY DEF vars, fixedVars, requestVars, TheKdc, TheRequest
  <1>2. Answer' = Answer
    BY <1>1 DEF Answer
  <1>3. StageInv' /\ ConfigInv'
    BY <1>1 DEF QInv, StageInv, ConfigInv, Configured
  <1>4. VerifiedInv'
    BY <1>1 DEF QInv, VerifiedInv
  <1>5. SessionInv'
    BY <1>1, <1>2 DEF QInv, SessionInv, WantsKx
  <1>6. RefusedInv'
    BY <1>1 DEF QInv, RefusedInv
  <1>7. QED
    BY <1>3, <1>4, <1>5, <1>6 DEF QInv

\* What a request has left behind at each stage.
THEOREM RequestInvariance == Spec => []QInv
  <1>1. Init => QInv
    BY QInvInit
  <1>2. QInv /\ [Next]_vars => QInv'
    BY QInvStart, QInvIdle, QInvVerify, QInvReturnDh, QInvKx, QInvStutter DEF Next
  <1>3. QED
    BY <1>1, <1>2, PTL DEF Spec
-------------------------------------------------------------------------------
(* What follows from it *)

\* Whoever got anything was let through by verify.
LEMMA LetThrough ==
  ASSUME QInv, NEW k \in kdc, NEW r \in request, modreq # {}
  PROVE  /\ r \in Requests /\ RefusedWith(k, r) = "none"
         /\ modreq = {VerifiedRequest(r.body)} /\ kdc = {k} /\ request = {r}
  <1>1. Single(kdc) /\ Single(request) /\ request \subseteq Requests
    BY DEF QInv, StageInv
  <1>2. TheKdc = k /\ TheRequest = r /\ kdc = {k} /\ request = {r}
    BY <1>1 DEF Single, TheKdc, TheRequest
  <1>3. QED
    BY <1>1, <1>2 DEF QInv, VerifiedInv

\* The stages are consistent with what there is; nonces that were let through
\* fit an i32 and keys are of kinds the configuration accepts.
THEOREM RequestTypeCorrectness == Spec => []RequestTypeOK
  <1>1. QInv => RequestTypeOK
    <2> SUFFICES ASSUME QInv
                 PROVE  RequestTypeOK
      OBVIOUS
    <2>1. Cardinality({}) = 0 /\ \A x : Cardinality({x}) = 1
      BY FS_EmptySet, FS_Singleton
    <2>2. \A S : Single(S) => Cardinality(S) = 1 /\ S # {}
      BY <2>1 DEF Single
    <2>3. /\ stage \in Stages
          /\ IF stage \in {"down", "failed"} THEN kdc = {} ELSE Single(kdc)
          /\ IF stage \in {"down", "failed", "idle", "advertised"} THEN request = {}
             ELSE Single(request)
          /\ stage \in {"down", "failed", "idle", "advertised", "received"} => modreq = {}
          /\ stage \in {"verified", "keyed", "sent"} => modreq # {}
          /\ \A f \in refusal : f.code \in Refusals /\ f.edata \in BOOLEAN
      BY DEF QInv, StageInv
    <2>4. modreq # {} => modreq = {VerifiedRequest(TheRequest.body)}
      BY DEF QInv, VerifiedInv
    <2>5. modreq # {} => Cardinality(modreq) = 1
      BY <2>1, <2>4
    <2>6. /\ Cardinality(kdc) <= 1
          /\ (kdc = {}) <=> stage \in {"down", "failed"}
          /\ (request = {}) <=> stage \in {"down", "failed", "idle", "advertised"}
      <3>1. Cardinality(kdc) \in {0, 1}
        BY <2>1, <2>2, <2>3
      <3>2. QED
        BY <2>2, <2>3, <3>1
    <2>7. ASSUME NEW v \in modreq
          PROVE  /\ v.nonce \in Signed /\ v.anonymous \in BOOLEAN
                 /\ v.key.alg \in TheKdc.config.kems \cup TheKdc.config.groups
      <3>1. Single(kdc) /\ Single(request)
        BY <2>3, <2>7
      <3>2. TheKdc \in kdc /\ TheRequest \in request
        BY <3>1, TheOnly DEF TheKdc, TheRequest
      <3>3. TheRequest \in Requests /\ RefusedWith(TheKdc, TheRequest) = "none"
        BY <2>7, <3>2, LetThrough
      <3>4. v = VerifiedRequest(TheRequest.body)
        BY <2>4, <2>7
      <3>5. QED
        BY <3>3, <3>4, AdmittedTypeOK
    <2>8. stage \in {"keyed", "sent"} => Cardinality(replyKey) = 1 /\ padata # {}
      <3>1. stage = "keyed" => Single(replyKey) /\ padata # {}
        BY DEF QInv, SessionInv, Single
      <3>2. stage = "sent" => Single(replyKey) /\ padata # {}
        BY DEF QInv, SessionInv, Single
      <3>3. QED
        BY <2>2, <3>1, <3>2
    <2>9. QED
      BY <2>3, <2>5, <2>6, <2>7, <2>8 DEF RequestTypeOK
  <1>2. QED
    BY <1>1, RequestInvariance, PTL

\* return_padata makes a reply key only for the client the request names: one
\* whose trusted certificate says so, or, unsigned, the anonymous principal.
THEOREM KeysForTheNamed == Spec => []ReplyKeyOnlyForTheNamed
  <1>1. QInv => ReplyKeyOnlyForTheNamed
    <2> SUFFICES ASSUME QInv, NEW k \in kdc, NEW r \in request, replyKey # {}
                 PROVE  \/ SpeaksForItself(k, r)
                        \/ /\ r.body.signers = <<>> /\ r.client # {}
                           /\ r.client \subseteq Anonymous
      BY DEF ReplyKeyOnlyForTheNamed
    <2>1. modreq # {}
      BY DEF QInv, VerifiedInv
    <2>2. r \in Requests /\ RefusedWith(k, r) = "none"
      BY <2>1, LetThrough
    <2>3. QED
      BY <2>2, AdmittedIsNamed
  <1>2. QED
    BY <1>1, RequestInvariance, PTL

\* verify asserts indicators only for a client whose certificate names it, and
\* none is left where the request was refused.
THEOREM IndicatorsForTheSigned == Spec => []IndicatorsOnlyForSigned
  <1>1. QInv => IndicatorsOnlyForSigned
    <2> SUFFICES ASSUME QInv, NEW k \in kdc, NEW r \in request, indicators # {}
                 PROVE  SpeaksForItself(k, r)
      BY DEF IndicatorsOnlyForSigned
    <2>1. modreq # {} /\ ~IsAnonymous(TheRequest.body)
      BY DEF QInv, VerifiedInv
    <2>2. r \in Requests /\ RefusedWith(k, r) = "none" /\ request = {r}
      BY <2>1, LetThrough
    <2>3. TheRequest = r
      BY <2>2 DEF TheRequest
    <2>4. QED
      BY <2>1, <2>2, <2>3, AdmittedIsNamed
  <1>2. QED
    BY <1>1, RequestInvariance, PTL

\* return_pkinit_kx changes the ticket's session key only together with telling
\* the client how: both end up with the same one.
THEOREM SessionsAgree == Spec => []KxConveysTheSession
  <1>1. QInv => KxConveysTheSession
    <2> SUFFICES ASSUME QInv, NEW r \in request, stage = "sent"
                 PROVE  /\ session # {} /\ ClientSession = session
                        /\ (session = {Ticket}) <=> ~WantsKx(r)
      BY DEF KxConveysTheSession
    <2>1. TheRequest = r
      BY DEF QInv, StageInv, Single, TheRequest
    <2> DEFINE kx == {p \in padata : p.kind = "kx"}
               key == Answer.key
               rep == Answer.padata
               sent == Encrypted(key, Ticket)
    <2>2. rep.kind # "kx"
      BY RepliesAreNoKx DEF Answer
    <2>3. /\ replyKey = {key}
          /\ \/ ~WantsKx(r) /\ padata = {rep} /\ session = {Ticket}
             \/ /\ WantsKx(r)
                /\ padata = {rep, Encrypted(key, Ticket)}
                /\ session = {FxCf2(Ticket, key)}
      BY <2>1 DEF QInv, SessionInv
    <2> HIDE DEF key, rep
    <2>4. CASE ~WantsKx(r)
      <3>1. kx = {}
        BY <2>2, <2>3, <2>4
      <3>2. QED
        BY <2>3, <2>4, <3>1 DEF ClientSession
    <2>5. CASE WantsKx(r)
      <3>1. sent.kind = "kx" /\ sent.under = key /\ sent.content = Ticket
        BY DEF Encrypted
      <3>2. kx = {sent}
        <4> HIDE DEF sent
        <4>1. padata = {rep, sent} /\ rep.kind # "kx"
          BY <2>2, <2>3, <2>5 DEF sent
        <4>2. QED
          BY <3>1, <4>1
      <3>3. {q \in kx : q.under \in replyKey} = {sent}
        BY <2>3, <3>1, <3>2
      <3>4. ClientSession = {FxCf2(Ticket, key)}
        <4> HIDE DEF sent
        <4>1. ClientSession = {FxCf2(p.content, p.under) :
                                 p \in {q \in kx : q.under \in replyKey}}
          BY <3>2 DEF ClientSession
        <4>2. QED
          BY <3>1, <3>3, <4>1
      <3>5. FxCf2(Ticket, key) # Ticket
        BY TicketAssumption DEF FxCf2
      <3>6. QED
        BY <2>3, <2>5, <3>4, <3>5
    <2>6. QED
      BY <2>4, <2>5
  <1>2. QED
    BY <1>1, RequestInvariance, PTL
-------------------------------------------------------------------------------
(* Keys a KDC accepts *)

\* The group a client starts with is one the KDC accepts that has the same
\* pkinit_dh_min_bits, and no larger than it has to be.
THEOREM DefaultGroups == Spec => []DefaultGroupIsAccepted
  <1>1. QInv => DefaultGroupIsAccepted
    <2> DEFINE bits == AsU32(Get(profile, "pkinit_dh_min_bits", 2048))
               group == DhGroupFromMinBits(bits)
    <2> SUFFICES ASSUME QInv, NEW k \in kdc, ~k.config.requireKem, bits <= 4096
                 PROVE  /\ group \in k.config.groups
                        /\ group = "oakley4096" => "oakley2048" \notin k.config.groups
      BY DEF DefaultGroupIsAccepted
    <2>1. k.config.groups = GroupsAt(bits)
      <3>1. k.config = KdcConfig(profile)
        BY DEF QInv, ConfigInv, Configured
      <3>2. KdcConfig(profile).groups = GroupsAt(bits)
        BY DEF KdcConfig
      <3>3. QED
        BY <3>1, <3>2
    <2>2. bits \in Int
      <3>1. profile \in Profiles
        BY DEF QInv, ConfigInv
      <3>2. Get(profile, "pkinit_dh_min_bits", 2048) \in Int
        BY <3>1, ProfilesAssumption DEF Get
      <3>3. QED
        BY <3>2, ProfileAssumption DEF AsU32
    <2> HIDE DEF bits
    <2>3. DOMAIN GroupOrder = 1..5
      BY DEF GroupOrder
    <2>4. DOMAIN GroupBits = 1..5 /\ GroupBits[4] = 4096 /\ GroupBits[5] = 2048
      BY DEF GroupBits
    <2>5. /\ "P-256" \in GroupsAt(bits)
          /\ 4096 >= bits => "oakley4096" \in GroupsAt(bits)
          /\ 2048 >= bits => "oakley2048" \in GroupsAt(bits)
      BY <2>3, <2>4 DEF GroupsAt, Curves, GroupOrder
    <2>6. ~(2048 >= bits) => "oakley2048" \notin GroupsAt(bits)
      BY <2>2, <2>3, <2>4 DEF GroupsAt, Curves, GroupOrder
    <2>7. QED
      BY <2>1, <2>2, <2>5, <2>6 DEF DhGroupFromMinBits
  <1>2. QED
    BY <1>1, RequestInvariance, PTL

\* KeyAccepted is what verify_as_req asks of a key.
LEMMA KeyAcceptedMeans ==
  ASSUME NEW k, NEW key
  PROVE  KeyAccepted(k, key) <=> IF IsKem(key) THEN AcceptsKem(k.config, key)
                                 ELSE AcceptsGroup(k.config, key)
  BY DEF KeyAccepted, IsKem, AcceptsKem, AcceptsGroup

LEMMA SkewMeans ==
  ASSUME NEW t \in Int
  PROVE  Absolute(t - Now) > MaxSkew <=> t \notin (Now - MaxSkew)..(Now + MaxSkew)
  BY MessagesAssumption DEF Absolute

\* The AuthPack of a client of this code is refused for its key or not at all.
LEMMA OwnPack ==
  ASSUME NEW k, NEW cl, cl.nonce \in Signed,
         cl.clock \in Int, cl.clock \in (Now - MaxSkew)..(Now + MaxSkew),
         k.config.freshness => cl.token
  PROVE  IF KeyAccepted(k, OwnKey(cl)) THEN PackError(k.config, AuthPack(cl)) = "none"
         ELSE PackError(k.config, AuthPack(cl))
                \in {"KemAlgorithmNotSupported", "DhParamsRejected"}
  <1> DEFINE pack == AuthPack(cl)
             key == [decodes |-> TRUE, alg |-> cl.alg, params |-> FALSE,
                     usable |-> TRUE, key |-> PublicKey("client", cl.alg)]
             config == k.config
             table == <<
        <<Absolute(pack.ctime - Now) > MaxSkew, "ClockSkew">>,
        <<config.freshness /\ ~pack.freshness, "Config">>,
        <<pack.spki = {}, "DhParamsRejected">>,
        <<\E x \in pack.spki : ~x.decodes, "Asn1">>,
        <<\E x \in pack.spki : IsKem(x) /\ ~AcceptsKem(config, x),
          "KemAlgorithmNotSupported">>,
        <<(\E x \in pack.spki : IsKem(x)) /\ pack.dhNonce # {},
          "KemNonceNotAllowed">>,
        <<\E x \in pack.spki : ~IsKem(x) /\ ~AcceptsGroup(config, x),
          "DhParamsRejected">>,
        <<DecodeNonce(pack.nonce) = {}, "Asn1">> >>
  <1>1. /\ pack.parses = TRUE /\ pack.ctime = cl.clock /\ pack.freshness = cl.token
        /\ pack.spki = {key} /\ pack.nonce = EncodeNonce(cl.nonce)
        /\ cl.alg \in Kems => pack.dhNonce = {}
    BY DEF AuthPack
  <1>2. key.decodes = TRUE /\ key.alg = cl.alg /\ key.params = FALSE
    OBVIOUS
  <1>3. KeyAccepted(k, key) <=> KeyAccepted(k, OwnKey(cl))
    BY DEF KeyAccepted, OwnKey
  <1>4. IsKem(key) <=> cl.alg \in Kems
    BY DEF IsKem
  <1>5. DecodeNonce(pack.nonce) # {}
    BY <1>1, NonceRoundTrip
  <1>6. PackError(config, pack) = FirstFailure(table)
    BY <1>1 DEF PackError
  <1>7. /\ DOMAIN table = 1..8 /\ table[5][2] = "KemAlgorithmNotSupported"
        /\ table[7][2] = "DhParamsRejected"
    OBVIOUS
  <1> HIDE DEF pack, key
  <1>8. ~(Absolute(pack.ctime - Now) > MaxSkew)
    BY <1>1, SkewMeans
  <1>9. /\ ~table[1][1] /\ ~table[2][1] /\ ~table[3][1] /\ ~table[4][1]
        /\ ~table[6][1] /\ ~table[8][1]
    BY <1>1, <1>2, <1>4, <1>5, <1>8
  <1>10. table[5][1] \/ table[7][1] <=> ~KeyAccepted(k, OwnKey(cl))
    BY <1>1, <1>3, KeyAcceptedMeans
  <1> HIDE DEF table
  <1>11. \A i \in 1..8 : table[i][1] => i \in {5, 7}
    BY <1>9
  <1>12. \/ FirstFailure(table) = "none" /\ \A i \in 1..8 : ~table[i][1]
         \/ \E i \in 1..8 : table[i][1] /\ FirstFailure(table) = table[i][2]
    BY <1>7, TheFirstFailure
  <1>13. QED
    BY <1>6, <1>7, <1>10, <1>11, <1>12 DEF pack
-------------------------------------------------------------------------------
(* What this code signs *)

\* A message signed with the key of its certificate verifies, and its signer is
\* that certificate, whichever others come along.
LEMMA SignedVerifies ==
  ASSUME NEW id, NEW payload, NEW type, id.chain \in Seq(Certs),
         id.cert \notin Undecodable, KeyOf[id.cert] = id.key
  PROVE  LET m == Sign(id, payload, type) IN
         /\ Verifies(m) /\ SignerCert(m) = {id.cert}
         /\ m.type = type /\ m.content = {payload}
         /\ ~IsAnonymous(m)
         /\ ToSet(m.certs) = ToSet(id.chain) \cup {id.cert}
  <1> DEFINE m == Sign(id, payload, type)
             alg == DigestForSigner(id.cert)
             attrs == SignedAttrs(type, alg, payload)
             signer == [sid |-> IdOf[id.cert], digest |-> alg, attrs |-> {attrs},
                        signature |-> Signature(id.key, attrs)]
  <1>1. /\ m.outer = "signedData" /\ m.body = "SignedData" /\ m.type = type
        /\ m.content = {payload} /\ m.certs = <<id.cert>> \o id.chain
        /\ m.signers = <<signer>>
    BY DEF Sign, CreateSignedData
  <1>2. /\ signer.sid = IdOf[id.cert] /\ signer.digest = alg /\ signer.attrs = {attrs}
        /\ signer.signature = Signature(id.key, attrs)
    OBVIOUS
  <1> HIDE DEF m, signer
  <1>3. alg \in Digests
    BY DEF DigestForSigner, Digests
  <1>4. /\ FirstAttr(attrs, "messageDigest") = {DigestOf(alg, payload)}
        /\ FirstAttr(attrs, "contentType") = {type}
    <2>1. /\ DOMAIN attrs = 1..2
          /\ attrs[1].kind = "contentType" /\ attrs[1].value = type
          /\ attrs[2].kind = "messageDigest"
          /\ attrs[2].value = DigestOf(alg, payload)
      BY DEF SignedAttrs
    <2> HIDE DEF attrs
    <2>2. {j \in DOMAIN attrs : /\ attrs[j].kind = "messageDigest"
                               /\ \A h \in 1..(j - 1) :
                                    attrs[h].kind \notin {"messageDigest", "garbled"}}
            = {2}
      BY <2>1
    <2>3. {j \in DOMAIN attrs : /\ attrs[j].kind = "contentType"
                               /\ \A h \in 1..(j - 1) :
                                    attrs[h].kind \notin {"contentType", "garbled"}}
            = {1}
      BY <2>1
    <2>4. QED
      BY <2>1, <2>2, <2>3 DEF FirstAttr
  <1>5. /\ m.certs \in Seq(Certs \cup {id.cert}) /\ m.certs[1] = id.cert
        /\ Len(m.certs) = 1 + Len(id.chain)
        /\ \A i \in 2..(1 + Len(id.chain)) : m.certs[i] = id.chain[i - 1]
    BY <1>1
  <1>6. m.signers[1] = signer /\ m.signers # <<>>
    BY <1>1
  <1>7. SignerCert(m) = {id.cert}
    <2>1. Matches(m, 1)
      BY <1>2, <1>5, <1>6 DEF Matches
    <2>2. \A j \in DOMAIN m.certs : (\A h \in 1..(j - 1) : ~Matches(m, h)) => j = 1
      BY <1>5, <2>1
    <2>3. 1 \in DOMAIN m.certs /\ \A h \in 1..(1 - 1) : ~Matches(m, h)
      BY <1>5
    <2>4. {j \in DOMAIN m.certs :
             /\ Matches(m, j) /\ m.certs[j] \notin Undecodable
             /\ \A h \in 1..(j - 1) : ~Matches(m, h)} = {1}
      BY <1>5, <2>1, <2>2, <2>3
    <2>5. QED
      BY <1>5, <2>4 DEF SignerCert
  <1>8. Verifies(m)
    <2>1. AttrsBind(m, signer)
      BY <1>1, <1>2, <1>3, <1>4, <1>7 DEF AttrsBind
    <2>2. QED
      BY <1>1, <1>6, <1>7, <2>1 DEF Verifies
  <1>9. ~IsAnonymous(m)
    BY <1>1, <1>6 DEF IsAnonymous, IsUnsigned, IsBare
  <1>10. ToSet(m.certs) = ToSet(id.chain) \cup {id.cert}
    <2>1. DOMAIN m.certs = 1..(1 + Len(id.chain)) /\ DOMAIN id.chain = 1..Len(id.chain)
      BY <1>5
    <2>2. \A x \in ToSet(m.certs) : x \in ToSet(id.chain) \cup {id.cert}
      <3>1. ASSUME NEW i \in 1..(1 + Len(id.chain))
            PROVE  m.certs[i] \in ToSet(id.chain) \cup {id.cert}
        <4>1. CASE i = 1
          BY <1>5, <4>1
        <4>2. CASE i # 1
          <5>1. i \in 2..(1 + Len(id.chain)) /\ i - 1 \in DOMAIN id.chain
            BY <2>1, <4>2
          <5>2. QED
            BY <1>5, <5>1 DEF ToSet
        <4>3. QED
          BY <4>1, <4>2
      <3>2. QED
        BY <2>1, <3>1 DEF ToSet
    <2>3. id.cert \in ToSet(m.certs)
      BY <1>5, <2>1 DEF ToSet
    <2>4. ASSUME NEW j \in DOMAIN id.chain
          PROVE  id.chain[j] \in ToSet(m.certs)
      <3>1. j + 1 \in 2..(1 + Len(id.chain)) /\ (j + 1) - 1 = j
        BY <2>1
      <3>2. m.certs[j + 1] = id.chain[(j + 1) - 1]
        BY <1>5, <3>1
      <3>3. m.certs[j + 1] = id.chain[j] /\ j + 1 \in DOMAIN m.certs
        BY <2>1, <3>1, <3>2
      <3>4. QED
        BY <3>3 DEF ToSet
    <2>5. QED
      BY <2>2, <2>3, <2>4 DEF ToSet
  <1>11. QED
    BY <1>1, <1>7, <1>8, <1>9, <1>10 DEF m

\* A client of this code that fits the KDC is opened and authorized.
LEMMA OwnRequestOpens ==
  ASSUME NEW k, NEW r \in Requests, NEW cl \in r.from,
         FitsButForItsKey(k, r, cl), Checkable(k, r.body)
  PROVE  /\ OpenError(k, r.body) = "none" /\ r.body.content = {AuthPack(cl)}
         /\ AuthorizeError(k, r, VerifiedRequest(r.body)) = "none"
  <1> DEFINE m == r.body
             v == VerifiedRequest(m)
  <1>1. BuiltBy(cl, r) /\ m = BuildAsReq(cl)
    BY RequestsAssumption DEF BuiltBy
  <1>2. r.client # {}
    BY <1>1 DEF BuiltBy
  <1>3. v.anonymous = IsAnonymous(m) /\ v.cert = IF IsAnonymous(m) THEN {} ELSE SignerCert(m)
    BY DEF VerifiedRequest
  <1>4. CASE cl.identity = {}
    <2>1. m = CreateUnsignedData(AuthPack(cl), "authData")
      BY <1>1, <1>4 DEF BuildAsReq
    <2>2. /\ m.outer = "signedData" /\ m.body = "SignedData" /\ m.type = "authData"
          /\ m.content = {AuthPack(cl)} /\ m.signers = <<>>
      BY <2>1 DEF CreateUnsignedData
    <2>3. IsAnonymous(m) /\ TypeOf(m) = "authData"
      BY <2>2 DEF IsAnonymous, IsUnsigned, TypeOf
    <2>4. OpenError(k, m) = "none"
      BY <2>3 DEF OpenError
    <2>5. r.client \subseteq Anonymous
      BY <1>4 DEF FitsButForItsKey
    <2>6. AuthorizeError(k, r, v) = "none"
      BY <1>2, <1>3, <2>3, <2>5 DEF AuthorizeError
    <2>7. QED
      BY <2>2, <2>4, <2>6
  <1>5. CASE cl.identity # {}
    <2>1. PICK id \in cl.identity :
            /\ KeyOf[id.cert] = id.key /\ VouchedFor(k, m, id.cert)
            /\ \A name \in r.client : MayActFor(k, id.cert, name)
            /\ SaysOf[id.cert].broken = {} /\ MaySign(SaysOf[id.cert])
      BY <1>5 DEF FitsButForItsKey
    <2>2. cl.identity = {id} /\ id.chain \in Seq(Certs)
      BY <1>1 DEF BuiltBy
    <2>3. m = Sign(id, AuthPack(cl), "authData")
      BY <1>1, <1>5, <2>2 DEF BuildAsReq
    <2>4. id.cert \in ToSet(m.certs)
      <3>1. m.certs = <<id.cert>> \o id.chain
        BY <2>3 DEF Sign, CreateSignedData
      <3>2. 1 \in DOMAIN m.certs /\ m.certs[1] = id.cert
        BY <2>2, <3>1
      <3>3. QED
        BY <3>2 DEF ToSet
    <2>5. (k.store.anchors \cup ToSet(m.certs)) \cap Undecodable = {}
          /\ (k.config.requireCrl => k.store.crls # {})
      BY DEF Checkable
    <2>6. id.cert \notin Undecodable
      BY <2>4, <2>5
    <2>7. /\ Verifies(m) /\ SignerCert(m) = {id.cert} /\ m.type = "authData"
          /\ m.content = {AuthPack(cl)} /\ ~IsAnonymous(m)
      BY <2>1, <2>2, <2>3, <2>6, SignedVerifies
    <2>8. Trusts(k, m)
      <3>1. LeadsTo(id.cert, ToSet(m.certs), k.store.anchors, IssuerOf,
                    IF k.config.requireCrl THEN Revoked ELSE {})
        BY <2>1 DEF VouchedFor
      <3>2. ValidatesChain(k.store, id.cert, m.certs, k.config.requireCrl, IssuerOf,
                           Revoked, Undecodable)
        BY <2>5, <2>6, <3>1 DEF ValidatesChain
      <3>3. QED
        BY <2>7, <3>2 DEF Trusts
    <2>9. EkuVerdicts(k, m) \subseteq {"Authorized"}
      <3>1. CASE ~k.config.requireEku
        BY <3>1 DEF EkuVerdicts
      <3>2. CASE k.config.requireEku
        <4>1. \/ "KPClientAuth" \in SaysOf[id.cert].ekus
              \/ k.config.secondaryEku /\ "MsScLogon" \in SaysOf[id.cert].ekus
          BY <2>1, <3>2 DEF VouchedFor
        <4>2. VerifyClientEku(SaysOf[id.cert], k.config.secondaryEku) = "Authorized"
          BY <2>1, <4>1 DEF VerifyClientEku
        <4>3. QED
          BY <2>7, <3>2, <4>2 DEF EkuVerdicts
      <3>3. QED
        BY <3>1, <3>2
    <2>10. OpenError(k, m) = "none"
      <3> DEFINE table == <<
            <<~Verifies(m), VerifyError(m)>>,
            <<m.type # "authData", "CmsContentTypeMismatch">>,
            <<~Trusts(k, m), "ChainValidationFailed">>,
            <<"Error" \in EkuVerdicts(k, m), "Asn1">>,
            <<"Rejected" \in EkuVerdicts(k, m), "EkuMismatch">> >>
      <3>1. OpenError(k, m) = FirstFailure(table)
        BY <2>7 DEF OpenError
      <3>2. DOMAIN table = 1..5
        OBVIOUS
      <3>3. /\ ~table[1][1] /\ ~table[2][1] /\ ~table[3][1] /\ ~table[4][1]
            /\ ~table[5][1]
        BY <2>7, <2>8, <2>9
      <3> HIDE DEF table
      <3>4. \A i \in 1..5 : ~table[i][1]
        BY <3>3
      <3>5. QED
        BY <3>1, <3>2, <3>4, TheFirstFailure
    <2>11. AuthorizeError(k, r, v) = "none"
      <3>1. v.cert = {id.cert} /\ ~v.anonymous
        BY <1>3, <2>7
      <3>2. ASSUME NEW name \in r.client
            PROVE  VerifyClientSan(SaysOf[id.cert], name, k.config.allowUpn) = "Authorized"
        BY <2>1 DEF MayActFor, VerifyClientSan, ClientSanMatches, NamedIn
      <3>3. QED
        BY <1>2, <3>1, <3>2 DEF AuthorizeError
    <2>12. QED
      BY <2>7, <2>10, <2>11
  <1>6. QED
    BY <1>4, <1>5

\* ... and then refused for its key, or not at all.
LEMMA OwnRequestIsJudgedByItsKey ==
  ASSUME NEW k, NEW r \in Requests, NEW cl \in r.from,
         FitsButForItsKey(k, r, cl), Checkable(k, r.body)
  PROVE  RefusedWith(k, r) = IF KeyAccepted(k, OwnKey(cl)) THEN "none"
                             ELSE "EPHEMERAL_KEY_PARAMS"
  <1> DEFINE error == PackError(k.config, AuthPack(cl))
  <1>1. /\ OpenError(k, r.body) = "none" /\ r.body.content = {AuthPack(cl)}
        /\ AuthorizeError(k, r, VerifiedRequest(r.body)) = "none"
    BY OwnRequestOpens
  <1>2. /\ r.parses /\ ~r.empty /\ cl.nonce \in Signed /\ cl.clock \in Int
    BY RequestsAssumption DEF BuiltBy
  <1>3. IF KeyAccepted(k, OwnKey(cl)) THEN error = "none"
        ELSE error \in {"KemAlgorithmNotSupported", "DhParamsRejected"}
    BY <1>2, OwnPack DEF FitsButForItsKey
  <1>4. {PackError(k.config, p) : p \in r.body.content} = {error}
    BY <1>1
  <1>5. VerifyAsReqError(k, r) = error
    BY <1>1, <1>2, <1>4 DEF VerifyAsReqError
  <1>6. QED
    BY <1>1, <1>2, <1>3, <1>5 DEF RefusedWith, CodeOf

\* What verify_as_req makes of it.
LEMMA OwnVerifiedRequest ==
  ASSUME NEW m, NEW cl, m.content = {AuthPack(cl)}, cl.nonce \in Signed
  PROVE  LET v == VerifiedRequest(m) IN
         /\ v.key.usable = TRUE /\ v.key.alg = cl.alg
         /\ v.key.key = PublicKey("client", cl.alg) /\ v.nonce = cl.nonce
         /\ v.kdfs = AuthPack(cl).kdfs /\ v.dhNonce = AuthPack(cl).dhNonce
  <1> DEFINE v == VerifiedRequest(m)
             pack == AuthPack(cl)
             key == [decodes |-> TRUE, alg |-> cl.alg, params |-> FALSE,
                     usable |-> TRUE, key |-> PublicKey("client", cl.alg)]
  <1>1. pack.spki = {key} /\ pack.nonce = EncodeNonce(cl.nonce)
    BY DEF AuthPack
  <1>2. /\ key.usable = TRUE /\ key.alg = cl.alg
        /\ key.key = PublicKey("client", cl.alg)
    OBVIOUS
  <1> HIDE DEF pack, key
  <1>3. (CHOOSE p \in m.content : TRUE) = pack
    BY DEF pack
  <1>4. DecodeNonce(pack.nonce) = {cl.nonce}
    BY <1>1, NonceRoundTrip
  <1>5. /\ v.key = key /\ v.nonce = cl.nonce /\ v.kdfs = pack.kdfs
        /\ v.dhNonce = pack.dhNonce
    BY <1>1, <1>3, <1>4 DEF VerifiedRequest
  <1>6. QED
    BY <1>2, <1>5 DEF pack

\* A client of this code that fits the KDC is never turned away before it has
\* its reply key.
THEOREM FittingClientsServed == Spec => []FittingClientsAreServed
  <1>1. QInv => FittingClientsAreServed
    <2> SUFFICES ASSUME QInv, NEW k \in kdc, NEW r \in request, NEW cl \in r.from,
                        Fits(k, r, cl), Checkable(k, r.body), stage = "refused",
                        replyKey = {}
                 PROVE  FALSE
      BY DEF FittingClientsAreServed
    <2>1. TheKdc = k /\ TheRequest = r /\ r \in Requests
      BY DEF QInv, StageInv, Single, TheKdc, TheRequest
    <2>2. /\ FitsButForItsKey(k, r, cl) /\ KeyAccepted(k, OwnKey(cl))
          /\ k.identity.cert \notin Undecodable
      BY DEF Fits
    <2>3. RefusedWith(k, r) = "none"
      BY <2>1, <2>2, OwnRequestIsJudgedByItsKey
    <2>4. BuildAsRepFails(k, VerifiedRequest(r.body))
      BY <2>1, <2>3 DEF QInv, RefusedInv
    <2>5. r.body.content = {AuthPack(cl)} /\ cl.nonce \in Signed
      BY <2>1, <2>2, OwnRequestOpens, RequestsAssumption DEF BuiltBy
    <2> DEFINE v == VerifiedRequest(r.body)
    <2>6. /\ v.key.usable = TRUE /\ v.kdfs = AuthPack(cl).kdfs
          /\ v.key.alg = cl.alg
      BY <2>5, OwnVerifiedRequest
    <2>7. IsKem(v.key) => "hkdf" \in v.kdfs
      BY <2>6 DEF IsKem, AuthPack
    <2>8. CanSign(k.identity.cert, DigestForSigner(k.identity.cert))
      BY <2>2 DEF CanSign, DigestForSigner, Digests
    <2>9. QED
      BY <2>4, <2>6, <2>7, <2>8 DEF BuildAsRepFails
  <1>2. QED
    BY <1>1, RequestInvariance, PTL

\* Where the key is what is wrong with an AuthPack, nothing else is.
LEMMA KeyErrorMeans ==
  ASSUME NEW k, NEW pack, pack.ctime \in Int,
         PackError(k.config, pack) \in {"KemAlgorithmNotSupported", "DhParamsRejected"}
  PROVE  /\ pack.parses
         /\ pack.ctime \in (Now - MaxSkew)..(Now + MaxSkew)
         /\ k.config.freshness => pack.freshness
         /\ pack.spki = {} \/ \E key \in pack.spki : ~KeyAccepted(k, key)
  <1> DEFINE config == k.config
             table == <<
        <<Absolute(pack.ctime - Now) > MaxSkew, "ClockSkew">>,
        <<config.freshness /\ ~pack.freshness, "Config">>,
        <<pack.spki = {}, "DhParamsRejected">>,
        <<\E x \in pack.spki : ~x.decodes, "Asn1">>,
        <<\E x \in pack.spki : IsKem(x) /\ ~AcceptsKem(config, x),
          "KemAlgorithmNotSupported">>,
        <<(\E x \in pack.spki : IsKem(x)) /\ pack.dhNonce # {},
          "KemNonceNotAllowed">>,
        <<\E x \in pack.spki : ~IsKem(x) /\ ~AcceptsGroup(config, x),
          "DhParamsRejected">>,
        <<DecodeNonce(pack.nonce) = {}, "Asn1">> >>
  <1>1. pack.parses /\ PackError(config, pack) = FirstFailure(table)
    BY DEF PackError
  <1>2. /\ DOMAIN table = 1..8
        /\ \A i \in {1, 2, 4, 6, 8} :
             table[i][2] \notin {"KemAlgorithmNotSupported", "DhParamsRejected"}
    OBVIOUS
  <1>3. /\ table[1][1] <=> Absolute(pack.ctime - Now) > MaxSkew
        /\ table[2][1] <=> config.freshness /\ ~pack.freshness
    OBVIOUS
  <1>4. table[3][1] \/ table[5][1] \/ table[7][1] =>
          pack.spki = {} \/ \E key \in pack.spki : ~KeyAccepted(k, key)
    BY KeyAcceptedMeans
  <1> HIDE DEF table
  <1>5. PICK i \in 1..8 : /\ table[i][1] /\ FirstFailure(table) = table[i][2]
                         /\ \A j \in 1..(i - 1) : ~table[j][1]
    BY <1>1, <1>2, TheFirstFailure
  <1>6. i \in {3, 5, 7}
    BY <1>1, <1>2, <1>5
  <1>7. ~table[1][1] /\ ~table[2][1]
    BY <1>5, <1>6
  <1>8. pack.ctime \in (Now - MaxSkew)..(Now + MaxSkew)
    BY <1>3, <1>7, SkewMeans
  <1>9. QED
    BY <1>1, <1>3, <1>4, <1>5, <1>6, <1>7, <1>8

\* verify answers with typed data only where everything but the key is in order.
LEMMA TypedDataMeans ==
  ASSUME NEW k, NEW r \in Requests, RefusedWith(k, r) = "EPHEMERAL_KEY_PARAMS"
  PROVE  LET keys == UNION {pack.spki : pack \in {p \in r.body.content : p.parses}} IN
         InOrder(k, r) /\ {key \in keys : KeyAccepted(k, key)} = {}
  <1>1. /\ ~r.empty
        /\ VerifyAsReqError(k, r) \in {"KemAlgorithmNotSupported", "DhParamsRejected"}
    BY DEF RefusedWith, CodeOf, AuthorizeError
  <1>2. r.parses /\ OpenError(k, r.body) = "none"
    BY <1>1, OpenErrors DEF VerifyAsReqError
  <1>3. PICK pack \in r.body.content : TRUE
    BY <1>2, OpenedHasContent
  <1>4. /\ r.body.content = {pack} /\ pack.ctime \in Int
        /\ \A x, y \in pack.spki : x = y
    BY RequestsAssumption DEF WellFormed
  <1>5. {PackError(k.config, p) : p \in r.body.content} = {PackError(k.config, pack)}
    BY <1>4
  <1>6. PackError(k.config, pack) \in {"KemAlgorithmNotSupported", "DhParamsRejected"}
    BY <1>1, <1>2, <1>5 DEF VerifyAsReqError
  <1>7. /\ pack.parses
        /\ pack.ctime \in (Now - MaxSkew)..(Now + MaxSkew)
        /\ k.config.freshness => pack.freshness
        /\ pack.spki = {} \/ \E key \in pack.spki : ~KeyAccepted(k, key)
    BY <1>4, <1>6, KeyErrorMeans
  <1>8. r.body.signers = <<>> \/ \E cert \in Certs : VouchedFor(k, r.body, cert)
    <2>1. CASE IsAnonymous(r.body)
      BY <2>1, RequestsAssumption DEF IsAnonymous, IsUnsigned, IsBare, WellFormed
    <2>2. CASE ~IsAnonymous(r.body)
      BY <1>2, <2>2, OpenedMeansVouchedFor
    <2>3. QED
      BY <2>1, <2>2
  <1>9. InOrder(k, r)
    BY <1>1, <1>2, <1>4, <1>7, <1>8 DEF InOrder
  <1>10. \A key \in pack.spki : ~KeyAccepted(k, key)
    BY <1>4, <1>7
  <1>11. {p \in r.body.content : p.parses} = {pack}
    BY <1>4, <1>7
  <1>12. QED
    BY <1>9, <1>10, <1>11

\* The typed data that make a client try another key go to clients with nothing
\* but their key to blame, and to every one of this code with that fault.
THEOREM KeyRefusals == Spec => []OnlyTheKeyIsRefused
  <1>1. QInv => OnlyTheKeyIsRefused
    <2> SUFFICES ASSUME QInv, NEW k \in kdc, NEW r \in request, NEW f \in refusal
                 PROVE  LET keys == UNION {pack.spki : pack \in
                                            {p \in r.body.content : p.parses}}
                            accepted == {key \in keys : KeyAccepted(k, key)} IN
                        /\ f.edata => InOrder(k, r) /\ accepted = {}
                        /\ \A cl \in r.from :
                             /\ FitsButForItsKey(k, r, cl) /\ Checkable(k, r.body)
                             /\ ~KeyAccepted(k, OwnKey(cl))
                             => f.edata
      BY DEF OnlyTheKeyIsRefused
    <2> DEFINE code == RefusedWith(k, r)
    <2>1. TheKdc = k /\ TheRequest = r /\ r \in Requests
      BY DEF QInv, StageInv, Single, TheKdc, TheRequest
    <2>2. stage = "refused"
      BY DEF QInv, StageInv, RefusedInv
    <2>3. \/ code # "none" /\ f = Refusal(code)
          \/ code = "none" /\ ~f.edata
      BY <2>1, <2>2 DEF QInv, RefusedInv
    <2>4. f.edata <=> code = "EPHEMERAL_KEY_PARAMS"
      <3>1. \A c : Refusal(c).edata <=> c = "EPHEMERAL_KEY_PARAMS"
        BY Zenon DEF Refusal
      <3>2. QED
        BY <2>3, <3>1
    <2>5. ASSUME f.edata
          PROVE  LET keys == UNION {pack.spki : pack \in
                                     {p \in r.body.content : p.parses}} IN
                 InOrder(k, r) /\ {key \in keys : KeyAccepted(k, key)} = {}
      BY <2>1, <2>4, <2>5, TypedDataMeans
    <2>6. ASSUME NEW cl \in r.from, FitsButForItsKey(k, r, cl),
                 Checkable(k, r.body), ~KeyAccepted(k, OwnKey(cl))
          PROVE  f.edata
      BY <2>1, <2>4, <2>6, OwnRequestIsJudgedByItsKey
    <2>7. QED
      BY <2>5, <2>6
  <1>2. QED
    BY <1>1, RequestInvariance, PTL
-------------------------------------------------------------------------------
(* The way back *)

\* A client of this code has one AuthPack in its request.
LEMMA OwnContent ==
  ASSUME NEW r \in Requests, NEW cl \in r.from
  PROVE  r.body.content = {AuthPack(cl)} /\ BuiltBy(cl, r)
  <1>1. BuiltBy(cl, r) /\ r.body = BuildAsReq(cl)
    BY RequestsAssumption DEF BuiltBy
  <1>2. QED
    BY <1>1 DEF BuildAsReq, CreateUnsignedData, Sign, CreateSignedData

\* The client accepts what a KDC signs whose certificate satisfies it.
LEMMA SignerAccepted ==
  ASSUME NEW k, NEW cl, NEW payload, NEW type, TrustedBy(k, cl),
         k.identity.chain \in Seq(Certs), k.identity.cert \notin Undecodable
  PROVE  LET m == Sign(k.identity, payload, type) IN
         /\ Verifies(m) /\ m.type = type /\ m.content = {payload}
         /\ SignerCert(m) = {k.identity.cert} /\ AcceptsSigner(cl, m)
  <1> DEFINE id == k.identity
             m == Sign(id, payload, type)
  <1>1. /\ KeyOf[id.cert] = id.key
        /\ (ToSet(id.chain) \cup cl.store.anchors) \cap Undecodable = {}
        /\ LeadsTo(id.cert, ToSet(id.chain), cl.store.anchors, IssuerOf, {})
        /\ SaysOf[id.cert].broken = {} /\ MaySign(SaysOf[id.cert])
        /\ SaysOf[id.cert].ekus \cap {"KPKdc", "ServerAuth"} # {}
        /\ cl.kdc \subseteq SaysOf[id.cert].pkinit
    BY DEF TrustedBy
  <1>2. /\ Verifies(m) /\ SignerCert(m) = {id.cert} /\ m.type = type
        /\ m.content = {payload} /\ ToSet(m.certs) = ToSet(id.chain) \cup {id.cert}
    BY <1>1, SignedVerifies
  <1> HIDE DEF m
  <1>3. ValidatesChain(cl.store, id.cert, m.certs, FALSE, IssuerOf, Revoked, Undecodable)
    <2>1. LeadsTo(id.cert, ToSet(m.certs), cl.store.anchors, IssuerOf, {})
      <3>1. /\ ToSet(m.certs) \cup {id.cert} = ToSet(id.chain) \cup {id.cert}
            /\ ToSet(m.certs) \cup cl.store.anchors \cup {id.cert}
                 = ToSet(id.chain) \cup cl.store.anchors \cup {id.cert}
        BY <1>2
      <3>2. QED
        BY <1>1, <3>1 DEF LeadsTo
    <2>2. (cl.store.anchors \cup ToSet(m.certs) \cup {id.cert}) \cap Undecodable = {}
      BY <1>1, <1>2
    <2>3. QED
      BY <2>1, <2>2 DEF ValidatesChain
  <1>4. VerifyKdcEku(SaysOf[id.cert]) = "Authorized"
    BY <1>1 DEF VerifyKdcEku
  <1>5. \A p \in cl.kdc : VerifyKdcSan(SaysOf[id.cert], p, cl.hostname) = "Authorized"
    BY <1>1 DEF VerifyKdcSan
  <1>6. AcceptsSigner(cl, m)
    BY <1>2, <1>3, <1>4, <1>5 DEF AcceptsSigner
  <1>7. QED
    BY <1>2, <1>6 DEF m

\* The client derives from a reply the key the KDC derived.
Reads(cl, rep, asReq, server) ==
  ProcessAsRep(cl, rep.padata, rep.key.enctype, asReq, server) = {rep.key}

\* It does on the KEM path ...
LEMMA KemReplyIsRead ==
  ASSUME NEW k, NEW cl, NEW e, NEW asReq, NEW v, NEW server, TrustedBy(k, cl),
         k.identity.chain \in Seq(Certs), k.identity.cert \notin Undecodable,
         cl.nonce \in Signed, cl.alg \in Kems,
         v.key.alg = cl.alg, v.key.key = PublicKey("client", cl.alg), v.nonce = cl.nonce
  PROVE  Reads(cl, BuildKemRep(k, v, e, asReq), asReq, server)
  <1> DEFINE ct == PublicKey("kdc", v.key.alg)
             info == [alg |-> v.key.alg, ct |-> ct, kdf |-> "hkdf",
                      nonce |-> EncodeNonce(v.nonce)]
             signed == Sign(k.identity, info, "kemKeyData")
             padata_ == [kind |-> "kemInfo", signed |-> signed]
             key == PkinitKemKdf(KemSecret(v.key.key, ct), e, asReq, signed)
             rep == BuildKemRep(k, v, e, asReq)
  <1>1. rep.padata = padata_ /\ rep.key = key
    BY DEF BuildKemRep
  <1>2. /\ info.alg = cl.alg /\ info.ct = ct /\ info.kdf = "hkdf"
        /\ info.nonce = EncodeNonce(cl.nonce)
    OBVIOUS
  <1>3. padata_.kind = "kemInfo" /\ padata_.signed = signed
    OBVIOUS
  <1>4. key.enctype = e
    BY DEF PkinitKemKdf
  <1>5. /\ Verifies(signed) /\ signed.type = "kemKeyData" /\ signed.content = {info}
        /\ SignerCert(signed) = {k.identity.cert} /\ AcceptsSigner(cl, signed)
    BY SignerAccepted
  <1>6. DecodeNonce(info.nonce) = {cl.nonce}
    BY <1>2, NonceRoundTrip
  <1>7. (\E mine \in cl.identity : mine.cert \in PqCerts)
          => SignerCert(signed) \subseteq PqCerts
    BY <1>5 DEF TrustedBy
  <1> HIDE DEF info, signed, padata_, ct
  <1>8. {i \in signed.content :
           /\ Verifies(signed) /\ signed.type = "kemKeyData"
           /\ (\E mine \in cl.identity : mine.cert \in PqCerts)
                => SignerCert(signed) \subseteq PqCerts
           /\ AcceptsSigner(cl, signed)
           /\ DecodeNonce(i.nonce) = {cl.nonce}
           /\ i.alg = cl.alg /\ i.kdf = "hkdf"} = {info}
    BY <1>2, <1>5, <1>6, <1>7
  <1>9. ProcessKemRep(cl, padata_, e, asReq) = {key}
    BY <1>2, <1>3, <1>8, ZenonT(30) DEF ProcessKemRep
  <1>10. ProcessAsRep(cl, padata_, e, asReq, server) = {key}
    BY <1>3, <1>9 DEF ProcessAsRep
  <1>11. QED
    BY <1>1, <1>4, <1>10 DEF Reads

\* ... and on the Diffie-Hellman path, each end with its own spelling of the name.
LEMMA DhReplyIsRead ==
  ASSUME NEW k, NEW cl, NEW e, NEW asReq, NEW v, NEW name, NEW server,
         TrustedBy(k, cl),
         k.identity.chain \in Seq(Certs), k.identity.cert \notin Undecodable,
         cl.nonce \in Signed, cl.alg \notin Kems,
         v.key.alg = cl.alg, v.key.key = PublicKey("client", cl.alg), v.nonce = cl.nonce,
         v.dhNonce = {cl.dhNonce}, PartyInfo(name) = PartyInfo(cl.name)
  PROVE  Reads(cl, BuildDhRep(k, v, e, asReq, name, server), asReq, server)
  <1> DEFINE mine == PublicKey("kdc", v.key.alg)
             info == [key |-> mine, nonce |-> EncodeNonce(v.nonce)]
             signed == Sign(k.identity, info, "dhKeyData")
             padata_ == [kind |-> "dhInfo", kdf |-> PickKdf(v.kdfs),
                         serverNonce |-> {ServerNonce}, signed |-> signed]
             Key(client) ==
               DhReplyKey(PickKdf(v.kdfs), DhSecret(cl.alg, PublicKey("client", cl.alg), mine),
                          cl.dhNonce, ServerNonce, e, client, server, asReq, padata_)
             rep == BuildDhRep(k, v, e, asReq, name, server)
  <1>1. OrEmpty(v.dhNonce) = cl.dhNonce /\ OrEmpty({ServerNonce}) = ServerNonce
    BY DEF OrEmpty
  <1>2. rep.padata = padata_ /\ rep.key = Key(name)
    BY <1>1 DEF BuildDhRep
  <1>3. info.key = mine /\ info.nonce = EncodeNonce(cl.nonce)
    OBVIOUS
  <1>4. /\ padata_.kind = "dhInfo" /\ padata_.kdf = PickKdf(v.kdfs)
        /\ padata_.serverNonce = {ServerNonce} /\ padata_.signed = signed
    OBVIOUS
  <1>5. Key(name).enctype = e /\ Key(name) = Key(cl.name)
    BY DEF DhReplyKey, OctetString2Key, PkinitKdf
  <1> HIDE DEF info, mine
  <1>6. /\ Verifies(signed) /\ signed.type = "dhKeyData" /\ signed.content = {info}
        /\ SignerCert(signed) = {k.identity.cert} /\ AcceptsSigner(cl, signed)
    BY SignerAccepted
  <1>7. DecodeNonce(info.nonce) = {cl.nonce}
    BY <1>3, NonceRoundTrip
  <1> HIDE DEF signed, padata_
  <1>8. {i \in signed.content :
           /\ Verifies(signed) /\ signed.type = "dhKeyData"
           /\ AcceptsSigner(cl, signed)
           /\ DecodeNonce(i.nonce) = {cl.nonce}} = {info}
    BY <1>6, <1>7
  <1>9. ProcessDhRep(cl, padata_, e, asReq, server) = {Key(cl.name)}
    <2>1. OrEmpty(padata_.serverNonce) = ServerNonce
      BY <1>1, <1>4
    <2>2. {i \in padata_.signed.content :
             /\ Verifies(padata_.signed) /\ padata_.signed.type = "dhKeyData"
             /\ AcceptsSigner(cl, padata_.signed)
             /\ DecodeNonce(i.nonce) = {cl.nonce}} = {info}
      BY <1>4, <1>8
    <2>3. ProcessDhRep(cl, padata_, e, asReq, server) =
            {DhReplyKey(padata_.kdf, DhSecret(cl.alg, PublicKey("client", cl.alg), i.key),
                        cl.dhNonce, OrEmpty(padata_.serverNonce), e, cl.name, server,
                        asReq, padata_) : i \in {info}}
      BY <2>2 DEF ProcessDhRep
    <2>4. QED
      BY <1>3, <1>4, <2>1, <2>3
  <1>10. ProcessAsRep(cl, padata_, e, asReq, server) = {Key(cl.name)}
    BY <1>4, <1>9 DEF ProcessAsRep
  <1>11. QED
    BY <1>2, <1>5, <1>10 DEF Reads

\* The reply of a KDC whose certificate satisfies this code's client is one it
\* accepts, and both derive the same reply key.
THEOREM RepliesReachTheClient == Spec => []ReplyReachesTheClient
  <1>1. QInv => ReplyReachesTheClient
    <2> SUFFICES ASSUME QInv, NEW k \in kdc, NEW r \in request, NEW key \in replyKey,
                        NEW cl \in r.from, stage = "sent", TrustedBy(k, cl)
                 PROVE  ProcessAsRep(cl, TheReply, key.enctype, r.body, r.server) = {key}
      BY DEF ReplyReachesTheClient
    <2> DEFINE v == VerifiedRequest(r.body)
               e == EnctypeFor(r)
               name == CHOOSE n \in r.client : TRUE
    <2>1. TheKdc = k /\ TheRequest = r /\ r \in Requests
      BY DEF QInv, StageInv, Single, TheKdc, TheRequest
    <2>2. Answer = BuildAsRep(k, v, e, r.body, name, r.server) /\ key = Answer.key
      BY <2>1 DEF Answer, QInv, SessionInv
    <2>3. TheReply = Answer.padata
      <3>1. Answer.padata.kind # "kx"
        BY <2>2, RepliesAreNoKx
      <3>2. \A rep \in padata : rep.kind # "kx" <=> rep = Answer.padata
        <4>1. \A x, y : Encrypted(x, y).kind = "kx"
          BY DEF Encrypted
        <4>2. padata = {Answer.padata}
                \/ padata = {Answer.padata, Encrypted(Answer.key, Ticket)}
          BY DEF QInv, SessionInv
        <4>3. QED
          BY <3>1, <4>1, <4>2
      <3>3. Answer.padata \in padata
        BY DEF QInv, SessionInv
      <3>4. QED
        BY <3>2, <3>3 DEF TheReply
    <2>4. k.identity.chain \in Seq(Certs) /\ k.identity.cert \notin Undecodable
      <3>1. k.identity.chain \in Seq(Certs)
        BY DEF QInv, ConfigInv, Configured
      <3>2. ~BuildAsRepFails(k, v)
        BY <2>1 DEF QInv, SessionInv
      <3>3. QED
        BY <3>1, <3>2 DEF BuildAsRepFails, CanSign
    <2>5. r.body.content = {AuthPack(cl)} /\ BuiltBy(cl, r)
      BY <2>1, OwnContent
    <2>6. cl.nonce \in Signed /\ PartyInfo(name) = PartyInfo(cl.name)
      BY <2>5 DEF BuiltBy, PartyInfo
    <2>7. /\ v.key.alg = cl.alg /\ v.key.key = PublicKey("client", cl.alg)
          /\ v.nonce = cl.nonce /\ v.dhNonce = AuthPack(cl).dhNonce
      BY <2>5, <2>6, OwnVerifiedRequest
    <2>8. cl.alg \notin Kems => v.dhNonce = {cl.dhNonce}
      BY <2>7 DEF AuthPack
    <2> HIDE DEF v, e, name
    <2>9. CASE cl.alg \in Kems
      <3>1. Answer = BuildKemRep(k, v, e, r.body)
        BY <2>2, <2>7, <2>9 DEF BuildAsRep, IsKem
      <3>2. Reads(cl, BuildKemRep(k, v, e, r.body), r.body, r.server)
        BY <2>4, <2>6, <2>7, <2>9, KemReplyIsRead
      <3>3. QED
        BY <2>2, <2>3, <3>1, <3>2 DEF Reads
    <2>10. CASE cl.alg \notin Kems
      <3>1. Answer = BuildDhRep(k, v, e, r.body, name, r.server)
        BY <2>2, <2>7, <2>10 DEF BuildAsRep, IsKem
      <3>2. Reads(cl, BuildDhRep(k, v, e, r.body, name, r.server), r.body, r.server)
        BY <2>4, <2>6, <2>7, <2>8, <2>10, DhReplyIsRead
      <3>3. QED
        BY <2>2, <2>3, <3>1, <3>2 DEF Reads
    <2>11. QED
      BY <2>9, <2>10
  <1>2. QED
    BY <1>1, RequestInvariance, PTL
-------------------------------------------------------------------------------
(* What a KDC advertises *)

\* The names in a profile that are good.
LEMMA GoodNames ==
  ASSUME NEW p \in Profiles, ~BadKemNames(p)
  PROVE  LET ks == Get(p, "pkinit_pqc_composite_algorithms", <<>>) IN
         /\ ks \in Seq(CompositeKems)
         /\ \A a : Among(a, ks) =>
              a \in UNION {ToSet(l) : l \in Lookup(p, "pkinit_pqc_composite_algorithms")}
  <1> DEFINE found == Lookup(p, "pkinit_pqc_composite_algorithms")
             ks == Get(p, "pkinit_pqc_composite_algorithms", <<>>)
  <1>1. ks = IF found = {} THEN <<>> ELSE CHOOSE v \in found : TRUE
    BY DEF Get
  <1>2. \A l \in found : l \in Seq(ToSet(l)) /\ ToSet(l) \subseteq CompositeKems
    BY ProfilesAssumption DEF BadKemNames
  <1> HIDE DEF found, ks
  <1>3. CASE found = {}
    <2>1. ks = <<>>
      BY <1>1, <1>3
    <2>2. <<>> \in Seq(CompositeKems) /\ \A a : ~Among(a, <<>>)
      BY DEF Among
    <2>3. QED
      BY <2>1, <2>2, Zenon DEF ks
  <1>4. CASE found # {}
    <2>1. ks \in found
      BY <1>1, <1>4
    <2>2. PICK S \in SUBSET CompositeKems : S = ToSet(ks) /\ ks \in Seq(S)
      BY <1>2, <2>1
    <2>3. ks \in Seq(CompositeKems)
      BY <2>2
    <2>4. \A a : Among(a, ks) => a \in ToSet(ks)
      BY DEF Among, ToSet
    <2>5. QED
      BY <2>1, <2>3, <2>4 DEF ks, found
  <1>5. QED
    BY <1>3, <1>4

\* What is listed is what is accepted: the KEMs of the configuration, and groups
\* only where a KEM is not required.
LEMMA ListedIsAccepted ==
  ASSUME NEW p \in Profiles, ~BadKemNames(p), NEW minBits
  PROVE  /\ Listed(p, minBits) \in Seq(Kems \cup Groups)
         /\ \A a : Among(a, Listed(p, minBits)) =>
              \/ a \in Kems /\ a \in KdcKems(p)
              \/ /\ a \in GroupsAt(minBits) /\ a \notin Kems
                 /\ ~Get(p, "pkinit_require_kem", FALSE)
  <1> DEFINE Algs == Kems \cup Groups
             floor == Lookup(p, "pkinit_pqc_min_algorithm")
             composites == Get(p, "pkinit_pqc_composite_algorithms", <<>>)
             requireKem == Get(p, "pkinit_require_kem", FALSE)
             pure == IF floor = {} /\ requireKem /\ composites = <<>> THEN PureKems
                     ELSE UNION {AtOrAbove(k) : k \in floor}
             large == {GroupOrder[i] : i \in {j \in DOMAIN GroupOrder : GroupBits[j] >= minBits}}
             kems == Chosen(StrongestFirst, pure)
             groups == IF requireKem THEN <<>> ELSE GroupsListed(minBits)
  <1>1. Listed(p, minBits) = (kems \o composites) \o groups
    BY DEF Listed
  <1>2. composites \in Seq(CompositeKems) /\ \A a : Among(a, composites) => a \in KdcKems(p)
    BY GoodNames DEF KdcKems
  <1>3. pure \subseteq KdcKems(p)
    BY DEF KdcKems
  <1>4. large \subseteq GroupsAt(minBits)
    BY DEF GroupsAt
  <1>5. Groups \cap Kems = {} /\ CompositeKems \subseteq Kems /\ PureKems \subseteq Kems
    <2>1. Groups = {"P-521", "P-384", "P-256", "oakley4096", "oakley2048"}
      BY DEF Groups, GroupOrder, ToSet
    <2>2. QED
      BY <2>1 DEF Kems, PureKems, CompositeKems
  <1>6. StrongestFirst \in Seq(PureKems) /\ GroupOrder \in Seq(Groups)
    <2>1. StrongestFirst \in Seq(PureKems)
      BY DEF StrongestFirst, PureKems
    <2>2. ASSUME NEW order, order = GroupOrder
          PROVE  order \in Seq(ToSet(order))
      BY <2>2 DEF GroupOrder, ToSet
    <2>3. QED
      BY <2>1, <2>2 DEF Groups
  <1>7. GroupsListed(minBits) = Chosen(GroupOrder, large)
    BY DEF GroupsListed
  <1> HIDE DEF pure, large
  <1>8. /\ kems \in Seq(PureKems)
        /\ \A a : Among(a, kems) => a \in pure
    BY <1>6, ChosenMembers
  <1>9. /\ Chosen(GroupOrder, large) \in Seq(Groups)
        /\ \A a : Among(a, Chosen(GroupOrder, large)) => Among(a, GroupOrder) /\ a \in large
    BY <1>6, ChosenMembers
  <1>10. \A a : Among(a, GroupOrder) => a \in Groups
    BY DEF Among, Groups, ToSet
  <1>11. /\ groups \in Seq(Groups)
         /\ \A a : Among(a, groups) =>
              a \in GroupsAt(minBits) /\ a \notin Kems /\ ~requireKem
    <2>1. CASE requireKem
      <3>1. groups = <<>>
        BY <2>1
      <3>2. <<>> \in Seq(Groups) /\ \A a : ~Among(a, <<>>)
        BY DEF Among
      <3>3. QED
        BY <3>1, <3>2, Zenon
    <2>2. CASE ~requireKem
      <3>1. groups = Chosen(GroupOrder, large)
        BY <1>7, <2>2
      <3>2. QED
        BY <1>4, <1>5, <1>9, <1>10, <2>2, <3>1
    <2>3. QED
      BY <2>1, <2>2
  <1>12. \A a : Among(a, kems) => a \in Kems /\ a \in KdcKems(p)
    <2>1. pure \subseteq PureKems
      BY DEF pure, AtOrAbove
    <2>2. QED
      BY <1>3, <1>5, <1>8, <2>1
  <1>13. \A a : Among(a, composites) => a \in Kems /\ a \in KdcKems(p)
    BY <1>2, <1>5 DEF Among
  <1>14. kems \in Seq(Algs) /\ composites \in Seq(Algs) /\ groups \in Seq(Algs)
    <2>1. ASSUME NEW T \in SUBSET Algs, NEW list \in Seq(T)
          PROVE  list \in Seq(Algs)
      BY DEF Algs
    <2>2. PureKems \subseteq Algs /\ CompositeKems \subseteq Algs /\ Groups \subseteq Algs
      BY <1>5
    <2> HIDE DEF Algs, kems, composites, groups
    <2>3. QED
      BY <1>2, <1>8, <1>11, <2>1, <2>2
  <1> HIDE DEF kems, composites, groups, Algs, requireKem
  <1>15. PICK both \in Seq(Algs) : both = kems \o composites
    BY <1>14, ConcatProperties
  <1>16. \A a : Among(a, both) <=> Among(a, kems) \/ Among(a, composites)
    BY <1>14, <1>15, AmongConcat
  <1>17. PICK listed \in Seq(Algs) : listed = both \o groups
    BY <1>14, <1>15, ConcatProperties
  <1>18. \A a : Among(a, listed) <=> Among(a, both) \/ Among(a, groups)
    BY <1>14, <1>15, <1>17, AmongConcat
  <1>19. listed = Listed(p, minBits)
    BY <1>1, <1>15, <1>17, Zenon
  <1>20. \A a : Among(a, listed) =>
           \/ a \in Kems /\ a \in KdcKems(p)
           \/ a \in GroupsAt(minBits) /\ a \notin Kems /\ ~requireKem
    BY <1>11, <1>12, <1>13, <1>16, <1>18, Zenon
  <1>21. QED
    BY <1>17, <1>19, <1>20, Zenon DEF Algs, requireKem

\* What a client reads from a KDC's advertisement is exactly the list the KDC
\* encoded, the encoding cut anywhere is refused, and every algorithm on the list
\* is one the KDC accepts from a client that picks it.
THEOREM HintsAreReadBack == Spec => []HintIsReadBack
  <1>1. QInv => HintIsReadBack
    <2> SUFFICES ASSUME QInv, NEW k \in kdc, stage = "advertised", NEW h \in padata
                 PROVE  /\ ParseHint(h.bytes) = {AlgList(k.config.listed)}
                        /\ \A cut \in 1..(Len(h.bytes) - 1) :
                             ParseHint(SubSeq(h.bytes, 1, cut)) = {}
                        /\ \A alg \in ToSet(k.config.listed) :
                             KeyAccepted(k, [alg |-> alg, params |-> FALSE])
      BY DEF HintIsReadBack
    <2> DEFINE listed == k.config.listed
               minBits == AsU32(Get(profile, "pkinit_dh_min_bits", 2048))
    <2>1. TheKdc = k
      BY DEF QInv, StageInv, Single, TheKdc
    <2>2. h = Hint(k)
      BY <2>1 DEF QInv, StageInv
    <2>3. h.bytes = EncodeHint(AlgList(listed))
      BY <2>2 DEF Hint
    <2>4. /\ profile \in Profiles /\ ~BadKemNames(profile)
          /\ k.config = KdcConfig(profile)
      BY DEF QInv, ConfigInv, Configured
    <2>5. /\ listed = Listed(profile, minBits) /\ k.config.kems = KdcKems(profile)
          /\ k.config.groups = GroupsAt(minBits)
          /\ k.config.requireKem = Get(profile, "pkinit_require_kem", FALSE)
      BY <2>4 DEF KdcConfig
    <2> HIDE DEF minBits, listed
    <2>6. /\ listed \in Seq(Kems \cup Groups)
          /\ \A a : Among(a, listed) =>
               \/ a \in Kems /\ a \in k.config.kems
               \/ a \in k.config.groups /\ a \notin Kems /\ ~k.config.requireKem
      BY <2>4, <2>5, ListedIsAccepted
    <2>7. AlgList(listed) \in Seq(Nat) /\ Len(AlgList(listed)) + 6 < LengthLimit
      <3> DEFINE parts == [i \in DOMAIN listed |-> AlgBytes[listed[i]]]
      <3>1. PICK n \in Nat : listed \in [1..n -> Kems \cup Groups]
        BY <2>6, SeqDef
      <3>2. parts \in [1..n -> Seq(Nat)]
        BY <3>1, HintAssumption
      <3>3. parts \in Seq(Seq(Nat))
        BY <3>2, SeqDef
      <3>4. AlgList(listed) = Joined(parts)
        BY DEF AlgList
      <3> HIDE DEF parts
      <3>5. AlgList(listed) \in Seq(Nat)
        BY <3>3, <3>4, JoinedIsList
      <3>6. QED
        BY <2>4, <3>5, HintAssumption DEF listed
    <2>8. PICK list \in Seq(Nat) : list = AlgList(listed) /\ Len(list) + 6 < LengthLimit
      BY <2>7
    <2>9. PICK bytes \in Seq(Nat) : bytes = EncodeHint(list)
      BY <2>8, HintIsBytes
    <2>10. \A t : Begins(t, bytes) =>
             ParseHint(t) = IF Len(t) = Len(bytes) THEN {list} ELSE {}
      BY <2>8, <2>9, HintRoundTrip
    <2>11. h.bytes = bytes
      BY <2>3, <2>8, <2>9
    <2>12. ParseHint(bytes) = {list}
      <3>1. Begins(bytes, bytes)
        BY LenProperties DEF Begins
      <3>2. QED
        BY <2>10, <3>1
    <2>13. ASSUME NEW cut \in 1..(Len(bytes) - 1)
           PROVE  ParseHint(SubSeq(bytes, 1, cut)) = {}
      <3>1. 0 \in Nat /\ cut \in Nat /\ 0 + cut <= Len(bytes)
            /\ 1 + 0 = 1 /\ 0 + cut = cut /\ cut # Len(bytes) /\ cut <= Len(bytes)
        BY LenProperties
      <3>2. \E r \in Seq(Nat) :
              /\ r = SubSeq(bytes, 1 + 0, 0 + cut) /\ Len(r) = cut
              /\ \A i \in 1..cut : r[i] = bytes[0 + i]
        BY <3>1, BytesOf, Zenon
      <3>3. PICK t \in Seq(Nat) : /\ t = SubSeq(bytes, 1, cut) /\ Len(t) = cut
                                  /\ \A i \in 1..cut : t[i] = bytes[i]
        <4>1. \A i \in 1..cut : 0 + i = i
          OBVIOUS
        <4>2. QED
          BY <3>1, <3>2, <4>1, Zenon
      <3>4. Begins(t, bytes)
        BY <3>1, <3>3 DEF Begins
      <3>5. QED
        BY <2>10, <3>1, <3>3, <3>4
    <2>14. ASSUME NEW alg \in ToSet(listed)
           PROVE  KeyAccepted(k, [alg |-> alg, params |-> FALSE])
      <3>1. Among(alg, listed)
        BY DEF Among, ToSet
      <3>2. QED
        BY <2>6, <3>1 DEF KeyAccepted
    <2>15. QED
      BY <2>8, <2>11, <2>12, <2>13, <2>14, Zenon DEF listed
  <1>2. QED
    BY <1>1, RequestInvariance, PTL
-------------------------------------------------------------------------------
(* Chains *)

\* f leads from the leaf to an anchor, each certificate followed by its issuer,
\* and no certificate on the way was revoked.
IsPath(f, n, leaf, path, anchors, issuer, revoked) ==
  /\ f \in [1..n -> path \cup anchors \cup {leaf}]
  /\ f[1] = leaf /\ f[n] \in anchors
  /\ \A i \in 1..(n - 1) : /\ f[i] \in (path \cup {leaf}) \ revoked
                           /\ issuer[f[i]] = f[i + 1]

\* LeadsTo is defined by the sets closed under issuing; here it is shown to mean
\* what validate_chain looks for, for certificates of any kind and any number:
\* a path of issuers that ends at an anchor.
THEOREM ChainsReachAnAnchor ==
  \A leaf, path, anchors, issuer, revoked :
    LeadsTo(leaf, path, anchors, issuer, revoked)
      <=> \E n \in Nat \ {0} : \E f : IsPath(f, n, leaf, path, anchors, issuer, revoked)
  <1> SUFFICES ASSUME NEW leaf, NEW path, NEW anchors, NEW issuer, NEW revoked
               PROVE  LeadsTo(leaf, path, anchors, issuer, revoked)
                        <=> \E n \in Nat \ {0} : \E f :
                              IsPath(f, n, leaf, path, anchors, issuer, revoked)
    OBVIOUS
  <1> DEFINE All == path \cup anchors \cup {leaf}
             Carriers == (path \cup {leaf}) \ revoked
             From(f, n, c) ==
               /\ f \in [1..n -> All] /\ f[1] = c /\ f[n] \in anchors
               /\ \A i \in 1..(n - 1) : f[i] \in Carriers /\ issuer[f[i]] = f[i + 1]
             Closed(below) ==
               /\ anchors \subseteq below
               /\ \A c \in Carriers : issuer[c] \in below => c \in below
  <1>1. ASSUME LeadsTo(leaf, path, anchors, issuer, revoked)
        PROVE  \E n \in Nat \ {0} : \E f : From(f, n, leaf)
    <2> DEFINE below == {c \in All : \E n \in Nat \ {0} : \E f : From(f, n, c)}
    <2>1. ASSUME NEW a \in anchors
          PROVE  a \in below
      <3> DEFINE g == [i \in 1..1 |-> a]
      <3>1. g \in [1..1 -> All] /\ g[1] = a
        OBVIOUS
      <3>2. From(g, 1, a) /\ a \in All
        BY <3>1
      <3> HIDE DEF g, From, All
      <3>3. 1 \in Nat \ {0}
        OBVIOUS
      <3>4. QED
        BY <3>2, <3>3, Zenon
    <2>2. ASSUME NEW c \in Carriers, issuer[c] \in below
          PROVE  c \in below
      <3>0. PICK n \in Nat \ {0} : \E f : From(f, n, issuer[c])
        BY <2>2
      <3>1. PICK f : From(f, n, issuer[c])
        BY <3>0
      <3> DEFINE g == [i \in 1..(n + 1) |-> IF i = 1 THEN c ELSE f[i - 1]]
      <3>2. \A i \in 2..(n + 1) : i - 1 \in 1..n /\ g[i] = f[i - 1]
        OBVIOUS
      <3>3. g[1] = c /\ c \in All
        OBVIOUS
      <3>4. g \in [1..(n + 1) -> All]
        BY <3>1, <3>3
      <3>5. g[n + 1] \in anchors
        <4>1. n + 1 \in 2..(n + 1) /\ (n + 1) - 1 = n
          OBVIOUS
        <4>2. QED
          BY <3>1, <3>2, <4>1
      <3>6. ASSUME NEW i \in 1..((n + 1) - 1)
            PROVE  g[i] \in Carriers /\ issuer[g[i]] = g[i + 1]
        <4>1. g[i + 1] = f[i]
          <5>1. i + 1 \in 2..(n + 1) /\ (i + 1) - 1 = i
            OBVIOUS
          <5> HIDE DEF g
          <5>2. QED
            BY <3>2, <5>1
        <4>2. CASE i = 1
          BY <3>1, <3>3, <4>1, <4>2
        <4>3. CASE i # 1
          <5>1. i \in 2..(n + 1) /\ i - 1 \in 1..(n - 1) /\ (i - 1) + 1 = i
            BY <4>3
          <5>2. g[i] = f[i - 1]
            BY <3>2, <5>1
          <5>3. f[i - 1] \in Carriers /\ issuer[f[i - 1]] = f[i]
            BY <3>1, <5>1
          <5> HIDE DEF g
          <5>4. QED
            BY <4>1, <5>2, <5>3
        <4>4. QED
          BY <4>2, <4>3
      <3> HIDE DEF g
      <3>7. n + 1 \in Nat \ {0} /\ From(g, n + 1, c)
        BY <3>3, <3>4, <3>5, <3>6
      <3>8. QED
        BY <3>3, <3>7
    <2>3. Closed(below) /\ below \in SUBSET All
      BY <2>1, <2>2
    <2> HIDE DEF below
    <2>4. leaf \in below
      BY <1>1, <2>3 DEF LeadsTo
    <2>5. QED
      BY <2>4 DEF below
  <1>2. ASSUME NEW n \in Nat \ {0}, NEW f, From(f, n, leaf), NEW below, Closed(below)
        PROVE  leaf \in below
    <2> DEFINE Good == {i \in 0..(n - 1) : f[n - i] \in below}
    <2>1. 0 \in Good
      BY <1>2
    <2>2. ASSUME NEW i \in 1..(n - 1), i - 1 \in Good
          PROVE  i \in Good
      <3>1. n - i \in 1..(n - 1) /\ n - (i - 1) = (n - i) + 1 /\ i \in 0..(n - 1)
        OBVIOUS
      <3>2. f[n - i] \in Carriers /\ issuer[f[n - i]] = f[n - (i - 1)]
        BY <1>2, <3>1
      <3>3. f[n - (i - 1)] \in below
        BY <2>2
      <3>4. f[n - i] \in below
        BY <1>2, <3>2, <3>3
      <3>5. QED
        BY <3>1, <3>4
    <2> HIDE DEF Good
    <2>3. \A i \in 0..(n - 1) : i \in Good
      <3>1. n - 1 \in Nat
        OBVIOUS
      <3>2. QED
        BY <2>1, <2>2, <3>1, UpwardInduction
    <2>4. n - 1 \in Good /\ n - (n - 1) = 1
      BY <2>3
    <2>5. f[1] \in below
      BY <2>4 DEF Good
    <2>6. QED
      BY <1>2, <2>5
  <1>3. \A n, f : From(f, n, leaf) <=> IsPath(f, n, leaf, path, anchors, issuer, revoked)
    BY DEF IsPath
  <1> HIDE DEF From
  <1>4. ASSUME \E n \in Nat \ {0} : \E f : From(f, n, leaf)
        PROVE  LeadsTo(leaf, path, anchors, issuer, revoked)
    <2>1. \A below \in SUBSET All : Closed(below) => leaf \in below
      BY <1>2, <1>4
    <2>2. QED
      BY <2>1, Zenon DEF LeadsTo
  <1>5. QED
    BY <1>1, <1>3, <1>4, Zenon

\* A reply key for a signed request was made for a name that is in a certificate
\* from which issuers lead to an anchor of the KDC, none of them revoked where
\* CRLs are checked.
SignedKeysHaveAPath ==
  \A k \in kdc, r \in request :
    replyKey # {} /\ r.body.signers # <<>> =>
      \E cert \in Certs, name \in r.client, n \in Nat \ {0} : \E f :
        /\ SignedBy(r.body, cert) /\ MayActFor(k, cert, name)
        /\ IsPath(f, n, cert, ToSet(r.body.certs), k.store.anchors, IssuerOf,
                  IF k.config.requireCrl THEN Revoked ELSE {})

\* So the keys of the KDC rest on paths of issuers, not on our notion of a chain.
THEOREM KeysRestOnPaths == Spec => []SignedKeysHaveAPath
  <1>1. ReplyKeyOnlyForTheNamed => SignedKeysHaveAPath
    <2> SUFFICES ASSUME NEW k \in kdc, NEW r \in request, replyKey # {},
                        r.body.signers # <<>>, ReplyKeyOnlyForTheNamed
                 PROVE  \E cert \in Certs, name \in r.client, n \in Nat \ {0} : \E f :
                          /\ SignedBy(r.body, cert) /\ MayActFor(k, cert, name)
                          /\ IsPath(f, n, cert, ToSet(r.body.certs), k.store.anchors,
                                    IssuerOf, IF k.config.requireCrl THEN Revoked ELSE {})
      BY DEF SignedKeysHaveAPath
    <2>1. SpeaksForItself(k, r)
      BY DEF ReplyKeyOnlyForTheNamed
    <2>2. PICK cert \in Certs, name \in r.client :
            VouchedFor(k, r.body, cert) /\ MayActFor(k, cert, name)
      BY <2>1 DEF SpeaksForItself
    <2>3. \E n \in Nat \ {0} : \E f :
            IsPath(f, n, cert, ToSet(r.body.certs), k.store.anchors, IssuerOf,
                   IF k.config.requireCrl THEN Revoked ELSE {})
      BY <2>2, ChainsReachAnAnchor, Zenon DEF VouchedFor
    <2>4. QED
      BY <2>2, <2>3, Zenon DEF VouchedFor
  <1>2. QED
    BY <1>1, KeysForTheNamed, PTL
===============================================================================
