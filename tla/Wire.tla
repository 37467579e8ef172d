--------------------------------- MODULE Wire ----------------------------------
(***************************************************************************)
(* The hand-written encodings of kem_types.rs: nonces that are signed in   *)
(* memory and unsigned on the wire, DER lengths, and the two wrappers      *)
(* around the list of a hint.                                              *)
(*                                                                         *)
(* A byte is a digit to the base Base (256 in the code), the top bit of a  *)
(* nonce is worth SignBit (2^31): the boundaries keep their order at any   *)
(* scale.                                                                  *)
(***************************************************************************)
EXTENDS Integers, Sequences

CONSTANTS
  Base,     \* the number of values a byte has
  SignBit   \* the value of a nonce's top bit

ASSUME WireAssumption ==
  /\ Base \in Nat /\ Base >= 10 /\ Base % 2 = 0
  /\ SignBit \in Nat \ {0}

Half == Base \div 2

\* A length takes no more than four bytes.
LengthLimit == Base * Base * Base * Base

\* Values of the type i32, and of the INTEGER on the wire.
Signed == -SignBit..(SignBit - 1)
Unsigned == 0..(2 * SignBit - 1)

EncodeNonce(nonce) == IF nonce < 0 THEN nonce + 2 * SignBit ELSE nonce

\* Slip: only what an i32 can hold is let through.
DecodeNonce_AsSigned(value) ==
  IF value \in Signed THEN {value} ELSE {}

\* Values that do not fit into 32 bits are refused (no result).
DecodeNonce(value) ==
  IF value \notin Unsigned THEN {}
  ELSE {IF value >= SignBit THEN value - 2 * SignBit ELSE value}

\* What the bytes add up to, the highest first.
NumberOf(bytes) ==
  LET upTo[i \in 0..Len(bytes)] ==
        IF i = 0 THEN 0 ELSE upTo[i - 1] * Base + bytes[i]
  IN upTo[Len(bytes)]

\* As many bytes as the length needs after their number, but no more than four:
\* what would come before them is cut off.
LongLength(n) ==
  LET n1 == n \div Base   n2 == n1 \div Base   n3 == n2 \div Base IN
  IF n < Base THEN <<Half + 1, n>>
  ELSE IF n < Base * Base THEN <<Half + 2, n1, n % Base>>
  ELSE IF n < Base * Base * Base THEN <<Half + 3, n2, n1 % Base, n % Base>>
  ELSE <<Half + 4, n3 % Base, n2 % Base, n1 % Base, n % Base>>

\* Slip: a length of exactly 0x80 is written as one byte.
DerEncodeLength_Inclusive(n) == IF n <= Half THEN <<n>> ELSE LongLength(n)

\* der_encode_length: one byte below 0x80, else the long form.
DerEncodeLength(n) == IF n < Half THEN <<n>> ELSE LongLength(n)

\* der_parse_length: the length and how many bytes said so, or nothing.
DerParseLength(bytes) ==
  IF bytes = <<>> THEN {}
  ELSE IF bytes[1] < Half THEN {<<bytes[1], 1>>}
  ELSE LET k == bytes[1] - Half IN
       IF k = 0 \/ k > 4 \/ Len(bytes) < 1 + k THEN {}
       ELSE {<<NumberOf(SubSeq(bytes, 2, 1 + k)), 1 + k>>}

DerTags == [sequence |-> 0, params |-> 1]

Wrapped(tag, content) == <<tag>> \o DerEncodeLength(Len(content)) \o content

\* The content of a TLV with this tag; what follows it is not looked at.
Content(tag, bytes) ==
  IF bytes = <<>> \/ Head(bytes) # tag THEN {}
  ELSE {SubSeq(bytes, 2 + l[2], 1 + l[2] + l[1]) :
          l \in {x \in DerParseLength(Tail(bytes)) :
                   Len(bytes) >= 1 + x[2] + x[1]}}

\* encode_pkinit_hint_alg_ids around the list's own encoding.
EncodeHint(list) == Wrapped(DerTags.sequence, Wrapped(DerTags.params, list))

\* parse_pkinit_hint: a sequence that does not begin with the list offers an
\* empty one; an outer or an inner value that is cut short is an error.
ParseHint(bytes) ==
  UNION {IF outer = <<>> \/ Head(outer) # DerTags.params THEN {<<>>}
         ELSE Content(DerTags.params, outer) :
           outer \in Content(DerTags.sequence, bytes)}
================================================================================
