------------------------------- MODULE Matching --------------------------------
(***************************************************************************)
(* Certificate matching rules: db_match of certauth.rs, which parses a     *)
(* rule and evaluates it on a certificate (identity/matching.rs), step by  *)
(* step down to the loop of simple_match.                                  *)
(*                                                                         *)
(* A rule is the sequence of its alternatives (||), each the sequence of   *)
(* its terms (&&), each a tag and a value.  A text is a sequence of        *)
(* characters, a pattern the sequence of the texts between its stars, as   *)
(* split('*') gives them: a pattern without a star is its only part.  A    *)
(* certificate has a sequence of texts for each tag, or fails to be read.  *)
(***************************************************************************)
EXTENDS Integers, Sequences

CONSTANTS
  Rules,          \* the rules to evaluate
  Certificates,   \* on these certificates
  Characters      \* what texts are made of

Texts == Seq(Characters)
TextTags == {"SUBJECT", "ISSUER", "SAN"}
SetTags == {"EKU", "KU"}

\* A pattern, the OID of an EKU as a one-element set, or the bits of a KU.
Term == [tag : TextTags \cup {"unknown"}, value : Seq(Texts) \ {<<>>}]
          \cup [tag : SetTags, value : SUBSET Texts]

Certificate ==
  [texts : [TextTags -> Seq(Texts)], sets : [SetTags -> SUBSET Texts],
   broken : SUBSET (TextTags \cup SetTags)]

ASSUME MatchingAssumption ==
  /\ Rules \subseteq Seq(Seq(Term) \ {<<>>}) \ {<<>>}
  /\ Certificates \subseteq Certificate

VARIABLES
  rule, cert,   \* the arguments
  phase,        \* "parse", "term", "match" or "done"
  alt, term,    \* the term under evaluation
  name,         \* the text it is matched with
  part, pos,    \* how far simple_match has come in pattern and text
  verdict       \* {} until there is one

inputs == <<rule, cert>>
walk == <<name, part, pos>>
vars == <<inputs, phase, alt, term, walk, verdict>>

Verdicts == {"true", "false", "error"}

Now == rule[alt][term]
Names == cert.texts[Now.tag]
Pattern == Now.value
Text == Names[name]
-------------------------------------------------------------------------------
At(text, piece, i) == SubSeq(text, i + 1, i + Len(piece)) = piece

\* haystack[from..].find(piece): where it first occurs, if it does.
Find(text, piece, from) ==
  {i \in from..(Len(text) - Len(piece)) :
     /\ At(text, piece, i)
     /\ \A j \in from..(i - 1) : ~At(text, piece, j)}

Init ==
  /\ rule \in Rules /\ cert \in Certificates
  /\ phase = "parse" /\ verdict = {}
  /\ alt = 1 /\ term = 1
  /\ name = 1 /\ part = 1 /\ pos = 0

Conclude(v) ==
  /\ phase' = "done" /\ verdict' = {v}
  /\ UNCHANGED <<inputs, alt, term, walk>>

\* CertMatcher::parse: a term with an unknown tag spoils the whole rule.
Parse ==
  /\ phase = "parse"
  /\ IF \E a \in DOMAIN rule : \E t \in DOMAIN rule[a] : rule[a][t].tag = "unknown"
     THEN Conclude("error")
     ELSE phase' = "term" /\ UNCHANGED <<inputs, alt, term, walk, verdict>>

\* A term holds: And goes on to the next, or the rule holds.
Holds ==
  IF term < Len(rule[alt])
  THEN /\ phase' = "term" /\ term' = term + 1
       /\ UNCHANGED <<inputs, alt, walk, verdict>>
  ELSE Conclude("true")

\* Slip: an alternative starts at the term where the one before it failed.
Fails_SameTerm ==
  IF alt < Len(rule)
  THEN /\ phase' = "term" /\ alt' = alt + 1
       /\ UNCHANGED <<inputs, term, walk, verdict>>
  ELSE Conclude("false")

\* A term fails: Or goes on to the next alternative, or the rule fails.
Fails ==
  IF alt < Len(rule)
  THEN /\ phase' = "term" /\ alt' = alt + 1 /\ term' = 1
       /\ UNCHANGED <<inputs, walk, verdict>>
  ELSE Conclude("false")

\* evaluate on a term of a kind other than texts: an EKU is one of the
\* certificate's, the bits of a KU are all set.
SetTerm ==
  /\ phase = "term" /\ Now.tag \in SetTags \ cert.broken
  /\ IF Now.value \subseteq cert.sets[Now.tag] THEN Holds ELSE Fails

\* The extension or the name does not decode.
BrokenTerm ==
  /\ phase = "term" /\ Now.tag \in cert.broken
  /\ Conclude("error")

\* simple_match is called on the first of the texts, if there is one.
TextTerm ==
  /\ phase = "term" /\ Now.tag \in TextTags \ cert.broken
  /\ phase' = "match" /\ name' = 1 /\ part' = 1 /\ pos' = 0
  /\ UNCHANGED <<inputs, alt, term, verdict>>

NextName ==
  /\ name' = name + 1 /\ part' = 1 /\ pos' = 0
  /\ UNCHANGED <<inputs, phase, alt, term, verdict>>

Matching == phase = "match" /\ name <= Len(Names)

NoNameLeft ==
  /\ phase = "match" /\ name > Len(Names)
  /\ Fails

\* A pattern without a star may occur anywhere.
Contains ==
  /\ Matching /\ Len(Pattern) = 1
  /\ IF Find(Text, Pattern[1], 0) # {} THEN Holds ELSE NextName

\* The part lies at one of these places, or this text does not match.
Take(found) ==
  IF found = {} THEN NextName
  ELSE /\ \E i \in found : pos' = i + Len(Pattern[part])
       /\ part' = part + 1
       /\ UNCHANGED <<inputs, phase, alt, term, name, verdict>>

\* Slip: the first part may occur anywhere, too.
TakePart_Unanchored ==
  /\ Matching /\ Len(Pattern) > 1 /\ part <= Len(Pattern)
  /\ Take(Find(Text, Pattern[part], pos))

\* Slip: a star stands for one character at least.
TakePart_Apart ==
  /\ Matching /\ Len(Pattern) > 1 /\ part <= Len(Pattern)
  /\ Take(IF part = 1 THEN Find(Text, Pattern[part], 0) \cap {0}
          ELSE Find(Text, Pattern[part], pos + 1))

\* One turn of the loop: a part is taken at its first occurrence behind the one
\* before, the first part at the start only.  An empty one occurs at once.
TakePart ==
  /\ Matching /\ Len(Pattern) > 1 /\ part <= Len(Pattern)
  /\ Take(LET found == Find(Text, Pattern[part], pos) IN
          IF part = 1 THEN found \cap {0} ELSE found)

\* Behind the loop: without a star at its end the pattern must end the text.
AllParts ==
  /\ Matching /\ Len(Pattern) > 1 /\ part > Len(Pattern)
  /\ IF Pattern[Len(Pattern)] = <<>> \/ pos = Len(Text) THEN Holds ELSE NextName

Next ==
  \/ Parse
  \/ SetTerm \/ BrokenTerm \/ TextTerm
  \/ NoNameLeft \/ Contains \/ TakePart \/ AllParts

Spec == Init /\ [][Next]_vars
-------------------------------------------------------------------------------
(* Properties *)

\* Where the texts of the first n parts lie in a text: one behind the other, the
\* first at the start.
Places(text, pattern, n) ==
  {at \in [1..n -> 0..Len(text)] :
     /\ at[1] = 0
     /\ \A i \in 1..n : /\ at[i] + Len(pattern[i]) <= Len(text)
                        /\ At(text, pattern[i], at[i])
     /\ \A i \in 2..n : at[i - 1] + Len(pattern[i - 1]) <= at[i]}

\* What the comment of simple_match says: a star stands for any text.
Glob(text, pattern) ==
  LET n == Len(pattern) IN
  \E at \in Places(text, pattern, n) : at[n] + Len(pattern[n]) = Len(text)

Occurs(text, piece) == Find(text, piece, 0) # {}

Matches(text, pattern) ==
  IF Len(pattern) = 1 THEN Occurs(text, pattern[1]) ELSE Glob(text, pattern)

\* A term is right about a certificate.
Right(t, c) ==
  IF t.tag \in SetTags THEN t.value \subseteq c.sets[t.tag]
  ELSE \E i \in DOMAIN c.texts[t.tag] : Matches(c.texts[t.tag][i], t.value)

\* The patterns simple_match finds wherever they are: a text that has to follow
\* the last star may be taken for an earlier occurrence of itself.
Findable(t) ==
  t.tag \in SetTags \/ Len(t.value) = 1 \/ t.value[Len(t.value)] = <<>>

\* The evaluation stays within the rule, the walk within its pattern and text.
MatchTypeOK ==
  /\ phase \in {"parse", "term", "match", "done"}
  /\ verdict \in SUBSET Verdicts
  /\ (verdict # {}) <=> (phase = "done")
  /\ alt \in DOMAIN rule /\ term \in DOMAIN rule[alt]
  /\ name \in Nat \ {0} /\ part \in Nat \ {0} /\ pos \in Nat
  /\ phase = "match" =>
       /\ Now.tag \in TextTags
       /\ part <= Len(Pattern) + 1 /\ name <= Len(Names) + 1
       /\ name <= Len(Names) => pos <= Len(Text)

\* A rule that matches is right: every term of some alternative holds of the
\* certificate, however the parts of a pattern overlap or repeat.
TrueIsRight ==
  verdict = {"true"} =>
    \E a \in DOMAIN rule : \A t \in DOMAIN rule[a] : Right(rule[a][t], cert)

\* A rule fails only if each alternative has a term that is wrong, or that is a
\* glob which does not end in a star.
FalseIsJustified ==
  verdict = {"false"} =>
    \A a \in DOMAIN rule : \E t \in DOMAIN rule[a] :
      Findable(rule[a][t]) => ~Right(rule[a][t], cert)
===============================================================================
