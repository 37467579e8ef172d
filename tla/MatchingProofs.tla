----------------------------- MODULE MatchingProofs ----------------------------
(***************************************************************************)
(* Proofs about Matching for any characters, rules and certificates.       *)
(***************************************************************************)
EXTENDS Matching, ListsProofs

\* Some term of the alternative is wrong, or a glob without a star at its end.
Refuted(a) ==
  \E t \in DOMAIN rule[a] : Findable(rule[a][t]) => ~Right(rule[a][t], cert)

\* What the walk has found when it comes to a part: the parts before it lie in
\* the text up to pos, and in no way do they end before pos.
Walked(text, pattern, n, end) ==
  /\ n = 1 => end = 0
  /\ n > 1 =>
       /\ \E at \in Places(text, pattern, n - 1) :
            at[n - 1] + Len(pattern[n - 1]) = end
       /\ \A at \in Places(text, pattern, n - 1) :
            end <= at[n - 1] + Len(pattern[n - 1])

ArgumentsOK == rule \in Rules /\ cert \in Certificates

Running == phase \in {"term", "match"}

\* The evaluation starts at the first term.  While it runs the terms before this
\* one are right, the alternatives before this one are refuted.
RuleInv ==
  /\ phase = "parse" => alt = 1 /\ term = 1
  /\ Running =>
       /\ \A t \in 1..(term - 1) : Right(rule[alt][t], cert)
       /\ \A a \in 1..(alt - 1) : Refuted(a)

\* The texts before this one do not match.
NameInv ==
  phase = "match" =>
    \A i \in 1..(name - 1) : Findable(Now) => ~Matches(Names[i], Pattern)

WalkInv ==
  Matching /\ Len(Pattern) > 1 => Walked(Text, Pattern, part, pos)

\* The inductive invariant.
IInv ==
  /\ ArgumentsOK /\ MatchTypeOK
  /\ RuleInv /\ NameInv /\ WalkInv
  /\ TrueIsRight /\ FalseIsJustified
-------------------------------------------------------------------------------
(* Texts and patterns *)

\* A text that find() does not find is nowhere behind its start.
LEMMA FoundIfAnywhere ==
  ASSUME NEW text \in Texts, NEW piece \in Texts, NEW from \in Nat,
         NEW i \in from..(Len(text) - Len(piece)), At(text, piece, i)
  PROVE  \E k \in Find(text, piece, from) : k <= i
<1>. DEFINE S == {j \in from..(Len(text) - Len(piece)) : At(text, piece, j)}
<1>1. Len(text) \in Nat /\ Len(piece) \in Nat
  BY LenProperties DEF Texts
<1>2. S \in SUBSET Nat /\ i \in S
  BY <1>1
<1>3. PICK k \in S : \A j \in S : k <= j
  BY <1>2, LeastElement
<1>4. k \in Find(text, piece, from)
  BY <1>1, <1>3 DEF Find
<1>. QED  BY <1>2, <1>3, <1>4

\* Places of the first m parts are got from places of more.
LEMMA PlacesRestrict ==
  ASSUME NEW text \in Texts, NEW pattern \in Seq(Texts), NEW n \in Nat,
         NEW m \in 1..n, NEW at \in Places(text, pattern, n)
  PROVE  /\ [i \in 1..m |-> at[i]] \in Places(text, pattern, m)
         /\ m < n => at[m] + Len(pattern[m]) <= at[m + 1]
  BY LenProperties DEF Places, Texts

\* ... and one more part is placed behind them.
LEMMA PlacesExtend ==
  ASSUME NEW text \in Texts, NEW pattern \in Seq(Texts),
         NEW n \in 1..(Len(pattern) - 1), NEW at \in Places(text, pattern, n),
         NEW i \in 0..Len(text), i + Len(pattern[n + 1]) <= Len(text),
         At(text, pattern[n + 1], i), at[n] + Len(pattern[n]) <= i
  PROVE  [k \in 1..(n + 1) |-> IF k = n + 1 THEN i ELSE at[k]]
           \in Places(text, pattern, n + 1)
<1>. DEFINE more == [k \in 1..(n + 1) |-> IF k = n + 1 THEN i ELSE at[k]]
<1>0. n \in Nat /\ n >= 1 /\ Len(text) \in Nat
  BY LenProperties DEF Texts
<1>1. more \in [1..(n + 1) -> 0..Len(text)]
  BY <1>0 DEF Places
<1>2. more[1] = 0
  BY <1>0 DEF Places
<1>3. \A k \in 1..(n + 1) : /\ more[k] + Len(pattern[k]) <= Len(text)
                            /\ At(text, pattern[k], more[k])
  BY <1>0 DEF Places
<1>4. \A k \in 2..(n + 1) : more[k - 1] + Len(pattern[k - 1]) <= more[k]
  BY <1>0 DEF Places
<1>. QED  BY <1>1, <1>2, <1>3, <1>4 DEF Places
-------------------------------------------------------------------------------
(* The walk of simple_match *)

\* Where a part may be taken.
Found(text, pattern, n, from) ==
  LET found == Find(text, pattern[n], from) IN
  IF n = 1 THEN found \cap {0} ELSE found

\* Taking a part at its first occurrence keeps both halves of the invariant.
LEMMA WalkOn ==
  ASSUME NEW text \in Texts, NEW pattern \in Seq(Texts),
         NEW n \in 1..Len(pattern), NEW end \in Nat,
         Walked(text, pattern, n, end), NEW i \in Found(text, pattern, n, end)
  PROVE  /\ Walked(text, pattern, n + 1, i + Len(pattern[n]))
         /\ i + Len(pattern[n]) \in 0..Len(text)
<1>. DEFINE last == i + Len(pattern[n])
<1>0. /\ Len(text) \in Nat /\ Len(pattern[n]) \in Nat /\ n \in Nat /\ n >= 1
      /\ Len(pattern) \in Nat
  BY LenProperties, ElementOfSeq DEF Texts
<1>1. i \in Find(text, pattern[n], end) /\ (n = 1 => i = 0)
  BY DEF Found
<1>2. i \in end..(Len(text) - Len(pattern[n])) /\ At(text, pattern[n], i)
  BY <1>1 DEF Find
<1>3. i \in 0..Len(text) /\ last \in 0..Len(text)
  BY <1>0, <1>2
<1>4. \E at \in Places(text, pattern, n) : at[n] + Len(pattern[n]) = last
  <2>1. CASE n = 1
    <3>1. [k \in 1..1 |-> 0] \in Places(text, pattern, 1)
      BY <1>0, <1>1, <1>2, <1>3, <2>1 DEF Places
    <3>. QED  BY <1>1, <2>1, <3>1
  <2>2. CASE n > 1
    <3>1. PICK at \in Places(text, pattern, n - 1) :
            at[n - 1] + Len(pattern[n - 1]) = end
      BY <2>2 DEF Walked
    <3>2. n - 1 \in 1..(Len(pattern) - 1) /\ (n - 1) + 1 = n
      BY <1>0, <2>2
    <3>3. [k \in 1..((n - 1) + 1) |-> IF k = (n - 1) + 1 THEN i ELSE at[k]]
            \in Places(text, pattern, (n - 1) + 1)
      <4>1. i \in 0..Len(text) /\ i + Len(pattern[(n - 1) + 1]) <= Len(text)
        BY <1>0, <1>2, <1>3, <3>2
      <4>2. At(text, pattern[(n - 1) + 1], i)
        BY <1>2, <3>2
      <4>3. at[n - 1] + Len(pattern[n - 1]) <= i
        BY <1>0, <1>2, <3>1
      <4>. QED  BY <3>1, <3>2, <4>1, <4>2, <4>3, PlacesExtend
    <3>4. [k \in 1..n |-> IF k = n THEN i ELSE at[k]] \in Places(text, pattern, n)
      BY <3>2, <3>3
    <3>. QED  BY <1>0, <3>4
  <2>. QED  BY <1>0, <2>1, <2>2
<1>5. \A at \in Places(text, pattern, n) : last <= at[n] + Len(pattern[n])
  <2>. SUFFICES ASSUME NEW at \in Places(text, pattern, n)
                PROVE  last <= at[n] + Len(pattern[n])
    OBVIOUS
  <2>1. /\ at[n] \in 0..Len(text) /\ At(text, pattern[n], at[n])
        /\ at[n] + Len(pattern[n]) <= Len(text) /\ at[1] = 0
    BY <1>0 DEF Places
  <2>2. ASSUME n = 1 PROVE i <= at[n]
    BY <1>1, <2>1, <2>2
  <2>3. ASSUME n > 1 PROVE i <= at[n]
    <3>1. /\ [k \in 1..(n - 1) |-> at[k]] \in Places(text, pattern, n - 1)
          /\ at[n - 1] + Len(pattern[n - 1]) <= at[n]
      <4>1. n - 1 \in 1..n /\ n - 1 < n /\ (n - 1) + 1 = n
        BY <1>0, <2>3
      <4>2. /\ [k \in 1..(n - 1) |-> at[k]] \in Places(text, pattern, n - 1)
            /\ (n - 1 < n => at[n - 1] + Len(pattern[n - 1]) <= at[(n - 1) + 1])
        BY <1>0, <4>1, PlacesRestrict
      <4>. QED  BY <4>1, <4>2
    <3>2. end <= at[n - 1] + Len(pattern[n - 1])
      BY <1>0, <2>3, <3>1 DEF Walked
    <3>3. at[n - 1] + Len(pattern[n - 1]) \in Nat
      BY <1>0, <2>3, LenProperties, ElementOfSeq DEF Places, Texts
    <3>4. at[n] \in end..(Len(text) - Len(pattern[n]))
      BY <1>0, <2>1, <3>1, <3>2, <3>3
    <3>. QED  BY <1>0, <1>1, <1>2, <2>1, <3>4 DEF Find
  <2>4. i <= at[n]
    BY <1>0, <2>2, <2>3
  <2>. QED  BY <1>0, <1>2, <2>1, <2>4
<1>. QED  BY <1>0, <1>3, <1>4, <1>5 DEF Walked

\* Where a part cannot be taken, the pattern does not match.
LEMMA WalkStuck ==
  ASSUME NEW text \in Texts, NEW pattern \in Seq(Texts),
         NEW n \in 1..Len(pattern), NEW end \in Nat,
         Walked(text, pattern, n, end), Found(text, pattern, n, end) = {}
  PROVE  ~Glob(text, pattern)
<1>. SUFFICES ASSUME NEW all \in Places(text, pattern, Len(pattern))
              PROVE  FALSE
  BY DEF Glob
<1>0. /\ Len(text) \in Nat /\ pattern[n] \in Texts /\ Len(pattern[n]) \in Nat
      /\ n \in Nat /\ n >= 1 /\ Len(pattern) \in Nat
  BY LenProperties, ElementOfSeq DEF Texts
<1>1. PICK at \in Places(text, pattern, n) : TRUE
  BY <1>0, PlacesRestrict
<1>2. /\ at[n] \in 0..Len(text) /\ At(text, pattern[n], at[n])
      /\ at[n] + Len(pattern[n]) <= Len(text) /\ at[1] = 0
  BY <1>0 DEF Places
<1>3. CASE n = 1
  <2>1. end = 0 /\ At(text, pattern[n], 0) /\ 0 \in 0..(Len(text) - Len(pattern[n]))
    BY <1>0, <1>2, <1>3 DEF Walked
  <2>2. 0 \in Find(text, pattern[n], end)
    BY <1>0, <2>1 DEF Find
  <2>. QED  BY <1>3, <2>2 DEF Found
<1>4. CASE n > 1
  <2>0. n - 1 \in 1..n /\ n - 1 < n /\ (n - 1) + 1 = n
    BY <1>0, <1>4
  <2>1. /\ [k \in 1..(n - 1) |-> at[k]] \in Places(text, pattern, n - 1)
        /\ at[n - 1] + Len(pattern[n - 1]) <= at[n]
    BY <1>0, <2>0, PlacesRestrict
  <2>2. end <= at[n - 1] + Len(pattern[n - 1])
    BY <1>0, <1>4, <2>1 DEF Walked
  <2>3. at[n - 1] + Len(pattern[n - 1]) \in Nat
    BY <1>0, <1>4, LenProperties, ElementOfSeq DEF Places, Texts
  <2>4. at[n] \in end..(Len(text) - Len(pattern[n]))
    BY <1>0, <1>2, <2>1, <2>2, <2>3
  <2>5. Find(text, pattern[n], end) # {}
    BY <1>0, <1>2, <2>4, FoundIfAnywhere
  <2>. QED  BY <1>0, <1>4, <2>5 DEF Found
<1>. QED  BY <1>0, <1>3, <1>4

\* Behind the last part: the pattern matches if the text ends there, or if a star
\* stands for the rest.
LEMMA WalkEnds ==
  ASSUME NEW text \in Texts, NEW pattern \in Seq(Texts), Len(pattern) > 1,
         NEW end \in 0..Len(text), Walked(text, pattern, Len(pattern) + 1, end),
         pattern[Len(pattern)] = <<>> \/ end = Len(text)
  PROVE  Glob(text, pattern)
<1>. DEFINE n == Len(pattern)
<1>0. Len(text) \in Nat /\ n \in Nat /\ n > 1 /\ pattern[n] \in Texts
  BY LenProperties, ElementOfSeq DEF Texts
<1>1. PICK at \in Places(text, pattern, n) : at[n] + Len(pattern[n]) = end
  BY <1>0 DEF Walked
<1>2. CASE end = Len(text)
  BY <1>1, <1>2 DEF Glob
<1>3. CASE pattern[n] = <<>>
  <2>1. n - 1 \in 1..(n - 1) /\ (n - 1) + 1 = n
    BY <1>0
  <2>2. /\ [k \in 1..(n - 1) |-> at[k]] \in Places(text, pattern, n - 1)
        /\ at[n - 1] + Len(pattern[n - 1]) <= at[n]
    BY <1>0, PlacesRestrict
  <2>3. At(text, pattern[n], Len(text)) /\ Len(pattern[n]) = 0
    BY <1>0, <1>3, SubSeqEmpty DEF At
  <2>4. at[n] \in 0..Len(text)
    BY <1>0 DEF Places
  <2>5. at[n - 1] \in 0..Len(text) /\ Len(pattern[n - 1]) \in Nat
    <3>0. at \in [1..n -> 0..Len(text)]
      BY DEF Places
    <3>2. n - 1 \in 1..n
      BY <1>0
    <3>1. at[n - 1] \in 0..Len(text)
      BY <3>0, <3>2
    <3>3. pattern[n - 1] \in Seq(Characters)
      BY <3>2, ElementOfSeq DEF Texts
    <3>. QED  BY <3>1, <3>3, LenProperties
  <2>. DEFINE fst == [k \in 1..(n - 1) |-> at[k]]
  <2>6. /\ fst[n - 1] + Len(pattern[n - 1]) <= Len(text)
        /\ Len(text) + Len(pattern[(n - 1) + 1]) <= Len(text)
        /\ At(text, pattern[(n - 1) + 1], Len(text)) /\ Len(text) \in 0..Len(text)
    BY <1>0, <2>1, <2>2, <2>3, <2>4, <2>5
  <2>. HIDE DEF fst
  <2>7. [k \in 1..((n - 1) + 1) |-> IF k = (n - 1) + 1 THEN Len(text) ELSE fst[k]]
          \in Places(text, pattern, (n - 1) + 1)
    BY <2>1, <2>2, <2>6, PlacesExtend DEF fst
  <2>8. [k \in 1..n |-> IF k = n THEN Len(text) ELSE fst[k]] \in Places(text, pattern, n)
    BY <2>1, <2>7
  <2>. QED  BY <1>0, <2>3, <2>8 DEF Glob
<1>. QED  BY <1>2, <1>3
-------------------------------------------------------------------------------
(* The evaluation of a rule *)

\* The shape of a rule, and of the term under evaluation.
LEMMA RuleShape ==
  ASSUME ArgumentsOK, MatchTypeOK
  PROVE  /\ Len(rule) \in Nat /\ Len(rule) >= 1 /\ DOMAIN rule = 1..Len(rule)
         /\ \A a \in DOMAIN rule :
              /\ Len(rule[a]) \in Nat /\ Len(rule[a]) >= 1
              /\ DOMAIN rule[a] = 1..Len(rule[a])
              /\ \A t \in DOMAIN rule[a] : rule[a][t] \in Term
         /\ alt \in 1..Len(rule) /\ term \in 1..Len(rule[alt]) /\ Now \in Term
<1>. DEFINE Alternatives == Seq(Term) \ {<<>>}
<1>1. rule \in Seq(Alternatives) /\ rule # <<>>
  BY MatchingAssumption DEF ArgumentsOK
<1>. HIDE DEF Alternatives
<1>2. /\ Len(rule) \in Nat /\ DOMAIN rule = 1..Len(rule) /\ Len(rule) # 0
      /\ \A a \in DOMAIN rule : rule[a] \in Alternatives
  BY <1>1, LenProperties, EmptySeq, ElementOfSeq
<1>3. \A a \in DOMAIN rule : rule[a] \in Seq(Term) /\ rule[a] # <<>>
  BY <1>2 DEF Alternatives
<1>4. \A a \in DOMAIN rule :
        /\ Len(rule[a]) \in Nat /\ DOMAIN rule[a] = 1..Len(rule[a]) /\ Len(rule[a]) # 0
        /\ \A t \in DOMAIN rule[a] : rule[a][t] \in Term
  BY <1>3, LenProperties, EmptySeq, ElementOfSeq
<1>. QED  BY <1>2, <1>4 DEF MatchTypeOK, Now

\* The texts of a certificate and the pattern of a term on texts.
LEMMA TextShape ==
  ASSUME ArgumentsOK, MatchTypeOK, Now.tag \in TextTags
  PROVE  /\ Names \in Seq(Texts) /\ Len(Names) \in Nat
         /\ DOMAIN Names = 1..Len(Names)
         /\ Pattern \in Seq(Texts) /\ Len(Pattern) \in Nat /\ Len(Pattern) >= 1
         /\ \A i \in 1..Len(Names) : Names[i] \in Texts /\ Len(Names[i]) \in Nat
         /\ \A i \in 1..Len(Pattern) : Pattern[i] \in Texts /\ Len(Pattern[i]) \in Nat
<1>1. Now \in Term
  BY RuleShape
<1>2. Pattern \in Seq(Texts) /\ Pattern # <<>>
  BY <1>1 DEF Term, TextTags, SetTags, Pattern
<1>3. cert \in Certificate
  BY MatchingAssumption DEF ArgumentsOK
<1>4. Names \in Seq(Texts)
  BY <1>3 DEF Certificate, Names
<1>5. \A s \in Seq(Texts) :
        /\ Len(s) \in Nat /\ DOMAIN s = 1..Len(s)
        /\ \A i \in 1..Len(s) : s[i] \in Texts /\ Len(s[i]) \in Nat
  BY LenProperties, ElementOfSeq DEF Texts
<1>6. Len(Pattern) >= 1
  BY <1>2, <1>5, EmptySeq
<1>. QED  BY <1>2, <1>4, <1>5, <1>6

\* A verdict ends the evaluation.
LEMMA OnConclude ==
  ASSUME IInv, NEW v \in Verdicts, Conclude(v),
         v = "true" => \E a \in DOMAIN rule : \A t \in DOMAIN rule[a] : Right(rule[a][t], cert),
         v = "false" => \A a \in DOMAIN rule : Refuted(a)
  PROVE  IInv'
<1>1. /\ rule' = rule /\ cert' = cert /\ alt' = alt /\ term' = term
      /\ name' = name /\ part' = part /\ pos' = pos
      /\ phase' = "done" /\ verdict' = {v}
  BY DEF Conclude, inputs, walk
<1>2. ArgumentsOK' /\ MatchTypeOK'
  BY <1>1 DEF IInv, ArgumentsOK, MatchTypeOK, Verdicts
<1>3. RuleInv' /\ NameInv' /\ WalkInv'
  BY <1>1 DEF RuleInv, Running, NameInv, WalkInv, Matching
<1>4. TrueIsRight'
  BY <1>1 DEF TrueIsRight
<1>5. FalseIsJustified'
  BY <1>1 DEF FalseIsJustified, Refuted
<1>. QED  BY <1>2, <1>3, <1>4, <1>5 DEF IInv

\* A term that holds is right.
LEMMA OnHolds ==
  ASSUME IInv, Running, Right(Now, cert), Holds
  PROVE  IInv'
<1>1. ArgumentsOK /\ MatchTypeOK /\ RuleInv /\ verdict = {}
  BY Zenon DEF IInv, MatchTypeOK, Running
<1>2. \A t \in 1..(term - 1) : Right(rule[alt][t], cert)
  BY <1>1 DEF RuleInv
<1>3. \A t \in 1..term : Right(rule[alt][t], cert)
  BY <1>1, <1>2, RuleShape DEF Now
<1>4. CASE term < Len(rule[alt])
  <2>1. /\ rule' = rule /\ cert' = cert /\ alt' = alt /\ term' = term + 1
        /\ name' = name /\ part' = part /\ pos' = pos
        /\ phase' = "term" /\ verdict' = {}
    BY <1>1, <1>4 DEF Holds, inputs, walk
  <2>2. ArgumentsOK' /\ MatchTypeOK'
    BY <1>1, <1>4, <2>1, RuleShape DEF ArgumentsOK, MatchTypeOK
  <2>3. RuleInv'
    <3>1. \A t \in 1..(term' - 1) : Right(rule[alt][t], cert)
      BY <1>1, <1>3, <2>1, RuleShape
    <3>. QED  BY <1>1, <2>1, <3>1 DEF RuleInv, Running, Refuted
  <2>. QED  BY <2>1, <2>2, <2>3 DEF IInv, NameInv, WalkInv, Matching,
              TrueIsRight, FalseIsJustified
<1>5. CASE ~(term < Len(rule[alt]))
  <2>1. \A t \in DOMAIN rule[alt] : Right(rule[alt][t], cert)
    BY <1>1, <1>3, <1>5, RuleShape
  <2>2. Conclude("true") /\ alt \in DOMAIN rule
    BY <1>1, <1>5, RuleShape DEF Holds
  <2>. QED  BY <2>1, <2>2, OnConclude DEF Verdicts
<1>. QED  BY <1>4, <1>5

\* A term that fails refutes its alternative.
LEMMA OnFails ==
  ASSUME IInv, Running, Findable(Now) => ~Right(Now, cert), Fails
  PROVE  IInv'
<1>1. ArgumentsOK /\ MatchTypeOK /\ RuleInv /\ verdict = {}
  BY Zenon DEF IInv, MatchTypeOK, Running
<1>2. \A a \in 1..(alt - 1) : Refuted(a)
  BY <1>1 DEF RuleInv
<1>3. Refuted(alt)
  BY <1>1 DEF Refuted, Now, MatchTypeOK
<1>4. \A a \in 1..alt : Refuted(a)
  BY <1>1, <1>2, <1>3, RuleShape
<1>5. CASE alt < Len(rule)
  <2>1. /\ rule' = rule /\ cert' = cert /\ alt' = alt + 1 /\ term' = 1
        /\ name' = name /\ part' = part /\ pos' = pos
        /\ phase' = "term" /\ verdict' = {}
    BY <1>1, <1>5 DEF Fails, inputs, walk
  <2>2. ArgumentsOK' /\ MatchTypeOK'
    BY <1>1, <1>5, <2>1, RuleShape DEF ArgumentsOK, MatchTypeOK
  <2>3. RuleInv'
    <3>1. \A a \in 1..(alt' - 1) : Refuted(a)
      BY <1>1, <1>4, <2>1, RuleShape
    <3>. QED  BY <1>1, <2>1, <3>1 DEF RuleInv, Running, Refuted
  <2>. QED  BY <2>1, <2>2, <2>3 DEF IInv, NameInv, WalkInv, Matching,
              TrueIsRight, FalseIsJustified
<1>6. CASE ~(alt < Len(rule))
  <2>1. \A a \in DOMAIN rule : Refuted(a)
    BY <1>1, <1>4, <1>6, RuleShape
  <2>. QED  BY <1>6, <2>1, OnConclude DEF Fails, Verdicts
<1>. QED  BY <1>5, <1>6

\* A text that does not match gives way to the next one.
LEMMA OnNextName ==
  ASSUME IInv, Matching, Findable(Now) => ~Matches(Text, Pattern), NextName
  PROVE  IInv'
<1>1. /\ ArgumentsOK /\ MatchTypeOK /\ RuleInv /\ NameInv
      /\ phase = "match" /\ Now.tag \in TextTags /\ name <= Len(Names)
  BY DEF IInv, MatchTypeOK, Matching
<1>2. /\ rule' = rule /\ cert' = cert /\ alt' = alt /\ term' = term
      /\ name' = name + 1 /\ part' = 1 /\ pos' = 0
      /\ phase' = phase /\ verdict' = verdict
  BY DEF NextName, inputs
<1>3. Now' = Now /\ Names' = Names /\ Pattern' = Pattern
  BY <1>2 DEF Now, Names, Pattern
<1>4. Len(Names) \in Nat /\ Len(Pattern) \in Nat /\ Len(Pattern) >= 1
      /\ name \in Nat /\ name >= 1
  BY <1>1, TextShape DEF MatchTypeOK
<1>5. ArgumentsOK'
  BY <1>1, <1>2 DEF ArgumentsOK
<1>6. MatchTypeOK'
  <2>1. name' <= Len(Names') => Len(Text') \in Nat
    BY <1>1, <1>2, <1>3, <1>4, TextShape DEF Text
  <2>. QED  BY <1>1, <1>2, <1>3, <1>4, <2>1 DEF MatchTypeOK
<1>7. RuleInv'
  BY <1>1, <1>2 DEF RuleInv, Running, Refuted
<1>8. NameInv'
  <2>1. \A i \in 1..(name - 1) : Findable(Now) => ~Matches(Names[i], Pattern)
    BY <1>1 DEF NameInv
  <2>2. \A i \in 1..name : Findable(Now) => ~Matches(Names[i], Pattern)
    BY <1>4, <2>1 DEF Text
  <2>3. \A i \in 1..(name' - 1) : Findable(Now) => ~Matches(Names[i], Pattern)
    BY <1>2, <1>4, <2>2
  <2>. QED  BY <1>3, <2>3 DEF NameInv
<1>9. WalkInv'
  BY <1>2 DEF WalkInv, Walked
<1>. QED  BY <1>2, <1>5, <1>6, <1>7, <1>8, <1>9 DEF IInv, TrueIsRight, FalseIsJustified
-------------------------------------------------------------------------------
(* The actions *)

LEMMA OnParse == IInv /\ Parse => IInv'
<1>. SUFFICES ASSUME IInv, Parse PROVE IInv'
  OBVIOUS
<1>1. ArgumentsOK /\ MatchTypeOK /\ phase = "parse" /\ verdict = {}
  BY Zenon DEF IInv, MatchTypeOK, Parse
<1>. DEFINE Bad == \E a \in DOMAIN rule : \E t \in DOMAIN rule[a] : rule[a][t].tag = "unknown"
<1>2. CASE Bad
  BY <1>2, OnConclude DEF Parse, Verdicts
<1>3. CASE ~Bad
  <2>1. /\ rule' = rule /\ cert' = cert /\ alt' = alt /\ term' = term
        /\ name' = name /\ part' = part /\ pos' = pos
        /\ phase' = "term" /\ verdict' = verdict
    BY <1>3 DEF Parse, inputs, walk
  <2>2. ArgumentsOK' /\ MatchTypeOK'
    BY <1>1, <2>1 DEF ArgumentsOK, MatchTypeOK
  <2>3. alt = 1 /\ term = 1
    BY <1>1 DEF IInv, RuleInv
  <2>4. RuleInv'
    BY <2>1, <2>3 DEF RuleInv
  <2>. QED  BY <1>1, <2>1, <2>2, <2>4
       DEF IInv, NameInv, WalkInv, Matching, TrueIsRight, FalseIsJustified
<1>. QED  BY <1>2, <1>3

LEMMA OnSetTerm == IInv /\ SetTerm => IInv'
<1>. SUFFICES ASSUME IInv, SetTerm PROVE IInv'
  OBVIOUS
<1>1. Running /\ Now.tag \in SetTags
  BY DEF SetTerm, Running
<1>2. Right(Now, cert) <=> Now.value \subseteq cert.sets[Now.tag]
  BY <1>1 DEF Right
<1>. QED  BY <1>1, <1>2, OnHolds, OnFails DEF SetTerm

LEMMA OnBrokenTerm == IInv /\ BrokenTerm => IInv'
BY OnConclude DEF BrokenTerm, Verdicts

LEMMA OnTextTerm == IInv /\ TextTerm => IInv'
<1>. SUFFICES ASSUME IInv, TextTerm PROVE IInv'
  OBVIOUS
<1>1. /\ ArgumentsOK /\ MatchTypeOK /\ RuleInv
      /\ phase = "term" /\ verdict = {} /\ Now.tag \in TextTags
  BY Zenon DEF IInv, MatchTypeOK, TextTerm
<1>2. /\ rule' = rule /\ cert' = cert /\ alt' = alt /\ term' = term
      /\ name' = 1 /\ part' = 1 /\ pos' = 0
      /\ phase' = "match" /\ verdict' = {}
  BY <1>1 DEF TextTerm, inputs
<1>3. Now' = Now /\ Names' = Names /\ Pattern' = Pattern
  BY <1>2 DEF Now, Names, Pattern
<1>4. ArgumentsOK'
  BY <1>1, <1>2 DEF ArgumentsOK
<1>5. MatchTypeOK'
  <2>1. Len(Names) \in Nat /\ Len(Pattern) \in Nat
        /\ (1 <= Len(Names) => Len(Names[1]) \in Nat)
    BY <1>1, TextShape
  <2>2. name' <= Len(Names') => pos' <= Len(Text')
    BY <1>2, <1>3, <2>1 DEF Text
  <2>3. part' <= Len(Pattern') + 1 /\ name' <= Len(Names') + 1
    BY <1>2, <1>3, <2>1
  <2>. QED  BY <1>1, <1>2, <1>3, <2>2, <2>3 DEF MatchTypeOK
<1>6. RuleInv'
  BY <1>1, <1>2 DEF RuleInv, Running, Refuted
<1>7. NameInv' /\ WalkInv'
  BY <1>2 DEF NameInv, WalkInv, Walked
<1>. QED  BY <1>2, <1>4, <1>5, <1>6, <1>7 DEF IInv, TrueIsRight, FalseIsJustified

LEMMA OnNoNameLeft == IInv /\ NoNameLeft => IInv'
<1>. SUFFICES ASSUME IInv, NoNameLeft PROVE IInv'
  OBVIOUS
<1>1. /\ ArgumentsOK /\ MatchTypeOK /\ NameInv
      /\ phase = "match" /\ Now.tag \in TextTags /\ name > Len(Names)
  BY DEF IInv, MatchTypeOK, NoNameLeft
<1>2. ASSUME Findable(Now) PROVE ~Right(Now, cert)
  <2>1. \A i \in 1..(name - 1) : ~Matches(Names[i], Pattern)
    BY <1>1, <1>2 DEF NameInv
  <2>2. \A i \in DOMAIN Names : ~Matches(Names[i], Pattern)
    BY <1>1, <2>1, TextShape DEF MatchTypeOK
  <2>. QED  BY <1>1, <2>2 DEF Right, Names, Pattern, TextTags, SetTags
<1>. QED  BY <1>1, <1>2, OnFails DEF NoNameLeft, Running

\* A text that matches makes its term right.
LEMMA MatchIsRight ==
  ASSUME IInv, Matching, Matches(Text, Pattern)
  PROVE  Right(Now, cert) /\ Running
<1>1. /\ ArgumentsOK /\ MatchTypeOK
      /\ phase = "match" /\ Now.tag \in TextTags /\ name <= Len(Names)
  BY DEF IInv, MatchTypeOK, Matching
<1>2. name \in DOMAIN Names
  BY <1>1, TextShape DEF MatchTypeOK
<1>. QED  BY <1>1, <1>2 DEF Right, Running, Names, Text, Pattern, TextTags, SetTags

LEMMA OnContains == IInv /\ Contains => IInv'
<1>. SUFFICES ASSUME IInv, Contains PROVE IInv'
  OBVIOUS
<1>1. Matching /\ Len(Pattern) = 1
  BY DEF Contains
<1>2. Matches(Text, Pattern) <=> Find(Text, Pattern[1], 0) # {}
  BY <1>1 DEF Matches, Occurs
<1>. QED  BY <1>1, <1>2, MatchIsRight, OnHolds, OnNextName DEF Contains

\* The text and the pattern under the walk.
LEMMA WalkShape ==
  ASSUME IInv, Matching, Len(Pattern) > 1
  PROVE  /\ Text \in Texts /\ Len(Text) \in Nat
         /\ Pattern \in Seq(Texts) /\ Len(Pattern) \in Nat
         /\ \A i \in 1..Len(Pattern) : Len(Pattern[i]) \in Nat
         /\ part \in 1..(Len(Pattern) + 1) /\ pos \in 0..Len(Text)
         /\ Walked(Text, Pattern, part, pos)
<1>1. /\ ArgumentsOK /\ MatchTypeOK /\ WalkInv
      /\ phase = "match" /\ Now.tag \in TextTags /\ name <= Len(Names)
  BY DEF IInv, MatchTypeOK, Matching
<1>2. name \in 1..Len(Names) /\ pos \in Nat /\ part \in Nat /\ part >= 1
      /\ part <= Len(Pattern) + 1 /\ pos <= Len(Text)
  BY <1>1, TextShape DEF MatchTypeOK
<1>. QED  BY <1>1, <1>2, TextShape DEF WalkInv, Text

LEMMA OnTakePart == IInv /\ TakePart => IInv'
<1>. SUFFICES ASSUME IInv, TakePart PROVE IInv'
  OBVIOUS
<1>1. Matching /\ Len(Pattern) > 1 /\ part <= Len(Pattern)
  BY DEF TakePart
<1>2. part \in 1..Len(Pattern) /\ pos \in Nat
  BY <1>1, WalkShape
<1>. DEFINE found == Found(Text, Pattern, part, pos)
<1>3. Take(found)
  BY DEF TakePart, Found
<1>4. CASE found = {}
  <2>1. ~Glob(Text, Pattern)
    BY <1>1, <1>2, <1>4, WalkShape, WalkStuck
  <2>2. ~Matches(Text, Pattern)
    BY <1>1, <2>1, WalkShape DEF Matches
  <2>3. NextName
    BY <1>3, <1>4 DEF Take
  <2>. QED  BY <1>1, <2>2, <2>3, OnNextName
<1>5. CASE found # {}
  <2>. HIDE DEF found
  <2>1. PICK i \in found : pos' = i + Len(Pattern[part])
    BY <1>3, <1>5 DEF Take
  <2>2. /\ rule' = rule /\ cert' = cert /\ alt' = alt /\ term' = term
        /\ name' = name /\ part' = part + 1
        /\ phase' = phase /\ verdict' = verdict
    BY <1>3, <1>5 DEF Take, inputs
  <2>3. Now' = Now /\ Names' = Names /\ Pattern' = Pattern /\ Text' = Text
    BY <2>2 DEF Now, Names, Pattern, Text
  <2>4. /\ Walked(Text, Pattern, part + 1, i + Len(Pattern[part]))
        /\ i + Len(Pattern[part]) \in 0..Len(Text)
    BY <1>1, <1>2, WalkShape, WalkOn DEF found
  <2>5. /\ ArgumentsOK /\ MatchTypeOK /\ RuleInv /\ NameInv /\ phase = "match"
        /\ Len(Text) \in Nat /\ Len(Pattern) \in Nat
    BY <1>1, WalkShape DEF IInv, Matching
  <2>6. ArgumentsOK'
    BY <2>2, <2>5 DEF ArgumentsOK
  <2>7. MatchTypeOK'
    <3>1. pos' \in Nat /\ pos' <= Len(Text)
      BY <2>1, <2>4, <2>5
    <3>2. part' \in Nat \ {0} /\ part' <= Len(Pattern) + 1
      BY <1>2, <2>2, <2>5
    <3>. QED  BY <2>2, <2>3, <2>5, <3>1, <3>2 DEF MatchTypeOK
  <2>8. RuleInv' /\ NameInv'
    BY <2>2, <2>3, <2>5 DEF RuleInv, Running, Refuted, NameInv
  <2>9. WalkInv'
    BY <2>1, <2>2, <2>3, <2>4 DEF WalkInv
  <2>. QED  BY <2>2, <2>6, <2>7, <2>8, <2>9 DEF IInv, TrueIsRight, FalseIsJustified
<1>. QED  BY <1>4, <1>5

LEMMA OnAllParts == IInv /\ AllParts => IInv'
<1>. SUFFICES ASSUME IInv, AllParts PROVE IInv'
  OBVIOUS
<1>1. Matching /\ Len(Pattern) > 1 /\ part > Len(Pattern)
  BY DEF AllParts
<1>2. part = Len(Pattern) + 1 /\ Walked(Text, Pattern, Len(Pattern) + 1, pos)
  BY <1>1, WalkShape
<1>. DEFINE Ended == Pattern[Len(Pattern)] = <<>> \/ pos = Len(Text)
<1>3. CASE Ended
  <2>1. Glob(Text, Pattern)
    BY <1>1, <1>2, <1>3, WalkShape, WalkEnds
  <2>2. Matches(Text, Pattern)
    BY <1>1, <2>1, WalkShape DEF Matches
  <2>. QED  BY <1>1, <1>3, <2>2, MatchIsRight, OnHolds DEF AllParts
<1>4. CASE ~Ended
  <2>1. Now.tag \in TextTags
    BY <1>1 DEF IInv, MatchTypeOK, Matching
  <2>2. ~Findable(Now)
    BY <1>1, <1>4, <2>1 DEF Findable, Pattern, TextTags, SetTags
  <2>. QED  BY <1>1, <1>4, <2>2, OnNextName DEF AllParts
<1>. QED  BY <1>3, <1>4
-------------------------------------------------------------------------------
(* Theorems *)

LEMMA AtStart == Init => IInv
<1>. SUFFICES ASSUME Init PROVE IInv
  OBVIOUS
<1>1. rule \in Seq(Seq(Term) \ {<<>>}) /\ rule # <<>>
  BY MatchingAssumption DEF Init
<1>2. Len(rule) \in Nat \ {0} /\ DOMAIN rule = 1..Len(rule)
  BY <1>1, LenProperties, EmptySeq
<1>3. rule[1] \in Seq(Term) /\ rule[1] # <<>>
  BY <1>1, <1>2, ElementOfSeq
<1>4. 1 \in DOMAIN rule /\ 1 \in DOMAIN rule[1]
  BY <1>2, <1>3, LenProperties, EmptySeq
<1>5. ArgumentsOK
  BY DEF Init, ArgumentsOK
<1>6. MatchTypeOK
  BY <1>4 DEF Init, MatchTypeOK
<1>7. RuleInv
  BY DEF Init, RuleInv, Running
<1>. QED  BY <1>5, <1>6, <1>7 DEF Init, IInv, NameInv, WalkInv, Matching,
           TrueIsRight, FalseIsJustified

LEMMA Stuttering == IInv /\ UNCHANGED vars => IInv'
BY DEF IInv, ArgumentsOK, MatchTypeOK, RuleInv, Running, Refuted, NameInv, WalkInv,
       Matching, Walked, TrueIsRight, FalseIsJustified, Now, Names, Text, Pattern,
       vars, inputs, walk

\* The walk of simple_match, the loop over the texts, And and Or keep the
\* invariant: each of them may forget what it has passed.
THEOREM Invariance == Spec => []IInv
<1>1. Init => IInv
  BY AtStart
<1>2. IInv /\ [Next]_vars => IInv'
  BY OnParse, OnSetTerm, OnBrokenTerm, OnTextTerm, OnNoNameLeft, OnContains,
     OnTakePart, OnAllParts, Stuttering DEF Next
<1>. QED  BY <1>1, <1>2, PTL DEF Spec

\* The evaluation stays within its rule, its certificate, its pattern and its text.
THEOREM MatchTypeCorrectness == Spec => []MatchTypeOK
<1>1. IInv => MatchTypeOK
  BY DEF IInv
<1>. QED  BY <1>1, Invariance, PTL

\* A rule that matches is right, for every rule and every certificate: simple_match
\* never takes overlapping or misplaced parts for a match.
THEOREM MatchIsSound == Spec => []TrueIsRight
<1>1. IInv => TrueIsRight
  BY DEF IInv
<1>. QED  BY <1>1, Invariance, PTL

\* A rule that does not match is wrong, but for the globs that do not end in a
\* star: for the others the first occurrence of a part is always good enough.
THEOREM MatchIsComplete == Spec => []FalseIsJustified
<1>1. IInv => FalseIsJustified
  BY DEF IInv
<1>. QED  BY <1>1, Invariance, PTL
===============================================================================
