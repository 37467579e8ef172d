------------------------------ MODULE ListsProofs -----------------------------
(***************************************************************************)
(* What the operators of Lists return, for lists of any length.  Induction *)
(* is over sets: the library's theorems about predicates take an operator. *)
(***************************************************************************)
EXTENDS Lists, WellFoundedInduction, SequenceTheorems, TLAPS

\* A set of naturals that is not empty has a least element.
LEMMA LeastElement ==
  ASSUME NEW S \in SUBSET Nat, S # {}
  PROVE  \E i \in S : \A j \in S : i <= j
<1>1. \E i \in S : \A j \in S : ~(<<j, i>> \in OpToRel(<, Nat))
  BY NatLessThanWellFounded, WFMin
<1>2. \A i, j \in S : ~(<<j, i>> \in OpToRel(<, Nat)) => i <= j
  BY DEF OpToRel
<1>. QED  BY <1>1, <1>2

\* Induction from 0 up to n: a set that holds 0, and i when it holds i - 1, holds
\* all of them.
LEMMA UpwardInduction ==
  ASSUME NEW n \in Nat, NEW S, 0 \in S, \A i \in 1..n : i - 1 \in S => i \in S
  PROVE  \A i \in 0..n : i \in S
<1>. DEFINE Bad == {i \in 0..n : i \notin S}
<1>1. ASSUME Bad # {} PROVE FALSE
  <2>1. Bad \in SUBSET Nat
    OBVIOUS
  <2>2. PICK i \in Bad : \A j \in Bad : i <= j
    BY <1>1, <2>1, LeastElement
  <2>3. i \in 1..n /\ i - 1 \in 0..n /\ i - 1 \notin Bad
    BY <2>2
  <2>. QED  BY <2>2, <2>3
<1>. QED  BY <1>1

\* The defining equation of the function inside Joined.
IsJoin(f, parts, n) ==
  f = [i \in 0..n |-> IF i = 0 THEN <<>> ELSE f[i - 1] \o parts[i]]

\* Some function satisfies it, whatever the parts are.
LEMMA JoinExists ==
  ASSUME NEW parts, NEW n \in Nat
  PROVE  \E f : IsJoin(f, parts, n)
<1>. DEFINE S == {m \in 0..n : \E f : IsJoin(f, parts, m)}
<1>1. 0 \in S
  <2>1. IsJoin([i \in 0..0 |-> <<>>], parts, 0)
    BY DEF IsJoin
  <2>. QED  BY <2>1
<1>2. ASSUME NEW m \in 1..n, m - 1 \in S PROVE m \in S
  <2>1. PICK f : IsJoin(f, parts, m - 1)
    BY <1>2
  <2>. DEFINE g == [i \in 0..m |-> IF i = m THEN f[m - 1] \o parts[m] ELSE f[i]]
  <2>2. \A i \in 0..(m-1) : f[i] = IF i = 0 THEN <<>> ELSE f[i - 1] \o parts[i]
    BY <2>1 DEF IsJoin
  <2>3. \A i \in 0..m : g[i] = IF i = 0 THEN <<>> ELSE g[i - 1] \o parts[i]
    BY <2>2
  <2>4. IsJoin(g, parts, m)
    BY <2>3 DEF IsJoin
  <2>. QED  BY <2>4
<1>. HIDE DEF S
<1>3. n \in S
  BY <1>1, <1>2, UpwardInduction
<1>. QED  BY <1>3 DEF S

\* So Joined is the last value of such a function.
LEMMA JoinedIs ==
  ASSUME NEW parts, Len(parts) \in Nat
  PROVE  \E f : IsJoin(f, parts, Len(parts)) /\ Joined(parts) = f[Len(parts)]
<1>. DEFINE f == CHOOSE f : IsJoin(f, parts, Len(parts))
<1>1. IsJoin(f, parts, Len(parts))
  BY JoinExists
<1>2. Joined(parts) = f[Len(parts)]
  BY DEF Joined, IsJoin
<1>. QED  BY <1>1, <1>2

\* What f[i] is while the parts are joined.
JoinsUp(f, parts, S) ==
  /\ f[0] = <<>> /\ Joined(parts) = f[Len(parts)]
  /\ \A i \in 0..Len(parts) : f[i] \in Seq(S)
  /\ \A i \in 1..Len(parts) : /\ f[i] = f[i - 1] \o parts[i]
                              /\ f[i - 1] \in Seq(S) /\ parts[i] \in Seq(S)

\* Lists of parts are joined one part at a time.
LEMMA JoinedStepwise ==
  ASSUME NEW S, NEW parts \in Seq(Seq(S))
  PROVE  \E f : JoinsUp(f, parts, S)
<1>. DEFINE n == Len(parts)
<1>1. n \in Nat /\ parts \in [1..n -> Seq(S)]
  BY LenProperties
<1>. HIDE DEF n
<1>2. PICK f : IsJoin(f, parts, n) /\ Joined(parts) = f[n]
  BY <1>1, JoinedIs DEF n
<1>3. \A i \in 0..n : f[i] = IF i = 0 THEN <<>> ELSE f[i - 1] \o parts[i]
  BY <1>2 DEF IsJoin
<1>4. 0 \in 0..n /\ \A i \in 1..n : i \in 0..n /\ i # 0 /\ i - 1 \in 0..n
  BY <1>1
<1>5. \A i \in 1..n : f[i] = f[i - 1] \o parts[i] /\ parts[i] \in Seq(S)
  BY <1>1, <1>3, <1>4, Zenon
<1>6. f[0] = <<>> /\ f[0] \in Seq(S)
  BY <1>3, <1>4, EmptySeq, Zenon
<1>. DEFINE Good == {i \in 0..n : f[i] \in Seq(S)}
<1>7. 0 \in Good
  BY <1>4, <1>6
<1>8. \A i \in 1..n : i - 1 \in Good => i \in Good
  <2>. SUFFICES ASSUME NEW i \in 1..n, i - 1 \in Good PROVE i \in Good
    OBVIOUS
  <2>1. f[i - 1] \in Seq(S) /\ i \in 0..n
    BY <1>4
  <2>2. f[i - 1] \o parts[i] \in Seq(S)
    BY <1>5, <2>1, ConcatProperties
  <2>. QED  BY <1>5, <2>1, <2>2
<1>. HIDE DEF Good
<1>9. \A i \in 0..n : i \in Good
  BY <1>1, <1>7, <1>8, UpwardInduction
<1>10. \A i \in 0..n : f[i] \in Seq(S)
  BY <1>9 DEF Good
<1>. QED  BY <1>2, <1>4, <1>5, <1>6, <1>10, Zenon DEF JoinsUp, n

\* Lists joined are a list.
LEMMA JoinedIsList ==
  ASSUME NEW S, NEW parts \in Seq(Seq(S))
  PROVE  Joined(parts) \in Seq(S)
<1>1. PICK f : JoinsUp(f, parts, S)
  BY JoinedStepwise
<1>2. Len(parts) \in 0..Len(parts)
  BY LenProperties
<1>. QED  BY <1>1, <1>2, Zenon DEF JoinsUp

\* x is a member of the list.
Among(x, list) == \E i \in DOMAIN list : list[i] = x

\* The members of two lists, one after the other.
LEMMA AmongConcat ==
  ASSUME NEW S, NEW left \in Seq(S), NEW right \in Seq(S), NEW x
  PROVE  Among(x, left \o right) <=> Among(x, left) \/ Among(x, right)
<1>1. ASSUME Among(x, left) PROVE Among(x, left \o right)
  BY <1>1, ConcatProperties DEF Among
<1>2. ASSUME Among(x, right) PROVE Among(x, left \o right)
  <2>1. PICK i \in 1..Len(right) : right[i] = x
    BY <1>2 DEF Among
  <2>2. (left \o right)[Len(left) + i] = x /\ Len(left) + i \in 1..Len(left \o right)
    BY <2>1, ConcatProperties
  <2>. QED  BY <2>2, ConcatProperties DEF Among
<1>3. ASSUME Among(x, left \o right) PROVE Among(x, left) \/ Among(x, right)
  <2>1. PICK i \in 1..(Len(left) + Len(right)) : (left \o right)[i] = x
    BY <1>3, ConcatProperties DEF Among
  <2>2. CASE i <= Len(left)
    BY <2>1, <2>2, ConcatProperties DEF Among
  <2>3. CASE i > Len(left)
    <3>1. i - Len(left) \in 1..Len(right) /\ right[i - Len(left)] = x
      BY <2>1, <2>3, ConcatProperties
    <3>. QED  BY <3>1 DEF Among
  <2>. QED  BY <2>2, <2>3
<1>. QED  BY <1>1, <1>2, <1>3

\* What is in the joined list is in one of its parts.
LEMMA JoinedMembers ==
  ASSUME NEW S, NEW parts \in Seq(Seq(S)), NEW x
  PROVE  Among(x, Joined(parts)) <=> \E i \in DOMAIN parts : Among(x, parts[i])
<1>. DEFINE n == Len(parts)
<1>1. n \in Nat /\ DOMAIN parts = 1..n
  BY LenProperties
<1>2. PICK f : JoinsUp(f, parts, S)
  BY JoinedStepwise
<1>. HIDE DEF n
<1>. DEFINE Good == {i \in 0..n : Among(x, f[i]) <=> \E j \in 1..i : Among(x, parts[j])}
<1>3. 0 \in Good
  <2>1. ~Among(x, <<>>) /\ f[0] = <<>>
    BY <1>2 DEF Among, JoinsUp
  <2>2. ~Among(x, f[0])
    BY <2>1, Zenon
  <2>. QED  BY <1>1, <2>2
<1>4. ASSUME NEW i \in 1..n, i - 1 \in Good PROVE i \in Good
  <2>1. f[i] = f[i - 1] \o parts[i] /\ f[i - 1] \in Seq(S) /\ parts[i] \in Seq(S)
    BY <1>2, Zenon DEF JoinsUp, n
  <2>2. Among(x, f[i - 1] \o parts[i]) <=> Among(x, f[i - 1]) \/ Among(x, parts[i])
    BY <2>1, AmongConcat
  <2>3. Among(x, f[i]) <=> Among(x, f[i - 1]) \/ Among(x, parts[i])
    BY <2>1, <2>2, Zenon
  <2>4. 1..i = 1..(i - 1) \cup {i}
    BY <1>1
  <2>. QED  BY <1>1, <1>4, <2>3, <2>4
<1>. HIDE DEF Good
<1>5. \A i \in 0..n : i \in Good
  BY <1>1, <1>3, <1>4, UpwardInduction
<1>6. Among(x, f[n]) <=> \E j \in 1..n : Among(x, parts[j])
  BY <1>1, <1>5 DEF Good
<1>. QED  BY <1>1, <1>2, <1>6, Zenon DEF JoinsUp, n

\* Chosen keeps what is wanted, and nothing else.
LEMMA ChosenMembers ==
  ASSUME NEW S, NEW list \in Seq(S), NEW wanted
  PROVE  /\ Chosen(list, wanted) \in Seq(S)
         /\ \A x : Among(x, Chosen(list, wanted)) <=> Among(x, list) /\ x \in wanted
<1>. DEFINE part(x) == IF x \in wanted THEN <<x>> ELSE <<>>
            parts == [i \in DOMAIN list |-> part(list[i])]
<1>1. \A x \in S : part(x) \in Seq(S)
  OBVIOUS
<1>2. \A x, y : Among(x, part(y)) <=> x = y /\ x \in wanted
  BY DEF Among
<1>3. Chosen(list, wanted) = Joined(parts)
  BY DEF Chosen
<1>. HIDE DEF part
<1>4. PICK n \in Nat : list \in [1..n -> S]
  BY SeqDef
<1>5. parts \in [1..n -> Seq(S)]
  BY <1>1, <1>4
<1>6. parts \in Seq(Seq(S)) /\ DOMAIN parts = DOMAIN list
  BY <1>4, <1>5, SeqDef
<1>7. \A i \in DOMAIN list : parts[i] = part(list[i])
  OBVIOUS
<1>. HIDE DEF parts
<1>8. \A x : Among(x, Joined(parts)) <=> \E i \in DOMAIN list : Among(x, parts[i])
  BY <1>6, JoinedMembers, Zenon
<1>9. Joined(parts) \in Seq(S)
  BY <1>6, JoinedIsList
<1>10. \A x : Among(x, list) <=> \E i \in DOMAIN list : list[i] = x
  BY DEF Among
<1>11. \A x : \A i \in DOMAIN list :
         Among(x, parts[i]) <=> list[i] = x /\ x \in wanted
  BY <1>2, <1>7, Zenon
<1>12. \A x : Among(x, Joined(parts)) <=> Among(x, list) /\ x \in wanted
  BY <1>8, <1>10, <1>11, Zenon
<1>. QED  BY <1>3, <1>9, <1>12, Zenon
===============================================================================
