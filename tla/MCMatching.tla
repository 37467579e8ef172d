------------------------------ MODULE MCMatching -------------------------------
(* Small instances of Matching for TLC: every text of up to four letters against *)
(* every pattern of up to three parts, and rules of two or three terms.        *)
EXTENDS Matching, TLC

Up(n) == UNION {[1..k -> {"a", "b"}] : k \in 0..n}
MCCharacters == {"a", "b"}

bare == [texts |-> [t \in TextTags |-> <<>>], sets |-> [t \in SetTags |-> {}],
         broken |-> {}]
is(t, v) == [tag |-> t, value |-> v]
a == <<"a">>  b == <<"b">>

\* One term, one text.
patterns == UNION {[1..k -> Up(2)] : k \in 1..3}
subjects == {[bare EXCEPT !.texts["SUBJECT"] = <<text>>] : text \in Up(4)}

\* Some terms, a certificate with several names, and one that is broken.
terms == {is("SUBJECT", <<a>>), is("SUBJECT", <<b, <<>>>>), is("SAN", <<b, <<>>>>),
          is("EKU", {a}), is("KU", {a, b}), is("unknown", <<a>>)}
MCRules ==
  {<< <<is("SUBJECT", p)>> >> : p \in patterns} \cup
  {<< <<x, y>> >> : x, y \in terms} \cup {<< <<x>>, <<y, z>> >> : x, y, z \in terms}
  \cup {<< <<x, y>>, <<z>> >> : x, y, z \in terms}
MCCertificates ==
  subjects \cup
  {[texts |-> [t \in TextTags |-> IF t = "SAN" THEN s ELSE <<a>>],
    sets |-> [t \in SetTags |-> k], broken |-> x] :
     s \in {<<>>, <<a, b>>}, k \in {{}, {a, b}}, x \in {{}, {"SAN"}, {"EKU"}}}
===============================================================================
