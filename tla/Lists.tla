--------------------------------- MODULE Lists --------------------------------
(***************************************************************************)
(* Lists put together from parts.  FlattenSeq and SelectSeq as a recursive *)
(* function, so that what they return can be proved and not only computed. *)
(***************************************************************************)
EXTENDS Naturals, Sequences

\* The parts, one after another.
Joined(parts) ==
  LET upTo[i \in 0..Len(parts)] ==
        IF i = 0 THEN <<>> ELSE upTo[i - 1] \o parts[i]
  IN upTo[Len(parts)]

\* The members of a list that are wanted, in its order.
Chosen(list, wanted) ==
  Joined([i \in DOMAIN list |->
            IF list[i] \in wanted THEN <<list[i]>> ELSE <<>>])
===============================================================================
