------------------------------- MODULE Filtering -------------------------------
(***************************************************************************)
(* A list with some of its elements taken out, the others in their order.  *)
(* It is what SelectSeq gives for a test of membership; a function, unlike *)
(* an operator defined by recursion over the list, can be reasoned about.  *)
(***************************************************************************)
EXTENDS Integers, Sequences

\* f[n] is what is left of the first n elements.
Dropping(s, gone) ==
  LET f[n \in 0..Len(s)] ==
        IF n = 0 THEN << >>
        ELSE IF s[n] \in gone THEN f[n - 1] ELSE Append(f[n - 1], s[n])
  IN  f[Len(s)]
===============================================================================
