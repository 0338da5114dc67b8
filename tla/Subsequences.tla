---------------------------- MODULE Subsequences ----------------------------
(***************************************************************************)
(* Filtering a sequence by position: the counterpart of Array.filter in    *)
(* the modules that are proved about.                                      *)
(***************************************************************************)
EXTENDS Naturals, Sequences

\* The elements of s at the positions of I, in the order of s.
Chosen(s, I) ==
  LET upto[n \in 0..Len(s)] ==
        IF n = 0 THEN <<>> ELSE IF n \in I THEN Append(upto[n - 1], s[n]) ELSE upto[n - 1]
  IN  upto[Len(s)]
=============================================================================
