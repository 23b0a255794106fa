------------------------------- MODULE Slices -------------------------------
(***************************************************************************)
(* Go slices as sequences: the members of a slice, and the loop that       *)
(* copies a slice without some of them.                                    *)
(***************************************************************************)
EXTENDS Naturals, Sequences

Elems(s) == {s[i] : i \in DOMAIN s}

\* for _, x := range s { if x is in T { continue }; out = append(out, x) }
Without(s, T) ==
    LET out[n \in 0..Len(s)] ==
            IF n = 0 THEN <<>>
            ELSE IF s[n] \in T THEN out[n - 1] ELSE Append(out[n - 1], s[n])
    IN  out[Len(s)]
=============================================================================
