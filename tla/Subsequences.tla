---------------------------- MODULE Subsequences ----------------------------
(* Loops that keep some elements of a slice, in their order. *)
EXTENDS Integers, Sequences

Positions(s) == [k \in DOMAIN s |-> k]

\* for i := range s { if kept { out = append(out, s[i]) } }
Keep(s, S) ==
  LET kept[n \in 0..Len(s)] ==
        IF n = 0 THEN <<>>
        ELSE IF s[n] \in S THEN Append(kept[n - 1], s[n]) ELSE kept[n - 1]
  IN  kept[Len(s)]
=============================================================================
