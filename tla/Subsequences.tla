---------------------------- MODULE Subsequences ----------------------------
(* The part of a sequence that stands at chosen places, in its order.       *)
EXTENDS Naturals, Sequences

Keep(s, I) ==
    LET kept[n \in 0..Len(s)] ==
            IF n = 0 THEN <<>>
            ELSE IF n \in I THEN Append(kept[n - 1], s[n]) ELSE kept[n - 1]
    IN  kept[Len(s)]
=============================================================================
