----------------------------- MODULE MCPerimeter -----------------------------
(* Small bands, a few kinds of request and symmetry. *)
EXTENDS Perimeter, TLC

CONSTANTS c1, c2

Kind(p, t, tok, pat) == [path |-> p, threat |-> t, token |-> tok, pattern |-> pat]

Mixed == {Kind("api", TRUE, "good", 0), Kind("recovery", TRUE, "none", 500),
          Kind("oauth", FALSE, "none", 0)}

Marked == {Kind("api", FALSE, tok, pat) :
              tok \in {"none", "expired", "ending", "good"}, pat \in {0, 400}}

SmallBands == <<1, 2, 4>>
Never == {}
Symmetry == Permutations(Conns)

=============================================================================
