------------------------------ MODULE MCClient ------------------------------
(* Two connections, or a direct caller, with one TokenSource.              *)
EXTENDS Client, TLC

CONSTANTS h1, h2, c1

(* A direct call touches nothing a handler does: the behaviours of the     *)
(* connections and those of direct calls are explored apart.               *)
Apart == run[c1].pc = "idle" \/ \A h \in Handlers : run[h].pc = "idle"

MCSymmetry == Permutations({h1, h2})
=============================================================================
