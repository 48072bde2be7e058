--------------------------- MODULE MC_HttpServer ----------------------------
(* HttpServer with the symmetry of its steady clients, for safety only.      *)
EXTENDS HttpServer, TLC

SteadyAlike == Permutations(Steady)
=============================================================================
