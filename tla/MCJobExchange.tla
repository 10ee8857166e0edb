--------------------------- MODULE MCJobExchange ---------------------------
(* JobExchange for TLC: the site's clock is behind, the side on which a job *)
(* the backend has given up could still begin.                              *)
EXTENDS JobExchange
SiteBehind == {-1}
=============================================================================
