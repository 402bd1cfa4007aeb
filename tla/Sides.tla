-------------------------------- MODULE Sides --------------------------------
(* The two sides of a trade contract: cycles and its token. *)
Kind == {"Cycles", "Token"}
Opposite(k) == IF k = "Cycles" THEN "Token" ELSE "Cycles"
=============================================================================
