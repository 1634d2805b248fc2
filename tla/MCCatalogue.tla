---------------------------- MODULE MCCatalogue -----------------------------
(* Two titles and two torrents; YTS has both torrents for the first title. *)
EXTENDS Catalogue
CONSTANTS t1, t2, h1, h2
OffersDef == [t \in Titles |-> IF t = t1 THEN {h1, h2} ELSE {}]
=============================================================================
