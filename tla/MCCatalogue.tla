----------------------------- MODULE MCCatalogue ------------------------------
(* A small instance of Catalogue for TLC.                                  *)
EXTENDS Catalogue, TLC

CONSTANTS a1, a2, r1, r2, c1

MCCodeOf == a1 :> c1 @@ a2 :> NoCode @@ r1 :> c1 @@ r2 :> c1
MCRank == r1 :> 1 @@ r2 :> 2
MCMatching == {a1} \X {r1, r2}
=============================================================================
