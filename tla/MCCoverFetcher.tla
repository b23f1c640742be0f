--------------------------- MODULE MCCoverFetcher ---------------------------
(* A small instance of CoverFetcher: a song with no album (a), and what    *)
(* the catalog makes of it (b), which is played under that name as well.   *)
EXTENDS CoverFetcher

CONSTANTS a, b, u, v

MCCoverOf == [s \in Songs |-> IF s = a THEN u ELSE v]
MCFilledIn == [s \in Songs |-> b]
=============================================================================
