------------------------- MODULE MCConnectionCount --------------------------
EXTENDS ConnectionCount, TLC

(* Parse threads are interchangeable: none is ever named. *)
ParserSymmetry == Permutations(Parsers)
=============================================================================
