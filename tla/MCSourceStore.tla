--------------------------- MODULE MCSourceStore ----------------------------
(* Two handlers of any kind, in two projects or both in one, the first with *)
(* the longer archive.  The projects are interchangeable.                  *)
EXTENDS SourceStore, TLC

CONSTANTS h1, h2

LongAndShort == [h \in Handlers |-> IF h = h1 THEN MaxParts ELSE MaxParts - 1]

ProjectSymmetry == Permutations(Projects)
=============================================================================
