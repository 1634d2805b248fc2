---------------------------- MODULE MCPrefixCache ----------------------------
(***************************************************************************)
(* Instances of PrefixCache for TLC: two torrents of pieces of two bytes.  *)
(* The first has a short video between two other files that are not        *)
(* videos, shorter than what is pinned of it and not at a piece boundary,  *)
(* so its middle piece is prefix and the two others, of two bytes and one, *)
(* are cache pieces: an insertion evicts none, one or two pieces.  In the  *)
(* small instance the first torrent has no third piece.                    *)
(***************************************************************************)
EXTENDS PrefixCache, TLC

CONSTANTS h1, h2, w1, w2, r1, r2

MCHashes == {h1, h2}
MCOneDroppable == {h1}
MCOneWorker == {w1}
MCTwoWorkers == {w1, w2}
MCTwoReaders == {r1, r2}
MCNoReader == {}
MCSymmetry == Permutations(MCTwoReaders) \cup Permutations(MCTwoWorkers)

MCFile(o, l, v) == [offset |-> o, length |-> l, video |-> v]
MCTorrent ==
  [h \in MCHashes |->
     IF h = h1 THEN [pieceLength |-> 2, length |-> 5,
                     files |-> {MCFile(0, 3, FALSE), MCFile(3, 1, TRUE), MCFile(4, 1, FALSE)}]
               ELSE [pieceLength |-> 2, length |-> 2, files |-> {MCFile(0, 2, FALSE)}]]
MCSmallTorrent ==
  [h \in MCHashes |->
     IF h = h1 THEN [pieceLength |-> 2, length |-> 4,
                     files |-> {MCFile(0, 3, FALSE), MCFile(3, 1, TRUE)}]
               ELSE [pieceLength |-> 2, length |-> 2, files |-> {MCFile(0, 2, FALSE)}]]
MCPinned == {2}
MCReconfigured == {0, 2}
=============================================================================
