--------------------------- MODULE MCDownloadAll ---------------------------
(***************************************************************************)
(* Instances of DownloadAll for TLC: two readers and a worker over three   *)
(* blobs of one torrent, or two workers over two torrents of one blob      *)
(* each; always a cache of one handle, so that every insertion meets its   *)
(* cap.                                                                    *)
(***************************************************************************)
EXTENDS DownloadAll, TLC

CONSTANTS r1, r2, w1, w2, p1, p2, p3, d1, d2, h1, h2, h3

MCReaders == {r1, r2}
MCOneReader == {r1}
MCRemovers == {w1}
MCTwoRemovers == {w1, w2}
MCPaths == {p1, p2, p3}
MCTwoPaths == {p1, p2}
MCOnePath == {p1}
MCDirs == {d1, d2}
MCDir == [p \in MCPaths |-> d1]
MCOneDir == {d1}
MCApart == [p \in MCTwoPaths |-> IF p = p2 THEN d2 ELSE d1]
MCNothing == {}
MCHandles == {h1, h2, h3}
MCTwoHandles == {h1, h2}
MCSymmetry == Permutations(MCReaders) \cup Permutations(MCPaths)
=============================================================================
