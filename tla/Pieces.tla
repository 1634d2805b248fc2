------------------------------- MODULE Pieces -------------------------------
(***************************************************************************)
(* How the streamer maps bytes to pieces: which pieces of a torrent stay   *)
(* resident so that its videos start at once (streamer/storage.go), and    *)
(* which piece a reader is at (trackedReader in streamer/torrent.go).      *)
(*                                                                         *)
(* A torrent t has t.pieceLength, t.length and t.files, each file with its *)
(* offset in the torrent, its length, and whether isVideoFile knows its    *)
(* extension.                                                              *)
(***************************************************************************)
EXTENDS Integers

File == [offset: Nat, length: Nat, video: BOOLEAN]

\* The files of a torrent follow each other (external: UpvertedFiles).
IsTorrent(t) ==
  /\ t.pieceLength \in Nat \ {0} /\ t.length \in Nat
  /\ t.files \subseteq File
  /\ \A f \in t.files : f.offset + f.length <= t.length

PieceOf(t, byte) == byte \div t.pieceLength
PieceIndices(t) == {i \in 0..t.length : i * t.pieceLength < t.length}
PieceSize(t, i) == IF (i + 1) * t.pieceLength <= t.length
                     THEN t.pieceLength ELSE t.length - i * t.pieceLength

Lesser(a, b) == IF a <= b THEN a ELSE b

\* addRange
PiecesOf(t, firstByte, lastByte) ==
  PieceOf(t, IF firstByte < 0 THEN 0 ELSE firstByte) .. PieceOf(t, lastByte)

FirstPieces(t, f, prefixBytes) ==
  IF prefixBytes > 0
    THEN PiecesOf(t, f.offset, f.offset + Lesser(prefixBytes, f.length) - 1) ELSE {}

LastPieces(t, f, suffixBytes) ==
  LET lastByte == f.offset + f.length - 1 IN
  IF suffixBytes > 0
    THEN PiecesOf(t, lastByte - Lesser(suffixBytes, f.length) + 1, lastByte) ELSE {}

VideoFiles(t) == {f \in t.files : f.video /\ f.length > 0}

\* The pieces of the first prefixBytes and the last suffixBytes of each video.
prefixPieceIndices(t, prefixBytes, suffixBytes) ==
  UNION {FirstPieces(t, f, prefixBytes) \cup LastPieces(t, f, suffixBytes) : f \in VideoFiles(t)}

\* The pieces that hold the header a player blocks on.
videoFileStartPieces(t) == {PieceOf(t, f.offset) : f \in VideoFiles(t)}

\* What trackedReader.note reports before a Read at pos and after a Seek to it.
ReaderPiece(t, f, pos) == PieceOf(t, f.offset + pos)
=============================================================================
