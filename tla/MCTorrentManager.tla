-------------------------- MODULE MCTorrentManager --------------------------
(***************************************************************************)
(* Instance of TorrentManager for TLC: one info hash, added, streamed,     *)
(* dropped and added again by one adder and opened by two viewers.         *)
(* Distinct hashes share no state but the remover they queue in.           *)
(***************************************************************************)
EXTENDS TorrentManager

CONSTANTS h1, a1, v1, v2

MCHashes == {h1}
MCOneAdder == {a1}
MCViewers == {v1, v2}
MCTranscoders == {v2}
=============================================================================
