----------------------------- MODULE MCWatchLog -----------------------------
(***************************************************************************)
(* Instances of WatchLog for TLC: one user with two tabs or one, one video *)
(* or a torrent with two.  The tunables keep the order they have in the    *)
(* code: gap < idle < give up < prepare.                                   *)
(***************************************************************************)
EXTENDS WatchLog

CONSTANTS t1, t2, u1, v1, v2, h1, h2

MCOneTab == {t1}
MCTwoTabs == {t1, t2}
MCUsers == {u1}
MCUser == [t \in {t1, t2} |-> u1]
MCOneUser == [t \in {t1} |-> u1]
MCOneVideo == {v1}
MCTwoVideos == {v1, v2}
MCHashes == {h1, h2}
MCOneFilm == [v \in {v1} |-> h1]
MCPack == [v \in {v1, v2} |-> h1]
MCFilms == [v \in {v1, v2} |-> IF v = v1 THEN h1 ELSE h2]
=============================================================================
