----------------------------- MODULE MCAccounts -----------------------------
(***************************************************************************)
(* Instance of Accounts for TLC: two tabs, of one browser or of two, two   *)
(* Google accounts, one title and two pages.  No constant of these sets is *)
(* told apart from the others, and no property needs fairness: the runs    *)
(* use the symmetry of browsers, tabs and accounts.                        *)
(***************************************************************************)
EXTENDS Accounts, TLC

CONSTANTS b1, b2, t1, t2, s1, s2, x1, home, page, c1, c2

MCBrowsers == {b1, b2}
MCTabs == {t1, t2}
MCSubs == {s1, s2}
MCTitles == {x1}
MCPages == {home, page}
MCHome == home
MCOneTab == {t1}
MCCalls == {c1}
MCTwoCalls == {c1, c2}
MCSymmetry ==
  Permutations(MCBrowsers) \cup Permutations(MCTabs) \cup Permutations(MCSubs)
=============================================================================
