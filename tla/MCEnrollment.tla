---------------------------- MODULE MCEnrollment ----------------------------
(***************************************************************************)
(* Instances of Enrollment for TLC: one id, claimed by two machines, or    *)
(* by one machine that is redeployed with other URLs.                      *)
(***************************************************************************)
EXTENDS Enrollment

CONSTANTS m1, m2, i1, u1, u2, t1, t2, t3, t4, t5

MCTwoMachines == {m1, m2}
MCOneMachine == {m1}
MCIds == {i1}
MCTwoId == [m \in {m1, m2} |-> i1]
MCOneId == [m \in {m1} |-> i1]
MCOneUrl == {u1}
MCTwoUrls == {u1, u2}
MCFourTokens == {t1, t2, t3, t4}
MCFiveTokens == {t1, t2, t3, t4, t5}
=============================================================================
