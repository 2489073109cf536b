---------------------------- MODULE MCNodeRoutes ----------------------------
(* Instances of NodeRoutes for TLC.                                        *)
EXTENDS NodeRoutes

CONSTANTS approval, revision, rejected, n1, n2

MCNode == {n1, n2}
MCRoute == {Continue, approval, revision, rejected}
=============================================================================
