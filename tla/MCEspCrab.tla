----------------------------- MODULE MCEspCrab -----------------------------
(* Model-checking instance of EspCrab: the constants' values are in the    *)
(* configurations. StackIds has an id that is sent and one that is not; a  *)
(* cut before the id bytes gives the frame the id of its end, a cut after   *)
(* them the id of its beginning.                                           *)
EXTENDS EspCrab

MCStackIds == {0, MaxId + 1}
MCIdCuts == {1, 2}
=============================================================================
