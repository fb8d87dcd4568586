---------------------------- MODULE MCOOSLockbox ----------------------------
(* A TLC instance of OOSLockbox.                                           *)
EXTENDS OOSLockbox

CONSTANTS c1, c2, h1, h2, h3
=============================================================================
