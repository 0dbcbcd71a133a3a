---------------------------- MODULE MCAneRuntime ----------------------------
(***************************************************************************)
(* Two threads initialize while two programs go through both paths.        *)
(***************************************************************************)
EXTENDS AneRuntime

CONSTANTS t1, t2, p1, p2
=============================================================================
