---------------------------- MODULE MCTaskManager ----------------------------
(* Two tasks, a browser, one gateway's reader and a canceller.                *)
EXTENDS TaskManager, TLC
CONSTANTS r1, b1
=============================================================================
