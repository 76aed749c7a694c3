---------------------------- MODULE MCNvHostCtrl ----------------------------
(* A model of NvHostCtrl for TLC.                                          *)
EXTENDS NvHostCtrl

CONSTANTS g1, g2
=============================================================================
