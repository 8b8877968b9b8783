----------------------------- MODULE MCCServer ------------------------------
(* A small instance of CServer: one model, whose family has one stop       *)
(* string of its own.                                                      *)
EXTENDS CServer, TLC

CONSTANTS m1, w1

MCFamily == m1 :> w1
=============================================================================
