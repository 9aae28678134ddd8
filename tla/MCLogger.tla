------------------------------ MODULE MCLogger ------------------------------
(* Logger for TLC: the cfg files choose the build (Platform), the threads  *)
(* and the bounds.                                                         *)
EXTENDS Logger
=============================================================================
