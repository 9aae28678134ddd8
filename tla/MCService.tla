------------------------------ MODULE MCService ------------------------------
(* Service for TLC.                                                        *)
EXTENDS Service
=============================================================================
