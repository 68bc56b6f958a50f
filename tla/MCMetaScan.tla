----------------------------- MODULE MCMetaScan -----------------------------
(* MetaScan over every table whose rowids lie in a small window.           *)
EXTENDS MetaScan

MCRowids == -1..7
MCSmallRowids == 0..6
=============================================================================
