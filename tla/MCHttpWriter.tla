---------------------------- MODULE MCHttpWriter ----------------------------
(* Files and lists of up to three bytes; a list of two just fits, one of   *)
(* three does not.                                                         *)
EXTENDS HttpWriter

MCSizes == 0..3
=============================================================================
