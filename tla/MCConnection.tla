---------------------------- MODULE MCConnection ----------------------------
(* Instance of Connection for TLC. *)
EXTENDS Connection

\* Two chunks: one may be read ahead with the response, one come later.
DataMC == <<"d1", "d2">>
=============================================================================
