---------------------------- MODULE MCServiceWork ----------------------------
(* Small instances of ServiceWork for TLC. *)
EXTENDS ServiceWork
CONSTANTS d1, d2, a, b, r1, r2, h1, h2

\* h2 is the prepared transaction of template instance d1.
MCPrepared == {<<d1, h2>>}
=============================================================================
