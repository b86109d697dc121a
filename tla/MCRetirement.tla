---------------------------- MODULE MCRetirement ----------------------------
(* Small instances of Retirement for TLC. *)
EXTENDS Retirement, TLC
CONSTANTS d1, d2, a, b, t, u, legacy, h1, h2

\* h1 is the prepared transaction of template instance d1.
MCPrepared == {<<d1, h1>>}

\* h2 deployed d1 before transactions had rows.
MCLegacyHash == {<<d1, h2>>}

\* Ticks differ in nothing but their name.
TickSymmetry == Permutations({t, u})
=============================================================================
