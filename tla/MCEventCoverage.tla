--------------------------- MODULE MCEventCoverage ---------------------------
(* A finite instance of EventCoverage.                                     *)
EXTENDS EventCoverage

CONSTANTS p1, p2

\* Two events of one ledger and group, so that a page of one stops inside it,
\* and one after the cutoff; a second, silent group, which may get further.
TwoLedgers == <<1, 1, 2>>
OneBusyGroup == <<1, 1, 1>>
=============================================================================
