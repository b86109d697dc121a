----------------------------- MODULE CronLease -----------------------------
(***************************************************************************)
(* withCronLease of lib/cron/lease.ts: one Redis key per cron, which the   *)
(* run that set it holds.  The lease fails open: when Redis cannot be      *)
(* asked, the run goes on without it.  A lease lapses when its holder has  *)
(* not renewed it for the time to live: the process died, stalled, or      *)
(* could not reach Redis.                                                  *)
(***************************************************************************)
CONSTANTS
  Crons,             \* processes that run the cron; a run's id is its process
  NoCron             \* the key is not set

ASSUME CronLeaseAssumption == NoCron \notin Crons

VARIABLES
  key,               \* the value of the Redis key
  guard,             \* guard[c]: "none", "held", or "open": ran without it
  lapsed             \* the runs whose lease lapsed while they were at work

leaseVars == <<key, guard, lapsed>>

CLTypeOK ==
  /\ key \in Crons \cup {NoCron}
  /\ guard \in [Crons -> {"none", "held", "open"}]
  /\ lapsed \subseteq Crons

CLInit ==
  /\ key = NoCron
  /\ guard = [c \in Crons |-> "none"]
  /\ lapsed = {}

\* SET key id PX ttl NX
TakeLease(c) ==
  /\ guard[c] = "none"
  /\ key = NoCron
  /\ key' = c
  /\ guard' = [guard EXCEPT ![c] = "held"]
  /\ UNCHANGED lapsed

\* No Redis, or an error: the run is not guarded.
RunUnguarded(c) ==
  /\ guard[c] = "none"
  /\ guard' = [guard EXCEPT ![c] = "open"]
  /\ UNCHANGED <<key, lapsed>>

\* The time to live passes without a renewal.
Lapse ==
  /\ key # NoCron
  /\ key' = NoCron
  /\ lapsed' = IF guard[key] = "held" THEN lapsed \cup {key} ELSE lapsed
  /\ UNCHANGED guard

\* Mutant of KeyAfterRelease: the key is deleted whoever set it.
KeyIsDeleted(c) == NoCron

\* RELEASE_SCRIPT deletes the key only if it still holds the run's id.
KeyAfterRelease(c) == IF key = c THEN NoCron ELSE key

\* The finally block; when Redis fails it, the key is left to lapse.
DropLease(c) ==
  /\ guard[c] # "none"
  /\ key' \in (IF guard[c] = "held" THEN {KeyAfterRelease(c), key} ELSE {key})
  /\ guard' = [guard EXCEPT ![c] = "none"]
  /\ lapsed' = lapsed \ {c}

\* The process dies with the lease.
LoseRun(c) ==
  /\ guard[c] # "none"
  /\ guard' = [guard EXCEPT ![c] = "none"]
  /\ lapsed' = lapsed \ {c}
  /\ UNCHANGED key

CLNext ==
  \/ \E c \in Crons : TakeLease(c) \/ RunUnguarded(c) \/ DropLease(c) \/ LoseRun(c)
  \/ Lapse

CLSpec == CLInit /\ [][CLNext]_leaseVars

\* withCronLease: of the runs at work under the lease, all but one have seen
\* theirs lapse.  In particular a run that outlives its lease does not free
\* the lease of the run that took its place.
LeaseIsExclusive ==
  \A c, d \in Crons :
    (guard[c] = "held" /\ guard[d] = "held" /\ c # d) => c \in lapsed \/ d \in lapsed

=============================================================================
