-------------------------------- MODULE Drain --------------------------------
(***************************************************************************)
(* What retirement promises, without saying how: a deployment's service    *)
(* drains.  Each deployment is in a phase and owes a set of admissions, an *)
(* admission being owed from the moment the service accepts the work until *)
(* its worker has finished and every transaction it recorded is final.     *)
(* Ordinary work is accepted only while the service is active; once        *)
(* retirement is requested only settlement work may still be accepted; a   *)
(* retired deployment accepted its last work, and owes nothing, forever.   *)
(*                                                                         *)
(* Retirement.tla implements this specification.                           *)
(***************************************************************************)
CONSTANTS
  Deployments,   \* the deployments served
  Scopes,        \* the admissions a deployment can owe
  Settlement,    \* the admissions that settle, and may join a retiring service
  Legacy         \* the admission that stands for a hash older than admissions

VARIABLES
  phase,   \* phase[d]: the lifecycle of deployment d
  owed     \* owed[d]: the admissions deployment d still owes

vars == <<phase, owed>>

Phases == {"ACTIVE", "RETIRING", "RETIRED"}

DTypeOK == /\ phase \in [Deployments -> Phases]
           /\ owed \in [Deployments -> SUBSET Scopes]

Init == /\ phase = [d \in Deployments |-> "ACTIVE"]
        /\ owed = [d \in Deployments |-> {}]

\* One piece of work is accepted on behalf of all the deployments in D.
Admit(s, D) ==
  /\ \A d \in D : \/ phase[d] = "ACTIVE"
                  \/ phase[d] = "RETIRING" /\ s \in Settlement
  /\ owed' = [d \in Deployments |-> IF d \in D THEN owed[d] \cup {s} ELSE owed[d]]
  /\ UNCHANGED phase

\* Whatever settles an admission only ever shrinks what is owed.
Settle ==
  /\ owed' \in [Deployments -> SUBSET Scopes]
  /\ \A d \in Deployments : owed'[d] \subseteq owed[d]
  /\ UNCHANGED phase

\* A request may discover one debt older than the bookkeeping itself.
Request(d) ==
  /\ phase[d] = "ACTIVE"
  /\ phase' = [phase EXCEPT ![d] = "RETIRING"]
  /\ \E found \in SUBSET {Legacy} : owed' = [owed EXCEPT ![d] = @ \cup found]

Drained(d) == owed[d] = {}

Retire(d) ==
  /\ phase[d] = "RETIRING"
  /\ Drained(d)
  /\ phase' = [phase EXCEPT ![d] = "RETIRED"]
  /\ UNCHANGED owed

Next == \/ \E s \in Scopes, D \in SUBSET Deployments : Admit(s, D)
        \/ Settle
        \/ \E d \in Deployments : Request(d) \/ Retire(d)

Spec == Init /\ [][Next]_vars

(***************************************************************************)
(* A retired deployment owes nothing, from then on.                        *)
(***************************************************************************)
RetiredOwesNothing == \A d \in Deployments : phase[d] = "RETIRED" => owed[d] = {}
=============================================================================
