---------------------------- MODULE MCSubmissions ---------------------------
(***************************************************************************)
(* Finite instances, for TLC, of the two ways one envelope is submitted    *)
(* and its outcome learned: the payout of a keyed webhook, and a wallet's  *)
(* deployment.  They share no state, so a behaviour is about one of them.  *)
(***************************************************************************)
EXTENDS WebhookIdempotency, DeploymentFinality, TLC

CONSTANTS c1, c2, c3, c4

VARIABLE submits     \* what this behaviour is about

submissionVars == <<submits, vars, dfVars>>

\* Three calls of one event and a different one under the same key.
Requests == (c1 :> "a") @@ (c2 :> "a") @@ (c3 :> "a") @@ (c4 :> "b")

SubmissionInit ==
  \/ submits = "payout" /\ WIInit /\ DFInit /\ source = "ordinary"
  \/ submits = "deployment" /\ WIInit /\ DFInit

SubmitPayout     == submits = "payout" /\ WINext /\ UNCHANGED <<submits, dfVars>>
SubmitDeployment == submits = "deployment" /\ DFNext /\ UNCHANGED <<submits, vars>>

SubmissionNext == SubmitPayout \/ SubmitDeployment

SubmissionSpec ==
  /\ SubmissionInit /\ [][SubmissionNext]_submissionVars
  /\ submits = "deployment" => DFFairness
=============================================================================
