-------------------------- MODULE MCRelayerChannels --------------------------
(* Finite instances of RelayerChannels.                                    *)
EXTENDS RelayerChannels, TLC

CONSTANTS c1, c2, c3

OneSlot == {0}
TwoSlots == {0, 1}

\* A deployment, a keyed webhook and a streamer claim, which tracks nothing.
MixedKind == (c1 :> "early") @@ (c2 :> "keyed") @@ (c3 :> "never")

\* A deployment and a streamer claim.
DeployAndClaim == (c1 :> "early") @@ (c2 :> "never")
=============================================================================
