--------------------------- MODULE MCSurvivalTier ---------------------------
(* SurvivalTier with two daemons, on a file each or, as their state path    *)
(* ignores their scope, on the same.                                        *)
EXTENDS SurvivalTier

CONSTANTS btc, eth, here, there

MCEngines  == {btc, eth}
MCEth      == {eth}
MCOneFile  == {here}
MCFiles    == {here, there}
MCShared   == [e \in MCEngines |-> here]
MCSeparate == [e \in MCEngines |-> IF e = btc THEN here ELSE there]
=============================================================================
