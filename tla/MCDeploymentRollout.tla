-------------------------- MODULE MCDeploymentRollout --------------------------
(* Values for the constants of DeploymentRollout: every type of deployment, *)
(* with the calls one by one and overlapping.                               *)
EXTENDS DeploymentRollout

CONSTANT c1
MCCallers == {c1}
MCConfigs ==
  {c \in Config: /\ c.type = "direct" => c.artifact /\ c.auto_rollback
                 /\ ~c.artifact => c.type = "canary" /\ c.auto_rollback
                                   /\ ~c.require_approval /\ ~c.auto_promote}
MCTargets == {"SHADOW", "CANARY_1", "CANARY_25", "ACTIVE", "ROLLING_BACK"}
===============================================================================
