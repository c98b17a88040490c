------------------------- MODULE MCDeploymentQueue -------------------------
(***************************************************************************)
(* Instances of DeploymentQueue for TLC. Workers and jobs are never        *)
(* compared or ordered.                                                    *)
(***************************************************************************)
EXTENDS DeploymentQueue
CONSTANTS j1, j2, w1, w2
=============================================================================
