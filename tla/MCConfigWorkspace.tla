--------------------------- MODULE MCConfigWorkspace ---------------------------
(* Instances of ConfigWorkspace for TLC.                                    *)
EXTENDS ConfigWorkspace, TLC

CONSTANTS a1, a2, e1, x1, k1

\* Two apps; the environment is of the first.
MCAppOf == e1 :> a1
MCEnvOf == x1 :> e1 @@ k1 :> e1

================================================================================
