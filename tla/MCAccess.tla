------------------------------- MODULE MCAccess -------------------------------
(* The components that decide who may do what, and with which credentials,  *)
(* and the scripts that make the secrets they rest on.  They share no       *)
(* state, so a behaviour is one of one of them ("part"), and the others     *)
(* stay as they are at the start.                                           *)
EXTENDS TokenRotation, LoginRateLimit, CredentialBinding, MCCredentialRotation,
        Deployment

CONSTANTS p1, p2
CredIdLists == {<<p1>>, <<p1, p2>>, <<p2, p2>>}

VARIABLE part
accessVars == <<part, authVars, limitVars, credVars, rotVars, deployVars>>

RotIdle == /\ rotTable = [i \in {} |-> 0]
           /\ rot = [by |-> "sweep", linked |-> <<>>, accepts |-> Community("lab"), step |-> "start",
                     ids |-> <<>>, todo |-> <<>>, won |-> 0, lost |-> FALSE]

AccessInit == /\ part \in {"tokens", "limiter", "binding", "rotation", "deployment"}
              /\ AuthInit /\ LimitInit /\ CredInit
              /\ IF part = "rotation" THEN RotInit ELSE RotIdle
              /\ DeployInit /\ (part # "deployment" => home = "absent")

AccessNext ==
  /\ UNCHANGED part
  /\ \/ part = "tokens" /\ AuthNext /\ UNCHANGED <<limitVars, credVars, rotVars, deployVars>>
     \/ part = "limiter" /\ LimitNext /\ UNCHANGED <<authVars, credVars, rotVars, deployVars>>
     \/ part = "binding" /\ CredNext /\ UNCHANGED <<authVars, limitVars, rotVars, deployVars>>
     \/ part = "rotation" /\ RotNext /\ UNCHANGED <<authVars, limitVars, credVars, deployVars>>
     \/ part = "deployment" /\ DeployNext /\ UNCHANGED <<authVars, limitVars, credVars, rotVars>>

AccessSpec == AccessInit /\ [][AccessNext]_accessVars
=============================================================================
