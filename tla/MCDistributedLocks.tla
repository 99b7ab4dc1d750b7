------------------------- MODULE MCDistributedLocks -------------------------
(* A deployment has one provider of locks, chosen by its configuration:    *)
(* the atomic ones (memory, Redis) under the whole gate, or the leases of  *)
(* Kubernetes, of which one lock is followed call by call.                 *)
EXTENDS ConcurrencyGate, K8sLeaseLock

VARIABLE provider

deploymentVars == <<provider, vars, leaseVars>>

DeploymentInit == /\ provider \in {"atomic", "kubernetes"}
                  /\ Init
                  /\ LeaseInit

AtomicNext == provider = "atomic" /\ Next /\ UNCHANGED <<provider, leaseVars>>

KubernetesNext == provider = "kubernetes" /\ LeaseNext /\ UNCHANGED <<provider, vars>>

\* The fairness of FairSpec; it asks nothing where no request arrives.
DeploymentSpec == /\ DeploymentInit
                  /\ [][AtomicNext \/ KubernetesNext]_deploymentVars
                  /\ \A r \in Requests : WF_vars(RequestStep(r))
                  /\ \A k \in Slots : WF_vars(Expire(k))
=============================================================================
