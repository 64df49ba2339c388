----------------------- MODULE ReleaseDeployProperties ----------------------
(* What a deployment promises the broadcast.                               *)
EXTENDS ReleaseDeploy

(* A slot that keeps running: its unit runs and its containers are up or   *)
(* will be.                                                                *)
Running(s) == {Core, s} \subseteq units /\ env[s] # None

(* From the first deployment that succeeded on, some slot is kept running  *)
(* at every step of every deployment, of its rollback, and after a killed  *)
(* deployer: the old slot is stopped only after the candidate is supervised*)
(* and healthy, and the candidate only after the old one is back.  Except  *)
(* where the stop of the old slot took effect and reported an error: the   *)
(* handler does not start it again.                                        *)
StillRunning ==
  receipt # None /\ reboots = 0 /\ "unknown" \notin marred =>
    \E s \in Slots : Running(s)

(* The deployment's variables have their types, and a slot is kept running.*)
DeploySafe == DeployTypeOK /\ StillRunning

(* A deployment that was rolled back leaves the host as it found it: the   *)
(* old release in checkout, installed files, manifest and environment, its *)
(* slot, if it had one, active, supervised and started with the host.  Not *)
(* after one that was stopped half way: a later rollback goes back to what *)
(* that one left.                                                          *)
RollbackRestores ==
  marred = {} /\ outcome = "rolled back" /\ reboots = 0 /\ saved.release # None =>
    /\ link = saved.release /\ runtime = saved.release /\ manifest = saved.release
    /\ active = saved.slot /\ current = saved.current
    /\ saved.slot # None => saved.slot \in units /\ saved.slot \in enabled

(* The receipt is true: when it agrees with the manifest and the active    *)
(* slot, what production-status.py calls receiptMatchesManifest, the slot's*)
(* containers are of that release, and only that slot starts with the host.*)
ReceiptTrue ==
  receipt # None /\ receipt = [release |-> manifest, slot |-> active] /\ pc = "off" =>
    /\ containers[active].release = manifest
    /\ marred = {} => enabled = {Core, active}

(* A host that was left by a deployment that ended, well or rolled back,   *)
(* serves again after it restarts, and as long as no deployment is stopped *)
(* half way.                                                               *)
Settled     == marred = {} /\ receipt # None
ServedAgain == Settled ~> Served \/ ~Settled

(* A failed deployment keeps the previous slot or starts it again, and     *)
(* stops the candidate (docs/deployment.md:15).                            *)
FailureKeepsOldOnly ==
  outcome = "rolled back" /\ reboots = 0 =>
    /\ saved.slot # None => saved.slot \in units
    /\ containers[next].state \notin {"starting", "healthy"}
=============================================================================
