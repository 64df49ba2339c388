------------------------- MODULE ReleaseDeployProofs ------------------------
(***************************************************************************)
(* What a deployment promises, for any releases and any number of          *)
(* deployments, failing commands, killed deployers and restarts.           *)
(*                                                                         *)
(* The argument goes line by line: what the deployer has already written   *)
(* when it reaches a line, which of the two slots is supervised there, and *)
(* what its exception handler can still restore.  Nothing but a restart of *)
(* the host stops the core, and a line that needs a slot's unit is only    *)
(* reached by one that has seen it run.                                    *)
(***************************************************************************)
EXTENDS ReleaseDeployProperties, TLAPS

(* The lines before something is done, and those after.                    *)
Unstarted  == {"migrate", "smoke old", "check unit", "remove", "up"}
Inactive   == Unstarted \cup {"wait", "slot env"}
Unlisted   == Inactive \cup {"install", "link", "manifest"}
Unswitched == Unlisted \cup {"move env", "active slot"}
Switched   == Tries \ Unswitched
Unstopped  == Unswitched \cup {"restart core", "start unit", "enable unit", "is active",
                               "verify", "stop old"}
Unsupervised == (Unswitched \cup {"restart core", "start unit"})
                  \ {"migrate", "smoke old", "check unit"}
Restarted  == Rollback \ {"restart old"}

(* What no line changes: a unit that runs has its file, where the unit of a*)
(* slot runs the core starts with the host, and without an active slot no  *)
(* deployment has ever succeeded and only the first slot was ever started. *)
Standing ==
  /\ \A s \in Slots : s \in units => env[s] # None
  /\ \A s \in Slots : s \in units => Core \in enabled
  /\ active = None => units \cup enabled \subseteq {Core, First} /\ receipt = None
  /\ receipt # None => manifest # None

(* The manifest is not behind the receipt, nor a deployment behind either. *)
Forward ==
  /\ receipt # None => receipt.release <= manifest
  /\ pc # "off" => /\ saved.release # None => saved.release <= new
                   /\ receipt # None => receipt.release <= saved.release

(* What a deployment has set out with.                                     *)
Planned ==
  pc # "off" =>
    /\ outcome = "running" /\ new # None /\ next # saved.slot
    /\ saved.slot # None => /\ saved.release # None /\ env[saved.slot] # None
                            /\ Core \in units /\ Core \in enabled
    /\ saved.slot = None => /\ next = First /\ receipt = None
                            /\ units \cup enabled \subseteq {Core, next}
    /\ receipt # None => saved.release # None

(* Its flags, at each of its lines.                                        *)
Flagged ==
  /\ pc \in Tries => /\ started <=> pc \notin Unstarted
                     /\ activated <=> pc \notin Inactive
                     /\ stopped <=> pc \notin Unstopped /\ saved.slot # None
  /\ pc \in {"stop old", "disable old", "smoke"} => saved.slot # None
  /\ pc = "restart core" => saved.slot = None
  /\ activated => started
  /\ pc # "off" /\ stopped => saved.slot # None

(* What it has written, and what its handler has restored.                 *)
Written ==
  pc # "off" =>
    /\ manifest \in {saved.release, new} /\ active \in {saved.slot, next}
    /\ ~activated => current = saved.current /\ manifest = saved.release
    /\ pc \in Unlisted => manifest = saved.release
    /\ pc \in Tries \ Unlisted => manifest = new
    /\ pc \in Unswitched => active = saved.slot
    /\ pc \in Switched => active = next
    /\ active = next => manifest = new /\ activated /\ containers[next].release = new
    /\ pc \in Tries \ (Inactive \cup {"install"}) => runtime = new
    /\ pc \in Tries \ (Inactive \cup {"install", "link"}) => link = new
    /\ saved.release = None /\ manifest = new => link = new /\ runtime = new
    /\ pc \in {"restore records", "restore core", "stop candidate"} /\ Restores =>
         link = saved.release /\ runtime = saved.release
    /\ pc \in {"restore core", "stop candidate"} /\ Restores =>
         manifest = saved.release /\ active = saved.slot /\ current = saved.current

(* Which unit runs, so that one always does.                               *)
Supervised ==
  /\ pc \in Unstopped /\ saved.slot # None => saved.slot \in units
  /\ pc \in {"verify"} \cup (Tries \ Unstopped) \cup {"stop old"} => next \in units
  /\ pc \in {"stop old"} \cup (Tries \ Unstopped) => Core \in units
  /\ pc = "restart old" /\ saved.slot # None =>
       saved.slot \in units \/ (stopped /\ next \in units) \/ "unknown" \in marred
  /\ pc \in Restarted /\ saved.slot # None => saved.slot \in units \/ "unknown" \in marred
  /\ pc \in Unsupervised => next \notin units
  /\ StillRunning

(* Which containers there are.                                             *)
Filled ==
  /\ pc = "up" => containers[next] = Absent \/ containers[next].release = new
  /\ pc \in Unswitched \ Unstarted => containers[next].release = new
  /\ pc # "off" /\ receipt # None /\ receipt = [release |-> saved.release, slot |-> saved.slot] =>
       containers[saved.slot].release = saved.release
  /\ pc = "off" /\ receipt # None /\ receipt = [release |-> manifest, slot |-> active] =>
       containers[active].release = manifest

(* Which units start with the host.                                        *)
Enabled ==
  /\ pc \in Switched \ {"restart core"} => Core \in enabled
  /\ pc \in {"is active", "verify", "stop old"} \cup (Tries \ Unstopped) => next \in enabled
  /\ pc \in {"smoke", "receipt"} /\ saved.slot # None => saved.slot \notin enabled

(* A host all whose deployments since the last success were rolled back.   *)
Quiet == receipt = [release |-> manifest, slot |-> active] /\ enabled = {Core, active}
InFlight ==
  /\ receipt = [release |-> saved.release, slot |-> saved.slot]
  /\ stopped \/ saved.slot \in enabled
  /\ pc \in Restarted => saved.slot \in enabled
  /\ started \/ next \notin enabled
Unmarred ==
  marred = {} =>
    /\ pc = "off" /\ manifest # None => link = manifest /\ runtime = manifest
    /\ pc # "off" /\ saved.release # None /\ ~activated =>
         link = saved.release /\ runtime = saved.release
    /\ receipt # None => IF pc = "off" THEN Quiet ELSE InFlight
    /\ receipt = None /\ reboots = 0 => IF pc = "off" THEN active \notin units
                                        ELSE saved.slot = None

DeployInv ==
  /\ DeployTypeOK /\ Standing /\ Forward /\ Planned /\ Flagged /\ Written
  /\ Supervised /\ Filled /\ Enabled /\ Unmarred /\ RollbackRestores

(* --------------------------- Slots and containers ------------------------ *)
(* There are two slots, and neither is the core.                           *)
LEMMA Setting ==
  /\ First \in Slots /\ Core \notin Slots /\ None \notin Releases /\ None \notin Slots
  /\ None \notin Env /\ Releases \subseteq Nat
  /\ \A a, b \in Slots : a # b => Slots = {a, b}
  /\ (CHOOSE s \in Slots : s # First) \in Slots /\ (CHOOSE s \in Slots : s # First) # First
<1>1. PICK s : s \in Slots /\ s # First /\ Slots = {First, s}
  BY DeployAssumption
<1>2. \A a, b \in Slots : a # b => Slots = {a, b}
  BY <1>1
<1>3. \E t \in Slots : t # First
  BY <1>1
<1>4. (CHOOSE t \in Slots : t # First) \in Slots /\ (CHOOSE t \in Slots : t # First) # First
  BY <1>3
<1>5. QED BY <1>2, <1>4, DeployAssumption, EnvAssumption

(* The types of the files, and those of the deployer, one by one.          *)
Files ==
  /\ link \in Optional(Releases) /\ runtime \in Optional(Releases)
  /\ manifest \in Optional(Releases) /\ active \in Optional(Slots)
  /\ receipt \in Optional(Env) /\ enabled \in SUBSET Units
  /\ env \in [Slots -> Optional(Releases)]
  /\ current \in Optional(Env) /\ candidate \in Optional(Env)
  /\ units \in SUBSET Units /\ containers \in [Slots -> Container]
Lines ==
  /\ pc \in Tries \cup Rollback \cup {"off"}
  /\ next \in Slots /\ new \in Optional(Releases) /\ saved \in Saved
  /\ activated \in BOOLEAN /\ started \in BOOLEAN /\ stopped \in BOOLEAN
  /\ outcome \in {"none", "running", "deployed", "rolled back", "aborted"}
  /\ marred \in SUBSET {"killed", "unknown"}
  /\ deploys \in Nat /\ faults \in Nat /\ reboots \in Nat

(* Together they are the type invariant.                                   *)
LEMMA TypesAre == DeployTypeOK <=> Files /\ Lines
BY DEF DeployTypeOK, Files, Lines

(* Also after a step.                                                      *)
LEMMA TypesBecome == DeployTypeOK' <=> Files' /\ Lines'
BY DEF DeployTypeOK, Files, Lines

(* What a change of a slot's containers keeps.                             *)
Releasing ==
  /\ containers' \in [Slots -> Container]
  /\ \A t \in Slots : containers'[t].release = containers[t].release

(* Containers that change their state keep their release.                  *)
LEMMA SetStateIs ==
  ASSUME containers \in [Slots -> Container], NEW s \in Slots,
         NEW state \in {"none", "stopped", "starting", "healthy"}, SetState(s, state)
  PROVE  Releasing
<1>1. containers[s] \in Container
  OBVIOUS
<1>2. PICK c : c = [containers[s] EXCEPT !.state = state]
  OBVIOUS
<1>3. c \in Container /\ c.release = containers[s].release
  BY <1>1, <1>2 DEF Container
<1>4. containers' = [containers EXCEPT ![s] = c]
  BY <1>2 DEF SetState
<1>5. QED BY <1>3, <1>4 DEF Releasing

(* systemctl stop: the unit does not run any more.                         *)
LEMMA StopUnitIs ==
  ASSUME containers \in [Slots -> Container], NEW s \in Slots, StopUnit(s)
  PROVE  Releasing /\ units' = units \ {s}
<1>1. CASE SetState(s, "stopped")
  BY <1>1, SetStateIs DEF StopUnit
<1>2. CASE UNCHANGED containers
  BY <1>2 DEF StopUnit, Releasing
<1>3. QED BY <1>1, <1>2 DEF StopUnit

(* Containers that start, answer or stop answering keep their release; and *)
(* only a unit that runs gives them one.                                   *)
Keeping ==
  /\ containers' \in [Slots -> Container]
  /\ \A t \in Slots : containers[t].release # None \/ t \notin units =>
       containers'[t].release = containers[t].release
  /\ \A t \in Slots : containers[t] = Absent /\ t \notin units => containers'[t] = Absent

LEMMA HostIs ==
  ASSUME Files, NEW s \in Slots, Ready(s) \/ Supervise(s) \/ Degrade(s)
  PROVE  /\ Keeping /\ UNCHANGED <<disk, envs, units, pc, plan, flags, outcome, marred>>
         /\ UNCHANGED <<deploys, reboots>> /\ faults' \in {faults, faults + 1}
<1>1. /\ UNCHANGED <<disk, envs, units, pc, plan, flags, outcome, marred>>
      /\ UNCHANGED <<deploys, reboots>> /\ faults' \in {faults, faults + 1}
  BY DEF Ready, Supervise, Degrade, Fault, budget
<1>2. PICK c : containers' = [containers EXCEPT ![s] = c] /\ c \in Container
               /\ (containers[s].release # None \/ s \notin units => c.release = containers[s].release)
               /\ ~ (containers[s] = Absent /\ s \notin units)
  <2>1. containers[s] \in Container /\ env[s] \in Optional(Releases)
    BY DEF Files
  <2>2. CASE Ready(s) \/ Degrade(s)
    <3>1. PICK state \in {"starting", "healthy"} : SetState(s, state)
      BY <2>2 DEF Ready, Degrade
    <3>2. PICK c : c = [containers[s] EXCEPT !.state = state]
      OBVIOUS
    <3>3. c \in Container /\ c.release = containers[s].release
      BY <2>1, <3>2 DEF Container
    <3>4. containers[s] # Absent
      BY <2>2 DEF Ready, Degrade, Healthy, Absent
    <3>5. QED BY <3>1, <3>2, <3>3, <3>4 DEF SetState
  <2>3. CASE Supervise(s)
    <3>1. PICK c : c = [release |-> IF containers[s].release = None THEN env[s]
                                    ELSE containers[s].release, state |-> "starting"]
      OBVIOUS
    <3>2. c \in Container /\ (containers[s].release # None => c.release = containers[s].release)
      BY <2>1, <3>1 DEF Container
    <3>3. containers' = [containers EXCEPT ![s] = c] /\ s \in units
      BY <2>3, <3>1 DEF Supervise
    <3>4. QED BY <3>2, <3>3
  <2>4. QED BY <2>2, <2>3
<1>3. Keeping
  BY <1>2 DEF Keeping, Files
<1>4. QED BY <1>1, <1>3

(* The host's own steps keep what a deployment relies on.                  *)
LEMMA KeepingKeeps ==
  ASSUME DeployInv, Keeping, UNCHANGED <<disk, envs, units, pc, plan, flags, outcome, marred>>,
         UNCHANGED <<deploys, reboots>>, faults' \in Nat
  PROVE  DeployInv'
<1>1. UNCHANGED <<link, runtime, manifest, active, receipt, enabled, env, current, candidate,
                  units, pc, next, new, saved, activated, started, stopped, outcome, marred,
                  deploys, reboots>>
  BY DEF disk, code, records, envs, plan, flags
<1>2. Files /\ Lines
  BY TypesAre DEF DeployInv
<1>3. DeployTypeOK'
  <2>1. Files'
    BY <1>1, <1>2 DEF Files, Keeping
  <2>2. Lines'
    BY <1>1, <1>2 DEF Lines
  <2>3. QED BY <2>1, <2>2, TypesBecome
<1>4. Standing' /\ Forward' /\ Planned' /\ Flagged' /\ Supervised' /\ Enabled'
  <2>1. Standing' /\ Forward' /\ Planned' /\ Enabled'
    BY <1>1 DEF DeployInv, Standing, Forward, Planned, Enabled
  <2>2. Flagged'
    BY <1>1 DEF DeployInv, Flagged
  <2>3. Supervised'
    BY <1>1 DEF DeployInv, Supervised, StillRunning, Running
  <2>4. QED BY <2>1, <2>2, <2>3
<1>5. Written'
  <2>1. pc # "off" /\ active = next => containers'[next].release = new
    BY <1>2 DEF DeployInv, Written, Planned, Keeping, Lines
  <2>2. QED BY <1>1, <2>1 DEF DeployInv, Written, Restores
<1>6. Filled'
  <2>1. ASSUME pc = "up" PROVE containers'[next] = Absent \/ containers'[next].release = new
    <3>1. next \in Slots /\ next \notin units /\ new # None
      BY <1>2, <2>1 DEF DeployInv, Supervised, Planned, Unsupervised, Unswitched, Unlisted,
                       Inactive, Unstarted, Lines
    <3>2. QED BY <2>1, <3>1 DEF DeployInv, Filled, Keeping
  <2>2. ASSUME pc \in Unswitched \ Unstarted PROVE containers'[next].release = new
    <3>1. pc # "off"
      BY <2>2 DEF Unswitched, Unlisted, Inactive, Unstarted
    <3>2. next \in Slots /\ new # None
      BY <1>2, <3>1 DEF DeployInv, Planned, Lines
    <3>3. QED BY <2>2, <3>2 DEF DeployInv, Filled, Keeping
  <2>3. ASSUME NEW r, NEW s, receipt # None, receipt = [release |-> r, slot |-> s],
               containers[s].release = r
        PROVE  containers'[s].release = r
    <3>1. receipt \in Env
      BY <1>2, <2>3 DEF Files, Optional
    <3>2. s \in Slots /\ r \in Releases /\ r # None
      BY <2>3, <3>1, Setting DEF Env
    <3>3. QED BY <2>3, <3>2 DEF Keeping
  <2>4. QED BY <1>1, <2>1, <2>2, <2>3 DEF DeployInv, Filled
<1>7. Unmarred' /\ RollbackRestores'
  BY <1>1 DEF DeployInv, Unmarred, Quiet, InFlight, RollbackRestores
<1>8. QED BY <1>3, <1>4, <1>5, <1>6, <1>7 DEF DeployInv

(* A host's step is one of those.                                          *)
LEMMA HostKeeps ==
  ASSUME DeployInv, NEW s \in Slots, Ready(s) \/ Supervise(s) \/ Degrade(s)
  PROVE  DeployInv'
<1>1. Files /\ faults \in Nat
  BY TypesAre DEF DeployInv, Lines
<1>2. QED BY <1>1, HostIs, KeepingKeeps

(* --------------------------- Lines of the deployer ----------------------- *)
(* What the steps that touch containers or a slot's file make of them.     *)
Others(s) == \A t \in Slots : t # s => containers'[t] = containers[t]
LEMMA RemoveIs ==
  ASSUME Files, Lines, Remove
  PROVE  containers' \in [Slots -> Container] /\ containers'[next] = Absent /\ Others(next)
<1>1. Absent \in Container
  BY DEF Absent, Container, Optional
<1>2. QED BY <1>1 DEF Files, Lines, Remove, Others

(* Its containers are the candidate's.                                     *)
LEMMA UpStartsIs ==
  ASSUME Files, Lines, UpStarts
  PROVE  containers' \in [Slots -> Container] /\ containers'[next].release = new /\ Others(next)
<1>1. [release |-> new, state |-> "starting"] \in Container
  BY DEF Lines, Container
<1>2. QED BY <1>1 DEF Files, Lines, UpStarts, Others

(* The candidate's unit has a file from here on.                           *)
LEMMA SlotEnvIs ==
  ASSUME Files, Lines, SlotEnv, new # None
  PROVE  env' \in [Slots -> Optional(Releases)] /\ \A s \in Slots : env[s] # None => env'[s] # None
BY DEF Files, Lines, SlotEnv

(* Stopping the old slot's unit leaves its containers their release.       *)
LEMMA StopOldIs ==
  ASSUME Files, Lines, Flagged, pc = "stop old", StopUnit(saved.slot)
  PROVE  Releasing /\ units' = units \ {saved.slot}
<1>1. saved.slot \in Slots
  BY DEF Flagged, Lines, Saved, Optional
<1>2. QED BY <1>1, StopUnitIs DEF Files

(* So does stopping the candidate's, if it was started.                    *)
LEMMA StopCandidateIs ==
  ASSUME Files, Lines, StopCandidate
  PROVE  /\ Releasing
         /\ IF started THEN units' = units \ {next} /\ enabled' = enabled \ {next}
            ELSE UNCHANGED <<units, enabled>>
<1>1. Releasing
  <2>1. CASE SetState(next, "stopped")
    BY <2>1, SetStateIs DEF Files, Lines
  <2>2. CASE UNCHANGED containers
    BY <2>2 DEF Releasing, Files
  <2>3. QED BY <2>1, <2>2 DEF StopCandidate
<1>2. QED BY <1>1 DEF StopCandidate

(* Restarting the core leaves every slot's unit and release as they were.  *)
LEMMA RestoreCoreIs ==
  ASSUME Files, Lines, RestoreCore
  PROVE  /\ Releasing
         /\ units' = units \/ (units' = units \cup {Core} /\ saved.slot = None)
<1>1. Releasing
  <2>1. CASE SetState(next, "stopped")
    BY <2>1, SetStateIs DEF Files, Lines
  <2>2. CASE UNCHANGED containers
    BY <2>2 DEF Releasing, Files
  <2>3. QED BY <2>1, <2>2 DEF RestoreCore, host
<1>2. QED BY <1>1 DEF RestoreCore, host

(* The old slot's unit is started again if it was stopped: it has its file.*)
LEMMA RestartOldIs ==
  ASSUME DeployInv, RestartOld
  PROVE  \/ /\ stopped /\ saved.slot \in Slots /\ env[saved.slot] # None
            /\ units' = units \cup {saved.slot} /\ enabled' = enabled \cup {saved.slot}
         \/ ~stopped /\ UNCHANGED <<units, enabled>>
<1>1. ASSUME stopped PROVE saved.slot \in Slots /\ env[saved.slot] # None
  <2>1. pc # "off" /\ saved \in Saved
    BY TypesAre DEF DeployInv, RestartOld, Step, Lines
  <2>2. saved.slot # None /\ saved.slot \in Optional(Slots)
    BY <1>1, <2>1 DEF DeployInv, Flagged, Saved
  <2>3. QED BY <2>1, <2>2 DEF DeployInv, Planned, Optional
<1>2. QED BY <1>1 DEF RestartOld, StartUnit

(* What a deployment has set out with are releases, slots and files.       *)
LEMMA PlanIs ==
  ASSUME Files, Lines
  PROVE  /\ saved.release \in Optional(Releases) /\ saved.slot \in Optional(Slots)
         /\ saved.current \in Optional(Env) /\ next \in Optional(Slots)
         /\ next \in Slots /\ next # None /\ next \in Units /\ Core \in Units /\ next # Core
         /\ saved.slot # None => saved.slot \in Slots /\ saved.slot \in Units /\ saved.slot # Core
         /\ new # None => /\ new \in Releases /\ new \in Nat
                          /\ [release |-> new, slot |-> next] \in Optional(Env)
         /\ saved.slot # None /\ next # saved.slot => Units = {Core, next, saved.slot}
<1>1. /\ saved.release \in Optional(Releases) /\ saved.slot \in Optional(Slots)
      /\ saved.current \in Optional(Env) /\ next \in Optional(Slots) /\ next \in Slots
  BY DEF Lines, Saved, Optional
<1>2. saved.slot # None => saved.slot \in Slots
  BY <1>1 DEF Optional
<1>3. new # None => new \in Releases /\ [release |-> new, slot |-> next] \in Optional(Env)
  BY <1>1 DEF Lines, Optional, Env
<1>4. saved.slot # None /\ next # saved.slot => Slots = {next, saved.slot}
  BY <1>1, <1>2, Setting
<1>5. QED BY <1>1, <1>2, <1>3, <1>4, Setting DEF Units

Deploys == Deployer \/ Fails \/ StopOldUnknown \/ Aborts

(* Every step of a deployment writes what the files may hold.              *)
LEMMA FilesKeep ==
  ASSUME DeployInv, Files, Lines, Deploys
  PROVE  Files'
<1> USE DEF Step, Goto, records, code, envs, host, disk, Files
<1>1. pc # "off" => /\ new \in Optional(Releases) /\ next \in Slots /\ saved \in Saved
  BY DEF Lines
<1>2. new # None => [release |-> new, slot |-> next] \in Optional(Env)
  BY PlanIs
<1>3. CASE Migrate \/ SmokeOld \/ CheckUnit \/ Up \/ Wait \/ IsActive \/ Verify \/ Smoke
           \/ Refused \/ Fails \/ Aborts
  BY <1>3 DEF Migrate, SmokeOld, CheckUnit, Up, Wait, IsActive, Verify, Smoke, Refused, Fails, Aborts
<1>4. CASE Remove
  BY <1>4, RemoveIs DEF Remove
<1>5. CASE UpStarts
  BY <1>5, UpStartsIs DEF UpStarts
<1>6. CASE SlotEnv
  BY <1>6 DEF SlotEnv, Lines
<1>7. CASE Install \/ Link \/ Manifest
  BY <1>7 DEF Install, Link, Manifest, Lines
<1>8. CASE MoveEnv
  BY <1>8 DEF MoveEnv, Optional
<1>9. CASE ActiveSlot
  BY <1>9, PlanIs DEF ActiveSlot
<1>10. CASE RestartCore
  BY <1>10, PlanIs DEF RestartCore
<1>11. CASE Start
  BY <1>11, PlanIs DEF Start, StartUnit
<1>12. CASE Enable
  BY <1>12, PlanIs DEF Enable
<1>13. CASE StopOld \/ StopOldUnknown
  <2>1. pc = "stop old" /\ StopUnit(saved.slot)
    BY <1>13 DEF StopOld, StopOldUnknown
  <2>2. QED BY <1>13, <2>1, StopOldIs DEF StopOld, StopOldUnknown, DeployInv, Releasing
<1>14. CASE DisableOld
  BY <1>14 DEF DisableOld
<1>15. CASE Receipt
  <2>1. new # None
    BY <1>15 DEF Receipt, DeployInv, Planned
  <2>2. QED BY <1>2, <1>15, <2>1 DEF Receipt
<1>16. CASE RestartOld
  BY <1>16, RestartOldIs DEF RestartOld, Units
<1>17. CASE RestoreCode \/ RestoreRecords
  BY <1>17, PlanIs DEF RestoreCode, RestoreRecords
<1>18. CASE RestoreCore
  BY <1>18, RestoreCoreIs, PlanIs DEF RestoreCore, Releasing
<1>19. CASE StopCandidate
  BY <1>19, StopCandidateIs DEF StopCandidate, Releasing
<1>20. QED
  BY <1>3, <1>4, <1>5, <1>6, <1>7, <1>8, <1>9, <1>10, <1>11, <1>12, <1>13, <1>14, <1>15, <1>16,
     <1>17, <1>18, <1>19, Zenon DEF Deploys, Deployer

(* The deployer's own variables are what they may be at the next line.     *)
LEMMA LinesKeep ==
  ASSUME DeployInv, Lines, Deploys
  PROVE  Lines'
<1> USE DEF Step, Goto, plan, flags, budget
<1>1. CASE Fails \/ StopOldUnknown \/ Aborts
  <2>0. faults' = faults + 1
    BY <1>1 DEF Fails, StopOldUnknown, Aborts, Fault
  <2>1. /\ UNCHANGED <<deploys, reboots, plan, flags>>
        /\ pc' \in {"restart old", "off"} /\ outcome' \in {outcome, "aborted"}
        /\ \E f \in {{}, {"killed"}, {"unknown"}} : marred' = marred \cup f
    BY <1>1 DEF Fails, StopOldUnknown, Aborts, Fault
  <2>2. faults' \in Nat
    <3>1. faults \in Nat
      BY DEF Lines
    <3>2. QED BY <2>0, <3>1
  <2>3. /\ marred' \in SUBSET {"killed", "unknown"}
        /\ outcome' \in {"none", "running", "deployed", "rolled back", "aborted"}
    BY <2>1 DEF Lines
  <2>4. pc' \in Tries \cup Rollback \cup {"off"}
    BY <2>1 DEF Rollback
  <2>5. QED BY <2>1, <2>2, <2>3, <2>4 DEF Lines
<1>2. CASE UpStarts
  BY <1>2 DEF UpStarts, Lines
<1>3. CASE Migrate \/ SmokeOld \/ CheckUnit \/ Remove \/ Up \/ Wait \/ SlotEnv \/ Install
           \/ Link \/ Manifest \/ MoveEnv
  BY <1>3 DEF Migrate, SmokeOld, CheckUnit, Remove, Up, Wait, SlotEnv, Install, Link, Manifest,
              MoveEnv, Tries, Lines
<1>4. CASE ActiveSlot \/ RestartCore \/ Start \/ Enable \/ IsActive \/ Verify \/ StopOld
           \/ DisableOld \/ Smoke
  BY <1>4 DEF ActiveSlot, RestartCore, Start, Enable, IsActive, Verify, StopOld, DisableOld,
              Smoke, Tries, Lines
<1>5. CASE RestartOld \/ RestoreCode \/ RestoreRecords \/ RestoreCore \/ Refused
  BY <1>5 DEF RestartOld, RestoreCode, RestoreRecords, RestoreCore, Refused, Rollback, Lines
<1>6. CASE Receipt \/ StopCandidate
  BY <1>6 DEF Receipt, StopCandidate, Lines
<1>7. QED
  BY <1>1, <1>2, <1>3, <1>4, <1>5, <1>6, Zenon DEF Deploys, Deployer

(* The releases of a deployment do not go back.                            *)
LEMMA OrderIs ==
  ASSUME DeployInv, Files, Lines, pc # "off"
  PROVE  /\ new \in Releases /\ new # None /\ new <= new
         /\ receipt # None => /\ saved.release # None /\ receipt.release <= saved.release
                              /\ receipt.release <= new
<1>1. new # None /\ new \in Releases
  BY PlanIs DEF DeployInv, Planned
<1>2. new <= new
  <2>1. new \in Nat
    BY <1>1, Setting
  <2>2. QED BY <2>1
<1>3. ASSUME receipt # None
      PROVE  /\ saved.release # None /\ receipt.release <= saved.release
             /\ receipt.release <= new
  <2>2. saved.release # None /\ receipt.release <= saved.release /\ saved.release <= new
    BY <1>3, Zenon DEF DeployInv, Planned, Forward
  <2>3. receipt.release \in Nat /\ saved.release \in Nat /\ new \in Nat
    <3>1. receipt \in Env
      BY <1>3 DEF Files, Optional
    <3>2. receipt.release \in Releases
      BY <3>1 DEF Env
    <3>3. saved.release \in Releases
      BY <2>2, PlanIs DEF Optional
    <3>4. QED BY <1>1, <3>2, <3>3, Setting
  <2>4. \A x, y, z \in Nat : x <= y /\ y <= z => x <= z
    OBVIOUS
  <2>5. receipt.release <= new
    BY <2>2, <2>3, <2>4, Zenon
  <2>6. QED BY <2>2, <2>5
<1>4. QED BY <1>1, <1>2, <1>3

(* A step of a deployment is one under way, and keeps its plan.            *)
LEMMA DeploysIs ==
  ASSUME Deploys
  PROVE  pc # "off" /\ UNCHANGED <<next, new, saved, deploys, reboots>>
<1> USE DEF Step, plan, budget
<1>1. CASE Migrate \/ SmokeOld \/ CheckUnit \/ Remove \/ UpStarts \/ Up \/ Wait \/ SlotEnv \/ Install
  BY <1>1 DEF Migrate, SmokeOld, CheckUnit, Remove, UpStarts, Up, Wait, SlotEnv, Install
<1>2. CASE Link \/ Manifest \/ MoveEnv \/ ActiveSlot \/ RestartCore \/ Start \/ Enable \/ IsActive
  BY <1>2 DEF Link, Manifest, MoveEnv, ActiveSlot, RestartCore, Start, Enable, IsActive
<1>3. CASE Verify \/ StopOld \/ DisableOld \/ Smoke \/ Receipt \/ RestartOld \/ RestoreCode
  BY <1>3 DEF Verify, StopOld, DisableOld, Smoke, Receipt, RestartOld, RestoreCode
<1>4. CASE RestoreRecords \/ RestoreCore \/ StopCandidate \/ Refused \/ Fails
           \/ StopOldUnknown \/ Aborts
  BY <1>4 DEF RestoreRecords, RestoreCore, StopCandidate, Refused, Fails, StopOldUnknown, Aborts,
              Fault, Tries
<1>5. QED
  BY <1>1, <1>2, <1>3, <1>4, Zenon DEF Deploys, Deployer

(* The manifest, the receipt and the plan stay in the order of main.       *)
LEMMA ForwardKeeps ==
  ASSUME DeployInv, Files, Lines, Deploys
  PROVE  Forward'
<1>0. pc # "off" /\ UNCHANGED <<next, new, saved>>
  BY DeploysIs
<1>1. /\ new <= new
      /\ receipt # None => /\ receipt.release <= manifest /\ receipt.release <= new
                           /\ receipt.release <= saved.release
      /\ saved.release # None => saved.release <= new
  BY <1>0, OrderIs, Zenon DEF DeployInv, Forward
<1>2. CASE UNCHANGED receipt /\ manifest' \in {manifest, new, saved.release}
  BY <1>0, <1>1, <1>2, Zenon DEF Forward
<1>3. CASE Receipt
  <2>1. manifest = new
    BY <1>3 DEF Receipt, DeployInv, Written, Unlisted, Inactive, Unstarted, Tries
  <2>2. receipt'.release = new /\ pc' = "off" /\ manifest' = manifest
    BY <1>3 DEF Receipt, records, Goto
  <2>3. QED BY <1>0, <1>1, <2>1, <2>2, Zenon DEF Forward
<1>4. QED
  <2>1. Receipt \/ (UNCHANGED receipt /\ manifest' \in {manifest, new, saved.release})
    BY DEF Deploys, Deployer, Migrate, SmokeOld, CheckUnit, Remove, UpStarts, Up, Wait, SlotEnv,
           Install, Link, Manifest, MoveEnv, ActiveSlot, RestartCore, Start, Enable, IsActive,
           Verify, StopOld, DisableOld, Smoke, RestartOld, RestoreCode, RestoreRecords,
           RestoreCore, StopCandidate, Refused, Fails, StopOldUnknown, Aborts, disk, records
  <2>2. QED BY <1>2, <1>3, <2>1

(* What no line changes.                                                   *)
LEMMA StandingKeeps ==
  ASSUME DeployInv, Files, Lines, Deploys
  PROVE  Standing'
<1> USE DEF Step, Goto, records, code, envs, host, disk
<1>0. /\ Standing /\ Core # next
      /\ (Core # saved.slot \/ saved.slot = None)
      /\ next # None
  BY PlanIs DEF DeployInv
<1>1. CASE Migrate \/ SmokeOld \/ CheckUnit \/ Up \/ Wait \/ IsActive \/ Verify \/ Smoke
           \/ Refused \/ Fails \/ Aborts \/ Remove \/ UpStarts \/ Install \/ Link \/ MoveEnv
           \/ RestoreCode
  <2>1. UNCHANGED <<env, units, enabled, active, receipt, manifest>>
    BY <1>1 DEF Migrate, SmokeOld, CheckUnit, Up, Wait, IsActive, Verify, Smoke, Refused, Fails,
                Aborts, Remove, UpStarts, Install, Link, MoveEnv, RestoreCode
  <2>2. QED BY <1>0, <2>1 DEF Standing
<1>2. CASE SlotEnv
  <2>1. new # None
    BY <1>2, OrderIs DEF SlotEnv
  <2>2. QED BY <1>0, <1>2, <2>1, SlotEnvIs DEF SlotEnv, Standing
<1>3. CASE Manifest
  <2>1. new # None
    BY <1>3, OrderIs DEF Manifest
  <2>2. QED BY <1>0, <1>3, <2>1 DEF Manifest, Standing
<1>4. CASE ActiveSlot
  BY <1>0, <1>4 DEF ActiveSlot, Standing
<1>5. CASE RestartCore \/ Start \/ Enable
  <2>1. active = next
    BY <1>5 DEF RestartCore, Start, Enable, DeployInv, Written, Switched, Unswitched, Unlisted,
                Inactive, Unstarted, Tries
  <2>2. CASE RestartCore
    BY <1>0, <2>1, <2>2, Setting DEF RestartCore, Standing
  <2>3. CASE Start
    BY <1>0, <2>1, <2>3 DEF Start, StartUnit, Standing, DeployInv, Enabled, Switched, Tries,
       Unswitched, Unlisted, Inactive, Unstarted
  <2>4. CASE Enable
    BY <1>0, <2>1, <2>4 DEF Enable, Standing
  <2>5. QED BY <1>5, <2>2, <2>3, <2>4
<1>6. CASE StopOld \/ StopOldUnknown
  <2>1. pc = "stop old" /\ StopUnit(saved.slot)
    BY <1>6 DEF StopOld, StopOldUnknown
  <2>2. units' = units \ {saved.slot}
    BY <2>1, StopOldIs DEF DeployInv
  <2>3. UNCHANGED <<env, enabled, active, receipt, manifest>>
    BY <1>6 DEF StopOld, StopOldUnknown
  <2>4. QED BY <1>0, <2>2, <2>3 DEF Standing
<1>7. CASE DisableOld
  <2>1. saved.slot # Core
    BY <1>7, PlanIs DEF DisableOld, DeployInv, Flagged
  <2>2. UNCHANGED <<env, units, active, receipt, manifest>>
    BY <1>7 DEF DisableOld
  <2>3. QED BY <1>0, <1>7, <2>1, <2>2 DEF DisableOld, Standing
<1>8. CASE Receipt
  <2>1. active = next /\ manifest = new
    BY <1>8 DEF Receipt, DeployInv, Written, Switched, Unswitched, Unlisted, Inactive,
                Unstarted, Tries
  <2>2. new # None
    BY <1>8, OrderIs DEF Receipt
  <2>3. QED BY <1>0, <1>8, <2>1, <2>2 DEF Receipt, Standing
<1>9. CASE RestartOld
  <2>1. active = None => saved.slot = None
    BY <1>0, <1>9 DEF RestartOld, DeployInv, Written
  <2>2. UNCHANGED <<env, receipt, manifest, active>>
    BY <1>9 DEF RestartOld
  <2>3. stopped => saved.slot # None /\ Core \in enabled
    BY <1>9 DEF RestartOld, DeployInv, Flagged, Planned
  <2>4. QED BY <1>0, <1>9, <2>1, <2>2, <2>3, RestartOldIs, Setting DEF Standing
<1>10. CASE RestoreRecords
  <2>1. pc # "off" /\ UNCHANGED <<env, units, enabled, receipt>>
    BY <1>10 DEF RestoreRecords
  <2>2. Restores => saved.release # None
    BY DEF Restores
  <2>3. saved.slot = None => /\ receipt = None /\ enabled \subseteq {Core, First}
                             /\ units \subseteq {Core, First}
    BY <2>1 DEF DeployInv, Planned
  <2>4. QED BY <1>0, <1>10, <2>1, <2>2, <2>3 DEF RestoreRecords, Standing
<1>11. CASE RestoreCore
  BY <1>0, <1>11, RestoreCoreIs, Setting DEF RestoreCore, Standing
<1>12. CASE StopCandidate
  BY <1>0, <1>12, StopCandidateIs DEF StopCandidate, Standing
<1>13. QED
  BY <1>1, <1>2, <1>3, <1>4, <1>5, <1>6, <1>7, <1>8, <1>9, <1>10, <1>11, <1>12, Zenon
     DEF Deploys, Deployer

(* What a deployment has set out with stays as it is until it ends.        *)
LEMMA PlannedKeeps ==
  ASSUME DeployInv, Files, Lines, Deploys
  PROVE  Planned'
<1> USE DEF DeployInv, Step, Goto, Planned, disk, envs, host, plan
<1>1. CASE Migrate \/ SmokeOld \/ CheckUnit \/ Remove \/ UpStarts \/ Wait \/ Up
  BY <1>1 DEF Migrate, SmokeOld, CheckUnit, Remove, UpStarts, Wait, Up, Healthy
<1>2. CASE Install \/ Link \/ Manifest \/ MoveEnv \/ ActiveSlot \/ IsActive \/ Verify
  BY <1>2 DEF Install, Link, Manifest, MoveEnv, ActiveSlot, IsActive, Verify, Served,
     code, records
<1>3. CASE Smoke \/ RestoreCode \/ RestoreRecords \/ Refused \/ Fails
  BY <1>3 DEF Smoke, RestoreCode, RestoreRecords, Refused, Fails, Fault, code, records,
     Tries
<1>3a. CASE RestoreCore
  BY <1>3a, RestoreCoreIs DEF RestoreCore
<1>4. CASE SlotEnv
  BY <1>4, SlotEnvIs, PlanIs DEF SlotEnv
<1>5. CASE RestartCore
  BY <1>5 DEF RestartCore
<1>6. CASE Start
  BY <1>6 DEF Start, StartUnit
<1>7. CASE Enable
  BY <1>7 DEF Enable, Flagged, Tries, Unstopped, Unswitched, Unlisted, Inactive,
     Unstarted
<1>8. CASE StopOld \/ StopOldUnknown
  <2>1. pc = "stop old" /\ StopUnit(saved.slot)
    BY <1>8 DEF StopOld, StopOldUnknown
  <2>2. units' = units \ {saved.slot} /\ saved.slot # Core
    BY <2>1, StopOldIs, PlanIs DEF Flagged
  <2>3. pc # "off" /\ pc' # "off" /\ UNCHANGED <<outcome, receipt, enabled, env, plan>>
    BY <1>8 DEF StopOld, StopOldUnknown
  <2>4. QED BY <2>2, <2>3
<1>9. CASE DisableOld
  BY <1>9, PlanIs DEF DisableOld, Flagged
<1>10. CASE RestartOld
  BY <1>10, RestartOldIs, Setting DEF RestartOld
<1>11. CASE Receipt \/ StopCandidate \/ Aborts
  BY <1>11 DEF Receipt, StopCandidate, Aborts, Fault
<1>12. QED
  BY <1>1, <1>2, <1>3, <1>3a, <1>4, <1>5, <1>6, <1>7, <1>8, <1>9, <1>10, <1>11, Zenon DEF
     Deploys, Deployer

(* The flags say which lines are done.                                     *)
LEMMA FlaggedKeeps ==
  ASSUME DeployInv, Files, Lines, Deploys
  PROVE  Flagged'
<1> USE DEF DeployInv, Step, Goto, Flagged, Lines, plan, flags, Tries, Unstopped,
        Unswitched, Unlisted, Inactive, Unstarted
<1>1. CASE Migrate \/ SmokeOld \/ CheckUnit \/ Remove \/ UpStarts \/ Wait
  <2>1. CASE Migrate
    BY <2>1 DEF Migrate
  <2>2. CASE SmokeOld
    BY <2>2 DEF SmokeOld
  <2>3. CASE CheckUnit
    BY <2>3 DEF CheckUnit
  <2>4. CASE Remove
    BY <2>4 DEF Remove
  <2>5. CASE UpStarts
    BY <2>5 DEF UpStarts
  <2>6. CASE Wait
    BY <2>6 DEF Wait
  <2>7. QED
    BY <1>1, <2>1, <2>2, <2>3, <2>4, <2>5, <2>6, Zenon
<1>2. CASE Up \/ SlotEnv
  <2>1. CASE Up
    BY <2>1 DEF Up, Healthy
  <2>2. CASE SlotEnv
    BY <2>2 DEF SlotEnv
  <2>3. QED
    BY <1>2, <2>1, <2>2, Zenon
<1>3. CASE Install \/ Link \/ Manifest \/ MoveEnv \/ ActiveSlot
  <2>1. CASE Install
    BY <2>1 DEF Install
  <2>2. CASE Link
    BY <2>2 DEF Link
  <2>3. CASE Manifest
    BY <2>3 DEF Manifest
  <2>4. CASE MoveEnv
    BY <2>4 DEF MoveEnv
  <2>5. CASE ActiveSlot
    BY <2>5 DEF ActiveSlot
  <2>6. QED
    BY <1>3, <2>1, <2>2, <2>3, <2>4, <2>5, Zenon
<1>4. CASE RestartCore \/ Start \/ Enable \/ IsActive \/ Verify
  <2>1. CASE RestartCore
    BY <2>1 DEF RestartCore
  <2>2. CASE Start
    BY <2>2 DEF Start, StartUnit
  <2>3. CASE Enable
    BY <2>3 DEF Enable
  <2>4. CASE IsActive
    BY <2>4 DEF IsActive
  <2>5. CASE Verify
    BY <2>5 DEF Verify, Served
  <2>6. QED
    BY <1>4, <2>1, <2>2, <2>3, <2>4, <2>5, Zenon
<1>5. CASE StopOld
  BY <1>5 DEF StopOld
<1>6. CASE DisableOld \/ Smoke \/ Receipt
  <2>1. CASE DisableOld
    BY <2>1 DEF DisableOld
  <2>2. CASE Smoke
    BY <2>2 DEF Smoke
  <2>3. CASE Receipt
    BY <2>3 DEF Receipt
  <2>4. QED
    BY <1>6, <2>1, <2>2, <2>3, Zenon
<1>7. CASE RestartOld \/ RestoreCode \/ RestoreRecords \/ RestoreCore \/ StopCandidate
  <2>1. CASE RestartOld
    BY <2>1 DEF RestartOld, Rollback
  <2>2. CASE RestoreCode
    BY <2>2 DEF RestoreCode, Rollback
  <2>3. CASE RestoreRecords
    BY <2>3 DEF RestoreRecords, Rollback
  <2>4. CASE RestoreCore
    BY <2>4 DEF RestoreCore, Rollback
  <2>5. CASE StopCandidate
    BY <2>5 DEF StopCandidate, Rollback
  <2>6. QED
    BY <1>7, <2>1, <2>2, <2>3, <2>4, <2>5, Zenon
<1>8. CASE Refused \/ Fails \/ StopOldUnknown \/ Aborts
  <2>1. CASE Refused
    BY <2>1 DEF Refused
  <2>2. CASE Fails
    BY <2>2 DEF Fails, Fault
  <2>3. CASE StopOldUnknown
    BY <2>3 DEF StopOldUnknown, Fault
  <2>4. CASE Aborts
    BY <2>4 DEF Aborts, Fault
  <2>5. QED
    BY <1>8, <2>1, <2>2, <2>3, <2>4, Zenon
<1>9. QED
  BY <1>1, <1>2, <1>3, <1>4, <1>5, <1>6, <1>7, <1>8, Zenon DEF Deploys, Deployer

(* What is written and restored is right at each line.                     *)
LEMMA WrittenKeeps ==
  ASSUME DeployInv, Files, Lines, Deploys
  PROVE  Written'
<1> USE DEF DeployInv, Step, Goto, Written, Restores, Switched, Rollback, Tries,
        Unstopped, Unswitched, Unlisted, Inactive, Unstarted, disk, code, records, envs, host,
        plan, flags
<1>1. CASE Migrate \/ SmokeOld \/ CheckUnit \/ Wait
  BY <1>1 DEF Migrate, SmokeOld, CheckUnit, Wait, Planned
<1>2. CASE Remove
  BY <1>2, RemoveIs DEF Remove, Flagged, Planned
<1>3. CASE UpStarts
  BY <1>3, UpStartsIs DEF UpStarts, Flagged, Planned
<1>4. CASE Up
  BY <1>4 DEF Up, Healthy, Flagged, Planned
<1>5. CASE SlotEnv
  BY <1>5 DEF SlotEnv, Flagged, Planned, Filled
<1>6. CASE Install \/ Link
  BY <1>6 DEF Install, Link, Planned, Flagged
<1>7. CASE Manifest \/ MoveEnv
  BY <1>7 DEF Manifest, MoveEnv, Planned, Flagged
<1>8. CASE ActiveSlot
  BY <1>8 DEF ActiveSlot, Planned, Flagged, Filled
<1>9. CASE RestartCore \/ Start \/ Enable \/ IsActive \/ Verify
  BY <1>9 DEF RestartCore, Start, Enable, IsActive, Verify, StartUnit, Served, Planned,
     Flagged
<1>10. CASE StopOld \/ StopOldUnknown
  <2>1. pc = "stop old" /\ StopUnit(saved.slot)
    BY <1>10 DEF StopOld, StopOldUnknown
  <2>2. Releasing
    BY <2>1, StopOldIs
  <2>3. QED BY <1>10, <2>2 DEF StopOld, StopOldUnknown, Releasing, Lines, Planned, Flagged
<1>11. CASE DisableOld \/ Smoke \/ Receipt
  BY <1>11 DEF DisableOld, Smoke, Receipt, Planned, Flagged
<1>12. CASE RestartOld
  BY <1>12 DEF RestartOld, Planned, Flagged
<1>13. CASE RestoreCode
  BY <1>13 DEF RestoreCode, Planned, Flagged
<1>14. CASE RestoreRecords
  BY <1>14 DEF RestoreRecords, Planned, Flagged
<1>15. CASE RestoreCore
  BY <1>15, RestoreCoreIs DEF RestoreCore, Releasing, Planned, Flagged, Lines
<1>15a. CASE StopCandidate
  BY <1>15a DEF StopCandidate
<1>16. CASE Refused \/ Fails \/ Aborts
  BY <1>16 DEF Refused, Fails, Aborts, Fault, Planned, Flagged
<1>17. QED
  BY <1>1, <1>2, <1>3, <1>4, <1>5, <1>6, <1>7, <1>8, <1>9, <1>10, <1>11, <1>12, <1>13,
     <1>14, <1>15, <1>15a, <1>16, Zenon DEF Deploys, Deployer

(* What starts units and takes away no file leaves a slot running.         *)
LEMMA StillRunningKept ==
  ASSUME DeployInv, units \subseteq units', \A s \in Slots : env[s] # None => env'[s] # None,
         UNCHANGED <<receipt, reboots>>, marred \subseteq marred'
  PROVE  StillRunning'
BY DEF DeployInv, Supervised, StillRunning, Running

(* Some slot's unit runs at each line.                                     *)
LEMMA SupervisedKeeps ==
  ASSUME DeployInv, Files, Lines, Deploys
  PROVE  Supervised'
<1> USE DEF DeployInv, Step, Goto, Supervised, Unsupervised, Restarted, Rollback, Tries,
        Unstopped, Unswitched, Unlisted, Inactive, Unstarted, disk, envs, host, plan, flags,
        budget
<1>1. CASE Migrate \/ SmokeOld \/ CheckUnit \/ Remove \/ UpStarts \/ Wait \/ Up
  <2>1. UNCHANGED <<units, env, receipt, reboots, marred>>
    BY <1>1 DEF Migrate, SmokeOld, CheckUnit, Remove, UpStarts, Wait, Up
  <2>2. StillRunning'
    BY <2>1, StillRunningKept
  <2>3. CASE Migrate
    BY <2>3, <2>1, <2>2 DEF Migrate
  <2>4. CASE SmokeOld
    BY <2>4, <2>1, <2>2 DEF SmokeOld
  <2>5. CASE CheckUnit
    BY <2>5, <2>1, <2>2 DEF CheckUnit
  <2>6. CASE Remove
    BY <2>6, <2>1, <2>2 DEF Remove
  <2>7. CASE UpStarts
    BY <2>7, <2>1, <2>2 DEF UpStarts
  <2>8. CASE Wait
    BY <2>8, <2>1, <2>2 DEF Wait
  <2>9. CASE Up
    BY <2>9, <2>1, <2>2 DEF Up, Healthy
  <2>10. QED
    BY <1>1, <2>3, <2>4, <2>5, <2>6, <2>7, <2>8, <2>9, Zenon
<1>2. CASE Install \/ Link \/ Manifest \/ MoveEnv \/ ActiveSlot
  <2>1. UNCHANGED <<units, env, receipt, reboots, marred>>
    BY <1>2 DEF Install, Link, Manifest, MoveEnv, ActiveSlot, code, records
  <2>2. StillRunning'
    BY <2>1, StillRunningKept
  <2>3. CASE Install
    BY <2>3, <2>1, <2>2 DEF Install
  <2>4. CASE Link
    BY <2>4, <2>1, <2>2 DEF Link
  <2>5. CASE Manifest
    BY <2>5, <2>1, <2>2 DEF Manifest
  <2>6. CASE MoveEnv
    BY <2>6, <2>1, <2>2 DEF MoveEnv
  <2>7. CASE ActiveSlot
    BY <2>7, <2>1, <2>2 DEF ActiveSlot
  <2>8. QED
    BY <1>2, <2>3, <2>4, <2>5, <2>6, <2>7, Zenon
<1>3. CASE SlotEnv
  <2>1. new # None
    BY <1>3 DEF SlotEnv, Planned
  <2>2. StillRunning'
    BY <1>3, <2>1, SlotEnvIs, StillRunningKept DEF SlotEnv
  <2>3. QED BY <1>3, <2>2 DEF SlotEnv
<1>4. CASE RestartCore
  <2>1. StillRunning'
    BY <1>4, StillRunningKept DEF RestartCore
  <2>2. QED BY <1>4, <2>1, PlanIs DEF RestartCore
<1>5. CASE Start
  <2>1. StillRunning'
    BY <1>5, StillRunningKept DEF Start, StartUnit
  <2>2. QED BY <1>5, <2>1, PlanIs DEF Start, StartUnit
<1>6. CASE Enable \/ IsActive \/ Verify \/ Smoke \/ DisableOld
  <2>1. UNCHANGED <<units, env, receipt, reboots, marred>>
    BY <1>6 DEF Enable, IsActive, Verify, Smoke, DisableOld
  <2>2. StillRunning'
    BY <2>1, StillRunningKept
  <2>3. CASE Enable
    BY <2>3, <2>1, <2>2 DEF Enable, Planned, Flagged
  <2>4. CASE IsActive
    BY <2>4, <2>1, <2>2 DEF IsActive, Planned, Flagged
  <2>5. CASE Verify
    BY <2>5, <2>1, <2>2 DEF Verify, Served, Planned, Flagged
  <2>6. CASE Smoke
    BY <2>6, <2>1, <2>2 DEF Smoke, Planned, Flagged
  <2>7. CASE DisableOld
    BY <2>7, <2>1, <2>2 DEF DisableOld, Planned, Flagged
  <2>8. QED
    BY <1>6, <2>3, <2>4, <2>5, <2>6, <2>7, Zenon
<1>7. CASE StopOld
  <2>1. Releasing /\ units' = units \ {saved.slot}
    BY <1>7, StopOldIs DEF StopOld
  <2>2. next \in units' /\ Core \in units'
    BY <1>7, <2>1, PlanIs DEF StopOld, Planned, Flagged
  <2>3. env'[next] # None /\ next \in Slots
    BY <1>7, <2>2, <2>1, PlanIs DEF StopOld, Standing
  <2>4. StillRunning'
    BY <2>2, <2>3 DEF StillRunning, Running
  <2>5. QED BY <1>7, <2>2, <2>4 DEF StopOld
<1>8. CASE StopOldUnknown
  <2>1. "unknown" \in marred' /\ pc' = "restart old"
    BY <1>8 DEF StopOldUnknown
  <2>2. QED BY <2>1 DEF StillRunning
<1>9. CASE Receipt
  <2>1. next \in units /\ Core \in units /\ next \in Slots /\ env[next] # None
    BY <1>9, PlanIs DEF Receipt, Standing
  <2>2. StillRunning'
    BY <1>9, <2>1 DEF Receipt, StillRunning, Running
  <2>3. QED BY <1>9, <2>2 DEF Receipt
<1>10. CASE RestartOld
  <2>1. units \subseteq units' /\ UNCHANGED <<env, receipt, reboots, marred>>
    BY <1>10, RestartOldIs DEF RestartOld
  <2>2. StillRunning'
    BY <2>1, StillRunningKept
  <2>3. saved.slot # None => saved.slot \in units' \/ "unknown" \in marred'
    BY <1>10, RestartOldIs DEF RestartOld
  <2>4. QED BY <1>10, <2>1, <2>2, <2>3 DEF RestartOld
<1>11. CASE RestoreCode \/ RestoreRecords
  <2>1. UNCHANGED <<units, env, receipt, reboots, marred>>
    BY <1>11 DEF RestoreCode, RestoreRecords, records
  <2>2. StillRunning'
    BY <2>1, StillRunningKept
  <2>3. CASE RestoreCode
    BY <2>3, <2>1, <2>2 DEF RestoreCode
  <2>4. CASE RestoreRecords
    BY <2>4, <2>1, <2>2 DEF RestoreRecords
  <2>5. QED
    BY <1>11, <2>3, <2>4, Zenon
<1>11a. CASE RestoreCore
  <2>1. units \subseteq units' /\ UNCHANGED <<env, receipt, reboots, marred>>
    BY <1>11a, RestoreCoreIs DEF RestoreCore
  <2>2. StillRunning'
    BY <2>1, StillRunningKept
  <2>3. QED BY <1>11a, <2>1, <2>2 DEF RestoreCore
<1>12. CASE StopCandidate
  <2>1. pc' = "off" /\ units' \in {units, units \ {next}} /\ UNCHANGED <<env, receipt, reboots, marred>>
    BY <1>12 DEF StopCandidate
  <2>2. ASSUME receipt # None, "unknown" \notin marred PROVE \E s \in Slots : Running(s)'
    <3>1. saved.slot # None /\ Core \in units /\ env[saved.slot] # None /\ next # saved.slot
      BY <1>12, <2>2 DEF StopCandidate, Planned
    <3>2. saved.slot \in units
      BY <1>12, <2>2, <3>1 DEF StopCandidate
    <3>3. PICK s : s = saved.slot
      OBVIOUS
    <3>4. s \in Slots /\ Running(s)'
      BY <2>1, <3>1, <3>2, <3>3, PlanIs DEF Running
    <3>5. QED BY <3>4
  <2>3. QED BY <2>1, <2>2 DEF StillRunning
<1>13. CASE Refused \/ Fails \/ Aborts
  <2>1. /\ UNCHANGED <<units, env, receipt, reboots>>
        /\ marred \subseteq marred'
    BY <1>13 DEF Refused, Fails, Aborts, Fault
  <2>2. StillRunning'
    BY <2>1, StillRunningKept
  <2>3. CASE Refused
    BY <2>3, <2>1, <2>2 DEF Refused, Flagged
  <2>4. CASE Fails
    BY <2>4, <2>1, <2>2 DEF Fails, Fault, Flagged
  <2>5. CASE Aborts
    BY <2>5, <2>1, <2>2 DEF Aborts, Fault, Flagged
  <2>6. QED
    BY <1>13, <2>3, <2>4, <2>5, Zenon
<1>14. QED
  BY <1>1, <1>2, <1>3, <1>4, <1>5, <1>6, <1>7, <1>8, <1>9, <1>10, <1>11, <1>11a, <1>12, <1>13,
     Zenon DEF Deploys, Deployer

(* A receipt names what it says at any moment of a deployment: were it the *)
(* candidate's the manifest would be ahead of it.                          *)
LEMMA NamedIs ==
  ASSUME DeployInv, Files, Lines, pc # "off", receipt # None,
         receipt = [release |-> manifest, slot |-> active]
  PROVE  active \in Slots /\ containers[active].release = manifest
<1>1. receipt \in Env
  BY DEF Files, Optional
<1>2. active \in Slots /\ manifest \in Releases /\ receipt.release = manifest
  BY <1>1 DEF Env
<1>3. active \in {saved.slot, next} /\ manifest \in {saved.release, new}
  BY DEF DeployInv, Written
<1>4. CASE active = next
  BY <1>2, <1>4 DEF DeployInv, Written
<1>5. CASE active = saved.slot
  <2>1. manifest <= saved.release /\ saved.release <= new /\ saved.release # None
    BY <1>2, OrderIs DEF DeployInv, Forward
  <2>2. saved.release \in Nat /\ new \in Nat /\ manifest \in Nat
    <3>1. saved.release \in Releases /\ new \in Releases
      BY <2>1, OrderIs, PlanIs DEF Optional
    <3>2. QED BY <1>2, <3>1, Setting
  <2>3. \A x, y \in Nat : x <= y /\ y <= x => x = y
    OBVIOUS
  <2>4. manifest = new => saved.release = manifest
    BY <2>1, <2>2, <2>3, Zenon
  <2>5. manifest = saved.release
    BY <1>3, <2>4
  <2>6. QED BY <1>2, <1>5, <2>5 DEF DeployInv, Filled
<1>6. QED BY <1>3, <1>4, <1>5

(* The containers are of the releases that the records name.               *)
LEMMA FilledKeeps ==
  ASSUME DeployInv, Files, Lines, Deploys
  PROVE  Filled'
<1> USE DEF DeployInv, Step, Goto, Filled, Tries, Unstopped, Unswitched, Unlisted,
        Inactive, Unstarted, disk, envs, host, plan
<1>1. CASE Migrate \/ SmokeOld \/ CheckUnit \/ Wait \/ SlotEnv
  <2>1. UNCHANGED <<containers, next, new, saved, receipt>> /\ pc # "off" /\ pc' # "off"
    BY <1>1, DeploysIs DEF Migrate, SmokeOld, CheckUnit, Wait, SlotEnv
  <2>2. CASE Migrate
    BY <2>2, <2>1 DEF Migrate
  <2>3. CASE SmokeOld
    BY <2>3, <2>1 DEF SmokeOld
  <2>4. CASE CheckUnit
    BY <2>4, <2>1 DEF CheckUnit
  <2>5. CASE Wait
    BY <2>5, <2>1 DEF Wait
  <2>6. CASE SlotEnv
    BY <2>6, <2>1 DEF SlotEnv
  <2>7. QED
    BY <1>1, <2>2, <2>3, <2>4, <2>5, <2>6, Zenon
<1>2. CASE Remove
  BY <1>2, RemoveIs, PlanIs DEF Remove, Planned, Others
<1>3. CASE UpStarts
  BY <1>3, UpStartsIs, PlanIs DEF UpStarts, Planned, Others
<1>4. CASE Up
  BY <1>4 DEF Up, Healthy, Absent
<1>5. CASE Install \/ Link \/ Manifest \/ MoveEnv \/ ActiveSlot
  <2>1. UNCHANGED <<containers, next, new, saved, receipt>> /\ pc # "off" /\ pc' # "off"
    BY <1>5, DeploysIs DEF Install, Link, Manifest, MoveEnv, ActiveSlot, code, records
  <2>2. CASE Install
    BY <2>2, <2>1 DEF Install
  <2>3. CASE Link
    BY <2>3, <2>1 DEF Link
  <2>4. CASE Manifest
    BY <2>4, <2>1 DEF Manifest
  <2>5. CASE MoveEnv
    BY <2>5, <2>1 DEF MoveEnv
  <2>6. CASE ActiveSlot
    BY <2>6, <2>1 DEF ActiveSlot
  <2>7. QED
    BY <1>5, <2>2, <2>3, <2>4, <2>5, <2>6, Zenon
<1>6. CASE RestartCore \/ Start \/ Enable \/ IsActive \/ Verify \/ DisableOld \/ Smoke
  <2>1. UNCHANGED <<containers, next, new, saved, receipt>> /\ pc # "off" /\ pc' # "off"
    BY <1>6, DeploysIs DEF RestartCore, Start, Enable, IsActive, Verify, DisableOld, Smoke
  <2>2. pc' \notin Unswitched
    BY <1>6 DEF RestartCore, Start, Enable, IsActive, Verify, DisableOld, Smoke
  <2>3. QED BY <2>1, <2>2
<1>7. CASE StopOld \/ StopOldUnknown
  <2>1. pc = "stop old" /\ StopUnit(saved.slot) /\ pc' \notin Unswitched \cup {"off"}
    BY <1>7 DEF StopOld, StopOldUnknown
  <2>2. Releasing
    BY <2>1, StopOldIs
  <2>3. UNCHANGED receipt /\ UNCHANGED saved
    BY <1>7 DEF StopOld, StopOldUnknown
  <2>4. saved.slot # None => saved.slot \in Slots
    BY PlanIs
  <2>5. QED BY <2>1, <2>2, <2>3, <2>4 DEF Releasing, Planned
<1>8. CASE Receipt
  <2>1. active = next /\ manifest = new /\ containers[next].release = new
    BY <1>8 DEF Receipt, Written, Switched
  <2>2. UNCHANGED <<manifest, active, containers>> /\ pc' = "off"
    BY <1>8 DEF Receipt, records
  <2>3. QED BY <2>1, <2>2
<1>9. CASE RestartOld \/ RestoreCode \/ RestoreRecords
  <2>1. UNCHANGED <<containers, next, new, saved, receipt>> /\ pc # "off" /\ pc' # "off"
    BY <1>9, DeploysIs DEF RestartOld, RestoreCode, RestoreRecords
  <2>2. pc' \notin Unswitched
    BY <1>9 DEF RestartOld, RestoreCode, RestoreRecords
  <2>3. QED BY <2>1, <2>2
<1>9a. CASE RestoreCore
  <2>1. Releasing /\ UNCHANGED <<next, new, saved, receipt>> /\ pc # "off" /\ pc' # "off"
    BY <1>9a, DeploysIs, RestoreCoreIs DEF RestoreCore
  <2>2. pc' \notin Unswitched
    BY <1>9a DEF RestoreCore
  <2>3. saved.slot # None => saved.slot \in Slots
    BY PlanIs
  <2>4. QED BY <2>1, <2>2, <2>3 DEF Releasing, Planned
<1>10. CASE StopCandidate
  <2>1. Releasing /\ pc' = "off" /\ UNCHANGED <<receipt, manifest, active>> /\ pc # "off"
    BY <1>10, StopCandidateIs DEF StopCandidate, records
  <2>2. QED BY <2>1, NamedIs DEF Releasing
<1>11. CASE Refused \/ Fails
  <2>1. UNCHANGED <<containers, next, new, saved, receipt>> /\ pc # "off" /\ pc' # "off"
    BY <1>11, DeploysIs DEF Refused, Fails
  <2>2. pc' \notin Unswitched
    BY <1>11 DEF Refused, Fails
  <2>3. QED BY <2>1, <2>2
<1>12. CASE Aborts
  <2>1. pc # "off" /\ pc' = "off" /\ UNCHANGED <<receipt, manifest, active, containers>>
    BY <1>12 DEF Aborts, records
  <2>2. QED BY <2>1, NamedIs
<1>13. QED
  BY <1>1, <1>2, <1>3, <1>4, <1>5, <1>6, <1>7, <1>8, <1>9, <1>9a, <1>10, <1>11, <1>12, Zenon
     DEF Deploys, Deployer

(* The units that start with the host are right at each line.              *)
LEMMA EnabledKeeps ==
  ASSUME DeployInv, Files, Lines, Deploys
  PROVE  Enabled'
<1> USE DEF DeployInv, Step, Goto, Enabled, Tries, Unstopped, Unswitched, Unlisted,
        Inactive, Unstarted, Switched, disk, plan
<1>1. CASE Migrate \/ SmokeOld \/ CheckUnit \/ Remove \/ UpStarts \/ Wait \/ Up \/
             SlotEnv \/ Install \/ Link \/ Manifest \/ MoveEnv \/ ActiveSlot
  <2>1. pc' \in Unswitched \cup {"restart core", "start unit"}
    BY <1>1 DEF Migrate, SmokeOld, CheckUnit, Remove, UpStarts, Wait, Up, SlotEnv, Install,
       Link, Manifest, MoveEnv, ActiveSlot
  <2>2. pc' = "start unit" => Core \in enabled'
    BY <1>1 DEF Migrate, SmokeOld, CheckUnit, Remove, UpStarts, Wait, Up, SlotEnv, Install,
       Link, Manifest, MoveEnv, ActiveSlot, Planned
  <2>3. QED BY <2>1, <2>2
<1>1a. CASE RestartCore \/ Start
  BY <1>1a DEF RestartCore, Start
<1>2. CASE Enable
  BY <1>2 DEF Enable
<1>3. CASE IsActive
  BY <1>3 DEF IsActive
<1>4. CASE Verify
  BY <1>4 DEF Verify, Served
<1>5. CASE StopOld
  BY <1>5 DEF StopOld
<1>6. CASE DisableOld
  BY <1>6, PlanIs DEF DisableOld, Planned, Flagged
<1>7. CASE Smoke
  BY <1>7 DEF Smoke
<1>8. CASE Receipt \/ RestartOld \/ RestoreCode \/ RestoreRecords \/ RestoreCore \/
             StopCandidate \/ Refused \/ Fails \/ StopOldUnknown \/ Aborts
  <2>1. pc' \in Rollback \cup {"off"}
    BY <1>8 DEF Rollback, Receipt, RestartOld, RestoreCode, RestoreRecords, RestoreCore,
       StopCandidate, Refused, Fails, StopOldUnknown, Aborts
  <2>2. QED BY <2>1 DEF Rollback
<1>9. QED
  BY <1>1, <1>1a, <1>2, <1>3, <1>4, <1>5, <1>6, <1>7, <1>8, Zenon DEF Deploys, Deployer

(* Where a rollback ends, unless a deployment before it was killed: at the *)
(* records of the old release, in which no activation is left.             *)
LEMMA RestoredIs ==
  ASSUME DeployInv, StopCandidate, marred = {}, saved.release # None
  PROVE  /\ link = saved.release /\ runtime = saved.release /\ manifest = saved.release
         /\ active = saved.slot /\ current = saved.current
<1>1. /\ pc = "stop candidate"
      /\ ~activated => link = saved.release /\ runtime = saved.release
  BY DEF StopCandidate, DeployInv, Unmarred
<1>2. CASE activated
  BY <1>1, <1>2 DEF DeployInv, Written, Restores
<1>3. CASE ~activated
  BY <1>1, <1>3 DEF DeployInv, Written
<1>4. QED BY <1>2, <1>3

(* There its slot runs, and starts with the host.                          *)
LEMMA OldSlotIs ==
  ASSUME DeployInv, Files, Lines, StopCandidate, marred = {}, saved.slot # None, receipt # None
  PROVE  /\ saved.slot \in units' /\ saved.slot \in enabled'
         /\ receipt = [release |-> saved.release, slot |-> saved.slot]
<1>1. /\ pc = "stop candidate" /\ next # saved.slot
      /\ receipt = [release |-> saved.release, slot |-> saved.slot]
      /\ saved.slot \in enabled
  BY DEF StopCandidate, DeployInv, Planned, Unmarred, InFlight, Restarted, Rollback
<1>2. saved.slot \in units
  BY <1>1 DEF DeployInv, Supervised, Restarted, Rollback
<1>3. QED BY <1>1, <1>2, StopCandidateIs

(* A rollback restores what it found.                                      *)
LEMMA RollbackRestoresKeeps ==
  ASSUME DeployInv, Files, Lines, Deploys
  PROVE  RollbackRestores'
<1> USE DEF DeployInv, Step, Planned
<1>1. CASE Migrate \/ SmokeOld \/ CheckUnit \/ Remove \/ UpStarts \/ Wait \/ Up \/
             SlotEnv
  <2>1. outcome' # "rolled back"
    BY <1>1 DEF Migrate, SmokeOld, CheckUnit, Remove, UpStarts, Wait, Up, SlotEnv, Healthy
  <2>2. QED BY <2>1 DEF RollbackRestores
<1>2. CASE Install \/ Link \/ Manifest \/ MoveEnv \/ ActiveSlot \/ RestartCore \/ Start
             \/ Enable \/ IsActive
  <2>1. outcome' # "rolled back"
    BY <1>2 DEF Install, Link, Manifest, MoveEnv, ActiveSlot, RestartCore, Start, Enable,
       IsActive, StartUnit
  <2>2. QED BY <2>1 DEF RollbackRestores
<1>3. CASE Verify \/ StopOld \/ DisableOld \/ Smoke \/ RestartOld \/ RestoreCode \/
             RestoreRecords \/ RestoreCore
  <2>1. outcome' # "rolled back"
    BY <1>3 DEF Verify, StopOld, DisableOld, Smoke, RestartOld, RestoreCode,
       RestoreRecords, RestoreCore, Served
  <2>2. QED BY <2>1 DEF RollbackRestores
<1>4. CASE Receipt \/ Refused \/ Fails \/ StopOldUnknown \/ Aborts
  <2>1. outcome' # "rolled back"
    BY <1>4, DeploysIs DEF Receipt, Refused, Fails, StopOldUnknown, Aborts, Fault
  <2>2. QED BY <2>1 DEF RollbackRestores
<1>5. CASE StopCandidate
  <2>1. UNCHANGED <<link, runtime, manifest, active, current, receipt, saved, marred, reboots>>
    BY <1>5 DEF StopCandidate, code, records, envs, plan, budget
  <2>2. ASSUME marred = {}, reboots = 0, saved.slot # None
        PROVE  receipt # None
    BY <1>5, <2>2 DEF StopCandidate, Unmarred
  <2>3. QED BY <1>5, <2>1, <2>2, RestoredIs, OldSlotIs DEF RollbackRestores
<1>6. QED
  BY <1>1, <1>2, <1>3, <1>4, <1>5, Zenon DEF Deploys, Deployer

(* Without a killed deployer the receipt stays true.                       *)
LEMMA UnmarredKeeps ==
  ASSUME DeployInv, Files, Lines, Deploys
  PROVE  Unmarred'
<1> USE DEF DeployInv, Step, Goto, Restarted, Rollback, disk, code, flags, budget
<1>1. CASE Migrate \/ SmokeOld \/ CheckUnit \/ Remove \/ UpStarts \/ Wait
  <2>1. /\ UNCHANGED <<receipt, enabled, link, runtime, next, saved, stopped, started, activated,
                       marred, reboots>>
        /\ pc # "off" /\ pc' # "off" /\ pc' \notin Restarted
    BY <1>1, DeploysIs DEF Migrate, SmokeOld, CheckUnit, Remove, UpStarts, Wait
  <2>2. QED BY <2>1 DEF Unmarred, InFlight
<1>2. CASE Manifest \/ MoveEnv \/ ActiveSlot \/ Start \/ IsActive \/ Verify \/ Smoke
  <2>1. /\ UNCHANGED <<receipt, enabled, link, runtime, next, saved, stopped, started, activated,
                       marred, reboots>>
        /\ pc # "off" /\ pc' # "off" /\ pc' \notin Restarted
    BY <1>2, DeploysIs DEF Manifest, MoveEnv, ActiveSlot, Start, IsActive, Verify, Smoke,
       StartUnit, Served
  <2>2. QED BY <2>1 DEF Unmarred, InFlight
<1>3. CASE Up \/ SlotEnv \/ Install \/ Link
  <2>1. CASE Up
    BY <2>1, DeploysIs DEF Up, Healthy, Unmarred, InFlight, Flagged, Tries, Unstopped,
       Unswitched, Unlisted, Inactive, Unstarted
  <2>2. CASE SlotEnv
    BY <2>2, DeploysIs DEF SlotEnv, Unmarred, InFlight, Flagged, Tries, Unstopped,
       Unswitched, Unlisted, Inactive, Unstarted
  <2>3. CASE Install
    BY <2>3, DeploysIs DEF Install, Unmarred, InFlight, Flagged, Tries, Unstopped,
       Unswitched, Unlisted, Inactive, Unstarted
  <2>4. CASE Link
    BY <2>4, DeploysIs DEF Link, Unmarred, InFlight, Flagged, Tries, Unstopped,
       Unswitched, Unlisted, Inactive, Unstarted
  <2>5. QED
    BY <1>3, <2>1, <2>2, <2>3, <2>4, Zenon
<1>4. CASE RestartCore \/ Enable \/ StopOld \/ DisableOld
  <2>1. CASE RestartCore
    BY <2>1, DeploysIs DEF RestartCore, Unmarred, InFlight, Flagged, Tries, Unstopped,
       Unswitched, Unlisted, Inactive, Unstarted
  <2>2. CASE Enable
    BY <2>2, DeploysIs DEF Enable, Unmarred, InFlight, Flagged, Tries, Unstopped,
       Unswitched, Unlisted, Inactive, Unstarted
  <2>3. CASE StopOld
    BY <2>3, DeploysIs DEF StopOld, Unmarred, InFlight, Flagged, Tries, Unstopped,
       Unswitched, Unlisted, Inactive, Unstarted
  <2>4. CASE DisableOld
    BY <2>4, DeploysIs DEF DisableOld, Unmarred, InFlight, Flagged, Tries, Unstopped,
       Unswitched, Unlisted, Inactive, Unstarted
  <2>5. QED
    BY <1>4, <2>1, <2>2, <2>3, <2>4, Zenon
<1>5. CASE Receipt
  <2>1. /\ active = next /\ manifest = new /\ link = new /\ runtime = new
        /\ next \in enabled /\ Core \in units
        /\ saved.slot # None => saved.slot \notin enabled
    BY <1>5 DEF Receipt, Written, Switched, Enabled, Supervised, Tries, Unstopped, Unswitched, Unlisted, Inactive, Unstarted
  <2>2. enabled = {Core, next}
    <3>1. pc # "off" /\ Core \in enabled /\ enabled \subseteq Units
      BY <1>5 DEF Receipt, Files, Enabled, Switched, Tries, Unswitched, Unlisted, Inactive,
                  Unstarted
    <3>2. CASE saved.slot = None
      BY <2>1, <3>1, <3>2 DEF Planned
    <3>3. CASE saved.slot # None
      <4>1. Units = {Core, next, saved.slot}
        BY <3>1, <3>3, PlanIs DEF Planned
      <4>2. QED BY <2>1, <3>1, <3>3, <4>1
    <3>4. QED BY <3>2, <3>3
  <2>3. receipt' \in Env
    BY <1>5, OrderIs, PlanIs DEF Receipt, Env
  <2>4. QED BY <1>5, <2>1, <2>2, <2>3, Setting DEF Receipt, Unmarred, Quiet, records
<1>6. CASE RestartOld
  <2>1. /\ UNCHANGED <<receipt, link, runtime, next, saved, stopped, started, activated, marred, reboots>>
        /\ pc # "off" /\ pc' = "restore code"
    BY <1>6, DeploysIs DEF RestartOld
  <2>2. pc' # "off" /\ next # saved.slot
    BY <2>1 DEF Planned
  <2>3. \/ stopped /\ enabled' = enabled \cup {saved.slot}
        \/ ~stopped /\ UNCHANGED enabled
    BY <1>6, RestartOldIs
  <2>4. CASE receipt = None
    BY <2>1, <2>2, <2>4 DEF Unmarred
  <2>5. ASSUME receipt # None, marred = {} PROVE InFlight'
    BY <2>1, <2>2, <2>3, <2>5 DEF Unmarred, InFlight
  <2>6. QED BY <2>1, <2>2, <2>4, <2>5 DEF Unmarred
<1>7. CASE RestoreCode \/ RestoreRecords \/ RestoreCore
  <2>1. CASE RestoreCode
    BY <2>1, DeploysIs DEF RestoreCode, Restores, Unmarred, InFlight
  <2>2. CASE RestoreRecords
    BY <2>2, DeploysIs DEF RestoreRecords, Restores, Unmarred, InFlight
  <2>3. CASE RestoreCore
    <3>1. /\ UNCHANGED <<receipt, enabled, link, runtime, next, saved, stopped, started,
                         activated, marred, reboots>>
          /\ pc = "restore core" /\ pc' = "stop candidate"
      BY <2>3, DeploysIs DEF RestoreCore
    <3>2. QED BY <3>1 DEF Unmarred, InFlight
  <2>4. QED
    BY <1>7, <2>1, <2>2, <2>3, Zenon
<1>8. CASE StopCandidate
  <2>1. UNCHANGED <<link, runtime, manifest, active, receipt, saved, marred, reboots, next>>
    BY <1>8, DeploysIs DEF StopCandidate, records
  <2>2. ASSUME marred = {}, receipt # None PROVE Quiet'
    <3>1. saved.slot # None /\ pc # "off" /\ pc' = "off" /\ Core \in units /\ next # saved.slot
      BY <1>8, <2>2 DEF StopCandidate, Planned
    <3>2. saved.slot \in enabled' /\ next \notin enabled'
      BY <1>8, <2>2, <3>1, OldSlotIs, StopCandidateIs DEF Unmarred, InFlight
    <3>3. enabled' = {Core, saved.slot}
      <4>1. Units = {Core, next, saved.slot}
        BY <3>1, PlanIs
      <4>2. Core \in enabled' /\ enabled' \subseteq Units
        BY <1>8, <3>1, StopCandidateIs, PlanIs DEF Planned, Files
      <4>3. QED BY <3>1, <3>2, <4>1, <4>2
    <3>4. saved.release # None
      BY <3>1 DEF Planned
    <3>5. QED BY <1>8, <2>1, <2>2, <3>1, <3>3, <3>4, RestoredIs, OldSlotIs DEF Quiet
  <2>3. ASSUME marred = {}, receipt = None, reboots = 0 PROVE active \notin units'
    <3>1. saved.slot = None /\ pc # "off"
      BY <1>8, <2>3 DEF StopCandidate, Unmarred
    <3>2. CASE active = None
      <4>1. units' \subseteq Units /\ None \notin Slots
        BY <1>8, StopCandidateIs, Setting DEF Files
      <4>2. active # Core /\ active \notin Slots
        BY <3>2, <4>1, DeployAssumption
      <4>3. QED BY <4>1, <4>2 DEF Units
    <3>3. CASE active = next
      BY <3>1, <3>3, <1>8, StopCandidateIs DEF Written, Flagged
    <3>4. QED BY <3>1, <3>2, <3>3 DEF Written
  <2>4. ASSUME marred = {}, manifest # None PROVE link = manifest /\ runtime = manifest
    <3>1. CASE saved.release = None
      BY <1>8, <2>4, <3>1 DEF StopCandidate, Written
    <3>2. CASE saved.release # None
      BY <1>8, <2>4, <3>2, RestoredIs
    <3>3. QED BY <3>1, <3>2
  <2>5. QED BY <1>8, <2>1, <2>2, <2>3, <2>4 DEF StopCandidate, Unmarred
<1>9. CASE Refused \/ Fails
  <2>1. /\ UNCHANGED <<receipt, enabled, link, runtime, next, saved, stopped, started, activated,
                       marred, reboots>>
        /\ pc # "off" /\ pc' # "off" /\ pc' \notin Restarted
    BY <1>9, DeploysIs DEF Refused, Fails, Fault
  <2>2. QED BY <2>1 DEF Unmarred, InFlight
<1>10. CASE StopOldUnknown \/ Aborts
  <2>1. marred' # {}
    BY <1>10 DEF StopOldUnknown, Aborts
  <2>2. QED BY <2>1 DEF Unmarred
<1>11. QED
  BY <1>1, <1>2, <1>3, <1>4, <1>5, <1>6, <1>7, <1>8, <1>9, <1>10, Zenon DEF Deploys,
     Deployer

(* Every step of a deployment keeps the invariant.                         *)
LEMMA DeploysKeep ==
  ASSUME DeployInv, Deploys
  PROVE  DeployInv'
<1>1. Files /\ Lines
  BY TypesAre DEF DeployInv
<1>2. DeployTypeOK'
  BY <1>1, FilesKeep, LinesKeep, TypesBecome
<1>3. Standing' /\ Forward' /\ Planned' /\ Flagged' /\ Written'
  BY <1>1, StandingKeeps, ForwardKeeps, PlannedKeeps, FlaggedKeeps, WrittenKeeps
<1>4. Supervised' /\ Filled' /\ Enabled' /\ Unmarred' /\ RollbackRestores'
  BY <1>1, SupervisedKeeps, FilledKeeps, EnabledKeeps, UnmarredKeeps, RollbackRestoresKeeps
<1>5. QED BY <1>2, <1>3, <1>4 DEF DeployInv

(* ------------------- A deployment begins, the host restarts -------------- *)
(* A deployment sets out with the slot that is not active, and with files  *)
(* that its handler can restore.                                           *)
LEMMA BeginIs ==
  ASSUME DeployInv, Files, Lines, NEW r \in Releases, Begin(r)
  PROVE  /\ pc = "off" /\ pc' = "migrate" /\ outcome' = "running"
         /\ new' = r /\ r # None /\ next' \in Slots /\ next' # active
         /\ saved' = [release |-> manifest, slot |-> active, current |-> current]
         /\ ~activated' /\ ~started' /\ ~stopped'
         /\ UNCHANGED <<disk, env, current, host, marred, reboots>>
         /\ active = None => next' = First
         /\ active # None => active \in Slots /\ manifest # None /\ {Core, active} \subseteq units
<1>1. next' \in Slots /\ next' # active
  BY Setting DEF Begin
<1>2. active # None => active \in Slots
  BY DEF Files, Optional
<1>3. active = None => next' = First
  BY Setting DEF Begin
<1>4. QED BY <1>1, <1>2, <1>3, Setting DEF Begin, Goto

(* Its types.                                                              *)
LEMMA BeginTypes ==
  ASSUME DeployInv, Files, Lines, NEW r \in Releases, Begin(r)
  PROVE  Files' /\ Lines'
<1>1. Files'
  <2>1. candidate' \in Optional(Env)
    BY BeginIs DEF Begin, Optional, Env
  <2>2. QED BY <2>1, BeginIs DEF Files, disk, code, records, host
<1>2. Lines'
  <2>1. saved' \in Saved
    BY BeginIs DEF Saved, Files
  <2>2. deploys' \in Nat /\ faults' \in Nat /\ reboots' \in Nat
    <3>1. deploys' = deploys + 1 /\ UNCHANGED <<faults, reboots>>
      BY DEF Begin
    <3>2. deploys \in Nat /\ faults \in Nat /\ reboots \in Nat
      BY DEF Lines
    <3>3. QED BY <3>1, <3>2
  <2>3. new' \in Optional(Releases) /\ marred' = marred
    BY BeginIs DEF Optional
  <2>4. activated' = FALSE /\ started' = FALSE /\ stopped' = FALSE
    BY DEF Begin
  <2>5. QED BY <2>1, <2>2, <2>3, <2>4, BeginIs DEF Lines, Tries
<1>3. QED BY <1>1, <1>2

(* The release it installs is not behind what is there.                    *)
LEMMA BeginForward ==
  ASSUME DeployInv, Files, Lines, NEW r \in Releases, Begin(r)
  PROVE  Forward'
<1>1. ASSUME manifest # None PROVE manifest <= r
  <2>1. r >= manifest
    BY <1>1 DEF Begin, Newer
  <2>2. r \in Nat /\ manifest \in Nat
    BY <1>1, Setting DEF Files, Optional
  <2>3. QED BY <2>1, <2>2
<1>2. UNCHANGED <<receipt, manifest>> /\ new' = r /\ saved'.release = manifest
  BY BeginIs DEF disk, records
<1>3. QED BY <1>1, <1>2, Zenon DEF DeployInv, Forward

(* It keeps the invariant.                                                 *)
LEMMA BeginKeeps ==
  ASSUME DeployInv, NEW r \in Releases, Begin(r)
  PROVE  DeployInv'
<1>1. Files /\ Lines
  BY TypesAre DEF DeployInv
<1>2. DeployTypeOK' /\ Forward'
  BY <1>1, BeginTypes, BeginForward, TypesBecome
<1>3. /\ UNCHANGED <<link, runtime, manifest, active, receipt, enabled, env, current, units,
                     containers, marred, reboots>>
      /\ pc = "off" /\ pc' = "migrate" /\ outcome' = "running" /\ new' = r /\ r # None
      /\ next' \in Slots /\ next' # active /\ ~activated' /\ ~started' /\ ~stopped'
      /\ saved'.release = manifest /\ saved'.slot = active /\ saved'.current = current
      /\ active = None => next' = First
      /\ active # None => active \in Slots /\ manifest # None /\ {Core, active} \subseteq units
  BY <1>1, BeginIs DEF disk, code, records, host
<1>4. Standing' /\ Planned'
  <2>1. Standing'
    BY <1>3 DEF DeployInv, Standing
  <2>2. Planned'
    BY <1>3 DEF DeployInv, Standing, Planned
  <2>3. QED BY <2>1, <2>2
<1>5. Flagged' /\ Written' /\ Enabled' /\ RollbackRestores'
  <2>1. Flagged' /\ Enabled' /\ RollbackRestores'
    BY <1>3 DEF Flagged, Enabled, RollbackRestores, Tries, Switched, Unstopped, Unswitched,
                Unlisted, Inactive, Unstarted
  <2>2. Written'
    BY <1>3 DEF Written, Switched, Restores, Tries, Unswitched, Unlisted, Inactive, Unstarted
  <2>3. QED BY <2>1, <2>2
<1>6. Supervised'
  <2>1. StillRunning'
    BY <1>3, StillRunningKept
  <2>2. QED
    BY <1>3, <2>1 DEF Supervised, Tries, Rollback, Restarted, Unsupervised, Unstopped,
                      Unswitched, Unlisted, Inactive, Unstarted
<1>7. Filled'
  BY <1>3 DEF DeployInv, Filled, Unswitched, Unlisted, Inactive, Unstarted
<1>8. Unmarred'
  <2>1. ASSUME marred = {}, receipt # None PROVE InFlight'
    <3>1. Quiet /\ next' # Core
      BY <1>3, <2>1, Setting DEF DeployInv, Unmarred
    <3>2. QED BY <1>3, <3>1 DEF Quiet, InFlight, Restarted, Rollback
  <2>2. ASSUME marred = {}, receipt = None, reboots = 0 PROVE saved'.slot = None
    BY <1>3, <2>2 DEF DeployInv, Unmarred
  <2>3. ASSUME marred = {}, manifest # None PROVE link = manifest /\ runtime = manifest
    BY <1>3, <2>3 DEF DeployInv, Unmarred
  <2>4. QED BY <1>3, <2>1, <2>2, <2>3 DEF Unmarred
<1>9. QED BY <1>2, <1>4, <1>5, <1>6, <1>7, <1>8 DEF DeployInv

(* A restart of the host keeps the files on its disk and ends a deployment.*)
LEMMA RebootIs ==
  ASSUME Files, Lines, Reboot
  PROVE  /\ pc' = "off" /\ UNCHANGED <<disk, plan, flags>>
         /\ reboots' # 0 /\ reboots' \in Nat /\ UNCHANGED <<deploys, faults>>
         /\ marred' = {} => pc = "off" /\ marred = {}
         /\ containers' \in [Slots -> Container]
         /\ \A s \in Slots : containers'[s].release = containers[s].release
         /\ units' \subseteq enabled
         /\ \A s \in Slots : s \in units' => env'[s] # None /\ Core \in enabled
<1>1. reboots' # 0 /\ reboots' \in Nat
  <2>1. reboots' = reboots + 1 /\ reboots \in Nat
    BY DEF Reboot, Lines
  <2>2. QED BY <2>1
<1>2. /\ containers' \in [Slots -> Container]
      /\ \A s \in Slots : containers'[s].release = containers[s].release
  <2>1. ASSUME NEW s \in Slots
        PROVE  /\ containers'[s] \in Container
               /\ containers'[s].release = containers[s].release
    <3>1. containers[s] \in Container
      BY DEF Files
    <3>2. containers'[s] = IF containers[s].release = None THEN Absent
                           ELSE [containers[s] EXCEPT !.state = "stopped"]
      BY DEF Reboot
    <3>3. QED BY <3>1, <3>2 DEF Container, Absent, Optional
  <2>2. containers' = [s \in Slots |-> containers'[s]]
    BY DEF Reboot
  <2>3. QED BY <2>1, <2>2
<1>3. /\ units' \subseteq enabled
      /\ \A s \in Slots : s \in units' => env'[s] # None /\ Core \in enabled
  BY Setting DEF Reboot
<1>4. /\ pc' = "off" /\ UNCHANGED <<disk, plan, flags, deploys, faults>>
      /\ marred' = {} => pc = "off" /\ marred = {}
  BY DEF Reboot, Goto
<1>5. QED BY <1>1, <1>2, <1>3, <1>4

(* The types after it.                                                     *)
LEMMA RebootTypes ==
  ASSUME Files, Lines, Reboot
  PROVE  Files' /\ Lines'
<1>1. Files'
  <2>1. BootSlot \in Slots /\ (Prepared => manifest \in Releases)
    BY Setting DEF Files, BootSlot, Prepared, Optional
  <2>2. env' \in [Slots -> Optional(Releases)]
    BY <2>1 DEF Reboot, Optional
  <2>3. current' \in Optional(Env) /\ candidate' \in Optional(Env)
    BY <2>1 DEF Reboot, Optional, Env
  <2>4. UNCHANGED <<link, runtime, manifest, active, receipt, enabled>>
    BY RebootIs DEF disk, code, records
  <2>5. units' \in SUBSET Units /\ containers' \in [Slots -> Container]
    BY RebootIs DEF Files
  <2>6. QED BY <2>2, <2>3, <2>4, <2>5 DEF Files
<1>2. Lines'
  <2>1. /\ outcome' \in {outcome, "aborted"} /\ marred' \in {marred, marred \cup {"killed"}}
        /\ pc' = "off" /\ UNCHANGED <<next, new, saved, activated, started, stopped, deploys, faults>>
    BY DEF Reboot, Goto, plan, flags
  <2>2. reboots' \in Nat
    BY RebootIs
  <2>3. QED BY <2>1, <2>2 DEF Lines
<1>3. QED BY <1>1, <1>2

(* It keeps the invariant.                                                 *)
LEMMA RebootKeeps ==
  ASSUME DeployInv, Reboot
  PROVE  DeployInv'
<1>1. Files /\ Lines
  BY TypesAre DEF DeployInv
<1>2. DeployTypeOK'
  BY <1>1, RebootTypes, TypesBecome
<1>3. /\ UNCHANGED <<link, runtime, manifest, active, receipt, enabled, activated, started>>
      /\ pc' = "off" /\ reboots' # 0
  BY <1>1, RebootIs DEF disk, code, records, flags
<1>4. Standing' /\ Forward'
  <2>1. Standing'
    BY <1>1, <1>3, RebootIs DEF DeployInv, Standing
  <2>2. Forward'
    BY <1>3, Zenon DEF DeployInv, Forward
  <2>3. QED BY <2>1, <2>2
<1>5. Planned' /\ Written' /\ Supervised' /\ Enabled' /\ RollbackRestores'
  <2>1. Planned' /\ RollbackRestores'
    BY <1>3 DEF Planned, RollbackRestores
  <2>2. Written' /\ Enabled'
    BY <1>3 DEF Written, Enabled, Tries, Switched, Unstopped, Unswitched, Unlisted, Inactive,
                Unstarted
  <2>3. Supervised'
    BY <1>3 DEF Supervised, StillRunning, Restarted, Rollback, Unsupervised, Tries, Unstopped,
                Unswitched, Unlisted, Inactive, Unstarted
  <2>4. QED BY <2>1, <2>2, <2>3
<1>6. Flagged'
  BY <1>3 DEF DeployInv, Flagged, Tries
<1>7. Filled'
  <2>1. ASSUME receipt # None, receipt = [release |-> manifest, slot |-> active]
        PROVE  containers'[active].release = manifest
    <3>1. active \in Slots
      BY <1>1, <2>1 DEF Files, Optional, Env
    <3>2. containers[active].release = manifest
      BY <1>1, <2>1, NamedIs DEF DeployInv, Filled
    <3>3. QED BY <1>1, <3>1, <3>2, RebootIs
  <2>2. QED BY <1>3, <2>1 DEF Filled, Unswitched, Unlisted, Inactive, Unstarted
<1>8. Unmarred'
  <2>1. ASSUME marred' = {}, receipt # None PROVE Quiet'
    BY <1>1, <1>3, <2>1, RebootIs DEF DeployInv, Unmarred, Quiet
  <2>2. ASSUME marred' = {}, manifest # None PROVE link = manifest /\ runtime = manifest
    BY <1>1, <2>2, RebootIs DEF DeployInv, Unmarred
  <2>3. QED BY <1>3, <2>1, <2>2 DEF Unmarred
<1>9. QED BY <1>2, <1>4, <1>5, <1>6, <1>7, <1>8 DEF DeployInv

(* ------------------------------- The theorems ---------------------------- *)
(* A fresh host satisfies the invariant.                                   *)
LEMMA InitHolds == Init => DeployInv
<1> SUFFICES ASSUME Init PROVE DeployInv
  OBVIOUS
<1>1. DeployTypeOK
  <2>1. Files
    BY DEF Init, Files, Optional, Absent, Container
  <2>2. Lines
    BY Setting DEF Init, Lines, Optional, Empty, Saved
  <2>3. QED BY <2>1, <2>2, TypesAre
<1>2. Standing /\ Forward /\ Planned /\ Flagged /\ Written
  BY DEF Init, Standing, Forward, Planned, Flagged, Written, Tries, Switched, Unswitched,
         Unlisted, Inactive, Unstarted
<1>3. Supervised /\ Filled /\ Enabled /\ Unmarred /\ RollbackRestores
  BY DEF Init, Supervised, StillRunning, Filled, Enabled, Unmarred, RollbackRestores, Tries,
         Switched, Rollback, Restarted, Unsupervised, Unstopped, Unswitched, Unlisted, Inactive, Unstarted
<1>4. QED BY <1>1, <1>2, <1>3 DEF DeployInv

(* Every step keeps the invariant.                                         *)
LEMMA StepsKeep == DeployInv /\ [Next]_vars => DeployInv'
<1> SUFFICES ASSUME DeployInv, [Next]_vars PROVE DeployInv'
  OBVIOUS
<1>1. CASE Host \/ \E s \in Slots : Degrade(s)
  BY <1>1, HostKeeps DEF Host
<1>2. CASE Deploys
  BY <1>2, DeploysKeep
<1>3. CASE Reboot
  BY <1>3, RebootKeeps
<1>4. CASE \E r \in Releases : Begin(r)
  BY <1>4, BeginKeeps
<1>5. CASE UNCHANGED vars
  <2>1. /\ UNCHANGED <<disk, envs, units, pc, plan, flags, outcome, marred>>
        /\ UNCHANGED <<deploys, reboots, faults, containers>>
    BY <1>5 DEF vars, host, budget
  <2>2. Keeping /\ faults' \in Nat
    BY <2>1, TypesAre DEF DeployInv, Files, Lines, Keeping
  <2>3. QED BY <2>1, <2>2, KeepingKeeps
<1>6. QED BY <1>1, <1>2, <1>3, <1>4, <1>5, Zenon DEF Next, Failures, Deploys

(* The inductive invariant: what is written, supervised, enabled and       *)
(* restorable at each line of deploy and of its handler.                   *)
THEOREM DeployInductive == Spec => []DeployInv
BY InitHolds, StepsKeep, PTL DEF Spec

(* From the first deployment that succeeded on, some slot is kept running. *)
THEOREM SomeSlotRuns == Spec => []DeploySafe
<1>1. DeployInv => DeploySafe
  BY DEF DeployInv, Supervised, DeploySafe
<1>2. QED BY <1>1, DeployInductive, PTL

(* A deployment that was rolled back leaves the host as it found it.       *)
THEOREM RolledBackIsRestored == Spec => []RollbackRestores
<1>1. DeployInv => RollbackRestores
  BY DEF DeployInv
<1>2. QED BY <1>1, DeployInductive, PTL

(* What the receipt says is true wherever it agrees with the records.      *)
THEOREM ReceiptIsTrue == Spec => []ReceiptTrue
<1>1. DeployInv => ReceiptTrue
  BY DEF DeployInv, Filled, Unmarred, Quiet, ReceiptTrue
<1>2. QED BY <1>1, DeployInductive, PTL

=============================================================================
