---------------------------- MODULE ReleaseDeploy ---------------------------
(***************************************************************************)
(* Installing a release on the production host: deploy in release.py, run  *)
(* by fetch-release.py, the systemd units of the two application slots,    *)
(* and what a restart of the host prepares again from the files that       *)
(* survive it (prepare_active).                                            *)
(*                                                                         *)
(* The application runs in one of two slots; the other one gets the        *)
(* candidate.  Each command of deploy is a step, for each may fail, and    *)
(* the deployer may be killed between any two.  A command that fails has   *)
(* had no effect, with two exceptions: "up --wait" leaves the containers   *)
(* it started, and the stopping of the old slot may have happened although *)
(* its command reports an error.                                           *)
(*                                                                         *)
(* The core unit (database, Redis, Caddy) sends requests to any healthy    *)
(* slot.  Hosts from before the slots existed, the collector's client      *)
(* files and the reclaiming of images are left out.                        *)
(***************************************************************************)
EXTENDS Integers

CONSTANTS
  Slots,      (* blue and green                                             *)
  First,      (* the slot taken when there is no active one: green          *)
  Core,       (* the unit of database, Redis and Caddy                      *)
  Releases,   (* 1 .. n, in the order of main                               *)
  MaxDeploys, MaxFaults, MaxReboots, (* bounds of the model                 *)
  None        (* no release, slot or file                                   *)

ASSUME DeployAssumption ==
  /\ First \in Slots /\ Core \notin Slots
  /\ \E s \in Slots : s # First /\ Slots = {First, s}
  /\ Releases \subseteq Nat /\ None \notin Releases \cup Slots \cup {Core}
  /\ MaxDeploys \in Nat /\ MaxFaults \in Nat /\ MaxReboots \in Nat

Units       == Slots \cup {Core}
Optional(S) == S \cup {None}
Env       == [release : Releases, slot : Slots]
Container == [release : Optional(Releases),
              state : {"none", "stopped", "starting", "healthy"}]

ASSUME EnvAssumption == None \notin Env

VARIABLES
  link, runtime, (* the checkout that is active, the installed files        *)
  manifest,      (* release.json                                            *)
  active,        (* active-slot                                             *)
  receipt,       (* deployed-release.json                                   *)
  enabled,       (* the units that start with the host                      *)
  env, current, candidate, (* release-<slot>.env, release.env and           *)
                 (* candidate-release.env, which a restart of the host loses*)
  units,         (* the units that run                                      *)
  containers,    (* Slots -> its containers                                 *)
  pc, next, new, (* the deployer: its line, the candidate's slot, its release *)
  activated, started, stopped, (* its flags                                 *)
  saved,         (* the state of the files it will restore                  *)
  outcome,       (* how the last deployment ended                           *)
  marred,        (* history: since a deployment succeeded, one was killed,  *)
                 (* or could not know whether it stopped the old slot       *)
  deploys, faults, reboots
code    == <<link, runtime>>
records == <<manifest, active>>
disk    == <<code, records, receipt, enabled>>
envs    == <<env, current, candidate>>
host    == <<units, containers>>
plan    == <<next, new, saved>>
flags   == <<activated, started, stopped>>
budget  == <<deploys, faults, reboots>>
vars == <<disk, envs, host, pc, plan, flags, outcome, marred, budget>>

(* The lines of deploy, and of its exception handler.                      *)
Tries == {"migrate", "smoke old", "check unit", "remove", "up", "wait", "slot env",
          "install", "link", "manifest", "move env", "active slot", "restart core",
          "start unit", "enable unit", "is active", "verify", "stop old",
          "disable old", "smoke", "receipt"}
Rollback == {"restart old", "restore code", "restore records", "restore core",
             "stop candidate"}

Saved == [release : Optional(Releases), slot : Optional(Slots),
          current : Optional(Env)]

DeployTypeOK ==
  /\ {link, runtime, manifest} \subseteq Optional(Releases)
  /\ active \in Optional(Slots)
  /\ receipt \in Optional(Env) /\ enabled \subseteq Units
  /\ env \in [Slots -> Optional(Releases)]
  /\ current \in Optional(Env) /\ candidate \in Optional(Env)
  /\ units \subseteq Units
  /\ containers \in [Slots -> Container]
  /\ pc \in Tries \cup Rollback \cup {"off"}
  /\ next \in Slots /\ new \in Optional(Releases) /\ saved \in Saved
  /\ {activated, started, stopped} \subseteq BOOLEAN
  /\ outcome \in {"none", "running", "deployed", "rolled back", "aborted"}
  /\ marred \subseteq {"killed", "unknown"}
  /\ deploys \in Nat /\ faults \in Nat /\ reboots \in Nat

Absent == [release |-> None, state |-> "none"]
Empty  == [release |-> None, slot |-> None, current |-> None]
Init ==
  /\ link = None /\ runtime = None /\ manifest = None /\ active = None
  /\ receipt = None /\ enabled = {}
  /\ env = [s \in Slots |-> None] /\ current = None /\ candidate = None
  /\ units = {} /\ containers = [s \in Slots |-> Absent]
  /\ pc = "off" /\ next = First /\ new = None /\ saved = Empty
  /\ activated = FALSE /\ started = FALSE /\ stopped = FALSE
  /\ outcome = "none" /\ marred = {}
  /\ deploys = 0 /\ faults = 0 /\ reboots = 0

Healthy(s) == containers[s].state = "healthy"
Served     == Core \in units /\ \E s \in Slots : Healthy(s)
Goto(line) == pc' = line
Step(from, to) == pc = from /\ Goto(to) /\ UNCHANGED <<plan, outcome, marred, budget>>

---------------------------------------------------------------------------
(* The host: containers become healthy, and units keep theirs running.     *)
SetState(s, state) == containers' = [containers EXCEPT ![s].state = state]

Ready(s) ==
  /\ containers[s].state = "starting" /\ SetState(s, "healthy")
  /\ UNCHANGED <<disk, envs, units, pc, plan, flags, outcome, marred, budget>>

(* A unit whose containers are gone creates or starts them from its file.  *)
Supervise(s) ==
  /\ s \in units /\ Core \in units /\ env[s] # None
  /\ containers[s].state \in {"none", "stopped"}
  /\ containers' = [containers EXCEPT ![s] =
       [release |-> IF @.release = None THEN env[s] ELSE @.release, state |-> "starting"]]
  /\ UNCHANGED <<disk, envs, units, pc, plan, flags, outcome, marred, budget>>

(* systemctl: a start whose ConditionPathExists fails starts nothing, and  *)
(* reports nothing; a stop stops the containers of a unit that runs.       *)
StartUnit(s) == units' = IF env[s] # None THEN units \cup {s} ELSE units
StopUnit(s) ==
  /\ units' = units \ {s}
  /\ IF s \in units /\ containers[s].release # None THEN SetState(s, "stopped")
     ELSE UNCHANGED containers

---------------------------------------------------------------------------
(* The deployment.                                                         *)

(* fetch-release.py skips what is deployed and healthy, and takes nothing  *)
(* older than the manifest.                                                *)
CanSkip(r) == /\ manifest = r /\ receipt = [release |-> r, slot |-> active]
              /\ active \in units /\ Served
Newer(r) == manifest # None => r >= manifest

(* The lock, preflight and the checks before anything is changed.  A host  *)
(* whose active slot is not supervised is refused.                         *)
Begin(r) ==
  /\ pc = "off" /\ deploys < MaxDeploys /\ deploys' = deploys + 1
  /\ Newer(r) /\ ~CanSkip(r)
  /\ active # None => (manifest # None /\ {Core, active} \subseteq units)
  /\ manifest # None => (link # None /\ current # None)
  /\ next' = IF active = First THEN CHOOSE s \in Slots : s # First ELSE First
  /\ new' = r /\ candidate' = [release |-> r, slot |-> next']
  /\ saved' = [release |-> manifest, slot |-> active, current |-> current]
  /\ activated' = FALSE /\ started' = FALSE /\ stopped' = FALSE
  /\ outcome' = "running" /\ Goto("migrate")
  /\ UNCHANGED <<disk, env, current, host, marred, faults, reboots>>

(* Images are pulled, on a first deployment the database is started, and   *)
(* the migrations run, which the old release must bear.                    *)
Migrate ==
  /\ Step("migrate", "smoke old")
  /\ UNCHANGED <<disk, envs, host, flags>>

SmokeOld ==
  /\ Step("smoke old", "check unit") /\ (saved.slot # None => Served)
  /\ UNCHANGED <<disk, envs, host, flags>>

CheckUnit ==
  /\ Step("check unit", "remove") /\ next \notin units
  /\ UNCHANGED <<disk, envs, host, flags>>

Remove ==
  /\ Step("remove", "up") /\ containers' = [containers EXCEPT ![next] = Absent]
  /\ UNCHANGED <<disk, envs, units, flags>>

(* up --wait starts the candidate and returns when it is healthy.          *)
UpStarts ==
  /\ pc = "up" /\ containers[next].state = "none"
  /\ containers' = [containers EXCEPT ![next] = [release |-> new, state |-> "starting"]]
  /\ UNCHANGED <<disk, envs, units, pc, plan, flags, outcome, marred, budget>>
Up ==
  /\ Step("up", "wait") /\ Healthy(next) /\ started' = TRUE
  /\ UNCHANGED <<disk, envs, host, activated, stopped>>

Wait ==
  /\ Step("wait", "slot env") /\ Healthy(next)
  /\ UNCHANGED <<disk, envs, host, flags>>

SlotEnv ==
  /\ Step("slot env", "install") /\ env' = [env EXCEPT ![next] = new] /\ activated' = TRUE
  /\ UNCHANGED <<disk, current, candidate, host, started, stopped>>

Install ==
  /\ Step("install", "link") /\ runtime' = new
  /\ UNCHANGED <<link, records, receipt, enabled, envs, host, flags>>
Link ==
  /\ Step("link", "manifest") /\ link' = new
  /\ UNCHANGED <<runtime, records, receipt, enabled, envs, host, flags>>
Manifest ==
  /\ Step("manifest", "move env") /\ manifest' = new
  /\ UNCHANGED <<code, active, receipt, enabled, envs, host, flags>>

(* candidate-release.env becomes release.env.                              *)
MoveEnv ==
  /\ Step("move env", "active slot") /\ current' = candidate /\ candidate' = None
  /\ UNCHANGED <<disk, env, host, flags>>
ActiveSlot ==
  /\ Step("active slot", IF saved.slot = None THEN "restart core" ELSE "start unit")
  /\ active' = next
  /\ UNCHANGED <<code, manifest, receipt, enabled, envs, host, flags>>

(* Only on a first deployment; no slot's unit runs that it would stop.     *)
RestartCore ==
  /\ Step("restart core", "start unit") /\ units' = units \cup {Core}
  /\ enabled' = enabled \cup {Core}
  /\ UNCHANGED <<code, records, receipt, envs, containers, flags>>

Start ==
  /\ Step("start unit", "enable unit") /\ StartUnit(next)
  /\ UNCHANGED <<disk, envs, containers, flags>>
Enable ==
  /\ Step("enable unit", "is active") /\ enabled' = enabled \cup {next}
  /\ UNCHANGED <<code, records, receipt, envs, host, flags>>
IsActive ==
  /\ Step("is active", "verify") /\ next \in units
  /\ UNCHANGED <<disk, envs, host, flags>>

(* The pool of Caddy, the smoke test through it, and the containers.       *)
Verify ==
  /\ Step("verify", IF saved.slot = None THEN "receipt" ELSE "stop old")
  /\ Served /\ Healthy(next)
  /\ UNCHANGED <<disk, envs, host, flags>>

StopOldUnmarked ==
  /\ Step("stop old", "disable old") /\ StopUnit(saved.slot)
  /\ UNCHANGED <<disk, envs, flags>>

StopOld ==
  /\ Step("stop old", "disable old") /\ StopUnit(saved.slot) /\ stopped' = TRUE
  /\ UNCHANGED <<disk, envs, activated, started>>
DisableNothing ==
  /\ Step("disable old", "smoke")
  /\ UNCHANGED <<disk, envs, host, flags>>

DisableOld ==
  /\ Step("disable old", "smoke") /\ enabled' = enabled \ {saved.slot}
  /\ UNCHANGED <<code, records, receipt, envs, host, flags>>
Smoke ==
  /\ Step("smoke", "receipt") /\ Served
  /\ UNCHANGED <<disk, envs, host, flags>>
Receipt ==
  /\ pc = "receipt" /\ Goto("off") /\ outcome' = "deployed" /\ marred' = {}
  /\ receipt' = [release |-> new, slot |-> next]
  /\ UNCHANGED <<code, records, enabled, envs, host, plan, flags, budget>>

---------------------------------------------------------------------------
(* The exception handler.                                                  *)
RestartOldDisabled ==
  /\ Step("restart old", "restore code")
  /\ IF stopped THEN StartUnit(saved.slot) ELSE UNCHANGED units
  /\ UNCHANGED <<disk, envs, containers, flags>>

RestartOld ==
  /\ Step("restart old", "restore code")
  /\ IF stopped THEN enabled' = enabled \cup {saved.slot} /\ StartUnit(saved.slot)
     ELSE UNCHANGED <<enabled, units>>
  /\ UNCHANGED <<code, records, receipt, envs, containers, flags>>

(* Everything is restored when there was a release to go back to, also if  *)
(* it never came to have an active slot.                                   *)
Restores == saved.release # None /\ activated
RestoreCode ==
  /\ Step("restore code", "restore records")
  /\ IF Restores THEN link' = saved.release /\ runtime' = saved.release
     ELSE UNCHANGED code
  /\ UNCHANGED <<records, receipt, enabled, envs, host, flags>>
RestoreRecords ==
  /\ Step("restore records", "restore core")
  /\ IF Restores
     THEN manifest' = saved.release /\ active' = saved.slot /\ current' = saved.current
     ELSE UNCHANGED <<records, current>>
  /\ UNCHANGED <<code, receipt, enabled, env, candidate, host, flags>>

(* Without a slot, the core is restarted with what was restored, and with  *)
(* it the candidate's unit if that runs.                                   *)
RestoreCore ==
  /\ Step("restore core", "stop candidate")
  /\ IF Restores /\ saved.slot = None
     THEN /\ units' = units \cup {Core}
          /\ IF next \in units THEN SetState(next, "stopped") ELSE UNCHANGED containers
     ELSE UNCHANGED host
  /\ UNCHANGED <<disk, envs, flags>>

(* The unit of the candidate is stopped and disabled; then its containers  *)
(* by Compose, which needs candidate-release.env.                          *)
StopCandidate ==
  /\ pc = "stop candidate" /\ Goto("off") /\ outcome' = "rolled back"
  /\ IF started
     THEN /\ units' = units \ {next} /\ enabled' = enabled \ {next}
          /\ IF (next \in units \/ candidate # None) /\ containers[next].release # None
             THEN SetState(next, "stopped") ELSE UNCHANGED containers
     ELSE UNCHANGED <<units, enabled, containers>>
  /\ UNCHANGED <<code, records, receipt, envs, plan, flags, marred, budget>>

---------------------------------------------------------------------------
(* Failures.                                                               *)
Fault == faults < MaxFaults /\ faults' = faults + 1 /\ UNCHANGED <<deploys, reboots>>

(* A step fails, for whatever reason; a check also because of what it sees.*)
Fails ==
  /\ Fault
  /\ pc \in Tries /\ Goto("restart old")
  /\ UNCHANGED <<disk, envs, host, plan, flags, outcome, marred>>
Refused ==
  /\ pc = "check unit" /\ next \in units /\ Goto("restart old")
  /\ UNCHANGED <<disk, envs, host, plan, flags, outcome, marred, budget>>

(* systemctl reports an error although the old slot stops.                 *)
StopOldUnknown ==
  /\ Fault
  /\ pc = "stop old" /\ Goto("restart old") /\ StopUnit(saved.slot)
  /\ marred' = marred \cup {"unknown"}
  /\ UNCHANGED <<disk, envs, plan, flags, outcome>>

(* A command of the handler fails, or the deployer is killed.              *)
Aborts ==
  /\ Fault
  /\ pc # "off" /\ Goto("off") /\ outcome' = "aborted"
  /\ marred' = marred \cup {"killed"}
  /\ UNCHANGED <<disk, envs, host, plan, flags>>

(* Containers stop answering for a while.                                  *)
Degrade(s) ==
  /\ Fault
  /\ Healthy(s) /\ SetState(s, "starting")
  /\ UNCHANGED <<disk, envs, units, pc, plan, flags, outcome, marred>>

(* The host restarts.  prepare_active insists on one release in manifest,  *)
(* checkout and installed files; without it nothing starts.                *)
Prepared == manifest # None /\ link = manifest /\ runtime = manifest
BootFirst == First
BootSlot == IF active = None THEN First ELSE active
Reboot ==
  /\ reboots < MaxReboots /\ reboots' = reboots + 1
  /\ Goto("off") /\ outcome' = IF pc = "off" THEN outcome ELSE "aborted"
  /\ marred' = IF pc = "off" THEN marred ELSE marred \cup {"killed"}
  /\ candidate' = None
  /\ env' = [s \in Slots |-> IF Prepared /\ s = BootSlot THEN manifest ELSE None]
  /\ current' = IF Prepared THEN [release |-> manifest, slot |-> BootSlot] ELSE None
  /\ units' = IF Prepared /\ Core \in enabled
              THEN {u \in enabled : u = Core \/ env'[u] # None} ELSE {}
  /\ containers' = [s \in Slots |-> IF containers[s].release = None THEN Absent
                    ELSE [containers[s] EXCEPT !.state = "stopped"]]
  /\ UNCHANGED <<disk, plan, flags, deploys, faults>>

---------------------------------------------------------------------------
Host == \E s \in Slots : Ready(s) \/ Supervise(s)
Deployer ==
  \/ Migrate \/ SmokeOld \/ CheckUnit \/ Remove \/ UpStarts \/ Up \/ Wait \/ SlotEnv
  \/ Install \/ Link \/ Manifest \/ MoveEnv \/ ActiveSlot \/ RestartCore
  \/ Start \/ Enable \/ IsActive \/ Verify \/ StopOld \/ DisableOld \/ Smoke \/ Receipt
  \/ RestartOld \/ RestoreCode \/ RestoreRecords \/ RestoreCore \/ StopCandidate
  \/ Refused
Failures == Fails \/ StopOldUnknown \/ Aborts \/ (\E s \in Slots : Degrade(s)) \/ Reboot

Next == Host \/ Deployer \/ Failures \/ \E r \in Releases : Begin(r)

(* Containers start, units restart theirs, and the deployer goes on.       *)
Spec == /\ Init /\ [][Next]_vars
        /\ WF_vars(Deployer) /\ \A s \in Slots : WF_vars(Ready(s)) /\ WF_vars(Supervise(s))
=============================================================================
