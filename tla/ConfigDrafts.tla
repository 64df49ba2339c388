----------------------------- MODULE ConfigDrafts ---------------------------
(***************************************************************************)
(* Drafts of one kind of configuration and their publication               *)
(* (configuration.service.ts), edited from several consoles               *)
(* (configuration-editor.tsx).                                             *)
(*                                                                         *)
(* A version is a row of channel_config_versions, a console remembers the  *)
(* row it edits and the revision it has seen.  A document is the number of *)
(* the edit that made it.  Every call is one transaction on one locked row *)
(* and may lose its answer: the console then reports an error and remembers*)
(* what it did.  The channel's permissions and the audit are left out.     *)
(***************************************************************************)
EXTENDS Integers, Sequences

CONSTANTS
  Operators,
  Invalid,    (* the documents the server's validation refuses              *)
  MaxEdits, MaxVersions, MaxRevision, MaxFaults (* bounds of the model      *)

ASSUME DraftsAssumption ==
  /\ Invalid \subseteq 1 .. MaxEdits
  /\ {MaxEdits, MaxVersions, MaxRevision, MaxFaults} \subseteq Nat

VARIABLES
  versions,  (* the rows, in the order of their creation                    *)
  consoles,  (* Operators -> what the settings page knows                   *)
  edits,     (* the edits made so far, of documents and of widgets          *)
  faults     (* answers lost                                                *)
draftVars == <<versions, consoles>>

Document == 0 .. MaxEdits (* 0: what a channel has before any edit          *)
Status   == {"draft", "validated", "published", "superseded"}
Version  == [document : Document, revision : Nat, status : Status]
NoVersion == 0
Console  == [version : Nat, revision : Nat, status : Status,
             document : Document, saved : Document]

DraftsTypeOK ==
  /\ versions \in Seq(Version) /\ Len(versions) <= MaxVersions
  /\ consoles \in [Operators -> Console]
  /\ \A o \in Operators : consoles[o].version \in 0 .. Len(versions)
  /\ edits \in 0 .. MaxEdits /\ faults \in 0 .. MaxFaults

---------------------------------------------------------------------------
(* What state() returns: the version published, the newest draft.          *)
WithStatus(S) == {v \in DOMAIN versions : versions[v].status \in S}
Newest(S)     == IF S = {} THEN NoVersion ELSE CHOOSE v \in S : \A w \in S : v >= w
Published     == Newest(WithStatus({"published"}))
Draft         == Newest(WithStatus({"draft", "validated"}))

(* The console shows the draft, and without one what is in effect.         *)
Loaded(effective) ==
  IF Draft = NoVersion
  THEN [version |-> NoVersion, revision |-> 0, status |-> "draft",
        document |-> effective, saved |-> effective]
  ELSE [version |-> Draft, revision |-> versions[Draft].revision,
        status |-> versions[Draft].status,
        document |-> versions[Draft].document, saved |-> versions[Draft].document]
Load(o, effective) ==
  /\ consoles' = [consoles EXCEPT ![o] = Loaded(effective)]
  /\ UNCHANGED <<versions, edits, faults>>

(* The operator changes the document in his console.                       *)
Edit(o) ==
  /\ edits < MaxEdits /\ edits' = edits + 1
  /\ consoles' = [consoles EXCEPT ![o].document = edits + 1]
  /\ UNCHANGED <<versions, faults>>

---------------------------------------------------------------------------
(* The calls: versions' is the table, v the row that is answered, which the*)
(* console accepts unless the answer is lost.                              *)
Accept(o, v) ==
  LET row == versions'[v]
  IN consoles' = [consoles EXCEPT ![o] =
       [version |-> IF row.status = "published" THEN NoVersion ELSE v,
        revision |-> row.revision, status |-> row.status,
        document |-> row.document, saved |-> row.document]]
AnsweredOrLost(o, v) ==
  \/ Accept(o, v) /\ UNCHANGED <<faults, edits>>
  \/ faults < MaxFaults /\ faults' = faults + 1 /\ UNCHANGED <<consoles, edits>>

Dirty(o) == consoles[o].document # consoles[o].saved

Create(o) ==
  /\ consoles[o].version = NoVersion /\ Len(versions) < MaxVersions
  /\ versions' = Append(versions, [document |-> consoles[o].document,
                                   revision |-> 1, status |-> "draft"])
  /\ AnsweredOrLost(o, Len(versions'))

(* The row a console remembers, when it still has the revision it has seen.*)
RowAtAnyRevision(o, statuses) ==
  /\ consoles[o].version # NoVersion
  /\ versions[consoles[o].version].status \in statuses

RowAt(o, statuses) ==
  /\ RowAtAnyRevision(o, statuses)
  /\ versions[consoles[o].version].revision = consoles[o].revision
  /\ consoles[o].revision < MaxRevision

Revised(v, document, status) ==
  [document |-> document, revision |-> versions[v].revision + 1, status |-> status]

Update(o) ==
  /\ Dirty(o) /\ RowAt(o, {"draft", "validated"})
  /\ LET v == consoles[o].version
     IN /\ versions' = [versions EXCEPT ![v] = Revised(v, consoles[o].document, "draft")]
        /\ AnsweredOrLost(o, v)

Validate(o) ==
  /\ ~Dirty(o) /\ RowAt(o, {"draft"})
  /\ LET v == consoles[o].version
         document == versions[v].document
         status == IF document \in Invalid THEN "draft" ELSE "validated"
     IN /\ versions' = [versions EXCEPT ![v] = Revised(v, document, status)]
        /\ AnsweredOrLost(o, v)

(* A publication supersedes what was published before.                     *)
Publish(o) ==
  /\ ~Dirty(o) /\ consoles[o].status = "validated" /\ RowAt(o, {"validated"})
  /\ LET v == consoles[o].version
         document == versions[v].document
     IN /\ document \notin Invalid
        /\ versions' = [w \in DOMAIN versions |->
             IF w = v THEN Revised(v, document, "published")
             ELSE IF versions[w].status = "published" THEN [versions[w] EXCEPT !.status = "superseded"]
             ELSE versions[w]]
        /\ AnsweredOrLost(o, v)

DraftsInit ==
  /\ versions = <<>>
  /\ consoles = [o \in Operators |-> Loaded(0)]
  /\ edits = 0 /\ faults = 0

DraftStep(o) == Edit(o) \/ Create(o) \/ Update(o) \/ Validate(o)
=============================================================================
