------------------------------ MODULE Donations -----------------------------
(***************************************************************************)
(* What becomes of accepted donations: drain and processInbox of           *)
(* donation-ingestion.service.ts, on the game session they act on.         *)
(*                                                                         *)
(* Every poll of the collector ends with a drain of the inbox: one         *)
(* transaction per donation, each locking the donation and the session.    *)
(* The advisory lock of the poll keeps drains apart only while its         *)
(* connection lives.  Meanwhile operators send their commands, donors      *)
(* choose destinations in the chat, and time passes: a movement is         *)
(* followed by a pause for its presentation, and a request expires.        *)
(***************************************************************************)
EXTENDS GameSession

CONSTANTS
  Drainers,       (* API processes that drain the inbox                     *)
  Donors,
  DonationActions,(* what the rules ask for: a set of actions               *)
  Commanded,      (* bound of the model: the commands operators send        *)
  DrainLimit,     (* donations looked at in one drain: 50                   *)
  MaxDonations, MaxChats, MaxFaults, (* bounds of the model                 *)
  NoDrainer

Selections == {"operator", "donor_chat", "both"}
Action ==
  [type: {"roll_dice"}, rolls: Nat \ {0}]
    \cup [type: {"mission"}, shield: Items \cup {NoItem}, cost: Nat]
    \cup [type: {"grant_item"}, item: Items, quantity: Nat \ {0}]
    \cup [type: {"choose_destination"}, selection: Selections]

ASSUME DonationAssumption ==
  /\ NoDrainer \notin Drainers
  /\ DonationActions \subseteq Action
  /\ Commanded \subseteq CommandTypes \ {"donation"}
  /\ DrainLimit \in Nat \ {0}
  /\ MaxDonations \in Nat /\ MaxChats \in Nat /\ MaxFaults \in Nat

VARIABLES
  inbox,    (* donations bound to a session, in the order of acceptance     *)
  chats,    (* chat messages that name a destination                        *)
  arriving, (* the chat being accepted, when it found no request            *)
  paced,    (* the presentation of the last movement is over                *)
  log,      (* game_commands of the donation source: the donation of each   *)
  drains,   (* Drainers -> where each drain is                              *)
  guard,    (* who holds the advisory lock collector-poll                   *)
  faults
intake == <<inbox, chats, arriving, paced, log>>
polls  == <<drains, guard, faults>>
donationVars == <<db, tx, intake, polls>>

(* A donation: task is its destination request (its place in the session's *)
(* tasks), due tells whether its not_before has passed.                    *)
Donation ==
  [session: Nat, donor: Donors, action: DonationActions, progress: Nat, task: Nat,
   disposition: {"pending", "executed", "ignored", "failed"}, due: BOOLEAN,
   expired: BOOLEAN]

(* A chat message observed after the first `after` donations; matched when *)
(* it has answered a request.                                              *)
Chat == [donor: Donors, cell: Cells, after: 0 .. MaxDonations, gap: BOOLEAN,
         matched: BOOLEAN]
NewChat == {chat \in Chat : ~chat.matched}
NoChat == [type |-> "none"]

Stages == {"idle", "ended", "process", "execute", "fail"}
Drain  == [stage: Stages, left: SUBSET (1 .. MaxDonations)]
Resting == [stage |-> "idle", left |-> {}]

DonationsTypeOK ==
  /\ db \in SessionState /\ tx \in Transaction \cup {Idle}
  /\ inbox \in Seq(Donation) /\ Len(inbox) <= MaxDonations
  /\ chats \in Seq(Chat)
  /\ arriving \in Chat \cup {NoChat}
  /\ paced \in BOOLEAN
  /\ log \in Seq(DOMAIN inbox)
  /\ drains \in [Drainers -> Drain]
  /\ guard \in Drainers \cup {NoDrainer}
  /\ faults \in 0 .. MaxFaults

DonationsInit ==
  /\ Init
  /\ inbox = <<>> /\ chats = <<>> /\ arriving = NoChat /\ paced = TRUE /\ log = <<>>
  /\ drains = [p \in Drainers |-> Resting] /\ guard = NoDrainer /\ faults = 0

(* ------------------------------ Reading the inbox ----------------------- *)
IsMovement(k) == inbox[k].action.type \in {"roll_dice", "choose_destination"}
Pending(k)    == inbox[k].disposition = "pending"

(* The destination request of donation k, once there is one.               *)
Asked(k)   == inbox[k].action.type = "choose_destination" /\ inbox[k].progress > 0
Request(k) == db.tasks[inbox[k].task]
Unselected(k) == Request(k).selected = NoCell
Lapsed(k)  == Unselected(k) /\ inbox[k].expired

(* mutant: a donation acts on the session that is open when it is drained *)
BoundToAny(k) == db.status # "ended"
Bound(k)      == inbox[k].session = db.session /\ db.status # "ended"

(* mutant: a movement lock does not hold a donation back *)
BlockedButForLocks == HasTravel(db) \/ db.status # "running" \/ ~paced
(* requiresStreamerAction, a pause, or the presentation of what came before.*)
Blocked == HasTravel(db) \/ Locked(db) \/ db.status # "running" \/ ~paced

Marked(k, disposition) == [inbox EXCEPT ![k].disposition = disposition]

(* ------------------------------- Acceptance ------------------------------ *)
(* The acceptance of a donation reads the session FOR SHARE.               *)
AcceptDonation(donor, action) ==
  /\ tx = Idle /\ db.status \in {"running", "paused"}
  /\ Len(inbox) < MaxDonations
  /\ inbox' = Append(inbox,
       [session |-> db.session, donor |-> donor, action |-> action, progress |-> 0,
        task |-> 0, disposition |-> "pending", due |-> TRUE, expired |-> FALSE])
  /\ UNCHANGED <<db, tx, chats, arriving, paced, log, polls>>

(* What a chat message chooses for a request, where the pawn is now.       *)
Chooses(chat, k) ==
  /\ inbox[k].action.selection \in {"donor_chat", "both"}
  /\ inbox[k].donor = chat.donor /\ k <= chat.after /\ ~chat.gap

(* mutant: a request that was answered is answered again *)
OpenRequestsAlways(chat) ==
  {k \in DOMAIN inbox : /\ Bound(k) /\ Asked(k) /\ Request(k).status = "pending"
                        /\ Chooses(chat, k)}
OpenRequests(chat) ==
  {k \in DOMAIN inbox : /\ Bound(k) /\ Asked(k) /\ Request(k).status = "pending"
                        /\ Unselected(k) /\ Chooses(chat, k)}

Selected(task, cell) == [task EXCEPT !.selected = cell, !.revision = @ + 1]

Earliest(rows) == CHOOSE k \in rows : \A j \in rows : k <= j

(* acceptChat finds a request: it locks it and answers it.                 *)
AnswerRequest(chat) ==
  LET k == Earliest(OpenRequests(chat))
      answers == MayTravelTo(db, Request(k), chat.cell) /\ ~inbox[k].expired
  IN
  /\ tx = Idle /\ arriving = NoChat /\ Len(chats) < MaxChats
  /\ OpenRequests(chat) # {}
  /\ chats' = Append(chats, [chat EXCEPT !.matched = answers])
  /\ db' = IF answers
           THEN [db EXCEPT !.tasks[inbox[k].task] = Selected(@, chat.cell)] ELSE db
  /\ UNCHANGED <<tx, inbox, arriving, paced, log, polls>>

(* It finds none, and is stored when its transaction commits.              *)
FindNoRequest(chat) ==
  /\ arriving = NoChat /\ Len(chats) < MaxChats
  /\ OpenRequests(chat) = {}
  /\ arriving' = chat
  /\ UNCHANGED <<db, tx, inbox, chats, paced, log, polls>>

StoreChat ==
  /\ arriving # NoChat
  /\ chats' = Append(chats, arriving) /\ arriving' = NoChat
  /\ UNCHANGED <<db, tx, inbox, paced, log, polls>>

(* ------------------------------ A drain ---------------------------------- *)
Row(p)      == Earliest(drains[p].left)
To(p, stage, left) == drains' = [drains EXCEPT ![p] = [stage |-> stage, left |-> left]]
NextRow(p, stage)  == To(p, stage, drains[p].left \ {Row(p)})

(* No other drain holds the lock of the donation.                          *)
RowFree(p) == \A q \in Drainers \ {p} : drains[q].stage = "execute" => Row(q) # Row(p)

BeginDrain(p) ==
  /\ drains[p].stage = "idle" /\ guard = NoDrainer
  /\ guard' = p
  /\ To(p, "ended", {k \in DOMAIN inbox : Pending(k) /\ ~Bound(k)})
  /\ UNCHANGED <<db, tx, intake, faults>>

(* Donations of ended sessions are ignored, each in its own transaction.   *)
MarkEnded(p) ==
  /\ drains[p].stage = "ended" /\ drains[p].left # {} /\ RowFree(p)
  /\ inbox' = Marked(Row(p), "ignored")
  /\ NextRow(p, "ended")
  /\ UNCHANGED <<db, tx, chats, arriving, paced, log, guard, faults>>

FirstOf(rows, n) == {k \in rows : Cardinality({j \in rows : j < k}) < n}

(* Of the donations that move the pawn only the first is tried.            *)
SelectRows(p) ==
  LET ready == {k \in DOMAIN inbox : Pending(k) /\ Bound(k) /\ inbox[k].due}
      listed == FirstOf(ready, DrainLimit)
      movements == {k \in listed : IsMovement(k)}
  IN /\ drains[p].stage = "ended" /\ drains[p].left = {}
     /\ To(p, "process", (listed \ movements) \cup FirstOf(movements, 1))
     /\ UNCHANGED <<db, tx, intake, guard, faults>>

(* processInbox has the lock of the donation, then of its session.         *)
Processing(p) == drains[p].stage = "process" /\ drains[p].left # {} /\ tx = Idle

(* Another drain has decided it.                                           *)
AlreadyDecided(p) ==
  /\ Processing(p) /\ ~Pending(Row(p))
  /\ NextRow(p, "process")
  /\ UNCHANGED <<db, tx, intake, guard, faults>>

SessionOver(p) ==
  /\ Processing(p) /\ Pending(Row(p)) /\ ~Bound(Row(p))
  /\ inbox' = Marked(Row(p), "failed")
  /\ NextRow(p, "process")
  /\ UNCHANGED <<db, tx, chats, arriving, paced, log, guard, faults>>

(* The operator has cancelled the request, or it expired unanswered.       *)
OverIfLapsed(k) == Asked(k) /\ Lapsed(k)     \* mutant: a cancelled one goes on
Over(k) == Asked(k) /\ (Request(k).status = "cancelled" \/ Lapsed(k))
RequestOver(p) ==
  LET k == Row(p) IN
  /\ Processing(p) /\ Pending(k) /\ Bound(k) /\ Over(k)
  /\ db' = IF Request(k).status = "cancelled" THEN db
           ELSE Closed(db, inbox[k].task, Request(k), "cancelled")
  /\ inbox' = Marked(k, "ignored")
  /\ NextRow(p, "process")
  /\ UNCHANGED <<tx, chats, arriving, paced, log, guard, faults>>

(* It has to wait: for the streamer, the presentation or the destination.  *)
Waits(k) == (IsMovement(k) /\ Blocked) \/ (Asked(k) /\ Unselected(k))
LeaveAllWaiting(p) ==                       \* mutant: the others wait with it
  LET k == Row(p) IN
  /\ Processing(p) /\ Pending(k) /\ Bound(k) /\ ~Over(k) /\ Waits(k)
  /\ To(p, "process", {})
  /\ UNCHANGED <<db, tx, intake, guard, faults>>
LeaveWaiting(p) ==
  LET k == Row(p) IN
  /\ Processing(p) /\ Pending(k) /\ Bound(k) /\ ~Over(k) /\ Waits(k)
  /\ NextRow(p, "process")
  /\ UNCHANGED <<db, tx, intake, guard, faults>>

(* mutant: what was read before the locks is trusted *)
ExecutableAsListed(k) == Bound(k) /\ ~Over(k) /\ ~Waits(k)
Executable(k) == Pending(k) /\ Bound(k) /\ ~Over(k) /\ ~Waits(k)

(* mutant: the null that stands for every cell is taken for a cell *)
NewRequestOfNull ==
  [kind |-> "donation_destination", status |-> "pending", revision |-> 0,
   selected |-> NoCell, turn |-> NoTurn, cancelled |-> FALSE,
   allowed |-> {NoCell}, exclude |-> TRUE, onArrival |-> TRUE]
NewRequest ==
  [kind |-> "donation_destination", status |-> "pending", revision |-> 0,
   selected |-> NoCell, turn |-> NoTurn, cancelled |-> FALSE,
   allowed |-> Cells, exclude |-> TRUE, onArrival |-> TRUE]

(* The destination of a request is not judged again.                       *)
Answered(k) ==
  Outcome([Closed(db, inbox[k].task, Request(k), "resolved")
             EXCEPT !.cell = Request(k).selected],
          ArrivalAt(Request(k).selected), TRUE, "none")

Grantable(a) ==
  /\ a.item \in db.catalog.active
  /\ db.stock[a.item].quantity + a.quantity <= db.catalog.max[a.item]

(* The outcomes of a donation's next step; none when it throws.            *)
executeAction(k) ==
  LET a == inbox[k].action
      Changed(d) == {Outcome(d, <<>>, FALSE, "none")}
  IN CASE a.type = "roll_dice" -> executeRollTurn(db)
       [] a.type = "mission" ->
            Changed([db EXCEPT !.missions =
                       Append(@, NewMission(a.shield, a.cost, NoCounter, 0, "never"))])
       [] a.type = "grant_item" ->
            IF Grantable(a) THEN Changed(Moved(db, a.item, a.quantity)) ELSE {}
       [] a.type = "choose_destination" ->
            IF Asked(k) THEN {Answered(k)}
            ELSE Changed([db EXCEPT !.tasks = Append(@, NewRequest)])

Execute(p) ==
  /\ Processing(p) /\ Executable(Row(p))
  /\ \E o \in executeAction(Row(p)) : Begin("donation", o)
  /\ To(p, "execute", drains[p].left)
  /\ UNCHANGED <<intake, guard, faults>>

(* A throw may carry the pawn further than a movement may go.              *)
TooFar(k) ==
  inbox[k].action.type = "roll_dice" /\ \E t \in Throws(db) : Travelled(db, t) > MaxDistance
Refused(p) ==
  /\ Processing(p) /\ Executable(Row(p))
  /\ executeAction(Row(p)) = {} \/ TooFar(Row(p))
  /\ To(p, "fail", drains[p].left)
  /\ UNCHANGED <<db, tx, intake, guard, faults>>

(* ---------------------- The end of a donation's transaction -------------- *)
(* How many commands the donation makes in all.                            *)
StepsOf(a) ==
  CASE a.type = "roll_dice" -> a.rolls
    [] a.type = "choose_destination" -> 2
    [] OTHER -> 1

(* A request looks for its answer in the chat that came before it, and that*)
(* has answered no other.                                                  *)
Earlier(k) ==
  {n \in DOMAIN chats : /\ Chooses(chats[n], k) /\ ~chats[n].matched
                        /\ MayTravelTo(db, NewRequest, chats[n].cell)}
AskedOf(k, d) ==
  IF Earlier(k) = {} THEN d
  ELSE [d EXCEPT !.tasks[Len(d.tasks)] = Selected(@, chats[Earliest(Earlier(k))].cell)]
Matched(k) ==
  IF Earlier(k) = {} THEN chats ELSE [chats EXCEPT ![Earliest(Earlier(k))].matched = TRUE]

(* The donation's row when one more of its steps is done; a movement keeps *)
(* every pending donation waiting for its presentation.                    *)
Advanced(k) ==
  LET row == inbox[k]
      asks == row.action.type = "choose_destination" /\ row.progress = 0
      done == row.progress + 1 = StepsOf(row.action)
  IN [inbox EXCEPT ![k] =
        [row EXCEPT !.progress = @ + 1,
                    !.task = IF asks THEN Len(tx.d.tasks) ELSE @,
                    !.disposition = IF done THEN "executed" ELSE @]]
Postponed(rows) ==
  [n \in DOMAIN rows |->
     IF rows[n].disposition = "pending" THEN [rows[n] EXCEPT !.due = FALSE] ELSE rows[n]]

(* The commit of the donation that drain p executes.                       *)
Committed(p) ==
  LET k == Row(p)
      asks == inbox[k].action.type = "choose_destination" /\ inbox[k].progress = 0
      d == IF asks THEN AskedOf(k, tx.d) ELSE tx.d
  IN /\ drains[p].stage = "execute" /\ Finished /\ Storable
     /\ db' = [d EXCEPT !.revision = @ + 1, !.tasks = @ \o tx.travels,
                        !.last = [type |-> tx.type, movement |-> tx.movement,
                                  travel |-> tx.travel]]
     /\ tx' = Idle
     /\ log' = Append(log, k)
     /\ inbox' = IF IsMovement(k) THEN Postponed(Advanced(k)) ELSE Advanced(k)
     /\ chats' = IF asks THEN Matched(k) ELSE chats
     /\ paced' = (paced /\ ~IsMovement(k))
     /\ UNCHANGED <<arriving, guard>>

CommitDonation(p) == Committed(p) /\ NextRow(p, "process") /\ UNCHANGED faults

RollbackDonation(p) ==
  /\ drains[p].stage = "execute" /\ Rollback
  /\ To(p, "fail", drains[p].left)
  /\ UNCHANGED <<intake, guard, faults>>

(* A transaction that failed for good is recorded by another.              *)
MarkFailed(p) ==
  /\ drains[p].stage = "fail" /\ RowFree(p)
  /\ inbox' = Marked(Row(p), "failed")
  /\ NextRow(p, "process")
  /\ UNCHANGED <<db, tx, chats, arriving, paced, log, guard, faults>>

Released(p) == guard' = IF guard = p THEN NoDrainer ELSE guard

EndDrain(p) ==
  /\ drains[p].stage = "process" /\ drains[p].left = {}
  /\ To(p, "idle", {}) /\ Released(p)
  /\ UNCHANGED <<db, tx, intake, faults>>

DrainStep(p) ==
  \/ BeginDrain(p) \/ MarkEnded(p) \/ SelectRows(p) \/ AlreadyDecided(p)
  \/ SessionOver(p) \/ RequestOver(p) \/ LeaveWaiting(p) \/ Execute(p) \/ Refused(p)
  \/ CommitDonation(p) \/ RollbackDonation(p) \/ MarkFailed(p) \/ EndDrain(p)

(* ------------------------------- Failures -------------------------------- *)
Fault == faults < MaxFaults /\ faults' = faults + 1

(* The connection breaks during COMMIT: done, but reported as an error that*)
(* is not a known transient one.                                           *)
CommitUnknown(p) == Fault /\ Committed(p) /\ To(p, "fail", drains[p].left)

(* The database ends the transaction, for a deadlock: left for another     *)
(* drain.                                                                  *)
TransientError(p) ==
  /\ Fault /\ drains[p].stage = "execute"
  /\ tx' = Idle
  /\ NextRow(p, "process")
  /\ UNCHANGED <<db, intake, guard>>

(* A connection that cannot be made or is lost before COMMIT: what the     *)
(* connection or its ROLLBACK throws is no known transient error either.   *)
ConnectionLost(p) ==
  /\ Fault /\ drains[p].stage \in {"process", "execute"} /\ drains[p].left # {}
  /\ tx' = IF drains[p].stage = "execute" THEN Idle ELSE tx
  /\ To(p, "fail", drains[p].left)
  /\ UNCHANGED <<db, intake, guard>>

GuardLost ==
  /\ Fault /\ guard # NoDrainer /\ guard' = NoDrainer
  /\ UNCHANGED <<db, tx, intake, drains>>

(* The process dies; the database undoes what it had not committed.        *)
Crash(p) ==
  /\ Fault /\ drains[p].stage # "idle"
  /\ tx' = IF drains[p].stage = "execute" THEN Idle ELSE tx
  /\ To(p, "idle", {}) /\ Released(p)
  /\ UNCHANGED <<db, intake>>

(* -------------------------- Operators and time --------------------------- *)
NotBeforePassed ==
  /\ \E k \in DOMAIN inbox : ~inbox[k].due
  /\ inbox' = [k \in DOMAIN inbox |-> [inbox[k] EXCEPT !.due = TRUE]]
  /\ UNCHANGED <<db, tx, chats, arriving, paced, log, polls>>

PresentationOver ==
  /\ ~paced /\ \A k \in DOMAIN inbox : inbox[k].due
  /\ paced' = TRUE
  /\ UNCHANGED <<db, tx, inbox, chats, arriving, log, polls>>

RequestExpires(k) ==
  /\ Asked(k) /\ ~inbox[k].expired /\ Pending(k)
  /\ inbox' = [inbox EXCEPT ![k].expired = TRUE]
  /\ UNCHANGED <<db, tx, chats, arriving, paced, log, polls>>

(* The operator answers or cancels a donation's request.                   *)
select_donation_destination(k, cell) ==
  /\ Active /\ Bound(k) /\ Asked(k) /\ Request(k).status = "pending"
  /\ inbox[k].action.selection \in {"operator", "both"}
  /\ Unselected(k) /\ ~inbox[k].expired
  /\ MayTravelTo(db, Request(k), cell)
  /\ Change("choose_destination", [db EXCEPT !.tasks[inbox[k].task] = Selected(@, cell)])

cancel_donation_destination(k) ==
  /\ Active /\ Bound(k) /\ Asked(k) /\ Request(k).status = "pending"
  /\ Change("cancel_destination", Closed(db, inbox[k].task, Request(k), "cancelled"))

OperatorCommand ==
  /\ \/ MovementCommands \/ ResourceCommands
     \/ \E k \in DOMAIN inbox :
          cancel_donation_destination(k)
            \/ \E c \in Cells : select_donation_destination(k, c)
  /\ tx'.type \in Commanded
  /\ UNCHANGED <<intake, polls>>

(* Effects and operators' commits; a movement paces the donations too.     *)
CommitCommand ==
  /\ Commit /\ tx.type # "donation"
  /\ paced' = (paced /\ ~tx.movement)
  /\ UNCHANGED <<inbox, chats, arriving, log, polls>>

CommandWork ==
  \/ Effects /\ UNCHANGED <<intake, polls>>
  \/ CommitCommand
  \/ Rollback /\ tx.type # "donation" /\ UNCHANGED <<intake, polls>>

PublishCatalog ==
  /\ \E c \in Catalogs : PublishItems(c)
  /\ UNCHANGED <<intake, polls>>

StartSession ==
  /\ \E c \in Cells, d \in Directions, b \in BoardIds : createSession(c, d, b)
  /\ UNCHANGED <<intake, polls>>

DonationsNext ==
  \/ \E p \in Drainers : DrainStep(p)
  \/ \E p \in Drainers : CommitUnknown(p) \/ TransientError(p) \/ ConnectionLost(p) \/ Crash(p)
  \/ GuardLost
  \/ \E d \in Donors, a \in DonationActions : AcceptDonation(d, a)
  \/ \E chat \in NewChat : AnswerRequest(chat) \/ FindNoRequest(chat)
  \/ StoreChat \/ NotBeforePassed \/ PresentationOver
  \/ \E k \in DOMAIN inbox : RequestExpires(k)
  \/ StartSession \/ PublishCatalog \/ OperatorCommand \/ CommandWork

(* The poll's timer always starts another drain, and time passes; nothing  *)
(* makes an operator or a donor act.                                       *)
DonationsSpec ==
  /\ DonationsInit /\ [][DonationsNext]_donationVars
  /\ \A p \in Drainers : WF_donationVars(DrainStep(p))
  /\ WF_donationVars(CommandWork) /\ WF_donationVars(NotBeforePassed)
  /\ WF_donationVars(PresentationOver)
=============================================================================
