----------------------------- MODULE GameSession ----------------------------
(***************************************************************************)
(* The game session of one channel, as apps/api/src/api.service.ts runs    *)
(* it.  db is the committed state of the channel's current session; tx is  *)
(* the transaction of the command being executed, with its working copy of *)
(* that state.  A command locks the session row, so there is at most one   *)
(* transaction, and a transaction that throws leaves db as it was.         *)
(*                                                                         *)
(* The effects of the cells a pawn passes or lands on are executed one at  *)
(* a time, depth first: tx.todo is the stack of cell visits still to be    *)
(* made, and each visit knows which effect of its cell comes next.         *)
(*                                                                         *)
(* A cell is its index on the board's path.  A definition marked "mutant"  *)
(* is a plausible mistake in the one after it, which nothing uses: it is   *)
(* there to show that a property would catch the mistake.                  *)
(***************************************************************************)
EXTENDS TravelTurn, Sequences, FiniteSets

CONSTANTS
  PathLength,     (* number of cells on the path                            *)
  BoardIds,       (* board versions of the channel                          *)
  Board,          (* BoardIds -> [onLand, onPass, dice, sides]              *)
  Items,          (* item definitions                                       *)
  Counters,       (* counters of the boards                                 *)
  InitialCounter, (* Counters -> Nat                                        *)
  InitialCatalog, (* the item catalog published when the model starts       *)
  Catalogs,       (* catalogs that may be published later                   *)
  Quantities,     (* amounts an operator may set, add or take               *)
  OldSlotServing, (* a release older than migration 020 serves as well      *)
  MaxEffects,     (* effects one command may execute: 128                   *)
  MaxSteps,       (* steps one command's effects may add: 1000              *)
  MaxDistance,    (* steps of one roll: 1000                                *)
  MaxFactor,      (* the CHECK on session_roll_modifiers.factor: 100        *)
  MaxMission,     (* the CHECK on missions.quantity: 100000                 *)
  MaxRevision,    (* bound of the model: commands per session               *)
  MaxSessions,    (* bound of the model: sessions of the channel            *)
  NoItem, NoCounter

Cells      == 0 .. PathLength - 1
Directions == {"forward", "reverse"}
Statuses   == {"none", "running", "paused", "ended"}

(* ----------------------------- Board effects --------------------------- *)
ReleaseTypes == {"operator", "skip_rolls", "skip_rolls_or_doubles", "dice_faces"}
Lock == [type: ReleaseTypes \cup {"none"}, left: Nat,
         onDoubles: {"move_sum", "release_only"}, faces: SUBSET Nat]
NoLock == [type |-> "none", left |-> 0, onDoubles |-> "release_only", faces |-> {}]

(* uses = 0 is the absence of a multiplier, whose factor is then 1.        *)
Modifier   == [factor: Nat, uses: Nat]
NoModifier == [factor |-> 1, uses |-> 0]

Effect ==
  [type: {"none"}]
    \cup [type: {"mission"}, shield: Items \cup {NoItem}, cost: Nat]
    \cup [type: {"set_direction"}, direction: Directions \cup {"toggle"}]
    \cup [type: {"counter_add"}, counter: Counters, quantity: Nat \ {0}]
    \cup [type: {"counter_settle"}, counter: Counters,
          shield: Items \cup {NoItem}, cost: Nat]
    \cup [type: {"modify_roll"}, factor: Nat \ {0}, uses: Nat \ {0}]
    \cup [type: {"grant_item"}, item: Items, quantity: Nat \ {0}]
    \cup [type: {"move_steps"}, steps: Nat \ {0},
          direction: Directions \cup {"with_current", "against_current"},
          onPass: BOOLEAN, onArrival: BOOLEAN]
    \cup [type: {"choose_destination"}, allowed: SUBSET Cells,
          exclude: BOOLEAN, onArrival: BOOLEAN]
    \cup [type: {"movement_lock"}, release: Lock]

Catalog == [active: SUBSET Items, max: [Items -> Nat]]

(* A cell the pawn passes may not interrupt its movement.                  *)
PassEffect == {e \in Effect : e.type \in {"none", "mission", "counter_add", "grant_item"}}
BoardType == [onLand: [Cells -> Seq(Effect)], onPass: [Cells -> Seq(PassEffect)],
              dice: Nat \ {0}, sides: Nat \ {0, 1}]

ASSUME SizeAssumption ==
  /\ PathLength \in Nat /\ PathLength >= 4
  /\ MaxEffects \in Nat /\ MaxSteps \in Nat /\ MaxDistance \in Nat
  /\ MaxFactor \in Nat /\ MaxMission \in Nat
  /\ MaxRevision \in Nat /\ MaxSessions \in Nat
  /\ OldSlotServing \in BOOLEAN
  /\ Quantities \subseteq Nat
ASSUME BoardAssumption == Board \in [BoardIds -> BoardType]
ASSUME CatalogAssumption ==
  /\ NoItem \notin Items /\ NoCounter \notin Counters
  /\ InitialCatalog \in Catalog /\ Catalogs \subseteq Catalog
  /\ InitialCounter \in [Counters -> Nat]

VARIABLES db, tx
vars == <<db, tx>>

(* --------------------------------- Rows -------------------------------- *)
Stock     == [quantity: Nat, revision: Nat]
LedgerRow == [before: Nat, delta: Int, after: Nat, revision: Nat]

(* settles says when the mission takes its amount from its counter; the    *)
(* columns of a settlement are set together or not at all.                 *)
MissionRow == [status: {"pending", "completed", "waived", "shielded"},
               shield: Items \cup {NoItem}, cost: Nat,
               counter: Counters \cup {NoCounter}, amount: Nat,
               settles: {"never", "creation", "mission_completion"}]
Mission == {m \in MissionRow : m.settles = "never" <=> m.counter = NoCounter}

(* A row of session_effect_tasks: a travel reservation or a destination    *)
(* asked for by a donation.                                                *)
Task == [kind: {"choose_destination", "donation_destination"},
         status: {"pending", "resolved", "cancelled"}, revision: Nat,
         selected: Cells \cup {NoCell}, turn: Nat, cancelled: BOOLEAN,
         allowed: SUBSET Cells, exclude: BOOLEAN, onArrival: BOOLEAN]

CommandTypes ==
  {"create_session", "roll_dice", "set_direction", "set_position", "pause",
   "resume", "end_session", "choose_destination", "cancel_destination",
   "adjust_counter", "clear_movement_lock", "set_movement_lock_remaining",
   "clear_roll_modifier", "apply_board_version", "adjust_inventory",
   "complete_mission", "waive_mission", "use_shield",
   "donation"}  (* one that a donation makes: module Donations *)

TravelStatuses == {"none", "waiting", "moved", "returned", "cancelled"}

(* The result of the latest command: whether it carries dice and a path    *)
(* for the overlay to play, and what became of a travel reservation.       *)
Result == [type: CommandTypes, movement: BOOLEAN, travel: TravelStatuses]

SessionState ==
  [session: Nat, status: Statuses, auto: BOOLEAN, cell: Cells,
   direction: Directions, board: BoardIds, revision: Nat, presentation: Nat,
   counters: [Counters -> Nat], credited: [Counters -> Int],
   stock: [Items -> Stock], ledger: [Items -> Seq(LedgerRow)],
   missions: Seq(Mission), tasks: Seq(Task), lock: Lock, modifier: Modifier,
   catalog: Catalog, last: Result]

Visit == [cell: Cells, trigger: {"pass", "land"}, next: Nat \ {0}]

Transaction ==
  [type: CommandTypes, d: SessionState, todo: Seq(Visit), index: Nat, steps: Nat,
   travels: Seq(Task), movement: BOOLEAN, travel: TravelStatuses]

Idle == [type |-> "idle"]

(* ------------------------------ Reading a session ---------------------- *)
PendingTravels(d) ==
  {k \in DOMAIN d.tasks :
     d.tasks[k].kind = "choose_destination" /\ d.tasks[k].status = "pending"}
HasTravel(d)     == PendingTravels(d) # {}
pendingTravel(d) == CHOOSE k \in PendingTravels(d) : TRUE
Locked(d)        == d.lock.type # "none"

(* What pending missions of older releases still have to take from c.      *)
Reserved(d, c) ==
  LET owed(m) == IF /\ m.counter = c /\ m.status = "pending"
                    /\ m.settles = "mission_completion"
                 THEN m.amount ELSE 0
      sum[n \in 0 .. Len(d.missions)] ==
        IF n = 0 THEN 0 ELSE sum[n - 1] + owed(d.missions[n])
  IN sum[Len(d.missions)]

Opposite(direction) == IF direction = "forward" THEN "reverse" ELSE "forward"

(* The n cells walked from cell, in order.                                 *)
PathFrom(cell, direction, n) ==
  [i \in 1 .. n |-> IF direction = "forward" THEN (cell + i) % PathLength
                                             ELSE (cell - i) % PathLength]

ArrivalAt(cell) == <<[cell |-> cell, trigger |-> "land", next |-> 1]>>

PassingOver(path) ==
  [i \in 1 .. Len(path) - 1 |-> [cell |-> path[i], trigger |-> "pass", next |-> 1]]

LastCell(path, cell) == IF path = <<>> THEN cell ELSE path[Len(path)]

(* executeMovementEffects: passing effects on the way, landing effects at  *)
(* the end.                                                                *)
VisitsOf(path, cell) ==
  IF path = <<>> THEN <<>> ELSE PassingOver(path) \o ArrivalAt(LastCell(path, cell))

(* ------------------------------- A turn --------------------------------- *)
(* What a turn leaves behind: the state, the visits still to be made, and  *)
(* the parts of its result that others read.                               *)
Outcome(d, visits, movement, travel) ==
  [d |-> d, todo |-> visits, movement |-> movement, travel |-> travel]

CountDownPastZero(lock) == [lock EXCEPT !.left = @ - 1] \* mutant: never released
CountDown(lock) == IF lock.left <= 1 THEN NoLock ELSE [lock EXCEPT !.left = @ - 1]

(* Every throw of the dice the session's lock calls for: what it does to   *)
(* the lock and how far it carries the pawn.                               *)
Throws(d) ==
  LET lock == d.lock
      n == Board[d.board].dice
      sides == Board[d.board].sides
      Throw(left, distance) == [lock |-> left, distance |-> distance]
  IN CASE lock.type = "none"       -> {Throw(NoLock, t) : t \in n .. n * sides}
       [] lock.type = "operator"   -> {Throw(lock, 0)}
       [] lock.type = "skip_rolls" -> {Throw(CountDown(lock), 0)}
       [] lock.type = "dice_faces" ->
            {Throw(IF f \in lock.faces THEN NoLock ELSE lock, 0) : f \in 1 .. sides}
       [] lock.type = "skip_rolls_or_doubles" ->
            {Throw(CountDown(lock), 0)}
              \cup {Throw(NoLock, IF lock.onDoubles = "move_sum" THEN 2 * f ELSE 0) :
                      f \in 1 .. sides}

SpendUse(modifier) ==
  IF modifier.uses <= 1 THEN NoModifier ELSE [modifier EXCEPT !.uses = @ - 1]

(* A throw that moves the pawn is multiplied and spends one use of the     *)
(* multiplier.                                                             *)
Travelled(d, throw) == throw.distance * d.modifier.factor
Rolled(d, throw) ==
  LET path == PathFrom(d.cell, d.direction, Travelled(d, throw)) IN
  Outcome([d EXCEPT !.lock = throw.lock,
                    !.modifier = IF throw.distance > 0 THEN SpendUse(@) ELSE @,
                    !.cell = LastCell(path, @)],
          VisitsOf(path, d.cell), TRUE, "none")

executeNormalRoll(d) ==
  {Rolled(d, throw) : throw \in {t \in Throws(d) : Travelled(d, t) <= MaxDistance}}

(* assertTravelDestination *)
MayTravelTo(d, r, cell) == cell \in r.allowed /\ (r.exclude => cell # d.cell)

Closed(d, k, r, status) ==
  [d EXCEPT !.tasks[k] = [r EXCEPT !.status = status, !.revision = @ + 1]]

(* The trip of the reservation r, whose closed form makes the state d.     *)
Trip(d, r) ==
  Outcome([d EXCEPT !.cell = r.selected],
          IF r.onArrival THEN ArrivalAt(r.selected) ELSE <<>>, TRUE, "moved")

(* mutant: the destination chosen earlier is not checked again *)
TripsUnchecked(d, k, r) == {Trip(Closed(d, k, r, "resolved"), r)}
Trips(d, k, r) ==
  {t \in {Trip(Closed(d, k, r, "resolved"), r)} : MayTravelTo(d, r, r.selected)}

(* The outcomes of a decision about the pending reservation k, whose new   *)
(* contents are r.                                                         *)
applyTravelDecision(d, k, r, decision) ==
  LET waiting   == Closed(d, k, r, "pending")
      cancelled == Closed(d, k, r, "cancelled")
  IN CASE decision = "wait"        -> {Outcome(waiting, <<>>, TRUE, "waiting")}
       [] decision = "cancel"      -> {Outcome(cancelled, <<>>, FALSE, "cancelled")}
       [] decision = "return_turn" ->
            {[o EXCEPT !.travel = "returned"] : o \in executeNormalRoll(cancelled)}
       [] decision = "move"        -> Trips(d, k, r)

(* A turn: a normal roll unless a reservation is waiting for it.           *)
executeRollTurn(d) ==
  LET k == pendingTravel(d)
      held == d.tasks[k]
      r == IF HoldsTurn(held) THEN held ELSE reserveTravelTurn(held, d.revision + 1)
  IN IF ~HasTravel(d) \/ Locked(d) THEN executeNormalRoll(d)
     ELSE IF HoldsTurn(held) /\ decideTravel(held, FALSE) = "wait" THEN {}
     ELSE applyTravelDecision(d, k, r, decideTravel(r, FALSE))

(* --------------------------- Operator commands -------------------------- *)
Fresh(cell, direction, board) ==
  [session |-> db.session + 1, status |-> "running", auto |-> FALSE,
   cell |-> cell, direction |-> direction, board |-> board,
   revision |-> 0, presentation |-> 0,
   counters |-> InitialCounter, credited |-> InitialCounter,
   stock |-> [i \in Items |-> [quantity |-> 0, revision |-> 0]],
   ledger |-> [i \in Items |-> <<>>], missions |-> <<>>, tasks |-> <<>>,
   lock |-> NoLock, modifier |-> NoModifier, catalog |-> db.catalog,
   last |-> [type |-> "create_session", movement |-> FALSE, travel |-> "none"]]

createSession(cell, direction, board) ==
  /\ tx = Idle
  /\ db.status \in {"none", "ended"}
  /\ db.session < MaxSessions
  /\ db' = Fresh(cell, direction, board)
  /\ UNCHANGED tx

(* The checks every command makes under the session lock.                  *)
Active == tx = Idle /\ db.status \in {"running", "paused"} /\ db.revision < MaxRevision

Begin(type, outcome) ==
  /\ tx' = [type |-> type, d |-> outcome.d, todo |-> outcome.todo, index |-> 0,
            steps |-> 0, travels |-> <<>>, movement |-> outcome.movement,
            travel |-> outcome.travel]
  /\ UNCHANGED db

Change(type, d) == Begin(type, Outcome(d, <<>>, FALSE, "none"))

roll_dice == Active /\ \E o \in executeRollTurn(db) : Begin("roll_dice", o)

set_direction(direction) ==
  Active /\ Change("set_direction", [db EXCEPT !.direction = direction])

set_position(cell, triggerArrival) ==
  /\ Active
  /\ Begin("set_position",
           Outcome([db EXCEPT !.cell = cell, !.auto = TRUE, !.status = "paused"],
                   IF triggerArrival THEN ArrivalAt(cell) ELSE <<>>, FALSE, "none"))

pause ==
  /\ Active
  /\ db.status = "running"
  /\ Change("pause", [db EXCEPT !.status = "paused", !.auto = TRUE])

(* Resuming completes a trip that was waiting only for the pause to end.   *)
resume ==
  /\ Active
  /\ db.status = "paused"
  /\ LET running == [db EXCEPT !.status = "running", !.auto = FALSE]
         k == pendingTravel(db)
         r == db.tasks[k]
     IN IF HasTravel(db) /\ ~Locked(db) /\ HoldsTurn(r)
        THEN \E o \in applyTravelDecision(running, k, r, decideTravel(r, FALSE)) :
               Begin("resume", o)
        ELSE Change("resume", running)

(* mutant: a pending destination does not stop the session from ending *)
end_sessionUnchecked ==
  Active /\ Change("end_session", [db EXCEPT !.status = "ended", !.auto = TRUE])
end_session ==
  /\ Active
  /\ \A k \in DOMAIN db.tasks : db.tasks[k].status # "pending"
  /\ Change("end_session", [db EXCEPT !.status = "ended", !.auto = TRUE])

HeldWhilePaused == db.status = "paused"                  \* mutant: no lock
HeldBack == db.status = "paused" \/ Locked(db)

choose_destination(cell) ==
  /\ Active
  /\ HasTravel(db)
  /\ LET k == pendingTravel(db)
         r == [db.tasks[k] EXCEPT !.selected = cell]
     IN /\ ~r.cancelled
        /\ MayTravelTo(db, r, cell)
        /\ \E o \in applyTravelDecision(db, k, r, decideTravel(r, HeldBack)) :
             Begin("choose_destination", o)

(* choose_destination with moveNow *)
travel_now(cell) ==
  /\ Active
  /\ HasTravel(db)
  /\ ~Locked(db)
  /\ LET k == pendingTravel(db)
         chosen == [db.tasks[k] EXCEPT !.selected = cell]
         r == moveTravelNow(chosen, db.revision + 1)
     IN /\ ~r.cancelled
        /\ MayTravelTo(db, r, cell)
        /\ \E o \in applyTravelDecision(db, k, r, decideTravel(r, FALSE)) :
             Begin("choose_destination", o)

cancel_destination ==
  /\ Active
  /\ HasTravel(db)
  /\ LET k == pendingTravel(db)
         r == [db.tasks[k] EXCEPT !.cancelled = TRUE]
     IN \E o \in applyTravelDecision(db, k, r, decideTravel(r, HeldBack)) :
          Begin("cancel_destination", o)

clear_movement_lock ==
  Active /\ Locked(db) /\ Change("clear_movement_lock", [db EXCEPT !.lock = NoLock])

set_movement_lock_remaining(left) ==
  /\ Active
  /\ db.lock.type \in {"skip_rolls", "skip_rolls_or_doubles"}
  /\ left > 0
  /\ Change("set_movement_lock_remaining", [db EXCEPT !.lock.left = left])

clear_roll_modifier ==
  /\ Active
  /\ db.modifier # NoModifier
  /\ Change("clear_roll_modifier", [db EXCEPT !.modifier = NoModifier])

(* assertCompatibleBoardTransition: only what does not change the rules of *)
(* the running session, the dice apart, may differ.                        *)
Compatible(a, b) ==
  Board[a].onLand = Board[b].onLand /\ Board[a].onPass = Board[b].onPass

apply_board_version(board) ==
  /\ Active
  /\ db.status = "paused" /\ db.auto
  /\ board # db.board
  /\ Compatible(db.board, board)
  /\ Change("apply_board_version", [db EXCEPT !.board = board])

(* mutant: a counter may be set below what missions have reserved *)
adjust_counterUnchecked(c, quantity) ==
  /\ Active
  /\ Change("adjust_counter",
            [db EXCEPT !.counters[c] = quantity,
                       !.credited[c] = @ + quantity - db.counters[c]])
adjust_counter(c, quantity) ==
  /\ Active
  /\ quantity >= Reserved(db, c)
  /\ Change("adjust_counter",
            [db EXCEPT !.counters[c] = quantity,
                       !.credited[c] = @ + quantity - db.counters[c]])

(* mutant: a movement of nothing leaves no ledger row *)
MovedSilently(d, i, delta) ==
  [d EXCEPT !.stock[i] = [quantity |-> @.quantity + delta, revision |-> @.revision + 1]]

(* The stock of item i changes by delta, with its ledger row.              *)
Moved(d, i, delta) ==
  LET before == d.stock[i].quantity IN
  [d EXCEPT !.stock[i] = [quantity |-> before + delta, revision |-> @.revision + 1],
            !.ledger[i] = Append(@, [before |-> before, delta |-> delta,
                                     after |-> before + delta,
                                     revision |-> d.stock[i].revision + 1])]

adjust_inventory(i, delta) ==
  /\ Active
  /\ i \in db.catalog.active
  /\ db.stock[i].quantity + delta \in 0 .. db.catalog.max[i]
  /\ Change("adjust_inventory", Moved(db, i, delta))

(* complete_mission, waive_mission and use_shield resolve a mission, and   *)
(* take from its counter what the mission still owes.                      *)
Resolvable(m) ==
  /\ Active
  /\ db.missions[m].status = "pending"
  /\ db.missions[m].settles = "mission_completion"
       => db.counters[db.missions[m].counter] >= db.missions[m].amount

Resolved(d, m, status) ==
  LET mission == d.missions[m]
      paid == [d.counters EXCEPT ![mission.counter] = @ - mission.amount]
  IN [d EXCEPT !.missions[m].status = status,
               !.counters = IF mission.settles = "mission_completion" THEN paid ELSE @]

complete_mission(m) ==
  Resolvable(m) /\ Change("complete_mission", Resolved(db, m, "completed"))

waive_mission(m) == Resolvable(m) /\ Change("waive_mission", Resolved(db, m, "waived"))

use_shield(m) ==
  LET i == db.missions[m].shield
      cost == db.missions[m].cost
  IN /\ Resolvable(m)
     /\ i # NoItem
     /\ i \in db.catalog.active
     /\ db.stock[i].quantity >= cost
     /\ Change("use_shield", Resolved(Moved(db, i, 0 - cost), m, "shielded"))

(* ------------------------------ Cell effects ---------------------------- *)
Top == Head(tx.todo)
EffectsAt(d, visit) ==
  IF visit.trigger = "land" THEN Board[d.board].onLand[visit.cell]
                            ELSE Board[d.board].onPass[visit.cell]
Executing == tx # Idle /\ tx.todo # <<>> /\ Top.next <= Len(EffectsAt(tx.d, Top))
CurrentEffect == EffectsAt(tx.d, Top)[Top.next]

Unreserved(d, c) == d.counters[c] - Reserved(d, c)

TravelTakenHere == tx.travels # <<>>       \* mutant: only this command's own is seen
TravelTaken == tx.travels # <<>> \/ HasTravel(tx.d)

(* What makes executeCellEffects throw, or the insert it defers fail.      *)
Fails(e) ==
  \/ tx.index + 1 > MaxEffects
  \/ /\ e.type = "grant_item"
     /\ \/ e.item \notin tx.d.catalog.active
        \/ tx.d.stock[e.item].quantity + e.quantity > tx.d.catalog.max[e.item]
  \/ e.type = "move_steps" /\ tx.steps + e.steps > MaxSteps
  \/ e.type = "choose_destination" /\ TravelTaken
  \/ e.type = "modify_roll" /\ e.factor > MaxFactor
  \/ e.type = "counter_settle" /\ Unreserved(tx.d, e.counter) > MaxMission

Runs(type) == Executing /\ ~Fails(CurrentEffect) /\ CurrentEffect.type = type

(* The current effect is done: d is the new state, and the visits it       *)
(* causes are made before the rest of its cell.                            *)
Effected(d, visits) ==
  [tx EXCEPT !.d = d, !.index = @ + 1,
             !.todo = visits \o <<[Top EXCEPT !.next = @ + 1]>> \o Tail(@)]
Done(d) == tx' = Effected(d, <<>>) /\ UNCHANGED db

NewMission(shield, cost, counter, amount, settles) ==
  [status |-> "pending", shield |-> shield, cost |-> cost, counter |-> counter,
   amount |-> amount, settles |-> settles]

(* Deferred inserts are made when the effect runs: nothing reads them      *)
(* before the commit, except for travel reservations, which stay deferred. *)
EffectNone == Runs("none") /\ Done(tx.d)

EffectMission ==
  /\ Runs("mission")
  /\ LET e == CurrentEffect IN
     Done([tx.d EXCEPT !.missions =
             Append(@, NewMission(e.shield, e.cost, NoCounter, 0, "never"))])

EffectSetDirection ==
  /\ Runs("set_direction")
  /\ LET e == CurrentEffect IN
     Done([tx.d EXCEPT !.direction =
             IF e.direction = "toggle" THEN Opposite(@) ELSE e.direction])

EffectCounterAdd ==
  /\ Runs("counter_add")
  /\ LET e == CurrentEffect IN
     Done([tx.d EXCEPT !.counters[e.counter] = @ + e.quantity,
                       !.credited[e.counter] = @ + e.quantity])

(* Takes what no pending mission has reserved, and turns it into a mission;*)
(* the CHECK of session_counters keeps the value from falling below 0.     *)
EffectCounterSettle ==
  /\ Runs("counter_settle")
  /\ LET e == CurrentEffect
         amount == Unreserved(tx.d, e.counter)
         settled == NewMission(e.shield, e.cost, e.counter, amount, "creation")
     IN Done(IF amount \in 1 .. tx.d.counters[e.counter]
             THEN [tx.d EXCEPT !.counters[e.counter] = @ - amount,
                               !.missions = Append(@, settled)]
             ELSE tx.d)

EffectModifyRoll ==
  /\ Runs("modify_roll")
  /\ LET e == CurrentEffect IN
     Done([tx.d EXCEPT !.modifier = [factor |-> e.factor, uses |-> e.uses]])

EffectGrantItem ==
  Runs("grant_item") /\ Done(Moved(tx.d, CurrentEffect.item, CurrentEffect.quantity))

EffectMoveSteps ==
  /\ Runs("move_steps")
  /\ LET e == CurrentEffect
         direction == CASE e.direction = "with_current" -> tx.d.direction
                        [] e.direction = "against_current" -> Opposite(tx.d.direction)
                        [] OTHER -> e.direction
         path == PathFrom(tx.d.cell, direction, e.steps)
         arrival == LastCell(path, tx.d.cell)
         visits == (IF e.onPass THEN PassingOver(path) ELSE <<>>)
                     \o (IF e.onArrival THEN ArrivalAt(arrival) ELSE <<>>)
     IN /\ tx' = [Effected([tx.d EXCEPT !.cell = arrival], visits)
                    EXCEPT !.steps = @ + e.steps]
        /\ UNCHANGED db

EffectChooseDestination ==
  /\ Runs("choose_destination")
  /\ LET e == CurrentEffect
         reservation ==
           [kind |-> "choose_destination", status |-> "pending", revision |-> 0,
            selected |-> NoCell, turn |-> NoTurn, cancelled |-> FALSE,
            allowed |-> e.allowed, exclude |-> e.exclude, onArrival |-> e.onArrival]
     IN /\ tx' = [Effected(tx.d, <<>>) EXCEPT !.travels = Append(@, reservation)]
        /\ UNCHANGED db

EffectMovementLock ==
  Runs("movement_lock") /\ Done([tx.d EXCEPT !.lock = CurrentEffect.release])

LeaveCell ==
  /\ tx # Idle /\ tx.todo # <<>> /\ ~Executing
  /\ tx' = [tx EXCEPT !.todo = Tail(@)]
  /\ UNCHANGED db

(* ------------------------- Commit and rollback -------------------------- *)
Finished == tx # Idle /\ tx.todo = <<>>

(* The unique index one_pending_travel_per_session.                        *)
Storable == Cardinality(PendingTravels(tx.d)) + Len(tx.travels) <= 1

(* mutant: a corrected position keeps the presentation epoch *)
InvalidatesOnTrips ==
  \/ tx.type \in {"end_session", "choose_destination", "cancel_destination",
                  "apply_board_version"}
  \/ tx.type = "resume" /\ tx.travel # "none"
InvalidatesPresentation ==
  \/ tx.type \in {"set_position", "end_session", "choose_destination",
                  "cancel_destination", "apply_board_version"}
  \/ tx.type = "resume" /\ tx.travel # "none"

Commit ==
  /\ Finished /\ Storable
  /\ db' = [tx.d EXCEPT !.revision = @ + 1,
                        !.presentation = IF InvalidatesPresentation THEN @ + 1 ELSE @,
                        !.tasks = @ \o tx.travels,
                        !.last = [type |-> tx.type, movement |-> tx.movement,
                                  travel |-> tx.travel]]
  /\ tx' = Idle

(* mutant: an effect that throws leaves its transaction open *)
RollbackOnConstraint == Finished /\ ~Storable /\ tx' = Idle /\ UNCHANGED db
Rollback ==
  /\ (Executing /\ Fails(CurrentEffect)) \/ (Finished /\ ~Storable)
  /\ tx' = Idle
  /\ UNCHANGED db

(* ----------------------------- Other writers ---------------------------- *)
ShieldsWanted(d) ==
  {d.missions[m].shield : m \in {n \in DOMAIN d.missions : d.missions[n].status = "pending"}}

(* mutant: the new maximum is not compared with the stock *)
KeepsReferences(catalog) ==
  \A i \in db.catalog.active \ catalog.active :
    db.stock[i].quantity = 0 /\ i \notin ShieldsWanted(db)
Publishable(catalog) ==
  /\ \A i \in catalog.active : db.stock[i].quantity <= catalog.max[i]
  /\ KeepsReferences(catalog)

(* Publishing the item catalog locks the open session too, and refuses a   *)
(* catalog that its stock or its pending missions contradict.              *)
PublishItems(catalog) ==
  /\ tx = Idle
  /\ db.status \in {"running", "paused"} => Publishable(catalog)
  /\ db' = [db EXCEPT !.catalog.active = catalog.active,
                      !.catalog.max = [i \in Items |-> IF i \in catalog.active
                                                       THEN catalog.max[i] ELSE @[i]]]
  /\ UNCHANGED tx

(* Outside this repository: a release older than migration 020 settles a   *)
(* counter by reserving its amount until the mission is resolved.          *)
LegacySettle(c) ==
  LET amount == Unreserved(db, c) IN
  /\ Active
  /\ OldSlotServing
  /\ amount \in 1 .. db.counters[c]
  /\ db' = [db EXCEPT !.revision = @ + 1,
                      !.missions = Append(@, NewMission(NoItem, 0, c, amount,
                                                        "mission_completion"))]
  /\ UNCHANGED tx

(* Migration 020, applied while the old slot still serves: what pending    *)
(* missions have reserved is taken at once, and they owe nothing any more. *)
(* It would fail on a counter that falls below 0.  It may be applied again,*)
(* and what the old slot reserves after it stays reserved.                 *)
Backfilled(m) ==
  IF m.status = "pending" /\ m.settles = "mission_completion"
  THEN [m EXCEPT !.settles = "creation"] ELSE m
BackfillUntaken ==                         \* mutant: the counters keep what was owed
  /\ tx = Idle
  /\ OldSlotServing
  /\ db' = [db EXCEPT !.missions =
                        [m \in DOMAIN db.missions |-> Backfilled(db.missions[m])]]
  /\ UNCHANGED tx
Backfill ==
  /\ tx = Idle
  /\ OldSlotServing
  /\ \A c \in Counters : Unreserved(db, c) \in Nat
  /\ db' = [db EXCEPT !.counters = [c \in Counters |-> Unreserved(db, c)],
                      !.missions = [m \in DOMAIN db.missions |-> Backfilled(db.missions[m])]]
  /\ UNCHANGED tx

(* ----------------------------- Specification ---------------------------- *)
Init ==
  /\ \E board \in BoardIds :
       db = [session |-> 0, status |-> "none", auto |-> FALSE, cell |-> 0,
             direction |-> "forward", board |-> board, revision |-> 0,
             presentation |-> 0, counters |-> InitialCounter,
             credited |-> InitialCounter,
             stock |-> [i \in Items |-> [quantity |-> 0, revision |-> 0]],
             ledger |-> [i \in Items |-> <<>>], missions |-> <<>>, tasks |-> <<>>,
             lock |-> NoLock, modifier |-> NoModifier, catalog |-> InitialCatalog,
             last |-> [type |-> "create_session", movement |-> FALSE, travel |-> "none"]]
  /\ tx = Idle

Effects ==
  \/ EffectNone \/ EffectMission \/ EffectSetDirection \/ EffectCounterAdd
  \/ EffectCounterSettle \/ EffectModifyRoll \/ EffectGrantItem \/ EffectMoveSteps
  \/ EffectChooseDestination \/ EffectMovementLock \/ LeaveCell

Work == Effects \/ Commit \/ Rollback

MovementCommands ==
  \/ roll_dice \/ pause \/ resume \/ end_session \/ cancel_destination
  \/ clear_movement_lock \/ clear_roll_modifier
  \/ \E d \in Directions : set_direction(d)
  \/ \E c \in Cells, t \in BOOLEAN : set_position(c, t)
  \/ \E c \in Cells : choose_destination(c) \/ travel_now(c)
  \/ \E n \in Quantities : set_movement_lock_remaining(n)
  \/ \E b \in BoardIds : apply_board_version(b)

ResourceCommands ==
  \/ \E c \in Counters, n \in Quantities : adjust_counter(c, n)
  \/ \E i \in Items, n \in Quantities : adjust_inventory(i, n) \/ adjust_inventory(i, 0 - n)
  \/ \E m \in DOMAIN db.missions :
       complete_mission(m) \/ waive_mission(m) \/ use_shield(m)

Next ==
  \/ \E c \in Cells, d \in Directions, b \in BoardIds : createSession(c, d, b)
  \/ MovementCommands \/ ResourceCommands \/ Work
  \/ \E c \in Catalogs : PublishItems(c)
  \/ (\E c \in Counters : LegacySettle(c)) \/ Backfill

(* A command, once begun, is driven to its end by the request that runs it;*)
(* nothing makes an operator send one.                                     *)
Spec == Init /\ [][Next]_vars /\ WF_vars(Work)
=============================================================================
