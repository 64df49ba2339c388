-------------------------- MODULE GameSessionTypes --------------------------
(* Type correctness of the game session, for every board, catalog and      *)
(* bound: no command and no chain of cell effects leaves the committed     *)
(* state or the working copy outside what its tables can hold.             *)
EXTENDS GameSessionProperties, TLAPS, SequenceTheorems

(* The outcomes a turn can have. *)
OutcomeType == [d: SessionState, todo: Seq(Visit), movement: BOOLEAN,
                travel: TravelStatuses]
Decisions == {"wait", "cancel", "return_turn", "move"}

(* ---------------------------- Paths and visits -------------------------- *)

(* A walk around the board stays on the board, in either direction. *)
LEMMA PathFromType ==
  ASSUME NEW cell \in Cells, NEW direction \in Directions, NEW n \in Nat
  PROVE  PathFrom(cell, direction, n) \in Seq(Cells)
<1>1. \A i \in 1 .. n : /\ (cell + i) % PathLength \in Cells
                        /\ (cell - i) % PathLength \in Cells
  BY SizeAssumption DEF Cells
<1>2. QED BY <1>1 DEF PathFrom

(* The cell a walk ends on is on the board. *)
LEMMA LastCellType ==
  ASSUME NEW path \in Seq(Cells), NEW cell \in Cells
  PROVE  LastCell(path, cell) \in Cells
BY DEF LastCell

(* Landing on a cell is one visit. *)
LEMMA ArrivalType ==
  ASSUME NEW cell \in Cells PROVE ArrivalAt(cell) \in Seq(Visit)
BY DEF ArrivalAt, Visit

(* The cells a walk passes are visits, all but the last. *)
LEMMA PassingType ==
  ASSUME NEW path \in Seq(Cells) PROVE PassingOver(path) \in Seq(Visit)
<1>1. \A i \in 1 .. Len(path) - 1 : path[i] \in Cells
  OBVIOUS
<1>2. \A i \in 1 .. Len(path) - 1 :
        [cell |-> path[i], trigger |-> "pass", next |-> 1] \in Visit
  BY <1>1 DEF Visit
<1>3. CASE Len(path) = 0
  BY <1>3 DEF PassingOver
<1>4. CASE Len(path) > 0
  <2>1. Len(path) - 1 \in Nat
    BY <1>4
  <2>2. QED BY <2>1, <1>2 DEF PassingOver
<1>5. QED BY <1>3, <1>4

(* All the visits of a walk. *)
LEMMA VisitsType ==
  ASSUME NEW path \in Seq(Cells), NEW cell \in Cells
  PROVE  VisitsOf(path, cell) \in Seq(Visit)
BY PassingType, ArrivalType, LastCellType DEF VisitsOf

(* ------------------------------- The turn -------------------------------- *)

(* No lock and no multiplier are a lock and a multiplier. *)
LEMMA AbsenceType == NoLock \in Lock /\ NoModifier \in Modifier
BY DEF NoLock, Lock, NoModifier, Modifier

(* What a throw leaves of the lock is a lock, and its distance a number. *)
LEMMA ThrowsType ==
  ASSUME NEW d \in SessionState, NEW throw \in Throws(d)
  PROVE  throw.lock \in Lock /\ throw.distance \in Nat
<1>1. /\ d.lock \in Lock
      /\ Board[d.board].dice \in Nat \ {0}
      /\ Board[d.board].sides \in Nat \ {0, 1}
  BY BoardAssumption DEF SessionState, BoardType
<1>2. CountDown(d.lock) \in Lock
  BY <1>1, AbsenceType DEF CountDown, Lock
<1>3. Board[d.board].dice * Board[d.board].sides \in Nat
  BY <1>1
<1>4. /\ \A t \in Board[d.board].dice .. Board[d.board].dice * Board[d.board].sides :
           t \in Nat
      /\ \A f \in 1 .. Board[d.board].sides : 2 * f \in Nat
  BY <1>1, <1>3
<1>5. d.lock.type \in {"none", "operator", "skip_rolls", "skip_rolls_or_doubles", "dice_faces"}
  BY <1>1 DEF Lock, ReleaseTypes
<1>6. CASE d.lock.type = "none"
  BY <1>6, <1>1, <1>3, <1>4, AbsenceType DEF Throws
<1>7. CASE d.lock.type = "operator"
  BY <1>7, <1>1 DEF Throws
<1>8. CASE d.lock.type = "skip_rolls"
  BY <1>8, <1>2 DEF Throws
<1>9. CASE d.lock.type = "skip_rolls_or_doubles"
  BY <1>9, <1>1, <1>2, <1>4, AbsenceType DEF Throws
<1>10. CASE d.lock.type = "dice_faces"
  BY <1>10, <1>1, AbsenceType DEF Throws
<1>11. QED BY <1>5, <1>6, <1>7, <1>8, <1>9, <1>10

(* A multiplier that has been used once more is still a multiplier. *)
LEMMA SpendUseType ==
  ASSUME NEW modifier \in Modifier PROVE SpendUse(modifier) \in Modifier
BY AbsenceType DEF SpendUse, Modifier

(* A normal roll has an outcome of the right type. *)
LEMMA NormalRollType ==
  ASSUME NEW d \in SessionState, NEW o \in executeNormalRoll(d)
  PROVE  o \in OutcomeType
<1>1. PICK throw \in Throws(d) : o = Rolled(d, throw)
  BY DEF executeNormalRoll
<1>2. throw.lock \in Lock /\ throw.distance \in Nat
  BY ThrowsType
<1>3. d.modifier \in Modifier /\ d.cell \in Cells /\ d.direction \in Directions
  BY DEF SessionState
<1>4. Travelled(d, throw) \in Nat
  BY <1>2, <1>3 DEF Travelled, Modifier
<1>5. PathFrom(d.cell, d.direction, Travelled(d, throw)) \in Seq(Cells)
  BY <1>3, <1>4, PathFromType
<1>6. LastCell(PathFrom(d.cell, d.direction, Travelled(d, throw)), d.cell) \in Cells
  BY <1>3, <1>5, LastCellType
<1>7. VisitsOf(PathFrom(d.cell, d.direction, Travelled(d, throw)), d.cell) \in Seq(Visit)
  BY <1>3, <1>5, VisitsType
<1>8. (IF throw.distance > 0 THEN SpendUse(d.modifier) ELSE d.modifier) \in Modifier
  BY <1>3, SpendUseType
<1>9. [d EXCEPT !.lock = throw.lock,
                !.modifier = IF throw.distance > 0 THEN SpendUse(@) ELSE @,
                !.cell = LastCell(PathFrom(d.cell, d.direction, Travelled(d, throw)), @)]
        \in SessionState
  BY <1>2, <1>6, <1>8 DEF SessionState
<1>10. QED BY <1>1, <1>7, <1>9 DEF Rolled, Outcome, OutcomeType, TravelStatuses

(* The pending reservation, if there is one, is a task of the session. *)
LEMMA PendingTravelType ==
  ASSUME NEW d \in SessionState, HasTravel(d)
  PROVE  /\ pendingTravel(d) \in PendingTravels(d)
         /\ pendingTravel(d) \in DOMAIN d.tasks
         /\ d.tasks[pendingTravel(d)] \in Task
<1>1. pendingTravel(d) \in PendingTravels(d)
  BY DEF HasTravel, pendingTravel
<1>2. d.tasks \in Seq(Task)
  BY DEF SessionState
<1>3. QED BY <1>1, <1>2 DEF PendingTravels

(* Closing a reservation, or leaving it pending, keeps the session's type. *)
LEMMA ClosedType ==
  ASSUME NEW d \in SessionState, NEW k \in DOMAIN d.tasks, NEW r \in Task,
         NEW status \in {"pending", "resolved", "cancelled"}
  PROVE  Closed(d, k, r, status) \in SessionState
<1>1. [r EXCEPT !.status = status, !.revision = @ + 1] \in Task
  <2>1. r.revision + 1 \in Nat
    BY DEF Task
  <2>2. QED BY <2>1 DEF Task
<1>2. d.tasks \in Seq(Task)
  BY DEF SessionState
<1>3. [d.tasks EXCEPT ![k] = [r EXCEPT !.status = status, !.revision = @ + 1]] \in Seq(Task)
  BY <1>1, <1>2, ExceptSeq
<1>4. QED BY <1>3 DEF Closed, SessionState

(* A decision about a reservation; only a chosen destination is moved to.  *)
LEMMA DecideTravelType ==
  ASSUME NEW r \in Task, NEW paused \in BOOLEAN
  PROVE  /\ decideTravel(r, paused) \in Decisions
         /\ decideTravel(r, paused) = "move" => HoldsTurn(r) /\ HasChoice(r) /\ ~r.cancelled
         /\ decideTravel(r, paused) = "cancel" => r.cancelled /\ ~HoldsTurn(r)
         /\ decideTravel(r, paused) = "return_turn" => r.cancelled /\ HoldsTurn(r)
<1>1. r.cancelled \in BOOLEAN
  BY DEF Task
<1>2. CASE r.cancelled
  BY <1>2 DEF decideTravel, Decisions
<1>3. CASE ~r.cancelled
  BY <1>3 DEF decideTravel, Decisions
<1>4. QED BY <1>2, <1>3

(* The outcomes of a decision have the right type. *)
LEMMA TravelDecisionType ==
  ASSUME NEW d \in SessionState, NEW k \in DOMAIN d.tasks, NEW r \in Task,
         NEW decision \in Decisions, decision = "move" => HasChoice(r),
         NEW o \in applyTravelDecision(d, k, r, decision)
  PROVE  o \in OutcomeType
<1>1. \A s \in {"pending", "resolved", "cancelled"} : Closed(d, k, r, s) \in SessionState
  BY ClosedType
<1>2. <<>> \in Seq(Visit)
  OBVIOUS
<1>3. CASE decision = "wait"
  <2>1. o = Outcome(Closed(d, k, r, "pending"), <<>>, TRUE, "waiting")
    BY <1>3 DEF applyTravelDecision
  <2>2. QED BY <1>1, <1>2, <2>1 DEF Outcome, OutcomeType, TravelStatuses
<1>4. CASE decision = "cancel"
  <2>1. o = Outcome(Closed(d, k, r, "cancelled"), <<>>, FALSE, "cancelled")
    BY <1>4 DEF applyTravelDecision
  <2>2. QED BY <1>1, <1>2, <2>1 DEF Outcome, OutcomeType, TravelStatuses
<1>5. CASE decision = "return_turn"
  <2>1. PICK p \in executeNormalRoll(Closed(d, k, r, "cancelled")) :
          o = [p EXCEPT !.travel = "returned"]
    BY <1>5 DEF applyTravelDecision
  <2>2. p \in OutcomeType
    BY <1>1, <2>1, NormalRollType
  <2>3. QED BY <2>1, <2>2 DEF OutcomeType, TravelStatuses
<1>6. CASE decision = "move"
  <2>1. r.selected \in Cells
    BY <1>6 DEF HasChoice, Task
  <2>2. ArrivalAt(r.selected) \in Seq(Visit)
    BY <2>1, ArrivalType
  <2>3. [Closed(d, k, r, "resolved") EXCEPT !.cell = r.selected] \in SessionState
    BY <1>1, <2>1 DEF SessionState
  <2>4. o = Outcome([Closed(d, k, r, "resolved") EXCEPT !.cell = r.selected],
                    IF r.onArrival THEN ArrivalAt(r.selected) ELSE <<>>, TRUE, "moved")
    BY <1>6 DEF applyTravelDecision, Trips, Trip
  <2>5. QED BY <1>2, <2>2, <2>3, <2>4 DEF Outcome, OutcomeType, TravelStatuses
<1>7. QED BY <1>3, <1>4, <1>5, <1>6 DEF Decisions

(* A turn, normal or travelled, has an outcome of the right type. *)
LEMMA RollTurnType ==
  ASSUME NEW d \in SessionState, NEW o \in executeRollTurn(d)
  PROVE  o \in OutcomeType
<1> DEFINE k == pendingTravel(d)
           held == d.tasks[k]
           r == IF HoldsTurn(held) THEN held ELSE reserveTravelTurn(held, d.revision + 1)
<1>1. CASE ~HasTravel(d) \/ Locked(d)
  BY <1>1, NormalRollType DEF executeRollTurn
<1>2. CASE HasTravel(d) /\ ~Locked(d)
  <2>1. k \in DOMAIN d.tasks /\ held \in Task
    BY <1>2, PendingTravelType
  <2>2. d.revision + 1 \in Nat
    BY DEF SessionState
  <2>3. r \in Task
    BY <2>1, <2>2 DEF reserveTravelTurn, Task
  <2>4. decideTravel(r, FALSE) \in Decisions
          /\ (decideTravel(r, FALSE) = "move" => HasChoice(r))
    BY <2>3, DecideTravelType
  <2>5. o \in applyTravelDecision(d, k, r, decideTravel(r, FALSE))
    BY <1>2 DEF executeRollTurn
  <2>6. QED BY <2>1, <2>3, <2>4, <2>5, TravelDecisionType
<1>3. QED BY <1>1, <1>2

(* ------------------------------ The commands ----------------------------- *)

(* A command that begins with an outcome opens a transaction. *)
LEMMA BeginType ==
  ASSUME NEW type \in CommandTypes, NEW o \in OutcomeType, TypeOK, Begin(type, o)
  PROVE  TypeOK'
<1>1. <<>> \in Seq(Task) /\ 0 \in Nat
  OBVIOUS
<1>2. tx' \in Transaction
  BY <1>1 DEF Begin, Transaction, OutcomeType
<1>3. QED BY <1>2 DEF TypeOK, Begin

(* A command that only changes the state opens a transaction. *)
LEMMA ChangeType ==
  ASSUME NEW type \in CommandTypes, NEW d \in SessionState, TypeOK, Change(type, d)
  PROVE  TypeOK'
<1>1. Outcome(d, <<>>, FALSE, "none") \in OutcomeType
  BY DEF Outcome, OutcomeType, TravelStatuses
<1>2. QED BY <1>1, BeginType DEF Change

(* Moving an item keeps its stock and its ledger well formed. *)
LEMMA MovedType ==
  ASSUME NEW d \in SessionState, NEW i \in Items, NEW delta \in Int,
         d.stock[i].quantity + delta >= 0
  PROVE  Moved(d, i, delta) \in SessionState
<1>1. d.stock[i] \in Stock /\ d.ledger[i] \in Seq(LedgerRow)
  BY DEF SessionState
<1>2. d.stock[i].quantity + delta \in Nat /\ d.stock[i].revision + 1 \in Nat
  BY <1>1 DEF Stock
<1>3. [quantity |-> d.stock[i].quantity + delta,
       revision |-> d.stock[i].revision + 1] \in Stock
  BY <1>2 DEF Stock
<1>4. [before |-> d.stock[i].quantity, delta |-> delta,
       after |-> d.stock[i].quantity + delta,
       revision |-> d.stock[i].revision + 1] \in LedgerRow
  BY <1>1, <1>2 DEF Stock, LedgerRow
<1>5. Append(d.ledger[i], [before |-> d.stock[i].quantity, delta |-> delta,
                           after |-> d.stock[i].quantity + delta,
                           revision |-> d.stock[i].revision + 1]) \in Seq(LedgerRow)
  BY <1>1, <1>4
<1>6. QED BY <1>3, <1>5 DEF Moved, SessionState

(* A mission is resolved, and its counter never pays more than it holds. *)
LEMMA ResolvedType ==
  ASSUME NEW d \in SessionState, NEW m \in DOMAIN d.missions,
         NEW status \in {"completed", "waived", "shielded"},
         d.missions[m].settles = "mission_completion"
           => d.counters[d.missions[m].counter] >= d.missions[m].amount
  PROVE  Resolved(d, m, status) \in SessionState
<1>1. d.missions \in Seq(Mission) /\ d.counters \in [Counters -> Nat]
  BY DEF SessionState
<1>2. d.missions[m] \in Mission
  BY <1>1
<1>3. [d.missions[m] EXCEPT !.status = status] \in Mission
  BY <1>2 DEF Mission, MissionRow
<1>4. [d.missions EXCEPT ![m] = [d.missions[m] EXCEPT !.status = status]] \in Seq(Mission)
  BY <1>1, <1>3, ExceptSeq
<1>5. (IF d.missions[m].settles = "mission_completion"
       THEN [d.counters EXCEPT ![d.missions[m].counter] = @ - d.missions[m].amount]
       ELSE d.counters) \in [Counters -> Nat]
  <2>1. CASE d.missions[m].settles = "mission_completion"
    <3>1. d.missions[m].counter \in Counters /\ d.missions[m].amount \in Nat
      BY <2>1, <1>2 DEF Mission, MissionRow
    <3>2. d.counters[d.missions[m].counter] - d.missions[m].amount \in Nat
      BY <2>1, <3>1, <1>1
    <3>3. QED BY <2>1, <3>1, <3>2, <1>1
  <2>2. CASE d.missions[m].settles # "mission_completion"
    BY <2>2, <1>1
  <2>3. QED BY <2>1, <2>2
<1> DEFINE missions == [d.missions EXCEPT ![m] = [d.missions[m] EXCEPT !.status = status]]
           counters == IF d.missions[m].settles = "mission_completion"
                       THEN [d.counters EXCEPT ![d.missions[m].counter] =
                               @ - d.missions[m].amount]
                       ELSE d.counters
<1>6. Resolved(d, m, status) = [d EXCEPT !.missions = missions, !.counters = counters]
  BY DEF Resolved
<1> HIDE DEF missions, counters
<1>7. missions \in Seq(Mission) /\ counters \in [Counters -> Nat]
  BY <1>4, <1>5 DEF missions, counters
<1>8. QED BY <1>6, <1>7 DEF SessionState

(* A turn's outcome is begun, whatever command takes the turn. *)
LEMMA DecisionBeginsType ==
  ASSUME TypeOK, NEW d \in SessionState, NEW k \in DOMAIN d.tasks, NEW r \in Task,
         NEW paused \in BOOLEAN, NEW type \in CommandTypes,
         \E o \in applyTravelDecision(d, k, r, decideTravel(r, paused)) : Begin(type, o)
  PROVE  TypeOK'
<1>1. decideTravel(r, paused) \in Decisions
        /\ (decideTravel(r, paused) = "move" => HasChoice(r))
  BY DecideTravelType
<1>2. PICK o \in applyTravelDecision(d, k, r, decideTravel(r, paused)) : Begin(type, o)
  OBVIOUS
<1>3. o \in OutcomeType
  BY <1>1, <1>2, TravelDecisionType
<1>4. QED BY <1>2, <1>3, BeginType

(* The pawn, the pause and the status can be set to any legal value. *)
LEMMA PlacedType ==
  ASSUME NEW d \in SessionState, NEW c \in Cells, NEW s \in Statuses, NEW a \in BOOLEAN
  PROVE  [d EXCEPT !.cell = c, !.auto = a, !.status = s] \in SessionState
BY DEF SessionState

(* Every movement command of the operator keeps the types. *)
LEMMA MovementCommandsType == TypeOK /\ MovementCommands => TypeOK'
<1> SUFFICES ASSUME TypeOK, MovementCommands PROVE TypeOK'
  OBVIOUS
<1>1. db \in SessionState
  BY DEF TypeOK
<1>2. ASSUME roll_dice PROVE TypeOK'
  <2>1. PICK o \in executeRollTurn(db) : Begin("roll_dice", o)
    BY <1>2 DEF roll_dice
  <2>2. o \in OutcomeType
    BY <1>1, <2>1, RollTurnType
  <2>3. QED BY <2>1, <2>2, BeginType DEF CommandTypes
<1>3. ASSUME NEW direction \in Directions, set_direction(direction) PROVE TypeOK'
  <2>1. [db EXCEPT !.direction = direction] \in SessionState
    BY <1>1 DEF SessionState
  <2>2. QED BY <1>3, <2>1, ChangeType DEF set_direction, CommandTypes
<1>4. ASSUME NEW c \in Cells, NEW t \in BOOLEAN, set_position(c, t) PROVE TypeOK'
  <2> DEFINE d == [db EXCEPT !.cell = c, !.auto = TRUE, !.status = "paused"]
             visits == IF t THEN ArrivalAt(c) ELSE <<>>
  <2>1. d \in SessionState
    BY <1>1, PlacedType DEF Statuses
  <2>2. visits \in Seq(Visit)
    BY ArrivalType
  <2>3. Outcome(d, visits, FALSE, "none") \in OutcomeType
    BY <2>1, <2>2 DEF Outcome, OutcomeType, TravelStatuses
  <2>4. QED BY <1>4, <2>3, BeginType DEF set_position, CommandTypes
<1>5. ASSUME pause PROVE TypeOK'
  <2>1. [db EXCEPT !.status = "paused", !.auto = TRUE] \in SessionState
    BY <1>1 DEF SessionState, Statuses
  <2>2. QED BY <1>5, <2>1, ChangeType DEF pause, CommandTypes
<1>6. ASSUME resume PROVE TypeOK'
  <2> DEFINE d == [db EXCEPT !.status = "running", !.auto = FALSE]
             k == pendingTravel(db)
  <2>1. d \in SessionState /\ d.tasks = db.tasks
    BY <1>1 DEF SessionState, Statuses
  <2>2. CASE HasTravel(db) /\ ~Locked(db) /\ HoldsTurn(db.tasks[k])
    <3>1. k \in DOMAIN d.tasks /\ db.tasks[k] \in Task
      BY <1>1, <2>1, <2>2, PendingTravelType
    <3>2. \E o \in applyTravelDecision(d, k, db.tasks[k], decideTravel(db.tasks[k], FALSE)) :
             Begin("resume", o)
      BY <1>6, <2>2 DEF resume
    <3>3. "resume" \in CommandTypes /\ FALSE \in BOOLEAN
      BY DEF CommandTypes
    <3>4. QED BY <2>1, <3>1, <3>2, <3>3, DecisionBeginsType
  <2>3. CASE ~(HasTravel(db) /\ ~Locked(db) /\ HoldsTurn(db.tasks[k]))
    <3>1. Change("resume", d)
      BY <1>6, <2>3 DEF resume
    <3>2. QED BY <2>1, <3>1, ChangeType DEF CommandTypes
  <2>4. QED BY <2>2, <2>3
<1>7. ASSUME end_session PROVE TypeOK'
  <2>1. [db EXCEPT !.status = "ended", !.auto = TRUE] \in SessionState
    BY <1>1 DEF SessionState, Statuses
  <2>2. QED BY <1>7, <2>1, ChangeType DEF end_session, CommandTypes
<1>8. HasTravel(db) => /\ pendingTravel(db) \in DOMAIN db.tasks
                       /\ db.tasks[pendingTravel(db)] \in Task
  BY <1>1, PendingTravelType
<1>9. HeldBack \in BOOLEAN
  BY DEF HeldBack
<1>10. ASSUME NEW c \in Cells, choose_destination(c) PROVE TypeOK'
  <2> DEFINE k == pendingTravel(db)
             r == [db.tasks[k] EXCEPT !.selected = c]
  <2>1. k \in DOMAIN db.tasks /\ r \in Task
    BY <1>8, <1>10 DEF choose_destination, Task
  <2>2. \E o \in applyTravelDecision(db, k, r, decideTravel(r, HeldBack)) :
           Begin("choose_destination", o)
    BY <1>10 DEF choose_destination
  <2>3. "choose_destination" \in CommandTypes
    BY DEF CommandTypes
  <2>4. QED BY <1>1, <1>9, <2>1, <2>2, <2>3, DecisionBeginsType
<1>11. ASSUME NEW c \in Cells, travel_now(c) PROVE TypeOK'
  <2> DEFINE k == pendingTravel(db)
             chosen == [db.tasks[k] EXCEPT !.selected = c]
             r == moveTravelNow(chosen, db.revision + 1)
  <2>1. k \in DOMAIN db.tasks /\ chosen \in Task
    BY <1>8, <1>11 DEF travel_now, Task
  <2>2. db.revision + 1 \in Nat
    BY <1>1 DEF SessionState
  <2>3. r \in Task
    BY <2>1, <2>2 DEF moveTravelNow, reserveTravelTurn, Task
  <2>4. \E o \in applyTravelDecision(db, k, r, decideTravel(r, FALSE)) :
           Begin("choose_destination", o)
    BY <1>11 DEF travel_now
  <2>5. "choose_destination" \in CommandTypes /\ FALSE \in BOOLEAN
    BY DEF CommandTypes
  <2>6. QED BY <1>1, <2>1, <2>3, <2>4, <2>5, DecisionBeginsType
<1>12. ASSUME cancel_destination PROVE TypeOK'
  <2> DEFINE k == pendingTravel(db)
             r == [db.tasks[k] EXCEPT !.cancelled = TRUE]
  <2>1. k \in DOMAIN db.tasks /\ r \in Task
    BY <1>8, <1>12 DEF cancel_destination, Task
  <2>2. \E o \in applyTravelDecision(db, k, r, decideTravel(r, HeldBack)) :
           Begin("cancel_destination", o)
    BY <1>12 DEF cancel_destination
  <2>3. "cancel_destination" \in CommandTypes
    BY DEF CommandTypes
  <2>4. QED BY <1>1, <1>9, <2>1, <2>2, <2>3, DecisionBeginsType
<1>13. ASSUME clear_movement_lock PROVE TypeOK'
  <2>1. [db EXCEPT !.lock = NoLock] \in SessionState
    BY <1>1, AbsenceType DEF SessionState
  <2>2. QED BY <1>13, <2>1, ChangeType DEF clear_movement_lock, CommandTypes
<1>14. ASSUME clear_roll_modifier PROVE TypeOK'
  <2>1. [db EXCEPT !.modifier = NoModifier] \in SessionState
    BY <1>1, AbsenceType DEF SessionState
  <2>2. QED BY <1>14, <2>1, ChangeType DEF clear_roll_modifier, CommandTypes
<1>15. ASSUME NEW n \in Quantities, set_movement_lock_remaining(n) PROVE TypeOK'
  <2>1. n \in Nat
    BY SizeAssumption
  <2>2. [db.lock EXCEPT !.left = n] \in Lock
    BY <1>1, <2>1 DEF SessionState, Lock
  <2>3. [db EXCEPT !.lock.left = n] \in SessionState
    BY <1>1, <2>2 DEF SessionState
  <2>4. QED BY <1>15, <2>3, ChangeType DEF set_movement_lock_remaining, CommandTypes
<1>16. ASSUME NEW b \in BoardIds, apply_board_version(b) PROVE TypeOK'
  <2>1. [db EXCEPT !.board = b] \in SessionState
    BY <1>1 DEF SessionState
  <2>2. QED BY <1>16, <2>1, ChangeType DEF apply_board_version, CommandTypes
<1>17. QED BY <1>2, <1>3, <1>4, <1>5, <1>6, <1>7, <1>10, <1>11, <1>12, <1>13, <1>14,
              <1>15, <1>16 DEF MovementCommands

(* Every command that changes counters, stock or missions keeps the types. *)
LEMMA ResourceCommandsType == TypeOK /\ ResourceCommands => TypeOK'
<1> SUFFICES ASSUME TypeOK, ResourceCommands PROVE TypeOK'
  OBVIOUS
<1>1. db \in SessionState
  BY DEF TypeOK
<1>2. ASSUME NEW c \in Counters, NEW n \in Quantities, adjust_counter(c, n) PROVE TypeOK'
  <2>1. n \in Nat
    BY SizeAssumption
  <2>2. db.counters[c] \in Nat /\ db.credited[c] \in Int
    BY <1>1 DEF SessionState
  <2>3. db.credited[c] + n - db.counters[c] \in Int
    BY <2>1, <2>2
  <2>4. [db EXCEPT !.counters[c] = n, !.credited[c] = @ + n - db.counters[c]] \in SessionState
    BY <1>1, <2>1, <2>3 DEF SessionState
  <2>5. QED BY <1>2, <2>4, ChangeType DEF adjust_counter, CommandTypes
<1>3. ASSUME NEW i \in Items, NEW delta \in Int, adjust_inventory(i, delta) PROVE TypeOK'
  <2>1. db.stock[i].quantity + delta >= 0
    BY <1>3 DEF adjust_inventory
  <2>2. Moved(db, i, delta) \in SessionState
    BY <1>1, <2>1, MovedType
  <2>3. QED BY <1>3, <2>2, ChangeType DEF adjust_inventory, CommandTypes
<1>4. ASSUME NEW m \in DOMAIN db.missions, complete_mission(m) PROVE TypeOK'
  <2>1. Resolved(db, m, "completed") \in SessionState
    BY <1>1, <1>4, ResolvedType DEF complete_mission, Resolvable
  <2>2. QED BY <1>4, <2>1, ChangeType DEF complete_mission, CommandTypes
<1>5. ASSUME NEW m \in DOMAIN db.missions, waive_mission(m) PROVE TypeOK'
  <2>1. Resolved(db, m, "waived") \in SessionState
    BY <1>1, <1>5, ResolvedType DEF waive_mission, Resolvable
  <2>2. QED BY <1>5, <2>1, ChangeType DEF waive_mission, CommandTypes
<1>6. ASSUME NEW m \in DOMAIN db.missions, use_shield(m) PROVE TypeOK'
  <2> DEFINE i == db.missions[m].shield
             cost == db.missions[m].cost
             paid == Moved(db, i, 0 - cost)
  <2>1. db.missions[m] \in Mission
    BY <1>1 DEF SessionState
  <2>2. i \in Items /\ cost \in Nat
    BY <1>6, <2>1 DEF use_shield, Mission, MissionRow
  <2>3. db.stock[i].quantity \in Nat /\ db.stock[i].quantity >= cost
    BY <1>1, <1>6, <2>2 DEF use_shield, SessionState, Stock
  <2>4. 0 - cost \in Int /\ db.stock[i].quantity + (0 - cost) >= 0
    BY <2>2, <2>3
  <2>5. paid \in SessionState
    BY <1>1, <2>2, <2>4, MovedType
  <2>6. paid.missions = db.missions /\ paid.counters = db.counters
    BY <1>1 DEF Moved, SessionState
  <2>7. Resolved(paid, m, "shielded") \in SessionState
    BY <1>6, <2>5, <2>6, ResolvedType DEF use_shield, Resolvable
  <2>8. QED BY <1>6, <2>7, ChangeType DEF use_shield, CommandTypes
<1>7. \A n \in Quantities : n \in Int /\ 0 - n \in Int
  BY SizeAssumption
<1>8. QED BY <1>2, <1>3, <1>4, <1>5, <1>6, <1>7 DEF ResourceCommands

(* ------------------------------ Cell effects ----------------------------- *)

(* The visit on top of the stack, and the effect it comes to, are typed.   *)
LEMMA CurrentEffectType ==
  ASSUME TypeOK, Executing
  PROVE  /\ tx \in Transaction
         /\ Top \in Visit /\ Tail(tx.todo) \in Seq(Visit)
         /\ CurrentEffect \in Effect
<1>1. tx \in Transaction /\ tx.todo # <<>>
  BY DEF TypeOK, Executing
<1>2. tx.d \in SessionState /\ tx.todo \in Seq(Visit)
  BY <1>1 DEF Transaction
<1>3. Top \in Visit /\ Tail(tx.todo) \in Seq(Visit)
  BY <1>1, <1>2, HeadTailProperties DEF Top
<1>4. Board[tx.d.board] \in BoardType
  BY <1>2, BoardAssumption DEF SessionState
<1>5. EffectsAt(tx.d, Top) \in Seq(Effect)
  <2>1. PassEffect \subseteq Effect
    BY DEF PassEffect
  <2>2. Seq(PassEffect) \subseteq Seq(Effect)
    BY <2>1
  <2>3. QED BY <1>3, <1>4, <2>2 DEF EffectsAt, BoardType, Visit
<1>6. Top.next \in 1 .. Len(EffectsAt(tx.d, Top))
  BY <1>3, <1>5 DEF Executing, Visit
<1>7. CurrentEffect \in Effect
  BY <1>5, <1>6 DEF CurrentEffect
<1>8. QED BY <1>1, <1>3, <1>7

(* The transaction after an effect that leaves a legal state. *)
LEMMA EffectedType ==
  ASSUME TypeOK, Executing, NEW d \in SessionState, NEW visits \in Seq(Visit)
  PROVE  Effected(d, visits) \in Transaction
<1>1. tx \in Transaction /\ Top \in Visit /\ Tail(tx.todo) \in Seq(Visit)
  BY CurrentEffectType
<1>2. [Top EXCEPT !.next = @ + 1] \in Visit
  BY <1>1 DEF Visit
<1>3. <<[Top EXCEPT !.next = @ + 1]>> \in Seq(Visit)
  BY <1>2
<1>4. visits \o <<[Top EXCEPT !.next = @ + 1]>> \o Tail(tx.todo) \in Seq(Visit)
  BY <1>1, <1>3
<1>5. tx.index + 1 \in Nat
  BY <1>1 DEF Transaction
<1>6. QED BY <1>1, <1>4, <1>5 DEF Effected, Transaction

(* An effect that only changes the state keeps the types. *)
LEMMA DoneType ==
  ASSUME TypeOK, Executing, NEW d \in SessionState, Done(d)
  PROVE  TypeOK'
<1>1. <<>> \in Seq(Visit)
  OBVIOUS
<1>2. tx' \in Transaction
  BY <1>1, EffectedType DEF Done
<1>3. QED BY <1>2 DEF TypeOK, Done

(* A mission that settles nothing, and one that settles an amount.         *)
LEMMA NewMissionType ==
  ASSUME NEW shield \in Items \cup {NoItem}, NEW cost \in Nat
  PROVE  /\ NewMission(shield, cost, NoCounter, 0, "never") \in Mission
         /\ \A c \in Counters, n \in Nat, s \in {"creation", "mission_completion"} :
              NewMission(shield, cost, c, n, s) \in Mission
BY CatalogAssumption DEF NewMission, Mission, MissionRow

(* Every effect of a cell keeps the types. *)
LEMMA EffectsType == TypeOK /\ Effects => TypeOK'
<1> SUFFICES ASSUME TypeOK, Effects PROVE TypeOK'
  OBVIOUS
<1> DEFINE e == CurrentEffect
<1>1. tx # Idle => tx \in Transaction /\ tx.d \in SessionState
  BY DEF TypeOK, Transaction
<1>2. \A type : Runs(type) => Executing /\ e.type = type /\ ~Fails(e)
  BY DEF Runs
<1>3. Executing => tx # Idle /\ e \in Effect
  BY CurrentEffectType DEF Executing
<1>4. ASSUME EffectNone PROVE TypeOK'
  BY <1>1, <1>2, <1>3, <1>4, DoneType DEF EffectNone
<1>5. ASSUME EffectMission PROVE TypeOK'
  <2>1. e.type = "mission" /\ Executing
    BY <1>2, <1>5 DEF EffectMission
  <2>2. e.shield \in Items \cup {NoItem} /\ e.cost \in Nat
    BY <1>3, <2>1 DEF Effect
  <2>3. Append(tx.d.missions, NewMission(e.shield, e.cost, NoCounter, 0, "never")) \in Seq(Mission)
    BY <1>1, <1>3, <2>1, <2>2, NewMissionType DEF SessionState
  <2>4. [tx.d EXCEPT !.missions =
           Append(@, NewMission(e.shield, e.cost, NoCounter, 0, "never"))] \in SessionState
    BY <1>1, <1>3, <2>1, <2>3 DEF SessionState
  <2>5. QED BY <1>5, <2>1, <2>4, DoneType DEF EffectMission
<1>6. ASSUME EffectSetDirection PROVE TypeOK'
  <2>1. e.type = "set_direction" /\ Executing
    BY <1>2, <1>6 DEF EffectSetDirection
  <2>2. e.direction \in Directions \cup {"toggle"}
    BY <1>3, <2>1 DEF Effect
  <2>3. (IF e.direction = "toggle" THEN Opposite(tx.d.direction) ELSE e.direction) \in Directions
    BY <2>2 DEF Opposite, Directions
  <2>4. [tx.d EXCEPT !.direction =
           IF e.direction = "toggle" THEN Opposite(@) ELSE e.direction] \in SessionState
    BY <1>1, <1>3, <2>1, <2>3 DEF SessionState
  <2>5. QED BY <1>6, <2>1, <2>4, DoneType DEF EffectSetDirection
<1>7. ASSUME EffectCounterAdd PROVE TypeOK'
  <2>1. e.type = "counter_add" /\ Executing
    BY <1>2, <1>7 DEF EffectCounterAdd
  <2>2. e.counter \in Counters /\ e.quantity \in Nat
    BY <1>3, <2>1 DEF Effect
  <2>3. /\ tx.d.counters[e.counter] + e.quantity \in Nat
        /\ tx.d.credited[e.counter] + e.quantity \in Int
    <3>1. tx.d.counters \in [Counters -> Nat] /\ tx.d.credited \in [Counters -> Int]
      BY <1>1, <1>3, <2>1 DEF SessionState
    <3>2. tx.d.counters[e.counter] \in Nat /\ tx.d.credited[e.counter] \in Int
      BY <2>2, <3>1
    <3>3. QED BY <2>2, <3>2
  <2>4. [tx.d EXCEPT !.counters[e.counter] = @ + e.quantity,
                     !.credited[e.counter] = @ + e.quantity] \in SessionState
    BY <1>1, <1>3, <2>1, <2>3 DEF SessionState
  <2>5. QED BY <1>7, <2>1, <2>4, DoneType DEF EffectCounterAdd
<1>8. ASSUME EffectCounterSettle PROVE TypeOK'
  <2> DEFINE amount == Unreserved(tx.d, e.counter)
             settled == NewMission(e.shield, e.cost, e.counter, amount, "creation")
  <2>1. e.type = "counter_settle" /\ Executing
    BY <1>2, <1>8 DEF EffectCounterSettle
  <2>2. e.counter \in Counters /\ e.shield \in Items \cup {NoItem} /\ e.cost \in Nat
    BY <1>3, <2>1 DEF Effect
  <2>3. CASE amount \in 1 .. tx.d.counters[e.counter]
    <3>1. amount \in Nat /\ tx.d.counters[e.counter] - amount \in Nat
      BY <1>1, <1>3, <2>1, <2>2, <2>3 DEF SessionState
    <3>2. settled \in Mission
      BY <2>2, <3>1, NewMissionType
    <3>3. Append(tx.d.missions, settled) \in Seq(Mission)
      BY <1>1, <1>3, <2>1, <3>2 DEF SessionState
    <3>4. [tx.d EXCEPT !.counters[e.counter] = @ - amount,
                       !.missions = Append(@, settled)] \in SessionState
      BY <1>1, <1>3, <2>1, <3>1, <3>3 DEF SessionState
    <3>5. QED BY <1>8, <2>1, <2>3, <3>4, DoneType DEF EffectCounterSettle
  <2>4. CASE amount \notin 1 .. tx.d.counters[e.counter]
    BY <1>1, <1>3, <1>8, <2>1, <2>4, DoneType DEF EffectCounterSettle
  <2>5. QED BY <2>3, <2>4
<1>9. ASSUME EffectModifyRoll PROVE TypeOK'
  <2>1. e.type = "modify_roll" /\ Executing
    BY <1>2, <1>9 DEF EffectModifyRoll
  <2>2. [factor |-> e.factor, uses |-> e.uses] \in Modifier
    BY <1>3, <2>1 DEF Effect, Modifier
  <2>3. [tx.d EXCEPT !.modifier = [factor |-> e.factor, uses |-> e.uses]] \in SessionState
    BY <1>1, <1>3, <2>1, <2>2 DEF SessionState
  <2>4. QED BY <1>9, <2>1, <2>3, DoneType DEF EffectModifyRoll
<1>10. ASSUME EffectGrantItem PROVE TypeOK'
  <2>1. e.type = "grant_item" /\ Executing
    BY <1>2, <1>10 DEF EffectGrantItem
  <2>2. e.item \in Items /\ e.quantity \in Nat
    BY <1>3, <2>1 DEF Effect
  <2>3. tx.d.stock[e.item].quantity + e.quantity >= 0 /\ e.quantity \in Int
    BY <1>1, <1>3, <2>1, <2>2 DEF SessionState, Stock
  <2>4. Moved(tx.d, e.item, e.quantity) \in SessionState
    BY <1>1, <1>3, <2>1, <2>2, <2>3, MovedType
  <2>5. QED BY <1>10, <2>1, <2>4, DoneType DEF EffectGrantItem
<1>11. ASSUME EffectMoveSteps PROVE TypeOK'
  <2> DEFINE direction == CASE e.direction = "with_current" -> tx.d.direction
                            [] e.direction = "against_current" -> Opposite(tx.d.direction)
                            [] OTHER -> e.direction
             path == PathFrom(tx.d.cell, direction, e.steps)
             arrival == LastCell(path, tx.d.cell)
             visits == (IF e.onPass THEN PassingOver(path) ELSE <<>>)
                         \o (IF e.onArrival THEN ArrivalAt(arrival) ELSE <<>>)
             d == [tx.d EXCEPT !.cell = arrival]
  <2>1. e.type = "move_steps" /\ Executing
    BY <1>2, <1>11 DEF EffectMoveSteps
  <2>2. /\ e.steps \in Nat
        /\ e.direction \in Directions \cup {"with_current", "against_current"}
    BY <1>3, <2>1 DEF Effect
  <2>3. tx.d.cell \in Cells /\ tx.d.direction \in Directions
    BY <1>1, <1>3, <2>1 DEF SessionState
  <2>4. direction \in Directions
    BY <2>2, <2>3 DEF Directions, Opposite
  <2>5. path \in Seq(Cells)
    BY <2>2, <2>3, <2>4, PathFromType
  <2>6. arrival \in Cells
    BY <2>3, <2>5, LastCellType
  <2>7. visits \in Seq(Visit)
    <3>1. PassingOver(path) \in Seq(Visit) /\ ArrivalAt(arrival) \in Seq(Visit)
      BY <2>5, <2>6, PassingType, ArrivalType
    <3>2. QED BY <3>1
  <2>8. d \in SessionState
    BY <1>1, <1>3, <2>1, <2>6 DEF SessionState
  <2>9. Effected(d, visits) \in Transaction
    BY <2>1, <2>7, <2>8, EffectedType
  <2>10. tx' = [Effected(d, visits) EXCEPT !.steps = @ + e.steps] /\ UNCHANGED db
    BY <1>11 DEF EffectMoveSteps
  <2> HIDE DEF d, visits
  <2>11. tx' \in Transaction
    BY <2>2, <2>9, <2>10 DEF Transaction
  <2>12. QED BY <2>10, <2>11 DEF TypeOK
<1>12. ASSUME EffectChooseDestination PROVE TypeOK'
  <2> DEFINE reservation ==
        [kind |-> "choose_destination", status |-> "pending", revision |-> 0,
         selected |-> NoCell, turn |-> NoTurn, cancelled |-> FALSE,
         allowed |-> e.allowed, exclude |-> e.exclude, onArrival |-> e.onArrival]
  <2>1. e.type = "choose_destination" /\ Executing
    BY <1>2, <1>12 DEF EffectChooseDestination
  <2>2. e.allowed \in SUBSET Cells /\ e.exclude \in BOOLEAN /\ e.onArrival \in BOOLEAN
    BY <1>3, <2>1 DEF Effect
  <2>3. reservation \in Task
    BY <2>2 DEF Task, NoTurn
  <2>4. Effected(tx.d, <<>>) \in Transaction
    <3>1. <<>> \in Seq(Visit)
      OBVIOUS
    <3>2. QED BY <1>1, <1>3, <2>1, <3>1, EffectedType
  <2>5. tx' = [Effected(tx.d, <<>>) EXCEPT !.travels = Append(@, reservation)] /\ UNCHANGED db
    BY <1>12 DEF EffectChooseDestination
  <2> HIDE DEF reservation
  <2>6. tx' \in Transaction
    <3>1. Append(Effected(tx.d, <<>>).travels, reservation) \in Seq(Task)
      BY <2>3, <2>4 DEF Transaction
    <3>2. QED BY <2>4, <2>5, <3>1 DEF Transaction
  <2>7. QED BY <2>5, <2>6 DEF TypeOK
<1>13. ASSUME EffectMovementLock PROVE TypeOK'
  <2>1. e.type = "movement_lock" /\ Executing
    BY <1>2, <1>13 DEF EffectMovementLock
  <2>2. e.release \in Lock
    BY <1>3, <2>1 DEF Effect
  <2>3. [tx.d EXCEPT !.lock = e.release] \in SessionState
    BY <1>1, <1>3, <2>1, <2>2 DEF SessionState
  <2>4. QED BY <1>13, <2>1, <2>3, DoneType DEF EffectMovementLock
<1>14. ASSUME LeaveCell PROVE TypeOK'
  <2>1. tx \in Transaction /\ tx.todo \in Seq(Visit) /\ tx.todo # <<>>
    BY <1>1, <1>14 DEF LeaveCell, Transaction
  <2>2. Tail(tx.todo) \in Seq(Visit)
    BY <2>1, HeadTailProperties
  <2>3. tx' \in Transaction
    BY <1>14, <2>1, <2>2 DEF LeaveCell, Transaction
  <2>4. QED BY <1>14, <2>3 DEF LeaveCell, TypeOK
<1>15. QED BY <1>4, <1>5, <1>6, <1>7, <1>8, <1>9, <1>10, <1>11, <1>12, <1>13, <1>14 DEF Effects

(* ------------------------- The other steps, and Spec --------------------- *)

(* A commit, a rollback, a new session, a publication, the older release   *)
(* and the migration keep the types. *)
LEMMA OtherStepsType ==
  ASSUME TypeOK
  PROVE  /\ Commit => TypeOK'
         /\ Rollback => TypeOK'
         /\ \A c \in Cells, d \in Directions, b \in BoardIds : createSession(c, d, b) => TypeOK'
         /\ \A c \in Catalogs : PublishItems(c) => TypeOK'
         /\ \A c \in Counters : LegacySettle(c) => TypeOK'
         /\ Backfill => TypeOK'
<1>1. db \in SessionState
  BY DEF TypeOK
<1>2. Idle \in Transaction \cup {Idle}
  OBVIOUS
<1>3. ASSUME Commit PROVE TypeOK'
  <2>1. tx \in Transaction
    BY <1>3 DEF Commit, Finished, TypeOK
  <2>2. tx.d \in SessionState /\ tx.travels \in Seq(Task)
    BY <2>1 DEF Transaction
  <2>3. tx.d.tasks \o tx.travels \in Seq(Task)
    BY <2>2 DEF SessionState
  <2>4. [type |-> tx.type, movement |-> tx.movement, travel |-> tx.travel] \in Result
    BY <2>1 DEF Transaction, Result
  <2>5. /\ tx.d.revision + 1 \in Nat
        /\ (IF InvalidatesPresentation THEN tx.d.presentation + 1 ELSE tx.d.presentation) \in Nat
    BY <2>2 DEF SessionState
  <2>6. db' = [tx.d EXCEPT !.revision = tx.d.revision + 1,
                           !.presentation = IF InvalidatesPresentation
                                            THEN tx.d.presentation + 1 ELSE tx.d.presentation,
                           !.tasks = tx.d.tasks \o tx.travels,
                           !.last = [type |-> tx.type, movement |-> tx.movement,
                                     travel |-> tx.travel]]
    BY <1>3, <2>2 DEF Commit, SessionState
  <2>7. db' \in SessionState
    BY <2>2, <2>3, <2>4, <2>5, <2>6 DEF SessionState
  <2>8. QED BY <1>2, <1>3, <2>7 DEF Commit, TypeOK
<1>4. ASSUME Rollback PROVE TypeOK'
  BY <1>1, <1>4 DEF Rollback, TypeOK
<1>5. ASSUME NEW c \in Cells, NEW d \in Directions, NEW b \in BoardIds, createSession(c, d, b)
      PROVE  TypeOK'
  <2>1. db.session + 1 \in Nat /\ db.catalog \in Catalog
    BY <1>1 DEF SessionState
  <2>2. /\ [i \in Items |-> [quantity |-> 0, revision |-> 0]] \in [Items -> Stock]
        /\ [i \in Items |-> <<>>] \in [Items -> Seq(LedgerRow)]
        /\ InitialCounter \in [Counters -> Nat] /\ InitialCounter \in [Counters -> Int]
    BY CatalogAssumption DEF Stock
  <2>3. [type |-> "create_session", movement |-> FALSE, travel |-> "none"] \in Result
    BY DEF Result, CommandTypes, TravelStatuses
  <2>4. Fresh(c, d, b) \in SessionState
    BY <2>1, <2>2, <2>3, AbsenceType DEF Fresh, SessionState, Statuses
  <2>5. QED BY <1>5, <2>4 DEF createSession, TypeOK
<1>6. ASSUME NEW c \in Catalogs, PublishItems(c) PROVE TypeOK'
  <2> DEFINE max == [i \in Items |-> IF i \in c.active THEN c.max[i] ELSE db.catalog.max[i]]
  <2>1. c \in Catalog /\ db.catalog \in Catalog
    BY <1>1, CatalogAssumption DEF SessionState
  <2>2. c.active \in SUBSET Items /\ max \in [Items -> Nat]
    BY <2>1 DEF Catalog
  <2>3. [[db.catalog EXCEPT !.active = c.active] EXCEPT !.max = max] \in Catalog
    BY <2>1, <2>2 DEF Catalog
  <2>4. db' = [db EXCEPT !.catalog = [[db.catalog EXCEPT !.active = c.active] EXCEPT !.max = max]]
    BY <1>1, <1>6, <2>1 DEF PublishItems, SessionState, Catalog
  <2>5. db' \in SessionState
    BY <1>1, <2>3, <2>4 DEF SessionState
  <2>6. QED BY <1>6, <2>5 DEF PublishItems, TypeOK
<1>7. ASSUME NEW c \in Counters, LegacySettle(c) PROVE TypeOK'
  <2> DEFINE amount == Unreserved(db, c)
             owed == NewMission(NoItem, 0, c, amount, "mission_completion")
  <2>1. amount \in Nat /\ db.revision + 1 \in Nat
    BY <1>1, <1>7 DEF LegacySettle, SessionState
  <2>2. owed \in Mission
    BY <2>1, NewMissionType
  <2>3. Append(db.missions, owed) \in Seq(Mission)
    BY <1>1, <2>2 DEF SessionState
  <2>4. db' = [db EXCEPT !.revision = db.revision + 1, !.missions = Append(db.missions, owed)]
    BY <1>7 DEF LegacySettle
  <2> HIDE DEF owed
  <2>5. db' \in SessionState
    BY <1>1, <2>1, <2>3, <2>4 DEF SessionState
  <2>6. QED BY <1>7, <2>5 DEF LegacySettle, TypeOK
<1>8. ASSUME Backfill PROVE TypeOK'
  <2> DEFINE left == [c \in Counters |-> Unreserved(db, c)]
             settled == [m \in DOMAIN db.missions |-> Backfilled(db.missions[m])]
  <2>1. left \in [Counters -> Nat]
    BY <1>8 DEF Backfill
  <2>2. settled \in Seq(Mission)
    <3>1. \A m \in Mission : Backfilled(m) \in Mission
      BY DEF Backfilled, Mission, MissionRow
    <3>2. db.missions \in Seq(Mission) /\ Len(db.missions) \in Nat
          /\ DOMAIN db.missions = 1 .. Len(db.missions)
      BY <1>1 DEF SessionState
    <3>3. \A m \in DOMAIN db.missions : Backfilled(db.missions[m]) \in Mission
      BY <3>1, <3>2
    <3>4. settled \in [1 .. Len(db.missions) -> Mission]
      BY <3>2, <3>3
    <3>5. QED BY <3>2, <3>4
  <2>3. db' = [db EXCEPT !.counters = left, !.missions = settled]
    BY <1>8 DEF Backfill
  <2> HIDE DEF left, settled
  <2>4. db' \in SessionState
    BY <1>1, <2>1, <2>2, <2>3 DEF SessionState
  <2>5. QED BY <1>8, <2>4 DEF Backfill, TypeOK
<1>9. QED BY <1>3, <1>4, <1>5, <1>6, <1>7, <1>8

(* The channel starts well typed. *)
LEMMA InitType == Init => TypeOK
<1> SUFFICES ASSUME Init PROVE TypeOK
  OBVIOUS
<1>1. /\ [i \in Items |-> [quantity |-> 0, revision |-> 0]] \in [Items -> Stock]
      /\ [i \in Items |-> <<>>] \in [Items -> Seq(LedgerRow)]
      /\ InitialCounter \in [Counters -> Nat] /\ InitialCounter \in [Counters -> Int]
      /\ InitialCatalog \in Catalog
  BY CatalogAssumption DEF Stock
<1>2. 0 \in Cells
  BY SizeAssumption DEF Cells
<1>3. [type |-> "create_session", movement |-> FALSE, travel |-> "none"] \in Result
  BY DEF Result, CommandTypes, TravelStatuses
<1>4. db \in SessionState
  BY <1>1, <1>2, <1>3, AbsenceType DEF Init, SessionState, Statuses, Directions
<1>5. QED BY <1>4 DEF Init, TypeOK

(* Every step keeps the types. *)
LEMMA NextType == TypeOK /\ [Next]_vars => TypeOK'
<1> SUFFICES ASSUME TypeOK, [Next]_vars PROVE TypeOK'
  OBVIOUS
<1>1. CASE UNCHANGED vars
  BY <1>1 DEF TypeOK, vars, SessionState, Transaction
<1>2. CASE Next
  BY <1>2, MovementCommandsType, ResourceCommandsType, EffectsType, OtherStepsType
     DEF Next, Work
<1>3. QED BY <1>1, <1>2

(* Every reachable state is one the schema can hold, whatever the board    *)
(* sends the pawn through and however often a command is rolled back.      *)
THEOREM TypeCorrect == Spec => []TypeOK
<1>1. QED BY InitType, NextType, PTL DEF Spec
=============================================================================
