-------------------------- MODULE GameSessionProofs -------------------------
(* What no turn, trip, lock or grant can break, for every board, catalog   *)
(* and bound: the reservation and the pawn (TurnInv and the action         *)
(* properties it supports), the stock (StockInv) and the counters          *)
(* (CountersInv, which needs what the sums over missions do).              *)
(*                                                                         *)
(* Every command begins a transaction whose outcome is Lawful; every       *)
(* effect keeps it Lawful; a commit makes it the committed state, where    *)
(* Lawful says what the action properties promise.                         *)
EXTENDS GameSessionTypes, FiniteSetTheorems

(* e differs from d at most in the pawn, the lock, the multiplier and      *)
(* the tasks. *)
Keeps(d, e) ==
  /\ e.session = d.session /\ e.presentation = d.presentation
  /\ e.status = d.status /\ e.stock = d.stock /\ e.ledger = d.ledger
  /\ e.catalog = d.catalog /\ e.missions = d.missions
  /\ e.counters = d.counters /\ e.credited = d.credited

(* ------------------------------ Turns, again ------------------------------ *)

(* A lock other than doubles that move lets no throw move the pawn. *)
LEMMA LockedThrow ==
  ASSUME NEW d \in SessionState, Locked(d), NEW throw \in Throws(d),
         ~(d.lock.type = "skip_rolls_or_doubles" /\ d.lock.onDoubles = "move_sum")
  PROVE  throw.distance = 0
<1>1. d.lock \in Lock
  BY DEF SessionState
<1>2. d.lock.type \in {"operator", "skip_rolls", "skip_rolls_or_doubles", "dice_faces"}
  BY <1>1 DEF Lock, ReleaseTypes, Locked
<1>3. CASE d.lock.type = "operator"
  BY <1>3 DEF Throws
<1>4. CASE d.lock.type = "skip_rolls"
  BY <1>4 DEF Throws
<1>5. CASE d.lock.type = "dice_faces"
  BY <1>5 DEF Throws
<1>6. CASE d.lock.type = "skip_rolls_or_doubles"
  BY <1>6 DEF Throws
<1>7. QED BY <1>2, <1>3, <1>4, <1>5, <1>6

(* A path of no steps leads nowhere and passes nothing. *)
LEMMA EmptyPath ==
  ASSUME NEW cell, NEW direction
  PROVE  /\ LastCell(PathFrom(cell, direction, 0), cell) = cell
         /\ VisitsOf(PathFrom(cell, direction, 0), cell) = <<>>
<1>1. PathFrom(cell, direction, 0) = <<>>
  BY DEF PathFrom
<1>2. QED BY <1>1 DEF LastCell, VisitsOf

(* A normal roll touches no task and no stock, and a lock holds the pawn. *)
LEMMA NormalRollKeeps ==
  ASSUME NEW d \in SessionState, NEW o \in executeNormalRoll(d)
  PROVE  /\ Keeps(d, o.d) /\ o.d.tasks = d.tasks
         /\ o.movement = TRUE /\ o.travel = "none"
         /\ \/ ~Locked(d)
            \/ d.lock.type = "skip_rolls_or_doubles" /\ d.lock.onDoubles = "move_sum"
            \/ o.todo = <<>> /\ o.d.cell = d.cell
<1>1. PICK throw \in Throws(d) : o = Rolled(d, throw)
  BY DEF executeNormalRoll
<1> DEFINE path == PathFrom(d.cell, d.direction, Travelled(d, throw))
<1>2. /\ o.d = [d EXCEPT !.lock = throw.lock,
                         !.modifier = IF throw.distance > 0 THEN SpendUse(@) ELSE @,
                         !.cell = LastCell(path, @)]
      /\ o.todo = VisitsOf(path, d.cell) /\ o.movement = TRUE /\ o.travel = "none"
  BY <1>1 DEF Rolled, Outcome
<1>3. Keeps(d, o.d) /\ o.d.tasks = d.tasks /\ o.d.cell = LastCell(path, d.cell)
  BY <1>2 DEF Keeps, SessionState
<1>4. ASSUME Locked(d),
             ~(d.lock.type = "skip_rolls_or_doubles" /\ d.lock.onDoubles = "move_sum")
      PROVE  o.todo = <<>> /\ o.d.cell = d.cell
  <2>1. throw.distance = 0
    BY <1>4, LockedThrow
  <2>2. Travelled(d, throw) = 0
    BY <2>1 DEF Travelled, SessionState, Modifier
  <2>3. QED BY <1>2, <1>3, <2>2, EmptyPath
<1>5. QED BY <1>2, <1>3, <1>4

(* Closing task k changes it alone, and only its status and revision. *)
LEMMA ClosedKeeps ==
  ASSUME NEW d \in SessionState, NEW k \in DOMAIN d.tasks, NEW r \in Task,
         NEW status \in {"pending", "resolved", "cancelled"}
  PROVE  LET c == Closed(d, k, r, status) IN
         /\ Keeps(d, c) /\ c.cell = d.cell /\ c.lock = d.lock
         /\ DOMAIN c.tasks = DOMAIN d.tasks
         /\ \A j \in DOMAIN d.tasks \ {k} : c.tasks[j] = d.tasks[j]
         /\ c.tasks[k].status = status /\ c.tasks[k].kind = r.kind
         /\ c.tasks[k].selected = r.selected /\ c.tasks[k].allowed = r.allowed
         /\ c.tasks[k].exclude = r.exclude
<1> DEFINE s == [r EXCEPT !.status = status, !.revision = @ + 1]
           tasks == [d.tasks EXCEPT ![k] = s]
<1>1. /\ s.status = status /\ s.kind = r.kind /\ s.selected = r.selected
      /\ s.allowed = r.allowed /\ s.exclude = r.exclude
  BY DEF Task
<1>2. /\ DOMAIN tasks = DOMAIN d.tasks /\ tasks[k] = s
      /\ \A j \in DOMAIN d.tasks \ {k} : tasks[j] = d.tasks[j]
  OBVIOUS
<1>3. Closed(d, k, r, status) = [d EXCEPT !.tasks = tasks]
  BY DEF Closed
<1> HIDE DEF s, tasks
<1>4. LET c == Closed(d, k, r, status) IN
      Keeps(d, c) /\ c.cell = d.cell /\ c.lock = d.lock /\ c.tasks = tasks
  BY <1>3 DEF Keeps, SessionState
<1>5. QED BY <1>1, <1>2, <1>4

(* Closing the only pending reservation leaves at most one. *)
LEMMA ClosedStaysUnique ==
  ASSUME NEW d, NEW e, OnePendingTravel(d), DOMAIN e.tasks = DOMAIN d.tasks,
         NEW k \in PendingTravels(d),
         \A j \in DOMAIN d.tasks \ {k} : e.tasks[j] = d.tasks[j]
  PROVE  OnePendingTravel(e)
BY DEF OnePendingTravel, PendingTravels

(* What a decision about the reservation k may do.  The session is locked  *)
(* only if movement is held back. *)
LEMMA DecisionLawful ==
  ASSUME TypeOK,
         NEW d \in SessionState, d.tasks = db.tasks, d.cell = db.cell, d.lock = db.lock,
         d.session = db.session, d.presentation = db.presentation, d.status # "ended",
         NEW k \in PendingTravels(db), NEW r \in Task, r.kind = db.tasks[k].kind,
         HoldsTurn(db.tasks[k]) => HoldsTurn(r),
         NEW paused \in BOOLEAN, Locked(db) => paused, NEW type,
         NEW o \in applyTravelDecision(d, k, r, decideTravel(r, paused))
  PROVE  /\ Lawful(type, o.d, o.todo, o.movement, o.travel)
         /\ Keeps(d, o.d) /\ o.d.status # "ended"
         /\ OnePendingTravel(db) => OnePendingTravel(o.d)
<1> DEFINE decision == decideTravel(r, paused)
<1>1. /\ db.tasks \in Seq(Task) /\ k \in DOMAIN d.tasks
      /\ db.tasks[k].status = "pending" /\ k \in DOMAIN db.tasks
  BY DEF TypeOK, SessionState, PendingTravels
<1>2. decision \in Decisions
        /\ (decision = "move" => HoldsTurn(r) /\ HasChoice(r) /\ ~r.cancelled)
        /\ (decision = "cancel" => r.cancelled /\ ~HoldsTurn(r))
  BY DecideTravelType
<1>3. Locked(db) => decision \in {"wait", "cancel"}
  BY DEF decideTravel
<1>4. ASSUME NEW status \in {"pending", "resolved", "cancelled"}, NEW e,
             NEW travel, NEW movement,
             DOMAIN e.tasks = DOMAIN Closed(d, k, r, status).tasks,
             e.tasks = Closed(d, k, r, status).tasks,
             status # "pending" /\ HoldsTurn(db.tasks[k])
               => travel \in {"moved", "returned"} /\ movement,
             status = "resolved" => MayTravelTo(d, r, r.selected)
      PROVE  /\ TasksLawful(e, movement, travel)
             /\ OnePendingTravel(db) => OnePendingTravel(e)
  <2>1. /\ DOMAIN e.tasks = DOMAIN db.tasks
        /\ \A j \in DOMAIN db.tasks \ {k} : e.tasks[j] = db.tasks[j]
        /\ e.tasks[k].status = status /\ e.tasks[k].kind = r.kind
        /\ e.tasks[k].selected = r.selected /\ e.tasks[k].allowed = r.allowed
        /\ e.tasks[k].exclude = r.exclude
    BY <1>1, <1>4, ClosedKeeps
  <2>2. status = "resolved" => MayTravelTo(db, e.tasks[k], e.tasks[k].selected)
    BY <1>4, <2>1 DEF MayTravelTo
  <2>3. TasksLawful(e, movement, travel)
    BY <1>1, <1>4, <2>1, <2>2 DEF TasksLawful
  <2>4. QED BY <2>1, <2>3, ClosedStaysUnique
<1>5. CASE decision = "wait"
  <2> DEFINE c == Closed(d, k, r, "pending")
  <2>1. o = Outcome(c, <<>>, TRUE, "waiting")
    BY <1>5 DEF applyTravelDecision
  <2>2. Keeps(d, c) /\ c.cell = d.cell
    BY <1>1, ClosedKeeps
  <2>3. o.d = c /\ o.todo = <<>> /\ o.movement = TRUE /\ o.travel = "waiting"
    BY <2>1 DEF Outcome
  <2>4. TasksLawful(o.d, o.movement, o.travel) /\ (OnePendingTravel(db) => OnePendingTravel(o.d))
    BY <1>4, <2>3
  <2>5. QED BY <2>2, <2>3, <2>4 DEF Keeps, Lawful, PawnLawful, EndLawful
<1>6. CASE decision = "cancel"
  <2> DEFINE c == Closed(d, k, r, "cancelled")
  <2>1. o = Outcome(c, <<>>, FALSE, "cancelled")
    BY <1>6 DEF applyTravelDecision
  <2>2. Keeps(d, c) /\ c.cell = d.cell
    BY <1>1, ClosedKeeps
  <2>3. o.d = c /\ o.todo = <<>> /\ o.movement = FALSE /\ o.travel = "cancelled"
    BY <2>1 DEF Outcome
  <2>4. TasksLawful(o.d, o.movement, o.travel) /\ (OnePendingTravel(db) => OnePendingTravel(o.d))
    BY <1>2, <1>4, <1>6, <2>3
  <2>5. QED BY <2>2, <2>3, <2>4 DEF Keeps, Lawful, PawnLawful, EndLawful
<1>7. CASE decision = "return_turn"
  <2> DEFINE c == Closed(d, k, r, "cancelled")
  <2>1. PICK p \in executeNormalRoll(c) : o = [p EXCEPT !.travel = "returned"]
    BY <1>7 DEF applyTravelDecision
  <2>2. c \in SessionState /\ Keeps(d, c) /\ c.cell = d.cell /\ c.lock = d.lock
    BY <1>1, ClosedKeeps, ClosedType
  <2>3. Keeps(c, p.d) /\ p.d.tasks = c.tasks /\ p.movement = TRUE /\ p \in OutcomeType
    BY <2>1, <2>2, NormalRollKeeps, NormalRollType
  <2>4. o.d = p.d /\ o.movement = TRUE /\ o.travel = "returned"
    BY <2>1, <2>3 DEF OutcomeType
  <2>5. TasksLawful(o.d, o.movement, o.travel) /\ (OnePendingTravel(db) => OnePendingTravel(o.d))
    BY <1>4, <2>3, <2>4
  <2>6. ~Locked(db)
    BY <1>3, <1>7
  <2>7. QED BY <2>2, <2>3, <2>4, <2>5, <2>6 DEF Keeps, Lawful, PawnLawful, EndLawful
<1>8. CASE decision = "move"
  <2> DEFINE c == Closed(d, k, r, "resolved")
             e == [c EXCEPT !.cell = r.selected]
             visits == IF r.onArrival THEN ArrivalAt(r.selected) ELSE <<>>
  <2>1. MayTravelTo(d, r, r.selected) /\ o = Outcome(e, visits, TRUE, "moved")
    BY <1>8 DEF applyTravelDecision, Trips, Trip
  <2>2. c \in SessionState /\ Keeps(d, c)
    BY <1>1, ClosedKeeps, ClosedType
  <2>3. Keeps(d, e) /\ e.tasks = c.tasks
    BY <2>2 DEF Keeps, SessionState
  <2>4. o.d = e /\ o.movement = TRUE /\ o.travel = "moved"
    BY <2>1 DEF Outcome
  <2> HIDE DEF e
  <2>5. TasksLawful(o.d, o.movement, o.travel) /\ (OnePendingTravel(db) => OnePendingTravel(o.d))
    BY <1>4, <2>1, <2>3, <2>4
  <2>6. ~Locked(db)
    BY <1>3, <1>8
  <2>7. QED BY <2>3, <2>4, <2>5, <2>6 DEF Keeps, Lawful, PawnLawful, EndLawful
<1>9. QED BY <1>2, <1>5, <1>6, <1>7, <1>8 DEF Decisions

(* ---------------------- The invariant of turns and trips ----------------- *)

(* A command that begins with a lawful outcome keeps the invariant. *)
LEMMA BeginTurnInv ==
  ASSUME TypeOK, TurnInv, NEW type, NEW o \in OutcomeType, Begin(type, o),
         Lawful(type, o.d, o.todo, o.movement, o.travel), OnePendingTravel(o.d)
  PROVE  TurnInv'
<1>1. /\ tx'.type = type /\ tx'.d = o.d /\ tx'.todo = o.todo /\ tx'.travels = <<>>
      /\ tx'.movement = o.movement /\ tx'.travel = o.travel /\ db' = db
  BY DEF Begin
<1>2. OnePendingTravel(db)' /\ EndedIsQuiet'
  BY <1>1 DEF TurnInv, OnePendingTravel, PendingTravels, EndedIsQuiet
<1>3. Lawful(tx.type, tx.d, tx.todo, tx.movement, tx.travel)'
  BY <1>1 DEF Lawful, TasksLawful, PawnLawful, EndLawful, MayRollDoubles, MayTravelTo,
              HoldsTurn, Locked
<1>4. OnePendingTravel(tx.d)'
  BY <1>1 DEF OnePendingTravel, PendingTravels
<1>5. NewTravelAlone'
  BY <1>1 DEF NewTravelAlone
<1>6. QED BY <1>2, <1>3, <1>4, <1>5 DEF TurnInv

(* A command that touches neither the pawn nor a task keeps it, if it ends *)
(* the session only when nothing is pending. *)
LEMMA ChangeTurnInv ==
  ASSUME TypeOK, TurnInv, NEW type, NEW d \in SessionState, Change(type, d),
         d.session = db.session, d.presentation = db.presentation, d.tasks = db.tasks,
         d.cell = db.cell,
         d.status = "ended" => \A k \in DOMAIN db.tasks : db.tasks[k].status # "pending"
  PROVE  TurnInv'
<1> DEFINE o == Outcome(d, <<>>, FALSE, "none")
<1>1. o \in OutcomeType
  BY DEF Outcome, OutcomeType, TravelStatuses
<1>2. o.d = d /\ o.todo = <<>> /\ o.movement = FALSE /\ o.travel = "none"
  BY DEF Outcome
<1>3. Begin(type, o)
  BY DEF Change
<1> HIDE DEF o
<1>4. Lawful(type, o.d, o.todo, o.movement, o.travel)
  BY <1>2 DEF Lawful, TasksLawful, PawnLawful, EndLawful
<1>5. OnePendingTravel(o.d)
  BY <1>2 DEF TurnInv, OnePendingTravel, PendingTravels
<1>6. QED BY <1>1, <1>3, <1>4, <1>5, BeginTurnInv

(* A command that decides about the pending reservation keeps it. *)
LEMMA DecisionTurnInv ==
  ASSUME TypeOK, TurnInv, HasTravel(db),
         NEW d \in SessionState, d.tasks = db.tasks, d.cell = db.cell, d.lock = db.lock,
         d.session = db.session, d.presentation = db.presentation, d.status # "ended",
         NEW r \in Task, r.kind = db.tasks[pendingTravel(db)].kind,
         HoldsTurn(db.tasks[pendingTravel(db)]) => HoldsTurn(r),
         NEW paused \in BOOLEAN, Locked(db) => paused, NEW type,
         \E o \in applyTravelDecision(d, pendingTravel(db), r, decideTravel(r, paused)) :
            Begin(type, o)
  PROVE  TurnInv'
<1> DEFINE k == pendingTravel(db)
<1>1. k \in PendingTravels(db) /\ k \in DOMAIN d.tasks
  BY PendingTravelType DEF TypeOK
<1>2. PICK o \in applyTravelDecision(d, k, r, decideTravel(r, paused)) : Begin(type, o)
  OBVIOUS
<1>3. o \in OutcomeType
  BY <1>1, <1>2, DecideTravelType, TravelDecisionType
<1>4. Lawful(type, o.d, o.todo, o.movement, o.travel) /\ OnePendingTravel(o.d)
  BY <1>1, <1>2, DecisionLawful DEF TurnInv
<1>5. QED BY <1>2, <1>3, <1>4, BeginTurnInv

(* An active session has not ended. *)
LEMMA ActiveNotEnded == Active => db.status # "ended"
BY DEF Active

(* A turn keeps it: a normal roll, or the trip that takes its place. *)
LEMMA RollTurnInv == TypeOK /\ TurnInv /\ roll_dice => TurnInv'
<1> SUFFICES ASSUME TypeOK, TurnInv, roll_dice PROVE TurnInv'
  OBVIOUS
<1>1. db \in SessionState /\ db.status # "ended"
  BY ActiveNotEnded DEF TypeOK, roll_dice
<1>2. PICK o \in executeRollTurn(db) : Begin("roll_dice", o)
  BY DEF roll_dice
<1>3. CASE ~HasTravel(db) \/ Locked(db)
  <2>1. o \in executeNormalRoll(db)
    BY <1>2, <1>3 DEF executeRollTurn
  <2>2. /\ Keeps(db, o.d) /\ o.d.tasks = db.tasks /\ o.movement = TRUE /\ o.travel = "none"
        /\ \/ ~Locked(db)
           \/ db.lock.type = "skip_rolls_or_doubles" /\ db.lock.onDoubles = "move_sum"
           \/ o.todo = <<>> /\ o.d.cell = db.cell
        /\ o \in OutcomeType
    BY <1>1, <2>1, NormalRollKeeps, NormalRollType
  <2>3. Lawful("roll_dice", o.d, o.todo, o.movement, o.travel)
    <3>1. TasksLawful(o.d, o.movement, o.travel)
      BY <2>2 DEF TasksLawful
    <3>2. PawnLawful("roll_dice", o.d, o.todo, o.movement, o.travel)
      BY <2>2 DEF PawnLawful, MayRollDoubles
    <3>3. QED BY <1>1, <2>2, <3>1, <3>2 DEF Lawful, EndLawful, Keeps
  <2>4. OnePendingTravel(o.d)
    BY <2>2 DEF TurnInv, OnePendingTravel, PendingTravels
  <2>5. QED BY <1>2, <2>2, <2>3, <2>4, BeginTurnInv
<1>4. CASE HasTravel(db) /\ ~Locked(db)
  <2> DEFINE k == pendingTravel(db)
             held == db.tasks[k]
             r == IF HoldsTurn(held) THEN held ELSE reserveTravelTurn(held, db.revision + 1)
  <2>1. k \in DOMAIN db.tasks /\ held \in Task
    BY <1>1, <1>4, PendingTravelType
  <2>2. db.revision + 1 \in Nat
    BY <1>1 DEF SessionState
  <2>3. r \in Task /\ r.kind = held.kind /\ (HoldsTurn(held) => HoldsTurn(r))
    BY <2>1, <2>2 DEF reserveTravelTurn, Task
  <2>4. o \in applyTravelDecision(db, k, r, decideTravel(r, FALSE))
    BY <1>2, <1>4 DEF executeRollTurn
  <2> HIDE DEF r
  <2>5. \E p \in applyTravelDecision(db, k, r, decideTravel(r, FALSE)) : Begin("roll_dice", p)
    BY <1>2, <2>4
  <2>6. QED BY <1>1, <1>4, <2>3, <2>5, DecisionTurnInv
<1>5. QED BY <1>3, <1>4

(* The commands that decide about a reservation keep it. *)
LEMMA TravelCommandsTurnInv ==
  ASSUME TypeOK, TurnInv
  PROVE  /\ resume => TurnInv'
         /\ \A c \in Cells : choose_destination(c) => TurnInv'
         /\ \A c \in Cells : travel_now(c) => TurnInv'
         /\ cancel_destination => TurnInv'
<1> DEFINE k == pendingTravel(db)
<1>1. db \in SessionState
  BY DEF TypeOK
<1>2. HasTravel(db) => k \in DOMAIN db.tasks /\ db.tasks[k] \in Task
  BY <1>1, PendingTravelType
<1>3. HeldBack \in BOOLEAN /\ (Locked(db) => HeldBack)
  BY DEF HeldBack
<1>4. ASSUME resume PROVE TurnInv'
  <2> DEFINE d == [db EXCEPT !.status = "running", !.auto = FALSE]
  <2>1. /\ d \in SessionState /\ d.tasks = db.tasks /\ d.cell = db.cell /\ d.lock = db.lock
        /\ d.session = db.session /\ d.presentation = db.presentation /\ d.status # "ended"
    BY <1>1 DEF SessionState, Statuses
  <2>2. CASE HasTravel(db) /\ ~Locked(db) /\ HoldsTurn(db.tasks[k])
    <3>1. \E o \in applyTravelDecision(d, k, db.tasks[k], decideTravel(db.tasks[k], FALSE)) :
             Begin("resume", o)
      BY <1>4, <2>2 DEF resume
    <3>2. QED BY <1>2, <2>1, <2>2, <3>1, DecisionTurnInv
  <2>3. CASE ~(HasTravel(db) /\ ~Locked(db) /\ HoldsTurn(db.tasks[k]))
    <3>1. Change("resume", d)
      BY <1>4, <2>3 DEF resume
    <3>2. QED BY <2>1, <3>1, ChangeTurnInv
  <2>4. QED BY <2>2, <2>3
<1>5. ASSUME NEW c \in Cells, choose_destination(c) PROVE TurnInv'
  <2> DEFINE r == [db.tasks[k] EXCEPT !.selected = c]
  <2>1. HasTravel(db) /\ db.status # "ended"
    BY <1>5, ActiveNotEnded DEF choose_destination
  <2>2. r \in Task /\ r.kind = db.tasks[k].kind /\ (HoldsTurn(db.tasks[k]) => HoldsTurn(r))
    BY <1>2, <2>1 DEF Task, HoldsTurn
  <2>3. \E o \in applyTravelDecision(db, k, r, decideTravel(r, HeldBack)) :
           Begin("choose_destination", o)
    BY <1>5 DEF choose_destination
  <2> HIDE DEF r
  <2>4. QED BY <1>1, <1>3, <2>1, <2>2, <2>3, DecisionTurnInv
<1>6. ASSUME NEW c \in Cells, travel_now(c) PROVE TurnInv'
  <2> DEFINE chosen == [db.tasks[k] EXCEPT !.selected = c]
             r == moveTravelNow(chosen, db.revision + 1)
  <2>1. HasTravel(db) /\ db.status # "ended" /\ ~Locked(db)
    BY <1>6, ActiveNotEnded DEF travel_now
  <2>2. chosen \in Task /\ chosen.kind = db.tasks[k].kind /\ chosen.turn = db.tasks[k].turn
    BY <1>2, <2>1 DEF Task
  <2>3. db.revision + 1 \in Nat
    BY <1>1 DEF SessionState
  <2>4. r \in Task /\ r.kind = chosen.kind /\ (HoldsTurn(chosen) => HoldsTurn(r))
    BY <2>2, <2>3 DEF moveTravelNow, reserveTravelTurn, Task
  <2>5. \E o \in applyTravelDecision(db, k, r, decideTravel(r, FALSE)) :
           Begin("choose_destination", o)
    BY <1>6 DEF travel_now
  <2>6. HoldsTurn(db.tasks[k]) => HoldsTurn(r)
    BY <2>2, <2>4 DEF HoldsTurn
  <2> HIDE DEF r, chosen
  <2>7. QED BY <1>1, <2>1, <2>2, <2>4, <2>5, <2>6, DecisionTurnInv
<1>7. ASSUME cancel_destination PROVE TurnInv'
  <2> DEFINE r == [db.tasks[k] EXCEPT !.cancelled = TRUE]
  <2>1. HasTravel(db) /\ db.status # "ended"
    BY <1>7, ActiveNotEnded DEF cancel_destination
  <2>2. r \in Task /\ r.kind = db.tasks[k].kind /\ (HoldsTurn(db.tasks[k]) => HoldsTurn(r))
    BY <1>2, <2>1 DEF Task, HoldsTurn
  <2>3. \E o \in applyTravelDecision(db, k, r, decideTravel(r, HeldBack)) :
           Begin("cancel_destination", o)
    BY <1>7 DEF cancel_destination
  <2> HIDE DEF r
  <2>4. QED BY <1>1, <1>3, <2>1, <2>2, <2>3, DecisionTurnInv
<1>8. QED BY <1>4, <1>5, <1>6, <1>7

(* Moving an item and resolving a mission leave the pawn and the tasks. *)
LEMMA ResourceKeeps ==
  ASSUME NEW d \in SessionState
  PROVE  /\ \A i, delta : LET e == Moved(d, i, delta) IN
              /\ e.session = d.session /\ e.presentation = d.presentation
              /\ e.status = d.status /\ e.tasks = d.tasks /\ e.cell = d.cell
              /\ e.missions = d.missions
         /\ \A m, status : LET e == Resolved(d, m, status) IN
              /\ e.session = d.session /\ e.presentation = d.presentation
              /\ e.status = d.status /\ e.tasks = d.tasks /\ e.cell = d.cell
              /\ e.stock = d.stock /\ e.ledger = d.ledger /\ e.catalog = d.catalog
BY DEF Moved, Resolved, SessionState

(* The commands that move no pawn and decide no trip keep the invariant. *)
LEMMA QuietCommandsTurnInv ==
  ASSUME TypeOK, TurnInv
  PROVE  /\ \A direction \in Directions : set_direction(direction) => TurnInv'
         /\ pause => TurnInv'
         /\ end_session => TurnInv'
         /\ clear_movement_lock => TurnInv'
         /\ clear_roll_modifier => TurnInv'
         /\ \A n \in Quantities : set_movement_lock_remaining(n) => TurnInv'
         /\ \A b \in BoardIds : apply_board_version(b) => TurnInv'
         /\ ResourceCommands => TurnInv'
<1>1. db \in SessionState
  BY DEF TypeOK
<1> DEFINE Quiet(d) == /\ d \in SessionState
                       /\ d.session = db.session /\ d.presentation = db.presentation
                       /\ d.tasks = db.tasks /\ d.cell = db.cell
                       /\ d.status = "ended" =>
                            \A k \in DOMAIN db.tasks : db.tasks[k].status # "pending"
<1>2. ASSUME NEW type, NEW d, Quiet(d), Change(type, d) PROVE TurnInv'
  BY <1>2, ChangeTurnInv
<1>3. Active => db.status # "ended"
  BY ActiveNotEnded
<1>4. ASSUME NEW direction \in Directions, set_direction(direction) PROVE TurnInv'
  <2>1. Quiet([db EXCEPT !.direction = direction])
    BY <1>1, <1>3, <1>4 DEF set_direction, SessionState
  <2>2. QED BY <1>2, <1>4, <2>1 DEF set_direction
<1>5. ASSUME pause PROVE TurnInv'
  <2>1. Quiet([db EXCEPT !.status = "paused", !.auto = TRUE])
    BY <1>1 DEF SessionState, Statuses
  <2>2. QED BY <1>2, <1>5, <2>1 DEF pause
<1>6. ASSUME end_session PROVE TurnInv'
  <2>1. Quiet([db EXCEPT !.status = "ended", !.auto = TRUE])
    BY <1>1, <1>6 DEF end_session, SessionState, Statuses
  <2>2. QED BY <1>2, <1>6, <2>1 DEF end_session
<1>7. ASSUME clear_movement_lock PROVE TurnInv'
  <2>1. Quiet([db EXCEPT !.lock = NoLock])
    BY <1>1, <1>3, <1>7, AbsenceType DEF clear_movement_lock, SessionState
  <2>2. QED BY <1>2, <1>7, <2>1 DEF clear_movement_lock
<1>8. ASSUME clear_roll_modifier PROVE TurnInv'
  <2>1. Quiet([db EXCEPT !.modifier = NoModifier])
    BY <1>1, <1>3, <1>8, AbsenceType DEF clear_roll_modifier, SessionState
  <2>2. QED BY <1>2, <1>8, <2>1 DEF clear_roll_modifier
<1>9. ASSUME NEW n \in Quantities, set_movement_lock_remaining(n) PROVE TurnInv'
  <2>1. [db.lock EXCEPT !.left = n] \in Lock
    BY <1>1, SizeAssumption DEF SessionState, Lock
  <2>2. Quiet([db EXCEPT !.lock.left = n])
    BY <1>1, <1>3, <1>9, <2>1 DEF set_movement_lock_remaining, SessionState
  <2>3. QED BY <1>2, <1>9, <2>2 DEF set_movement_lock_remaining
<1>10. ASSUME NEW b \in BoardIds, apply_board_version(b) PROVE TurnInv'
  <2>1. Quiet([db EXCEPT !.board = b])
    BY <1>1, <1>3, <1>10 DEF apply_board_version, SessionState
  <2>2. QED BY <1>2, <1>10, <2>1 DEF apply_board_version
<1>11. ASSUME ResourceCommands PROVE TurnInv'
  <2>1. TypeOK'
    BY <1>11, ResourceCommandsType
  <2>2. ASSUME NEW type, NEW d, Change(type, d), Active,
               d.session = db.session, d.presentation = db.presentation,
               d.status = db.status, d.tasks = db.tasks, d.cell = db.cell
        PROVE  TurnInv'
    <3>1. tx' \in Transaction /\ tx'.d = d
      <4>1. tx'.d = d /\ tx'.type = type /\ tx'.todo = <<>>
        BY <2>2 DEF Change, Begin, Outcome
      <4>2. tx' \in Transaction \/ tx' = Idle
        BY <2>1 DEF TypeOK
      <4>3. DOMAIN tx' # DOMAIN Idle
        BY <2>2 DEF Change, Begin, Outcome, Idle
      <4>4. QED BY <4>1, <4>2, <4>3
    <3>2. d \in SessionState
      BY <3>1 DEF Transaction
    <3>3. QED BY <1>2, <1>3, <2>2, <3>2
  <2>3. ASSUME NEW c \in Counters, NEW n \in Quantities, adjust_counter(c, n) PROVE TurnInv'
    <3> DEFINE d == [db EXCEPT !.counters[c] = n, !.credited[c] = @ + n - db.counters[c]]
    <3>1. /\ d.session = db.session /\ d.presentation = db.presentation
          /\ d.status = db.status /\ d.tasks = db.tasks /\ d.cell = db.cell
      BY <1>1 DEF SessionState
    <3>2. QED BY <2>2, <2>3, <3>1 DEF adjust_counter
  <2>4. ASSUME NEW i \in Items, NEW delta, adjust_inventory(i, delta) PROVE TurnInv'
    BY <1>1, <2>2, <2>4, ResourceKeeps DEF adjust_inventory
  <2>5. ASSUME NEW m \in DOMAIN db.missions, complete_mission(m) PROVE TurnInv'
    BY <1>1, <2>2, <2>5, ResourceKeeps DEF complete_mission, Resolvable
  <2>6. ASSUME NEW m \in DOMAIN db.missions, waive_mission(m) PROVE TurnInv'
    BY <1>1, <2>2, <2>6, ResourceKeeps DEF waive_mission, Resolvable
  <2>7. ASSUME NEW m \in DOMAIN db.missions, use_shield(m) PROVE TurnInv'
    <3> DEFINE paid == Moved(db, db.missions[m].shield, 0 - db.missions[m].cost)
    <3>1. /\ paid.session = db.session /\ paid.presentation = db.presentation
          /\ paid.status = db.status /\ paid.tasks = db.tasks /\ paid.cell = db.cell
      BY <1>1, ResourceKeeps
    <3>2. LET e == Resolved(paid, m, "shielded") IN
          /\ e.session = paid.session /\ e.presentation = paid.presentation
          /\ e.status = paid.status /\ e.tasks = paid.tasks /\ e.cell = paid.cell
      <4>1. db.missions[m] \in Mission
        BY <1>1 DEF SessionState
      <4>2. /\ db.missions[m].shield \in Items /\ db.missions[m].cost \in Nat
            /\ db.stock[db.missions[m].shield].quantity >= db.missions[m].cost
        BY <2>7, <4>1 DEF use_shield, Mission, MissionRow
      <4>3. db.stock[db.missions[m].shield].quantity + (0 - db.missions[m].cost) >= 0
        BY <1>1, <4>2 DEF SessionState, Stock
      <4>4. paid \in SessionState
        BY <1>1, <4>2, <4>3, MovedType
      <4>5. QED BY <4>4, ResourceKeeps
    <3>3. Change("use_shield", Resolved(paid, m, "shielded")) /\ Active
      BY <2>7 DEF use_shield, Resolvable
    <3> HIDE DEF paid
    <3>4. QED BY <2>2, <3>1, <3>2, <3>3
  <2>8. QED BY <1>11, <2>3, <2>4, <2>5, <2>6, <2>7 DEF ResourceCommands
<1>12. QED BY <1>4, <1>5, <1>6, <1>7, <1>8, <1>9, <1>10, <1>11

(* A correction of the position keeps it: it is no movement and ends no    *)
(* session. *)
LEMMA SetPositionTurnInv ==
  ASSUME TypeOK, TurnInv, NEW c \in Cells, NEW t \in BOOLEAN, set_position(c, t)
  PROVE  TurnInv'
<1> DEFINE d == [db EXCEPT !.cell = c, !.auto = TRUE, !.status = "paused"]
           visits == IF t THEN ArrivalAt(c) ELSE <<>>
           o == Outcome(d, visits, FALSE, "none")
<1>1. /\ d \in SessionState /\ d.session = db.session /\ d.presentation = db.presentation
      /\ d.tasks = db.tasks /\ d.status = "paused"
  BY DEF TypeOK, SessionState, Statuses
<1>2. visits \in Seq(Visit)
  BY ArrivalType
<1>3. o.d = d /\ o.movement = FALSE /\ o.travel = "none" /\ o \in OutcomeType
  BY <1>1, <1>2 DEF Outcome, OutcomeType, TravelStatuses
<1>4. Begin("set_position", o)
  BY DEF set_position
<1> HIDE DEF d, visits, o
<1>5. Lawful("set_position", o.d, o.todo, o.movement, o.travel)
  BY <1>1, <1>3 DEF Lawful, TasksLawful, PawnLawful, EndLawful
<1>6. OnePendingTravel(o.d)
  BY <1>1, <1>3 DEF TurnInv, OnePendingTravel, PendingTravels
<1>7. QED BY <1>3, <1>4, <1>5, <1>6, BeginTurnInv

(* What the record of a transaction says after an effect. *)
LEMMA EffectedFields ==
  ASSUME TypeOK, tx # Idle, NEW d, NEW visits
  PROVE  LET t == Effected(d, visits) IN
         /\ t.d = d /\ t.type = tx.type /\ t.movement = tx.movement
         /\ t.travel = tx.travel /\ t.travels = tx.travels /\ t.steps = tx.steps
         /\ DOMAIN t = DOMAIN tx
BY DEF TypeOK, Effected, Transaction

(* e has the session, the tasks and the status of d. *)
SameTurn(d, e) ==
  /\ e.session = d.session /\ e.presentation = d.presentation
  /\ e.tasks = d.tasks /\ e.status = d.status

(* An effect changes nothing a trip or the end of a session depends on,    *)
(* and reserves a trip only when none is pending. *)
LEMMA EffectsKeep ==
  ASSUME TypeOK, Effects
  PROVE  /\ tx # Idle /\ tx.todo # <<>> /\ tx' # Idle /\ db' = db
         /\ tx'.type = tx.type /\ tx'.movement = tx.movement /\ tx'.travel = tx.travel
         /\ SameTurn(tx.d, tx'.d)
         /\ \/ tx'.travels = tx.travels
            \/ /\ tx.travels = <<>> /\ ~HasTravel(tx.d)
               /\ Len(tx'.travels) = 1 /\ tx'.travels[1].kind = "choose_destination"
<1> DEFINE e == CurrentEffect
<1>1. tx # Idle /\ tx.todo # <<>>
  BY DEF Effects, EffectNone, EffectMission, EffectSetDirection, EffectCounterAdd,
         EffectCounterSettle, EffectModifyRoll, EffectGrantItem, EffectMoveSteps,
         EffectChooseDestination, EffectMovementLock, LeaveCell, Runs, Executing
<1>2. tx \in Transaction /\ tx.d \in SessionState /\ tx.travels \in Seq(Task)
  BY <1>1 DEF TypeOK, Transaction
<1>3. tx' # Idle /\ tx' \in Transaction /\ db' = db
  <2>1. TypeOK'
    BY EffectsType
  <2>2. tx' # Idle
    <3>1. ASSUME NEW d, NEW visits PROVE DOMAIN Effected(d, visits) # DOMAIN Idle
      <4>1. DOMAIN Effected(d, visits) = DOMAIN tx
        BY <1>1, EffectedFields
      <4>2. DOMAIN tx # DOMAIN Idle
        BY <1>2 DEF Transaction, Idle
      <4>3. QED BY <4>1, <4>2
    <3>2. ASSUME NEW d, Done(d) PROVE tx' # Idle
      BY <3>1, <3>2 DEF Done
    <3>3. CASE EffectMoveSteps
      BY <3>1, <3>3 DEF EffectMoveSteps
    <3>4. CASE EffectChooseDestination
      BY <3>1, <3>4 DEF EffectChooseDestination
    <3>5. CASE LeaveCell
      BY <1>2, <3>5 DEF LeaveCell, Transaction, Idle
    <3>6. QED BY <3>2, <3>3, <3>4, <3>5
              DEF Effects, EffectNone, EffectMission, EffectSetDirection, EffectCounterAdd,
                  EffectCounterSettle, EffectModifyRoll, EffectGrantItem, EffectMovementLock
  <2>3. db' = db
    BY DEF Effects, EffectNone, EffectMission, EffectSetDirection, EffectCounterAdd,
           EffectCounterSettle, EffectModifyRoll, EffectGrantItem, EffectMoveSteps,
           EffectChooseDestination, EffectMovementLock, LeaveCell, Done
  <2>4. QED BY <2>1, <2>2, <2>3 DEF TypeOK
<1> DEFINE Kept == /\ tx'.type = tx.type /\ tx'.movement = tx.movement
                   /\ tx'.travel = tx.travel /\ SameTurn(tx.d, tx'.d)
<1>4. ASSUME NEW d, Done(d), SameTurn(tx.d, d) PROVE Kept /\ tx'.travels = tx.travels
  BY <1>1, <1>4, EffectedFields DEF Done
<1>5. SameTurn(tx.d, tx.d)
  BY DEF SameTurn
<1>6. CASE EffectNone
  BY <1>1, <1>3, <1>4, <1>5, <1>6 DEF EffectNone
<1>7. CASE EffectMission
  <2>1. \A x : SameTurn(tx.d, [tx.d EXCEPT !.missions = x])
    BY <1>2 DEF SameTurn, SessionState
  <2>2. QED BY <1>1, <1>3, <1>4, <1>7, <2>1 DEF EffectMission
<1>8. CASE EffectSetDirection
  <2>1. \A x : SameTurn(tx.d, [tx.d EXCEPT !.direction = x])
    BY <1>2 DEF SameTurn, SessionState
  <2>2. QED BY <1>1, <1>3, <1>4, <1>8, <2>1 DEF EffectSetDirection
<1>9. CASE EffectCounterAdd
  <2>1. \A c, n : SameTurn(tx.d, [tx.d EXCEPT !.counters[c] = @ + n, !.credited[c] = @ + n])
    BY <1>2 DEF SameTurn, SessionState
  <2>2. QED BY <1>1, <1>3, <1>4, <1>9, <2>1 DEF EffectCounterAdd
<1>10. CASE EffectCounterSettle
  <2> DEFINE amount == Unreserved(tx.d, e.counter)
             settled == NewMission(e.shield, e.cost, e.counter, amount, "creation")
             d == IF amount \in 1 .. tx.d.counters[e.counter]
                  THEN [tx.d EXCEPT !.counters[e.counter] = @ - amount,
                                    !.missions = Append(@, settled)]
                  ELSE tx.d
  <2>1. SameTurn(tx.d, d)
    BY <1>2, <1>5 DEF SameTurn, SessionState
  <2>2. Done(d)
    BY <1>10 DEF EffectCounterSettle
  <2> HIDE DEF d
  <2>3. QED BY <1>1, <1>3, <1>4, <2>1, <2>2
<1>11. CASE EffectModifyRoll
  <2>1. \A x : SameTurn(tx.d, [tx.d EXCEPT !.modifier = x])
    BY <1>2 DEF SameTurn, SessionState
  <2>2. QED BY <1>1, <1>3, <1>4, <1>11, <2>1 DEF EffectModifyRoll
<1>12. CASE EffectGrantItem
  <2>1. \A i, n : SameTurn(tx.d, Moved(tx.d, i, n))
    BY <1>2, ResourceKeeps DEF SameTurn
  <2>2. QED BY <1>1, <1>3, <1>4, <1>12, <2>1 DEF EffectGrantItem
<1>13. CASE EffectMovementLock
  <2>1. \A x : SameTurn(tx.d, [tx.d EXCEPT !.lock = x])
    BY <1>2 DEF SameTurn, SessionState
  <2>2. QED BY <1>1, <1>3, <1>4, <1>13, <2>1 DEF EffectMovementLock
<1>14. CASE EffectMoveSteps
  <2>1. PICK cell, visits :
          tx' = [Effected([tx.d EXCEPT !.cell = cell], visits) EXCEPT !.steps = @ + e.steps]
    BY <1>14 DEF EffectMoveSteps
  <2> DEFINE d == [tx.d EXCEPT !.cell = cell]
             t == Effected(d, visits)
  <2>2. SameTurn(tx.d, d)
    BY <1>2 DEF SameTurn, SessionState
  <2>3. /\ t.d = d /\ t.type = tx.type /\ t.movement = tx.movement
        /\ t.travel = tx.travel /\ t.travels = tx.travels
    BY <1>1, EffectedFields
  <2>4. tx' = [t EXCEPT !.steps = @ + e.steps]
    BY <2>1
  <2>5. /\ tx'.d = t.d /\ tx'.type = t.type /\ tx'.movement = t.movement
        /\ tx'.travel = t.travel /\ tx'.travels = t.travels
    BY <2>4
  <2> HIDE DEF d, t
  <2>6. QED BY <1>1, <1>3, <2>2, <2>3, <2>5
<1>15. CASE EffectChooseDestination
  <2> DEFINE reservation ==
        [kind |-> "choose_destination", status |-> "pending", revision |-> 0,
         selected |-> NoCell, turn |-> NoTurn, cancelled |-> FALSE,
         allowed |-> e.allowed, exclude |-> e.exclude, onArrival |-> e.onArrival]
             t == Effected(tx.d, <<>>)
  <2>1. tx.travels = <<>> /\ ~HasTravel(tx.d)
    BY <1>15 DEF EffectChooseDestination, Runs, Fails, TravelTaken
  <2>2. /\ t.d = tx.d /\ t.type = tx.type /\ t.movement = tx.movement
        /\ t.travel = tx.travel /\ t.travels = tx.travels
    BY <1>1, EffectedFields
  <2>3. tx' = [t EXCEPT !.travels = Append(@, reservation)]
    BY <1>15 DEF EffectChooseDestination
  <2>4. reservation.kind = "choose_destination"
    OBVIOUS
  <2> HIDE DEF t, reservation
  <2>5. /\ tx'.d = t.d /\ tx'.type = t.type /\ tx'.movement = t.movement
        /\ tx'.travel = t.travel
    BY <2>3
  <2>6. tx'.travels = Append(t.travels, reservation)
    <3>1. "travels" \in DOMAIN t
      <4>1. DOMAIN t = DOMAIN tx
        BY <1>1, EffectedFields DEF t
      <4>2. QED BY <1>2, <4>1 DEF Transaction
    <3>2. QED BY <2>3, <3>1
  <2>7. tx'.travels = <<reservation>>
    BY <2>1, <2>2, <2>6
  <2>8. Len(tx'.travels) = 1 /\ tx'.travels[1].kind = "choose_destination"
    BY <2>4, <2>7
  <2>9. QED BY <1>1, <1>3, <1>5, <2>1, <2>2, <2>5, <2>8
<1>16. CASE LeaveCell
  <2>1. tx' = [tx EXCEPT !.todo = Tail(@)]
    BY <1>16 DEF LeaveCell
  <2>2. /\ tx'.d = tx.d /\ tx'.type = tx.type /\ tx'.movement = tx.movement
        /\ tx'.travel = tx.travel /\ tx'.travels = tx.travels
    BY <1>2, <2>1 DEF Transaction
  <2>3. QED BY <1>1, <1>3, <1>5, <2>2
<1>17. QED BY <1>6, <1>7, <1>8, <1>9, <1>10, <1>11, <1>12, <1>13, <1>14, <1>15, <1>16
           DEF Effects

(* An effect keeps the invariant: what it does not touch stays lawful, and *)
(* it moves the pawn only in a command that may. *)
LEMMA EffectsTurnInv == TypeOK /\ TurnInv /\ Effects => TurnInv'
<1> SUFFICES ASSUME TypeOK, TurnInv, Effects PROVE TurnInv'
  OBVIOUS
<1>1. /\ tx # Idle /\ tx.todo # <<>> /\ tx' # Idle /\ db' = db
      /\ tx'.type = tx.type /\ tx'.movement = tx.movement /\ tx'.travel = tx.travel
      /\ SameTurn(tx.d, tx'.d)
      /\ \/ tx'.travels = tx.travels
         \/ /\ tx.travels = <<>> /\ ~HasTravel(tx.d)
            /\ Len(tx'.travels) = 1 /\ tx'.travels[1].kind = "choose_destination"
  BY EffectsKeep
<1>2. /\ Lawful(tx.type, tx.d, tx.todo, tx.movement, tx.travel)
      /\ OnePendingTravel(tx.d) /\ NewTravelAlone
  BY <1>1 DEF TurnInv
<1>3. OnePendingTravel(db)' /\ EndedIsQuiet'
  BY <1>1 DEF TurnInv, OnePendingTravel, PendingTravels, EndedIsQuiet
<1>4. OnePendingTravel(tx.d)' /\ (HasTravel(tx.d)' <=> HasTravel(tx.d))
  BY <1>1, <1>2 DEF OnePendingTravel, PendingTravels, SameTurn, HasTravel
<1>5. tx.d.status # "ended" /\ tx'.d.status # "ended"
  BY <1>1, <1>2 DEF Lawful, EndLawful, SameTurn
<1>6. tx'.travels \in Seq(Task) /\ tx.travels \in Seq(Task)
  BY <1>1, EffectsType DEF TypeOK, Work, Transaction
<1>7. NewTravelAlone'
  <2>1. CASE tx'.travels = tx.travels
    BY <1>2, <1>4, <1>5, <2>1 DEF NewTravelAlone
  <2>2. CASE tx'.travels # tx.travels
    <3>1. DOMAIN tx'.travels = {1}
      BY <1>1, <1>6, <2>2
    <3>2. Len(tx'.travels) = 1 /\ ~HasTravel(tx.d)
      BY <1>1, <2>2
    <3>3. \A k \in DOMAIN tx'.travels : tx'.travels[k].kind = "choose_destination"
      BY <1>1, <2>2, <3>1
    <3>4. QED BY <1>4, <1>5, <3>2, <3>3 DEF NewTravelAlone
  <2>3. QED BY <2>1, <2>2
<1>8. TasksLawful(tx.d, tx.movement, tx.travel)'
  <2>1. TasksLawful(tx.d, tx.movement, tx.travel)
    BY <1>2 DEF Lawful
  <2>2. QED BY <1>1, <2>1 DEF TasksLawful, SameTurn, MayTravelTo, HoldsTurn
<1>9. PawnLawful(tx.type, tx.d, tx.todo, tx.movement, tx.travel)'
  BY <1>1, <1>2 DEF Lawful, PawnLawful, MayRollDoubles, Locked
<1>10. Lawful(tx.type, tx.d, tx.todo, tx.movement, tx.travel)'
  BY <1>1, <1>2, <1>5, <1>8, <1>9 DEF Lawful, EndLawful, SameTurn
<1>11. QED BY <1>3, <1>4, <1>7, <1>10 DEF TurnInv

(* The working copy and the reservation it makes become the session. *)
LEMMA CommitFields ==
  ASSUME TypeOK, TurnInv, Commit
  PROVE  /\ tx \in Transaction /\ tx' = Idle
         /\ db'.session = tx.d.session /\ db'.cell = tx.d.cell
         /\ db'.status = tx.d.status
         /\ db'.tasks = tx.d.tasks \o tx.travels
         /\ db'.presentation = IF InvalidatesPresentation THEN tx.d.presentation + 1
                                                          ELSE tx.d.presentation
         /\ db'.last = [type |-> tx.type, movement |-> tx.movement, travel |-> tx.travel]
         /\ \A k \in DOMAIN tx.d.tasks :
              k \in DOMAIN db'.tasks /\ db'.tasks[k] = tx.d.tasks[k]
         /\ PendingTravels(db') = {} \/ \E k : PendingTravels(db') = {k}
         /\ tx.travels = <<>> => DOMAIN db'.tasks = DOMAIN tx.d.tasks
<1>1. tx \in Transaction /\ tx # Idle /\ tx' = Idle
  BY DEF Commit, Finished, TypeOK
<1>2. tx.d \in SessionState /\ tx.travels \in Seq(Task) /\ tx.d.tasks \in Seq(Task)
  BY <1>1 DEF Transaction, SessionState
<1>3. /\ db'.session = tx.d.session /\ db'.cell = tx.d.cell
      /\ db'.status = tx.d.status
      /\ db'.tasks = tx.d.tasks \o tx.travels
      /\ db'.presentation = IF InvalidatesPresentation THEN tx.d.presentation + 1
                                                       ELSE tx.d.presentation
      /\ db'.last = [type |-> tx.type, movement |-> tx.movement, travel |-> tx.travel]
  BY <1>2 DEF Commit, SessionState
<1>4. /\ \A k \in DOMAIN tx.d.tasks :
           k \in DOMAIN db'.tasks /\ db'.tasks[k] = tx.d.tasks[k]
      /\ tx.travels = <<>> => DOMAIN db'.tasks = DOMAIN tx.d.tasks
      /\ Len(tx.travels) <= 1 =>
           \A k \in DOMAIN db'.tasks : k \in DOMAIN tx.d.tasks \/ k = Len(tx.d.tasks) + 1
  <2> DEFINE S == tx.d.tasks
             T == tx.travels
  <2>1. /\ DOMAIN S = 1 .. Len(S) /\ Len(S) \in Nat /\ Len(T) \in Nat
        /\ DOMAIN (S \o T) = 1 .. Len(S) + Len(T)
        /\ \A k \in 1 .. Len(S) : (S \o T)[k] = S[k]
    <3>1. S \in Seq(Task) /\ T \in Seq(Task)
      BY <1>2
    <3> HIDE DEF S, T
    <3>2. /\ S \o T \in Seq(Task) /\ Len(S \o T) = Len(S) + Len(T)
          /\ \A k \in 1 .. Len(S) : (S \o T)[k] = S[k]
      BY <3>1, ConcatProperties
    <3>3. QED BY <3>1, <3>2, LenProperties
  <2>2. T = <<>> => Len(T) = 0
    OBVIOUS
  <2>3. db'.tasks = S \o T
    BY <1>3
  <2> HIDE DEF S, T
  <2>4. \A k \in DOMAIN S : k \in DOMAIN db'.tasks /\ db'.tasks[k] = S[k]
    BY <2>1, <2>3
  <2>5. T = <<>> => DOMAIN db'.tasks = DOMAIN S
    BY <2>1, <2>2, <2>3
  <2>6. Len(T) <= 1 => \A k \in DOMAIN db'.tasks : k \in DOMAIN S \/ k = Len(S) + 1
    BY <2>1, <2>3
  <2>7. QED BY <2>4, <2>5, <2>6 DEF S, T
<1>5. /\ OnePendingTravel(tx.d) /\ Len(tx.travels) <= 1
      /\ tx.travels # <<>> => PendingTravels(tx.d) = {}
  BY <1>1 DEF TurnInv, NewTravelAlone, HasTravel
<1>6. \A j, k \in PendingTravels(db') : j = k
  <2>1. \A k \in PendingTravels(db') :
          \/ k \in PendingTravels(tx.d)
          \/ tx.travels # <<>> /\ k = Len(tx.d.tasks) + 1
    BY <1>4, <1>5 DEF PendingTravels
  <2>2. QED BY <1>5, <2>1 DEF OnePendingTravel
<1>7. PendingTravels(db') = {} \/ \E k : PendingTravels(db') = {k}
  BY <1>6
<1>8. QED BY <1>1, <1>3, <1>4, <1>7

(* A commit keeps the invariant. *)
LEMMA CommitTurnInv == TypeOK /\ TurnInv /\ Commit => TurnInv'
<1> SUFFICES ASSUME TypeOK, TurnInv, Commit PROVE TurnInv'
  OBVIOUS
<1>1. OnePendingTravel(db)'
  BY CommitFields DEF OnePendingTravel
<1>2. EndedIsQuiet'
  <2>1. ASSUME db'.status = "ended" PROVE \A k \in DOMAIN db'.tasks : db'.tasks[k].status # "pending"
    <3>1. tx.d.status = "ended" /\ tx # Idle
      BY <2>1, CommitFields DEF Commit, Finished
    <3>2. tx.travels = <<>>
      BY <3>1 DEF TurnInv, NewTravelAlone
    <3>3. \A k \in DOMAIN tx.d.tasks : tx.d.tasks[k].status # "pending"
      BY <3>1 DEF TurnInv, Lawful, EndLawful
    <3>4. QED BY <3>2, <3>3, CommitFields
  <2>2. QED BY <2>1 DEF EndedIsQuiet
<1>3. QED BY <1>1, <1>2, CommitFields DEF TurnInv

(* So do the steps that touch no pending trip. *)
LEMMA OtherStepsTurnInv ==
  ASSUME TypeOK, TurnInv
  PROVE  /\ Rollback => TurnInv'
         /\ \A c \in Cells, d \in Directions, b \in BoardIds : createSession(c, d, b) => TurnInv'
         /\ \A c \in Catalogs : PublishItems(c) => TurnInv'
         /\ (\A c \in Counters : LegacySettle(c) => TurnInv') /\ (Backfill => TurnInv')
         /\ UNCHANGED vars => TurnInv'
<1>1. db \in SessionState
  BY DEF TypeOK
<1>2. ASSUME db'.tasks = db.tasks, db'.status = db.status, tx' = Idle PROVE TurnInv'
  BY <1>2 DEF TurnInv, OnePendingTravel, PendingTravels, EndedIsQuiet
<1>3. Rollback => TurnInv'
  BY <1>2 DEF Rollback
<1>4. ASSUME NEW c \in Cells, NEW d \in Directions, NEW b \in BoardIds, createSession(c, d, b)
      PROVE  TurnInv'
  <2>1. db'.tasks = <<>> /\ db'.status = "running" /\ tx' = Idle
    BY <1>4 DEF createSession, Fresh
  <2>2. QED BY <2>1 DEF TurnInv, OnePendingTravel, PendingTravels, EndedIsQuiet
<1>5. ASSUME NEW c \in Catalogs, PublishItems(c) PROVE TurnInv'
  <2>1. db'.tasks = db.tasks /\ db'.status = db.status /\ tx' = Idle
    BY <1>1, <1>5 DEF PublishItems, SessionState
  <2>2. QED BY <1>2, <2>1
<1>6. ASSUME NEW c \in Counters, LegacySettle(c) PROVE TurnInv'
  <2>1. db'.tasks = db.tasks /\ db'.status = db.status /\ tx' = Idle
    BY <1>1, <1>6 DEF LegacySettle, Active, SessionState
  <2>2. QED BY <1>2, <2>1
<1>9. ASSUME Backfill PROVE TurnInv'
  <2>1. db'.tasks = db.tasks /\ db'.status = db.status /\ tx' = Idle
    BY <1>1, <1>9 DEF Backfill, SessionState
  <2>2. QED BY <1>2, <2>1
<1>7. ASSUME UNCHANGED vars PROVE TurnInv'
  <2>1. db' = db /\ tx' = tx
    BY <1>7 DEF vars
  <2>2. OnePendingTravel(db)' /\ EndedIsQuiet'
    BY <2>1 DEF TurnInv, OnePendingTravel, PendingTravels, EndedIsQuiet
  <2>3. ASSUME tx # Idle
        PROVE  Lawful(tx.type, tx.d, tx.todo, tx.movement, tx.travel)'
                 /\ OnePendingTravel(tx.d)' /\ NewTravelAlone'
    BY <2>1, <2>3 DEF TurnInv, Lawful, TasksLawful, PawnLawful, EndLawful, MayRollDoubles,
         MayTravelTo, HoldsTurn, Locked, OnePendingTravel, PendingTravels, NewTravelAlone,
         HasTravel
  <2>4. QED BY <2>1, <2>2, <2>3 DEF TurnInv
<1>8. QED BY <1>3, <1>4, <1>5, <1>6, <1>7, <1>9

(* The invariant holds at the start and after every step. *)
LEMMA TurnInvInductive ==
  /\ Init => TurnInv
  /\ TypeOK /\ TurnInv /\ [Next]_vars => TurnInv'
<1>1. Init => TurnInv
  BY DEF Init, TurnInv, OnePendingTravel, PendingTravels, EndedIsQuiet
<1>2. ASSUME TypeOK, TurnInv, MovementCommands PROVE TurnInv'
  BY <1>2, RollTurnInv, TravelCommandsTurnInv, QuietCommandsTurnInv, SetPositionTurnInv
     DEF MovementCommands
<1>3. ASSUME TypeOK, TurnInv, Next PROVE TurnInv'
  BY <1>2, <1>3, QuietCommandsTurnInv, EffectsTurnInv, CommitTurnInv, OtherStepsTurnInv
     DEF Next, Work
<1>4. QED BY <1>1, <1>3, OtherStepsTurnInv

(* However rolls, choices, pauses, locks and corrections follow one another*)
(* every open command is lawful and at most one trip is pending. *)
THEOREM TurnsAreLawful == Spec => []TurnInv
BY TypeCorrect, TurnInvInductive, PTL DEF Spec

(* At most one trip is pending, and the unique index never refuses one. *)
THEOREM OneTripAtATime == Spec => []TravelIsUnique
<1>1. TypeOK /\ TurnInv => TravelIsUnique
  <2> SUFFICES ASSUME TypeOK, TurnInv PROVE TravelIsUnique
    OBVIOUS
  <2>1. Throughout(OnePendingTravel)
    BY DEF TurnInv, Throughout
  <2>2. ASSUME Finished PROVE Storable
    <3>1. tx \in Transaction /\ tx # Idle
      BY <2>2 DEF Finished, TypeOK
    <3>2. /\ OnePendingTravel(tx.d) /\ Len(tx.travels) <= 1
          /\ tx.travels # <<>> => PendingTravels(tx.d) = {}
      BY <3>1 DEF TurnInv, NewTravelAlone, HasTravel
    <3>3. tx.travels \in Seq(Task)
      BY <3>1 DEF Transaction
    <3>4. CASE PendingTravels(tx.d) = {}
      <4>1. Cardinality(PendingTravels(tx.d)) = 0
        BY <3>4, FS_EmptySet
      <4>2. QED BY <3>2, <3>3, <4>1 DEF Storable
    <3>5. CASE PendingTravels(tx.d) # {}
      <4>1. PICK k : PendingTravels(tx.d) = {k}
        BY <3>2, <3>5 DEF OnePendingTravel
      <4>2. Cardinality(PendingTravels(tx.d)) = 1
        BY <4>1, FS_Singleton
      <4>3. Len(tx.travels) = 0
        BY <3>2, <3>5
      <4>4. QED BY <4>2, <4>3 DEF Storable
    <3>6. QED BY <3>4, <3>5
  <2>3. QED BY <2>1, <2>2 DEF TravelIsUnique
<1>2. QED BY <1>1, TypeCorrect, TurnsAreLawful, PTL

(* A session that has ended owes nobody a destination. *)
THEOREM EndsQuietly == Spec => []EndedIsQuiet
<1>1. TurnInv => EndedIsQuiet
  BY DEF TurnInv
<1>2. QED BY <1>1, TurnsAreLawful, PTL

(* -------------------------- What a commit may do ------------------------- *)

(* Only a commit gives the same session another pawn, task or result. *)
LEMMA OnlyCommits ==
  ASSUME TypeOK, [Next]_vars
  PROVE  \/ Commit
         \/ db'.session # db.session
         \/ /\ db'.tasks = db.tasks /\ db'.cell = db.cell /\ db'.last = db.last
            /\ db'.presentation = db.presentation
<1>1. db \in SessionState
  BY DEF TypeOK
<1>2. db' = db => db'.tasks = db.tasks /\ db'.cell = db.cell /\ db'.last = db.last
                    /\ db'.presentation = db.presentation
  OBVIOUS
<1>3. UNCHANGED vars \/ Effects \/ Rollback => db' = db
  BY DEF vars, Effects, EffectNone, EffectMission, EffectSetDirection, EffectCounterAdd,
         EffectCounterSettle, EffectModifyRoll, EffectGrantItem, EffectMoveSteps,
         EffectChooseDestination, EffectMovementLock, LeaveCell, Done, Rollback
<1>4. MovementCommands => db' = db
  BY DEF MovementCommands, roll_dice, pause, resume, end_session, cancel_destination,
         clear_movement_lock, clear_roll_modifier, set_direction, set_position,
         choose_destination, travel_now, set_movement_lock_remaining, apply_board_version,
         Change, Begin
<1>5. ResourceCommands => db' = db
  BY DEF ResourceCommands, adjust_counter, adjust_inventory, complete_mission,
         waive_mission, use_shield, Change, Begin
<1>6. ASSUME NEW c \in Cells, NEW d \in Directions, NEW b \in BoardIds, createSession(c, d, b)
      PROVE  db'.session # db.session
  <2>1. db'.session = db.session + 1
    BY <1>6 DEF createSession, Fresh
  <2>2. QED BY <1>1, <2>1 DEF SessionState
<1>7. ASSUME NEW c \in Catalogs, PublishItems(c)
      PROVE  /\ db'.tasks = db.tasks /\ db'.cell = db.cell /\ db'.last = db.last
             /\ db'.presentation = db.presentation
  BY <1>1, <1>7 DEF PublishItems, SessionState
<1>8. ASSUME NEW c \in Counters, LegacySettle(c)
      PROVE  /\ db'.tasks = db.tasks /\ db'.cell = db.cell /\ db'.last = db.last
             /\ db'.presentation = db.presentation
  BY <1>1, <1>8 DEF LegacySettle, SessionState
<1>9. ASSUME Backfill
      PROVE  /\ db'.tasks = db.tasks /\ db'.cell = db.cell /\ db'.last = db.last
             /\ db'.presentation = db.presentation
  BY <1>1, <1>9 DEF Backfill, SessionState
<1>10. QED BY <1>2, <1>3, <1>4, <1>5, <1>6, <1>7, <1>8, <1>9 DEF Next, Work

(* What the invariant says of the working copy a commit makes permanent. *)
LEMMA CommitLawful ==
  ASSUME TypeOK, TurnInv, Commit
  PROVE  /\ Lawful(tx.type, tx.d, tx.todo, tx.movement, tx.travel)
         /\ \A k \in DOMAIN db.tasks : db'.tasks[k] = tx.d.tasks[k]
         /\ db'.last.type = tx.type /\ db'.last.movement = tx.movement
         /\ db'.last.travel = tx.travel
<1>1. Lawful(tx.type, tx.d, tx.todo, tx.movement, tx.travel)
  BY DEF TurnInv, Commit, Finished
<1>2. DOMAIN tx.d.tasks = DOMAIN db.tasks
  BY <1>1 DEF Lawful, TasksLawful
<1>3. QED BY <1>1, <1>2, CommitFields

(* The turn given up for a trip is never lost. *)
THEOREM TurnIsHonoured == Spec => ReservedTurnHonoured
<1> DEFINE A == SameSession =>
                  \A k \in DOMAIN db.tasks :
                    TaskCloses(k) /\ HoldsTurn(db.tasks[k]) =>
                      db'.last.travel \in {"moved", "returned"} /\ db'.last.movement
<1>1. TypeOK /\ TurnInv /\ [Next]_vars => A
  <2> SUFFICES ASSUME TypeOK, TurnInv, [Next]_vars, SameSession, NEW k \in DOMAIN db.tasks,
                      TaskCloses(k), HoldsTurn(db.tasks[k])
               PROVE  db'.last.travel \in {"moved", "returned"} /\ db'.last.movement
    OBVIOUS
  <2>1. Commit
    BY OnlyCommits DEF SameSession, TaskCloses
  <2>2. TasksLawful(tx.d, tx.movement, tx.travel) /\ db'.tasks[k] = tx.d.tasks[k]
          /\ db'.last.movement = tx.movement /\ db'.last.travel = tx.travel
    BY <2>1, CommitLawful DEF Lawful
  <2>3. QED BY <2>2 DEF TasksLawful, TaskCloses
<1>2. QED BY <1>1, TypeCorrect, TurnsAreLawful, PTL DEF Spec, ReservedTurnHonoured

(* A trip never ends where it may not. *)
THEOREM TripsAreAllowed == Spec => TripIsAllowed
<1> DEFINE A == SameSession =>
                  \A k \in DOMAIN db.tasks :
                    TaskCloses(k) /\ db'.tasks[k].status = "resolved" =>
                      MayTravelTo(db, db'.tasks[k], db'.tasks[k].selected)
<1>1. TypeOK /\ TurnInv /\ [Next]_vars => A
  <2> SUFFICES ASSUME TypeOK, TurnInv, [Next]_vars, SameSession, NEW k \in DOMAIN db.tasks,
                      TaskCloses(k), db'.tasks[k].status = "resolved"
               PROVE  MayTravelTo(db, db'.tasks[k], db'.tasks[k].selected)
    OBVIOUS
  <2>1. Commit
    BY OnlyCommits DEF SameSession, TaskCloses
  <2>2. TasksLawful(tx.d, tx.movement, tx.travel) /\ db'.tasks[k] = tx.d.tasks[k]
    BY <2>1, CommitLawful DEF Lawful
  <2>3. QED BY <2>2 DEF TasksLawful, TaskCloses
<1>2. QED BY <1>1, TypeCorrect, TurnsAreLawful, PTL DEF Spec, TripIsAllowed

(* A lock holds the pawn against everything but a correction and doubles. *)
THEOREM LocksHold == Spec => LockHoldsPawn
<1> DEFINE A == SameSession /\ Locked(db) =>
                  /\ db'.last # db.last => db'.last.travel \notin {"moved", "returned"}
                  /\ db'.cell # db.cell =>
                       \/ db'.last.type = "set_position"
                       \/ /\ db'.last.type = "roll_dice"
                          /\ db.lock.type = "skip_rolls_or_doubles"
                          /\ db.lock.onDoubles = "move_sum"
<1>1. TypeOK /\ TurnInv /\ [Next]_vars => A
  <2> SUFFICES ASSUME TypeOK, TurnInv, [Next]_vars, SameSession, Locked(db) PROVE A
    OBVIOUS
  <2>1. CASE Commit
    <3>1. PawnLawful(tx.type, tx.d, tx.todo, tx.movement, tx.travel)
            /\ db'.last.type = tx.type /\ db'.last.travel = tx.travel /\ db'.cell = tx.d.cell
      BY <2>1, CommitLawful, CommitFields DEF Lawful
    <3>2. QED BY <3>1 DEF PawnLawful, MayRollDoubles
  <2>2. CASE ~Commit
    BY <2>2, OnlyCommits DEF SameSession
  <2>3. QED BY <2>1, <2>2
<1>2. QED BY <1>1, TypeCorrect, TurnsAreLawful, PTL DEF Spec, LockHoldsPawn

(* The overlay is always told when the pawn stands somewhere else. *)
THEOREM PawnsArePresented == Spec => PawnIsPresented
<1> DEFINE A == SameSession /\ db'.cell # db.cell =>
                  db'.last.movement \/ db'.presentation > db.presentation
<1>1. TypeOK /\ TurnInv /\ [Next]_vars => A
  <2> SUFFICES ASSUME TypeOK, TurnInv, [Next]_vars, SameSession, db'.cell # db.cell
               PROVE  db'.last.movement \/ db'.presentation > db.presentation
    OBVIOUS
  <2>1. Commit
    BY OnlyCommits DEF SameSession
  <2>2. /\ PawnLawful(tx.type, tx.d, tx.todo, tx.movement, tx.travel)
        /\ tx.d.presentation = db.presentation /\ db'.last.movement = tx.movement
        /\ db'.cell = tx.d.cell
        /\ db'.presentation = IF InvalidatesPresentation THEN tx.d.presentation + 1
                                                         ELSE tx.d.presentation
    BY <2>1, CommitLawful, CommitFields DEF Lawful
  <2>3. tx.movement \/ tx.type = "set_position"
    BY <2>2 DEF PawnLawful
  <2>4. db.presentation \in Nat
    BY DEF TypeOK, SessionState
  <2>5. QED BY <2>2, <2>3, <2>4 DEF InvalidatesPresentation
<1>2. QED BY <1>1, TypeCorrect, TurnsAreLawful, PTL DEF Spec, PawnIsPresented

(* --------------------------------- Stock --------------------------------- *)

Open(d) == d.status \in {"running", "paused"}

(* Stock depends on the stock, the ledger, the catalog and the status. *)
LEMMA StockFrame ==
  ASSUME NEW d, NEW e, StockSound(d), e.stock = d.stock, e.ledger = d.ledger,
         e.catalog = d.catalog, Open(e) => Open(d)
  PROVE  StockSound(e)
BY DEF StockSound, StockFits, LedgerExplains, Open

(* An item in the catalog may be moved within its limit. *)
LEMMA MovedSound ==
  ASSUME NEW d \in SessionState, StockSound(d), NEW i \in Items, NEW delta \in Int,
         i \in d.catalog.active, d.stock[i].quantity + delta \in 0 .. d.catalog.max[i]
  PROVE  StockSound(Moved(d, i, delta))
<1> DEFINE e == Moved(d, i, delta)
           row == [before |-> d.stock[i].quantity, delta |-> delta,
                   after |-> d.stock[i].quantity + delta,
                   revision |-> d.stock[i].revision + 1]
           stock == [quantity |-> d.stock[i].quantity + delta,
                     revision |-> d.stock[i].revision + 1]
           rows == d.ledger[i]
<1>1. /\ d.stock \in [Items -> Stock] /\ d.ledger \in [Items -> Seq(LedgerRow)]
      /\ d.stock[i].quantity \in Nat /\ d.stock[i].revision \in Nat /\ rows \in Seq(LedgerRow)
  BY DEF SessionState, Stock
<1>2. e = [d EXCEPT !.stock[i] = stock, !.ledger[i] = Append(@, row)]
  BY <1>1 DEF Moved, SessionState
<1> HIDE DEF e, row, stock
<1>3. /\ e.stock[i] = stock /\ e.ledger[i] = Append(rows, row)
      /\ \A j \in Items \ {i} : e.stock[j] = d.stock[j] /\ e.ledger[j] = d.ledger[j]
      /\ e.catalog = d.catalog /\ e.status = d.status
  BY <1>1, <1>2 DEF SessionState
<1>4. LedgerExplains(d, i)
  BY DEF StockSound
<1>5. LedgerExplains(e, i)
  <2>1. /\ row.before = d.stock[i].quantity /\ row.delta = delta
        /\ row.after = d.stock[i].quantity + delta
        /\ row.revision = d.stock[i].revision + 1
        /\ stock.quantity = d.stock[i].quantity + delta
        /\ stock.revision = d.stock[i].revision + 1
    BY DEF row, stock
  <2>2. row \in LedgerRow
    BY <1>1 DEF row, LedgerRow
  <2>3. /\ Append(rows, row) \in Seq(LedgerRow) /\ Append(rows, row) # <<>>
        /\ Len(Append(rows, row)) = Len(rows) + 1
        /\ \A n \in 1 .. Len(rows) : Append(rows, row)[n] = rows[n]
        /\ Append(rows, row)[Len(rows) + 1] = row
    BY <1>1, <2>2, AppendProperties
  <2>4. /\ Len(rows) = d.stock[i].revision
        /\ d.stock[i].quantity = IF rows = <<>> THEN 0 ELSE rows[Len(rows)].after
        /\ \A n \in 1 .. Len(rows) :
             /\ rows[n].revision = n /\ rows[n].after = rows[n].before + rows[n].delta
             /\ rows[n].before = IF n = 1 THEN 0 ELSE rows[n - 1].after
    BY <1>1, <1>4, LenProperties DEF LedgerExplains
  <2> DEFINE all == Append(rows, row)
  <2>5. e.ledger[i] = all /\ e.stock[i] = stock /\ DOMAIN all = 1 .. Len(all)
        /\ Len(rows) \in Nat /\ (rows = <<>> <=> Len(rows) = 0)
    BY <1>1, <1>3, <2>3
  <2> HIDE DEF all
  <2>6. /\ Len(all) = Len(rows) + 1 /\ all # <<>> /\ all[Len(all)] = row
        /\ \A n \in 1 .. Len(rows) : all[n] = rows[n]
    BY <2>3, <2>5 DEF all
  <2>7. \A n \in 1 .. Len(all) :
          /\ all[n].revision = n /\ all[n].after = all[n].before + all[n].delta
          /\ all[n].before = IF n = 1 THEN 0 ELSE all[n - 1].after
    <3> TAKE n \in 1 .. Len(all)
    <3>1. CASE n \in 1 .. Len(rows)
      <4>1. n = 1 \/ n - 1 \in 1 .. Len(rows)
        BY <3>1, <2>5
      <4>2. QED BY <3>1, <4>1, <2>4, <2>5, <2>6
    <3>2. CASE n = Len(rows) + 1
      <4>1. all[n] = row
        BY <3>2, <2>6
      <4>2. n = 1 \/ (n - 1 = Len(rows) /\ Len(rows) \in 1 .. Len(rows))
        BY <3>2, <2>5
      <4>3. row.revision = n
        BY <3>2, <2>1, <2>4
      <4>4. row.after = row.before + row.delta
        BY <2>1
      <4>5. CASE n = 1
        <5>1. rows = <<>>
          BY <3>2, <4>5, <2>5
        <5>2. row.before = 0
          BY <5>1, <2>1, <2>4
        <5>3. QED BY <4>1, <4>3, <4>4, <4>5, <5>2
      <4>6. CASE n # 1
        <5>1. n - 1 = Len(rows) /\ Len(rows) \in 1 .. Len(rows) /\ rows # <<>>
          BY <4>2, <4>6, <2>5
        <5>2. all[n - 1] = rows[Len(rows)]
          BY <5>1, <2>6
        <5>3. row.before = rows[Len(rows)].after
          BY <5>1, <2>1, <2>4
        <5>4. QED BY <4>1, <4>3, <4>4, <4>6, <5>2, <5>3
      <4>7. QED BY <4>5, <4>6
    <3>3. QED BY <3>1, <3>2, <2>5, <2>6
  <2>8. QED BY <2>1, <2>4, <2>5, <2>6, <2>7 DEF LedgerExplains
<1>6. \A j \in Items \ {i} : LedgerExplains(e, j)
  BY <1>3 DEF StockSound, LedgerExplains
<1>7. StockFits(e)
  <2>1. stock.quantity <= d.catalog.max[i]
    BY DEF stock
  <2>2. QED BY <1>3, <2>1 DEF StockSound, StockFits
<1>8. QED BY <1>5, <1>6, <1>7 DEF StockSound, e

(* A transaction that begins from sound stock has sound stock. *)
LEMMA BeginStockInv ==
  ASSUME StockInv, NEW type, NEW o, Begin(type, o), StockSound(o.d)
  PROVE  StockInv'
<1>1. tx'.d = o.d /\ db' = db
  BY DEF Begin
<1>2. StockSound(db)
  BY DEF StockInv, Throughout
<1>3. StockSound(db)' /\ StockSound(tx.d)'
  BY <1>1, <1>2 DEF StockSound, StockFits, LedgerExplains
<1>4. QED BY <1>3 DEF StockInv, Throughout

(* A change of the state is such a beginning. *)
LEMMA ChangeStockInv ==
  ASSUME StockInv, NEW type, NEW d, Change(type, d), StockSound(d)
  PROVE  StockInv'
<1>1. Outcome(d, <<>>, FALSE, "none").d = d
  BY DEF Outcome
<1>2. QED BY <1>1, BeginStockInv DEF Change

(* e holds the stock, the counters and the missions of d, and is open only *)
(* if d is.                                                                *)
SameResources(d, e) ==
  /\ e.stock = d.stock /\ e.ledger = d.ledger /\ e.catalog = d.catalog
  /\ e.counters = d.counters /\ e.credited = d.credited /\ e.missions = d.missions
  /\ Open(e) => Open(d)

(* A movement command begins a transaction that touches none of these.     *)
LEMMA MovementKeepsResources ==
  ASSUME TypeOK, MovementCommands
  PROVE  \E type, o : Begin(type, o) /\ SameResources(db, o.d)
<1> DEFINE Begun == \E type, o : Begin(type, o) /\ SameResources(db, o.d)
<1>1. db \in SessionState
  BY DEF TypeOK
<1> DEFINE Same(d) == SameResources(db, d)
<1>2. Same(db)
  BY DEF SameResources
<1>3. ASSUME NEW type, NEW d, Same(d), Change(type, d) PROVE Begun
  <2>1. Outcome(d, <<>>, FALSE, "none").d = d
    BY DEF Outcome
  <2>2. QED BY <1>3, <2>1 DEF Change
<1>4. Active => Open(db)
  BY DEF Active, Open
<1>5. HasTravel(db) => /\ pendingTravel(db) \in DOMAIN db.tasks
                       /\ db.tasks[pendingTravel(db)] \in Task
                       /\ pendingTravel(db) \in PendingTravels(db)
  BY <1>1, PendingTravelType
<1>6. ASSUME HasTravel(db), Open(db), NEW d \in SessionState, d.tasks = db.tasks,
             d.cell = db.cell, d.lock = db.lock, d.session = db.session,
             d.presentation = db.presentation, Same(d), d.status # "ended",
             NEW r \in Task, NEW paused \in BOOLEAN, NEW type,
             r.kind = db.tasks[pendingTravel(db)].kind,
             HoldsTurn(db.tasks[pendingTravel(db)]) => HoldsTurn(r), Locked(db) => paused,
             \E o \in applyTravelDecision(d, pendingTravel(db), r, decideTravel(r, paused)) :
                Begin(type, o)
      PROVE  Begun
  <2>1. PICK o \in applyTravelDecision(d, pendingTravel(db), r, decideTravel(r, paused)) :
               Begin(type, o)
    BY <1>6
  <2>2. Keeps(d, o.d)
    BY <1>5, <1>6, <2>1, DecisionLawful
  <2>3. Same(o.d)
    BY <1>6, <2>2 DEF Keeps, SameResources, Open
  <2>4. QED BY <2>1, <2>3
<1>7. ASSUME roll_dice PROVE Begun
  <2>1. PICK o \in executeRollTurn(db) : Begin("roll_dice", o)
    BY <1>7 DEF roll_dice
  <2>2. CASE ~HasTravel(db) \/ Locked(db)
    <3>1. Keeps(db, o.d)
      BY <1>1, <2>1, <2>2, NormalRollKeeps DEF executeRollTurn
    <3>2. Same(o.d)
      BY <3>1 DEF Keeps, Open, SameResources
    <3>3. QED BY <2>1, <3>2
  <2>3. CASE HasTravel(db) /\ ~Locked(db)
    <3> DEFINE held == db.tasks[pendingTravel(db)]
               r == IF HoldsTurn(held) THEN held ELSE reserveTravelTurn(held, db.revision + 1)
    <3>1. db.revision + 1 \in Nat
      BY <1>1 DEF SessionState
    <3>2. r \in Task /\ r.kind = held.kind /\ (HoldsTurn(held) => HoldsTurn(r))
      BY <1>5, <2>3, <3>1 DEF reserveTravelTurn, Task
    <3>3. o \in applyTravelDecision(db, pendingTravel(db), r, decideTravel(r, FALSE))
      BY <2>1, <2>3 DEF executeRollTurn
    <3> HIDE DEF r
    <3>4. \E p \in applyTravelDecision(db, pendingTravel(db), r, decideTravel(r, FALSE)) :
             Begin("roll_dice", p)
      BY <2>1, <3>3
    <3>5. Open(db) /\ db.status # "ended"
      BY <1>4, <1>7 DEF roll_dice, Open
    <3>6. QED BY <1>1, <1>2, <1>6, <2>3, <3>2, <3>4, <3>5
  <2>4. QED BY <2>2, <2>3
<1>8. ASSUME resume PROVE Begun
  <2> DEFINE d == [db EXCEPT !.status = "running", !.auto = FALSE]
             r == db.tasks[pendingTravel(db)]
  <2>1. /\ d \in SessionState /\ d.tasks = db.tasks /\ d.cell = db.cell /\ d.lock = db.lock
        /\ d.session = db.session /\ d.presentation = db.presentation /\ d.status # "ended"
        /\ Same(d) /\ Open(db)
    BY <1>1, <1>4, <1>8 DEF SessionState, Statuses, resume, SameResources, Open
  <2>2. CASE HasTravel(db) /\ ~Locked(db) /\ HoldsTurn(r)
    <3>1. \E o \in applyTravelDecision(d, pendingTravel(db), r, decideTravel(r, FALSE)) :
             Begin("resume", o)
      BY <1>8, <2>2 DEF resume
    <3> HIDE DEF d
    <3>2. QED BY <1>5, <1>2, <1>6, <2>1, <2>2, <3>1
  <2>3. CASE ~(HasTravel(db) /\ ~Locked(db) /\ HoldsTurn(r))
    <3>1. Change("resume", d)
      BY <1>8, <2>3 DEF resume
    <3>2. QED BY <1>3, <2>1, <3>1
  <2>4. QED BY <2>2, <2>3
<1>9. HeldBack \in BOOLEAN /\ (Locked(db) => HeldBack)
  BY DEF HeldBack
<1>10. ASSUME NEW c \in Cells, choose_destination(c) PROVE Begun
  <2> DEFINE r == [db.tasks[pendingTravel(db)] EXCEPT !.selected = c]
  <2>1. HasTravel(db) /\ Open(db) /\ db.status # "ended"
    BY <1>4, <1>10 DEF choose_destination, Open
  <2>2. /\ r \in Task /\ r.kind = db.tasks[pendingTravel(db)].kind
        /\ (HoldsTurn(db.tasks[pendingTravel(db)]) => HoldsTurn(r))
    BY <1>5, <2>1 DEF Task, HoldsTurn
  <2>3. \E o \in applyTravelDecision(db, pendingTravel(db), r, decideTravel(r, HeldBack)) :
           Begin("choose_destination", o)
    BY <1>10 DEF choose_destination
  <2> HIDE DEF r
  <2>4. QED BY <1>1, <1>2, <1>6, <1>9, <2>1, <2>2, <2>3
<1>11. ASSUME NEW c \in Cells, travel_now(c) PROVE Begun
  <2> DEFINE chosen == [db.tasks[pendingTravel(db)] EXCEPT !.selected = c]
             r == moveTravelNow(chosen, db.revision + 1)
  <2>1. HasTravel(db) /\ Open(db) /\ db.status # "ended" /\ ~Locked(db)
    BY <1>4, <1>11 DEF travel_now, Open
  <2>2. /\ chosen \in Task /\ chosen.kind = db.tasks[pendingTravel(db)].kind
        /\ chosen.turn = db.tasks[pendingTravel(db)].turn /\ db.revision + 1 \in Nat
    <3>1. db.revision + 1 \in Nat
      BY <1>1 DEF SessionState
    <3>2. QED BY <1>5, <2>1, <3>1 DEF Task
  <2>3. r \in Task /\ r.kind = chosen.kind /\ (HoldsTurn(chosen) => HoldsTurn(r))
    BY <2>2 DEF moveTravelNow, reserveTravelTurn, Task
  <2>4. \E o \in applyTravelDecision(db, pendingTravel(db), r, decideTravel(r, FALSE)) :
           Begin("choose_destination", o)
    BY <1>11 DEF travel_now
  <2>5. HoldsTurn(db.tasks[pendingTravel(db)]) => HoldsTurn(r)
    BY <2>2, <2>3 DEF HoldsTurn
  <2> HIDE DEF r, chosen
  <2>6. QED BY <1>1, <1>2, <1>6, <2>1, <2>2, <2>3, <2>4, <2>5
<1>12. ASSUME cancel_destination PROVE Begun
  <2> DEFINE r == [db.tasks[pendingTravel(db)] EXCEPT !.cancelled = TRUE]
  <2>1. HasTravel(db) /\ Open(db) /\ db.status # "ended"
    BY <1>4, <1>12 DEF cancel_destination, Open
  <2>2. /\ r \in Task /\ r.kind = db.tasks[pendingTravel(db)].kind
        /\ (HoldsTurn(db.tasks[pendingTravel(db)]) => HoldsTurn(r))
    BY <1>5, <2>1 DEF Task, HoldsTurn
  <2>3. \E o \in applyTravelDecision(db, pendingTravel(db), r, decideTravel(r, HeldBack)) :
           Begin("cancel_destination", o)
    BY <1>12 DEF cancel_destination
  <2> HIDE DEF r
  <2>4. QED BY <1>1, <1>2, <1>6, <1>9, <2>1, <2>2, <2>3
<1>13. ASSUME NEW direction \in Directions, set_direction(direction) PROVE Begun
  <2>1. Same([db EXCEPT !.direction = direction])
    BY <1>1 DEF SessionState, Open, SameResources
  <2>2. QED BY <1>3, <1>13, <2>1 DEF set_direction
<1>14. ASSUME NEW c \in Cells, NEW t \in BOOLEAN, set_position(c, t) PROVE Begun
  <2> DEFINE d == [db EXCEPT !.cell = c, !.auto = TRUE, !.status = "paused"]
  <2>1. Same(d)
    BY <1>1, <1>4, <1>14 DEF SessionState, Open, SameResources, set_position
  <2>2. PICK visits : Begin("set_position", Outcome(d, visits, FALSE, "none"))
    BY <1>14 DEF set_position
  <2>3. Outcome(d, visits, FALSE, "none").d = d
    BY DEF Outcome
  <2> HIDE DEF d
  <2>4. QED BY <2>1, <2>2, <2>3
<1>15. ASSUME pause PROVE Begun
  <2>1. Same([db EXCEPT !.status = "paused", !.auto = TRUE])
    BY <1>1, <1>4, <1>15 DEF SessionState, Open, SameResources, pause
  <2>2. QED BY <1>3, <1>15, <2>1 DEF pause
<1>16. ASSUME end_session PROVE Begun
  <2>1. Same([db EXCEPT !.status = "ended", !.auto = TRUE])
    BY <1>1 DEF SessionState, Open, SameResources
  <2>2. QED BY <1>3, <1>16, <2>1 DEF end_session
<1>17. ASSUME clear_movement_lock PROVE Begun
  <2>1. Same([db EXCEPT !.lock = NoLock])
    BY <1>1 DEF SessionState, Open, SameResources
  <2>2. QED BY <1>3, <1>17, <2>1 DEF clear_movement_lock
<1>18. ASSUME clear_roll_modifier PROVE Begun
  <2>1. Same([db EXCEPT !.modifier = NoModifier])
    BY <1>1 DEF SessionState, Open, SameResources
  <2>2. QED BY <1>3, <1>18, <2>1 DEF clear_roll_modifier
<1>19. ASSUME NEW n \in Quantities, set_movement_lock_remaining(n) PROVE Begun
  <2>1. Same([db EXCEPT !.lock.left = n])
    BY <1>1 DEF SessionState, Open, SameResources
  <2>2. QED BY <1>3, <1>19, <2>1 DEF set_movement_lock_remaining
<1>20. ASSUME NEW b \in BoardIds, apply_board_version(b) PROVE Begun
  <2>1. Same([db EXCEPT !.board = b])
    BY <1>1 DEF SessionState, Open, SameResources
  <2>2. QED BY <1>3, <1>20, <2>1 DEF apply_board_version
<1>21. QED BY <1>7, <1>8, <1>10, <1>11, <1>12, <1>13, <1>14, <1>15, <1>16, <1>17, <1>18,
              <1>19, <1>20 DEF MovementCommands

(* So no movement command touches stock.                                   *)
LEMMA MovementStockInv ==
  ASSUME TypeOK, StockInv, MovementCommands PROVE StockInv'
<1>1. PICK type, o : Begin(type, o) /\ SameResources(db, o.d)
  BY MovementKeepsResources
<1>2. StockSound(o.d)
  BY <1>1, StockFrame DEF StockInv, Throughout, SameResources
<1>3. QED BY <1>1, <1>2, BeginStockInv

(* Corrections and shields move stock within the catalog's limits. *)
LEMMA ResourceStockInv ==
  ASSUME TypeOK, StockInv, ResourceCommands PROVE StockInv'
<1>1. db \in SessionState /\ StockSound(db)
  BY DEF TypeOK, StockInv, Throughout
<1>2. ASSUME NEW c \in Counters, NEW n \in Quantities, adjust_counter(c, n) PROVE StockInv'
  <2> DEFINE d == [db EXCEPT !.counters[c] = n, !.credited[c] = @ + n - db.counters[c]]
  <2>1. /\ d.stock = db.stock /\ d.ledger = db.ledger /\ d.catalog = db.catalog
        /\ d.status = db.status
    BY <1>1 DEF SessionState
  <2>2. StockSound(d)
    BY <1>1, <2>1, StockFrame DEF Open
  <2>3. QED BY <1>2, <2>2, ChangeStockInv DEF adjust_counter
<1>3. ASSUME NEW i \in Items, NEW delta \in Int, adjust_inventory(i, delta) PROVE StockInv'
  <2>1. StockSound(Moved(db, i, delta))
    BY <1>1, <1>3, MovedSound DEF adjust_inventory
  <2>2. QED BY <1>3, <2>1, ChangeStockInv DEF adjust_inventory
<1>4. ASSUME NEW d \in SessionState, StockSound(d), NEW m, NEW status
      PROVE  StockSound(Resolved(d, m, status))
  <2>1. LET e == Resolved(d, m, status) IN
        /\ e.stock = d.stock /\ e.ledger = d.ledger /\ e.catalog = d.catalog
        /\ e.status = d.status
    BY <1>4, ResourceKeeps
  <2>2. QED BY <1>4, <2>1, StockFrame DEF Open
<1>5. ASSUME NEW m \in DOMAIN db.missions, complete_mission(m) PROVE StockInv'
  BY <1>1, <1>4, <1>5, ChangeStockInv DEF complete_mission
<1>6. ASSUME NEW m \in DOMAIN db.missions, waive_mission(m) PROVE StockInv'
  BY <1>1, <1>4, <1>6, ChangeStockInv DEF waive_mission
<1>7. ASSUME NEW m \in DOMAIN db.missions, use_shield(m) PROVE StockInv'
  <2> DEFINE i == db.missions[m].shield
             cost == db.missions[m].cost
             paid == Moved(db, i, 0 - cost)
  <2>1. db.missions[m] \in Mission
    BY <1>1 DEF SessionState
  <2>2. i \in Items /\ cost \in Nat /\ i \in db.catalog.active
    BY <1>7, <2>1 DEF use_shield, Mission, MissionRow
  <2>3. /\ db.stock[i].quantity \in Nat /\ db.stock[i].quantity >= cost
        /\ db.catalog.max[i] \in Nat
    BY <1>1, <1>7, <2>2 DEF use_shield, SessionState, Stock, Catalog
  <2>4. db.status \in {"running", "paused"}
    BY <1>7 DEF use_shield, Resolvable, Active
  <2>5. db.stock[i].quantity > 0 => db.stock[i].quantity <= db.catalog.max[i]
    BY <1>1, <2>2, <2>4 DEF StockSound, StockFits
  <2>6. /\ 0 - cost \in Int /\ db.stock[i].quantity + (0 - cost) >= 0
        /\ db.stock[i].quantity + (0 - cost) \in 0 .. db.catalog.max[i]
    BY <2>2, <2>3, <2>5
  <2>7. StockSound(paid) /\ paid \in SessionState
    BY <1>1, <2>2, <2>6, MovedSound, MovedType
  <2>8. Change("use_shield", Resolved(paid, m, "shielded"))
    BY <1>7 DEF use_shield
  <2> HIDE DEF paid
  <2>9. QED BY <1>4, <2>7, <2>8, ChangeStockInv
<1>8. \A n \in Quantities : n \in Int /\ 0 - n \in Int
  BY SizeAssumption
<1>9. QED BY <1>2, <1>3, <1>5, <1>6, <1>7, <1>8 DEF ResourceCommands

(* The only effect that touches stock is a grant, which checks the limit.  *)
LEMMA EffectsStockInv ==
  ASSUME TypeOK, StockInv, Effects PROVE StockInv'
<1> DEFINE e == CurrentEffect
<1>1. tx # Idle /\ tx' # Idle /\ db' = db /\ SameTurn(tx.d, tx'.d)
  BY EffectsKeep
<1>2. tx \in Transaction /\ tx.d \in SessionState /\ StockSound(tx.d) /\ StockSound(db)
  BY <1>1 DEF TypeOK, Transaction, StockInv, Throughout
<1>3. ASSUME StockSound(tx'.d) PROVE StockInv'
  <2>1. StockSound(db)' /\ StockSound(tx.d)'
    BY <1>1, <1>2, <1>3 DEF StockSound, StockFits, LedgerExplains
  <2>2. QED BY <2>1 DEF StockInv, Throughout
<1> DEFINE Same(d) == /\ d.stock = tx.d.stock /\ d.ledger = tx.d.ledger
                      /\ d.catalog = tx.d.catalog /\ d.status = tx.d.status
<1>4. ASSUME Same(tx'.d) PROVE StockInv'
  <2>1. ASSUME NEW d, Same(d) PROVE StockSound(d)
    BY <1>2, <2>1, StockFrame DEF Open
  <2>2. StockSound(tx'.d)
    BY <1>4, <2>1
  <2>3. QED BY <1>3, <2>2
<1>5. ASSUME NEW d, Done(d) PROVE tx'.d = d
  BY <1>1, <1>5, EffectedFields DEF Done
<1>6. CASE EffectNone
  BY <1>4, <1>5, <1>6 DEF EffectNone
<1>7. CASE EffectMission
  <2>1. \A x : Same([tx.d EXCEPT !.missions = x])
    BY <1>2 DEF SessionState
  <2>2. QED BY <1>4, <1>5, <1>7, <2>1 DEF EffectMission
<1>8. CASE EffectSetDirection
  <2>1. \A x : Same([tx.d EXCEPT !.direction = x])
    BY <1>2 DEF SessionState
  <2>2. QED BY <1>4, <1>5, <1>8, <2>1 DEF EffectSetDirection
<1>9. CASE EffectCounterAdd
  <2> DEFINE d == [tx.d EXCEPT !.counters[e.counter] = @ + e.quantity,
                               !.credited[e.counter] = @ + e.quantity]
  <2>1. Same(d)
    BY <1>2 DEF SessionState
  <2>2. Done(d)
    BY <1>9 DEF EffectCounterAdd
  <2> HIDE DEF d
  <2>3. QED BY <1>4, <1>5, <2>1, <2>2
<1>10. CASE EffectCounterSettle
  <2> DEFINE amount == Unreserved(tx.d, e.counter)
             settled == NewMission(e.shield, e.cost, e.counter, amount, "creation")
             d == IF amount \in 1 .. tx.d.counters[e.counter]
                  THEN [tx.d EXCEPT !.counters[e.counter] = @ - amount,
                                    !.missions = Append(@, settled)]
                  ELSE tx.d
  <2>1. Same(d)
    BY <1>2 DEF SessionState
  <2>2. Done(d)
    BY <1>10 DEF EffectCounterSettle
  <2> HIDE DEF d
  <2>3. QED BY <1>4, <1>5, <2>1, <2>2
<1>11. CASE EffectModifyRoll
  <2>1. \A x : Same([tx.d EXCEPT !.modifier = x])
    BY <1>2 DEF SessionState
  <2>2. QED BY <1>4, <1>5, <1>11, <2>1 DEF EffectModifyRoll
<1>12. CASE EffectMovementLock
  <2>1. \A x : Same([tx.d EXCEPT !.lock = x])
    BY <1>2 DEF SessionState
  <2>2. QED BY <1>4, <1>5, <1>12, <2>1 DEF EffectMovementLock
<1>13. CASE EffectGrantItem
  <2>1. e.type = "grant_item" /\ Executing /\ ~Fails(e)
    BY <1>13 DEF EffectGrantItem, Runs
  <2>2. e \in Effect
    BY <2>1, CurrentEffectType
  <2>3. e.item \in Items /\ e.quantity \in Nat
    BY <2>1, <2>2 DEF Effect
  <2>4. /\ e.item \in tx.d.catalog.active
        /\ ~(tx.d.stock[e.item].quantity + e.quantity > tx.d.catalog.max[e.item])
    BY <2>1 DEF Fails
  <2>5. tx.d.stock[e.item].quantity \in Nat /\ tx.d.catalog.max[e.item] \in Nat
    BY <1>2, <2>3 DEF SessionState, Stock, Catalog
  <2>6. tx.d.stock[e.item].quantity + e.quantity \in 0 .. tx.d.catalog.max[e.item]
          /\ e.quantity \in Int
    BY <2>3, <2>4, <2>5
  <2>7. StockSound(Moved(tx.d, e.item, e.quantity))
    BY <1>2, <2>3, <2>4, <2>6, MovedSound
  <2>8. tx'.d = Moved(tx.d, e.item, e.quantity)
    BY <1>5, <1>13 DEF EffectGrantItem
  <2>9. QED BY <1>3, <2>7, <2>8
<1>14. CASE EffectMoveSteps
  <2>1. PICK cell, visits :
          tx' = [Effected([tx.d EXCEPT !.cell = cell], visits) EXCEPT !.steps = @ + e.steps]
    BY <1>14 DEF EffectMoveSteps
  <2>2. Effected([tx.d EXCEPT !.cell = cell], visits).d = [tx.d EXCEPT !.cell = cell]
    BY <1>1, EffectedFields
  <2>3. tx'.d = Effected([tx.d EXCEPT !.cell = cell], visits).d
    BY <2>1
  <2>4. Same(tx'.d)
    BY <1>2, <2>2, <2>3 DEF SessionState
  <2>5. QED BY <1>4, <2>4
<1>15. CASE EffectChooseDestination
  <2>1. PICK r : tx' = [Effected(tx.d, <<>>) EXCEPT !.travels = Append(@, r)]
    BY <1>15 DEF EffectChooseDestination
  <2>2. Effected(tx.d, <<>>).d = tx.d
    BY <1>1, EffectedFields
  <2>3. tx'.d = Effected(tx.d, <<>>).d
    BY <2>1
  <2>4. QED BY <1>4, <2>2, <2>3
<1>16. CASE LeaveCell
  <2>1. tx'.d = tx.d
    BY <1>2, <1>16 DEF LeaveCell, Transaction
  <2>2. QED BY <1>4, <2>1
<1>17. QED BY <1>6, <1>7, <1>8, <1>9, <1>10, <1>11, <1>12, <1>13, <1>14, <1>15, <1>16
           DEF Effects

(* Commits, publications and new sessions keep the stock sound. *)
LEMMA OtherStepsStockInv ==
  ASSUME TypeOK, StockInv
  PROVE  /\ Commit => StockInv'
         /\ Rollback => StockInv'
         /\ \A c \in Cells, d \in Directions, b \in BoardIds : createSession(c, d, b) => StockInv'
         /\ \A c \in Catalogs : PublishItems(c) => StockInv'
         /\ (\A c \in Counters : LegacySettle(c) => StockInv') /\ (Backfill => StockInv')
         /\ UNCHANGED vars => StockInv'
<1>1. db \in SessionState /\ StockSound(db)
  BY DEF TypeOK, StockInv, Throughout
<1>2. ASSUME NEW e, db' = e, StockSound(e), tx' = Idle PROVE StockInv'
  <2>1. StockSound(db)'
    BY <1>2 DEF StockSound, StockFits, LedgerExplains
  <2>2. QED BY <1>2, <2>1 DEF StockInv, Throughout
<1>3. ASSUME Commit PROVE StockInv'
  <2>1. tx \in Transaction /\ StockSound(tx.d) /\ tx.d \in SessionState
    BY <1>3 DEF Commit, Finished, TypeOK, StockInv, Throughout, Transaction
  <2>2. /\ db'.stock = tx.d.stock /\ db'.ledger = tx.d.ledger
        /\ db'.catalog = tx.d.catalog /\ db'.status = tx.d.status
    BY <1>3, <2>1 DEF Commit, SessionState
  <2>3. StockSound(db')
    BY <2>1, <2>2, StockFrame DEF Open
  <2>4. QED BY <1>2, <1>3, <2>3 DEF Commit
<1>4. ASSUME Rollback PROVE StockInv'
  BY <1>1, <1>2, <1>4 DEF Rollback
<1>5. ASSUME NEW c \in Cells, NEW d \in Directions, NEW b \in BoardIds, createSession(c, d, b)
      PROVE  StockInv'
  <2> DEFINE e == Fresh(c, d, b)
  <2>1. /\ \A i \in Items : e.stock[i].quantity = 0 /\ e.stock[i].revision = 0
                              /\ e.ledger[i] = <<>>
    BY DEF Fresh
  <2> HIDE DEF e
  <2>2. StockSound(e)
    BY <2>1 DEF StockSound, StockFits, LedgerExplains
  <2>3. QED BY <1>2, <1>5, <2>2 DEF createSession, e
<1>6. ASSUME NEW c \in Catalogs, PublishItems(c) PROVE StockInv'
  <2>1. /\ db'.stock = db.stock /\ db'.ledger = db.ledger /\ db'.status = db.status
        /\ db'.catalog.active = c.active
        /\ \A i \in Items : i \in c.active => db'.catalog.max[i] = c.max[i]
    BY <1>1, <1>6 DEF PublishItems, SessionState, Catalog
  <2>2. \A i \in Items : LedgerExplains(db', i)
    BY <1>1, <2>1 DEF StockSound, LedgerExplains
  <2>3. StockFits(db')
    <3> SUFFICES ASSUME db'.status \in {"running", "paused"}, NEW i \in Items,
                        db'.stock[i].quantity > 0
                 PROVE  i \in db'.catalog.active /\ db'.stock[i].quantity <= db'.catalog.max[i]
      BY DEF StockFits
    <3>1. i \in db.catalog.active
      BY <1>1, <2>1 DEF StockSound, StockFits
    <3>2. db.stock[i].quantity # 0
      BY <1>1, <2>1
    <3>3. i \in c.active
      BY <1>6, <2>1, <3>1, <3>2 DEF PublishItems, Publishable, KeepsReferences
    <3>4. db.stock[i].quantity <= c.max[i]
      BY <1>6, <2>1, <3>3 DEF PublishItems, Publishable
    <3>5. QED BY <2>1, <3>3, <3>4
  <2>4. StockSound(db')
    BY <2>2, <2>3 DEF StockSound
  <2>5. QED BY <1>2, <1>6, <2>4 DEF PublishItems
<1>7. ASSUME NEW c \in Counters, LegacySettle(c) PROVE StockInv'
  <2>1. /\ db'.stock = db.stock /\ db'.ledger = db.ledger
        /\ db'.catalog = db.catalog /\ db'.status = db.status
    BY <1>1, <1>7 DEF LegacySettle, SessionState
  <2>2. StockSound(db')
    BY <1>1, <2>1, StockFrame DEF Open
  <2>3. QED BY <1>2, <1>7, <2>2 DEF LegacySettle, Active
<1>10. ASSUME Backfill PROVE StockInv'
  <2>1. /\ db'.stock = db.stock /\ db'.ledger = db.ledger
        /\ db'.catalog = db.catalog /\ db'.status = db.status
    BY <1>1, <1>10 DEF Backfill, SessionState
  <2>2. StockSound(db')
    BY <1>1, <2>1, StockFrame DEF Open
  <2>3. QED BY <1>2, <1>10, <2>2 DEF Backfill
<1>8. ASSUME UNCHANGED vars PROVE StockInv'
  <2>1. db' = db /\ tx' = tx
    BY <1>8 DEF vars
  <2>2. StockSound(db)' /\ (tx # Idle => StockSound(tx.d)')
    BY <2>1 DEF StockInv, Throughout, StockSound, StockFits, LedgerExplains
  <2>3. QED BY <2>1, <2>2 DEF StockInv, Throughout
<1>9. QED BY <1>3, <1>4, <1>5, <1>6, <1>7, <1>8, <1>10

(* The channel starts without stock. *)
LEMMA InitStockInv == Init => StockInv
<1> SUFFICES ASSUME Init PROVE StockInv
  OBVIOUS
<1>1. \A i \in Items : db.stock[i].quantity = 0 /\ db.stock[i].revision = 0
                         /\ db.ledger[i] = <<>>
  BY DEF Init
<1>2. StockSound(db)
  BY <1>1 DEF StockSound, StockFits, LedgerExplains
<1>3. QED BY <1>2 DEF Init, StockInv, Throughout

(* Grants, corrections, shields and publications never disagree about what *)
(* a session holds. *)
THEOREM StockIsSound == Spec => []StockInv
<1>1. TypeOK /\ TurnInv /\ StockInv /\ [Next]_vars => StockInv'
  BY MovementStockInv, ResourceStockInv, EffectsStockInv, OtherStepsStockInv DEF Next, Work
<1>2. QED BY <1>1, InitStockInv, TypeCorrect, TurnsAreLawful, PTL DEF Spec

(* The ledger explains every quantity and revision. *)
THEOREM LedgerIsComplete == Spec => []LedgerExplainsStock
<1>1. StockInv => LedgerExplainsStock
  BY DEF StockInv, StockSound, LedgerExplainsStock, Throughout
<1>2. QED BY <1>1, StockIsSound, PTL

(* Nothing is held that the catalog does not allow. *)
THEOREM StockIsAllowed == Spec => []StockWithinCatalog
<1>1. StockInv => StockWithinCatalog
  BY DEF StockInv, StockSound, StockWithinCatalog, Throughout
<1>2. QED BY <1>1, StockIsSound, PTL

(* --------------------------------- Sums ---------------------------------- *)
(* A set of numbers that has 0, and n + 1 with every n below the bound m,  *)
(* has all of 0 .. m: what recursions are reasoned about with.             *)
LEMMA UpTo ==
  ASSUME NEW m \in Nat, NEW S, 0 \in S, \A n \in 0 .. m - 1 : n \in S => n + 1 \in S
  PROVE  0 .. m \subseteq S
<1> DEFINE Rest == {n \in 0 .. m : n \notin S}
<1>1. SUFFICES ASSUME Rest # {} PROVE FALSE
  OBVIOUS
<1>2. PICK n \in Rest : \A y \in Rest : ~ (y < n)
  <2>1. Rest \subseteq Nat
    OBVIOUS
  <2> HIDE DEF Rest
  <2>2. PICK n \in Rest : \A y \in Rest : ~ (<<y, n>> \in OpToRel(<, Nat))
    BY <1>1, <2>1, NatLessThanWellFounded, WFMin
  <2>3. QED BY <2>1, <2>2 DEF OpToRel
<1>3. n \in 0 .. m /\ n \notin S /\ \A y \in Rest : ~ (y < n)
  BY <1>2
<1>4. n - 1 \in 0 .. m - 1 /\ n = (n - 1) + 1 /\ n - 1 < n
  BY <1>3
<1>5. n - 1 \in S
  BY <1>3, <1>4
<1>6. QED BY <1>3, <1>4, <1>5

(* f holds the sums of the first n of the weights W, for every n up to m;  *)
(* x is the sum of the first m.                                            *)
SumAt(W, f, n)   == IF n = 0 THEN 0 ELSE f[n - 1] + W[n]
SumsTo(W, m, f)  == f = [n \in 0 .. m |-> SumAt(W, f, n)]
IsSum(W, m, x)   == \E f : SumsTo(W, m, f) /\ x = f[m]
Weights(m)       == [1 .. m -> Nat]

(* There are such sums.                                                    *)
LEMMA SumExists ==
  ASSUME NEW m \in Nat, NEW W
  PROVE  \E f : SumsTo(W, m, f)
<1> DEFINE S == {k \in 0 .. m : \E f : SumsTo(W, k, f)}
<1>1. 0 \in S
  <2>1. SumsTo(W, 0, [n \in 0 .. 0 |-> 0])
    BY DEF SumsTo, SumAt
  <2>2. QED BY <2>1
<1>2. ASSUME NEW k \in 0 .. m - 1, k \in S PROVE k + 1 \in S
  <2>1. PICK f : SumsTo(W, k, f)
    BY <1>2
  <2> DEFINE g == [n \in 0 .. k + 1 |-> IF n = k + 1 THEN SumAt(W, f, k + 1) ELSE f[n]]
  <2>2. /\ k \in Nat /\ \A n \in 0 .. k : n # k + 1 /\ n \in 0 .. k + 1
        /\ \A n \in 0 .. k + 1 : n = 0 \/ n - 1 \in 0 .. k
        /\ k + 1 \in 0 .. k + 1
        /\ \A n \in 0 .. k + 1 : n = k + 1 \/ n \in 0 .. k
    OBVIOUS
  <2>3. \A n \in 0 .. k : f[n] = SumAt(W, f, n)
    BY <2>1 DEF SumsTo
  <2>4. g = [n \in 0 .. k + 1 |-> g[n]]
    OBVIOUS
  <2>5. (\A n \in 0 .. k : g[n] = f[n]) /\ g[k + 1] = SumAt(W, f, k + 1)
    BY <2>2
  <2> HIDE DEF g
  <2>6. \A n \in 0 .. k + 1 : SumAt(W, g, n) = SumAt(W, f, n)
    BY <2>2, <2>5 DEF SumAt
  <2>7. \A n \in 0 .. k + 1 : g[n] = SumAt(W, g, n)
    BY <2>2, <2>3, <2>5, <2>6
  <2>8. SumsTo(W, k + 1, g)
    BY <2>4, <2>7 DEF SumsTo
  <2>9. QED BY <1>2, <2>8
<1>3. m \in S
  <2> HIDE DEF S
  <2>1. \A n \in 0 .. m - 1 : n \in S => n + 1 \in S
    BY <1>2
  <2>2. QED BY <1>1, <2>1, UpTo
<1>4. QED BY <1>3

(* Two sums whose weights differ by delta at k alone differ by delta from  *)
(* k on; k beyond the last weight makes them equal.                        *)
LEMMA SumsDiffer ==
  ASSUME NEW m \in Nat, NEW p \in Nat, m <= p, NEW W \in Weights(m), NEW V \in Weights(p),
         NEW f, NEW g, SumsTo(W, m, f), SumsTo(V, p, g),
         NEW k \in 1 .. m + 1, NEW delta \in Int,
         \A n \in 1 .. m : V[n] = IF n = k THEN W[n] + delta ELSE W[n]
  PROVE  \A n \in 0 .. m : f[n] \in Nat /\ g[n] \in Nat /\ g[n] = IF k <= n THEN f[n] + delta ELSE f[n]
<1> DEFINE Right(n) == /\ f[n] \in Nat /\ g[n] \in Nat
                       /\ g[n] = IF k <= n THEN f[n] + delta ELSE f[n]
           S == {n \in 0 .. m : Right(n)}
<1>1. \A n \in 0 .. m : f[n] = SumAt(W, f, n) /\ g[n] = SumAt(V, g, n)
  <2>1. \A n \in 0 .. m : n \in 0 .. p
    OBVIOUS
  <2>2. QED BY <2>1 DEF SumsTo
<1>2. 0 \in S
  BY <1>1 DEF SumAt
<1>3. ASSUME NEW n \in 0 .. m - 1, n \in S PROVE n + 1 \in S
  <2>1. /\ n + 1 \in 0 .. m /\ n + 1 # 0 /\ (n + 1) - 1 = n /\ n + 1 \in 1 .. m
        /\ n + 1 \in 1 .. p
    OBVIOUS
  <2>2. f[n + 1] = f[n] + W[n + 1] /\ g[n + 1] = g[n] + V[n + 1]
    BY <1>1, <2>1 DEF SumAt
  <2>3. /\ W[n + 1] \in Nat /\ V[n + 1] \in Nat
        /\ V[n + 1] = IF n + 1 = k THEN W[n + 1] + delta ELSE W[n + 1]
    BY <2>1 DEF Weights
  <2>4. Right(n)
    BY <1>3
  <2>5. Right(n + 1)
    BY <2>2, <2>3, <2>4
  <2>6. QED BY <2>1, <2>5
<1>4. 0 .. m \subseteq S
  <2> HIDE DEF S
  <2>1. \A n \in 0 .. m - 1 : n \in S => n + 1 \in S
    BY <1>3
  <2>2. QED BY <1>2, <2>1, UpTo
<1>5. QED BY <1>4

(* The sum of two weights at each place is the sum of their sums.          *)
LEMMA SumsMerge ==
  ASSUME NEW m \in Nat, NEW W \in Weights(m), NEW U \in Weights(m), NEW V \in Weights(m),
         NEW x, NEW u, NEW y, IsSum(W, m, x), IsSum(U, m, u), IsSum(V, m, y),
         \A n \in 1 .. m : V[n] = W[n] + U[n]
  PROVE  x \in Nat /\ u \in Nat /\ y = x + u
<1>1. PICK f : SumsTo(W, m, f) /\ x = f[m]
  BY DEF IsSum
<1>2. PICK h : SumsTo(U, m, h) /\ u = h[m]
  BY DEF IsSum
<1>3. PICK g : SumsTo(V, m, g) /\ y = g[m]
  BY DEF IsSum
<1> DEFINE Right(n) == f[n] \in Nat /\ h[n] \in Nat /\ g[n] = f[n] + h[n]
           S == {n \in 0 .. m : Right(n)}
<1>4. \A n \in 0 .. m : /\ f[n] = SumAt(W, f, n) /\ h[n] = SumAt(U, h, n)
                        /\ g[n] = SumAt(V, g, n)
  BY <1>1, <1>2, <1>3 DEF SumsTo
<1>5. 0 \in S
  BY <1>4 DEF SumAt
<1>6. ASSUME NEW n \in 0 .. m - 1, n \in S PROVE n + 1 \in S
  <2>1. /\ n + 1 \in 0 .. m /\ n + 1 # 0 /\ (n + 1) - 1 = n /\ n + 1 \in 1 .. m
    OBVIOUS
  <2>2. /\ f[n + 1] = f[n] + W[n + 1] /\ h[n + 1] = h[n] + U[n + 1]
        /\ g[n + 1] = g[n] + V[n + 1]
    BY <1>4, <2>1 DEF SumAt
  <2>3. /\ W[n + 1] \in Nat /\ U[n + 1] \in Nat /\ V[n + 1] = W[n + 1] + U[n + 1]
    BY <2>1 DEF Weights
  <2>4. Right(n)
    BY <1>6
  <2>5. Right(n + 1)
    BY <2>2, <2>3, <2>4
  <2>6. QED BY <2>1, <2>5
<1>7. 0 .. m \subseteq S
  <2> HIDE DEF S
  <2>1. \A n \in 0 .. m - 1 : n \in S => n + 1 \in S
    BY <1>6
  <2>2. QED BY <1>5, <2>1, UpTo
<1>8. m \in 0 .. m
  OBVIOUS
<1>9. QED BY <1>1, <1>2, <1>3, <1>7, <1>8

(* One weight more.                                                        *)
LEMMA SumGrows ==
  ASSUME NEW m \in Nat, NEW W \in Weights(m), NEW V \in Weights(m + 1), NEW x, NEW y,
         IsSum(W, m, x), IsSum(V, m + 1, y), \A n \in 1 .. m : V[n] = W[n]
  PROVE  x \in Nat /\ y = x + V[m + 1]
<1>1. PICK f : SumsTo(W, m, f) /\ x = f[m]
  BY DEF IsSum
<1>2. PICK g : SumsTo(V, m + 1, g) /\ y = g[m + 1]
  BY DEF IsSum
<1>3. \A n \in 1 .. m : V[n] = IF n = m + 1 THEN W[n] + 0 ELSE W[n]
  OBVIOUS
<1>4. m + 1 \in Nat /\ m + 1 \in 1 .. m + 1 /\ m <= m + 1 /\ 0 \in Int /\ m \in 0 .. m
  OBVIOUS
<1>5. f[m] \in Nat /\ g[m] = IF m + 1 <= m THEN f[m] + 0 ELSE f[m]
  BY <1>1, <1>2, <1>3, <1>4, SumsDiffer
<1>6. g[m + 1] = g[m] + V[m + 1]
  BY <1>2 DEF SumsTo, SumAt
<1>7. QED BY <1>1, <1>2, <1>5, <1>6

(* One weight changed.                                                     *)
LEMMA SumChanges ==
  ASSUME NEW m \in Nat, NEW W \in Weights(m), NEW V \in Weights(m), NEW x, NEW y,
         IsSum(W, m, x), IsSum(V, m, y), NEW k \in 1 .. m,
         \A n \in 1 .. m : n # k => V[n] = W[n]
  PROVE  x \in Nat /\ y \in Nat /\ y = x + V[k] - W[k]
<1>1. PICK f : SumsTo(W, m, f) /\ x = f[m]
  BY DEF IsSum
<1>2. PICK g : SumsTo(V, m, g) /\ y = g[m]
  BY DEF IsSum
<1>3. PICK delta \in Int : delta = V[k] - W[k]
  BY DEF Weights
<1>4. \A n \in 1 .. m : V[n] = IF n = k THEN W[n] + delta ELSE W[n]
  BY <1>3 DEF Weights
<1>5. m \in 0 .. m /\ k <= m /\ k \in 1 .. m + 1 /\ m <= m
  OBVIOUS
<1>6. f[m] \in Nat /\ g[m] \in Nat /\ g[m] = IF k <= m THEN f[m] + delta ELSE f[m]
  BY <1>1, <1>2, <1>4, <1>5, SumsDiffer
<1>7. V[k] \in Nat /\ W[k] \in Nat
  BY DEF Weights
<1>8. QED BY <1>1, <1>2, <1>3, <1>5, <1>6, <1>7

(* What one mission still takes from the counter c, and what it took.      *)
Owed(m, c) == IF /\ m.counter = c /\ m.status = "pending"
                 /\ m.settles = "mission_completion"
              THEN m.amount ELSE 0
Took(m, c) == IF /\ m.counter = c
                 /\ \/ m.settles = "creation"
                    \/ m.settles = "mission_completion" /\ m.status # "pending"
              THEN m.amount ELSE 0
OwedBy(missions, c) == [n \in 1 .. Len(missions) |-> Owed(missions[n], c)]
TookBy(missions, c) == [n \in 1 .. Len(missions) |-> Took(missions[n], c)]

(* The recursions of Reserved and Taken, up to the last mission.           *)
OwedTo(d, c, f) ==
  f = [n \in 0 .. Len(d.missions) |-> IF n = 0 THEN 0 ELSE f[n - 1] + Owed(d.missions[n], c)]
TookTo(d, c, f) ==
  f = [n \in 0 .. Len(d.missions) |-> IF n = 0 THEN 0 ELSE f[n - 1] + Took(d.missions[n], c)]

(* Reserved and Taken are the sums of what the missions owe and took.      *)
LEMMA ReservedIs ==
  ASSUME NEW d, NEW c, Len(d.missions) \in Nat
  PROVE  IsSum(OwedBy(d.missions, c), Len(d.missions), Reserved(d, c))
<1> DEFINE W == OwedBy(d.missions, c)
           m == Len(d.missions)
<1>1. \A f : SumsTo(W, m, f) <=> OwedTo(d, c, f)
  <2> SUFFICES ASSUME NEW f PROVE SumsTo(W, m, f) <=> OwedTo(d, c, f)
    OBVIOUS
  <2>1. \A n \in 0 .. m : SumAt(W, f, n) = IF n = 0 THEN 0 ELSE f[n - 1] + Owed(d.missions[n], c)
    <3> SUFFICES ASSUME NEW n \in 0 .. m, n # 0 PROVE W[n] = Owed(d.missions[n], c)
      BY DEF SumAt
    <3>1. n \in 1 .. m
      OBVIOUS
    <3>2. QED BY <3>1 DEF OwedBy
  <2>2. QED BY <2>1 DEF SumsTo, OwedTo
<1>2. PICK f : OwedTo(d, c, f)
  BY <1>1, SumExists
<1>3. OwedTo(d, c, CHOOSE f_1 : OwedTo(d, c, f_1))
  BY <1>2
<1>4. Reserved(d, c) = (CHOOSE f_1 : OwedTo(d, c, f_1))[m]
  BY DEF Reserved, OwedTo, Owed
<1>5. QED BY <1>1, <1>3, <1>4 DEF IsSum

(* So is Taken.                                                            *)
LEMMA TakenIs ==
  ASSUME NEW d, NEW c, Len(d.missions) \in Nat
  PROVE  IsSum(TookBy(d.missions, c), Len(d.missions), Taken(d, c))
<1> DEFINE W == TookBy(d.missions, c)
           m == Len(d.missions)
<1>1. \A f : SumsTo(W, m, f) <=> TookTo(d, c, f)
  <2> SUFFICES ASSUME NEW f PROVE SumsTo(W, m, f) <=> TookTo(d, c, f)
    OBVIOUS
  <2>1. \A n \in 0 .. m : SumAt(W, f, n) = IF n = 0 THEN 0 ELSE f[n - 1] + Took(d.missions[n], c)
    <3> SUFFICES ASSUME NEW n \in 0 .. m, n # 0 PROVE W[n] = Took(d.missions[n], c)
      BY DEF SumAt
    <3>1. n \in 1 .. m
      OBVIOUS
    <3>2. QED BY <3>1 DEF TookBy
  <2>2. QED BY <2>1 DEF SumsTo, TookTo
<1>2. PICK f : TookTo(d, c, f)
  BY <1>1, SumExists
<1>3. TookTo(d, c, CHOOSE f_1 : TookTo(d, c, f_1))
  BY <1>2
<1>4. Taken(d, c) = (CHOOSE f_1 : TookTo(d, c, f_1))[m]
  BY DEF Taken, TookTo, Took
<1>5. QED BY <1>1, <1>3, <1>4 DEF IsSum

(* What missions owe and took are numbers.                                 *)
LEMMA OwedType ==
  ASSUME NEW missions \in Seq(Mission), NEW c
  PROVE  /\ Len(missions) \in Nat /\ DOMAIN missions = 1 .. Len(missions)
         /\ OwedBy(missions, c) \in Weights(Len(missions))
         /\ TookBy(missions, c) \in Weights(Len(missions))
<1>1. \A n \in 1 .. Len(missions) : missions[n].amount \in Nat
  BY DEF Mission, MissionRow
<1>2. \A n \in 1 .. Len(missions) : Owed(missions[n], c) \in Nat /\ Took(missions[n], c) \in Nat
  BY <1>1 DEF Owed, Took
<1>3. QED BY <1>2 DEF OwedBy, TookBy, Weights

(* A new mission adds what it owes and what it took at once.               *)
LEMMA MissionAdded ==
  ASSUME NEW d \in SessionState, NEW e \in SessionState, NEW m \in Mission, NEW c,
         e.missions = Append(d.missions, m)
  PROVE  /\ Reserved(d, c) \in Nat /\ Reserved(e, c) = Reserved(d, c) + Owed(m, c)
         /\ Taken(d, c) \in Nat /\ Taken(e, c) = Taken(d, c) + Took(m, c)
<1>1. d.missions \in Seq(Mission) /\ e.missions \in Seq(Mission)
  BY DEF SessionState
<1>2. PICK old, new \in Seq(Mission) : old = d.missions /\ new = e.missions
  BY <1>1
<1>3. new = Append(old, m) /\ Len(old) \in Nat /\ Len(new) \in Nat /\ Len(new) = Len(old) + 1
  BY <1>2
<1>4. (\A n \in 1 .. Len(old) : new[n] = old[n]) /\ new[Len(old) + 1] = m
  BY <1>3
<1>5. /\ OwedBy(old, c) \in Weights(Len(old)) /\ TookBy(old, c) \in Weights(Len(old))
      /\ OwedBy(new, c) \in Weights(Len(old) + 1) /\ TookBy(new, c) \in Weights(Len(old) + 1)
  BY <1>3, OwedType
<1>6. /\ \A n \in 1 .. Len(old) : OwedBy(new, c)[n] = OwedBy(old, c)[n]
      /\ OwedBy(new, c)[Len(old) + 1] = Owed(m, c)
  BY <1>3, <1>4 DEF OwedBy
<1>7. /\ \A n \in 1 .. Len(old) : TookBy(new, c)[n] = TookBy(old, c)[n]
      /\ TookBy(new, c)[Len(old) + 1] = Took(m, c)
  BY <1>3, <1>4 DEF TookBy
<1>8. Reserved(d, c) \in Nat /\ Reserved(e, c) = Reserved(d, c) + Owed(m, c)
  <2>1. IsSum(OwedBy(old, c), Len(old), Reserved(d, c))
    BY <1>2, <1>3, ReservedIs
  <2>2. IsSum(OwedBy(new, c), Len(old) + 1, Reserved(e, c))
    BY <1>2, <1>3, ReservedIs
  <2>3. /\ Reserved(d, c) \in Nat
        /\ Reserved(e, c) = Reserved(d, c) + OwedBy(new, c)[Len(old) + 1]
    <3>1. PICK n, W, V, x, y : /\ n = Len(old) /\ W = OwedBy(old, c) /\ V = OwedBy(new, c)
                               /\ x = Reserved(d, c) /\ y = Reserved(e, c)
      OBVIOUS
    <3>2. n \in Nat /\ W \in Weights(n) /\ V \in Weights(n + 1)
      BY <1>3, <1>5, <3>1
    <3>3. IsSum(W, n, x) /\ IsSum(V, n + 1, y)
      BY <2>1, <2>2, <3>1
    <3>4. \A i \in 1 .. n : V[i] = W[i]
      BY <1>6, <3>1
    <3>5. x \in Nat /\ y = x + V[n + 1]
      BY <3>2, <3>3, <3>4, SumGrows
    <3>6. QED BY <3>1, <3>5
  <2>4. QED BY <1>6, <2>3
<1>9. Taken(d, c) \in Nat /\ Taken(e, c) = Taken(d, c) + Took(m, c)
  <2>1. IsSum(TookBy(old, c), Len(old), Taken(d, c))
    BY <1>2, <1>3, TakenIs
  <2>2. IsSum(TookBy(new, c), Len(old) + 1, Taken(e, c))
    BY <1>2, <1>3, TakenIs
  <2>3. /\ Taken(d, c) \in Nat
        /\ Taken(e, c) = Taken(d, c) + TookBy(new, c)[Len(old) + 1]
    <3>1. PICK n, W, V, x, y : /\ n = Len(old) /\ W = TookBy(old, c) /\ V = TookBy(new, c)
                               /\ x = Taken(d, c) /\ y = Taken(e, c)
      OBVIOUS
    <3>2. n \in Nat /\ W \in Weights(n) /\ V \in Weights(n + 1)
      BY <1>3, <1>5, <3>1
    <3>3. IsSum(W, n, x) /\ IsSum(V, n + 1, y)
      BY <2>1, <2>2, <3>1
    <3>4. \A i \in 1 .. n : V[i] = W[i]
      BY <1>7, <3>1
    <3>5. x \in Nat /\ y = x + V[n + 1]
      BY <3>2, <3>3, <3>4, SumGrows
    <3>6. QED BY <3>1, <3>5
  <2>4. QED BY <1>7, <2>3
<1>10. QED BY <1>8, <1>9

(* A mission that changes its status changes only what it owes and took.   *)
LEMMA MissionChanged ==
  ASSUME NEW d \in SessionState, NEW e \in SessionState, NEW c, NEW k \in DOMAIN d.missions,
         NEW m, e.missions = [d.missions EXCEPT ![k] = m]
  PROVE  /\ Reserved(d, c) \in Nat /\ Reserved(e, c) \in Nat
         /\ Reserved(e, c) = Reserved(d, c) + Owed(m, c) - Owed(d.missions[k], c)
         /\ Taken(d, c) \in Nat
         /\ Taken(e, c) = Taken(d, c) + Took(m, c) - Took(d.missions[k], c)
<1>1. d.missions \in Seq(Mission) /\ e.missions \in Seq(Mission)
  BY DEF SessionState
<1>2. PICK old, new \in Seq(Mission) : old = d.missions /\ new = e.missions
  BY <1>1
<1>3. /\ new = [old EXCEPT ![k] = m] /\ Len(old) \in Nat /\ DOMAIN old = 1 .. Len(old)
      /\ DOMAIN new = 1 .. Len(new) /\ Len(new) \in Nat /\ k \in 1 .. Len(old)
  BY <1>2, OwedType
<1>4. Len(new) = Len(old)
  <2>1. DOMAIN new = DOMAIN old
    BY <1>3
  <2>2. QED BY <1>3, <2>1
<1>5. (\A n \in 1 .. Len(old) : n # k => new[n] = old[n]) /\ new[k] = m
  BY <1>3
<1>6. /\ OwedBy(old, c) \in Weights(Len(old)) /\ TookBy(old, c) \in Weights(Len(old))
      /\ OwedBy(new, c) \in Weights(Len(old)) /\ TookBy(new, c) \in Weights(Len(old))
  BY <1>4, OwedType
<1>7. /\ \A n \in 1 .. Len(old) : n # k => OwedBy(new, c)[n] = OwedBy(old, c)[n]
      /\ OwedBy(new, c)[k] = Owed(m, c) /\ OwedBy(old, c)[k] = Owed(d.missions[k], c)
  BY <1>2, <1>3, <1>4, <1>5 DEF OwedBy
<1>8. /\ \A n \in 1 .. Len(old) : n # k => TookBy(new, c)[n] = TookBy(old, c)[n]
      /\ TookBy(new, c)[k] = Took(m, c) /\ TookBy(old, c)[k] = Took(d.missions[k], c)
  BY <1>2, <1>3, <1>4, <1>5 DEF TookBy
<1>9. /\ Reserved(d, c) \in Nat /\ Reserved(e, c) \in Nat
      /\ Reserved(e, c) = Reserved(d, c) + Owed(m, c) - Owed(d.missions[k], c)
  <2>1. IsSum(OwedBy(old, c), Len(old), Reserved(d, c))
    BY <1>2, <1>3, ReservedIs
  <2>2. IsSum(OwedBy(new, c), Len(old), Reserved(e, c))
    BY <1>2, <1>3, <1>4, ReservedIs
  <2>3. /\ Reserved(d, c) \in Nat /\ Reserved(e, c) \in Nat
        /\ Reserved(e, c) = Reserved(d, c) + OwedBy(new, c)[k] - OwedBy(old, c)[k]
    <3>1. PICK n, W, V, x, y : /\ n = Len(old) /\ W = OwedBy(old, c) /\ V = OwedBy(new, c)
                               /\ x = Reserved(d, c) /\ y = Reserved(e, c)
      OBVIOUS
    <3>2. n \in Nat /\ W \in Weights(n) /\ V \in Weights(n) /\ k \in 1 .. n
      BY <1>3, <1>6, <3>1
    <3>3. IsSum(W, n, x) /\ IsSum(V, n, y)
      BY <2>1, <2>2, <3>1
    <3>4. \A i \in 1 .. n : i # k => V[i] = W[i]
      BY <1>7, <3>1
    <3>5. x \in Nat /\ y \in Nat /\ y = x + V[k] - W[k]
      BY <3>2, <3>3, <3>4, SumChanges, SMTT(60)
    <3>6. QED BY <3>1, <3>5
  <2>4. QED BY <1>7, <2>3
<1>10. /\ Taken(d, c) \in Nat
       /\ Taken(e, c) = Taken(d, c) + Took(m, c) - Took(d.missions[k], c)
  <2>1. IsSum(TookBy(old, c), Len(old), Taken(d, c))
    BY <1>2, <1>3, TakenIs
  <2>2. IsSum(TookBy(new, c), Len(old), Taken(e, c))
    BY <1>2, <1>3, <1>4, TakenIs
  <2>3. /\ Taken(d, c) \in Nat
        /\ Taken(e, c) = Taken(d, c) + TookBy(new, c)[k] - TookBy(old, c)[k]
    <3>1. PICK n, W, V, x, y : /\ n = Len(old) /\ W = TookBy(old, c) /\ V = TookBy(new, c)
                               /\ x = Taken(d, c) /\ y = Taken(e, c)
      OBVIOUS
    <3>2. n \in Nat /\ W \in Weights(n) /\ V \in Weights(n) /\ k \in 1 .. n
      BY <1>3, <1>6, <3>1
    <3>3. IsSum(W, n, x) /\ IsSum(V, n, y)
      BY <2>1, <2>2, <3>1
    <3>4. \A i \in 1 .. n : i # k => V[i] = W[i]
      BY <1>8, <3>1
    <3>5. x \in Nat /\ y \in Nat /\ y = x + V[k] - W[k]
      BY <3>2, <3>3, <3>4, SumChanges, SMTT(60)
    <3>6. QED BY <3>1, <3>5
  <2>4. QED BY <1>8, <2>3
<1>11. QED BY <1>9, <1>10

(* ------------------------------- Counters -------------------------------- *)

(* The sums of what missions owe and took are numbers.                     *)
LEMMA SumsAreNat ==
  ASSUME NEW d \in SessionState, NEW c
  PROVE  Reserved(d, c) \in Nat /\ Taken(d, c) \in Nat
<1>1. d.missions \in Seq(Mission)
  BY DEF SessionState
<1>2. ASSUME NEW n \in Nat, NEW W \in Weights(n), NEW x, IsSum(W, n, x) PROVE x \in Nat
  <2>1. PICK f : SumsTo(W, n, f) /\ x = f[n]
    BY <1>2 DEF IsSum
  <2>2. \A i \in 1 .. n : W[i] = IF i = n + 1 THEN W[i] + 0 ELSE W[i]
    OBVIOUS
  <2>3. n + 1 \in 1 .. n + 1 /\ n <= n /\ 0 \in Int /\ n \in 0 .. n
    OBVIOUS
  <2>4. f[n] \in Nat
    BY <2>1, <2>2, <2>3, SumsDiffer
  <2>5. QED BY <2>1, <2>4
<1>3. /\ Len(d.missions) \in Nat
      /\ OwedBy(d.missions, c) \in Weights(Len(d.missions))
      /\ TookBy(d.missions, c) \in Weights(Len(d.missions))
  BY <1>1, OwedType
<1>4. QED BY <1>2, <1>3, ReservedIs, TakenIs

(* Without missions nothing is owed and nothing was taken.                 *)
LEMMA NoMissions ==
  ASSUME NEW d, NEW c, d.missions = <<>>
  PROVE  Reserved(d, c) = 0 /\ Taken(d, c) = 0
<1>1. Len(d.missions) = 0
  OBVIOUS
<1>2. ASSUME NEW W, NEW x, IsSum(W, 0, x) PROVE x = 0
  BY <1>2 DEF IsSum, SumsTo, SumAt
<1>3. QED BY <1>1, <1>2, ReservedIs, TakenIs

(* The sums are of the missions alone.                                     *)
LEMMA SameMissions ==
  ASSUME NEW d, NEW e, NEW c, e.missions = d.missions
  PROVE  Reserved(e, c) = Reserved(d, c) /\ Taken(e, c) = Taken(d, c)
BY DEF Reserved, Taken

(* A counter that gains k while g is credited to it, r more of it is owed  *)
(* and t more was taken stays sound, if the credit pays for both and what  *)
(* is owed stays covered.                                                  *)
LEMMA CounterMoves ==
  ASSUME NEW d \in SessionState, NEW e, NEW c \in Counters, CounterSound(d, c),
         NEW r \in Int, NEW t \in Int, NEW k \in Int,
         Reserved(e, c) = Reserved(d, c) + r, Taken(e, c) = Taken(d, c) + t,
         e.counters[c] = d.counters[c] + k, e.credited[c] = d.credited[c] + (k + t),
         Reserved(d, c) + r <= d.counters[c] + k
  PROVE  CounterSound(e, c)
<1>1. /\ Reserved(d, c) \in Nat /\ Taken(d, c) \in Nat
      /\ d.counters[c] \in Nat /\ d.credited[c] \in Int
  BY SumsAreNat DEF SessionState
<1>2. PICK taken, counter, credited \in Int :
        taken = Taken(d, c) /\ counter = d.counters[c] /\ credited = d.credited[c]
  BY <1>1
<1>3. credited = counter + taken
  BY <1>2 DEF CounterSound
<1>4. credited + (k + t) = (counter + k) + (taken + t)
  BY <1>3
<1>5. e.credited[c] = e.counters[c] + Taken(e, c)
  BY <1>2, <1>4
<1>6. QED BY <1>5 DEF CounterSound

(* Counters are sound as long as they and the missions are left alone.     *)
LEMMA CountersFrame ==
  ASSUME NEW d, NEW e, CountersSound(d), e.counters = d.counters,
         e.credited = d.credited, e.missions = d.missions
  PROVE  CountersSound(e)
BY SameMissions DEF CountersSound, CounterSound

(* A command that begins with sound counters has sound counters.           *)
LEMMA BeginCountersInv ==
  ASSUME CountersInv, NEW type, NEW o, Begin(type, o), CountersSound(o.d)
  PROVE  CountersInv'
<1>1. tx'.d = o.d /\ db' = db
  BY DEF Begin
<1>2. CountersSound(db)
  BY DEF CountersInv, Throughout
<1>3. CountersSound(db)' /\ CountersSound(tx.d)'
  <2>1. CountersSound(db') /\ CountersSound(tx'.d)
    BY <1>1, <1>2
  <2>2. QED BY <2>1 DEF CountersSound, CounterSound, Reserved, Taken
<1>4. QED BY <1>3 DEF CountersInv, Throughout

(* A change of the state is such a beginning.                              *)
LEMMA ChangeCountersInv ==
  ASSUME CountersInv, NEW type, NEW d, Change(type, d), CountersSound(d)
  PROVE  CountersInv'
<1>1. Outcome(d, <<>>, FALSE, "none").d = d
  BY DEF Outcome
<1>2. QED BY <1>1, BeginCountersInv DEF Change

(* No movement command touches a counter or a mission.                     *)
LEMMA MovementCountersInv ==
  ASSUME TypeOK, CountersInv, MovementCommands PROVE CountersInv'
<1>1. PICK type, o : Begin(type, o) /\ SameResources(db, o.d)
  BY MovementKeepsResources
<1>2. CountersSound(o.d)
  BY <1>1, CountersFrame DEF CountersInv, Throughout, SameResources
<1>3. QED BY <1>1, <1>2, BeginCountersInv

(* Resolving a pending mission takes from its counter what it owed.        *)
LEMMA ResolvedSound ==
  ASSUME NEW d \in SessionState, CountersSound(d), NEW k \in DOMAIN d.missions,
         NEW status \in {"completed", "waived", "shielded"},
         d.missions[k].status = "pending",
         d.missions[k].settles = "mission_completion"
           => d.counters[d.missions[k].counter] >= d.missions[k].amount
  PROVE  CountersSound(Resolved(d, k, status))
<1> DEFINE m == d.missions[k]
           resolved == [m EXCEPT !.status = status]
           e == Resolved(d, k, status)
<1>0. m = d.missions[k]
  OBVIOUS
<1>1. m \in Mission /\ e \in SessionState /\ d.counters \in [Counters -> Nat]
  <2>1. e \in SessionState
    BY ResolvedType
  <2>2. m \in Mission /\ d.counters \in [Counters -> Nat]
    BY DEF SessionState
  <2>3. QED BY <2>1, <2>2
<1>2. /\ e.missions = [d.missions EXCEPT ![k] = resolved]
      /\ e.credited = d.credited
      /\ e.counters = IF m.settles = "mission_completion"
                      THEN [d.counters EXCEPT ![m.counter] = @ - m.amount] ELSE d.counters
  BY DEF Resolved, SessionState
<1>3. /\ resolved.counter = m.counter /\ resolved.settles = m.settles
      /\ resolved.amount = m.amount /\ resolved.status # "pending"
      /\ m.status = "pending" /\ m.amount \in Nat
  BY <1>1 DEF Mission, MissionRow
<1> HIDE DEF m, resolved, e
<1>4. SUFFICES ASSUME NEW c \in Counters PROVE CounterSound(e, c)
  BY DEF CountersSound, e
<1>5. /\ Reserved(d, c) \in Nat /\ Reserved(e, c) \in Nat
      /\ Reserved(e, c) = Reserved(d, c) + Owed(resolved, c) - Owed(m, c)
      /\ Taken(d, c) \in Nat
      /\ Taken(e, c) = Taken(d, c) + Took(resolved, c) - Took(m, c)
  <2>1. /\ Reserved(d, c) \in Nat /\ Reserved(e, c) \in Nat
        /\ Reserved(e, c) = Reserved(d, c) + Owed(resolved, c) - Owed(d.missions[k], c)
        /\ Taken(d, c) \in Nat
        /\ Taken(e, c) = Taken(d, c) + Took(resolved, c) - Took(d.missions[k], c)
    BY <1>1, <1>2, MissionChanged
  <2>2. QED BY <1>0, <2>1
<1>6. d.counters[c] \in Nat /\ d.credited[c] \in Int /\ CounterSound(d, c)
  BY <1>1 DEF SessionState, CountersSound
<1>7. Reserved(d, c) <= d.counters[c]
  BY <1>6 DEF CounterSound
<1>8. CASE m.settles = "mission_completion" /\ m.counter = c
  <2>1. /\ Owed(resolved, c) = 0 /\ Owed(m, c) = m.amount
        /\ Took(resolved, c) = m.amount /\ Took(m, c) = 0
    BY <1>3, <1>8 DEF Owed, Took
  <2>2. /\ Reserved(e, c) = Reserved(d, c) + (0 - m.amount)
        /\ Taken(e, c) = Taken(d, c) + m.amount
    BY <1>3, <1>5, <2>1
  <2>3. e.counters[c] = d.counters[c] + (0 - m.amount)
    BY <1>1, <1>2, <1>3, <1>6, <1>8
  <2>4. e.credited[c] = d.credited[c] + ((0 - m.amount) + m.amount)
    BY <1>2, <1>3, <1>6
  <2>5. Reserved(d, c) + (0 - m.amount) <= d.counters[c] + (0 - m.amount)
    BY <1>3, <1>5, <1>6, <1>7
  <2>6. 0 - m.amount \in Int /\ m.amount \in Int
    BY <1>3
  <2>7. QED BY <1>6, <2>2, <2>3, <2>4, <2>5, <2>6, CounterMoves
<1>9. CASE ~(m.settles = "mission_completion" /\ m.counter = c)
  <2>1. Owed(resolved, c) = 0 /\ Owed(m, c) = 0 /\ Took(resolved, c) = Took(m, c)
    BY <1>3, <1>9 DEF Owed, Took
  <2>2. Took(m, c) \in Nat
    BY <1>3 DEF Took
  <2>3. Reserved(e, c) = Reserved(d, c) /\ Taken(e, c) = Taken(d, c)
    BY <1>5, <2>1, <2>2
  <2>4. e.counters[c] = d.counters[c] /\ e.credited[c] = d.credited[c]
    BY <1>1, <1>2, <1>9
  <2>5. QED BY <1>6, <2>3, <2>4 DEF CounterSound
<1>10. QED BY <1>8, <1>9

(* What an operator may do to counters, items and missions keeps it.       *)
LEMMA ResourceCountersInv ==
  ASSUME TypeOK, CountersInv, ResourceCommands PROVE CountersInv'
<1>1. db \in SessionState /\ CountersSound(db)
  BY DEF TypeOK, CountersInv, Throughout
<1>2. ASSUME NEW c \in Counters, NEW n \in Quantities, adjust_counter(c, n) PROVE CountersInv'
  <2> DEFINE d == [db EXCEPT !.counters[c] = n, !.credited[c] = @ + n - db.counters[c]]
  <2>1. n \in Nat /\ n >= Reserved(db, c)
    BY <1>2, SizeAssumption DEF adjust_counter
  <2>2. /\ d.missions = db.missions
        /\ d.counters = [db.counters EXCEPT ![c] = n]
        /\ d.credited = [db.credited EXCEPT ![c] = db.credited[c] + n - db.counters[c]]
    BY <1>1 DEF SessionState
  <2>3. Change("adjust_counter", d)
    BY <1>2 DEF adjust_counter
  <2> HIDE DEF d
  <2>4. ASSUME NEW x \in Counters PROVE CounterSound(d, x)
    <3>1. /\ db.counters[x] \in Nat /\ db.credited[x] \in Int /\ CounterSound(db, x)
          /\ db.counters \in [Counters -> Nat] /\ db.credited \in [Counters -> Int]
      BY <1>1 DEF SessionState, CountersSound
    <3>2. Reserved(db, x) \in Nat /\ Taken(db, x) \in Nat
      BY <1>1, SumsAreNat
    <3>3. Reserved(d, x) = Reserved(db, x) /\ Taken(d, x) = Taken(db, x)
      BY <2>2, SameMissions
    <3>4. CASE x = c
      <4>1. PICK k \in Int : k = n - db.counters[x]
        BY <2>1, <3>1
      <4>2. d.counters[x] = db.counters[x] + k
        BY <2>1, <2>2, <3>1, <3>4, <4>1
      <4>3. d.credited[x] = db.credited[x] + (k + 0)
        BY <2>1, <2>2, <3>1, <3>4, <4>1
      <4>4. Reserved(d, x) = Reserved(db, x) + 0 /\ Taken(d, x) = Taken(db, x) + 0
        BY <3>2, <3>3
      <4>5. Reserved(db, x) + 0 <= db.counters[x] + k
        BY <2>1, <3>1, <3>2, <3>4, <4>1
      <4>6. 0 \in Int
        OBVIOUS
      <4>7. QED BY <1>1, <3>1, <4>1, <4>2, <4>3, <4>4, <4>5, <4>6, CounterMoves
    <3>5. CASE x # c
      <4>1. d.counters[x] = db.counters[x] /\ d.credited[x] = db.credited[x]
        BY <2>2, <3>1, <3>5
      <4>2. QED BY <3>1, <3>3, <4>1 DEF CounterSound
    <3>6. QED BY <3>4, <3>5
  <2>5. QED BY <2>3, <2>4, ChangeCountersInv DEF CountersSound
<1>3. ASSUME NEW d \in SessionState, CountersSound(d), NEW i, NEW delta
      PROVE  LET e == Moved(d, i, delta) IN
             /\ CountersSound(e) /\ e.missions = d.missions /\ e.counters = d.counters
  <2>1. LET e == Moved(d, i, delta) IN
        e.missions = d.missions /\ e.counters = d.counters /\ e.credited = d.credited
    BY DEF Moved, SessionState
  <2>2. QED BY <1>3, <2>1, CountersFrame
<1>4. ASSUME NEW i \in Items, NEW delta, adjust_inventory(i, delta) PROVE CountersInv'
  BY <1>1, <1>3, <1>4, ChangeCountersInv DEF adjust_inventory
<1>5. ASSUME NEW m \in DOMAIN db.missions, complete_mission(m) PROVE CountersInv'
  <2>1. CountersSound(Resolved(db, m, "completed"))
    BY <1>1, <1>5, ResolvedSound DEF complete_mission, Resolvable
  <2>2. QED BY <1>5, <2>1, ChangeCountersInv DEF complete_mission
<1>6. ASSUME NEW m \in DOMAIN db.missions, waive_mission(m) PROVE CountersInv'
  <2>1. CountersSound(Resolved(db, m, "waived"))
    BY <1>1, <1>6, ResolvedSound DEF waive_mission, Resolvable
  <2>2. QED BY <1>6, <2>1, ChangeCountersInv DEF waive_mission
<1>7. ASSUME NEW m \in DOMAIN db.missions, use_shield(m) PROVE CountersInv'
  <2> DEFINE i == db.missions[m].shield
             cost == db.missions[m].cost
             paid == Moved(db, i, 0 - cost)
  <2>1. db.missions[m] \in Mission
    BY <1>1 DEF SessionState
  <2>2. i \in Items /\ cost \in Nat /\ db.stock[i].quantity >= cost
    BY <1>7, <2>1 DEF use_shield, Mission, MissionRow
  <2>3. 0 - cost \in Int /\ db.stock[i].quantity + (0 - cost) >= 0
    BY <1>1, <2>2 DEF SessionState, Stock
  <2>4. paid \in SessionState
    BY <1>1, <2>2, <2>3, MovedType
  <2>5. CountersSound(paid) /\ paid.missions = db.missions /\ paid.counters = db.counters
    BY <1>1, <1>3
  <2>6. Change("use_shield", Resolved(paid, m, "shielded")) /\ Resolvable(m)
    BY <1>7 DEF use_shield
  <2> HIDE DEF paid
  <2>7. CountersSound(Resolved(paid, m, "shielded"))
    BY <2>4, <2>5, <2>6, ResolvedSound DEF Resolvable
  <2>8. QED BY <2>6, <2>7, ChangeCountersInv
<1>8. QED BY <1>2, <1>4, <1>5, <1>6, <1>7 DEF ResourceCommands

(* A mission that owes nothing, and nothing new taken, leaves the counters *)
(* sound.                                                                  *)
LEMMA MissionAlone ==
  ASSUME NEW d \in SessionState, NEW e \in SessionState, CountersSound(d), NEW m \in Mission,
         e.missions = Append(d.missions, m), e.counters = d.counters,
         e.credited = d.credited, m.settles = "never"
  PROVE  CountersSound(e)
<1> SUFFICES ASSUME NEW c \in Counters PROVE CounterSound(e, c)
  BY DEF CountersSound
<1>1. Owed(m, c) = 0 /\ Took(m, c) = 0
  BY DEF Owed, Took
<1>2. Reserved(e, c) = Reserved(d, c) /\ Taken(e, c) = Taken(d, c)
  BY <1>1, MissionAdded
<1>3. QED BY <1>2 DEF CountersSound, CounterSound

(* Effects credit and settle counters; what is settled is taken at once.   *)
LEMMA EffectsCountersInv ==
  ASSUME TypeOK, CountersInv, Effects PROVE CountersInv'
<1> DEFINE e == CurrentEffect
<1>1. tx # Idle /\ tx' # Idle /\ db' = db
  BY EffectsKeep
<1>2. tx \in Transaction /\ tx.d \in SessionState /\ CountersSound(tx.d) /\ CountersSound(db)
  BY <1>1 DEF TypeOK, Transaction, CountersInv, Throughout
<1>3. tx'.d \in SessionState
  BY <1>1, EffectsType DEF TypeOK, Transaction
<1>4. ASSUME CountersSound(tx'.d) PROVE CountersInv'
  <2>1. CountersSound(db') /\ CountersSound(tx'.d)
    BY <1>1, <1>2, <1>4
  <2>2. CountersSound(db)' /\ CountersSound(tx.d)'
    BY <2>1 DEF CountersSound, CounterSound, Reserved, Taken
  <2>3. QED BY <2>2 DEF CountersInv, Throughout
<1> DEFINE Same(d) == /\ d.counters = tx.d.counters /\ d.credited = tx.d.credited
                      /\ d.missions = tx.d.missions
<1>5. ASSUME Same(tx'.d) PROVE CountersInv'
  BY <1>2, <1>4, <1>5, CountersFrame
<1>6. ASSUME NEW d, Done(d) PROVE tx'.d = d
  BY <1>1, <1>6, EffectedFields DEF Done
<1>7. CASE EffectNone
  BY <1>5, <1>6, <1>7 DEF EffectNone
<1>8. CASE EffectMission
  <2> DEFINE m == NewMission(e.shield, e.cost, NoCounter, 0, "never")
             d == [tx.d EXCEPT !.missions = Append(@, m)]
  <2>1. e.type = "mission" /\ Executing
    BY <1>8 DEF EffectMission, Runs
  <2>2. e.shield \in Items \cup {NoItem} /\ e.cost \in Nat
    BY <2>1, CurrentEffectType DEF Effect
  <2>3. m \in Mission /\ m.settles = "never"
    BY <2>2, NewMissionType DEF NewMission
  <2>4. tx'.d = d
    BY <1>6, <1>8 DEF EffectMission
  <2>5. /\ d.missions = Append(tx.d.missions, m) /\ d.counters = tx.d.counters
        /\ d.credited = tx.d.credited
    BY <1>2 DEF SessionState
  <2> HIDE DEF d, m
  <2>6. QED BY <1>2, <1>3, <1>4, <2>3, <2>4, <2>5, MissionAlone
<1>9. CASE EffectSetDirection
  <2>1. \A x : Same([tx.d EXCEPT !.direction = x])
    BY <1>2 DEF SessionState
  <2>2. QED BY <1>5, <1>6, <1>9, <2>1 DEF EffectSetDirection
<1>10. CASE EffectCounterAdd
  <2> DEFINE d == [tx.d EXCEPT !.counters[e.counter] = @ + e.quantity,
                               !.credited[e.counter] = @ + e.quantity]
  <2>1. e.type = "counter_add" /\ Executing
    BY <1>10 DEF EffectCounterAdd, Runs
  <2>2. e.counter \in Counters /\ e.quantity \in Nat
    BY <2>1, CurrentEffectType DEF Effect
  <2>3. tx'.d = d
    BY <1>6, <1>10 DEF EffectCounterAdd
  <2>4. /\ d.missions = tx.d.missions
        /\ d.counters = [tx.d.counters EXCEPT ![e.counter] = tx.d.counters[e.counter] + e.quantity]
        /\ d.credited = [tx.d.credited EXCEPT ![e.counter] = tx.d.credited[e.counter] + e.quantity]
    BY <1>2 DEF SessionState
  <2>5. PICK c, n : c = e.counter /\ n = e.quantity
    OBVIOUS
  <2> HIDE DEF d, e
  <2>6. ASSUME NEW x \in Counters PROVE CounterSound(d, x)
    <3>1. /\ tx.d.counters[x] \in Nat /\ tx.d.credited[x] \in Int /\ CounterSound(tx.d, x)
          /\ tx.d.counters \in [Counters -> Nat] /\ tx.d.credited \in [Counters -> Int]
      BY <1>2 DEF SessionState, CountersSound
    <3>2. Reserved(tx.d, x) \in Nat /\ Taken(tx.d, x) \in Nat
      BY <1>2, SumsAreNat
    <3>3. Reserved(d, x) = Reserved(tx.d, x) /\ Taken(d, x) = Taken(tx.d, x)
      BY <2>4, SameMissions
    <3>4. CASE x = c
      <4>1. n \in Int /\ n >= 0 /\ 0 \in Int
        BY <2>2, <2>5
      <4>2. d.counters[x] = tx.d.counters[x] + n
        BY <2>4, <2>5, <3>1, <3>4
      <4>3. d.credited[x] = tx.d.credited[x] + n
        BY <2>4, <2>5, <3>1, <3>4
      <4>4. d.credited[x] = tx.d.credited[x] + (n + 0)
        BY <4>1, <4>3
      <4>5. Reserved(d, x) = Reserved(tx.d, x) + 0 /\ Taken(d, x) = Taken(tx.d, x) + 0
        BY <3>2, <3>3
      <4>6. Reserved(tx.d, x) + 0 <= tx.d.counters[x] + n
        BY <3>1, <3>2, <4>1 DEF CounterSound
      <4>7. QED BY <1>2, <3>1, <4>1, <4>2, <4>4, <4>5, <4>6, CounterMoves
    <3>5. CASE x # c
      <4>1. d.counters[x] = tx.d.counters[x] /\ d.credited[x] = tx.d.credited[x]
        BY <2>4, <2>5, <3>1, <3>5
      <4>2. QED BY <3>1, <3>3, <4>1 DEF CounterSound
    <3>6. QED BY <3>4, <3>5
  <2>7. QED BY <1>4, <2>3, <2>6 DEF CountersSound
<1>11. CASE EffectCounterSettle
  <2> DEFINE amount == Unreserved(tx.d, e.counter)
             settled == NewMission(e.shield, e.cost, e.counter, amount, "creation")
             d == [tx.d EXCEPT !.counters[e.counter] = @ - amount,
                               !.missions = Append(@, settled)]
  <2>1. e.type = "counter_settle" /\ Executing
    BY <1>11 DEF EffectCounterSettle, Runs
  <2>2. e.counter \in Counters /\ e.shield \in Items \cup {NoItem} /\ e.cost \in Nat
    BY <2>1, CurrentEffectType DEF Effect
  <2>3. CASE amount \notin 1 .. tx.d.counters[e.counter]
    <3>1. Done(tx.d)
      BY <1>11, <2>3 DEF EffectCounterSettle
    <3>2. QED BY <1>5, <1>6, <3>1
  <2>4. CASE amount \in 1 .. tx.d.counters[e.counter]
    <3>1. Done(d)
      BY <1>11, <2>4 DEF EffectCounterSettle
    <3>2. tx'.d = d
      BY <1>6, <3>1
    <3>3. /\ d.missions = Append(tx.d.missions, settled) /\ d.credited = tx.d.credited
          /\ d.counters = [tx.d.counters EXCEPT ![e.counter] = tx.d.counters[e.counter] - amount]
      BY <1>2 DEF SessionState
    <3>4. amount = tx.d.counters[e.counter] - Reserved(tx.d, e.counter)
      BY DEF Unreserved
    <3>5. PICK c, n : c = e.counter /\ n = amount
      OBVIOUS
    <3>6. n \in Nat
      BY <1>2, <2>2, <2>4, <3>5 DEF SessionState
    <3>7. settled \in Mission
      BY <2>2, <3>5, <3>6, NewMissionType
    <3>8. settled.counter = c /\ settled.amount = n /\ settled.settles = "creation"
      BY <3>5 DEF NewMission
    <3> HIDE DEF d, settled, amount, e
    <3>9. ASSUME NEW x \in Counters PROVE CounterSound(d, x)
      <4>1. /\ tx.d.counters[x] \in Nat /\ tx.d.credited[x] \in Int /\ CounterSound(tx.d, x)
            /\ tx.d.counters \in [Counters -> Nat]
        BY <1>2 DEF SessionState, CountersSound
      <4>2. /\ Reserved(tx.d, x) \in Nat /\ Taken(tx.d, x) \in Nat
            /\ Reserved(d, x) = Reserved(tx.d, x) + Owed(settled, x)
            /\ Taken(d, x) = Taken(tx.d, x) + Took(settled, x)
        BY <1>2, <1>3, <3>2, <3>3, <3>7, MissionAdded
      <4>3. Owed(settled, x) = 0 /\ Took(settled, x) = IF x = c THEN n ELSE 0
        BY <3>8 DEF Owed, Took
      <4>4. CASE x = c
        <5>1. 0 - n \in Int /\ n \in Int /\ 0 \in Int
          BY <3>6
        <5>2. n = tx.d.counters[x] - Reserved(tx.d, x)
          BY <3>4, <3>5, <4>4
        <5>3. d.counters[x] = tx.d.counters[x] + (0 - n)
          BY <3>3, <3>5, <3>6, <4>1, <4>4
        <5>4. d.credited[x] = tx.d.credited[x] + ((0 - n) + n)
          BY <3>3, <3>6, <4>1
        <5>5. Reserved(d, x) = Reserved(tx.d, x) + 0 /\ Taken(d, x) = Taken(tx.d, x) + n
          BY <4>2, <4>3, <4>4
        <5>6. Reserved(tx.d, x) + 0 <= tx.d.counters[x] + (0 - n)
          BY <4>1, <4>2, <5>2
        <5>7. QED BY <1>2, <4>1, <5>1, <5>3, <5>4, <5>5, <5>6, CounterMoves
      <4>5. CASE x # c
        <5>1. d.counters[x] = tx.d.counters[x] /\ d.credited[x] = tx.d.credited[x]
          BY <3>3, <3>5, <4>1, <4>5
        <5>2. Reserved(d, x) = Reserved(tx.d, x) /\ Taken(d, x) = Taken(tx.d, x)
          BY <4>2, <4>3, <4>5
        <5>3. QED BY <4>1, <5>1, <5>2 DEF CounterSound
      <4>6. QED BY <4>4, <4>5
    <3>10. QED BY <1>4, <3>2, <3>9 DEF CountersSound
  <2>5. QED BY <2>3, <2>4
<1>12. CASE EffectModifyRoll
  <2>1. \A x : Same([tx.d EXCEPT !.modifier = x])
    BY <1>2 DEF SessionState
  <2>2. QED BY <1>5, <1>6, <1>12, <2>1 DEF EffectModifyRoll
<1>13. CASE EffectMovementLock
  <2>1. \A x : Same([tx.d EXCEPT !.lock = x])
    BY <1>2 DEF SessionState
  <2>2. QED BY <1>5, <1>6, <1>13, <2>1 DEF EffectMovementLock
<1>14. CASE EffectGrantItem
  <2>1. \A i, n : Same(Moved(tx.d, i, n))
    BY <1>2 DEF Moved, SessionState
  <2>2. QED BY <1>5, <1>6, <1>14, <2>1 DEF EffectGrantItem
<1>15. CASE EffectMoveSteps
  <2>1. PICK cell, visits :
          tx' = [Effected([tx.d EXCEPT !.cell = cell], visits) EXCEPT !.steps = @ + e.steps]
    BY <1>15 DEF EffectMoveSteps
  <2>2. Effected([tx.d EXCEPT !.cell = cell], visits).d = [tx.d EXCEPT !.cell = cell]
    BY <1>1, EffectedFields
  <2>3. tx'.d = Effected([tx.d EXCEPT !.cell = cell], visits).d
    BY <2>1
  <2>4. Same(tx'.d)
    BY <1>2, <2>2, <2>3 DEF SessionState
  <2>5. QED BY <1>5, <2>4
<1>16. CASE EffectChooseDestination
  <2>1. PICK r : tx' = [Effected(tx.d, <<>>) EXCEPT !.travels = Append(@, r)]
    BY <1>16 DEF EffectChooseDestination
  <2>2. Effected(tx.d, <<>>).d = tx.d
    BY <1>1, EffectedFields
  <2>3. tx'.d = Effected(tx.d, <<>>).d
    BY <2>1
  <2>4. QED BY <1>5, <2>2, <2>3
<1>17. CASE LeaveCell
  <2>1. tx'.d = tx.d
    BY <1>2, <1>17 DEF LeaveCell, Transaction
  <2>2. QED BY <1>5, <2>1
<1>18. QED BY <1>7, <1>8, <1>9, <1>10, <1>11, <1>12, <1>13, <1>14, <1>15, <1>16, <1>17
           DEF Effects

(* The migration takes what was reserved, and nothing is reserved then.    *)
LEMMA BackfilledSound ==
  ASSUME TypeOK, CountersSound(db), Backfill
  PROVE  CountersSound(db')
<1>1. db \in SessionState /\ db' \in SessionState
  BY OtherStepsType DEF TypeOK
<1>2. SUFFICES ASSUME NEW c \in Counters PROVE CounterSound(db', c)
  BY DEF CountersSound
<1>3. /\ db'.counters[c] = db.counters[c] - Reserved(db, c)
      /\ db'.credited = db.credited
      /\ db'.missions = [m \in DOMAIN db.missions |-> Backfilled(db.missions[m])]
  BY <1>1 DEF Backfill, SessionState, Unreserved
<1>4. PICK old, new \in Seq(Mission) : old = db.missions /\ new = db'.missions
  BY <1>1 DEF SessionState
<1>5. /\ Len(old) \in Nat /\ DOMAIN old = 1 .. Len(old) /\ Len(new) = Len(old)
      /\ \A n \in 1 .. Len(old) : new[n] = Backfilled(old[n])
  BY <1>3, <1>4
<1>6. PICK k : k = Len(old)
  OBVIOUS
<1>7. PICK W, U, V, Z :
        k \in Nat /\ k = Len(old) /\ W = TookBy(old, c) /\ U = OwedBy(old, c)
          /\ V = TookBy(new, c) /\ Z = OwedBy(new, c)
  BY <1>5, <1>6
<1>8. k \in Nat /\ W \in Weights(k) /\ U \in Weights(k) /\ V \in Weights(k) /\ Z \in Weights(k)
  BY <1>5, <1>7, OwedType
<1>9. ASSUME NEW n \in 1 .. k PROVE V[n] = W[n] + U[n] /\ Z[n] = 0
  <2>1. PICK m \in Mission : m = old[n]
    BY <1>5, <1>7
  <2>2. /\ m.amount \in Nat
        /\ Took(Backfilled(m), c) = Took(m, c) + Owed(m, c) /\ Owed(Backfilled(m), c) = 0
    BY DEF Took, Owed, Backfilled, Mission, MissionRow
  <2>3. QED BY <1>5, <1>7, <2>1, <2>2 DEF TookBy, OwedBy
<1>10. /\ IsSum(W, k, Taken(db, c)) /\ IsSum(U, k, Reserved(db, c))
       /\ IsSum(V, k, Taken(db', c)) /\ IsSum(Z, k, Reserved(db', c))
  BY <1>4, <1>5, <1>7, ReservedIs, TakenIs
<1>11. /\ Taken(db, c) \in Nat /\ Reserved(db, c) \in Nat
       /\ Taken(db', c) = Taken(db, c) + Reserved(db, c)
  BY <1>8, <1>9, <1>10, SumsMerge
<1>12. Reserved(db', c) = 0
  <2>1. \A n \in 1 .. k : Z[n] = Z[n] + Z[n]
    BY <1>9
  <2>2. Reserved(db', c) \in Nat /\ Reserved(db', c) = Reserved(db', c) + Reserved(db', c)
    BY <1>8, <1>10, <2>1, SumsMerge
  <2>3. QED BY <2>2
<1>13. /\ db.counters[c] \in Nat /\ db.credited[c] \in Int /\ CounterSound(db, c)
  BY <1>1 DEF SessionState, CountersSound
<1>14. QED BY <1>3, <1>11, <1>12, <1>13 DEF CounterSound

(* Commits, new sessions, publications, the older release and the          *)
(* migration keep it.                                                      *)
LEMMA OtherStepsCountersInv ==
  ASSUME TypeOK, CountersInv
  PROVE  /\ Commit => CountersInv'
         /\ Rollback => CountersInv'
         /\ \A c \in Cells, d \in Directions, b \in BoardIds :
              createSession(c, d, b) => CountersInv'
         /\ \A c \in Catalogs : PublishItems(c) => CountersInv'
         /\ (\A c \in Counters : LegacySettle(c) => CountersInv') /\ (Backfill => CountersInv')
         /\ UNCHANGED vars => CountersInv'
<1>1. db \in SessionState /\ CountersSound(db)
  BY DEF TypeOK, CountersInv, Throughout
<1>2. ASSUME CountersSound(db'), tx' = Idle PROVE CountersInv'
  <2>1. CountersSound(db)'
    BY <1>2 DEF CountersSound, CounterSound, Reserved, Taken
  <2>2. QED BY <1>2, <2>1 DEF CountersInv, Throughout
<1>3. ASSUME Commit PROVE CountersInv'
  <2>1. tx # Idle /\ tx' = Idle
    BY <1>3 DEF Commit, Finished
  <2>2. tx \in Transaction /\ CountersSound(tx.d) /\ tx.d \in SessionState
    BY <2>1 DEF TypeOK, CountersInv, Throughout, Transaction
  <2>3. /\ db'.counters = tx.d.counters /\ db'.credited = tx.d.credited
        /\ db'.missions = tx.d.missions
    BY <1>3, <2>2 DEF Commit, SessionState
  <2>4. QED BY <1>2, <2>1, <2>2, <2>3, CountersFrame
<1>4. ASSUME Rollback PROVE CountersInv'
  BY <1>1, <1>2, <1>4 DEF Rollback
<1>5. ASSUME NEW c \in Cells, NEW d \in Directions, NEW b \in BoardIds, createSession(c, d, b)
      PROVE  CountersInv'
  <2>1. /\ db'.missions = <<>> /\ db'.counters = InitialCounter
        /\ db'.credited = InitialCounter /\ tx' = Idle
    BY <1>5 DEF createSession, Fresh
  <2>2. CountersSound(db')
    <3> SUFFICES ASSUME NEW x \in Counters PROVE CounterSound(db', x)
      BY DEF CountersSound
    <3>1. Reserved(db', x) = 0 /\ Taken(db', x) = 0
      BY <2>1, NoMissions
    <3>2. InitialCounter[x] \in Nat
      BY CatalogAssumption
    <3>3. QED BY <2>1, <3>1, <3>2 DEF CounterSound
  <2>3. QED BY <1>2, <2>1, <2>2
<1>6. ASSUME NEW c \in Catalogs, PublishItems(c) PROVE CountersInv'
  <2>1. /\ db'.counters = db.counters /\ db'.credited = db.credited
        /\ db'.missions = db.missions /\ tx' = Idle
    BY <1>1, <1>6 DEF PublishItems, SessionState
  <2>2. QED BY <1>1, <1>2, <2>1, CountersFrame
<1>7. ASSUME NEW c \in Counters, LegacySettle(c) PROVE CountersInv'
  <2> DEFINE amount == Unreserved(db, c)
             m == NewMission(NoItem, 0, c, amount, "mission_completion")
  <2>1. amount \in 1 .. db.counters[c] /\ tx' = Idle
    BY <1>7 DEF LegacySettle, Active
  <2>2. /\ db'.missions = Append(db.missions, m) /\ db'.counters = db.counters
        /\ db'.credited = db.credited
    BY <1>1, <1>7 DEF LegacySettle, SessionState
  <2>3. amount = db.counters[c] - Reserved(db, c)
    BY DEF Unreserved
  <2>4. db' \in SessionState
    BY <1>7, OtherStepsType DEF TypeOK
  <2>5. PICK n : n = amount
    OBVIOUS
  <2>6. n \in Nat
    BY <1>1, <2>1, <2>5 DEF SessionState
  <2>7. m \in Mission
    BY <2>5, <2>6, NewMissionType
  <2>8. /\ m.counter = c /\ m.amount = n /\ m.settles = "mission_completion"
        /\ m.status = "pending"
    BY <2>5 DEF NewMission
  <2> HIDE DEF m, amount
  <2>9. ASSUME NEW x \in Counters PROVE CounterSound(db', x)
    <3>1. /\ Reserved(db, x) \in Nat /\ Taken(db, x) \in Nat
          /\ Reserved(db', x) = Reserved(db, x) + Owed(m, x)
          /\ Taken(db', x) = Taken(db, x) + Took(m, x)
      BY <1>1, <2>2, <2>4, <2>7, MissionAdded
    <3>2. Took(m, x) = 0 /\ Owed(m, x) = IF x = c THEN n ELSE 0
      BY <2>8 DEF Owed, Took
    <3>3. CounterSound(db, x) /\ db.counters[x] \in Nat
      BY <1>1 DEF CountersSound, SessionState
    <3>4. Taken(db', x) = Taken(db, x)
      BY <3>1, <3>2
    <3>5. Reserved(db', x) <= db.counters[x]
      <4>1. CASE x = c
        <5>1. n = db.counters[x] - Reserved(db, x)
          BY <2>3, <2>5, <4>1
        <5>2. QED BY <3>1, <3>2, <3>3, <4>1, <5>1
      <4>2. CASE x # c
        BY <3>1, <3>2, <3>3, <4>2 DEF CounterSound
      <4>3. QED BY <4>1, <4>2
    <3>6. QED BY <2>2, <3>3, <3>4, <3>5 DEF CounterSound
  <2>10. QED BY <1>2, <2>1, <2>9 DEF CountersSound
<1>10. ASSUME Backfill PROVE CountersInv'
  BY <1>1, <1>2, <1>10, BackfilledSound DEF Backfill
<1>8. ASSUME UNCHANGED vars PROVE CountersInv'
  <2>1. db' = db /\ tx' = tx
    BY <1>8 DEF vars
  <2>2. CountersSound(db') /\ (tx' # Idle => CountersSound(tx'.d))
    BY <2>1 DEF CountersInv, Throughout
  <2>3. CountersSound(db)' /\ (tx' # Idle => CountersSound(tx.d)')
    BY <2>2 DEF CountersSound, CounterSound, Reserved, Taken
  <2>4. QED BY <2>3 DEF CountersInv, Throughout
<1>9. QED BY <1>3, <1>4, <1>5, <1>6, <1>7, <1>8, <1>10

(* The channel starts with nothing owed and nothing taken.                 *)
LEMMA InitCountersInv == Init => CountersInv
<1> SUFFICES ASSUME Init PROVE CountersInv
  OBVIOUS
<1>1. /\ db.missions = <<>> /\ db.counters = InitialCounter
      /\ db.credited = InitialCounter /\ tx = Idle
  BY DEF Init
<1>2. CountersSound(db)
  <2> SUFFICES ASSUME NEW x \in Counters PROVE CounterSound(db, x)
    BY DEF CountersSound
  <2>1. Reserved(db, x) = 0 /\ Taken(db, x) = 0
    BY <1>1, NoMissions
  <2>2. InitialCounter[x] \in Nat
    BY CatalogAssumption
  <2>3. QED BY <1>1, <2>1, <2>2 DEF CounterSound
<1>3. QED BY <1>1, <1>2 DEF CountersInv, Throughout

(* Settling, reserving, resolving and correcting never disagree about what *)
(* a counter holds, however many missions there are.                       *)
THEOREM CountersAreSound == Spec => []CountersInv
<1>1. TypeOK /\ CountersInv /\ [Next]_vars => CountersInv'
  BY MovementCountersInv, ResourceCountersInv, EffectsCountersInv, OtherStepsCountersInv
     DEF Next, Work
<1>2. QED BY <1>1, InitCountersInv, TypeCorrect, PTL DEF Spec

(* A counter covers what pending missions will take from it.               *)
THEOREM ReservationsAreCovered == Spec => []ReservationsCovered
<1>1. CountersInv => ReservationsCovered
  BY DEF CountersInv, CountersSound, CounterSound, ReservationsCovered, Throughout
<1>2. QED BY <1>1, CountersAreSound, PTL

(* Nothing is settled twice or lost.                                       *)
THEOREM CountersAreConserved == Spec => []CountersConserved
<1>1. CountersInv => CountersConserved
  BY DEF CountersInv, CountersSound, CounterSound, CountersConserved, Throughout
<1>2. QED BY <1>1, CountersAreSound, PTL
=============================================================================
