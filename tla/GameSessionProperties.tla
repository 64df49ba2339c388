------------------------ MODULE GameSessionProperties -----------------------
(* What the game session promises: invariants of the committed state and   *)
(* of the working copy of a transaction, and what one commit may do.       *)
EXTENDS GameSession

(* Every variable has its type: the state a command leaves behind, and     *)
(* every state in the middle of a transaction, is one the schema can hold. *)
TypeOK == db \in SessionState /\ tx \in Transaction \cup {Idle}

(* P holds of the committed state and of the working copy.                 *)
Throughout(P(_)) == P(db) /\ (tx # Idle => P(tx.d))

(* The ledger explains the stock.  Each inventory row's quantity and       *)
(* revision are what its ledger rows add up to: every row starts where the *)
(* one before it ended, whether an operator, a shield or a board effect    *)
(* wrote it (adjust_inventory, use_shield, grant_item).                    *)
LedgerExplains(d, i) ==
  LET rows == d.ledger[i] IN
  /\ Len(rows) = d.stock[i].revision
  /\ d.stock[i].quantity = IF rows = <<>> THEN 0 ELSE rows[Len(rows)].after
  /\ \A n \in DOMAIN rows :
       /\ rows[n].revision = n
       /\ rows[n].after = rows[n].before + rows[n].delta
       /\ rows[n].before = IF n = 1 THEN 0 ELSE rows[n - 1].after
LedgerExplainsStock == Throughout(LAMBDA d : \A i \in Items : LedgerExplains(d, i))

(* A running session never holds more of an item than the published        *)
(* catalog allows, and holds nothing of an item that is not active, however*)
(* grants, corrections and publications interleave.                        *)
StockFits(d) ==
  d.status \in {"running", "paused"} =>
    \A i \in Items :
      d.stock[i].quantity > 0 =>
        i \in d.catalog.active /\ d.stock[i].quantity <= d.catalog.max[i]
StockWithinCatalog == Throughout(StockFits)

(* A counter always covers what pending missions of the older release will *)
(* take from it, however corrections, settlements of this release, the old *)
(* slot's and the migration interleave: resolving such a mission cannot    *)
(* find too little, and migration 020 cannot fail on the counter's CHECK.  *)
ReservationsCovered ==
  Throughout(LAMBDA d : \A c \in Counters : Reserved(d, c) <= d.counters[c])

(* Nothing is settled twice or lost: what was ever credited to a counter is*)
(* what it still holds plus what settlement missions took, at creation, at *)
(* completion, or when the migration settled what was reserved.            *)
Taken(d, c) ==
  LET part(m) == IF /\ m.counter = c
                    /\ \/ m.settles = "creation"
                       \/ m.settles = "mission_completion" /\ m.status # "pending"
                 THEN m.amount ELSE 0
      sum[n \in 0 .. Len(d.missions)] ==
        IF n = 0 THEN 0 ELSE sum[n - 1] + part(d.missions[n])
  IN sum[Len(d.missions)]
CountersConserved ==
  Throughout(LAMBDA d : \A c \in Counters : d.credited[c] = d.counters[c] + Taken(d, c))

(* A session has at most one pending travel reservation, and the checks the*)
(* code makes before it inserts one are enough: no command reaches its     *)
(* commit only to be refused by one_pending_travel_per_session.            *)
OnePendingTravel(d) == \A j, k \in PendingTravels(d) : j = k
TravelIsUnique == Throughout(OnePendingTravel) /\ (Finished => Storable)

(* A session ends only when no destination is still owed to anyone.        *)
EndedIsQuiet ==
  db.status = "ended" => \A k \in DOMAIN db.tasks : db.tasks[k].status # "pending"

(* A pending mission can still be shielded: its shield item has not been   *)
(* taken out of the catalog.  The publication of items says so of itself   *)
(* ("Referenced item cannot be deactivated"), but an effect creates a      *)
(* mission without looking at the catalog.                                 *)
ShieldsRedeemable ==
  db.status \in {"running", "paused"} =>
    ShieldsWanted(db) \subseteq db.catalog.active \cup {NoItem}

(* ----------------------------- What a commit may do --------------------- *)
SameSession == db'.session = db.session
TaskCloses(k) == db.tasks[k].status = "pending" /\ db'.tasks[k].status # "pending"

(* The turn a player gave up to travel is never lost: a reservation that   *)
(* holds a turn closes only in a commit that makes the trip or plays the   *)
(* turn it returns (decideTravel, applyTravelDecision).                    *)
ReservedTurnHonoured ==
  [][SameSession =>
       \A k \in DOMAIN db.tasks :
         TaskCloses(k) /\ HoldsTurn(db.tasks[k]) =>
           db'.last.travel \in {"moved", "returned"} /\ db'.last.movement]_vars

(* A trip ends on a cell its effect allows and, if it must leave, not where*)
(* it started, whatever moved the pawn since the destination was chosen.   *)
TripIsAllowed ==
  [][SameSession =>
       \A k \in DOMAIN db.tasks :
         TaskCloses(k) /\ db'.tasks[k].status = "resolved" =>
           MayTravelTo(db, db'.tasks[k], db'.tasks[k].selected)]_vars

(* While the pawn is locked nothing but a correction or a roll of doubles  *)
(* that may move it does so, and no trip is made and no turn returned:     *)
(* pausing, resuming and choosing a destination leave it where it is.      *)
LockHoldsPawn ==
  [][SameSession /\ Locked(db) =>
       /\ db'.last # db.last => db'.last.travel \notin {"moved", "returned"}
       /\ db'.cell # db.cell =>
            \/ db'.last.type = "set_position"
            \/ /\ db'.last.type = "roll_dice"
               /\ db.lock.type = "skip_rolls_or_doubles"
               /\ db.lock.onDoubles = "move_sum"]_vars

(* The overlay can follow the pawn: a commit that puts it on another cell  *)
(* either carries a path to play or starts a new presentation epoch.       *)
PawnIsPresented ==
  [][SameSession /\ db'.cell # db.cell =>
       db'.last.movement \/ db'.presentation > db.presentation]_vars

(* A chain of effects ends, even on a board whose cells send the pawn to   *)
(* one another forever: every command commits or rolls back.               *)
CommandsEnd == (tx # Idle) ~> (tx = Idle)

(* ---------------------------- Why they hold ------------------------------ *)
(* What a command t may have done by the time its working copy is d, the   *)
(* visits todo are still to be made, and its result says movement and      *)
(* travel.  Every command establishes it and every effect keeps it; the    *)
(* action properties above are what it says of a commit.                   *)
TasksLawful(d, movement, travel) ==
  /\ DOMAIN d.tasks = DOMAIN db.tasks
  /\ \A k \in DOMAIN db.tasks :
       LET r == d.tasks[k] IN
       /\ r.kind = db.tasks[k].kind
       /\ db.tasks[k].status # "pending" => r.status # "pending"
       /\ db.tasks[k].status = "pending" /\ r.status # "pending" /\ HoldsTurn(db.tasks[k])
            => travel \in {"moved", "returned"} /\ movement
       /\ db.tasks[k].status = "pending" /\ r.status = "resolved"
            => MayTravelTo(db, r, r.selected)

MayRollDoubles(t) ==
  /\ t = "roll_dice"
  /\ db.lock.type = "skip_rolls_or_doubles" /\ db.lock.onDoubles = "move_sum"

PawnLawful(t, d, todo, movement, travel) ==
  LET stays == todo = <<>> /\ d.cell = db.cell IN
  /\ stays \/ movement \/ t = "set_position"
  /\ Locked(db) => /\ travel \notin {"moved", "returned"}
                   /\ stays \/ t = "set_position" \/ MayRollDoubles(t)

EndLawful(d, todo) ==
  d.status = "ended" =>
    todo = <<>> /\ \A k \in DOMAIN d.tasks : d.tasks[k].status # "pending"

Lawful(t, d, todo, movement, travel) ==
  /\ d.session = db.session /\ d.presentation = db.presentation
  /\ TasksLawful(d, movement, travel)
  /\ PawnLawful(t, d, todo, movement, travel)
  /\ EndLawful(d, todo)

(* The reservation a command is about to insert is the only pending one.   *)
NewTravelAlone ==
  /\ Len(tx.travels) <= 1
  /\ tx.travels # <<>> => ~HasTravel(tx.d) /\ tx.d.status # "ended"
  /\ \A k \in DOMAIN tx.travels : tx.travels[k].kind = "choose_destination"

(* The inductive invariant of turns and travel. *)
TurnInv ==
  /\ OnePendingTravel(db) /\ EndedIsQuiet
  /\ tx # Idle => /\ Lawful(tx.type, tx.d, tx.todo, tx.movement, tx.travel)
                  /\ OnePendingTravel(tx.d)
                  /\ NewTravelAlone

(* The inductive invariant of stock. *)
StockSound(d) == StockFits(d) /\ \A i \in Items : LedgerExplains(d, i)
StockInv == Throughout(StockSound)

(* The inductive invariant of counters. *)
CounterSound(d, c) ==
  Reserved(d, c) <= d.counters[c] /\ d.credited[c] = d.counters[c] + Taken(d, c)
CountersSound(d) == \A c \in Counters : CounterSound(d, c)
CountersInv == Throughout(CountersSound)
=============================================================================
